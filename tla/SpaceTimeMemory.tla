--------------------------- MODULE SpaceTimeMemory --------------------------
(***************************************************************************)
(* The memory half of                                                      *)
(* src/profiling/space-time-stack/kp_space_time_stack.cpp: the allocations *)
(* of each space, and the snapshot of them at their high water mark.       *)
(*                                                                         *)
(* An allocation is found by its size and its address, the order of        *)
(* alloc_set; the frame it was made in is kept for the report.  The module *)
(* has the callbacks of the memory half on its own variables; the tool,    *)
(* SpaceTimeTool, joins them with those of the time half.                  *)
(***************************************************************************)
EXTENDS Integers, Maps

CONSTANTS
  Spaces,    (* the spaces of the tool: HOST, CUDA, ...                     *)
  Handles,   (* the spaces of Kokkos                                        *)
  SpaceOf,   (* handle -> space; a handle without one is not recognised     *)
  Addresses, (* addresses, null excepted                                    *)
  Sizes,     (* sizes of allocations                                        *)
  MaxCalls   (* Bound of the model: allocations the host makes              *)

ASSUME SpaceTimeMemoryAssumption ==
  /\ DOMAIN SpaceOf \subseteq Handles
  /\ SpaceOf \in [DOMAIN SpaceOf -> Spaces]
  /\ Sizes \subseteq Nat
  /\ MaxCalls \in Nat

VARIABLES
  current, (* space -> current_allocations                                  *)
  hwm,     (* space -> hwm_allocations                                      *)
  held,    (* host: address -> what it holds there                          *)
  made,    (* host: allocations made                                        *)
  bytes,   (* host: space -> bytes it holds that the tool was told of       *)
  peak     (* host: space -> the most bytes it held, and what they were     *)

memory == <<current, hwm, held, made, bytes, peak>>

NoAllocations == [total_size |-> 0, alloc_set |-> {}]

InitMemory ==
  /\ current = [s \in Spaces |-> NoAllocations]
  /\ hwm = [s \in Spaces |-> NoAllocations]
  /\ held = EmptyMap
  /\ made = 0
  /\ bytes = [s \in Spaces |-> 0]
  /\ peak = [s \in Spaces |-> NoAllocations]

-----------------------------------------------------------------------------
(* Allocations                                                             *)

Allocation(ptr, size, frame) == [ptr |-> ptr, size |-> size, frame |-> frame]

\* alloc_set.find: the entry that operator< does not tell apart from these.
Found(allocations, ptr, size) ==
  {e \in allocations.alloc_set : e.ptr = ptr /\ e.size = size}

InSet(allocations, ptr, size) == Found(allocations, ptr, size) # {}

\* emplace keeps the entry that is there; the total grows all the same.  A null
\* pointer has size 0 and is ignored: the host's addresses exclude null.
allocate(allocations, ptr, size, frame) ==
  [total_size |-> allocations.total_size + size,
   alloc_set  |-> IF InSet(allocations, ptr, size) THEN allocations.alloc_set
                  ELSE allocations.alloc_set \cup {Allocation(ptr, size, frame)}]

\* Mutant: an allocation that is not in the set is subtracted all the same.
deallocateUnchecked(allocations, ptr, size) ==
  [total_size |-> allocations.total_size - size,
   alloc_set  |-> allocations.alloc_set \ Found(allocations, ptr, size)]

\* Mutant: the allocation leaves the set and stays in the total.
eraseOnly(allocations, ptr, size) ==
  [allocations EXCEPT !.alloc_set = @ \ Found(allocations, ptr, size)]

\* An allocation that is not in the set is reported, and changes nothing.
deallocate(allocations, ptr, size) ==
  IF InSet(allocations, ptr, size)
  THEN [total_size |-> allocations.total_size - size,
        alloc_set  |-> allocations.alloc_set \ Found(allocations, ptr, size)]
  ELSE allocations

\* State::allocate: the snapshot is taken when the total exceeds the one held.
Snapshot(allocations, mark) ==
  IF allocations.total_size > mark.total_size THEN allocations ELSE mark

-----------------------------------------------------------------------------
(* The host: it allocates addresses it does not hold, and frees what it     *)
(* holds.  What it allocated before the tool was initialised is not seen.  *)

HeldIn(h, s) ==
  {Allocation(a, h[a].size, h[a].frame) : a \in
     {b \in DOMAIN h : h[b].seen /\ SpaceOf[h[b].handle] = s}}

HostAllocates(handle, ptr, size, within, seen) ==
  /\ made < MaxCalls
  /\ ptr \notin DOMAIN held
  /\ made' = made + 1
  /\ held' = Assign(held, ptr, [handle |-> handle, size |-> size,
                               frame |-> within, seen |-> seen])

AllocateUnseen(handle, ptr, size, within) ==
  /\ HostAllocates(handle, ptr, size, within, FALSE)
  /\ UNCHANGED <<current, hwm, bytes, peak>>

\* kokkosp_allocate_data, in the frame that is the tool's innermost; the host is
\* in the frame within.
AllocateData(handle, ptr, size, frame, within) ==
  LET s == SpaceOf[handle]
      grown == allocate(current[s], ptr, size, frame)
  IN /\ HostAllocates(handle, ptr, size, within, TRUE)
     /\ current' = [current EXCEPT ![s] = grown]
     /\ hwm' = [hwm EXCEPT ![s] = Snapshot(grown, @)]
     /\ bytes' = [bytes EXCEPT ![s] = @ + size]
     /\ peak' = IF bytes[s] + size > peak[s].total_size
                THEN [peak EXCEPT ![s] = [total_size |-> bytes[s] + size,
                                          alloc_set  |-> HeldIn(held', s)]]
                ELSE peak

\* kokkosp_deallocate_data
DeallocateData(ptr) ==
  LET s == SpaceOf[held[ptr].handle]
  IN /\ current' = [current EXCEPT ![s] = deallocate(@, ptr, held[ptr].size)]
     /\ bytes' = IF held[ptr].seen
                 THEN [bytes EXCEPT ![s] = @ - held[ptr].size] ELSE bytes
     /\ held' = Erase(held, ptr)
     /\ UNCHANGED <<hwm, made, peak>>

-----------------------------------------------------------------------------
(* Properties                                                              *)

\* The allocations without the frames they were made in.
Unframed(allocations) ==
  [total_size |-> allocations.total_size,
   alloc_set  |-> {[ptr |-> e.ptr, size |-> e.size] : e \in allocations.alloc_set}]

\* The tool's account of a space is what the host holds there: an allocation
\* the tool never saw is freed without disturbing it, although addresses are
\* used again and Kokkos spaces share a space of the tool (lines 513-544).
AccountIsTrue ==
  \A s \in Spaces :
    Unframed(current[s]) =
    Unframed([total_size |-> bytes[s], alloc_set |-> HeldIn(held, s)])

=============================================================================
