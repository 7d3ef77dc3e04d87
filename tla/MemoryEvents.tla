---------------------------- MODULE MemoryEvents ----------------------------
(***************************************************************************)
(* The memory tools, src/profiling/memory-events/kp_memory_events.cpp and  *)
(* src/profiling/memory-usage/kp_memory_usage.cpp, which has the same code *)
(* without the log.                                                        *)
(*                                                                         *)
(* Threads report allocations, deallocations and regions at any time.  The *)
(* callbacks take one mutex; what they do under it is split where another  *)
(* thread would see the difference if they did not.                        *)
(***************************************************************************)
EXTENDS Integers, Sequences, FiniteSetsExt, Maps

CONSTANTS
  Threads,    (* threads of the host                                       *)
  SpaceNames, (* names of the memory spaces                                *)
  Addresses,  (* what malloc may return                                    *)
  Sizes,      (* sizes of allocations                                      *)
  Idle,       (* no callback                                               *)
  Recorded,   (* in a callback that has taken effect                       *)
  NoThread,   (* nobody holds the mutex                                    *)
  MaxSpaces,  (* entries of the tables: 16                                 *)
  MaxCalls    (* Bound of the model: callbacks                             *)

\* Kokkos has fewer spaces than the tables have entries.
ASSUME MemoryEventsAssumption ==
  /\ IsFiniteSet(SpaceNames) /\ MaxSpaces \in Nat
  /\ Cardinality(SpaceNames) <= MaxSpaces
  /\ Sizes \subseteq Nat \ {0}
  /\ NoThread \notin Threads

Tools == {"memory-events", "memory-usage"}

VARIABLES
  tool,             (* the tool the process has loaded                     *)
  pc,               (* where each thread is                                *)
  call,             (* the callback it is in, or Idle                      *)
  m,                (* the thread that holds the mutex                     *)
  clock,            (* readings of the timer                               *)
  time,             (* thread -> its reading                               *)
  space_i,          (* thread -> the space it found                        *)
  space_name,       (* the spaces; num_spaces of them                      *)
  space_size,       (* index -> bytes                                      *)
  space_size_track, (* index -> [time, size] after each change             *)
  events,           (* the log                                             *)
  files,            (* name -> the last high water mark in its file        *)
  memory,           (* host: address -> [space, size, seen] of its memory  *)
  unseenFreed,      (* host: memory was freed whose allocation was not seen *)
  finalized,        (* host: the tool is finalized                         *)
  made              (* host: callbacks made                                *)

tables == <<space_name, space_size, space_size_track>>
host   == <<memory, unseenFreed, finalized, made>>
vars   == <<tool, pc, call, m, clock, time, space_i, tables, events, files, host>>

num_spaces == Len(space_name)

MemoryCalls ==
  [op : {"allocate", "deallocate"}, space : SpaceNames, ptr : Addresses, size : Sizes]

RegionCalls == [op : {"push", "pop"}]

Calls == MemoryCalls \cup RegionCalls

ASSUME IdleAssumption == Idle \notin Calls

\* The host may own memory that it allocated before the tool was there.
Init ==
  /\ tool \in Tools
  /\ pc = [t \in Threads |-> "idle"]
  /\ call = [t \in Threads |-> Idle]
  /\ m = NoThread
  /\ clock = 0
  /\ time = [t \in Threads |-> 0]
  /\ space_i = [t \in Threads |-> 0]
  /\ space_name = << >>
  /\ space_size = [s \in 1 .. MaxSpaces |-> 0]
  /\ space_size_track = [s \in 1 .. MaxSpaces |-> << >>]
  /\ events = << >>
  /\ files = EmptyMap
  /\ memory \in {EmptyMap} \cup
       [{CHOOSE a \in Addresses : TRUE} -> [space : SpaceNames, size : Sizes, seen : {FALSE}]]
  /\ unseenFreed = FALSE
  /\ finalized = FALSE
  /\ made = 0

-----------------------------------------------------------------------------
(* The host                                                                *)

InCallback(ptr) ==
  \E t \in Threads : call[t] \in MemoryCalls /\ call[t].ptr = ptr

\* It reports memory once it has it, and before it gives it back: until a
\* callback returns, its memory is not used for another.
Reports(c) ==
  CASE c.op = "allocate" ->
         /\ c.ptr \notin DOMAIN memory
         /\ memory' = Assign(memory, c.ptr, [space |-> c.space, size |-> c.size, seen |-> TRUE])
         /\ UNCHANGED unseenFreed
    [] c.op = "deallocate" ->
         /\ c.ptr \in DOMAIN memory
         /\ ~ InCallback(c.ptr)
         /\ <<c.space, c.size>> = <<memory[c.ptr].space, memory[c.ptr].size>>
         /\ unseenFreed' = (unseenFreed \/ ~ memory[c.ptr].seen)
         /\ UNCHANGED memory
    [] c.op \in {"push", "pop"} -> tool = "memory-events" /\ UNCHANGED <<memory, unseenFreed>>

Enter(t, c) ==
  /\ ~ finalized /\ made < MaxCalls
  /\ pc[t] = "idle"
  /\ Reports(c)
  /\ pc' = [pc EXCEPT ![t] = "lock"]
  /\ call' = [call EXCEPT ![t] = c]
  /\ made' = made + 1
  /\ UNCHANGED <<tool, m, clock, time, space_i, tables, events, files, finalized>>

-----------------------------------------------------------------------------
(* The callbacks                                                           *)

\* Mutant: the lock guard is missing.
Unguarded(t) == TRUE

LockIsFree(t) == m = NoThread

\* lock_guard, then the timer; regions have no more to do than to be recorded.
Lock(t) ==
  /\ pc[t] = "lock"
  /\ LockIsFree(t)
  /\ m' = t
  /\ clock' = clock + 1
  /\ time' = [time EXCEPT ![t] = clock + 1]
  /\ pc' = [pc EXCEPT ![t] = IF call[t] \in MemoryCalls THEN "find" ELSE "record"]
  /\ UNCHANGED <<tool, call, space_i, tables, events, files, host>>

\* Mutant: the loop stops before the last space.
NamedButLast(name) == {s \in 1 .. num_spaces - 1 : space_name[s] = name}

Named(name) == {s \in 1 .. num_spaces : space_name[s] = name}

\* The index of the name, or of the entry behind the last one.
FindSpace(t) ==
  /\ pc[t] = "find"
  /\ space_i' = [space_i EXCEPT ![t] =
       IF Named(call[t].space) = {} THEN num_spaces + 1 ELSE Max(Named(call[t].space))]
  /\ pc' = [pc EXCEPT ![t] = "account"]
  /\ UNCHANGED <<tool, call, m, clock, time, tables, events, files, host>>

\* Mutant: the size is not compared first.
Unchecked(used, c) ==
  CASE c.op = "allocate"   -> used + c.size
    [] c.op = "deallocate" -> used - c.size

NewSize(used, c) ==
  CASE c.op = "allocate"   -> used + c.size
    [] c.op = "deallocate" -> IF used >= c.size THEN used - c.size ELSE used

\* Only a deallocation of more than there is leaves no line.
IsTracked(c, used) == c.op = "allocate" \/ used >= c.size

\* A new space gets the next entry.  Then the size is changed and tracked.
Account(t) ==
  LET s    == space_i[t]
      used == space_size[s]
      size == NewSize(used, call[t])
  IN /\ pc[t] = "account"
     /\ space_name' = IF s = num_spaces + 1 THEN Append(space_name, call[t].space)
                      ELSE space_name
     /\ space_size' = [space_size EXCEPT ![s] = size]
     /\ space_size_track' =
          IF IsTracked(call[t], used)
          THEN [space_size_track EXCEPT ![s] = Append(@, [time |-> time[t], size |-> size])]
          ELSE space_size_track
     /\ pc' = [pc EXCEPT ![t] = "record"]
     /\ UNCHANGED <<tool, call, m, clock, time, space_i, events, files, host>>

EventOf(t) ==
  IF call[t] \in MemoryCalls
  THEN [op |-> call[t].op, space |-> space_i[t], ptr |-> call[t].ptr, size |-> call[t].size,
        time |-> time[t]]
  ELSE [op |-> call[t].op, time |-> time[t]]

\* Mutant: the mutex is locked without a guard that unlocks it.
NotUnlocked(t) == t

Unlocked(t) == NoThread

\* push_back of the event, and the end of the lock guard.  The host gives
\* memory back that it reported as deallocated.
Record(t) ==
  /\ pc[t] = "record"
  /\ events' = IF tool = "memory-events" THEN Append(events, EventOf(t)) ELSE events
  /\ m' = Unlocked(t)
  /\ pc' = [pc EXCEPT ![t] = "idle"]
  /\ call' = [call EXCEPT ![t] = Idle]
  /\ memory' = IF call[t].op = "deallocate" THEN Erase(memory, call[t].ptr) ELSE memory
  /\ UNCHANGED <<tool, clock, time, space_i, tables, files, unseenFreed, finalized, made>>

SizesOf(track) == {track[i].size : i \in DOMAIN track}

\* Mutant: the file of a space ends with its last size.
LastSize(track) == IF track = << >> THEN 0 ELSE track[Len(track)].size

\* maxvalue over the lines of a file.
HighWater(track) == Max({0} \cup SizesOf(track))

\* One file for each space, named for it; a later file replaces one of the same name.
Finalize ==
  /\ ~ finalized
  /\ \A t \in Threads : pc[t] = "idle"
  /\ files' = [n \in {space_name[s] : s \in 1 .. num_spaces} |->
                 HighWater(space_size_track[Max({s \in 1 .. num_spaces : space_name[s] = n})])]
  /\ finalized' = TRUE
  /\ UNCHANGED <<tool, pc, call, m, clock, time, space_i, tables, events,
                 memory, unseenFreed, made>>

Step(t) == Lock(t) \/ FindSpace(t) \/ Account(t) \/ Record(t)

Next ==
  \/ \E t \in Threads, c \in Calls : Enter(t, c)
  \/ \E t \in Threads : Lock(t)
  \/ \E t \in Threads : FindSpace(t)
  \/ \E t \in Threads : Account(t)
  \/ \E t \in Threads : Record(t)
  \/ Finalize

\* A thread in a callback keeps running, and a host that makes finitely many
\* callbacks (MaxCalls) lets every one of them have the mutex in the end.
Spec == Init /\ [][Next]_vars /\ \A t \in Threads : WF_vars(Step(t))

-----------------------------------------------------------------------------
(* Properties                                                              *)

\* The type of the state of the tools (kp_memory_events.cpp:21-31).
MemTypeOK ==
  /\ m \in Threads \cup {NoThread}
  /\ space_name \in Seq(SpaceNames) /\ num_spaces <= MaxSpaces
  /\ \A s \in 1 .. MaxSpaces : space_size[s] \in Nat
  /\ \A t \in Threads : call[t] = Idle <=> pc[t] = "idle"

\* A space has one entry, however many threads are the first to name it (lines
\* 102-109): so 16 entries are enough, and no two files get the same name.
SpacesDistinct ==
  \A i, j \in 1 .. num_spaces : space_name[i] = space_name[j] => i = j

\* Both files are ordered by time: the timer is read under the mutex (lines 98-100).
InTimeOrder(lines) ==
  \A i, j \in DOMAIN lines : i < j => lines[i].time < lines[j].time

LinesInTimeOrder ==
  /\ InTimeOrder(events)
  /\ \A s \in 1 .. num_spaces : InTimeOrder(space_size_track[s])

Quiet == \A t \in Threads : pc[t] = "idle"

Live(name) ==
  SumOver([a \in DOMAIN memory |-> memory[a].size],
          {a \in DOMAIN memory : memory[a].seen /\ memory[a].space = name})

\* While no thread is in a callback, the size of every space is that of the memory
\* the host has allocated there, until memory is freed whose allocation was not
\* seen (lines 111 and 132-133).
UsageIsTrue ==
  Quiet /\ ~ unseenFreed =>
    /\ \A s \in 1 .. num_spaces : space_size[s] = Live(space_name[s])
    /\ \A n \in SpaceNames : Live(n) > 0 => \E s \in 1 .. num_spaces : space_name[s] = n

\* The events as the abstract account keeps them, with that of the thread which
\* has changed a size and not yet written its line.
CallOf(event) ==
  IF event.op \in {"allocate", "deallocate"}
  THEN [op |-> event.op, space |-> space_name[event.space], ptr |-> event.ptr,
        size |-> event.size]
  ELSE [op |-> event.op]

Written == [i \in DOMAIN events |-> CallOf(events[i])]

LogNow ==
  IF tool = "memory-events" /\ m # NoThread /\ pc[m] = "record"
  THEN Append(Written, call[m]) ELSE Written

\* The table, by name.
SpacesNamed == {space_name[s] : s \in 1 .. num_spaces}

Entry(name) == CHOOSE s \in 1 .. num_spaces : space_name[s] = name

Usage == [n \in SpacesNamed |-> space_size[Entry(n)]]

Peak == [n \in SpacesNamed |-> HighWater(space_size_track[Entry(n)])]

Doing == [t \in Threads |-> IF pc[t] = "record" THEN Recorded ELSE call[t]]

Atomic == INSTANCE MemoryAccount WITH
  doing <- Doing, logging <- (tool = "memory-events"),
  usage <- Usage, peak <- Peak, log <- LogNow, report <- files

\* The callbacks take effect one at a time, each between its start and its return,
\* and what is reported of a space is its peak (both tools, lines 78-93).
OneAtATime == Atomic!Spec

\* Every callback returns: no thread waits for a mutex that is never unlocked
\* (lines 98, 120, 143 and 149).
CallbacksReturn == \A t \in Threads : pc[t] = "lock" ~> pc[t] = "idle"

=============================================================================
