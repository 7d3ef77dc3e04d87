--------------------------- MODULE SpaceTimeStack ---------------------------
(***************************************************************************)
(* The time half of src/profiling/space-time-stack/kp_space_time_stack.cpp *)
(* in one process: the tree of frames the callbacks build, and the report  *)
(* that ~State computes from it.                                           *)
(*                                                                         *)
(* A node is named by its path from the root, so that a StackNode* is a    *)
(* path and get_child(name, kind) appends to it.  The number a kernel is   *)
(* given is the address of its node.                                       *)
(***************************************************************************)
EXTENDS StackTree, Maps

CONSTANTS
  Frames,    (* the frames the host begins: [name, kind], names demangled   *)
  NullFrame, (* stack_frame == nullptr                                      *)
  MaxBegins, (* Bound of the model: frames begun                            *)
  MaxClock   (* Bound of the model: clock readings that differ              *)

KernelKinds == {"for", "reduce", "scan"}
StackKinds  == KernelKinds \cup {"region", "copy"}

ASSUME SpaceTimeStackAssumption ==
  /\ \A f \in Frames : f.kind \in StackKinds
  /\ NullFrame \notin Seq(Frames)
  /\ MaxBegins \in Nat
  /\ MaxClock \in Nat

VARIABLES
  phase,       (* life of the tool                                          *)
  clock,       (* high_resolution_clock                                     *)
  tree,        (* path -> StackNode                                         *)
  stack_frame, (* path of the innermost frame                               *)
  inverted,    (* path -> total_runtime of the bottom-up tree               *)
  open,        (* host: what it has begun and not ended, in order           *)
  begun,       (* host: frames begun                                        *)
  kernels,     (* host: kernels and copies begun                            *)
  elapsed      (* host: path -> time between the begins and ends under it   *)

host == <<open, begun, kernels, elapsed>>
vars == <<phase, clock, tree, stack_frame, inverted, open, begun, kernels, elapsed>>

KindOf(path) == IF path = Root THEN "region" ELSE Last(path).kind

NewNode == [total_runtime |-> 0, total_kokkos_runtime |-> 0, number_of_calls |-> 0,
            total_number_of_kernel_calls |-> 0, start_time |-> 0]

\* Mutant: a copy is not counted as a kernel call.
BegunWithoutCopies(node, kind) ==
  [node EXCEPT !.number_of_calls = @ + 1,
               !.total_number_of_kernel_calls = @ + (IF kind \in KernelKinds THEN 1 ELSE 0),
               !.start_time = clock]

\* StackNode::begin: the call is counted, and the clock is read.
BegunNode(node, kind) ==
  [node EXCEPT !.number_of_calls = @ + 1,
               !.total_number_of_kernel_calls = @ + (IF kind = "region" THEN 0 ELSE 1),
               !.start_time = clock]

\* StackNode::end.
EndedNode(node) == [node EXCEPT !.total_runtime = @ + (clock - node.start_time)]

Init ==
  /\ phase = "loaded"
  /\ clock = 0
  /\ tree = EmptyMap
  /\ stack_frame = NullFrame
  /\ inverted = EmptyMap
  /\ open = << >>
  /\ begun = 0
  /\ kernels = 0
  /\ elapsed = EmptyMap

\* kokkosp_init_library: the root frame begins.
InitLibrary ==
  /\ phase = "loaded"
  /\ phase' = "up"
  /\ tree' = Assign(tree, Root, BegunNode(NewNode, "region"))
  /\ stack_frame' = Root
  /\ UNCHANGED <<clock, inverted, host>>

Tick ==
  /\ phase = "up"
  /\ clock < MaxClock
  /\ clock' = clock + 1
  /\ UNCHANGED <<phase, tree, stack_frame, inverted, host>>

-----------------------------------------------------------------------------
(* Frames                                                                  *)

\* Any use of a null stack_frame ends the process.
Abort ==
  /\ phase' = "aborted"
  /\ UNCHANGED <<clock, tree, stack_frame, inverted>>

Crash ==
  /\ phase' = "crashed"
  /\ UNCHANGED <<clock, tree, stack_frame, inverted>>

\* begin_frame: the child is found or made, and begins.
begin_frame(frame) ==
  LET path == Append(stack_frame, frame)
      node == IF path \in DOMAIN tree THEN tree[path] ELSE NewNode
  IN /\ tree' = Assign(tree, path, BegunNode(node, frame.kind))
     /\ stack_frame' = path
     /\ UNCHANGED <<phase, clock, inverted>>

\* end_frame: the innermost frame ends; the parent of the root is null.
end_frame ==
  /\ tree' = [tree EXCEPT ![stack_frame] = EndedNode(@)]
  /\ stack_frame' = IF stack_frame = Root THEN NullFrame ELSE Front(stack_frame)
  /\ UNCHANGED <<phase, clock, inverted>>

HostBegins(frame) ==
  /\ begun' = begun + 1
  /\ kernels' = kernels + (IF frame.kind = "region" THEN 0 ELSE 1)
  /\ open' = IF stack_frame = NullFrame THEN open
             ELSE Append(open, [kind |-> frame.kind, since |-> clock,
                                node |-> Append(stack_frame, frame)])
  /\ UNCHANGED elapsed

\* The time the host has spent under a node.
Elapsed(node) == IF node \in DOMAIN elapsed THEN elapsed[node] ELSE 0

HostEnds(i) ==
  LET node == open[i].node
  IN /\ elapsed' = Assign(elapsed, node, Elapsed(node) + (clock - open[i].since))
     /\ open' = RemoveAt(open, i)
     /\ UNCHANGED <<begun, kernels>>

\* kokkosp_begin_parallel_*, kokkosp_push_profile_region, kokkosp_begin_deep_copy
Begin(frame) ==
  /\ phase = "up"
  /\ begun < MaxBegins
  /\ HostBegins(frame)
  /\ IF stack_frame = NullFrame THEN Crash ELSE begin_frame(frame)

\* Mutant: any kernel may end.
ExpectAny(i) == TRUE

ExpectedEnd(i) == open[i].node = stack_frame

\* kokkosp_end_parallel_*: kernels may end in any order, but the tool only
\* accepts the end of the innermost frame and aborts on any other.
EndKernel(i) ==
  /\ phase = "up"
  /\ open[i].kind \in KernelKinds
  /\ HostEnds(i)
  /\ IF stack_frame = NullFrame THEN Crash
     ELSE IF ~ ExpectedEnd(i)
          THEN Abort
          ELSE end_frame

\* kokkosp_begin_deep_copy between spaces get_space does not recognise.
BeginCopyUnknown ==
  /\ phase = "up"
  /\ Abort
  /\ UNCHANGED host

\* The last region or copy the host has open: these carry no number, and come
\* from one thread.
LastUnnumbered == SelectLastInSeq(open, LAMBDA o : o.kind \notin KernelKinds)

\* kokkosp_end_deep_copy and kokkosp_pop_profile_region.
EndUnnumbered ==
  /\ phase = "up"
  /\ LastUnnumbered # 0
  /\ HostEnds(LastUnnumbered)
  /\ IF stack_frame = NullFrame THEN Crash ELSE end_frame

\* kokkosp_pop_profile_region once too often.
PopUnmatched ==
  /\ phase = "up"
  /\ LastUnnumbered = 0
  /\ IF stack_frame = NullFrame THEN Crash ELSE end_frame
  /\ UNCHANGED host

-----------------------------------------------------------------------------
(* ~State                                                                  *)

\* adopt: a frame that is not a region adds its own time to the time in
\* Kokkos, and every frame adds that of its children and their kernel calls.
adopt(t) ==
  LET kokkos[p \in DOMAIN t] ==
        (IF KindOf(p) # "region" THEN t[p].total_runtime ELSE 0)
        + SumOver(kokkos, ChildrenOf(DOMAIN t, p))
      calls[p \in DOMAIN t] ==
        t[p].total_number_of_kernel_calls
        + SumOver(calls, ChildrenOf(DOMAIN t, p))
  IN [p \in DOMAIN t |-> [t[p] EXCEPT !.total_kokkos_runtime = kokkos[p],
                                      !.total_number_of_kernel_calls = calls[p]]]

Times(t) == [p \in DOMAIN t |-> t[p].total_runtime]

\* kokkosp_finalize_library, when no kernel and no copy is in flight.  With
\* KOKKOS_PROFILE_EXPORT_JSON the tree is written and never inverted.
FinalizeLibrary(exportJson) ==
  /\ phase = "up"
  /\ \A i \in DOMAIN open : open[i].kind = "region"
  /\ CASE stack_frame = NullFrame -> Crash
       [] stack_frame \notin {NullFrame, Root} -> Abort
       [] stack_frame = Root ->
            /\ phase' = IF exportJson THEN "exported" ELSE "reported"
            /\ tree' = adopt([tree EXCEPT ![Root] = EndedNode(@)])
            /\ inverted' = IF exportJson THEN inverted ELSE invert(Times(tree'))
            /\ UNCHANGED <<clock, stack_frame>>
  /\ UNCHANGED host

Finished == phase \in {"reported", "exported"}

Terminated == (Finished \/ phase \in {"aborted", "crashed"}) /\ UNCHANGED vars

Next ==
  \/ InitLibrary
  \/ Tick
  \/ \E frame \in Frames : Begin(frame)
  \/ \E i \in DOMAIN open : EndKernel(i)
  \/ EndUnnumbered
  \/ PopUnmatched
  \/ BeginCopyUnknown
  \/ \E exportJson \in BOOLEAN : FinalizeLibrary(exportJson)
  \/ Terminated

Spec == Init /\ [][Next]_vars

-----------------------------------------------------------------------------
(* Properties                                                              *)

NodeType == [total_runtime : Nat, total_kokkos_runtime : Nat, number_of_calls : Nat,
             total_number_of_kernel_calls : Nat, start_time : 0 .. MaxClock]

\* The type of every variable (kp_space_time_stack.cpp:135-157, 637-641).
TypeOK ==
  /\ phase \in {"loaded", "up", "reported", "exported", "aborted", "crashed"}
  /\ clock \in 0 .. MaxClock
  /\ \A p \in DOMAIN tree : tree[p] \in NodeType
  /\ stack_frame \in DOMAIN tree \cup {NullFrame}
  /\ \A p \in DOMAIN inverted : inverted[p] \in Nat
  /\ \A i \in DOMAIN open : open[i].node \in DOMAIN tree
  /\ begun \in 0 .. MaxBegins
  /\ kernels \in 0 .. begun

\* A report attributes to every frame exactly the time the host spent in it.
\* Kernels that overlap, a region that is popped under a running kernel and a
\* pop too many would all spoil it, and all are stopped by the test of
\* end_kernel (line 761), by the one of ~State (line 653) or by a null frame.
ReportIsTrue ==
  Finished =>
    \A p \in DOMAIN tree \ {Root} : tree[p].total_runtime = Elapsed(p)

\* The bottom-up tree accounts for the whole run, at its root and again over
\* the frames below the root (lines 206-240).
InversionConserves ==
  phase = "reported" =>
    /\ inverted[Root] = tree[Root].total_runtime
    /\ SumOver(inverted, ChildrenOf(DOMAIN inverted, Root)) = tree[Root].total_runtime

\* "Counts all kernel calls (but not region calls) this node and below this
\* node in the tree" (lines 145-147): the root counts every kernel begun.
KernelCallsCounted ==
  Finished => tree[Root].total_number_of_kernel_calls = kernels

\* The column "<percent time in Kokkos>" of the report (lines 690-691) is
\* total_kokkos_runtime out of total_runtime: a part of the whole, a percentage.
KokkosTimeWithinTotal ==
  Finished =>
    \A p \in DOMAIN tree : tree[p].total_kokkos_runtime <= tree[p].total_runtime

=============================================================================
