-------------------------- MODULE RangeConnectors ---------------------------
(***************************************************************************)
(* The connectors that hand blocks to a profiler as ranges:                *)
(*   src/profiling/nvtx-connector/kp_nvtx_connector.cpp                    *)
(*   src/profiling/roctx-connector/kp_roctx_connector.cpp                  *)
(*   src/profiling/perfetto-connector/libperfetto-connector.cpp            *)
(*                                                                         *)
(* Kernels, regions and copies are pushed and popped on the profiler's     *)
(* stack, which ends whatever is innermost.  Sections and fences are       *)
(* started and ended by the number the profiler gives a range.             *)
(***************************************************************************)
EXTENDS HostTrace, Maps

VARIABLES
  pushed,   (* profiler: the stack of the ranges that are pushed            *)
  started,  (* profiler: number -> name of the ranges that are started      *)
  ranges,   (* profiler: ranges started so far                              *)
  sections  (* kokkosp_sections: [label, id] by section number, from 0      *)

rangeVars == <<pushed, started, ranges, sections>>

RangeTools == {"nvtx-connector", "roctx-connector", "perfetto-connector"}

\* std::numeric_limits<uint64_t>::max(): the handle of a fence that is left out.
\* (nvtxRangeId_t)-1, the id of a section that was not started, is the same value.
UINT64_MAX == -1

InitRanges ==
  /\ pushed = << >>
  /\ started = EmptyMap
  /\ ranges = 0
  /\ sections = << >>

Pushed(what, name) == [what |-> what, name |-> name]

RangePush(what, name) ==
  /\ pushed' = Append(pushed, Pushed(what, name))
  /\ UNCHANGED <<started, ranges, sections>>

\* A pop without a range is an error the profiler ignores.
InnermostEnded(stack) == IF stack = << >> THEN stack ELSE Front(stack)

RangePop ==
  /\ pushed' = InnermostEnded(pushed)
  /\ UNCHANGED <<started, ranges, sections>>

\* The number of the range that is started next.
NewRange == ranges + 1

RangeStart(name) ==
  /\ started' = Assign(started, NewRange, name)
  /\ ranges' = NewRange

\* The NVTX connector leaves the tool's own fences out.
FilteredFence(tool, name) == tool = "nvtx-connector" /\ name = ToolFence

\* The handle that the host hands back at the end of the fence.
FenceHandle(tool, name) == IF FilteredFence(tool, name) THEN UINT64_MAX ELSE NewRange

RangeBeginFence(tool, name) ==
  IF FilteredFence(tool, name) THEN UNCHANGED rangeVars
  ELSE RangeStart(name) /\ UNCHANGED <<pushed, sections>>

EndsRange(id) == IF id = UINT64_MAX THEN UNCHANGED started ELSE started' = Erase(started, id)

RangeEndFence(id) == EndsRange(id) /\ UNCHANGED <<pushed, ranges, sections>>

RangeEnd(id) ==
  /\ started' = Erase(started, id)
  /\ UNCHANGED <<pushed, ranges, sections>>

NewSection == Len(sections)

RangeCreateSection(name) ==
  /\ sections' = Append(sections, [label |-> name, id |-> UINT64_MAX])
  /\ UNCHANGED <<pushed, started, ranges>>

\* Mutant: the section is a copy (auto for auto&), which loses the id.
StartedCopy(sID) == sections

StartedSection(sID) == [sections EXCEPT ![sID + 1].id = NewRange]

RangeStartSection(sID) ==
  /\ RangeStart(sections[sID + 1].label)
  /\ sections' = StartedSection(sID)
  /\ UNCHANGED pushed

RangeStopSection(sID) == RangeEnd(sections[sID + 1].id)

-----------------------------------------------------------------------------
(* Properties.  The composition checks them while one of the tools is      *)
(* loaded.                                                                 *)

\* As long as the host pops only regions that it pushed, the profiler has as many
\* ranges pushed as the host has kernels, regions and copies open; and while these
\* nest they are the same, in order (nvtx lines 56-81, roctx lines 65-88, perfetto
\* lines 172-225).
RangesNest ==
  LET blocks == OpenKinds(NestedKinds)
  IN /\ "pop" \notin slips => Len(pushed) = Len(blocks)
     /\ slips \cap {"pop", "overlap"} = {} =>
          pushed = [i \in DOMAIN blocks |-> Pushed(blocks[i].what, blocks[i].name)]

\* Until a section is started again while it runs, each fence and section the host
\* has open is one range the profiler has started, under the right name, and there
\* is no other: ranges end although they overlap in any order, and a fence that was
\* left out ends nothing (nvtx lines 85-130, roctx lines 90-117).
HandlesEnd ==
  "restart" \notin slips =>
    LET handle(b) == IF b.what = "section" THEN sections[b.num + 1].id ELSE b.num
        handed    == {b \in ToSet(OpenKinds({"fence", "section"})) : handle(b) # UINT64_MAX}
    IN /\ DOMAIN started = {handle(b) : b \in handed}
       /\ \A b \in handed : started[handle(b)] = b.name
       /\ \A b \in ToSet(open) : b.what = "section" => b \in handed

=============================================================================
