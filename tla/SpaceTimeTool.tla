---------------------------- MODULE SpaceTimeTool ---------------------------
(***************************************************************************)
(* The space-time stack as one tool: the time half (SpaceTimeStack) and    *)
(* the memory half (SpaceTimeMemory) under one host, with the one thing    *)
(* they share, the innermost frame.  An allocation points at the frame it  *)
(* was made in, and a warning about a deallocation names the frame it is   *)
(* made in, so frames that do not nest reach the memory report as well.    *)
(***************************************************************************)
EXTENDS SpaceTimeStack, SpaceTimeMemory

CONSTANT MaxMixed (* Bound of the model: frames and allocations together    *)

toolVars == <<vars, memory>>

InitTool == Init /\ InitMemory

\* A process has only frames, only allocations, or few of both.
Mixes(frames, allocations) ==
  frames = 0 \/ allocations = 0 \/ frames + allocations <= MaxMixed

\* The callbacks of the time half, and the report.  The memory half reads no
\* clock, so time stands still after the first allocation.
FrameStep ==
  /\ \/ InitLibrary
     \/ made = 0 /\ Tick
     \/ \E frame \in Frames : Mixes(begun + 1, made) /\ Begin(frame)
     \/ \E i \in DOMAIN open : EndKernel(i)
     \/ EndUnnumbered
     \/ PopUnmatched
     \/ BeginCopyUnknown
     \/ \E exportJson \in BOOLEAN : FinalizeLibrary(exportJson)
  /\ UNCHANGED memory

\* The frame the host is in.
HostFrame == IF open = << >> THEN Root ELSE Last(open).node

AllocateBefore(handle, ptr, size) ==
  /\ phase = "loaded"
  /\ AllocateUnseen(handle, ptr, size, HostFrame)
  /\ UNCHANGED vars

\* Mutant: the parent of the innermost frame is noted.
FrameAround == IF stack_frame \in {NullFrame, Root} THEN stack_frame ELSE Front(stack_frame)

\* State::allocate notes stack_frame, null or not, without using it.
FrameNoted == stack_frame

Allocate(handle, ptr, size) ==
  /\ phase = "up"
  /\ handle \in DOMAIN SpaceOf
  /\ Mixes(begun, made + 1)
  /\ AllocateData(handle, ptr, size, FrameNoted, HostFrame)
  /\ UNCHANGED vars

\* The warning of deallocate uses the frame.
Deallocate(ptr) ==
  LET handle == held[ptr].handle
      inSet == InSet(current[SpaceOf[handle]], ptr, held[ptr].size)
  IN /\ phase = "up"
     /\ handle \in DOMAIN SpaceOf
     /\ IF ~ inSet /\ stack_frame = NullFrame
        THEN Crash /\ UNCHANGED <<host, memory>>
        ELSE DeallocateData(ptr) /\ UNCHANGED vars

\* get_space aborts on a space it does not recognise, when memory is allocated
\* there or when memory from before the tool is freed.
UnknownSpace(handle) ==
  /\ phase = "up"
  /\ handle \notin DOMAIN SpaceOf
  /\ Abort
  /\ UNCHANGED <<host, memory>>

TerminatedTool == Terminated /\ UNCHANGED memory

NextTool ==
  \/ FrameStep
  \/ \E handle \in Handles, ptr \in Addresses, size \in Sizes :
       AllocateBefore(handle, ptr, size)
  \/ \E handle \in Handles, ptr \in Addresses, size \in Sizes :
       Allocate(handle, ptr, size)
  \/ \E ptr \in DOMAIN held : Deallocate(ptr)
  \/ \E handle \in Handles : UnknownSpace(handle)
  \/ TerminatedTool

ToolSpec == InitTool /\ [][NextTool]_toolVars

-----------------------------------------------------------------------------
(* Properties                                                              *)

NodePointers == DOMAIN tree \cup {NullFrame}

AllocationsOK(allocations) ==
  /\ allocations.total_size \in Nat
  /\ \A e \in allocations.alloc_set :
       e.ptr \in Addresses /\ e.size \in Sizes /\ e.frame \in NodePointers

\* The type of every variable of both halves; a frame an allocation points at
\* is a node of the tree (kp_space_time_stack.cpp:495-512, 637-641).
ToolTypeOK ==
  /\ TypeOK
  /\ \A s \in Spaces : AllocationsOK(current[s]) /\ AllocationsOK(hwm[s])
  /\ \A a \in DOMAIN held : a \in Addresses /\ held[a].handle \in Handles
  /\ made \in 0 .. MaxCalls

\* What is reported of the peak of a space names the frames the host was in when
\* it made each allocation, although the tool took its own innermost frame, and
\* pops that come too often or under a kernel move that away from the host's
\* (lines 749-760, 770-777): no such run comes to a report.
SnapshotFramesTrue == Finished => hwm = peak

=============================================================================
