--------------------------- MODULE ChromeTracing ----------------------------
(***************************************************************************)
(* The Chrome trace writer,                                                *)
(* src/profiling/chrome-tracing/kp_chrome_tracing.cpp: a stack of frames,  *)
(* and one record with start and duration in the file for each frame that  *)
(* ends.  Times count the begins of the host.                              *)
(***************************************************************************)
EXTENDS HostTrace

VARIABLES
  current_stack, (* the frames: [name, kind, start_time]     *)
  outfile        (* the records, with the time of their end  *)

chromeVars == <<current_stack, outfile>>

InitChrome ==
  /\ current_stack = << >>
  /\ outfile = << >>

begin_frame(name, kind) ==
  /\ current_stack' = Append(current_stack, [name |-> name, kind |-> kind, start_time |-> begun])
  /\ UNCHANGED outfile

\* Mutant: the frame that began first is written and removed.
OldestFrame(stack) == 1

EndingFrame(stack) == Len(stack)

\* Mutant: a frame is not removed.
FrameStays(stack) == stack

FrameRemoved(stack) == RemoveAt(stack, EndingFrame(stack))

\* "Attempting to end root stack frame": nothing is written.
end_frame ==
  IF current_stack = << >> THEN UNCHANGED chromeVars
  ELSE LET frame == current_stack[EndingFrame(current_stack)]
       IN /\ outfile' = Append(outfile, [name |-> frame.name, kind |-> frame.kind,
                                         ts |-> frame.start_time, ended |-> begun])
          /\ current_stack' = FrameRemoved(current_stack)

\* ~State closes the list.  Frames that have not ended are never written.
DeleteState ==
  /\ current_stack' = << >>
  /\ UNCHANGED outfile

-----------------------------------------------------------------------------
(* Properties                                                              *)

\* The records of the file nest, as a viewer of one thread needs it, in whatever
\* order the host ends its blocks: of two records that share time, the one that is
\* written first began last (lines 134-151).
RecordsNest ==
  \A i, j \in DOMAIN outfile : i < j =>
    ~ (outfile[i].ts < outfile[j].ts /\ outfile[j].ts < outfile[i].ended)

\* While the host nests its blocks, what is written when one ends is that block,
\* with the time it began: a step that ends a block writes one record, no other step
\* writes any (lines 134-175).
WritesWhatEnds ==
  LET before == OpenKinds(NestedKinds)
      ends   == Len(OpenKinds(NestedKinds)') < Len(before)
  IN slips' \cap {"pop", "overlap"} = {} =>
       outfile' = IF ~ ends THEN outfile
                  ELSE Append(outfile, [name |-> Last(before).name, kind |-> Last(before).what,
                                        ts |-> Last(before).at, ended |-> begun])

=============================================================================
