---------------------------- MODULE KernelLogger ----------------------------
(***************************************************************************)
(* The kernel logger, src/debugging/kernel-logger/kp_kernel_logger.cpp:    *)
(* it writes a line when a kernel or fence begins, with a number and the   *)
(* regions around it, and a line with the number when it completes.        *)
(***************************************************************************)
EXTENDS HostTrace, FiniteSets

VARIABLES
  regions, (* the stack of the names of regions                           *)
  uniqID,
  lines    (* the lines written: [id, name, around], or [id] of an end    *)

loggerVars == <<regions, uniqID, lines>>

InitLogger ==
  /\ regions = << >>
  /\ uniqID = 0
  /\ lines = << >>

\* std::numeric_limits<uint64_t>::max()
FilteredID == -1

IsBegin(line) == "name" \in DOMAIN line

\* Mutant: a number for each kind of block.
NumberByKind(what) ==
  Cardinality({i \in DOMAIN lines : IsBegin(lines[i]) /\ lines[i].what = what})

NewID(what) == uniqID

\* The number that *kID is set to.
LoggerID(what, name) ==
  IF what = "fence" /\ name = ToolFence THEN FilteredID ELSE NewID(what)

LoggerBegin(what, name) ==
  IF LoggerID(what, name) = FilteredID THEN UNCHANGED loggerVars
  ELSE /\ uniqID' = uniqID + 1
       /\ lines' = Append(lines, [what |-> what, id |-> NewID(what), name |-> name,
                                  around |-> regions])
       /\ UNCHANGED regions

LoggerEnd(id) ==
  /\ lines' = IF id = FilteredID THEN lines ELSE Append(lines, [id |-> id])
  /\ UNCHANGED <<regions, uniqID>>

LoggerPush(name) ==
  /\ regions' = Append(regions, name)
  /\ UNCHANGED <<uniqID, lines>>

LoggerPop ==
  /\ regions' = IF regions = << >> THEN regions ELSE Front(regions)
  /\ UNCHANGED <<uniqID, lines>>

-----------------------------------------------------------------------------
(* Properties                                                              *)

\* The log can be read: a line of completion names one begin before it that has not
\* been completed, in whatever order kernels and fences end; what is left is what
\* the host has open, without the tool's own fences.  The regions written around the
\* next kernel are those the host has open, also after it popped once too often
\* (lines 53-163).
LogReads ==
  LET announced(id) == {i \in DOMAIN lines : IsBegin(lines[i]) /\ lines[i].id = id}
      completed(id) == {i \in DOMAIN lines : ~ IsBegin(lines[i]) /\ lines[i].id = id}
      ids       == {lines[i].id : i \in DOMAIN lines}
      blocks    == OpenKinds(KernelKinds \cup {"fence"})
  IN /\ \A id \in ids : /\ Cardinality(announced(id)) = 1
                        /\ Cardinality(completed(id)) <= 1
                        /\ \A i \in announced(id), j \in completed(id) : i < j
     /\ {id \in ids : completed(id) = {}} =
        {b.num : b \in {c \in ToSet(blocks) : c.what # "fence" \/ c.name # ToolFence}}
     /\ regions = [i \in DOMAIN OpenKinds({"region"}) |-> OpenKinds({"region"})[i].name]

=============================================================================
