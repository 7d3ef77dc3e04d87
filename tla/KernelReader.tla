---------------------------- MODULE KernelReader ----------------------------
(***************************************************************************)
(* The readers of the simple kernel timer's binary files,                  *)
(* src/profiling/simple-kernel-timer/kp_reader.cpp and kp_json_writer.cpp, *)
(* composed with the processes that write the files.                       *)
(*                                                                         *)
(* Processes run under the timer one after the other: they share nothing,  *)
(* so that another order would be the same.  A reader is then given the    *)
(* .dat files, merges the records that have the same demangled name and    *)
(* prints one summary of all processes.                                    *)
(***************************************************************************)
EXTENDS KernelTimer

CONSTANTS
  Demangled, (* what demangleNameKokkos makes of a name                     *)
  Empty,     (* the empty name                                              *)
  MaxFiles   (* Bound of the model: files                                   *)

\* A kernel has a name (BeginUnnamed is for the others), and demangleNameKokkos makes
\* no name empty that is not.
ASSUME KernelReaderAssumption ==
  /\ DOMAIN Demangled = Names
  /\ \A k \in Kernels : Demangled[k.name] # Empty
  /\ MaxFiles \in Nat \ {0}

VARIABLES
  files,            (* what the processes wrote, in the order of argv       *)
  truths,           (* host: for each file, what its process did            *)
  readerPhase,      (* life of the reader                                   *)
  fileNo,           (* the file being read                                  *)
  unread,           (* the names of its records that are not read yet       *)
  kernelInfo,       (* demangled name -> record                             *)
  totalExecuteTime, (* of all files opened                                  *)
  report            (* the totals the reader printed                        *)

written == <<files, truths>>
reader  == <<readerPhase, fileNo, unread, kernelInfo, totalExecuteTime, report>>
allVars == <<timer, written, reader>>

ReaderInit ==
  /\ InitTimer
  /\ files = << >>
  /\ truths = << >>
  /\ readerPhase = "idle"
  /\ fileNo = 0
  /\ unread = {}
  /\ kernelInfo = EmptyMap
  /\ totalExecuteTime = 0
  /\ report = EmptyMap

-----------------------------------------------------------------------------
(* The processes                                                           *)

RunTimer == readerPhase = "idle" /\ Callback /\ UNCHANGED <<written, reader>>

\* writeToBinaryFile and readFromFile: all of an entry but its start.
Record(info) ==
  [kType |-> info.kType, time |-> info.time, callCount |-> info.callCount]

File(out) ==
  [totalExecuteTime |-> out.totalExecuteTime,
   records |-> [n \in DOMAIN out.entries |-> Record(out.entries[n])]]

Truth ==
  [spent |-> spent, tangled |-> tangled,
   regionNames |-> NamesIn(pushed) \cup
                   {n \in Names : spent["region"][n].calls > 0}]

\* A process that ends leaves a file for the reader if its name ends in .dat.
Finalize(json, binary) ==
  /\ readerPhase = "idle"
  /\ FinalizeLibrary(json, binary)
  /\ IF output'.suffix = "dat"
     THEN files' = Append(files, File(output')) /\ truths' = Append(truths, Truth)
     ELSE UNCHANGED written
  /\ UNCHANGED reader

Ended == phase \in {"exited", "finalized"}

\* The process is gone, and with it the statics of the timer.
ProcessGone ==
  /\ phase' = "loaded"
  /\ clock' = 0
  /\ count_map' = EmptyMap
  /\ currentEntry' = NoEntry
  /\ regions' = [i \in 0 .. RegionSlots - 1 |-> NoEntry]
  /\ current_region_level' = 0
  /\ output' = EmptyMap
  /\ running' = << >>
  /\ pushed' = << >>
  /\ spent' = [u \in Uses |-> [n \in Names |-> Nothing]]
  /\ tangled' = {}

\* Another process runs under the timer.
NextProcess ==
  /\ readerPhase = "idle"
  /\ Ended
  /\ Len(files) < MaxFiles
  /\ begun < MaxBegins
  /\ ProcessGone
  /\ UNCHANGED <<begun, written, reader>>

-----------------------------------------------------------------------------
(* The reader                                                              *)

\* Without a file the reader explains its usage and exits.
StartReader ==
  /\ readerPhase = "idle"
  /\ Ended
  /\ readerPhase' = IF files = << >> THEN "usage" ELSE "reading"
  /\ ProcessGone
  /\ begun' = 0
  /\ UNCHANGED <<written, fileNo, unread, kernelInfo, totalExecuteTime, report>>

AllRead == readerPhase = "reading" /\ unread = {} /\ fileNo = Len(files)

OpenFile ==
  /\ readerPhase = "reading"
  /\ unread = {}
  /\ fileNo < Len(files)
  /\ fileNo' = fileNo + 1
  /\ unread' = DOMAIN files[fileNo'].records
  /\ totalExecuteTime' = totalExecuteTime + files[fileNo'].totalExecuteTime
  /\ UNCHANGED <<timer, written, readerPhase, kernelInfo, report>>

\* Mutant: a name seen before counts as one more call.
CountOneCall(to, record) == [to EXCEPT !.time = @ + record.time, !.callCount = @ + 1]

AddRecord(to, record) ==
  [to EXCEPT !.time = @ + record.time, !.callCount = @ + record.callCount]

\* A name seen before, in this file or another, keeps its type; records without
\* a name are dropped.
Merged(name, record) ==
  IF name = Empty THEN kernelInfo
  ELSE IF name \in DOMAIN kernelInfo
       THEN [kernelInfo EXCEPT ![name] = AddRecord(@, record)]
       ELSE Assign(kernelInfo, name, record)

\* Records come in the order of their names, which the model does not have.
ReadRecord(n) ==
  /\ n \in unread
  /\ unread' = unread \ {n}
  /\ kernelInfo' = Merged(Demangled[n], files[fileNo].records[n])
  /\ UNCHANGED <<timer, written, readerPhase, fileNo, totalExecuteTime, report>>

\* kp_reader prints the table, kp_json_writer the JSON.
PrintReport(form) ==
  /\ AllRead
  /\ readerPhase' = "done"
  /\ report' = [form |-> form, totals |-> KernelTotals(kernelInfo, form)]
  /\ UNCHANGED <<timer, written, fileNo, unread, kernelInfo, totalExecuteTime>>

AllTerminated ==
  /\ readerPhase \in {"usage", "done"} \/ phase = "corrupted"
  /\ UNCHANGED allVars

ReaderNext ==
  \/ RunTimer
  \/ \E json, binary \in BOOLEAN : Finalize(json, binary)
  \/ NextProcess
  \/ StartReader
  \/ OpenFile
  \/ \E n \in Names : ReadRecord(n)
  \/ \E form \in {"ascii", "json"} : PrintReport(form)
  \/ AllTerminated

ReaderSpec == ReaderInit /\ [][ReaderNext]_allVars

-----------------------------------------------------------------------------
(* Properties                                                              *)

\* What all processes whose files are read have spent under the given names.
SpentOn(use, names) ==
  LET read == (1 .. fileNo) \X names
  IN [time  |-> SumOver([p \in read |-> truths[p[1]].spent[use][p[2]].time], read),
      calls |-> SumOver([p \in read |-> truths[p[1]].spent[use][p[2]].calls], read)]

Mangled(display) == {n \in Names : Demangled[n] = display}

Tangled == UNION {truths[i].tangled : i \in 1 .. fileNo}

\* Between files, and at the end, an entry shows what the processes so far have
\* spent under all the names that demangle to its own, unless one of them is
\* tangled in a process (kp_reader.cpp:56-63, kp_json_writer.cpp:20-27).
MergedExact ==
  unread = {} =>
    \A d \in DOMAIN kernelInfo : Mangled(d) \cap Tangled = {} =>
      /\ kernelInfo[d].time =
           SpentOn("kernel", Mangled(d)).time + SpentOn("region", Mangled(d)).time
      /\ kernelInfo[d].callCount =
           SpentOn("kernel", Mangled(d)).calls + SpentOn("region", Mangled(d)).calls

\* From the callback in any process to the report no call of a kernel or region
\* with a name is lost or counted twice, tangled or not (kp_kernel_info.h:67-148).
MergedConserves ==
  unread = {} =>
    LET named == Names \ Mangled(Empty)
    IN TotalCalls(kernelInfo, DOMAIN kernelInfo) =
         SpentOn("kernel", named).calls + SpentOn("region", named).calls

\* The names under which processes ran kernels, and regions, as the reader has them.
KernelsReported ==
  {Demangled[n] : n \in {m \in Names : \E i \in 1 .. fileNo :
                                        truths[i].spent["kernel"][m].calls > 0}}

RegionsReported == {Demangled[n] : n \in UNION {truths[i].regionNames : i \in 1 .. fileNo}}

\* The summary of several processes is of their kernels, in time, in calls (or
\* names, in JSON), and within the sum of their execution times.  As for one
\* process it needs kernels that do not overlap and no name of both a kernel and
\* a region, here after demangling and in any two processes: the type of a
\* merged entry is that of its first record (kp_reader.cpp:73-78).
ReaderSummaryIsTrue ==
  /\ readerPhase = "done"
  /\ Tangled = {} /\ KernelsReported \cap RegionsReported = {}
  => /\ report.totals.time = SpentOn("kernel", Names).time
     /\ report.totals.calls = IF report.form = "json"
                              THEN Cardinality(KernelsReported)
                              ELSE SpentOn("kernel", Names).calls
     /\ report.totals.time <= totalExecuteTime

\* The summary of one process, written by the tool, and that of several, written
\* by the reader, are of the kernels (kp_kernel_timer.cpp:16-50).
SummariesTrue == SummaryIsTrue /\ ReaderSummaryIsTrue

=============================================================================
