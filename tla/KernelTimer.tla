---------------------------- MODULE KernelTimer -----------------------------
(***************************************************************************)
(* The simple kernel timer, src/profiling/simple-kernel-timer: the         *)
(* callbacks of kp_kernel_timer.cpp and the shared state of kp_shared.cpp. *)
(*                                                                         *)
(* One entry per name holds the timer of every kernel and region of that   *)
(* name, one pointer holds the entry of the kernel begun last, and an      *)
(* array holds the entries of the open regions.  Its steps are composed    *)
(* with the processes and the readers of its files in KernelReader.        *)
(***************************************************************************)
EXTENDS Integers, Sequences, FiniteSets, FiniteSetsExt, Maps

CONSTANTS
  Kernels,     (* the kernels the host runs: [name, kType]                  *)
  RegionNames, (* the names of the regions the host pushes                  *)
  NoEntry,     (* a null KernelPerformanceInfo pointer                      *)
  RegionSlots, (* 512: the size of regions                                  *)
  MaxLive,     (* kernels the host has in flight at a time                  *)
  MaxBegins,   (* Bound of the model: kernels begun and regions pushed      *)
  MaxClock     (* Bound of the model: clock readings that differ            *)

KernelTypes == {"PARALLEL_FOR", "PARALLEL_SCAN", "PARALLEL_REDUCE"}

\* What a name may stand for.
Uses == {"kernel", "region"}

Names == {k.name : k \in Kernels} \cup RegionNames

ASSUME KernelTimerAssumption ==
  /\ IsFiniteSet(Kernels) /\ \A k \in Kernels : k.kType \in KernelTypes
  /\ IsFiniteSet(RegionNames)
  /\ NoEntry \notin Names
  /\ RegionSlots \in Nat \ {0}
  /\ MaxLive \in Nat \ {0}
  /\ MaxBegins \in Nat
  /\ MaxClock \in Nat

VARIABLES
  phase,                (* life of the tool                                 *)
  clock,                (* seconds() since kokkosp_init_library             *)
  count_map,            (* name -> KernelPerformanceInfo                    *)
  currentEntry,         (* the name of the entry of the last kernel begun   *)
  regions,              (* slot -> name of the entry it points to           *)
  current_region_level, (* the next free slot                               *)
  output,               (* what finalisation wrote                          *)
  running,              (* host: kernels in flight, [name, since]           *)
  pushed,               (* host: open regions, [name, since]                *)
  begun,                (* host: kernels begun and regions pushed           *)
  spent,                (* host: use, name -> [time, calls] that have ended *)
  tangled               (* host: names whose intervals overlapped           *)

tool == <<phase, count_map, currentEntry, regions, current_region_level, output>>
host == <<running, pushed, begun, spent, tangled>>
timer == <<phase, clock, count_map, currentEntry, regions, current_region_level,
           output, running, pushed, begun, spent, tangled>>

Nothing == [time |-> 0, calls |-> 0]

InitTimer ==
  /\ phase = "loaded"
  /\ clock = 0
  /\ count_map = EmptyMap
  /\ currentEntry = NoEntry
  /\ regions = [i \in 0 .. RegionSlots - 1 |-> NoEntry]
  /\ current_region_level = 0
  /\ output = EmptyMap
  /\ running = << >>
  /\ pushed = << >>
  /\ begun = 0
  /\ spent = [u \in Uses |-> [n \in Names |-> Nothing]]
  /\ tangled = {}

\* kokkosp_init_library: the slots are cleared, the clock starts.
InitLibrary ==
  /\ phase = "loaded"
  /\ phase' = "up"
  /\ regions' = [i \in 0 .. RegionSlots - 1 |-> NoEntry]
  /\ UNCHANGED <<clock, count_map, currentEntry, current_region_level, output, host>>

Tick ==
  /\ phase = "up"
  /\ clock < MaxClock
  /\ clock' = clock + 1
  /\ UNCHANGED <<tool, host>>

-----------------------------------------------------------------------------
(* KernelPerformanceInfo                                                   *)

NewInfo(kType) == [kType |-> kType, time |-> 0, callCount |-> 0, startTime |-> 0]

startTimer(info) == [info EXCEPT !.startTime = clock]

addFromTimer(info) ==
  [info EXCEPT !.time = @ + (clock - info.startTime), !.callCount = @ + 1]

\* Mutant: an entry that is known is replaced by a new one.
FreshEntry(name, kType) == Assign(count_map, name, startTimer(NewInfo(kType)))

\* The entry of a name, made if there is none, whose timer starts.  The type is
\* that of the first to use the name.
StartedEntry(name, kType) ==
  LET found == Insert(count_map, name, NewInfo(kType))
  IN [found EXCEPT ![name] = startTimer(@)]

-----------------------------------------------------------------------------
(* The host                                                                *)

NamesIn(seq) == {seq[i].name : i \in DOMAIN seq}

Open(name) == [name |-> name, since |-> clock]

Spend(total, since) == [time |-> total.time + (clock - since), calls |-> total.calls + 1]

\* An interval that ends is added to what its name has spent.
HostEnds(use, interval) ==
  spent' = [spent EXCEPT ![use][interval.name] = Spend(@, interval.since)]

-----------------------------------------------------------------------------
(* Kernels                                                                 *)

\* kokkosp_begin_parallel_*
BeginParallel(kernel) ==
  /\ phase = "up"
  /\ begun < MaxBegins
  /\ Len(running) < MaxLive
  /\ count_map' = StartedEntry(kernel.name, kernel.kType)
  /\ currentEntry' = kernel.name
  /\ begun' = begun + 1
  /\ running' = Append(running, Open(kernel.name))
  /\ tangled' = tangled
       \cup (IF running # << >> THEN NamesIn(running) \cup {kernel.name} ELSE {})
       \cup ({kernel.name} \cap NamesIn(pushed))
  /\ UNCHANGED <<phase, clock, regions, current_region_level, output, pushed, spent>>

\* A kernel without a name: "Error: kernel is empty", exit(-1).
BeginUnnamed ==
  /\ phase = "up"
  /\ phase' = "exited"
  /\ UNCHANGED <<clock, count_map, currentEntry, regions, current_region_level,
                 output, host>>

\* kokkosp_end_parallel_*: the number of the kernel is ignored, and the time
\* goes to the entry of the kernel begun last.
EndParallel(i) ==
  /\ phase = "up"
  /\ count_map' = [count_map EXCEPT ![currentEntry] = addFromTimer(@)]
  /\ running' = SubSeq(running, 1, i - 1) \o SubSeq(running, i + 1, Len(running))
  /\ HostEnds("kernel", running[i])
  /\ UNCHANGED <<phase, clock, currentEntry, regions, current_region_level, output,
                 pushed, begun, tangled>>

-----------------------------------------------------------------------------
(* Regions                                                                 *)

\* kokkosp_push_profile_region, while there is a slot.
PushRegion(name) ==
  /\ phase = "up"
  /\ begun < MaxBegins
  /\ current_region_level < RegionSlots
  /\ count_map' = StartedEntry(name, "REGION")
  /\ regions' = [regions EXCEPT ![current_region_level] = name]
  /\ current_region_level' = current_region_level + 1
  /\ begun' = begun + 1
  /\ pushed' = Append(pushed, Open(name))
  /\ tangled' = tangled \cup ({name} \cap (NamesIn(pushed) \cup NamesIn(running)))
  /\ UNCHANGED <<phase, clock, currentEntry, output, running, spent>>

\* Beyond the last slot the push writes outside the array, which is not checked.
PushOverrun ==
  /\ phase = "up"
  /\ begun < MaxBegins
  /\ current_region_level >= RegionSlots
  /\ phase' = "corrupted"
  /\ UNCHANGED <<clock, count_map, currentEntry, regions, current_region_level,
                 output, host>>

InnermostRegion == current_region_level - 1

\* kokkosp_pop_profile_region inside a region.
PopRegion ==
  /\ phase = "up"
  /\ InnermostRegion >= 0
  /\ current_region_level' = InnermostRegion
  /\ count_map' = [count_map EXCEPT ![regions[InnermostRegion]] = addFromTimer(@)]
  /\ HostEnds("region", pushed[Len(pushed)])
  /\ pushed' = SubSeq(pushed, 1, Len(pushed) - 1)
  /\ UNCHANGED <<phase, clock, currentEntry, regions, output, running, begun,
                 tangled>>

LevelAfterWarning == 0

\* kokkosp_pop_profile_region outside of any region: a warning, no time added.
PopOutside ==
  /\ phase = "up"
  /\ InnermostRegion < 0
  /\ current_region_level' = LevelAfterWarning
  /\ UNCHANGED <<phase, clock, count_map, currentEntry, regions, output, host>>

-----------------------------------------------------------------------------
(* kokkosp_finalize_library: a table, a JSON file or a binary file          *)

\* Regions are left out of the totals.
KernelEntries(entries) == {n \in DOMAIN entries : entries[n].kType # "REGION"}

TotalTime(entries, names) == SumOver([n \in names |-> entries[n].time], names)

TotalCalls(entries, names) == SumOver([n \in names |-> entries[n].callCount], names)

\* Mutant: the totals include the regions.
AllEntries(entries, form) ==
  [time  |-> TotalTime(entries, DOMAIN entries),
   calls |-> TotalCalls(entries, DOMAIN entries)]

\* The table gives the time in kernels and their calls; JSON gives the time and,
\* as "unique-kernel-calls", the number of kernels.
KernelTotals(entries, form) ==
  [time  |-> TotalTime(entries, KernelEntries(entries)),
   calls |-> IF form = "json" THEN Cardinality(KernelEntries(entries))
             ELSE TotalCalls(entries, KernelEntries(entries))]

\* The two environment variables choose the suffix of the file and what is in
\* it; without either there is no file.
Suffix(json, binary) == IF json THEN "json" ELSE IF binary THEN "dat" ELSE "none"
Form(json, binary)   == IF binary THEN "binary" ELSE IF json THEN "json" ELSE "ascii"

\* A binary file has the entries and no totals.
FinalizeLibrary(json, binary) ==
  LET form == Form(json, binary)
  IN /\ phase = "up"
     /\ running = << >>
     /\ phase' = "finalized"
     /\ output' = [suffix |-> Suffix(json, binary), form |-> form,
                   totalExecuteTime |-> clock, entries |-> count_map,
                   totals |-> IF form = "binary" THEN Nothing
                              ELSE KernelTotals(count_map, form)]
     /\ UNCHANGED <<clock, count_map, currentEntry, regions, current_region_level, host>>

\* What happens until finalisation.
Callback ==
  \/ InitLibrary
  \/ Tick
  \/ \E kernel \in Kernels : BeginParallel(kernel)
  \/ BeginUnnamed
  \/ \E i \in DOMAIN running : EndParallel(i)
  \/ \E name \in RegionNames : PushRegion(name)
  \/ PushOverrun
  \/ PopRegion
  \/ PopOutside

-----------------------------------------------------------------------------
(* Properties                                                              *)

TotalSpent(use) ==
  [time  |-> SumOver([n \in Names |-> spent[use][n].time], Names),
   calls |-> SumOver([n \in Names |-> spent[use][n].calls], Names)]

\* The kernels, and the regions, that the host has run when it is finalised.
KernelsRun == {n \in Names : spent["kernel"][n].calls > 0}
RegionsRun == {n \in Names : spent["region"][n].calls > 0} \cup NamesIn(pushed)

\* "Regions are not counted as kernel calls" and "Only parallel_for calls count
\* as kernel calls, not regions" (src/tests/simple-kernel-timer/
\* test_simple_kernel_timer.cpp:181 and 213): the summary has the time, and the
\* calls or the number, of the kernels.  It needs kernels that do not overlap, and
\* no region of a kernel's name: one entry then serves both, under the type of the
\* first (kp_shared.cpp:20-51).
SummaryIsTrue ==
  /\ phase = "finalized" /\ output.form # "binary"
  /\ tangled = {} /\ KernelsRun \cap RegionsRun = {}
  => /\ output.totals.time = TotalSpent("kernel").time
     /\ output.totals.calls = IF output.form = "json" THEN Cardinality(KernelsRun)
                              ELSE TotalSpent("kernel").calls
     /\ output.totals.time <= output.totalExecuteTime

=============================================================================
