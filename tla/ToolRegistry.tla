---------------------------- MODULE ToolRegistry ----------------------------
(***************************************************************************)
(* One host with one of the connectors: which tool a process loads, and    *)
(* what the callbacks of the host do in that tool.  A tool is loaded as a  *)
(* library, or its event set is looked up by name in get_event_set of      *)
(* src/profiling/all/kp_all.cpp.  The host makes the calls that the tool   *)
(* has functions for.                                                      *)
(***************************************************************************)
EXTENDS PapiConnector, RangeConnectors, ChromeTracing, FocusedConnectors,
        KernelLogger, Variorum

CONSTANT Tools (* the tools that may be asked for *)

VARIABLES
  tool,     (* the tool of the process, "" for none      *)
  over      (* the tool was finalised or its process ended *)

vars == <<trace, papiVars, rangeVars, chromeVars, focusVars, loggerVars, powerVars, tool, over>>

KnownTools ==
  {"papi-connector", "chrome-tracing", "kernel-logger", "variorum"} \cup RangeTools \cup FocusTools

ASSUME ToolRegistryAssumption == Tools \subseteq KnownTools \cup {""}

\* The handlers that get_event_set registers; of the tools here the others are
\* libraries only.
Handlers == KnownTools \ {"papi-connector", "perfetto-connector", "kernel-logger"}

\* A handler, or no profiling for an empty name; any other name is an error.
EventSetFound(profiler) == profiler \in Handlers \cup {""}

\* The event set of Variorum has no init.
FileOf(how) == IF how = "library" THEN "variorumoutput.txt" ELSE ""

InitRegistry ==
  \E how \in {"library", "event set"} :
    /\ InitTrace
    /\ tool \in {t \in Tools : IF how = "library" THEN t # "" ELSE EventSetFound(t)}
    /\ InitPapi
    /\ InitRanges
    /\ InitChrome
    /\ InitFocus(tool)
    /\ InitLogger
    /\ InitPower(FileOf(how))
    /\ over = FALSE

-----------------------------------------------------------------------------
(* A callback changes the state of the tool that is loaded.                *)

OnlyPapi   == UNCHANGED <<rangeVars, chromeVars, focusVars, loggerVars, powerVars, tool, over>>
OnlyRanges == UNCHANGED <<papiVars, chromeVars, focusVars, loggerVars, powerVars, tool, over>>
OnlyChrome == UNCHANGED <<papiVars, rangeVars, focusVars, loggerVars, powerVars, tool, over>>
OnlyFocus  == UNCHANGED <<papiVars, rangeVars, chromeVars, loggerVars, powerVars, tool, over>>
OnlyLogger == UNCHANGED <<papiVars, rangeVars, chromeVars, focusVars, powerVars, tool, over>>
OnlyPower  == UNCHANGED <<papiVars, rangeVars, chromeVars, focusVars, loggerVars, tool, over>>

Papi   == ~ over /\ tool = "papi-connector" /\ OnlyPapi
Ranges == ~ over /\ tool \in RangeTools /\ OnlyRanges
Chrome == ~ over /\ tool = "chrome-tracing" /\ OnlyChrome
Focus  == ~ over /\ ~ crashed /\ tool \in FocusTools /\ OnlyFocus
Logger == ~ over /\ tool = "kernel-logger" /\ OnlyLogger
Power  == ~ over /\ tool = "variorum" /\ OnlyPower

BeginKernel(kind, name) ==
  \/ Papi /\ Begins(kind, name, 0) /\ PapiBeginParallel(kind, name)
  \/ Ranges /\ Begins(kind, name, 0) /\ RangePush(kind, name)
  \/ Chrome /\ Begins(kind, name, 0) /\ begin_frame(name, kind)
  \/ Focus /\ Begins(kind, name, nextKernelID) /\ FocusBegin(kind, name)
  \/ Logger /\ Begins(kind, name, LoggerID(kind, name)) /\ LoggerBegin(kind, name)
  \/ Power /\ Begins(kind, name, 0) /\ \E reading \in Readings : PowerBegin(name, reading)

EndKernel(i) ==
  /\ open[i].what \in KernelKinds
  /\ Ends(i)
  /\ \/ Papi /\ PapiEndParallel(open[i].what)
     \/ Ranges /\ RangePop
     \/ Chrome /\ end_frame
     \/ Focus /\ FocusEnd(tool)
     \/ Logger /\ LoggerEnd(open[i].num)
     \/ Power /\ \E reading \in Readings : PowerEnd(reading)

PushRegion(name) ==
  /\ Begins("region", name, 0)
  /\ \/ Papi /\ PapiPushRegion(name)
     \/ Ranges /\ RangePush("region", name)
     \/ Chrome /\ begin_frame(name, "region")
     \/ Logger /\ LoggerPush(name)

\* The innermost region of the host, or none.
PopRegion ==
  /\ \/ PopsTooOften
     \/ \E i \in DOMAIN open : open[i].what = "region" /\ Ends(i)
  /\ \/ Papi /\ PapiPopRegion
     \/ Ranges /\ RangePop
     \/ Chrome /\ end_frame
     \/ Logger /\ LoggerPop

\* NVTX and ROCTX have no functions for copies, and the logger keeps nothing of them.
BeginDeepCopy ==
  /\ Begins("copy", "", 0)
  /\ \/ Papi /\ PapiBeginDeepCopy
     \/ Ranges /\ tool = "perfetto-connector" /\ RangePush("copy", "")
     \/ Chrome /\ begin_frame("", "copy")

EndDeepCopy(i) ==
  /\ open[i].what = "copy"
  /\ Ends(i)
  /\ \/ Papi /\ PapiEndDeepCopy
     \/ Ranges /\ RangePop
     \/ Chrome /\ end_frame

BeginFence(name) ==
  \/ /\ Ranges /\ tool # "perfetto-connector"
     /\ Begins("fence", name, FenceHandle(tool, name))
     /\ RangeBeginFence(tool, name)
  \/ /\ Logger
     /\ Begins("fence", name, LoggerID("fence", name))
     /\ LoggerBegin("fence", name)

EndFence(i) ==
  /\ open[i].what = "fence"
  /\ Ends(i)
  /\ \/ Ranges /\ RangeEndFence(open[i].num)
     \/ Logger /\ LoggerEnd(open[i].num)

CreateSection(name) ==
  \/ Papi /\ \E id \in Ids : Creates(name, id) /\ PapiCreateSection(id, name)
  \/ /\ Ranges /\ tool # "perfetto-connector"
     /\ Creates(name, NewSection) /\ RangeCreateSection(name)

StartSection(section) ==
  /\ Starts(section)
  /\ \/ Papi /\ PapiStartSection(section.num)
     \/ Ranges /\ RangeStartSection(section.num)

StopSection(i) ==
  /\ open[i].what = "section"
  /\ Ends(i)
  /\ \/ Papi /\ PapiStopSection(open[i].num)
     \/ Ranges /\ RangeStopSection(open[i].num)

\* NVTX has no function for it, that of ROCTX is empty.
DestroySection(k) ==
  /\ Destroys(k)
  /\ Papi /\ PapiDestroySection(created[k].num)

\* Of the finalize functions that of Chrome tracing has an effect here.
Finalize ==
  /\ ~ over
  /\ over' = TRUE
  /\ IF tool = "chrome-tracing" THEN DeleteState ELSE UNCHANGED chromeVars
  /\ UNCHANGED <<trace, papiVars, rangeVars, focusVars, loggerVars, powerVars, tool>>

\* The process ends in a callback: the power cannot be read, or get_space does not
\* know the space of a copy.  The trace file stays without its end.
Abort ==
  /\ ~ over
  /\ tool \in {"variorum", "chrome-tracing"}
  /\ over' = TRUE
  /\ UNCHANGED <<trace, papiVars, rangeVars, chromeVars, focusVars, loggerVars, powerVars, tool>>

NextRegistry ==
  \/ \E kind \in KernelKinds, name \in Names : BeginKernel(kind, name)
  \/ \E i \in DOMAIN open : EndKernel(i)
  \/ \E name \in Names : PushRegion(name)
  \/ PopRegion
  \/ BeginDeepCopy
  \/ \E i \in DOMAIN open : EndDeepCopy(i)
  \/ \E name \in Names \cup {ToolFence} : BeginFence(name)
  \/ \E i \in DOMAIN open : EndFence(i)
  \/ \E name \in Names : CreateSection(name)
  \/ \E k \in DOMAIN created : StartSection(created[k])
  \/ \E i \in DOMAIN open : StopSection(i)
  \/ \E k \in DOMAIN created : DestroySection(k)
  \/ Finalize
  \/ Abort

RegistrySpec == InitRegistry /\ [][NextRegistry]_vars

-----------------------------------------------------------------------------
(* Properties of the tool that is loaded                                   *)

\* PAPI has open exactly the kernels in flight, and until a section is started the
\* regions and copies, with PAPI loaded (kp_papi_connector.cpp:51-137).
PapiFollowsHost == tool = "papi-connector" => PapiMeasuresKernels /\ PapiMeasuresRegions

\* RangesNest and HandlesEnd, with one of the range connectors loaded: no block of
\* one kind disturbs those of the other (kp_nvtx_connector.cpp:56-130).
RangesFollowHost == tool \in RangeTools => RangesNest /\ HandlesEnd

\* RecordsNest, with Chrome tracing loaded (kp_chrome_tracing.cpp:134-151).
TraceNests == tool = "chrome-tracing" => RecordsNest

\* WritesWhatEnds, with Chrome tracing loaded (kp_chrome_tracing.cpp:134-175).
TraceIsTrue == [][tool = "chrome-tracing" => WritesWhatEnds]_vars

\* FocusedOnKernel, with one of its connectors loaded
\* (kp_nvtx_focused_connector.cpp:63-89).
FocusIsTrue == tool \in FocusTools => FocusedOnKernel(tool)

\* LogReads, with the kernel logger loaded (kp_kernel_logger.cpp:53-163).
LogIsReadable == tool = "kernel-logger" => LogReads

\* PeriodsApart, with Variorum loaded (variorum-connector.cpp:64-142).
EnergyOnce == tool = "variorum" => PeriodsApart

\* WritesKernel, with Variorum loaded (variorum-connector.cpp:64-142).
EnergyOfKernel == [][tool = "variorum" => WritesKernel]_vars

\* "lists several PAPI events for each parallel construct or profile section"
\* (src/profiling/papi-connector/README.md:40): also with sections.  Where sections
\* end innermost first, it is the push at their stop (kp_papi_connector.cpp:169) that
\* breaks it.
BlocksMeasured == tool = "papi-connector" /\ "pop" \notin slips => BlocksOpen

=============================================================================
