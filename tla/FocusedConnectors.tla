------------------------- MODULE FocusedConnectors --------------------------
(***************************************************************************)
(* The connectors that keep one current kernel:                            *)
(*   src/profiling/nvtx-focused-connector/kp_nvtx_focused_connector.cpp    *)
(*   src/profiling/vtune-focused-connector/kp_vtune_focused_connector.cpp  *)
(*   src/profiling/vtune-connector/kp_vtune_connector.cpp                  *)
(*                                                                         *)
(* A kernel is a range in a domain of the profiler, one domain for each    *)
(* name, made for the kind of kernel that had the name first.  The focused *)
(* ones have the profiler collect only while a kernel runs.                *)
(***************************************************************************)
EXTENDS HostTrace, Maps

CONSTANT NULL (* no current kernel *)

ASSUME FocusedConnectorsAssumption == NULL \notin Names

VARIABLES
  domain_map,    (* name -> kind of the domain, the type in its name         *)
  currentKernel, (* name of the current kernel, or NULL                      *)
  currentRange,  (* name -> number of the last range of its domain           *)
  frames,        (* profiler: number -> name of the domain of its ranges     *)
  collecting,    (* profiler: it collects                                    *)
  nextKernelID,
  crashed        (* the current kernel was NULL when it was used             *)

focusVars == <<domain_map, currentKernel, currentRange, frames, collecting,
               nextKernelID, crashed>>

FocusedTools == {"nvtx-focused-connector", "vtune-focused-connector"}
FocusTools   == FocusedTools \cup {"vtune-connector"}

\* The NVTX one leaves the profiler as it is started: not collecting, with
\* nsys --capture-range.  __itt_pause of the VTune one.
InitFocus(tool) ==
  /\ domain_map = EmptyMap
  /\ currentKernel = NULL
  /\ currentRange = EmptyMap
  /\ frames = EmptyMap
  /\ collecting = (tool \notin FocusedTools)
  /\ nextKernelID = 0
  /\ crashed = FALSE

\* getFocusedConnectorInfo, and focusedConnectorExecuteStart.
FocusBegin(kind, name) ==
  /\ nextKernelID' = nextKernelID + 1
  /\ domain_map' = Insert(domain_map, name, kind)
  /\ currentKernel' = name
  /\ currentRange' = Assign(currentRange, name, nextKernelID + 1)
  /\ frames' = Assign(frames, nextKernelID + 1, name)
  /\ collecting' = TRUE
  /\ UNCHANGED crashed

\* cudaProfilerStop, __itt_pause.
CollectsOutside(tool) == tool \notin FocusedTools

\* Mutant: the range of the first domain is ended.
FirstRange == currentRange[CHOOSE n \in DOMAIN currentRange : TRUE]

EndingRange == currentRange[currentKernel]

\* focusedConnectorExecuteEnd: the kernel that ends is taken for the current one.
FocusEnd(tool) ==
  IF currentKernel = NULL
  THEN crashed' = TRUE /\ UNCHANGED <<domain_map, currentKernel, currentRange, frames,
                                     collecting, nextKernelID>>
  ELSE /\ frames' = Erase(frames, EndingRange)
       /\ collecting' = CollectsOutside(tool)
       /\ currentKernel' = NULL
       /\ UNCHANGED <<domain_map, currentRange, nextKernelID, crashed>>

-----------------------------------------------------------------------------
(* Properties                                                              *)

\* As long as no kernel begins within another, the current kernel is never NULL
\* when it is used, exactly the kernel in flight has a range, in the domain of its
\* name, and the focused connectors have the profiler collect exactly while there
\* is one (nvtx-focused lines 63-89, vtune-focused lines 34-61, vtune lines 47-117).
FocusedOnKernel(tool) ==
  "kernels" \notin slips =>
    LET kernels == OpenKinds(KernelKinds)
    IN /\ ~ crashed
       /\ currentKernel = (IF kernels = << >> THEN NULL ELSE Last(kernels).name)
       /\ ToSet(kernels) # {} => frames = [n \in {nextKernelID} |-> currentKernel]
       /\ ToSet(kernels) = {} => frames = EmptyMap
       /\ collecting <=> (tool \in FocusedTools => kernels # << >>)

=============================================================================
