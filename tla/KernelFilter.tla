---------------------------- MODULE KernelFilter ----------------------------
(***************************************************************************)
(* The kernel filter, src/common/kernel-filter/kp_kernel_filter.cpp.       *)
(*                                                                         *)
(* A kernel whose name matches a pattern of the filter file is handed to   *)
(* the child tool, which numbers it; any other kernel is numbered by the   *)
(* filter.  The two number ranges are independent, and activeKernels holds *)
(* the numbers of the child that are in flight.                            *)
(***************************************************************************)
EXTENDS Libraries, FiniteSets, Maps

CONSTANTS
  Environments, (* The settings a process may start with                  *)
  Names,        (* Kernel names                                           *)
  Unreadable,   (* The filter file cannot be opened                       *)
  Malformed,    (* A line std::regex rejects                              *)
  ChildFirst,   (* The first number the child hands out                   *)
  MaxLive,      (* Kernels the host has in flight at a time               *)
  MaxBegins     (* Bound of the model: kernels a process begins           *)

\* A pattern is the set of the names it matches as a whole.
Patterns == SUBSET Names \cup {Malformed}

EnvironmentType ==
  [loader : LoaderType, filter : Seq(Patterns) \cup {NotSet, Unreadable}]

ASSUME KernelFilterAssumption ==
  /\ Environments \subseteq EnvironmentType
  /\ NotSet \notin Seq(Patterns)
  /\ Unreadable \notin Seq(Patterns)
  /\ ChildFirst \in Nat
  /\ MaxLive \in Nat \ {0}
  /\ MaxBegins \in Nat

VARIABLES
  env,           (* environment variables and the filter file              *)
  phase,         (* life of the process                                    *)
  filterKernels, (* there are patterns                                     *)
  nextKernelID,  (* the next number of the filter                          *)
  activeKernels, (* numbers in flight that the child handed out            *)
  beginCallee,   (* kinds whose begin function of the child is known       *)
  endCallee,     (* kinds whose end function of the child is known         *)
  begun,         (* kernels the host has begun                             *)
  live,          (* host: the kernels in flight, by order of their begin   *)
  childPhase,    (* child: which of its own library calls it has had       *)
  childID,       (* child: the next number                                 *)
  childOpen,     (* child: number -> the kernel it stands for, while open  *)
  misrouted      (* child: end calls that were not for the kernel that ends *)

settings == <<env, filterKernels, beginCallee, endCallee>>
child    == <<childPhase, childID, childOpen, misrouted>>
vars     == <<env, phase, filterKernels, nextKernelID, activeKernels, beginCallee,
              endCallee, begun, live, childPhase, childID, childOpen, misrouted>>

Init ==
  /\ env \in Environments
  /\ phase = "loaded"
  /\ filterKernels = FALSE
  /\ nextKernelID = 0
  /\ activeKernels = {}
  /\ beginCallee = {}
  /\ endCallee = {}
  /\ begun = 0
  /\ live = EmptyMap
  /\ childPhase = "loaded"
  /\ childID = ChildFirst
  /\ childOpen = EmptyMap
  /\ misrouted = 0

-----------------------------------------------------------------------------
(* kokkosp_init_library                                                    *)

\* Every line becomes a pattern, up to the end of the file.
kernelNames ==
  IF env.filter \in {NotSet, Unreadable} THEN << >> ELSE env.filter

PatternsAccepted == \A i \in DOMAIN kernelNames : kernelNames[i] # Malformed

\* Initialisation that ends the process: the filter file cannot be read, a
\* pattern is malformed, or there are patterns and no library variable.
InitStops ==
  \/ env.filter = Unreadable
  \/ ~ PatternsAccepted
  \/ Len(kernelNames) > 0 /\ profileLibrary(env.loader) = NotSet

\* The child is looked for only when there are patterns; that there is none is
\* not an error.
LoadsChild == Len(kernelNames) > 0 /\ ChildLoads(env.loader)

InitLibrary ==
  /\ phase = "loaded"
  /\ ~ InitStops
  /\ phase' = "running"
  /\ nextKernelID' = 0
  /\ filterKernels' = (Len(kernelNames) > 0)
  /\ beginCallee' = IF LoadsChild THEN nextLibrary(env.loader).begin ELSE {}
  /\ endCallee' = IF LoadsChild THEN nextLibrary(env.loader).end ELSE {}
  /\ childPhase' = IF LoadsChild /\ nextLibrary(env.loader).init
                   THEN "initialised" ELSE childPhase
  /\ UNCHANGED <<env, activeKernels, begun, live, childID, childOpen, misrouted>>

InitLibraryExit ==
  /\ phase = "loaded"
  /\ InitStops
  /\ phase' = "exited"
  /\ UNCHANGED <<settings, nextKernelID, activeKernels, begun, live, child>>

-----------------------------------------------------------------------------
(* The kernel callbacks.  The host may still use them after finalisation.  *)

kokkospFilterMatch(name) == \E i \in DOMAIN kernelNames : name \in kernelNames[i]

Called == phase \in {"running", "finalized"}

\* The host sees a kernel of this kind begin under the number kID; by
\* records who handed the number out.
HostBegins(kind, kID, by) ==
  /\ Called
  /\ begun < MaxBegins
  /\ Cardinality(DOMAIN live) < MaxLive
  /\ begun' = begun + 1
  /\ live' = Assign(live, begun, [kind |-> kind, kID |-> kID, by |-> by])

Forwards(kind, name) ==
  /\ filterKernels => kokkospFilterMatch(name)
  /\ kind \in beginCallee

\* Mutant: the host gets the next number of the filter, not the child's.
BeginMisnumbered(kind, name) ==
  /\ Forwards(kind, name)
  /\ HostBegins(kind, nextKernelID, "child")
  /\ childID' = childID + 1
  /\ childOpen' = Assign(childOpen, childID, begun)
  /\ activeKernels' = activeKernels \cup {childID}
  /\ UNCHANGED <<settings, phase, nextKernelID, childPhase, misrouted>>

BeginForwarded(kind, name) ==
  /\ Forwards(kind, name)
  /\ HostBegins(kind, childID, "child")
  /\ childID' = childID + 1
  /\ childOpen' = Assign(childOpen, childID, begun)
  /\ activeKernels' = activeKernels \cup {childID}
  /\ UNCHANGED <<settings, phase, nextKernelID, childPhase, misrouted>>

\* Mutant: the counter runs the wrong way.
CountDown == nextKernelID' = nextKernelID - 1

TakeNumber == nextKernelID' = nextKernelID + 1

BeginNumbered(kind, name) ==
  /\ ~ Forwards(kind, name)
  /\ HostBegins(kind, nextKernelID, "filter")
  /\ TakeNumber
  /\ UNCHANGED <<settings, phase, activeKernels, child>>

\* The child hears that number kID is complete when kernel k ends.
ChildEnd(k, kID) ==
  /\ childOpen' = Erase(childOpen, kID)
  /\ misrouted' = misrouted +
       (IF kID \in DOMAIN childOpen /\ childOpen[kID] = k THEN 0 ELSE 1)
  /\ UNCHANGED <<childPhase, childID>>

\* Mutant: a number stays active after its kernel ends.
NeverErased(kID) == activeKernels

Deactivated(kID) == activeKernels \ {kID}

EndActive(k) ==
  /\ Called
  /\ live[k].kID \in activeKernels
  /\ live' = Erase(live, k)
  /\ activeKernels' = Deactivated(live[k].kID)
  /\ IF live[k].kind \in endCallee THEN ChildEnd(k, live[k].kID) ELSE UNCHANGED child
  /\ UNCHANGED <<settings, phase, nextKernelID, begun>>

\* Mutant: an end is forwarded without a look at activeKernels.
EndForwarded(k) ==
  /\ Called
  /\ live[k].kID \notin activeKernels
  /\ live' = Erase(live, k)
  /\ IF live[k].kind \in endCallee THEN ChildEnd(k, live[k].kID) ELSE UNCHANGED child
  /\ UNCHANGED <<settings, phase, nextKernelID, activeKernels, begun>>

EndInactive(k) ==
  /\ Called
  /\ live[k].kID \notin activeKernels
  /\ live' = Erase(live, k)
  /\ UNCHANGED <<settings, phase, nextKernelID, activeKernels, begun, child>>

\* Mutant: the functions of the child are kept.
FinalizeKeepsCallees ==
  /\ phase = "running"
  /\ phase' = "finalized"
  /\ childPhase' = IF LoadsChild /\ nextLibrary(env.loader).finalize
                   THEN "finalized" ELSE childPhase
  /\ UNCHANGED <<settings, nextKernelID, activeKernels, begun, live,
                 childID, childOpen, misrouted>>

\* The child is finalised, then every function of it is forgotten.
FinalizeLibrary ==
  /\ phase = "running"
  /\ phase' = "finalized"
  /\ beginCallee' = {}
  /\ endCallee' = {}
  /\ childPhase' = IF LoadsChild /\ nextLibrary(env.loader).finalize
                   THEN "finalized" ELSE childPhase
  /\ UNCHANGED <<env, filterKernels, nextKernelID, activeKernels, begun, live,
                 childID, childOpen, misrouted>>

Terminated ==
  /\ \/ phase = "exited"
     \/ phase = "finalized" /\ begun = MaxBegins /\ live = EmptyMap
  /\ UNCHANGED vars

Next ==
  \/ InitLibrary
  \/ InitLibraryExit
  \/ \E kind \in Kinds, name \in Names : BeginForwarded(kind, name)
  \/ \E kind \in Kinds, name \in Names : BeginNumbered(kind, name)
  \/ \E k \in DOMAIN live : EndActive(k)
  \/ \E k \in DOMAIN live : EndInactive(k)
  \/ FinalizeLibrary
  \/ Terminated

Spec == Init /\ [][Next]_vars

-----------------------------------------------------------------------------
(* Properties                                                              *)

\* The type of every variable of the filter and of its child
\* (kp_kernel_filter.cpp:15-32).
TypeOK ==
  /\ env \in Environments
  /\ phase \in {"loaded", "running", "finalized", "exited"}
  /\ filterKernels \in BOOLEAN
  /\ nextKernelID \in Nat
  /\ activeKernels \subseteq Nat
  /\ beginCallee \subseteq Kinds
  /\ endCallee \subseteq Kinds
  /\ begun \in Nat
  /\ live \in [DOMAIN live -> [kind : Kinds, kID : Nat, by : {"child", "filter"}]]
  /\ DOMAIN live \subseteq 0 .. begun - 1
  /\ childPhase \in {"loaded", "initialised", "finalized"}
  /\ childID \in Nat
  /\ childOpen \in [DOMAIN childOpen -> Nat]
  /\ DOMAIN childOpen \subseteq Nat
  /\ misrouted \in Nat

\* Every end call the child receives is for the kernel that ends: never for one
\* the filter numbered itself, never for one still running (lines 240-250,
\* 276-286, 312-322).  It needs kernels that do not overlap, or a child whose
\* numbers differ from the filter's.
EndsRouted == misrouted = 0

\* The kernel logger as the child prints "Execution of kernel %llu is
\* completed." (src/debugging/kernel-logger/kp_kernel_logger.cpp:70) on an end
\* call: a kernel the child was given stays open there for as long as it is in
\* flight, so that its end is neither early nor lost.
CompletedKernelsEnded ==
  phase = "running" =>
    \A k \in DOMAIN live :
      live[k].by = "child" /\ live[k].kind \in endCallee =>
        live[k].kID \in DOMAIN childOpen /\ childOpen[live[k].kID] = k

\* activeKernels holds numbers of kernels in flight only: however kernels
\* overlap, and across finalisation, it drains (line 248).
ActiveDrains == \A n \in activeKernels : \E k \in DOMAIN live : live[k].kID = n

\* "Once we are told to finalize, we mean it" (lines 199-201): after
\* finalisation no call reaches the child.
FinalizeMeansIt == [][phase = "finalized" => UNCHANGED child]_vars

Wrapping == INSTANCE Wrapper WITH
  up       <- TRUE,
  begun    <- 0 .. begun - 1,
  inFlight <- DOMAIN live,
  told     <- {childOpen[n] : n \in DOMAIN childOpen},
  deaf     <- {k \in DOMAIN live : live[k].kind \notin endCallee}

\* The filter implements Wrapper: the child hears of the begin and of the end of
\* the kernels it is given, in the callbacks of these kernels and of no others,
\* although the end callback does not know the name (lines 210-322).
WrapsChild == Wrapping!Spec

=============================================================================
