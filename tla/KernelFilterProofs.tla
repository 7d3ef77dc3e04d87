------------------------ MODULE KernelFilterProofs --------------------------
(***************************************************************************)
(* Theorems about the kernel filter, for every filter file, library list   *)
(* and number of kernels.                                                  *)
(***************************************************************************)
EXTENDS KernelFilter, FiniteSetTheorems, TLAPS

USE DEF Assign, Erase, EmptyMap

\* The next library has the type of a library, or is none.
LEMMA NextLibraryType ==
  ASSUME TypeOK, LoadsChild
  PROVE  nextLibrary(env.loader) \in LibraryType
<1> DEFINE loader == env.loader
<1>1. /\ loader.tools_libs \in Seq(DOMAIN Library) \cup {NotSet}
      /\ loader.profile_library \in Seq(DOMAIN Library) \cup {NotSet}
      /\ loader.loadSeq \in Nat
  BY KernelFilterAssumption DEF TypeOK, EnvironmentType, LoaderType
<1>2. profileLibrary(loader) \in Seq(DOMAIN Library)
  BY <1>1 DEF LoadsChild, ChildLoads, HasNextLibrary, profileLibrary
<1>3. profileLibrary(loader)[loader.loadSeq + 2] \in DOMAIN Library
  BY <1>1, <1>2 DEF LoadsChild, ChildLoads, HasNextLibrary
<1> QED BY <1>3, LibrariesAssumption DEF nextLibrary

\* The types hold at first.
LEMMA InitType == Init => TypeOK
<1> SUFFICES ASSUME Init PROVE TypeOK
  OBVIOUS
<1>1. /\ live \in [DOMAIN live -> [kind : Kinds, kID : Nat, by : {"child", "filter"}]]
      /\ DOMAIN live \subseteq 0 .. begun - 1
      /\ childOpen \in [DOMAIN childOpen -> Nat]
      /\ DOMAIN childOpen \subseteq Nat
  BY DEF Init
<1>2. childID \in Nat
  BY KernelFilterAssumption DEF Init
<1> QED BY <1>1, <1>2 DEF Init, TypeOK

\* Every variable keeps its type under every callback of kp_kernel_filter.cpp.
THEOREM TypeCorrect == Spec => []TypeOK
<1>1. TypeOK /\ [Next]_vars => TypeOK'
  <2> SUFFICES ASSUME TypeOK, [Next]_vars
               PROVE  TypeOK'
    OBVIOUS
  <2>1. CASE InitLibrary
    BY <2>1, NextLibraryType DEF InitLibrary, TypeOK, LibraryType
  <2>2. CASE InitLibraryExit
    BY <2>2 DEF InitLibraryExit, TypeOK, settings, child
  <2>3. ASSUME NEW kind \in Kinds, NEW name \in Names, BeginForwarded(kind, name)
        PROVE  TypeOK'
    <3>1. HostBegins(kind, childID, "child") /\ childID \in Nat
      BY <2>3 DEF BeginForwarded, TypeOK
    <3>2. /\ begun' \in Nat
          /\ live' \in [DOMAIN live' -> [kind : Kinds, kID : Nat, by : {"child", "filter"}]]
          /\ DOMAIN live' \subseteq 0 .. begun' - 1
      BY <3>1 DEF HostBegins, TypeOK
    <3> QED BY <2>3, <3>2 DEF BeginForwarded, TypeOK, settings
  <2>4. ASSUME NEW kind \in Kinds, NEW name \in Names, BeginNumbered(kind, name)
        PROVE  TypeOK'
    <3>1. HostBegins(kind, nextKernelID, "filter") /\ nextKernelID \in Nat
      BY <2>4 DEF BeginNumbered, TakeNumber, TypeOK
    <3>2. /\ begun' \in Nat
          /\ live' \in [DOMAIN live' -> [kind : Kinds, kID : Nat, by : {"child", "filter"}]]
          /\ DOMAIN live' \subseteq 0 .. begun' - 1
      BY <3>1 DEF HostBegins, TypeOK
    <3> QED BY <2>4, <3>2 DEF BeginNumbered, TakeNumber, TypeOK, settings, child
  <2>5. ASSUME NEW k \in DOMAIN live, EndActive(k)
        PROVE  TypeOK'
    BY <2>5 DEF EndActive, Deactivated, ChildEnd, TypeOK, settings, child
  <2>6. ASSUME NEW k \in DOMAIN live, EndInactive(k)
        PROVE  TypeOK'
    BY <2>6 DEF EndInactive, TypeOK, settings, child
  <2>7. CASE FinalizeLibrary
    BY <2>7 DEF FinalizeLibrary, TypeOK
  <2>8. CASE UNCHANGED vars
    BY <2>8 DEF vars, TypeOK
  <2> QED
    BY <2>1, <2>2, <2>3, <2>4, <2>5, <2>6, <2>7, <2>8 DEF Next, Terminated
<1> QED BY <1>1, InitType, PTL DEF Spec

-----------------------------------------------------------------------------

\* activeKernels never keeps the number of a kernel that has ended, however
\* kernels overlap (kp_kernel_filter.cpp:248, 284, 320).
THEOREM ActiveDrain == Spec => []ActiveDrains
<1>1. Init => ActiveDrains
  BY DEF Init, ActiveDrains
<1>2. ActiveDrains /\ TypeOK /\ [Next]_vars => ActiveDrains'
  <2> SUFFICES ASSUME ActiveDrains, TypeOK, [Next]_vars
               PROVE  ActiveDrains'
    OBVIOUS
  <2> USE DEF ActiveDrains
  <2>1. CASE InitLibrary
    BY <2>1 DEF InitLibrary
  <2>2. CASE InitLibraryExit
    BY <2>2 DEF InitLibraryExit
  <2>3. ASSUME NEW kind \in Kinds, NEW name \in Names, BeginForwarded(kind, name)
        PROVE  ActiveDrains'
    <3>1. HostBegins(kind, childID, "child") /\ childID \in Nat
      BY <2>3 DEF BeginForwarded, TypeOK
    <3>2. /\ DOMAIN live' = DOMAIN live \cup {begun}
          /\ \A k \in DOMAIN live : live'[k] = live[k]
          /\ live'[begun].kID = childID
      BY <3>1 DEF HostBegins, TypeOK
    <3> QED BY <2>3, <3>2 DEF BeginForwarded
  <2>4. ASSUME NEW kind \in Kinds, NEW name \in Names, BeginNumbered(kind, name)
        PROVE  ActiveDrains'
    <3>1. HostBegins(kind, nextKernelID, "filter") /\ nextKernelID \in Nat
      BY <2>4 DEF BeginNumbered, TakeNumber, TypeOK
    <3>2. /\ DOMAIN live' = DOMAIN live \cup {begun}
          /\ \A k \in DOMAIN live : live'[k] = live[k]
      BY <3>1 DEF HostBegins, TypeOK
    <3> QED BY <2>4, <3>2 DEF BeginNumbered, TakeNumber
  <2>5. ASSUME NEW k \in DOMAIN live, EndActive(k)
        PROVE  ActiveDrains'
    BY <2>5 DEF EndActive, Deactivated
  <2>6. ASSUME NEW k \in DOMAIN live, EndInactive(k)
        PROVE  ActiveDrains'
    BY <2>6 DEF EndInactive
  <2>7. CASE FinalizeLibrary
    BY <2>7 DEF FinalizeLibrary
  <2>8. CASE UNCHANGED vars
    BY <2>8 DEF vars
  <2> QED
    BY <2>1, <2>2, <2>3, <2>4, <2>5, <2>6, <2>7, <2>8 DEF Next, Terminated
<1> QED BY <1>1, <1>2, TypeCorrect, PTL DEF Spec

-----------------------------------------------------------------------------

\* The functions of the child are known only between initialisation and
\* finalisation.
CalleesKnown == phase # "running" => beginCallee = {} /\ endCallee = {}

\* Initialisation sets the functions and finalisation clears them.
LEMMA CalleesKnownAlways == Spec => []CalleesKnown
<1>1. Init => CalleesKnown
  BY DEF Init, CalleesKnown
<1>2. CalleesKnown /\ [Next]_vars => CalleesKnown'
  BY DEF CalleesKnown, Next, InitLibrary, InitLibraryExit, BeginForwarded,
         BeginNumbered, HostBegins, EndActive, EndInactive, FinalizeLibrary,
         Terminated, settings, vars
<1> QED BY <1>1, <1>2, PTL DEF Spec

\* After kokkosp_finalize_library no call reaches the child, although kernels
\* may still begin and end (kp_kernel_filter.cpp:199-209).
THEOREM FinalizeFinal == Spec => FinalizeMeansIt
<1>1. CalleesKnown /\ [Next]_vars => [phase = "finalized" => UNCHANGED child]_vars
  <2> SUFFICES ASSUME CalleesKnown, Next, phase = "finalized"
               PROVE  UNCHANGED child
    OBVIOUS
  <2>1. beginCallee = {} /\ endCallee = {}
    BY DEF CalleesKnown
  <2> QED
    BY <2>1 DEF Next, InitLibrary, InitLibraryExit, BeginForwarded, Forwards,
                BeginNumbered, EndActive, EndInactive, FinalizeLibrary,
                Terminated, vars, child
<1> QED BY <1>1, CalleesKnownAlways, PTL DEF Spec, FinalizeMeansIt

-----------------------------------------------------------------------------
(* Routing.  The filter tells its own numbers from the child's only by     *)
(* looking them up in activeKernels, so the proof needs what the code does *)
(* not enforce: numbers of kernels in flight that do not collide.          *)

\* Either kernels do not overlap, or the child counts from beyond the filter.
NoCollision == MaxLive = 1 \/ ChildFirst >= MaxBegins

\* Who handed out a number bounds it.
NumbersBounded ==
  /\ nextKernelID <= begun /\ begun <= MaxBegins /\ ChildFirst <= childID
  /\ \A k \in DOMAIN live : live[k].by = "filter" => live[k].kID < nextKernelID
  /\ \A k \in DOMAIN live : live[k].by = "child" =>
       ChildFirst <= live[k].kID /\ live[k].kID < childID

\* Kernels in flight have different numbers.
NumbersDistinct ==
  \A j, k \in DOMAIN live : live[j].kID = live[k].kID => j = k

\* activeKernels holds exactly the child's numbers in flight.
ActiveIsChilds ==
  \A n : n \in activeKernels <=>
         \E k \in DOMAIN live : live[k].by = "child" /\ live[k].kID = n

NothingBefore == phase \in {"loaded", "exited"} => DOMAIN live = {}

RInv ==
  /\ NumbersBounded
  /\ NumbersDistinct
  /\ ActiveIsChilds
  /\ NothingBefore
  /\ CompletedKernelsEnded
  /\ EndsRouted

\* No kernel is in flight at first.
LEMMA RInvInit == Init => RInv
  BY KernelFilterAssumption
  DEF Init, RInv, NumbersBounded, NumbersDistinct, ActiveIsChilds, NothingBefore,
      CompletedKernelsEnded, EndsRouted

\* Under MaxLive = 1 a kernel begins only when none is in flight.
LEMMA NoneInFlight ==
  ASSUME TypeOK, MaxLive = 1, Cardinality(DOMAIN live) < MaxLive
  PROVE  DOMAIN live = {}
<1>1. begun - 1 \in Int
  BY DEF TypeOK
<1>2. IsFiniteSet(0 .. begun - 1)
  BY <1>1, FS_Interval
<1>3. IsFiniteSet(DOMAIN live)
  BY <1>2, FS_Subset DEF TypeOK
<1>4. Cardinality(DOMAIN live) \in Nat
  BY <1>3, FS_CardinalityType
<1>5. Cardinality(DOMAIN live) = 0
  BY <1>4
<1> QED BY <1>3, <1>5, FS_EmptySet

\* A begin that is passed on: the child's number is of the child's range.
LEMMA RInvBeginForwarded ==
  ASSUME NoCollision, TypeOK, CalleesKnown, RInv,
         NEW kind \in Kinds, NEW name \in Names, BeginForwarded(kind, name)
  PROVE  RInv'
<1>1. HostBegins(kind, childID, "child")
  BY DEF BeginForwarded
<1>2. /\ begun \in Nat /\ childID \in Nat /\ nextKernelID \in Nat
      /\ ChildFirst \in Nat /\ MaxBegins \in Nat
  BY KernelFilterAssumption DEF TypeOK
<1>3. /\ begun' = begun + 1 /\ begun < MaxBegins
      /\ begun \notin DOMAIN live
      /\ DOMAIN live' = DOMAIN live \cup {begun}
      /\ \A k \in DOMAIN live : live'[k] = live[k]
      /\ live'[begun].kID = childID
      /\ live'[begun].by = "child"
      /\ live'[begun].kind = kind
  BY <1>1 DEF HostBegins, TypeOK
<1>4. /\ phase = "running"
      /\ UNCHANGED <<phase, nextKernelID, endCallee, misrouted>>
      /\ childID' = childID + 1
      /\ activeKernels' = activeKernels \cup {childID}
      /\ DOMAIN childOpen' = DOMAIN childOpen \cup {childID}
      /\ childOpen'[childID] = begun
      /\ \A n \in DOMAIN childOpen : n # childID => childOpen'[n] = childOpen[n]
  BY DEF BeginForwarded, Forwards, CalleesKnown, settings
<1>5. ChildFirst <= childID
  BY DEF RInv, NumbersBounded
<1>6. \A k \in DOMAIN live : live[k].kID # childID
  <2>1. CASE MaxLive = 1
    BY <2>1, <1>1, NoneInFlight DEF HostBegins
  <2>2. CASE ChildFirst >= MaxBegins
    <3>1. \A k \in DOMAIN live : live[k].by = "filter" => live[k].kID # childID
      BY <1>2, <1>3, <1>5, <2>2 DEF RInv, NumbersBounded, TypeOK
    <3>2. \A k \in DOMAIN live : live[k].by = "child" => live[k].kID # childID
      BY <1>2 DEF RInv, NumbersBounded, TypeOK
    <3> QED BY <3>1, <3>2 DEF TypeOK
  <2> QED BY <2>1, <2>2 DEF NoCollision
<1>7. NumbersBounded'
  BY <1>2, <1>3, <1>4, <1>5 DEF RInv, NumbersBounded, TypeOK
<1>8. NumbersDistinct'
  BY <1>3, <1>6 DEF RInv, NumbersDistinct
<1>9. ActiveIsChilds'
  BY <1>3, <1>4 DEF RInv, ActiveIsChilds
<1>10. CompletedKernelsEnded'
  BY <1>3, <1>4, <1>6 DEF RInv, CompletedKernelsEnded
<1> QED
  BY <1>4, <1>7, <1>8, <1>9, <1>10 DEF RInv, NothingBefore, EndsRouted

\* A begin that is held back: the number is the filter's own.
LEMMA RInvBeginNumbered ==
  ASSUME NoCollision, TypeOK, RInv,
         NEW kind \in Kinds, NEW name \in Names, BeginNumbered(kind, name)
  PROVE  RInv'
<1>1. HostBegins(kind, nextKernelID, "filter")
  BY DEF BeginNumbered, TakeNumber
<1>2. /\ begun \in Nat /\ childID \in Nat /\ nextKernelID \in Nat
      /\ ChildFirst \in Nat /\ MaxBegins \in Nat
  BY KernelFilterAssumption DEF TypeOK
<1>3. /\ begun' = begun + 1 /\ begun < MaxBegins
      /\ begun \notin DOMAIN live
      /\ DOMAIN live' = DOMAIN live \cup {begun}
      /\ \A k \in DOMAIN live : live'[k] = live[k]
      /\ live'[begun].kID = nextKernelID
      /\ live'[begun].by = "filter"
      /\ phase \in {"running", "finalized"}
  BY <1>1 DEF HostBegins, TypeOK, Called
<1>4. /\ UNCHANGED <<phase, childID, childOpen, endCallee, activeKernels, misrouted>>
      /\ nextKernelID' = nextKernelID + 1
  BY DEF BeginNumbered, TakeNumber, settings, child
<1>5. \A k \in DOMAIN live : live[k].kID # nextKernelID
  <2>1. CASE MaxLive = 1
    BY <2>1, <1>1, NoneInFlight DEF HostBegins
  <2>2. CASE ChildFirst >= MaxBegins
    <3>1. \A k \in DOMAIN live : live[k].by = "filter" => live[k].kID # nextKernelID
      BY <1>2 DEF RInv, NumbersBounded, TypeOK
    <3>2. \A k \in DOMAIN live : live[k].by = "child" => live[k].kID # nextKernelID
      BY <1>2, <1>3, <2>2 DEF RInv, NumbersBounded, TypeOK
    <3> QED BY <3>1, <3>2 DEF TypeOK
  <2> QED BY <2>1, <2>2 DEF NoCollision
<1>6. NumbersBounded'
  BY <1>2, <1>3, <1>4 DEF RInv, NumbersBounded, TypeOK
<1>7. NumbersDistinct'
  BY <1>3, <1>5 DEF RInv, NumbersDistinct
<1>8. ActiveIsChilds'
  BY <1>3, <1>4 DEF RInv, ActiveIsChilds
<1>9. CompletedKernelsEnded'
  BY <1>3, <1>4 DEF RInv, CompletedKernelsEnded
<1> QED
  BY <1>3, <1>4, <1>6, <1>7, <1>8, <1>9 DEF RInv, NothingBefore, EndsRouted

\* A number found in activeKernels is the child's number of this very kernel.
LEMMA RInvEndActive ==
  ASSUME TypeOK, CalleesKnown, RInv, NEW k \in DOMAIN live, EndActive(k)
  PROVE  RInv'
<1>1. live[k].by = "child"
  BY DEF EndActive, Deactivated, RInv, ActiveIsChilds, NumbersDistinct
<1>2. /\ DOMAIN live' = DOMAIN live \ {k}
      /\ \A j \in DOMAIN live' : live'[j] = live[j]
      /\ activeKernels' = activeKernels \ {live[k].kID}
      /\ UNCHANGED <<phase, nextKernelID, begun, endCallee>>
      /\ phase \in {"running", "finalized"}
  BY DEF EndActive, Deactivated, settings, Called
<1>3. \A j \in DOMAIN live' : live[j].kID # live[k].kID
  BY <1>2 DEF RInv, NumbersDistinct
<1>4. CASE live[k].kind \in endCallee
  <2>1. phase = "running" /\ endCallee # {}
    BY <1>4, <1>2 DEF CalleesKnown
  <2>2. live[k].kID \in DOMAIN childOpen /\ childOpen[live[k].kID] = k
    BY <1>1, <1>4, <2>1 DEF RInv, CompletedKernelsEnded
  <2>3. ChildEnd(k, live[k].kID)
    BY <1>4 DEF EndActive, Deactivated
  <2>4. misrouted' = misrouted /\ childID' = childID
    BY <2>2, <2>3 DEF ChildEnd, TypeOK
  <2>5. /\ DOMAIN childOpen' = DOMAIN childOpen \ {live[k].kID}
        /\ \A n \in DOMAIN childOpen' : childOpen'[n] = childOpen[n]
    BY <2>3 DEF ChildEnd
  <2>6. CompletedKernelsEnded'
    BY <1>2, <1>3, <2>5 DEF RInv, CompletedKernelsEnded
  <2>7. ActiveIsChilds'
    BY <1>2, <1>3 DEF RInv, ActiveIsChilds
  <2>8. NumbersBounded' /\ NumbersDistinct'
    BY <1>2, <2>4 DEF RInv, NumbersBounded, NumbersDistinct
  <2> QED
    BY <1>2, <2>4, <2>6, <2>7, <2>8 DEF RInv, NothingBefore, EndsRouted
<1>5. CASE live[k].kind \notin endCallee
  <2>1. UNCHANGED <<childID, childOpen, misrouted>>
    BY <1>5 DEF EndActive, Deactivated, child
  <2>2. ActiveIsChilds'
    BY <1>2, <1>3 DEF RInv, ActiveIsChilds
  <2> QED
    BY <1>2, <2>1, <2>2
    DEF RInv, NumbersBounded, NumbersDistinct, NothingBefore,
        CompletedKernelsEnded, EndsRouted
<1> QED BY <1>4, <1>5

\* Every step keeps the routing.
LEMMA RInvNext ==
  ASSUME NoCollision, TypeOK, CalleesKnown, RInv, [Next]_vars
  PROVE  RInv'
<1> USE DEF RInv
<1>1. CASE InitLibrary
  BY <1>1 DEF InitLibrary, NumbersBounded, NumbersDistinct, ActiveIsChilds,
              NothingBefore, CompletedKernelsEnded, EndsRouted, TypeOK
<1>2. CASE InitLibraryExit
  BY <1>2 DEF InitLibraryExit, NumbersBounded, NumbersDistinct, ActiveIsChilds,
              NothingBefore, CompletedKernelsEnded, EndsRouted, settings, child
<1>3. ASSUME NEW kind \in Kinds, NEW name \in Names, BeginForwarded(kind, name)
      PROVE  RInv'
  BY <1>3, RInvBeginForwarded
<1>4. ASSUME NEW kind \in Kinds, NEW name \in Names, BeginNumbered(kind, name)
      PROVE  RInv'
  BY <1>4, RInvBeginNumbered
<1>5. ASSUME NEW k \in DOMAIN live, EndActive(k)
      PROVE  RInv'
  BY <1>5, RInvEndActive
<1>6. ASSUME NEW k \in DOMAIN live, EndInactive(k)
      PROVE  RInv'
  BY <1>6 DEF EndInactive, NumbersBounded, NumbersDistinct, ActiveIsChilds,
              NothingBefore, CompletedKernelsEnded, EndsRouted, settings, child
<1>7. CASE FinalizeLibrary
  BY <1>7 DEF FinalizeLibrary, NumbersBounded, NumbersDistinct, ActiveIsChilds,
              NothingBefore, CompletedKernelsEnded, EndsRouted
<1>8. CASE UNCHANGED vars
  BY <1>8 DEF vars, NumbersBounded, NumbersDistinct, ActiveIsChilds,
              NothingBefore, CompletedKernelsEnded, EndsRouted
<1> QED
  BY <1>1, <1>2, <1>3, <1>4, <1>5, <1>6, <1>7, <1>8 DEF Next, Terminated

\* So it holds in every state.
LEMMA RInvAlways ==
  ASSUME NoCollision
  PROVE  Spec => []RInv
  BY NoCollision, RInvInit, RInvNext, TypeCorrect, CalleesKnownAlways,
     PTL DEF Spec

\* Unless numbers collide, every end the child receives is for the kernel that
\* ends (kp_kernel_filter.cpp:240-250, 276-286, 312-322).
THEOREM Routed ==
  ASSUME NoCollision
  PROVE  Spec => []EndsRouted
<1>1. RInv => EndsRouted
  BY DEF RInv
<1> QED BY <1>1, RInvAlways, PTL

\* Unless numbers collide, a kernel the child was given is reported complete
\* only when it has ended.
THEOREM Completed ==
  ASSUME NoCollision
  PROVE  Spec => []CompletedKernelsEnded
<1>1. RInv => CompletedKernelsEnded
  BY DEF RInv
<1> QED BY <1>1, RInvAlways, PTL

-----------------------------------------------------------------------------
(* The kernel filter implements Wrapper, unless numbers collide.           *)

\* The kernels the child has open, as Wrapper sees them.
told == {childOpen[n] : n \in DOMAIN childOpen}

\* What the child has open under a number is a kernel it handed that number to, and
\* no kernel is open twice.
OpenKnown ==
  /\ \A n \in DOMAIN childOpen :
       /\ n < childID /\ childOpen[n] < begun
       /\ childOpen[n] \in DOMAIN live =>
            live[childOpen[n]].by = "child" /\ live[childOpen[n]].kID = n
  /\ \A i, j \in DOMAIN childOpen : childOpen[i] = childOpen[j] => i = j

CInv == TypeOK /\ CalleesKnown /\ RInv /\ OpenKnown

\* What Wrapper sees of a step: nothing.
WrapperStutters == UNCHANGED <<0 .. begun - 1, DOMAIN live, told>>

\* What every begin does to the kernels of the host.
LEMMA KernelBegins ==
  ASSUME TypeOK, NEW kind, NEW kID, NEW by, HostBegins(kind, kID, by)
  PROVE  /\ begun \in Nat /\ begun' = begun + 1 /\ begun \notin DOMAIN live
         /\ (0 .. begun - 1)' = (0 .. begun - 1) \cup {begun}
         /\ begun \notin 0 .. begun - 1
         /\ DOMAIN live' = DOMAIN live \cup {begun}
         /\ \A k \in DOMAIN live : live'[k] = live[k]
         /\ live'[begun] = [kind |-> kind, kID |-> kID, by |-> by]
<1>1. /\ begun \in Nat /\ begun' = begun + 1 /\ begun \notin DOMAIN live
      /\ DOMAIN live' = DOMAIN live \cup {begun}
      /\ \A k \in DOMAIN live : live'[k] = live[k]
      /\ live'[begun] = [kind |-> kind, kID |-> kID, by |-> by]
  BY DEF HostBegins, TypeOK
<1>2. begun' - 1 = begun
  BY <1>1
<1>3. 0 .. begun = (0 .. begun - 1) \cup {begun} /\ begun \notin 0 .. begun - 1
  BY <1>1
<1> QED BY <1>1, <1>2, <1>3

\* A begin that is passed on is a told begin of the wrapper.
LEMMA BeginTold ==
  ASSUME CInv, NEW kind \in Kinds, NEW name \in Names, BeginForwarded(kind, name)
  PROVE  OpenKnown' /\ Wrapping!Next
<1>1. HostBegins(kind, childID, "child")
  BY DEF BeginForwarded
<1>2. /\ DOMAIN childOpen' = DOMAIN childOpen \cup {childID}
      /\ childOpen'[childID] = begun
      /\ childID \notin DOMAIN childOpen
      /\ \A n \in DOMAIN childOpen : childOpen'[n] = childOpen[n]
      /\ childID \in Nat /\ childID' = childID + 1
  BY DEF BeginForwarded, CInv, OpenKnown, TypeOK
<1>3. told' = told \cup {begun}
  BY <1>2 DEF told
<1>4. \A n \in DOMAIN childOpen : n \in Nat /\ childOpen[n] \in Nat
  BY DEF CInv, TypeOK
<1>5. PICK k : k = begun
  OBVIOUS
<1>6. /\ k \in Nat /\ begun' = k + 1 /\ k \notin DOMAIN live
      /\ (0 .. begun - 1)' = (0 .. begun - 1) \cup {k} /\ k \notin 0 .. begun - 1
      /\ DOMAIN live' = DOMAIN live \cup {k}
      /\ \A j \in DOMAIN live : live'[j] = live[j]
      /\ live'[k].by = "child" /\ live'[k].kID = childID
  <2>1. live'[begun] = [kind |-> kind, kID |-> childID, by |-> "child"]
    BY <1>1, KernelBegins DEF CInv
  <2> QED BY <1>1, <1>5, <2>1, KernelBegins DEF CInv
<1>7. OpenKnown'
  BY <1>2, <1>4, <1>5, <1>6 DEF CInv, OpenKnown
<1>8. Wrapping!BeginKernel(k)
  BY <1>3, <1>5, <1>6 DEF Wrapping!BeginKernel, told
<1> QED BY <1>6, <1>7, <1>8 DEF Wrapping!Next

\* One that is held back is an untold begin.
LEMMA BeginUntold ==
  ASSUME CInv, NEW kind \in Kinds, NEW name \in Names, BeginNumbered(kind, name)
  PROVE  OpenKnown' /\ Wrapping!Next
<1>1. HostBegins(kind, nextKernelID, "filter") /\ UNCHANGED <<childOpen, childID>>
  BY DEF BeginNumbered, child
<1>2. told' = told
  BY <1>1 DEF told
<1>3. \A n \in DOMAIN childOpen : childOpen[n] \in Nat
  BY DEF CInv, TypeOK
<1>4. PICK k : k = begun
  OBVIOUS
<1>5. /\ k \in Nat /\ begun' = k + 1 /\ k \notin DOMAIN live
      /\ (0 .. begun - 1)' = (0 .. begun - 1) \cup {k} /\ k \notin 0 .. begun - 1
      /\ DOMAIN live' = DOMAIN live \cup {k}
      /\ \A j \in DOMAIN live : live'[j] = live[j]
  BY <1>1, <1>4, KernelBegins DEF CInv
<1>6. OpenKnown'
  BY <1>1, <1>3, <1>4, <1>5 DEF CInv, OpenKnown
<1>7. Wrapping!BeginKernel(k)
  BY <1>2, <1>4, <1>5 DEF Wrapping!BeginKernel, told
<1> QED BY <1>5, <1>6, <1>7 DEF Wrapping!Next

\* An end that is passed on is the end of a kernel the child was told of.
LEMMA EndTold ==
  ASSUME CInv, NEW k \in DOMAIN live, EndActive(k)
  PROVE  OpenKnown' /\ Wrapping!Next
<1>1. /\ DOMAIN live' = DOMAIN live \ {k}
      /\ \A j \in DOMAIN live' : live'[j] = live[j]
      /\ begun' = begun
      /\ phase \in {"running", "finalized"}
      /\ live[k].by = "child"
  BY DEF EndActive, Called, CInv, RInv, ActiveIsChilds, NumbersDistinct
<1> DEFINE n == live[k].kID
<1>2. CASE live[k].kind \in endCallee
  <2>1. phase = "running"
    BY <1>1, <1>2 DEF CInv, CalleesKnown
  <2>2. n \in DOMAIN childOpen /\ childOpen[n] = k
    BY <1>1, <1>2, <2>1 DEF CInv, RInv, CompletedKernelsEnded
  <2>3. /\ DOMAIN childOpen' = DOMAIN childOpen \ {n}
        /\ \A i \in DOMAIN childOpen' : childOpen'[i] = childOpen[i]
        /\ childID' = childID
    BY <1>2 DEF EndActive, ChildEnd
  <2> HIDE DEF n
  <2>4. told' = told \ {k}
    BY <2>2, <2>3 DEF told, CInv, OpenKnown
  <2>5. OpenKnown'
    BY <1>1, <2>3 DEF CInv, OpenKnown
  <2>6. Wrapping!EndKernel(k)
    BY <1>1, <1>2, <2>4 DEF Wrapping!EndKernel, told
  <2> QED BY <2>5, <2>6 DEF Wrapping!Next
<1>3. CASE live[k].kind \notin endCallee
  <2>1. UNCHANGED <<childOpen, childID>>
    BY <1>3 DEF EndActive, child
  <2>2. told' = told
    BY <2>1 DEF told
  <2>3. OpenKnown'
    BY <1>1, <2>1 DEF CInv, OpenKnown
  <2>4. Wrapping!EndKernel(k)
    BY <1>1, <1>3, <2>2 DEF Wrapping!EndKernel, told
  <2> QED BY <2>3, <2>4 DEF Wrapping!Next
<1> QED BY <1>2, <1>3

\* One that is held back is the end of a kernel it was not told of.
LEMMA EndUntold ==
  ASSUME CInv, NEW k \in DOMAIN live, EndInactive(k)
  PROVE  OpenKnown' /\ Wrapping!Next
<1>1. /\ DOMAIN live' = DOMAIN live \ {k}
      /\ \A j \in DOMAIN live' : live'[j] = live[j]
      /\ UNCHANGED <<begun, childOpen, childID>>
      /\ live[k].by # "child"
  BY DEF EndInactive, child, CInv, RInv, ActiveIsChilds
<1>2. told' = told /\ k \notin told
  BY <1>1 DEF told, CInv, OpenKnown
<1>3. OpenKnown'
  BY <1>1 DEF CInv, OpenKnown
<1>4. Wrapping!EndKernel(k)
  BY <1>1, <1>2 DEF Wrapping!EndKernel, told
<1> QED BY <1>3, <1>4 DEF Wrapping!Next

\* The other steps are invisible to the wrapper.
LEMMA Unseen ==
  ASSUME CInv, InitLibrary \/ InitLibraryExit \/ FinalizeLibrary \/ UNCHANGED vars
  PROVE  OpenKnown' /\ WrapperStutters
<1>1. UNCHANGED <<begun, live, childOpen, childID>>
  BY DEF InitLibrary, InitLibraryExit, FinalizeLibrary, vars, child
<1> QED BY <1>1 DEF CInv, OpenKnown, WrapperStutters, told

\* Unless numbers collide, the child hears of a kernel it is given at its begin, and
\* of its end in the callback in which it ends (kp_kernel_filter.cpp:210-322).
THEOREM Wraps ==
  ASSUME NoCollision
  PROVE  Spec => WrapsChild
<1> DEFINE abstract == <<TRUE, 0 .. begun - 1, DOMAIN live, told>>
<1>1. Init => OpenKnown /\ Wrapping!Init
  <2> SUFFICES ASSUME Init PROVE OpenKnown /\ Wrapping!Init
    OBVIOUS
  <2>1. begun = 0 /\ DOMAIN live = {} /\ DOMAIN childOpen = {}
    BY DEF Init
  <2>2. 0 .. begun - 1 = {}
    BY <2>1
  <2> QED BY <2>1, <2>2 DEF OpenKnown, Wrapping!Init
<1>2. CInv /\ [Next]_vars => OpenKnown' /\ [Wrapping!Next]_abstract
  <2> SUFFICES ASSUME CInv, [Next]_vars
               PROVE  OpenKnown' /\ [Wrapping!Next]_abstract
    OBVIOUS
  <2>1. ASSUME InitLibrary \/ InitLibraryExit \/ FinalizeLibrary \/ UNCHANGED vars
        PROVE  OpenKnown' /\ UNCHANGED abstract
    BY <2>1, Unseen DEF WrapperStutters
  <2> HIDE DEF abstract
  <2> QED BY <2>1, BeginTold, BeginUntold, EndTold, EndUntold DEF Next, Terminated
<1>3. CInv <=> TypeOK /\ CalleesKnown /\ RInv /\ OpenKnown
  BY DEF CInv
<1> QED
  BY <1>1, <1>2, <1>3, NoCollision, TypeCorrect, CalleesKnownAlways, RInvAlways,
     PTL DEF Spec, WrapsChild, Wrapping!Spec, told

=============================================================================
