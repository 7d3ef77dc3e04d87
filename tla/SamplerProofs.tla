--------------------------- MODULE SamplerProofs ----------------------------
(***************************************************************************)
(* Theorems about the sampler, for every library, environment, RAND_MAX    *)
(* and number of kernels.                                                  *)
(***************************************************************************)
EXTENDS Sampler, FiniteSetTheorems, TLAPS

USE DEF Insert, Erase, EmptyMap

\* What an environment can hold, as the proofs use it.
LEMMA EnvironmentFacts ==
  ASSUME TypeOK
  PROVE  /\ env.prob \in Int \cup {NotSet}
         /\ env.skip \in Int \cup {NotSet}
         /\ env.globFence \in BOOLEAN
         /\ env.tpiFence \in BOOLEAN
  BY SamplerAssumption DEF TypeOK, EnvironmentType

\* The settings that initialisation reads are in range.
LEMMA SettingsType ==
  ASSUME TypeOK
  PROVE  /\ SamplingProbability \in -1 .. 100
         /\ SamplingPeriod \in Nat
<1>1. SamplingProbability \in -1 .. 100
  BY EnvironmentFacts, SamplerAssumption, LibrariesAssumption DEF SamplingProbability
<1>2. SamplingPeriod \in Nat
  BY EnvironmentFacts, SamplerAssumption, LibrariesAssumption DEF SamplingPeriod
<1> QED BY <1>1, <1>2

\* The library that initialisation loads has a record of symbols.
LEMMA NextLibraryType ==
  ASSUME TypeOK, ChildLoads(env.loader)
  PROVE  nextLibrary(env.loader) \in LibraryType
<1> DEFINE loader == env.loader
<1>1. /\ loader.tools_libs \in Seq(DOMAIN Library) \cup {NotSet}
      /\ loader.profile_library \in Seq(DOMAIN Library) \cup {NotSet}
      /\ loader.loadSeq \in Nat
  BY SamplerAssumption DEF TypeOK, EnvironmentType, LoaderType
<1>2. profileLibrary(loader) \in Seq(DOMAIN Library)
  BY <1>1 DEF ChildLoads, HasNextLibrary, profileLibrary
<1>3. profileLibrary(loader)[loader.loadSeq + 2] \in DOMAIN Library
  BY <1>1, <1>2 DEF ChildLoads, HasNextLibrary
<1> QED BY <1>3, LibrariesAssumption DEF nextLibrary

-----------------------------------------------------------------------------

\* The types hold at first.
LEMMA InitType == Init => TypeOK
<1> SUFFICES ASSUME Init PROVE TypeOK
  OBVIOUS
<1>1. kernelSampleSkip \in Nat
  BY SamplerAssumption DEF Init
<1>2. /\ infokIDSample \in [DOMAIN infokIDSample -> Nat]
      /\ DOMAIN infokIDSample \subseteq Nat
      /\ live \in [DOMAIN live -> Kinds]
      /\ DOMAIN live \subseteq Nat
  BY DEF Init
<1>3. tool_prob_num \in -1 .. 100
  BY DEF Init
<1>4. invocationNum \in [Kinds -> Nat] /\ topDraws \in [Kinds -> Nat]
  BY DEF Init
<1>5. /\ phase \in Phases /\ childPhase \in Phases
      /\ beginCallee \subseteq Kinds /\ endCallee \subseteq Kinds
      /\ childOpen \subseteq (Kinds \X Nat)
  BY DEF Init, Phases
<1>6. uniqID \in Nat /\ childID \in Nat /\ childStray \in Nat /\ fences \in Nat
  BY DEF Init
<1>7. env \in Environments /\ fenceSet \in BOOLEAN
  BY DEF Init
<1> QED BY <1>1, <1>2, <1>3, <1>4, <1>5, <1>6, <1>7 DEF TypeOK

\* Every variable keeps its type: Init establishes TypeOK and each callback of
\* kp_sampler_skip.cpp preserves it.
THEOREM TypeCorrect == Spec => []TypeOK
<1>1. Init => TypeOK
  BY InitType
<1>2. TypeOK /\ [Next]_vars => TypeOK'
  <2> SUFFICES ASSUME TypeOK, [Next]_vars
               PROVE  TypeOK'
    OBVIOUS
  <2>1. CASE InitLibrary
    BY <2>1, SettingsType, NextLibraryType
    DEF InitLibrary, TypeOK, Phases, LibraryType
  <2>2. CASE InitLibraryExit
    BY <2>2 DEF InitLibraryExit, TypeOK, Phases, config, child
  <2>3. CASE ProvideToolProgrammingInterface
    BY <2>3, EnvironmentFacts
    DEF ProvideToolProgrammingInterface, TypeOK, Phases, config, child
  <2>4. ASSUME NEW kind \in Kinds, BeginSkipped(kind)
        PROVE  TypeOK'
    BY <2>4 DEF BeginSkipped, CountInvocation, TypeOK, config, child
  <2>5. ASSUME NEW kind \in Kinds, NEW draw \in 0 .. RandMax, BeginDrawn(kind, draw)
        PROVE  TypeOK'
    BY <2>5 DEF BeginDrawn, CountInvocation, ChildBegin, invoke_ktools_fence,
                TypeOK, Phases, config, child
  <2>6. ASSUME NEW kind \in Kinds, BeginModuloZero(kind)
        PROVE  TypeOK'
    BY <2>6 DEF BeginModuloZero, CountInvocation, TypeOK, Phases, config, child
  <2>7. ASSUME NEW kID \in DOMAIN live, EndForwarded(kID)
        PROVE  TypeOK'
    BY <2>7 DEF EndForwarded, Sampled, retrievedNestedkID, ChildEnd, invoke_ktools_fence, TypeOK, Phases,
                config, child
  <2>8. ASSUME NEW kID \in DOMAIN live, EndIgnored(kID)
        PROVE  TypeOK'
    BY <2>8 DEF EndIgnored, Sampled, TypeOK, config, child
  <2>9. CASE FinalizeLibrary
    BY <2>9 DEF FinalizeLibrary, TypeOK, Phases, config
  <2>10. CASE UNCHANGED vars
    BY <2>10 DEF vars, TypeOK
  <2> QED
    BY <2>1, <2>2, <2>3, <2>4, <2>5, <2>6, <2>7, <2>8, <2>9, <2>10
    DEF Next, Terminated
<1> QED BY <1>1, <1>2, PTL DEF Spec

-----------------------------------------------------------------------------
(* The inductive invariant behind the two theorems below.                  *)

\* Numbers are handed out upwards, by the sampler and by the child.
NumbersBelow ==
  /\ \A k \in DOMAIN live : k < uniqID
  /\ \A k \in DOMAIN infokIDSample : k < uniqID /\ infokIDSample[k] < childID
  /\ \A c \in childOpen : c[2] < childID

\* No two samples share a number of the child.
NumbersDistinct ==
  \A j, k \in DOMAIN infokIDSample : infokIDSample[j] = infokIDSample[k] => j = k

\* Nothing is in flight before initialisation.
NothingBefore ==
  phase = "loaded" => DOMAIN live = {} /\ DOMAIN infokIDSample = {} /\ childOpen = {}

\* A sampled kernel in flight is open in the child.
SamplesOpen == LiveSamples \subseteq childOpen

\* A kernel of the child with an end symbol is a sampled kernel in flight.
OpenSampled ==
  phase # "aborted" => \A c \in childOpen : c[1] \in endCallee => c \in LiveSamples

\* An entry without a kernel in flight is due to a missing end symbol.
EntriesLive ==
  phase # "aborted" /\ beginCallee \subseteq endCallee =>
    DOMAIN infokIDSample \subseteq DOMAIN live

\* Only kinds with a begin symbol are sampled.
SampledKinds ==
  \A k \in DOMAIN live \cap DOMAIN infokIDSample : live[k] \in beginCallee

IInv ==
  /\ TypeOK
  /\ NumbersBelow
  /\ NumbersDistinct
  /\ NothingBefore
  /\ SamplesOpen
  /\ OpenSampled
  /\ EntriesLive
  /\ SampledKinds
  /\ childStray = 0

\* No kernel is in flight at first.
LEMMA IInvInit == Init => IInv
<1> SUFFICES ASSUME Init PROVE IInv
  OBVIOUS
<1>1. TypeOK
  BY InitType
<1>2. DOMAIN live = {} /\ DOMAIN infokIDSample = {} /\ childOpen = {} /\ childStray = 0
  BY DEF Init
<1> QED
  BY <1>1, <1>2 DEF IInv, NumbersBelow, NumbersDistinct, NothingBefore,
                    SamplesOpen, OpenSampled, EntriesLive, SampledKinds, LiveSamples

\* A kernel that begins unsampled leaves the samples in flight as they are.
LEMMA BeginUnsampled ==
  ASSUME IInv, NEW kind \in Kinds, CountInvocation(kind), TypeOK',
         UNCHANGED <<infokIDSample, childID, childOpen, childStray>>,
         phase' \in {"running", "trapped", "aborted"}
  PROVE  IInv'
<1>1. /\ uniqID \in Nat
      /\ uniqID \notin DOMAIN live
      /\ uniqID \notin DOMAIN infokIDSample
      /\ uniqID' = uniqID + 1
      /\ DOMAIN live' = DOMAIN live \cup {uniqID}
      /\ \A k \in DOMAIN live : live'[k] = live[k]
  BY DEF IInv, TypeOK, NumbersBelow, CountInvocation
<1>2. LiveSamples' = LiveSamples
  BY <1>1 DEF LiveSamples
<1>3. NumbersBelow'
  BY <1>1 DEF IInv, TypeOK, NumbersBelow
<1>4. phase = "running" /\ UNCHANGED <<beginCallee, endCallee>>
  BY DEF CountInvocation, config
<1> QED
  BY <1>1, <1>2, <1>3, <1>4
  DEF IInv, NumbersDistinct, NothingBefore, SamplesOpen, OpenSampled, EntriesLive,
      SampledKinds

\* A kernel that begins sampled joins the samples in flight and is opened in
\* the child under the same kind and number.
LEMMA BeginSampled ==
  ASSUME IInv, NEW kind \in beginCallee, CountInvocation(kind), TypeOK', ChildBegin(kind),
         infokIDSample' = Insert(infokIDSample, uniqID, childID), phase' = phase
  PROVE  IInv'
<1>1. /\ uniqID \in Nat
      /\ uniqID \notin DOMAIN live
      /\ uniqID \notin DOMAIN infokIDSample
      /\ uniqID' = uniqID + 1
      /\ DOMAIN live' = DOMAIN live \cup {uniqID}
      /\ \A k \in DOMAIN live : live'[k] = live[k]
      /\ live'[uniqID] = kind
      /\ phase = "running" /\ UNCHANGED <<beginCallee, endCallee>>
  BY DEF IInv, TypeOK, NumbersBelow, CountInvocation, config
<1>2. /\ DOMAIN infokIDSample' = DOMAIN infokIDSample \cup {uniqID}
      /\ \A k \in DOMAIN infokIDSample : infokIDSample'[k] = infokIDSample[k]
      /\ infokIDSample'[uniqID] = childID
      /\ childID \in Nat /\ childID' = childID + 1
      /\ childOpen' = childOpen \cup {<<kind, childID>>}
      /\ childStray' = childStray
  BY <1>1 DEF ChildBegin, IInv, TypeOK
<1>3. LiveSamples' = LiveSamples \cup {<<kind, childID>>}
  BY <1>1, <1>2 DEF LiveSamples
<1>4. NumbersBelow'
  <2>1. \A k \in DOMAIN live' : k < uniqID'
    BY <1>1 DEF IInv, TypeOK, NumbersBelow
  <2>2. \A k \in DOMAIN infokIDSample' : k < uniqID' /\ infokIDSample'[k] < childID'
    BY <1>1, <1>2 DEF IInv, TypeOK, NumbersBelow
  <2>3. \A c \in childOpen' : c[2] < childID'
    BY <1>2 DEF IInv, TypeOK, NumbersBelow
  <2> QED BY <2>1, <2>2, <2>3 DEF NumbersBelow
<1>5. NumbersDistinct'
  BY <1>1, <1>2 DEF IInv, TypeOK, NumbersDistinct, NumbersBelow
<1>6. SamplesOpen' /\ OpenSampled'
  BY <1>1, <1>2, <1>3 DEF IInv, SamplesOpen, OpenSampled
<1>7. EntriesLive' /\ NothingBefore' /\ SampledKinds'
  BY <1>1, <1>2 DEF IInv, EntriesLive, NothingBefore, SampledKinds
<1> QED BY <1>2, <1>4, <1>5, <1>6, <1>7 DEF IInv

\* An end that is forwarded closes the child's kernel and erases its entry.
LEMMA IInvEndForwarded ==
  ASSUME IInv, TypeOK', NEW kID \in DOMAIN live, EndForwarded(kID)
  PROVE  IInv'
<1>1. /\ DOMAIN live' = DOMAIN live \ {kID}
      /\ \A k \in DOMAIN live' : live'[k] = live[k]
      /\ kID \in DOMAIN infokIDSample
      /\ live[kID] \in endCallee
      /\ phase = "running"
      /\ UNCHANGED <<beginCallee, endCallee, uniqID>>
  BY DEF EndForwarded, Sampled, config
<1>2. CASE FenceCrashes
  <2>1. /\ phase' = "aborted"
        /\ UNCHANGED <<infokIDSample, childID, childOpen, childStray>>
    BY <1>2 DEF EndForwarded, child
  <2>2. LiveSamples' \subseteq LiveSamples
    BY <1>1, <2>1 DEF LiveSamples
  <2> QED
    BY <1>1, <2>1, <2>2
    DEF IInv, NumbersBelow, NumbersDistinct, NothingBefore, SamplesOpen,
        OpenSampled, EntriesLive, SampledKinds
<1>3. CASE ~ FenceCrashes
  <2>1. /\ phase' = phase
        /\ DOMAIN infokIDSample' = DOMAIN infokIDSample \ {kID}
        /\ \A k \in DOMAIN infokIDSample' : infokIDSample'[k] = infokIDSample[k]
        /\ childID' = childID
        /\ childOpen' = childOpen \ {<<live[kID], infokIDSample[kID]>>}
    BY <1>3 DEF EndForwarded, Sampled, retrievedNestedkID, ChildEnd
  <2>2. <<live[kID], infokIDSample[kID]>> \in childOpen
    BY <1>1 DEF IInv, SamplesOpen, LiveSamples
  <2>3. childStray' = 0
    BY <1>3, <2>2 DEF EndForwarded, retrievedNestedkID, ChildEnd, IInv
  <2>4. LiveSamples' = LiveSamples \ {<<live[kID], infokIDSample[kID]>>}
    BY <1>1, <2>1 DEF LiveSamples, IInv, NumbersDistinct
  <2>5. NumbersBelow' /\ NumbersDistinct'
    BY <1>1, <2>1 DEF IInv, NumbersBelow, NumbersDistinct
  <2>6. SamplesOpen' /\ OpenSampled'
    BY <1>1, <2>1, <2>4 DEF IInv, SamplesOpen, OpenSampled
  <2>7. EntriesLive' /\ NothingBefore' /\ SampledKinds'
    BY <1>1, <2>1 DEF IInv, EntriesLive, NothingBefore, SampledKinds
  <2> QED BY <2>3, <2>5, <2>6, <2>7 DEF IInv
<1> QED BY <1>2, <1>3

\* An end without an entry is of a kernel the child does not have.
LEMMA IInvEndIgnored ==
  ASSUME IInv, TypeOK', NEW kID \in DOMAIN live, EndIgnored(kID)
  PROVE  IInv'
<1>1. /\ DOMAIN live' = DOMAIN live \ {kID}
      /\ \A k \in DOMAIN live' : live'[k] = live[k]
      /\ live[kID] \notin endCallee \/ kID \notin DOMAIN infokIDSample
      /\ phase = "running"
      /\ UNCHANGED <<phase, beginCallee, endCallee, uniqID, infokIDSample,
                     childID, childOpen, childStray>>
  BY DEF EndIgnored, Sampled, config, child
<1>2. LiveSamples' \subseteq LiveSamples
  BY <1>1 DEF LiveSamples
<1>3. \A c \in LiveSamples : c[1] \in endCallee => c \in LiveSamples'
  BY <1>1 DEF LiveSamples
<1>4. EntriesLive' /\ SampledKinds'
  BY <1>1 DEF IInv, EntriesLive, SampledKinds
<1> QED
  BY <1>1, <1>2, <1>3, <1>4
  DEF IInv, NumbersBelow, NumbersDistinct, NothingBefore, SamplesOpen, OpenSampled

\* Every step keeps the invariant.
LEMMA IInvNext == IInv /\ TypeOK' /\ [Next]_vars => IInv'
<1> SUFFICES ASSUME IInv, TypeOK', [Next]_vars
             PROVE  IInv'
  OBVIOUS
<1> USE DEF IInv
<1>1. CASE InitLibrary
  BY <1>1 DEF InitLibrary, NumbersBelow, NumbersDistinct, NothingBefore,
              SamplesOpen, OpenSampled, EntriesLive, SampledKinds, LiveSamples
<1>2. CASE InitLibraryExit
  BY <1>2 DEF InitLibraryExit, NumbersBelow, NumbersDistinct, NothingBefore,
              SamplesOpen, OpenSampled, EntriesLive, SampledKinds, LiveSamples, config, child
<1>3. CASE ProvideToolProgrammingInterface
  BY <1>3 DEF ProvideToolProgrammingInterface, NumbersBelow, NumbersDistinct,
              NothingBefore, SamplesOpen, OpenSampled, EntriesLive, SampledKinds, LiveSamples,
              config, child
<1>4. ASSUME NEW kind \in Kinds, BeginSkipped(kind)
      PROVE  IInv'
  BY <1>4, BeginUnsampled DEF BeginSkipped, CountInvocation, child
<1>5. ASSUME NEW kind \in Kinds, NEW draw \in 0 .. RandMax, BeginDrawn(kind, draw)
      PROVE  IInv'
  <2>1. CountInvocation(kind) /\ phase = "running"
    BY <1>5 DEF BeginDrawn, CountInvocation
  <2>2. CASE DrawSelects(draw) /\ kind \in beginCallee /\ ~ FenceCrashes
    <3>1. /\ ChildBegin(kind) /\ phase' = phase
          /\ infokIDSample' = Insert(infokIDSample, uniqID, childID)
      BY <1>5, <2>2 DEF BeginDrawn
    <3> QED BY <2>1, <2>2, <3>1, BeginSampled
  <2>3. CASE ~ (DrawSelects(draw) /\ kind \in beginCallee /\ ~ FenceCrashes)
    <3>1. /\ UNCHANGED <<infokIDSample, childID, childOpen, childStray>>
          /\ phase' \in {"running", "trapped", "aborted"}
      BY <1>5, <2>1, <2>3 DEF BeginDrawn, child
    <3> QED BY <2>1, <3>1, BeginUnsampled
  <2> QED BY <2>2, <2>3
<1>6. ASSUME NEW kind \in Kinds, BeginModuloZero(kind)
      PROVE  IInv'
  BY <1>6, BeginUnsampled DEF BeginModuloZero, child
<1>7. ASSUME NEW kID \in DOMAIN live, EndForwarded(kID)
      PROVE  IInv'
  BY <1>7, IInvEndForwarded
<1>8. ASSUME NEW kID \in DOMAIN live, EndIgnored(kID)
      PROVE  IInv'
  BY <1>8, IInvEndIgnored
<1>9. CASE FinalizeLibrary
  BY <1>9 DEF FinalizeLibrary, NumbersBelow, NumbersDistinct, NothingBefore,
              SamplesOpen, OpenSampled, EntriesLive, SampledKinds, LiveSamples, config
<1>10. CASE UNCHANGED vars
  BY <1>10 DEF vars, NumbersBelow, NumbersDistinct, NothingBefore,
               SamplesOpen, OpenSampled, EntriesLive, SampledKinds, LiveSamples
<1> QED
  BY <1>1, <1>2, <1>3, <1>4, <1>5, <1>6, <1>7, <1>8, <1>9, <1>10
  DEF Next, Terminated

\* So it holds in every state.
LEMMA IInvAlways == Spec => []IInv
  BY IInvInit, IInvNext, TypeCorrect, PTL DEF Spec

\* Every end that reaches the child (kp_sampler_skip.cpp:309, 357, 405) is for a
\* kernel the child has begun and not ended, of the same kind.
THEOREM EndsMatch == Spec => []ChildEndsMatch
<1>1. IInv => ChildEndsMatch
  BY DEF IInv, ChildEndsMatch
<1> QED BY <1>1, IInvAlways, PTL

\* Among the kinds with an end symbol, the child has open exactly the sampled
\* kernels the host has in flight.
THEOREM OpenWhileLive == Spec => []ChildOpenWhileLive
<1>1. IInv => ChildOpenWhileLive
  BY DEF IInv, ChildOpenWhileLive, SamplesOpen, OpenSampled
<1> QED BY <1>1, IInvAlways, PTL

\* infokIDSample holds no entry of a finished kernel (kp_sampler_skip.cpp:312)
\* when the child has the end symbols that go with its begin symbols.
THEOREM NoStale == Spec => []NoStaleEntry
<1>1. IInv => NoStaleEntry
  BY DEF IInv, NoStaleEntry, EntriesLive
<1> QED BY <1>1, IInvAlways, PTL

-----------------------------------------------------------------------------
(* Fences                                                                  *)

\* A call that begins a kernel in the child opens one, a call that ends one closes it.
FenceInv == IsFiniteSet(childOpen) /\ FencedCalls

\* A step that calls nothing fences nothing.
LEMMA FencesSame ==
  FenceInv /\ UNCHANGED <<env, childID, childOpen>>
    /\ ((fences' = fences /\ phase # "aborted") \/ phase' = "aborted") => FenceInv'
BY DEF FenceInv, FencedCalls

\* Every step has a fence for each call it makes.
LEMMA FenceInvNext == IInv /\ FenceInv /\ [Next]_vars => FenceInv'
<1> SUFFICES ASSUME IInv, FenceInv, [Next]_vars PROVE FenceInv'
  OBVIOUS
<1>1. CASE InitLibrary \/ InitLibraryExit \/ ProvideToolProgrammingInterface \/ FinalizeLibrary
  BY <1>1, FencesSame DEF InitLibrary, InitLibraryExit, ProvideToolProgrammingInterface,
    FinalizeLibrary, config, child
<1>2. ASSUME NEW kind \in Kinds, BeginSkipped(kind) \/ BeginModuloZero(kind) PROVE FenceInv'
  BY <1>2, FencesSame DEF BeginSkipped, BeginModuloZero, CountInvocation, config, child
<1>3. ASSUME NEW kind \in Kinds, NEW draw \in 0 .. RandMax, BeginDrawn(kind, draw)
      PROVE  FenceInv'
  <2>1. phase = "running" /\ env' = env
    BY <1>3 DEF BeginDrawn, CountInvocation, config
  <2>2. CASE DrawSelects(draw) /\ kind \in beginCallee /\ ~ FenceCrashes
    <3>1. /\ fences' = fences + (IF env.globFence THEN 1 ELSE 0) /\ childID' = childID + 1
          /\ childOpen' = childOpen \cup {<<kind, childID>>} /\ phase' = phase
      BY <1>3, <2>2 DEF BeginDrawn, ChildBegin, invoke_ktools_fence
    <3>2. childID \in Nat /\ <<kind, childID>> \notin childOpen
      BY DEF IInv, TypeOK, NumbersBelow
    <3>3. /\ IsFiniteSet(childOpen') /\ Cardinality(childOpen) \in Nat
          /\ Cardinality(childOpen') = Cardinality(childOpen) + 1
      BY <3>1, <3>2, FS_AddElement, FS_CardinalityType DEF FenceInv
    <3> QED BY <2>1, <3>1, <3>2, <3>3 DEF FenceInv, FencedCalls
  <2>3. CASE ~ (DrawSelects(draw) /\ kind \in beginCallee /\ ~ FenceCrashes)
    BY <1>3, <2>1, <2>3, FencesSame DEF BeginDrawn, child
  <2> QED BY <2>2, <2>3
<1>4. ASSUME NEW kID \in DOMAIN live, EndForwarded(kID) PROVE FenceInv'
  <2>1. phase = "running" /\ env' = env
    BY <1>4 DEF EndForwarded, config
  <2>2. CASE ~ FenceCrashes
    <3> DEFINE c == <<live[kID], infokIDSample[kID]>>
    <3>1. /\ fences' = fences + (IF env.globFence THEN 1 ELSE 0) /\ childID' = childID
          /\ childOpen' = childOpen \ {c} /\ phase' = phase
      BY <1>4, <2>2 DEF EndForwarded, ChildEnd, invoke_ktools_fence, retrievedNestedkID
    <3>2. childID \in Nat /\ c \in childOpen
      BY <1>4 DEF EndForwarded, Sampled, IInv, TypeOK, SamplesOpen, LiveSamples
    <3> HIDE DEF c
    <3>3. /\ IsFiniteSet(childOpen') /\ Cardinality(childOpen) \in Nat
          /\ Cardinality(childOpen') = Cardinality(childOpen) - 1
      BY <3>1, <3>2, FS_RemoveElement, FS_CardinalityType DEF FenceInv
    <3> QED BY <2>1, <3>1, <3>2, <3>3 DEF FenceInv, FencedCalls
  <2>3. CASE FenceCrashes
    BY <1>4, <2>1, <2>3, FencesSame DEF EndForwarded, child
  <2> QED BY <2>2, <2>3
<1>5. ASSUME NEW kID \in DOMAIN live, EndIgnored(kID) PROVE FenceInv'
  BY <1>5, FencesSame DEF EndIgnored, config, child
<1>6. CASE UNCHANGED vars
  BY <1>6 DEF vars, FenceInv, FencedCalls
<1> QED BY <1>1, <1>2, <1>3, <1>4, <1>5, <1>6 DEF Next, Terminated

\* With KOKKOS_TOOLS_GLOBALFENCES the runtime is fenced once for each call that reaches
\* the child, and never without it (kp_sampler_skip.cpp:280-284, 304-307).
THEOREM FencesPaired == Spec => []FencedCalls
<1>1. Init => FenceInv
  BY FS_EmptySet DEF Init, FenceInv, FencedCalls
<1>2. FenceInv => FencedCalls
  BY DEF FenceInv
<1> QED BY <1>1, <1>2, FenceInvNext, IInvAlways, PTL DEF Spec

-----------------------------------------------------------------------------
(* The sampling rate                                                       *)

\* Division of what a C program counts: quotient and remainder, and the next number.
LEMMA DivMod ==
  ASSUME NEW n \in Nat, NEW p \in Nat \ {0}
  PROVE  /\ n \div p \in Int /\ n % p \in 0 .. p - 1
         /\ n = p * (n \div p) + (n % p)
  BY SMT

\* Division has one quotient and one remainder.
LEMMA DivUnique ==
  ASSUME NEW p \in Nat \ {0}, NEW r \in 0 .. p - 1, NEW s \in 0 .. p - 1, NEW q \in Int, NEW k \in Int,
         p * q + r = p * k + s
  PROVE  q = k /\ r = s
<1>1. p * (q - k) = s - r
  BY Z3
<1>2. s - r < p /\ r - s < p
  OBVIOUS
<1>3. CASE q > k
  <2>1. q - k >= 1
    BY <1>3
  <2>2. p * (q - k) >= p
    BY <2>1, Z3
  <2> QED BY <1>1, <1>2, <2>2
<1>4. CASE q < k
  <2>1. k - q >= 1
    BY <1>4
  <2>2. p * (k - q) >= p
    BY <2>1, Z3
  <2>3. p * (k - q) = r - s
    BY <1>1, Z3
  <2> QED BY <1>2, <2>2, <2>3
<1>5. q = k => r = s
  OBVIOUS
<1> QED BY <1>3, <1>4, <1>5

\* One more is divisible once in p numbers.
LEMMA DivStep ==
  ASSUME NEW n \in Nat, NEW p \in Nat \ {0}
  PROVE  (n + 1) \div p = (n \div p) + (IF (n + 1) % p = 0 THEN 1 ELSE 0)
<1> DEFINE q == n \div p
           r == n % p
           k == (n + 1) \div p
           s == (n + 1) % p
<1>1. q \in Int /\ r \in 0 .. p - 1 /\ n = p * q + r
  BY DivMod
<1>2. k \in Int /\ s \in 0 .. p - 1 /\ n + 1 = p * k + s
  BY DivMod, n + 1 \in Nat
<1> HIDE DEF q, r, k, s
<1>3. CASE r + 1 < p
  <2>1. p * q + (r + 1) = p * k + s /\ r + 1 \in 0 .. p - 1
    BY <1>1, <1>2, <1>3
  <2>2. q = k /\ r + 1 = s
    BY <1>1, <1>2, <2>1, DivUnique
  <2> QED BY <1>1, <2>2 DEF q, k, s
<1>4. CASE r + 1 = p
  <2>1. p * (q + 1) = p * q + p
    BY <1>1
  <2>2. p * (q + 1) + 0 = p * k + s /\ 0 \in 0 .. p - 1 /\ q + 1 \in Int
    BY <1>1, <1>2, <1>4, <2>1
  <2>3. q + 1 = k /\ s = 0
    BY <1>1, <1>2, <2>2, DivUnique
  <2> QED BY <2>3 DEF q, k, s
<1> QED BY <1>1, <1>3, <1>4

ByRate ==
  env.prob = NotSet /\ env.skip # NotSet /\ env.skip >= 0 /\ beginCallee = Kinds

\* The settings are those of the environment once they are read, nothing is counted
\* before, and the child has seen what the rate promises.
RateInv ==
  /\ phase \in {"initialised", "running", "finalized"} =>
       kernelSampleSkip = SamplingPeriod /\ tool_prob_num = SamplingProbability
  /\ phase \in {"loaded", "initialised"} =>
       /\ childID = 0
       /\ \A kind \in Kinds : invocationNum[kind] = 0 /\ topDraws[kind] = 0
  /\ phase \in {"running", "finalized"} /\ ByRate =>
       childID = Samples("for") + Samples("scan") + Samples("reduce")

\* With a rate, its successor is the period, and every draw but RAND_MAX selects.
LEMMA Rate ==
  ASSUME TypeOK, ByRate
  PROVE  /\ env.skip \in Nat /\ SamplingPeriod = env.skip + 1
         /\ SamplingProbability = 100
<1>1. env.skip \in Nat
  BY EnvironmentFacts DEF ByRate
<1>2. env.skip + 1 < Word /\ Word \in Nat \ {0}
  BY SamplerAssumption DEF TypeOK, ByRate
<1>3. (env.skip + 1) % Word = env.skip + 1
  BY <1>1, <1>2
<1> QED BY <1>1, <1>3 DEF ByRate, SamplingPeriod, SamplingProbability

\* The rate is unchanged while no kernel begins.
LEMMA RateSame ==
  ASSUME RateInv, phase' = phase \/ phase' \in {"aborted", "trapped", "exited"},
         UNCHANGED <<config, childID, invocationNum, topDraws>>
  PROVE  RateInv'
BY DEF RateInv, config, SamplingPeriod, SamplingProbability, ByRate, Samples

\* The counters of a kind, and what the child is told, after one more invocation.
LEMMA CountedOnce ==
  ASSUME TypeOK, RateInv, phase = "running", UNCHANGED config, phase' = phase,
         NEW kind \in Kinds, NEW top \in {0, 1},
         invocationNum' = [invocationNum EXCEPT ![kind] = @ + 1],
         topDraws' = [topDraws EXCEPT ![kind] = @ + top],
         ByRate => childID' = childID + (IF IsCandidate(kind) THEN 1 ELSE 0) - top
  PROVE  RateInv'
<1>1. /\ invocationNum \in [Kinds -> Nat] /\ topDraws \in [Kinds -> Nat] /\ childID \in Nat
      /\ kernelSampleSkip = SamplingPeriod
  BY DEF TypeOK, RateInv
<1>2. UNCHANGED <<env, beginCallee, kernelSampleSkip, tool_prob_num>>
  BY DEF config
<1>3. ASSUME ByRate
      PROVE  childID' = Samples("for")' + Samples("scan")' + Samples("reduce")'
  <2> DEFINE p == env.skip + 1
             d(k) == IF k = kind THEN (IF IsCandidate(kind) THEN 1 ELSE 0) - top ELSE 0
  <2>1. p \in Nat \ {0} /\ kernelSampleSkip = p
    BY <1>1, <1>3, Rate
  <2>2. ASSUME NEW k \in Kinds PROVE Samples(k)' = Samples(k) + d(k) /\ Samples(k) \in Int
    <3>1. invocationNum[k] \in Nat /\ topDraws[k] \in Nat /\ p' = p
      BY <1>1, <1>2
    <3>2. /\ invocationNum'[k] = IF k = kind THEN invocationNum[k] + 1 ELSE invocationNum[k]
          /\ topDraws'[k] = IF k = kind THEN topDraws[k] + top ELSE topDraws[k]
      BY <1>1
    <3>3. /\ Samples(k) = (invocationNum[k] \div p) - topDraws[k]
          /\ Samples(k)' = (invocationNum'[k] \div p) - topDraws'[k]
      BY <1>2 DEF Samples
    <3> HIDE DEF p
    <3>4. invocationNum[k] \div p \in Int
      BY <2>1, <3>1, DivMod
    <3>5. (invocationNum[k] + 1) \div p =
          (invocationNum[k] \div p) + (IF (invocationNum[k] + 1) % p = 0 THEN 1 ELSE 0)
      BY <2>1, <3>1, DivStep
    <3>6. IsCandidate(kind) <=> (invocationNum[kind] + 1) % p = 0
      BY <2>1 DEF IsCandidate
    <3>7. CASE k # kind
      BY <3>1, <3>2, <3>3, <3>4, <3>7
    <3>8. CASE k = kind
      BY <3>1, <3>2, <3>3, <3>4, <3>5, <3>6, <3>8
    <3> QED BY <3>7, <3>8
  <2>3. childID = Samples("for") + Samples("scan") + Samples("reduce")
    BY <1>3 DEF RateInv
  <2>4. childID' = childID + d(kind)
    BY <1>3
  <2>5. kind = "for" \/ kind = "scan" \/ kind = "reduce"
    BY DEF Kinds
  <2>6. /\ Samples("for")' = Samples("for") + d("for") /\ Samples("for") \in Int
        /\ Samples("scan")' = Samples("scan") + d("scan") /\ Samples("scan") \in Int
        /\ Samples("reduce")' = Samples("reduce") + d("reduce") /\ Samples("reduce") \in Int
    <3>1. "for" \in Kinds /\ "scan" \in Kinds /\ "reduce" \in Kinds
      BY DEF Kinds
    <3> QED BY <2>2, <3>1
  <2> QED BY <2>3, <2>4, <2>5, <2>6
<1>4. ByRate' <=> ByRate
  BY <1>2 DEF ByRate
<1>5. kernelSampleSkip' = SamplingPeriod' /\ tool_prob_num' = SamplingProbability'
  BY <1>2 DEF RateInv, SamplingPeriod, SamplingProbability
<1> QED BY <1>3, <1>4, <1>5 DEF RateInv

\* Every step keeps the rate.
LEMMA RateInvNext == TypeOK /\ TypeOK' /\ RateInv /\ [Next]_vars => RateInv'
<1> SUFFICES ASSUME TypeOK, TypeOK', RateInv, [Next]_vars PROVE RateInv'
  OBVIOUS
<1>1. CASE InitLibrary
  BY <1>1 DEF InitLibrary, RateInv, SamplingPeriod, SamplingProbability
<1>2. CASE InitLibraryExit
  BY <1>2, RateSame DEF InitLibraryExit, child
<1>3. CASE ProvideToolProgrammingInterface
  <2>1. /\ phase = "initialised" /\ phase' = "running"
        /\ UNCHANGED <<config, childID, invocationNum, topDraws>>
    BY <1>3 DEF ProvideToolProgrammingInterface, child
  <2>2. /\ childID = 0 /\ \A kind \in Kinds : invocationNum[kind] = 0 /\ topDraws[kind] = 0
        /\ kernelSampleSkip = SamplingPeriod /\ tool_prob_num = SamplingProbability
    BY <2>1 DEF RateInv
  <2>3. ASSUME ByRate, NEW kind \in Kinds PROVE Samples(kind) = 0
    <3>1. env.skip + 1 \in Nat \ {0}
      BY <2>3, Rate
    <3>2. 0 \div (env.skip + 1) = 0
      BY <3>1
    <3> QED BY <2>2, <3>2 DEF Samples
  <2>4. ByRate => childID = Samples("for") + Samples("scan") + Samples("reduce")
    BY <2>2, <2>3 DEF Kinds
  <2> QED BY <2>1, <2>2, <2>4 DEF RateInv, config, ByRate, Samples, SamplingPeriod,
          SamplingProbability
<1>4. ASSUME NEW kind \in Kinds, BeginSkipped(kind) PROVE RateInv'
  <2>1. /\ phase = "running" /\ phase' = phase /\ UNCHANGED config /\ ~ IsCandidate(kind)
        /\ invocationNum' = [invocationNum EXCEPT ![kind] = @ + 1]
        /\ childID' = childID /\ topDraws' = topDraws
    BY <1>4 DEF BeginSkipped, CountInvocation, child
  <2>2. topDraws' = [topDraws EXCEPT ![kind] = @ + 0] /\ childID' = childID + 0 - 0
    BY <2>1 DEF TypeOK
  <2> QED BY <2>1, <2>2, CountedOnce
<1>5. ASSUME NEW kind \in Kinds, NEW draw \in 0 .. RandMax, BeginDrawn(kind, draw)
      PROVE  RateInv'
  <2> DEFINE top == IF draw = RandMax THEN 1 ELSE 0
  <2>1. /\ phase = "running" /\ UNCHANGED config /\ IsCandidate(kind)
        /\ invocationNum' = [invocationNum EXCEPT ![kind] = @ + 1]
        /\ topDraws' = [topDraws EXCEPT ![kind] = @ + top]
    BY <1>5 DEF BeginDrawn, CountInvocation
  <2>2. CASE phase' = "aborted"
    BY <2>1, <2>2 DEF RateInv
  <2>3. CASE phase' # "aborted"
    <3>1. phase' = phase
      BY <1>5, <2>3 DEF BeginDrawn
    <3>2. childID' = childID + (IF DrawSelects(draw) /\ kind \in beginCallee THEN 1 ELSE 0)
      <4>1. CASE DrawSelects(draw) /\ kind \in beginCallee
        BY <1>5, <2>3, <4>1 DEF BeginDrawn, ChildBegin
      <4>2. CASE ~ (DrawSelects(draw) /\ kind \in beginCallee)
        BY <1>5, <4>2 DEF BeginDrawn, child, TypeOK
      <4> QED BY <4>1, <4>2
    <3>3. ASSUME ByRate PROVE childID' = childID + 1 - top
      <4>1. tool_prob_num = 100 /\ kind \in beginCallee
        BY <2>1, <3>3, Rate DEF RateInv, ByRate
      <4>2. DrawSelects(draw) <=> draw # RandMax
        BY <4>1, SamplerAssumption DEF DrawSelects
      <4> QED BY <3>2, <4>1, <4>2 DEF TypeOK
    <3>4. top \in {0, 1}
      OBVIOUS
    <3> HIDE DEF top
    <3> QED BY <2>1, <3>1, <3>3, <3>4, CountedOnce
  <2> QED BY <2>2, <2>3
<1>6. ASSUME NEW kind \in Kinds, BeginModuloZero(kind) PROVE RateInv'
  <2>1. /\ phase = "running" /\ UNCHANGED config /\ kernelSampleSkip = 0
        /\ UNCHANGED <<childID, topDraws>>
    BY <1>6 DEF BeginModuloZero, CountInvocation, child
  <2>2. ~ ByRate /\ phase' \in {"running", "trapped"}
    BY <1>6, <2>1, Rate DEF RateInv, BeginModuloZero
  <2> QED BY <2>1, <2>2 DEF RateInv, config, ByRate, SamplingPeriod, SamplingProbability
<1>7. ASSUME NEW kID \in DOMAIN live, EndForwarded(kID) \/ EndIgnored(kID) PROVE RateInv'
  <2>1. /\ phase' = phase \/ phase' = "aborted"
        /\ UNCHANGED <<config, childID, invocationNum, topDraws>>
    BY <1>7 DEF EndForwarded, EndIgnored, ChildEnd, child
  <2> QED BY <2>1, RateSame
<1>8. CASE FinalizeLibrary
  BY <1>8 DEF FinalizeLibrary, RateInv, config, ByRate, Samples, SamplingPeriod,
    SamplingProbability
<1>9. CASE UNCHANGED vars
  BY <1>9, RateSame DEF vars, config
<1> QED BY <1>1, <1>2, <1>3, <1>4, <1>5, <1>6, <1>7, <1>8, <1>9 DEF Next, Terminated

\* With a skip rate and no probability the child sees every (skip + 1)-th invocation of
\* a kind, but for those whose draw is RAND_MAX (kp_sampler_skip.cpp:270-278, 319-327,
\* 367-375).
THEOREM SamplesByRate == Spec => []PeriodicSampling
<1>1. Init => RateInv
  BY DEF Init, RateInv
<1>2. RateInv => PeriodicSampling
  BY DEF RateInv, PeriodicSampling, ByRate
<1> QED BY <1>1, <1>2, RateInvNext, TypeCorrect, PTL DEF Spec

-----------------------------------------------------------------------------
(* The sampler implements Wrapper.                                         *)

\* The kernels the child has open, as Wrapper sees them.
told == {KernelOf(c) : c \in childOpen}

\* Every kernel the child has open has a number of its own and an entry.
EntriesOfOpen ==
  /\ phase = "loaded" => uniqID = 0
  /\ phase \in {"initialised", "running"} => uniqID >= 1
  /\ \A c \in childOpen : \E k \in DOMAIN infokIDSample : infokIDSample[k] = c[2]
  /\ \A c, d \in childOpen : c[2] = d[2] => c = d

RInv == IInv /\ EntriesOfOpen

\* What the wrapped tool's side of Wrapper sees of a step: nothing.
WrapperStutters ==
  UNCHANGED <<phase # "aborted", 1 .. uniqID - 1, DOMAIN live, told>>

\* The entry that maps to a number of the child is the kernel it stands for.
LEMMA KernelIs ==
  ASSUME NumbersDistinct, NEW k \in DOMAIN infokIDSample
  PROVE  \A c : c[2] = infokIDSample[k] => KernelOf(c) = k
BY DEF NumbersDistinct, KernelOf

\* A step that leaves the entries and the child's kernels alone leaves told alone.
LEMMA ToldKept ==
  ASSUME UNCHANGED <<infokIDSample, childOpen>>
  PROVE  told' = told
BY DEF told, KernelOf

\* What is told has an entry.
LEMMA ToldSampled ==
  ASSUME RInv
  PROVE  told \subseteq DOMAIN infokIDSample
<1> SUFFICES ASSUME NEW c \in childOpen
             PROVE  KernelOf(c) \in DOMAIN infokIDSample
  BY DEF told
<1>1. \E k \in DOMAIN infokIDSample : infokIDSample[k] = c[2]
  BY DEF RInv, EntriesOfOpen
<1> QED BY <1>1 DEF KernelOf

-----------------------------------------------------------------------------

\* What every begin does to the kernels of the host.
LEMMA KernelBegins ==
  ASSUME RInv, NEW kind \in Kinds, CountInvocation(kind)
  PROVE  /\ uniqID \in Nat /\ uniqID >= 1 /\ uniqID' = uniqID + 1
         /\ uniqID \notin DOMAIN live /\ uniqID \notin DOMAIN infokIDSample
         /\ phase = "running"
         /\ (1 .. uniqID - 1)' = (1 .. uniqID - 1) \cup {uniqID}
         /\ uniqID \in (1 .. uniqID - 1)' \ (1 .. uniqID - 1)
         /\ DOMAIN live' = DOMAIN live \cup {uniqID}
<1>1. /\ uniqID \in Nat /\ uniqID >= 1 /\ uniqID' = uniqID + 1
      /\ uniqID \notin DOMAIN live /\ uniqID \notin DOMAIN infokIDSample
      /\ phase = "running"
      /\ DOMAIN live' = DOMAIN live \cup {uniqID}
  BY DEF RInv, IInv, TypeOK, NumbersBelow, EntriesOfOpen, CountInvocation
<1>2. uniqID' - 1 = uniqID
  BY <1>1
<1>3. /\ 1 .. uniqID = (1 .. uniqID - 1) \cup {uniqID}
      /\ uniqID \in 1 .. uniqID /\ uniqID \notin 1 .. uniqID - 1
  BY <1>1
<1> QED BY <1>1, <1>2, <1>3

\* A kernel begins that the child does not hear of; or the process aborts.
LEMMA BeginUntold ==
  ASSUME RInv, NEW kind \in Kinds, CountInvocation(kind),
         UNCHANGED <<infokIDSample, childOpen>>,
         phase' \in {"running", "trapped", "aborted"}
  PROVE  EntriesOfOpen' /\ Wrapping!Next
<1>1. told' = told
  BY ToldKept
<1>2. EntriesOfOpen'
  BY KernelBegins DEF RInv, EntriesOfOpen
<1>3. CASE phase' = "aborted"
  <2>1. Wrapping!Crash
    BY <1>1, <1>3, KernelBegins DEF Wrapping!Crash, told
  <2> QED BY <1>2, <2>1 DEF Wrapping!Next
<1>4. CASE phase' # "aborted"
  <2>1. Wrapping!BeginKernel(uniqID)
    BY <1>1, <1>4, KernelBegins DEF Wrapping!BeginKernel, told
  <2> QED BY <1>2, <2>1, KernelBegins DEF Wrapping!Next
<1> QED BY <1>3, <1>4

\* A kernel begins and the child hears of it.
LEMMA BeginTold ==
  ASSUME RInv, IInv', NEW kind \in Kinds, CountInvocation(kind), ChildBegin(kind),
         infokIDSample' = Insert(infokIDSample, uniqID, childID), phase' = phase
  PROVE  EntriesOfOpen' /\ Wrapping!Next
<1>1. /\ DOMAIN infokIDSample' = DOMAIN infokIDSample \cup {uniqID}
      /\ \A k \in DOMAIN infokIDSample : infokIDSample'[k] = infokIDSample[k]
      /\ infokIDSample'[uniqID] = childID
      /\ childOpen' = childOpen \cup {<<kind, childID>>}
      /\ childID \in Nat
  <2>1. uniqID \notin DOMAIN infokIDSample
    BY KernelBegins
  <2> QED BY <2>1 DEF ChildBegin, RInv, IInv, TypeOK
<1>2. \A c \in childOpen : c[2] # childID
  BY <1>1 DEF RInv, IInv, TypeOK, NumbersBelow
<1>3. EntriesOfOpen'
  BY <1>1, <1>2, KernelBegins DEF RInv, EntriesOfOpen
<1>4. \A k \in DOMAIN infokIDSample' :
        \A c : c[2] = infokIDSample'[k] => KernelOf(c)' = k
  BY DEF IInv, NumbersDistinct, KernelOf
<1>5. \A c \in childOpen : KernelOf(c)' = KernelOf(c)
  <2> SUFFICES ASSUME NEW c \in childOpen
               PROVE  KernelOf(c)' = KernelOf(c)
    OBVIOUS
  <2>1. PICK k \in DOMAIN infokIDSample : infokIDSample[k] = c[2]
    BY DEF RInv, EntriesOfOpen
  <2>2. KernelOf(c) = k
    BY <2>1, KernelIs DEF RInv, IInv
  <2>3. KernelOf(c)' = k
    BY <1>1, <1>4, <2>1
  <2> QED BY <2>2, <2>3
<1>6. PICK new : new = <<kind, childID>>
  OBVIOUS
<1>7. told' = told \cup {uniqID}
  <2>1. KernelOf(new)' = uniqID
    BY <1>1, <1>4, <1>6
  <2>2. told' = {KernelOf(c)' : c \in childOpen \cup {new}}
    BY <1>1, <1>6 DEF told
  <2>3. {KernelOf(c)' : c \in childOpen \cup {new}} =
          {KernelOf(c)' : c \in childOpen} \cup {KernelOf(new)'}
    OBVIOUS
  <2>4. {KernelOf(c)' : c \in childOpen} = {KernelOf(c) : c \in childOpen}
    BY <1>5
  <2> QED BY <2>1, <2>2, <2>3, <2>4 DEF told
<1>8. Wrapping!BeginKernel(uniqID)
  BY <1>7, KernelBegins DEF Wrapping!BeginKernel, told
<1> QED BY <1>3, <1>8, KernelBegins DEF Wrapping!Next

\* The end of a kernel reaches the child in the callback in which it ends.
LEMMA EndTold ==
  ASSUME RInv, IInv', NEW kID \in DOMAIN live, EndForwarded(kID)
  PROVE  EntriesOfOpen' /\ Wrapping!Next
<1>1. /\ DOMAIN live' = DOMAIN live \ {kID}
      /\ kID \in DOMAIN infokIDSample
      /\ live[kID] \in endCallee
      /\ phase = "running" /\ uniqID' = uniqID
  BY DEF EndForwarded, Sampled
<1>2. CASE FenceCrashes
  <2>1. phase' = "aborted" /\ UNCHANGED <<infokIDSample, childOpen>>
    BY <1>2 DEF EndForwarded, child
  <2>2. told' = told
    BY <2>1, ToldKept
  <2>3. EntriesOfOpen'
    BY <2>1 DEF EntriesOfOpen, RInv
  <2>4. Wrapping!Crash
    BY <1>1, <2>1, <2>2 DEF Wrapping!Crash, told
  <2> QED BY <2>3, <2>4 DEF Wrapping!Next
<1>3. CASE ~ FenceCrashes
  <2>1. /\ phase' = phase
        /\ DOMAIN infokIDSample' = DOMAIN infokIDSample \ {kID}
        /\ \A k \in DOMAIN infokIDSample' : infokIDSample'[k] = infokIDSample[k]
        /\ childOpen' = childOpen \ {<<live[kID], infokIDSample[kID]>>}
    BY <1>3 DEF EndForwarded, Sampled, retrievedNestedkID, ChildEnd
  <2>2. PICK gone : gone = <<live[kID], infokIDSample[kID]>>
    OBVIOUS
  <2>3. gone \in childOpen /\ childOpen' = childOpen \ {gone} /\ KernelOf(gone) = kID
    <3>1. gone \in LiveSamples
      BY <1>1, <2>2 DEF LiveSamples
    <3>2. KernelOf(gone) = kID
      BY <1>1, <2>2, KernelIs DEF RInv, IInv
    <3> QED BY <2>1, <2>2, <3>1, <3>2 DEF RInv, IInv, SamplesOpen
  <2>4. ASSUME NEW c \in childOpen'
        PROVE  \E k \in DOMAIN infokIDSample' :
                 infokIDSample'[k] = c[2] /\ KernelOf(c) = k /\ KernelOf(c)' = k
    <3>1. PICK k \in DOMAIN infokIDSample : infokIDSample[k] = c[2]
      BY <2>3 DEF RInv, EntriesOfOpen
    <3>2. k # kID
      <4>1. c # gone /\ c \in childOpen
        BY <2>3
      <4>2. gone[2] = infokIDSample[kID]
        BY <2>2
      <4> QED BY <2>3, <3>1, <4>1, <4>2 DEF RInv, EntriesOfOpen
    <3>3. k \in DOMAIN infokIDSample' /\ infokIDSample'[k] = c[2]
      BY <2>1, <3>1, <3>2
    <3>4. KernelOf(c) = k
      BY <3>1, KernelIs DEF RInv, IInv
    <3>5. KernelOf(c)' = k
      BY <3>3 DEF IInv, NumbersDistinct, KernelOf
    <3> QED BY <3>3, <3>4, <3>5
  <2>5. EntriesOfOpen'
    BY <1>1, <2>1, <2>3, <2>4 DEF RInv, EntriesOfOpen
  <2>6. told' = told \ {kID}
    <3>1. told' = {KernelOf(c) : c \in childOpen'}
      BY <2>4 DEF told
    <3>2. \A c \in childOpen' : KernelOf(c) # kID
      BY <2>1, <2>4
    <3> QED BY <2>3, <3>1, <3>2 DEF told
  <2>7. Wrapping!EndKernel(kID)
    BY <1>1, <2>1, <2>6 DEF Wrapping!EndKernel, told
  <2> QED BY <2>5, <2>7 DEF Wrapping!Next
<1> QED BY <1>2, <1>3

\* The child does not hear of an end that it has no function for, or whose begin it
\* has not heard of.
LEMMA EndUntold ==
  ASSUME RInv, NEW kID \in DOMAIN live, EndIgnored(kID)
  PROVE  EntriesOfOpen' /\ Wrapping!Next
<1>1. /\ DOMAIN live' = DOMAIN live \ {kID}
      /\ live[kID] \notin endCallee \/ kID \notin DOMAIN infokIDSample
      /\ UNCHANGED <<phase, uniqID, infokIDSample, childOpen>>
  BY DEF EndIgnored, Sampled, child
<1>2. told' = told
  BY <1>1, ToldKept
<1>3. kID \in told => live[kID] \notin endCallee
  BY <1>1, ToldSampled
<1>4. EntriesOfOpen'
  BY <1>1 DEF RInv, EntriesOfOpen
<1>5. Wrapping!EndKernel(kID)
  BY <1>1, <1>2, <1>3 DEF Wrapping!EndKernel, told
<1> QED BY <1>4, <1>5 DEF Wrapping!Next

\* Before the first kernel, and after the last, the child hears of none.
LEMMA Unseen ==
  ASSUME RInv, InitLibrary \/ InitLibraryExit \/ ProvideToolProgrammingInterface
                 \/ FinalizeLibrary \/ UNCHANGED vars
  PROVE  EntriesOfOpen' /\ WrapperStutters
<1>1. /\ UNCHANGED <<infokIDSample, childOpen, live, phase # "aborted">>
      /\ \/ uniqID' = uniqID
         \/ uniqID = 0 /\ uniqID' = 1
      /\ EntriesOfOpen'
  <2>1. CASE InitLibrary
    BY <2>1 DEF InitLibrary, RInv, EntriesOfOpen
  <2>2. CASE InitLibraryExit
    BY <2>2 DEF InitLibraryExit, RInv, EntriesOfOpen, child
  <2>3. CASE ProvideToolProgrammingInterface
    BY <2>3 DEF ProvideToolProgrammingInterface, RInv, EntriesOfOpen, child
  <2>4. CASE FinalizeLibrary
    BY <2>4 DEF FinalizeLibrary, RInv, EntriesOfOpen
  <2>5. CASE UNCHANGED vars
    BY <2>5 DEF vars, RInv, EntriesOfOpen
  <2> QED BY <2>1, <2>2, <2>3, <2>4, <2>5
<1>2. UNCHANGED (1 .. uniqID - 1)
  <2>1. CASE uniqID = 0 /\ uniqID' = 1
    <3>1. 1 .. uniqID - 1 = {} /\ 1 .. uniqID' - 1 = {}
      BY <2>1
    <3> QED BY <3>1
  <2> QED BY <1>1, <2>1
<1> QED BY <1>1, <1>2, ToldKept DEF WrapperStutters

-----------------------------------------------------------------------------

\* The child hears of a kernel at its begin or never, and of its end in the callback
\* in which it ends (kp_sampler_skip.cpp:269-411).
THEOREM Wraps == Spec => WrapsChild
<1> DEFINE abstract == <<phase # "aborted", 1 .. uniqID - 1, DOMAIN live, told>>
<1>1. Init => RInv /\ Wrapping!Init
  <2> SUFFICES ASSUME Init PROVE RInv /\ Wrapping!Init
    OBVIOUS
  <2>1. uniqID = 0 /\ DOMAIN live = {} /\ childOpen = {} /\ phase = "loaded"
    BY DEF Init
  <2>2. 1 .. uniqID - 1 = {}
    BY <2>1
  <2>3. Wrapping!Init
    BY <2>1, <2>2 DEF Wrapping!Init
  <2> QED BY <2>1, <2>3, IInvInit DEF RInv, EntriesOfOpen
<1>2. RInv /\ TypeOK' /\ [Next]_vars => RInv' /\ [Wrapping!Next]_abstract
  <2> SUFFICES ASSUME RInv, TypeOK', [Next]_vars
               PROVE  RInv' /\ [Wrapping!Next]_abstract
    OBVIOUS
  <2>1. IInv'
    BY IInvNext DEF RInv
  <2>2. ASSUME NEW kind \in Kinds, BeginSkipped(kind)
        PROVE  EntriesOfOpen' /\ Wrapping!Next
    BY <2>2, BeginUntold DEF BeginSkipped, CountInvocation, child
  <2>3. ASSUME NEW kind \in Kinds, NEW draw \in 0 .. RandMax, BeginDrawn(kind, draw)
        PROVE  EntriesOfOpen' /\ Wrapping!Next
    <3>1. CountInvocation(kind) /\ phase = "running"
      BY <2>3 DEF BeginDrawn, CountInvocation
    <3>2. CASE DrawSelects(draw) /\ kind \in beginCallee /\ ~ FenceCrashes
      <4>1. /\ ChildBegin(kind) /\ phase' = phase
            /\ infokIDSample' = Insert(infokIDSample, uniqID, childID)
        BY <2>3, <3>2 DEF BeginDrawn
      <4> QED BY <2>1, <3>1, <4>1, BeginTold
    <3>3. CASE ~ (DrawSelects(draw) /\ kind \in beginCallee /\ ~ FenceCrashes)
      <4>1. /\ UNCHANGED <<infokIDSample, childOpen>>
            /\ phase' \in {"running", "trapped", "aborted"}
        BY <2>3, <3>1, <3>3 DEF BeginDrawn, child
      <4> QED BY <3>1, <4>1, BeginUntold
    <3> QED BY <3>2, <3>3
  <2>4. ASSUME NEW kind \in Kinds, BeginModuloZero(kind)
        PROVE  EntriesOfOpen' /\ Wrapping!Next
    BY <2>4, BeginUntold DEF BeginModuloZero, child
  <2>5. ASSUME NEW kID \in DOMAIN live, EndForwarded(kID)
        PROVE  EntriesOfOpen' /\ Wrapping!Next
    BY <2>1, <2>5, EndTold
  <2>6. ASSUME NEW kID \in DOMAIN live, EndIgnored(kID)
        PROVE  EntriesOfOpen' /\ Wrapping!Next
    BY <2>6, EndUntold
  <2>7. ASSUME InitLibrary \/ InitLibraryExit \/ ProvideToolProgrammingInterface
                 \/ FinalizeLibrary \/ UNCHANGED vars
        PROVE  EntriesOfOpen' /\ UNCHANGED abstract
    BY <2>7, Unseen DEF WrapperStutters
  <2> HIDE DEF abstract
  <2> QED BY <2>1, <2>2, <2>3, <2>4, <2>5, <2>6, <2>7 DEF RInv, Next, Terminated
<1> QED BY <1>1, <1>2, TypeCorrect, PTL DEF Spec, WrapsChild, Wrapping!Spec, told

=============================================================================
