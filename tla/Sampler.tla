------------------------------ MODULE Sampler ------------------------------
(***************************************************************************)
(* The sampler utility, src/common/kokkos-sampler/kp_sampler_skip.cpp.     *)
(*                                                                         *)
(* The Kokkos runtime calls the sampler at the begin and at the end of     *)
(* every kernel.  The sampler numbers the kernels itself, forwards the     *)
(* selected ones to one child tool, and remembers in infokIDSample which   *)
(* of the child's numbers belongs to which of its own.                     *)
(*                                                                         *)
(* Kernels may overlap in any order (nested dispatch, several execution    *)
(* space instances); the callbacks themselves are serialised, which is     *)
(* what the unsynchronised statics of the tool rely on.                    *)
(***************************************************************************)
EXTENDS Libraries, FiniteSets, Maps

CONSTANTS
  Environments, (* The settings a process may start with; see EnvironmentType *)
  RandMax,      (* RAND_MAX                                                   *)
  Word,         (* 2^64: the modulus of kernelSampleSkip                      *)
  MaxBegins     (* Bound of the model: kernels a process begins               *)

EnvironmentType ==
  [loader    : LoaderType,
   prob      : Int \cup {NotSet},
   skip      : Int \cup {NotSet},
   globFence : BOOLEAN,
   tpiFence  : BOOLEAN]

ASSUME SamplerAssumption ==
  /\ RandMax \in Nat \ {0}
  /\ MaxBegins \in Nat
  /\ Word \in Nat \ {0}
  /\ MaxBegins < Word
  /\ Environments \subseteq EnvironmentType
  /\ \A e \in Environments : e.skip # NotSet => e.skip + 1 < Word (* it is an int *)

VARIABLES
  env,              (* environment variables and runtime, fixed at start    *)
  phase,            (* life of the process                                  *)
  uniqID,           (* next kernel number of the sampler                    *)
  tool_prob_num,    (* percentage of the invocations to sample              *)
  kernelSampleSkip, (* every kernelSampleSkip-th invocation is a candidate  *)
  fenceSet,         (* tpi_funcs.fence # nullptr                            *)
  beginCallee,      (* kinds whose begin symbol the child exports           *)
  endCallee,        (* kinds whose end symbol the child exports             *)
  invocationNum,    (* the static counter of each begin function            *)
  infokIDSample,    (* kID -> nestedkID, a partial function                 *)
  live,             (* kID -> kind of the kernels the host has not ended    *)
  childPhase,       (* child: which of its own library calls it has had     *)
  childID,          (* child: the next number it hands out                  *)
  childOpen,        (* child: <<kind, number>> of the kernels it has open   *)
  childStray,       (* child: end calls that matched no open kernel         *)
  topDraws,         (* candidates whose draw was exactly RAND_MAX, per kind *)
  fences            (* fences the sampler asked the runtime for             *)

config == <<env, tool_prob_num, kernelSampleSkip, beginCallee, endCallee>>
child  == <<childPhase, childID, childOpen, childStray>>
vars   == <<env, phase, uniqID, tool_prob_num, kernelSampleSkip, fenceSet,
            beginCallee, endCallee, invocationNum, infokIDSample, live,
            childPhase, childID, childOpen, childStray, topDraws, fences>>

Init ==
  /\ env \in Environments
  /\ phase = "loaded"
  /\ uniqID = 0
  /\ tool_prob_num = -1
  /\ kernelSampleSkip = Word - 1
  /\ fenceSet = FALSE
  /\ beginCallee = {}
  /\ endCallee = {}
  /\ invocationNum = [k \in Kinds |-> 0]
  /\ infokIDSample = EmptyMap
  /\ live = EmptyMap
  /\ childPhase = "loaded"
  /\ childID = 0
  /\ childOpen = {}
  /\ childStray = 0
  /\ topDraws = [k \in Kinds |-> 0]
  /\ fences = 0

-----------------------------------------------------------------------------
(* kokkosp_init_library                                                    *)

\* Mutant: a percentage outside 0 .. 100 is taken as it is.
UnclampedProbability ==
  IF env.prob # NotSet THEN env.prob ELSE IF env.skip # NotSet THEN 100 ELSE 10

\* The percentage that is read: clamped, overriding the skip rate, or the
\* defaults of 100 with a skip rate and of 10 without.
SamplingProbability ==
  IF env.prob # NotSet
  THEN IF env.prob > 100 THEN 100 ELSE IF env.prob < 0 THEN 0 ELSE env.prob
  ELSE IF env.skip # NotSet THEN 100 ELSE 10

\* Mutant: the skip rate is used as the period.
PeriodWithoutSuccessor ==
  IF env.prob = NotSet /\ env.skip # NotSet THEN env.skip % Word ELSE 1

\* The skip rate is an int, its successor is stored in a uint64_t.
SamplingPeriod ==
  IF env.prob = NotSet /\ env.skip # NotSet THEN (env.skip + 1) % Word ELSE 1

InitLibrary ==
  /\ phase = "loaded"
  /\ ChildLoads(env.loader)
  /\ phase' = "initialised"
  /\ beginCallee' = nextLibrary(env.loader).begin
  /\ endCallee' = nextLibrary(env.loader).end
  /\ uniqID' = 1
  /\ tool_prob_num' = SamplingProbability
  /\ kernelSampleSkip' = SamplingPeriod
  /\ childPhase' = IF nextLibrary(env.loader).init THEN "initialised" ELSE childPhase
  /\ UNCHANGED <<env, fenceSet, invocationNum, infokIDSample, live,
                 childID, childOpen, childStray, topDraws, fences>>

\* No library to call, no child library, or dlopen failed: exit(-1).
InitLibraryExit ==
  /\ phase = "loaded"
  /\ ~ ChildLoads(env.loader)
  /\ phase' = "exited"
  /\ UNCHANGED <<config, uniqID, fenceSet, invocationNum, infokIDSample, live,
                 child, topDraws, fences>>

\* The runtime hands over its functions; the fence among them may be null.
ProvideToolProgrammingInterface ==
  /\ phase = "initialised"
  /\ phase' = "running"
  /\ fenceSet' = env.tpiFence
  /\ UNCHANGED <<config, uniqID, invocationNum, infokIDSample, live,
                 child, topDraws, fences>>

-----------------------------------------------------------------------------
(* The child: any tool that numbers the kernels it is told about, as the   *)
(* kernel logger does.                                                     *)

ChildBegin(kind) ==
  /\ childID' = childID + 1
  /\ childOpen' = childOpen \cup {<<kind, childID>>}
  /\ UNCHANGED <<childPhase, childStray>>

ChildEnd(kind, nestedkID) ==
  /\ childOpen' = childOpen \ {<<kind, nestedkID>>}
  /\ childStray' = childStray + (IF <<kind, nestedkID>> \in childOpen THEN 0 ELSE 1)
  /\ UNCHANGED <<childPhase, childID>>

-----------------------------------------------------------------------------
(* The kernel callbacks: kokkosp_{begin,end}_parallel_{for,scan,reduce}     *)

\* Before a forwarded call: nothing, a fence, or an abort without one.
FenceCrashes == env.globFence /\ ~ fenceSet

\* Mutant: the fence is not conditional on tool_globFence.
FenceAlways == fences' = fences + 1

invoke_ktools_fence == fences' = fences + (IF env.globFence THEN 1 ELSE 0)

\* (rand() / (1.0 * RAND_MAX)) < (tool_prob_num / 100.0)
DrawSelects(draw) == draw * 100 < tool_prob_num * RandMax

\* invocationNum % kernelSampleSkip == 0, after the increment.
IsCandidate(kind) == (invocationNum[kind] + 1) % kernelSampleSkip = 0

\* What every begin does first: number the kernel and count the invocation.
CountInvocation(kind) ==
  /\ phase = "running"
  /\ uniqID <= MaxBegins
  /\ uniqID' = uniqID + 1
  /\ live' = Insert(live, uniqID, kind)
  /\ invocationNum' = [invocationNum EXCEPT ![kind] = @ + 1]
  /\ UNCHANGED <<config, fenceSet>>

BeginSkipped(kind) ==
  /\ CountInvocation(kind)
  /\ kernelSampleSkip # 0
  /\ ~ IsCandidate(kind)
  /\ UNCHANGED <<phase, infokIDSample, child, topDraws, fences>>

BeginDrawn(kind, draw) ==
  /\ CountInvocation(kind)
  /\ kernelSampleSkip # 0
  /\ IsCandidate(kind)
  /\ topDraws' = [topDraws EXCEPT ![kind] = @ + (IF draw = RandMax THEN 1 ELSE 0)]
  /\ IF DrawSelects(draw) /\ kind \in beginCallee
     THEN IF FenceCrashes
          THEN /\ phase' = "aborted"
               /\ UNCHANGED <<infokIDSample, child, fences>>
          ELSE /\ invoke_ktools_fence
               /\ ChildBegin(kind)
               /\ infokIDSample' = Insert(infokIDSample, uniqID, childID)
               /\ UNCHANGED phase
     ELSE UNCHANGED <<phase, infokIDSample, child, fences>>

\* A skip rate of -1 makes the period 0.  The modulo is undefined: the
\* processor traps, or it yields the invocation number, which is not 0.
BeginModuloZero(kind) ==
  /\ CountInvocation(kind)
  /\ kernelSampleSkip = 0
  /\ phase' \in {"running", "trapped"}
  /\ UNCHANGED <<infokIDSample, child, topDraws, fences>>

\* Mutant: the child's first number, 0, is taken for no number.
SampledAboveZero(kID) == kID \in DOMAIN infokIDSample /\ infokIDSample[kID] > 0

Sampled(kID) == kID \in DOMAIN infokIDSample

\* Mutant: the child is called with the number of the sampler.
OwnNumber(kID) == kID

retrievedNestedkID(kID) == infokIDSample[kID]

\* The end of a kernel the child was told about, by a child with an end
\* symbol for its kind.
EndForwarded(kID) ==
  /\ phase = "running"
  /\ kID \in DOMAIN live
  /\ live[kID] \in endCallee
  /\ Sampled(kID)
  /\ live' = Erase(live, kID)
  /\ IF FenceCrashes
     THEN /\ phase' = "aborted"
          /\ UNCHANGED <<infokIDSample, child, fences>>
     ELSE /\ invoke_ktools_fence
          /\ ChildEnd(live[kID], retrievedNestedkID(kID))
          /\ infokIDSample' = Erase(infokIDSample, kID)
          /\ UNCHANGED phase
  /\ UNCHANGED <<config, uniqID, fenceSet, invocationNum, topDraws>>

EndIgnored(kID) ==
  /\ phase = "running"
  /\ kID \in DOMAIN live
  /\ live[kID] \notin endCallee \/ ~ Sampled(kID)
  /\ live' = Erase(live, kID)
  /\ UNCHANGED <<config, phase, uniqID, fenceSet, invocationNum, infokIDSample,
                 child, topDraws, fences>>

\* The runtime finalises its tools when no kernel is in flight.
FinalizeLibrary ==
  /\ phase = "running"
  /\ live = EmptyMap
  /\ phase' = "finalized"
  /\ childPhase' = IF nextLibrary(env.loader).finalize THEN "finalized" ELSE childPhase
  /\ UNCHANGED <<config, uniqID, fenceSet, invocationNum, infokIDSample, live,
                 childID, childOpen, childStray, topDraws, fences>>

Stopped == phase \in {"exited", "aborted", "trapped", "finalized"}

Terminated == Stopped /\ UNCHANGED vars

Next ==
  \/ InitLibrary
  \/ InitLibraryExit
  \/ ProvideToolProgrammingInterface
  \/ \E kind \in Kinds : BeginSkipped(kind)
  \/ \E kind \in Kinds, draw \in 0 .. RandMax : BeginDrawn(kind, draw)
  \/ \E kind \in Kinds : BeginModuloZero(kind)
  \/ \E kID \in DOMAIN live : EndForwarded(kID)
  \/ \E kID \in DOMAIN live : EndIgnored(kID)
  \/ FinalizeLibrary
  \/ Terminated

Spec == Init /\ [][Next]_vars

-----------------------------------------------------------------------------
(* Properties                                                              *)

Phases == {"loaded", "initialised", "running", "finalized", "exited",
           "aborted", "trapped"}

\* The type of every variable of the sampler and of its child
\* (kp_sampler_skip.cpp:18-40).
TypeOK ==
  /\ env \in Environments
  /\ phase \in Phases
  /\ uniqID \in Nat
  /\ tool_prob_num \in -1 .. 100
  /\ kernelSampleSkip \in Nat
  /\ fenceSet \in BOOLEAN
  /\ beginCallee \subseteq Kinds
  /\ endCallee \subseteq Kinds
  /\ invocationNum \in [Kinds -> Nat]
  /\ infokIDSample \in [DOMAIN infokIDSample -> Nat]
  /\ DOMAIN infokIDSample \subseteq Nat
  /\ live \in [DOMAIN live -> Kinds]
  /\ DOMAIN live \subseteq Nat
  /\ childPhase \in Phases
  /\ childID \in Nat
  /\ childOpen \subseteq (Kinds \X Nat)
  /\ childStray \in Nat
  /\ topDraws \in [Kinds -> Nat]
  /\ fences \in Nat

\* The kernels in flight that the child was told about, as the child knows
\* them.
LiveSamples ==
  {<<live[k], infokIDSample[k]>> : k \in DOMAIN live \cap DOMAIN infokIDSample}

\* However kernels overlap, every end the sampler forwards (lines 295-315,
\* 344-363, 392-411) reaches the child with the kind and the number of a
\* kernel the child has begun and not ended.
ChildEndsMatch == childStray = 0

\* The child has a kernel open exactly while the host has the sampled kernel
\* in flight: nothing is ended early, twice, or left open.  A kind the child
\* exports no end symbol for is never closed, and is exempt.
ChildOpenWhileLive ==
  phase # "aborted" =>
    {c \in childOpen : c[1] \in endCallee} =
    {c \in LiveSamples : c[1] \in endCallee}

\* No entry of infokIDSample outlives its kernel, unless the child has a begin
\* symbol without the end symbol (line 296): then entries are never erased.
NoStaleEntry ==
  phase # "aborted" /\ beginCallee \subseteq endCallee =>
    DOMAIN infokIDSample \subseteq DOMAIN live

\* What a skip rate promises for a kind.
Samples(kind) == invocationNum[kind] \div (env.skip + 1) - topDraws[kind]

\* With a skip rate and no probability, of n invocations of a kind the child
\* sees n \div (skip + 1): the draw of lines 274, 323 and 371 costs a sample
\* only when it is RAND_MAX itself.
PeriodicSampling ==
  phase \in {"running", "finalized"} /\ env.prob = NotSet /\ env.skip # NotSet
    /\ env.skip >= 0 /\ beginCallee = Kinds
  => childID = Samples("for") + Samples("scan") + Samples("reduce")

\* With KOKKOS_TOOLS_GLOBALFENCES the runtime is fenced once for each call the
\* child receives, and never otherwise (lines 280-284 and 304-307).
FencedCalls ==
  phase # "aborted" =>
    fences = IF env.globFence THEN 2 * childID - Cardinality(childOpen) ELSE 0

\* The kernel that a number of the child stands for; a number no entry maps to
\* stands for nothing the host has begun.
KernelOf(c) ==
  IF \E k \in DOMAIN infokIDSample : infokIDSample[k] = c[2]
  THEN CHOOSE k \in DOMAIN infokIDSample : infokIDSample[k] = c[2]
  ELSE -1

Wrapping == INSTANCE Wrapper WITH
  up       <- phase # "aborted",
  begun    <- 1 .. uniqID - 1,
  inFlight <- DOMAIN live,
  told     <- {KernelOf(c) : c \in childOpen},
  deaf     <- {k \in DOMAIN live : live[k] \notin endCallee}

\* The sampler implements Wrapper: the child hears of a kernel at its begin or
\* never, and of its end in the very callback in which it ends, although the two
\* calls find each other only through infokIDSample (lines 270-315).
WrapsChild == Wrapping!Spec

=============================================================================
