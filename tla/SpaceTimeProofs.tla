-------------------------- MODULE SpaceTimeProofs ---------------------------
(***************************************************************************)
(* What is proved of the space-time stack, for every set of frames, spaces *)
(* and addresses and every number of callbacks: the account of the memory, *)
(* the times of a report, the frames its snapshots name, what the tree and *)
(* its inverse add up to, and the types of the variables.                  *)
(***************************************************************************)
EXTENDS SpaceTimeTool, DataFacts

-----------------------------------------------------------------------------
(* The account of the memory                                               *)

\* What the host holds in a space, each allocation with the frame F gives it.
Framed(h, s, F) ==
  {Allocation(a, h[a].size, F[a]) : a \in
     {b \in DOMAIN h : h[b].seen /\ SpaceOf[h[b].handle] = s}}

\* The account of every space holds these allocations and no other.
Accounts(h, F) ==
  \A s \in Spaces :
    current[s] = [total_size |-> bytes[s], alloc_set |-> Framed(h, s, F)]

\* A map over the spaces.
Spaced(map) == map = [s \in Spaces |-> map[s]]

OverSpaces == Spaced(current) /\ Spaced(bytes) /\ Spaced(hwm) /\ Spaced(peak)

\* The account holds what the host holds, whatever frames it gives it.
AccountInv == OverSpaces /\ \E F : Accounts(held, F)

\* An allocation is in the set of its space when the host holds it there.
LEMMA FoundInFramed ==
  ASSUME NEW h, NEW s, NEW F, NEW a, NEW size, NEW n,
         NEW allocations, allocations = [total_size |-> n, alloc_set |-> Framed(h, s, F)]
  PROVE  /\ a \notin DOMAIN h => ~ InSet(allocations, a, size)
         /\ a \in DOMAIN h /\ size = h[a].size =>
              (InSet(allocations, a, size) <=> h[a].seen /\ SpaceOf[h[a].handle] = s)
<1>1. allocations.alloc_set = Framed(h, s, F)
  OBVIOUS
<1>2. \A e \in Framed(h, s, F) :
        e.ptr \in DOMAIN h /\ h[e.ptr].seen /\ SpaceOf[h[e.ptr].handle] = s
  BY DEF Framed, Allocation
<1>3. ASSUME a \in DOMAIN h, size = h[a].size, h[a].seen, SpaceOf[h[a].handle] = s
      PROVE  InSet(allocations, a, size)
  <2> DEFINE e == Allocation(a, h[a].size, F[a])
  <2>1. e \in Framed(h, s, F)
    BY <1>3 DEF Framed
  <2>2. e.ptr = a /\ e.size = size
    BY <1>3 DEF Allocation
  <2> HIDE DEF e
  <2> QED BY <1>1, <2>1, <2>2 DEF InSet, Found
<1>4. ASSUME InSet(allocations, a, size)
      PROVE  a \in DOMAIN h /\ h[a].seen /\ SpaceOf[h[a].handle] = s
  BY <1>1, <1>2, <1>4 DEF InSet, Found
<1> QED BY <1>3, <1>4, Zenon

\* allocate and deallocate keep the account.
LEMMA AllocateKeeps ==
  ASSUME OverSpaces, NEW handle \in DOMAIN SpaceOf, NEW ptr, NEW size, NEW frame, NEW within,
         AllocateData(handle, ptr, size, frame, within),
         NEW F, Accounts(held, F),
         NEW G, \A a \in DOMAIN held : G[a] = F[a], G[ptr] = frame
  PROVE  OverSpaces' /\ (Accounts(held, G))'
<1> DEFINE sp == SpaceOf[handle]
<1>0. sp \in Spaces
  BY SpaceTimeMemoryAssumption
<1>1. /\ ptr \notin DOMAIN held
      /\ held' = Assign(held, ptr, [handle |-> handle, size |-> size,
                                    frame |-> within, seen |-> TRUE])
  BY DEF AllocateData, HostAllocates
<1>2. /\ DOMAIN held' = DOMAIN held \cup {ptr}
      /\ held'[ptr] = [handle |-> handle, size |-> size, frame |-> within, seen |-> TRUE]
      /\ \A a \in DOMAIN held : a # ptr /\ held'[a] = held[a]
  BY <1>1 DEF Assign
<1>3. /\ current' = [current EXCEPT ![sp] = allocate(current[sp], ptr, size, frame)]
      /\ bytes' = [bytes EXCEPT ![sp] = @ + size]
  BY Zenon DEF AllocateData
<1>4. OverSpaces'
  BY <1>0 DEF AllocateData, OverSpaces, Spaced
<1>5. ASSUME NEW s \in Spaces, s # sp
      PROVE  current'[s] = [total_size |-> bytes'[s], alloc_set |-> Framed(held', s, G)]
  <2>1. Framed(held', s, G) = Framed(held, s, F)
    BY <1>2, <1>5 DEF Framed
  <2>2. current'[s] = current[s] /\ bytes'[s] = bytes[s]
    BY <1>3, <1>5 DEF OverSpaces, Spaced
  <2> QED BY <2>1, <2>2 DEF Accounts
<1>6. current'[sp] = [total_size |-> bytes'[sp], alloc_set |-> Framed(held', sp, G)]
  <2>1. Framed(held', sp, G) = Framed(held, sp, F) \cup {Allocation(ptr, size, frame)}
    BY <1>2 DEF Framed
  <2>2. current[sp] = [total_size |-> bytes[sp], alloc_set |-> Framed(held, sp, F)]
    BY <1>0 DEF Accounts
  <2>3. ~ InSet(current[sp], ptr, size)
    <3> HIDE DEF sp
    <3> QED BY <1>1, <2>2, FoundInFramed
  <2>4. /\ current'[sp] = allocate(current[sp], ptr, size, frame)
        /\ bytes'[sp] = bytes[sp] + size
    BY <1>0, <1>3 DEF OverSpaces, Spaced
  <2> HIDE DEF sp
  <2> QED BY <2>1, <2>2, <2>3, <2>4 DEF allocate
<1> QED BY <1>4, <1>5, <1>6, Zenon DEF Accounts

\* Memory that is freed leaves the account and the host.
LEMMA DeallocateKeeps ==
  ASSUME OverSpaces, NEW ptr \in DOMAIN held, held[ptr].handle \in DOMAIN SpaceOf,
         DeallocateData(ptr), NEW F, Accounts(held, F)
  PROVE  OverSpaces' /\ (Accounts(held, F))'
<1> DEFINE sp == SpaceOf[held[ptr].handle]
           size == held[ptr].size
<1>0. sp \in Spaces
  BY SpaceTimeMemoryAssumption
<1>1. held' = Erase(held, ptr)
  BY DEF DeallocateData
<1>2. /\ DOMAIN held' = DOMAIN held \ {ptr}
      /\ \A a \in DOMAIN held : a # ptr => held'[a] = held[a]
  BY <1>1 DEF Erase
<1>3. /\ current' = [current EXCEPT ![sp] = deallocate(current[sp], ptr, size)]
      /\ bytes' = IF held[ptr].seen THEN [bytes EXCEPT ![sp] = @ - size] ELSE bytes
  BY Zenon DEF DeallocateData
<1>4. OverSpaces'
  BY <1>0 DEF DeallocateData, OverSpaces, Spaced
<1>5. ASSUME NEW s \in Spaces, s # sp
      PROVE  current'[s] = [total_size |-> bytes'[s], alloc_set |-> Framed(held', s, F)]
  <2>1. Framed(held', s, F) = Framed(held, s, F)
    BY <1>2, <1>5 DEF Framed
  <2>2. current'[s] = current[s] /\ bytes'[s] = bytes[s]
    BY <1>3, <1>5 DEF OverSpaces, Spaced
  <2> QED BY <2>1, <2>2 DEF Accounts
<1>6. current'[sp] = [total_size |-> bytes'[sp], alloc_set |-> Framed(held', sp, F)]
  <2>1. current[sp] = [total_size |-> bytes[sp], alloc_set |-> Framed(held, sp, F)]
    BY <1>0 DEF Accounts
  <2>2. InSet(current[sp], ptr, size) <=> held[ptr].seen
    <3>1. sp = SpaceOf[held[ptr].handle] /\ size = held[ptr].size
      OBVIOUS
    <3> HIDE DEF sp, size
    <3> QED BY <2>1, <3>1, FoundInFramed
  <2>3. current'[sp] = deallocate(current[sp], ptr, size)
    BY <1>0, <1>3 DEF OverSpaces, Spaced
  <2>4. CASE held[ptr].seen
    <3>1. Framed(held', sp, F) = Framed(held, sp, F) \ Found(current[sp], ptr, size)
      <4>1. Found(current[sp], ptr, size) = {e \in Framed(held, sp, F) : e.ptr = ptr /\ e.size = size}
        BY <2>1 DEF Found
      <4> QED BY <1>2, <4>1 DEF Framed, Allocation
    <3>2. bytes'[sp] = bytes[sp] - size
      BY <1>0, <1>3, <2>4 DEF OverSpaces, Spaced
    <3> HIDE DEF sp, size
    <3> QED BY <2>1, <2>2, <2>3, <2>4, <3>1, <3>2 DEF deallocate
  <2>5. CASE ~ held[ptr].seen
    <3>1. Framed(held', sp, F) = Framed(held, sp, F)
      BY <1>2, <2>5 DEF Framed
    <3>2. bytes'[sp] = bytes[sp]
      BY <1>0, <1>3, <2>5
    <3> HIDE DEF sp, size
    <3> QED BY <2>1, <2>2, <2>3, <2>5, <3>1, <3>2 DEF deallocate
  <2> QED BY <2>4, <2>5
<1> QED BY <1>4, <1>5, <1>6, Zenon DEF Accounts

\* Memory the tool does not see is not in the account.
LEMMA UnseenKeeps ==
  ASSUME OverSpaces, NEW handle, NEW ptr, NEW size, NEW within,
         AllocateUnseen(handle, ptr, size, within), NEW F, Accounts(held, F)
  PROVE  OverSpaces' /\ (Accounts(held, F))'
<1>1. /\ ptr \notin DOMAIN held
      /\ held' = Assign(held, ptr, [handle |-> handle, size |-> size,
                                    frame |-> within, seen |-> FALSE])
      /\ UNCHANGED <<current, bytes, hwm, peak>>
  BY DEF AllocateUnseen, HostAllocates
<1>2. /\ DOMAIN held' = DOMAIN held \cup {ptr}
      /\ ~ held'[ptr].seen
      /\ \A a \in DOMAIN held : a # ptr /\ held'[a] = held[a]
  BY <1>1 DEF Assign
<1>3. \A s \in Spaces : Framed(held', s, F) = Framed(held, s, F)
  BY <1>2 DEF Framed
<1> QED BY <1>1, <1>3 DEF OverSpaces, Spaced, Accounts

\* The frames the host was in when it made each allocation.
HeldFrames(h) == [a \in DOMAIN h |-> h[a].frame]

\* With the host's own frames the account is what the host holds.
LEMMA FramedByHeld ==
  ASSUME NEW h, NEW s
  PROVE  Framed(h, s, HeldFrames(h)) = HeldIn(h, s)
BY DEF Framed, HeldIn, HeldFrames

\* The account reads no other variables.
LEMMA SameAccount ==
  ASSUME UNCHANGED memory, NEW F
  PROVE  /\ Accounts(held, F) => (Accounts(held, F))'
         /\ OverSpaces => OverSpaces'
BY DEF memory, Accounts, Framed, OverSpaces, Spaced

\* The account and the host start empty.
LEMMA InitAccount ==
  ASSUME InitMemory, NEW F
  PROVE  OverSpaces /\ Accounts(held, F)
<1>1. DOMAIN held = {}
  BY DEF InitMemory, EmptyMap
<1>2. \A s \in Spaces : Framed(held, s, F) = {}
  BY <1>1 DEF Framed
<1> QED BY <1>2 DEF InitMemory, NoAllocations, OverSpaces, Spaced, Accounts

\* Without the frames, the account is the same whatever frames it gives.
LEMMA FramesApart ==
  ASSUME NEW h, NEW s, NEW F
  PROVE  {[ptr |-> e.ptr, size |-> e.size] : e \in Framed(h, s, F)}
         = {[ptr |-> a, size |-> h[a].size] : a \in
              {b \in DOMAIN h : h[b].seen /\ SpaceOf[h[b].handle] = s}}
<1> DEFINE B == {b \in DOMAIN h : h[b].seen /\ SpaceOf[h[b].handle] = s}
           f(e) == [ptr |-> e.ptr, size |-> e.size]
           g(a) == [ptr |-> a, size |-> h[a].size]
           e(a) == Allocation(a, h[a].size, F[a])
<1>1. \A a : f(e(a)) = g(a)
  BY DEF Allocation
<1>2. Framed(h, s, F) = {e(a) : a \in B}
  BY Zenon DEF Framed
<1> HIDE DEF B, f, g, e
<1>3. {f(x) : x \in {e(a) : a \in B}} = {g(a) : a \in B}
  BY <1>1
<1> QED BY <1>2, <1>3, Zenon DEF f, g, B

\* What a step does with the memory.
MemoryStep ==
  \/ UNCHANGED memory
  \/ \E handle, ptr, size, within : AllocateUnseen(handle, ptr, size, within)
  \/ \E handle \in DOMAIN SpaceOf : \E ptr, size :
       AllocateData(handle, ptr, size, FrameNoted, HostFrame)
  \/ \E ptr \in DOMAIN held : held[ptr].handle \in DOMAIN SpaceOf /\ DeallocateData(ptr)

\* A step of the tool is one of these for the memory.
LEMMA EveryMemoryStep == [NextTool]_toolVars => MemoryStep
<1> SUFFICES ASSUME [NextTool]_toolVars PROVE MemoryStep
  OBVIOUS
<1>1. CASE FrameStep \/ UNCHANGED toolVars \/ TerminatedTool
           \/ \E handle \in Handles : UnknownSpace(handle)
  BY <1>1 DEF FrameStep, toolVars, TerminatedTool, UnknownSpace, MemoryStep
<1>2. CASE \E handle \in Handles, ptr \in Addresses, size \in Sizes :
             AllocateBefore(handle, ptr, size)
  BY <1>2, Zenon DEF AllocateBefore, MemoryStep
<1>3. CASE \E handle \in Handles, ptr \in Addresses, size \in Sizes :
             Allocate(handle, ptr, size)
  BY <1>3, Zenon DEF Allocate, MemoryStep
<1>4. CASE \E ptr \in DOMAIN held : Deallocate(ptr)
  <2>1. PICK ptr \in DOMAIN held : Deallocate(ptr)
    BY <1>4
  <2>2. held[ptr].handle \in DOMAIN SpaceOf /\ (UNCHANGED memory \/ DeallocateData(ptr))
    BY <2>1, Zenon DEF Deallocate
  <2> QED BY <2>2, Zenon DEF MemoryStep
<1> QED BY <1>1, <1>2, <1>3, <1>4, Zenon DEF NextTool

\* Every step keeps the account true.
LEMMA AccountInvNext == AccountInv /\ [NextTool]_toolVars => AccountInv'
<1> SUFFICES ASSUME AccountInv, [NextTool]_toolVars PROVE AccountInv'
  OBVIOUS
<1>1. MemoryStep
  BY EveryMemoryStep
<1>2. PICK F : Accounts(held, F)
  BY DEF AccountInv
<1>3. OverSpaces
  BY DEF AccountInv
<1>4. SUFFICES \E G : OverSpaces' /\ (Accounts(held, G))'
  BY Zenon DEF AccountInv
<1>5. CASE UNCHANGED memory
  BY <1>2, <1>3, <1>5, SameAccount
<1>6. CASE \E handle, ptr, size, within : AllocateUnseen(handle, ptr, size, within)
  BY <1>2, <1>3, <1>6, UnseenKeeps
<1>7. CASE \E handle \in DOMAIN SpaceOf : \E ptr, size :
             AllocateData(handle, ptr, size, FrameNoted, HostFrame)
  <2>1. PICK handle \in DOMAIN SpaceOf :
               \E ptr, size : AllocateData(handle, ptr, size, FrameNoted, HostFrame)
    BY <1>7
  <2>0. PICK ptr, size : AllocateData(handle, ptr, size, FrameNoted, HostFrame)
    BY <2>1
  <2>2. PICK frame, within : frame = FrameNoted /\ within = HostFrame
    OBVIOUS
  <2> DEFINE G == [a \in DOMAIN held \cup {ptr} |-> IF a = ptr THEN frame ELSE F[a]]
  <2>3. PICK H : H = G
    OBVIOUS
  <2>4. ptr \notin DOMAIN held
    BY <2>0 DEF AllocateData, HostAllocates
  <2>5. (\A a \in DOMAIN held : H[a] = F[a]) /\ H[ptr] = frame
    BY <2>3, <2>4
  <2>6. AllocateData(handle, ptr, size, frame, within)
    BY <2>0, <2>2
  <2> QED BY <1>2, <1>3, <2>5, <2>6, AllocateKeeps
<1>8. CASE \E ptr \in DOMAIN held : held[ptr].handle \in DOMAIN SpaceOf /\ DeallocateData(ptr)
  BY <1>2, <1>3, <1>8, DeallocateKeeps
<1> QED BY <1>1, <1>5, <1>6, <1>7, <1>8, Zenon DEF MemoryStep

\* The account of every space of the tool is what the host holds there: each
\* allocation the tool was told of, once, and the sum of their sizes
\* (kp_space_time_stack.cpp:513-544).
THEOREM AccountOfSpace == ToolSpec => []AccountIsTrue
<1>1. InitTool => AccountInv
  BY InitAccount DEF InitTool, AccountInv
<1>2. AccountInv /\ [NextTool]_toolVars => AccountInv'
  BY AccountInvNext
<1>3. AccountInv => AccountIsTrue
  <2> SUFFICES ASSUME AccountInv, NEW s \in Spaces
               PROVE  Unframed(current[s]) =
                      Unframed([total_size |-> bytes[s], alloc_set |-> HeldIn(held, s)])
    BY DEF AccountIsTrue
  <2>1. PICK F : Accounts(held, F)
    BY DEF AccountInv
  <2>2. {[ptr |-> e.ptr, size |-> e.size] : e \in Framed(held, s, F)}
        = {[ptr |-> e.ptr, size |-> e.size] : e \in HeldIn(held, s)}
    BY FramesApart, FramedByHeld, Zenon
  <2>3. current[s] = [total_size |-> bytes[s], alloc_set |-> Framed(held, s, F)]
    BY <2>1 DEF Accounts
  <2> DEFINE hosts == [total_size |-> bytes[s], alloc_set |-> HeldIn(held, s)]
  <2>4. /\ current[s].total_size = hosts.total_size
        /\ current[s].alloc_set = Framed(held, s, F)
        /\ hosts.alloc_set = HeldIn(held, s)
    BY <2>3
  <2> HIDE DEF hosts
  <2>5. Unframed(current[s]) = Unframed(hosts)
    BY <2>2, <2>4, Zenon DEF Unframed
  <2> QED BY <2>5 DEF hosts
<1> QED BY <1>1, <1>2, <1>3, PTL DEF ToolSpec

-----------------------------------------------------------------------------
(* The stack of frames                                                     *)

Node == [total_runtime : Int, total_kokkos_runtime : Int, number_of_calls : Int,
         total_number_of_kernel_calls : Int, start_time : Int]

\* What the host has begun.
Block == [kind : StackKinds, since : Int, node : Seq(Frames)]

\* The frames of the blocks are of their kind.
Kinded(blocks) ==
  /\ blocks \in Seq(Block)
  /\ \A i \in DOMAIN blocks :
       Len(blocks[i].node) > 0 /\ blocks[i].kind = Last(blocks[i].node).kind

StackShape ==
  /\ clock \in Int
  /\ Root \in DOMAIN tree
  /\ DOMAIN tree \subseteq Seq(Frames)
  /\ tree \in [DOMAIN tree -> Node]
  /\ stack_frame \in Seq(Frames) \cup {NullFrame}
  /\ Kinded(open)

\* The node p is on the way from the root to q.
Above(p, q) == Len(p) <= Len(q) /\ \A k \in 1 .. Len(p) : p[k] = q[k]

\* A kernel the host has begun is no longer under the tool's innermost frame, or
\* two of them are in one node.  The end of one of them will not be accepted.
Derailed(blocks, frame) ==
  \/ \E i \in DOMAIN blocks :
       blocks[i].kind \in KernelKinds /\ ~ Above(blocks[i].node, frame)
  \/ \E i, j \in DOMAIN blocks :
       i # j /\ blocks[i].kind \in KernelKinds /\ blocks[i].node = blocks[j].node

\* What the host has begun is the tool's innermost frame and those around it.
InStep(blocks, frame) ==
  /\ Len(blocks) = Len(frame)
  /\ \A j \in DOMAIN blocks : Len(blocks[j].node) = j /\ Above(blocks[j].node, frame)

\* Every node has the time the host spent in it, up to what is in progress.
TimesTrue ==
  /\ DOMAIN elapsed \subseteq DOMAIN tree
  /\ \A j \in DOMAIN open :
       open[j].node \in DOMAIN tree /\ tree[open[j].node].start_time = open[j].since
  /\ \A p \in DOMAIN tree \ {Root} : tree[p].total_runtime = Elapsed(p)

\* The account and the snapshots name the frames the host was in.
FramesTrue == hwm = peak /\ Accounts(held, HeldFrames(held))

Matched ==
  /\ stack_frame \in Seq(Frames)
  /\ InStep(open, stack_frame)
  /\ TimesTrue
  /\ FramesTrue

\* Before the tool is initialised.
StackLoaded ==
  clock = 0 /\ open = << >> /\ elapsed = EmptyMap /\ tree = EmptyMap /\ FramesTrue

StackUp ==
  /\ StackShape
  /\ stack_frame = NullFrame \/ Derailed(open, stack_frame) \/ Matched

StackInv ==
  /\ AccountInv
  /\ phase = "loaded" => StackLoaded
  /\ phase = "up" => StackUp
  /\ ReportIsTrue
  /\ SnapshotFramesTrue

\* Every block of the host has a node below the root.
LEMMA BlockNodes ==
  ASSUME NEW blocks, Kinded(blocks)
  PROVE  \A i \in DOMAIN blocks :
           /\ blocks[i].node \in Seq(Frames)
           /\ Len(blocks[i].node) \in Nat
           /\ blocks[i].node # << >>
<1>1. blocks \in Seq(Block)
  BY DEF Kinded
<1> SUFFICES ASSUME NEW i \in DOMAIN blocks
             PROVE  blocks[i].node \in Seq(Frames) /\ Len(blocks[i].node) \in Nat
                    /\ blocks[i].node # << >>
  OBVIOUS
<1>2. blocks[i] \in Block
  BY <1>1
<1>3. blocks[i].node \in Seq(Frames)
  BY <1>2 DEF Block
<1>4. Len(blocks[i].node) > 0
  BY DEF Kinded
<1> QED BY <1>3, <1>4

\* What was derailed stays so, when a frame begins ...
LEMMA DerailedBegin ==
  ASSUME NEW blocks, Kinded(blocks), NEW frame \in Seq(Frames), Derailed(blocks, frame),
         NEW f \in Frames, NEW b \in Block, b.kind = f.kind, b.node = Append(frame, f)
  PROVE  Derailed(Append(blocks, b), Append(frame, f))
<1> DEFINE bs == Append(blocks, b)
           fr == Append(frame, f)
           n == Len(blocks)
<1>0. blocks \in Seq(Block)
  BY DEF Kinded
<1>1. /\ n \in Nat /\ DOMAIN blocks = 1 .. n /\ DOMAIN bs = 1 .. n + 1
      /\ bs[n + 1] = b /\ \A i \in 1 .. n : bs[i] = blocks[i]
  BY <1>0
<1>2. /\ Len(frame) \in Nat /\ Len(fr) = Len(frame) + 1 /\ fr \in Seq(Frames)
      /\ fr[Len(frame) + 1] = f /\ \A k \in 1 .. Len(frame) : fr[k] = frame[k]
  OBVIOUS
<1> HIDE DEF bs, fr, n
<1>3. CASE \E i, j \in DOMAIN blocks :
             i # j /\ blocks[i].kind \in KernelKinds /\ blocks[i].node = blocks[j].node
  <2>1. PICK i, j \in 1 .. n :
             i # j /\ blocks[i].kind \in KernelKinds /\ blocks[i].node = blocks[j].node
    BY <1>1, <1>3
  <2>2. i \in DOMAIN bs /\ j \in DOMAIN bs /\ bs[i] = blocks[i] /\ bs[j] = blocks[j]
    BY <1>1
  <2>3. Derailed(bs, fr)
    BY <2>1, <2>2 DEF Derailed
  <2> QED BY <2>3 DEF bs, fr
<1>4. CASE \E i \in DOMAIN blocks :
             blocks[i].kind \in KernelKinds /\ ~ Above(blocks[i].node, frame)
  <2>1. PICK i \in 1 .. n : blocks[i].kind \in KernelKinds /\ ~ Above(blocks[i].node, frame)
    BY <1>1, <1>4
  <2> DEFINE p == blocks[i].node
  <2>2. i \in DOMAIN bs /\ n + 1 \in DOMAIN bs /\ i # n + 1 /\ bs[i] = blocks[i]
    BY <1>1
  <2>3. p \in Seq(Frames) /\ Len(p) \in Nat
    BY <1>1, BlockNodes
  <2>4. CASE ~ Above(p, fr)
    <3>1. Derailed(bs, fr)
      BY <2>1, <2>2, <2>4 DEF Derailed
    <3> QED BY <3>1 DEF bs, fr
  <2>5. CASE Above(p, fr)
    <3>1. Len(p) = Len(fr)
      <4> HIDE DEF p
      <4>1. SUFFICES ASSUME Len(p) <= Len(frame) PROVE FALSE
        BY <1>2, <2>3, <2>5 DEF Above
      <4>2. Above(p, frame)
        BY <1>2, <2>3, <2>5, <4>1 DEF Above
      <4> QED BY <2>1, <4>2 DEF p
    <3>2. p = fr
      <4> HIDE DEF p
      <4> QED BY <1>2, <2>3, <2>5, <3>1, SeqEqual DEF Above
    <3>3. bs[i].node = bs[n + 1].node
      BY <1>1, <2>2, <3>2 DEF fr
    <3>4. Derailed(bs, fr)
      BY <2>1, <2>2, <3>3 DEF Derailed
    <3> QED BY <3>4 DEF bs, fr
  <2> QED BY <2>4, <2>5
<1> QED BY <1>3, <1>4 DEF Derailed

\* ... when the innermost frame ends ...
LEMMA AboveFront ==
  ASSUME NEW p \in Seq(Frames), NEW frame \in Seq(Frames), frame # << >>
  PROVE  Above(p, Front(frame)) <=> Above(p, frame) /\ Len(p) < Len(frame)
<1>1. Len(Front(frame)) = Len(frame) - 1 /\ Len(frame) \in Nat /\ Len(p) \in Nat
  BY FrontTyped
<1>2. \A k \in 1 .. Len(frame) - 1 : Front(frame)[k] = frame[k]
  BY FrontElements
<1> QED BY <1>1, <1>2 DEF Above

\* A tool that has left the host's path stays off it at the next end.
LEMMA DerailedEnd ==
  ASSUME NEW blocks, Kinded(blocks), NEW frame \in Seq(Frames), frame # << >>,
         Derailed(blocks, frame)
  PROVE  Derailed(blocks, Front(frame))
<1>1. \A i \in DOMAIN blocks : blocks[i].node \in Seq(Frames)
  BY BlockNodes
<1> QED BY <1>1, AboveFront DEF Derailed

\* ... and when a region, a copy or the kernel in the innermost frame ends.
LEMMA DerailedRemove ==
  ASSUME NEW blocks, Kinded(blocks), NEW frame \in Seq(Frames), frame # << >>,
         Derailed(blocks, frame), NEW i \in 1 .. Len(blocks),
         blocks[i].kind \in KernelKinds => blocks[i].node = frame
  PROVE  Derailed(RemoveAt(blocks, i), Front(frame))
<1> DEFINE n == Len(blocks)
           bs == RemoveAt(blocks, i)
<1>0. blocks \in Seq(Block)
  BY DEF Kinded
<1>1. /\ bs \in Seq(Block) /\ Len(bs) = n - 1
      /\ \A k \in 1 .. n - 1 : bs[k] = IF k < i THEN blocks[k] ELSE blocks[k + 1]
  BY <1>0, RemoveAtIs
<1>2. n \in Nat /\ DOMAIN blocks = 1 .. n /\ DOMAIN bs = 1 .. n - 1
  BY <1>0, <1>1
<1> HIDE DEF bs
<1> DEFINE at(j) == IF j < i THEN j ELSE j - 1
<1>3. \A j \in 1 .. n : j # i => at(j) \in DOMAIN bs /\ bs[at(j)] = blocks[j]
  BY <1>1, <1>2
<1>4. \A j, k \in 1 .. n : j # i /\ k # i /\ j # k => at(j) # at(k)
  BY <1>2
<1>5. \A j \in 1 .. n : blocks[j].node \in Seq(Frames)
  BY <1>2, BlockNodes
<1>6. \A j \in 1 .. n : ~ Above(blocks[j].node, frame) \/ blocks[j].node = frame
                         => ~ Above(blocks[j].node, Front(frame))
  BY <1>5, AboveFront
<1> HIDE DEF at, n
<1>7. CASE \E j \in DOMAIN blocks :
             blocks[j].kind \in KernelKinds /\ ~ Above(blocks[j].node, frame)
  <2>1. PICK j \in 1 .. n : blocks[j].kind \in KernelKinds /\ ~ Above(blocks[j].node, frame)
    BY <1>2, <1>7
  <2>2. j # i
    BY <2>1, <1>5 DEF Above
  <2> QED BY <1>3, <1>6, <2>1, <2>2 DEF Derailed, bs
<1>8. CASE \E j, k \in DOMAIN blocks :
             j # k /\ blocks[j].kind \in KernelKinds /\ blocks[j].node = blocks[k].node
  <2>1. PICK j, k \in 1 .. n :
             j # k /\ blocks[j].kind \in KernelKinds /\ blocks[j].node = blocks[k].node
    BY <1>2, <1>8
  <2>2. blocks[k].kind \in KernelKinds
    BY <1>2, <2>1 DEF Kinded
  <2>3. CASE j # i /\ k # i
    <3>1. /\ at(j) \in DOMAIN bs /\ at(k) \in DOMAIN bs /\ at(j) # at(k)
          /\ bs[at(j)] = blocks[j] /\ bs[at(k)] = blocks[k]
      BY <1>3, <1>4, <2>1, <2>3
    <3> QED BY <2>1, <3>1 DEF Derailed, bs
  <2>4. CASE j = i \/ k = i
    <3>1. PICK l \in {j, k} : l # i
      BY <2>1, <2>4
    <3>2. blocks[l].node = frame /\ blocks[l].kind \in KernelKinds /\ l \in 1 .. n
      BY <2>1, <2>2, <2>4, <3>1
    <3> QED BY <1>3, <1>6, <3>1, <3>2 DEF Derailed, bs
  <2> QED BY <2>3, <2>4
<1> QED BY <1>7, <1>8 DEF Derailed

\* What is in step is not derailed by a frame that begins ...
LEMMA InStepBegin ==
  ASSUME NEW blocks, Kinded(blocks), NEW frame \in Seq(Frames), InStep(blocks, frame),
         NEW f \in Frames, NEW b \in Block, b.node = Append(frame, f)
  PROVE  InStep(Append(blocks, b), Append(frame, f))
<1> DEFINE bs == Append(blocks, b)
           fr == Append(frame, f)
           n == Len(blocks)
<1>0. blocks \in Seq(Block)
  BY DEF Kinded
<1>1. /\ n \in Nat /\ DOMAIN blocks = 1 .. n /\ DOMAIN bs = 1 .. n + 1 /\ Len(bs) = n + 1
      /\ bs[n + 1] = b /\ \A i \in 1 .. n : bs[i] = blocks[i]
  BY <1>0
<1>2. /\ Len(frame) \in Nat /\ Len(fr) = Len(frame) + 1
      /\ \A k \in 1 .. Len(frame) : fr[k] = frame[k]
  OBVIOUS
<1>3. n = Len(frame)
  BY DEF InStep
<1>4. b.node = fr
  OBVIOUS
<1> HIDE DEF bs, fr, n
<1>5. ASSUME NEW j \in 1 .. n PROVE Len(bs[j].node) = j /\ Above(bs[j].node, fr)
  <2>1. bs[j] = blocks[j] /\ Len(blocks[j].node) = j /\ Above(blocks[j].node, frame)
    BY <1>1 DEF InStep
  <2> QED BY <1>1, <1>2, <1>3, <2>1 DEF Above
<1>6. Len(bs[n + 1].node) = n + 1 /\ Above(bs[n + 1].node, fr)
  BY <1>1, <1>2, <1>3, <1>4 DEF Above
<1>7. InStep(bs, fr)
  BY <1>1, <1>2, <1>3, <1>5, <1>6 DEF InStep
<1> QED BY <1>7 DEF bs, fr

\* ... and the last block is in the innermost frame.
LEMMA InnermostBlock ==
  ASSUME NEW blocks, Kinded(blocks), NEW frame \in Seq(Frames), InStep(blocks, frame)
  PROVE  /\ DOMAIN blocks = 1 .. Len(frame) /\ Len(blocks) = Len(frame)
         /\ \A i \in DOMAIN blocks : blocks[i].node = frame <=> i = Len(frame)
         /\ \A i \in DOMAIN blocks : Len(blocks[i].node) = i
<1>1. blocks \in Seq(Block) /\ Len(frame) \in Nat
  BY DEF Kinded
<1>2. DOMAIN blocks = 1 .. Len(frame)
  BY <1>1 DEF InStep
<1>3. ASSUME NEW i \in DOMAIN blocks, i = Len(frame) PROVE blocks[i].node = frame
  <2> DEFINE p == blocks[i].node
  <2>1. p \in Seq(Frames)
    BY BlockNodes
  <2>2. Len(p) = Len(frame) /\ Above(p, frame)
    BY <1>3 DEF InStep
  <2> HIDE DEF p
  <2>3. p = frame
    BY <2>1, <2>2, SeqEqual DEF Above
  <2> QED BY <2>3 DEF p
<1> QED BY <1>2, <1>3 DEF InStep

\* The last block ends ...
LEMMA InStepEnd ==
  ASSUME NEW blocks, Kinded(blocks), NEW frame \in Seq(Frames), InStep(blocks, frame),
         frame # << >>
  PROVE  /\ InStep(RemoveAt(blocks, Len(frame)), Front(frame))
         /\ Len(frame) \in DOMAIN blocks
         /\ \A k \in DOMAIN RemoveAt(blocks, Len(frame)) :
              k \in DOMAIN blocks /\ RemoveAt(blocks, Len(frame))[k] = blocks[k]
<1> DEFINE n == Len(frame)
           bs == RemoveAt(blocks, n)
<1>0. blocks \in Seq(Block)
  BY DEF Kinded
<1>1. n \in Nat /\ n > 0 /\ Len(blocks) = n /\ DOMAIN blocks = 1 .. n
  BY <1>0 DEF InStep
<1>2. /\ bs \in Seq(Block) /\ Len(bs) = n - 1
      /\ \A k \in 1 .. n - 1 : bs[k] = blocks[k]
  <2>1. n \in 1 .. Len(blocks)
    BY <1>1
  <2>2. /\ bs \in Seq(Block) /\ Len(bs) = Len(blocks) - 1
        /\ \A k \in 1 .. Len(blocks) - 1 : bs[k] = IF k < n THEN blocks[k] ELSE blocks[k + 1]
    <3> HIDE DEF n
    <3> QED BY <1>0, <2>1, RemoveAtIs
  <2> HIDE DEF bs, n
  <2> QED BY <1>1, <2>2
<1>3. DOMAIN bs = 1 .. n - 1
  BY <1>1, <1>2
<1>4. Len(Front(frame)) = n - 1
  BY FrontTyped
<1>5. ASSUME NEW k \in 1 .. n - 1
      PROVE  Len(blocks[k].node) = k /\ Above(blocks[k].node, Front(frame))
  <2>1. k \in DOMAIN blocks
    BY <1>1
  <2>2. blocks[k].node \in Seq(Frames) /\ Len(blocks[k].node) = k /\ Above(blocks[k].node, frame)
    BY <2>1, BlockNodes DEF InStep
  <2>3. k < Len(frame)
    BY <1>1
  <2> QED BY <2>2, <2>3, AboveFront
<1> HIDE DEF bs, n
<1>6. InStep(bs, Front(frame))
  BY <1>2, <1>3, <1>4, <1>5 DEF InStep
<1> QED BY <1>1, <1>2, <1>3, <1>6 DEF bs, n

\* ... or, when it is a kernel and another block ends or none, is left behind.
LEMMA LeftBehind ==
  ASSUME NEW blocks, Kinded(blocks), NEW frame \in Seq(Frames), InStep(blocks, frame),
         frame # << >>, blocks[Len(frame)].kind \in KernelKinds
  PROVE  /\ Derailed(blocks, Front(frame))
         /\ \A i \in 1 .. Len(frame) - 1 : Derailed(RemoveAt(blocks, i), Front(frame))
<1> DEFINE n == Len(frame)
<1>0. blocks \in Seq(Block)
  BY DEF Kinded
<1>1. n \in Nat /\ n > 0 /\ Len(blocks) = n /\ DOMAIN blocks = 1 .. n
  BY <1>0 DEF InStep
<1>2. blocks[n].node = frame
  BY <1>1, InnermostBlock
<1>3. ~ Above(frame, Front(frame))
  BY AboveFront
<1>4. Derailed(blocks, Front(frame))
  BY <1>1, <1>2, <1>3 DEF Derailed
<1>5. ASSUME NEW i \in 1 .. n - 1 PROVE Derailed(RemoveAt(blocks, i), Front(frame))
  <2> DEFINE bs == RemoveAt(blocks, i)
  <2>1. i \in 1 .. Len(blocks)
    BY <1>1
  <2>2. /\ bs \in Seq(Block) /\ Len(bs) = Len(blocks) - 1
        /\ \A k \in 1 .. Len(blocks) - 1 : bs[k] = IF k < i THEN blocks[k] ELSE blocks[k + 1]
    BY <1>0, <2>1, RemoveAtIs
  <2> HIDE DEF bs, n
  <2>3. n - 1 \in DOMAIN bs /\ bs[n - 1] = blocks[n]
    BY <1>1, <2>2
  <2>4. Derailed(bs, Front(frame))
    BY <1>2, <1>3, <2>3 DEF Derailed, n
  <2> QED BY <2>4 DEF bs
<1> QED BY <1>4, <1>5 DEF n

-----------------------------------------------------------------------------
(* The steps of the memory keep its frames                                 *)

\* Without a step of the memory the frames stay true.
LEMMA FramesSame == FramesTrue /\ UNCHANGED memory => FramesTrue'
BY DEF FramesTrue, memory, Accounts, HeldFrames, Framed

\* An allocation notes the frame the host is in, if the tool is in it too.
LEMMA FramesAllocated ==
  ASSUME OverSpaces, FramesTrue, NEW handle \in DOMAIN SpaceOf, NEW ptr, NEW size, NEW frame,
         AllocateData(handle, ptr, size, frame, frame)
  PROVE  FramesTrue'
<1> DEFINE sp == SpaceOf[handle]
<1>0. sp \in Spaces
  BY SpaceTimeMemoryAssumption
<1>1. PICK F : F = HeldFrames(held)
  OBVIOUS
<1>2. PICK G : G = HeldFrames(held')
  OBVIOUS
<1>3. /\ ptr \notin DOMAIN held
      /\ held' = Assign(held, ptr, [handle |-> handle, size |-> size,
                                    frame |-> frame, seen |-> TRUE])
  BY DEF AllocateData, HostAllocates
<1>4. (\A a \in DOMAIN held : G[a] = F[a]) /\ G[ptr] = frame
  BY <1>1, <1>2, <1>3 DEF HeldFrames, Assign
<1>5. Accounts(held, F)
  BY <1>1 DEF FramesTrue
<1>6. OverSpaces' /\ (Accounts(held, G))'
  BY <1>4, <1>5, AllocateKeeps
<1>7. current'[sp] = [total_size |-> bytes'[sp], alloc_set |-> HeldIn(held', sp)]
  <2>1. Framed(held', sp, G) = HeldIn(held', sp)
    BY <1>2, FramedByHeld
  <2> QED BY <1>0, <1>6, <2>1 DEF Accounts
<1>8. /\ current'[sp] = allocate(current[sp], ptr, size, frame)
      /\ bytes'[sp] = bytes[sp] + size
      /\ hwm' = [hwm EXCEPT ![sp] = Snapshot(allocate(current[sp], ptr, size, frame), hwm[sp])]
      /\ peak' = IF bytes[sp] + size > peak[sp].total_size
                 THEN [peak EXCEPT ![sp] = [total_size |-> bytes[sp] + size,
                                            alloc_set  |-> HeldIn(held', sp)]]
                 ELSE peak
  BY <1>0 DEF AllocateData, OverSpaces, Spaced
<1>9. hwm' = peak'
  <2> DEFINE grown == [total_size |-> bytes[sp] + size, alloc_set  |-> HeldIn(held', sp)]
  <2>1. allocate(current[sp], ptr, size, frame) = grown
    BY <1>7, <1>8
  <2>2. grown.total_size = bytes[sp] + size
    OBVIOUS
  <2>3. hwm = peak /\ hwm = [hwm EXCEPT ![sp] = hwm[sp]]
    BY DEF FramesTrue, OverSpaces, Spaced
  <2>4. /\ hwm' = [hwm EXCEPT ![sp] = Snapshot(grown, hwm[sp])]
        /\ peak' = IF grown.total_size > peak[sp].total_size
                   THEN [peak EXCEPT ![sp] = grown] ELSE peak
    BY <1>8, <2>1, <2>2, Zenon
  <2> HIDE DEF grown, sp
  <2>5. CASE grown.total_size > hwm[sp].total_size
    BY <2>3, <2>4, <2>5 DEF Snapshot
  <2>6. CASE ~ (grown.total_size > hwm[sp].total_size)
    BY <2>3, <2>4, <2>6 DEF Snapshot
  <2> QED BY <2>5, <2>6
<1> QED BY <1>2, <1>6, <1>9 DEF FramesTrue

\* Memory that is freed takes its frame with it.
LEMMA FramesFreed ==
  ASSUME OverSpaces, FramesTrue, NEW ptr \in DOMAIN held,
         held[ptr].handle \in DOMAIN SpaceOf, DeallocateData(ptr)
  PROVE  FramesTrue'
<1>1. PICK F : F = HeldFrames(held)
  OBVIOUS
<1>2. PICK G : G = HeldFrames(held')
  OBVIOUS
<1>3. held' = Erase(held, ptr) /\ hwm' = hwm /\ peak' = peak
  BY DEF DeallocateData
<1>4. Accounts(held, F)
  BY <1>1 DEF FramesTrue
<1>5. (Accounts(held, F))'
  BY <1>4, DeallocateKeeps
<1>6. \A a \in DOMAIN held' : G[a] = F[a]
  BY <1>1, <1>2, <1>3 DEF HeldFrames, Erase
<1>7. \A s \in Spaces : Framed(held', s, G) = Framed(held', s, F)
  BY <1>6 DEF Framed
<1>8. (Accounts(held, G))'
  BY <1>5, <1>7 DEF Accounts
<1> QED BY <1>2, <1>3, <1>8 DEF FramesTrue

\* Memory the tool is not told of is in no account of its.
LEMMA FramesUnseen ==
  ASSUME OverSpaces, FramesTrue, NEW handle, NEW ptr, NEW size, NEW within,
         AllocateUnseen(handle, ptr, size, within)
  PROVE  FramesTrue'
<1>1. PICK F : F = HeldFrames(held)
  OBVIOUS
<1>2. PICK G : G = HeldFrames(held')
  OBVIOUS
<1>3. /\ ptr \notin DOMAIN held
      /\ held' = Assign(held, ptr, [handle |-> handle, size |-> size,
                                    frame |-> within, seen |-> FALSE])
      /\ hwm' = hwm /\ peak' = peak
  BY DEF AllocateUnseen, HostAllocates
<1>4. Accounts(held, F)
  BY <1>1 DEF FramesTrue
<1>5. (Accounts(held, F))'
  BY <1>4, UnseenKeeps
<1>6. \A a \in DOMAIN held' : held'[a].seen => G[a] = F[a]
  BY <1>1, <1>2, <1>3 DEF HeldFrames, Assign
<1>7. \A s \in Spaces : Framed(held', s, G) = Framed(held', s, F)
  BY <1>6 DEF Framed
<1>8. (Accounts(held, G))'
  BY <1>5, <1>7 DEF Accounts
<1> QED BY <1>2, <1>3, <1>8 DEF FramesTrue

-----------------------------------------------------------------------------
(* The steps of the frames                                                 *)

\* A frame that begins keeps its time and starts the clock.
LEMMA BegunNodeIs ==
  ASSUME NEW node \in Node, NEW kind, clock \in Int
  PROVE  /\ BegunNode(node, kind) \in Node
         /\ BegunNode(node, kind).total_runtime = node.total_runtime
         /\ BegunNode(node, kind).start_time = clock
<1>1. PICK d \in Int : d = IF kind = "region" THEN 0 ELSE 1
  OBVIOUS
<1> DEFINE counted == [node EXCEPT !.number_of_calls = node.number_of_calls + 1]
           summed  == [counted EXCEPT !.total_number_of_kernel_calls
                                        = node.total_number_of_kernel_calls + d]
           started == [summed EXCEPT !.start_time = clock]
<1>2. BegunNode(node, kind) = started
  BY <1>1, Zenon DEF BegunNode
<1>3. counted \in Node /\ counted.total_runtime = node.total_runtime
  BY DEF Node
<1> HIDE DEF counted
<1>4. summed \in Node /\ summed.total_runtime = node.total_runtime
  BY <1>3 DEF Node
<1> HIDE DEF summed
<1>5. started \in Node /\ started.total_runtime = node.total_runtime /\ started.start_time = clock
  BY <1>4 DEF Node
<1> QED BY <1>2, <1>5, Zenon

\* A frame that ends adds the time since it began.
LEMMA EndedNodeIs ==
  ASSUME NEW node \in Node, clock \in Int
  PROVE  /\ EndedNode(node) \in Node
         /\ EndedNode(node).total_runtime = node.total_runtime + (clock - node.start_time)
         /\ EndedNode(node).start_time = node.start_time
BY DEF EndedNode, Node

\* A new frame has no time.
LEMMA NewNodeIs == NewNode \in Node /\ NewNode.total_runtime = 0
BY DEF NewNode, Node

\* A block that begins has the node of its frame.
LEMMA KindedBegin ==
  ASSUME NEW blocks, Kinded(blocks), NEW b \in Block,
         NEW frame \in Seq(Frames), NEW f \in Frames, b.node = Append(frame, f), b.kind = f.kind
  PROVE  Kinded(Append(blocks, b))
<1> DEFINE bs == Append(blocks, b)
           n == Len(blocks)
<1>1. blocks \in Seq(Block)
  BY DEF Kinded
<1>2. /\ bs \in Seq(Block) /\ DOMAIN bs = 1 .. n + 1 /\ n \in Nat /\ DOMAIN blocks = 1 .. n
      /\ bs[n + 1] = b /\ \A i \in 1 .. n : bs[i] = blocks[i]
  BY <1>1
<1>3. Len(b.node) > 0 /\ Last(b.node).kind = b.kind
  BY DEF Last
<1> HIDE DEF bs, n
<1>5. ASSUME NEW i \in 1 .. n + 1
      PROVE  Len(bs[i].node) > 0 /\ bs[i].kind = Last(bs[i].node).kind
  <2>1. CASE i = n + 1
    BY <1>2, <1>3, <2>1
  <2>2. CASE i \in 1 .. n
    BY <1>2, <2>2 DEF Kinded
  <2> QED BY <1>2, <2>1, <2>2
<1>4. Kinded(bs)
  BY <1>2, <1>5 DEF Kinded
<1> QED BY <1>4 DEF bs

\* A block that ends leaves the others theirs.
LEMMA KindedRemove ==
  ASSUME NEW blocks, Kinded(blocks), NEW i \in 1 .. Len(blocks)
  PROVE  Kinded(RemoveAt(blocks, i))
<1> DEFINE bs == RemoveAt(blocks, i)
           n == Len(blocks)
<1>1. blocks \in Seq(Block)
  BY DEF Kinded
<1>2. /\ bs \in Seq(Block) /\ Len(bs) = n - 1
      /\ \A k \in 1 .. n - 1 : bs[k] = IF k < i THEN blocks[k] ELSE blocks[k + 1]
  BY <1>1, RemoveAtIs
<1>3. DOMAIN bs = 1 .. n - 1 /\ n \in Nat /\ DOMAIN blocks = 1 .. n
  BY <1>1, <1>2
<1> HIDE DEF bs, n
<1>4. \A k \in DOMAIN bs : \E j \in DOMAIN blocks : bs[k] = blocks[j]
  <2>1. ASSUME NEW k \in 1 .. n - 1 PROVE \E j \in 1 .. n : bs[k] = blocks[j]
    <3>1. k \in 1 .. n /\ k + 1 \in 1 .. n
      BY <1>3
    <3> QED BY <1>2, <3>1
  <2> QED BY <1>3, <2>1
<1>5. Kinded(bs)
  BY <1>2, <1>4 DEF Kinded
<1> QED BY <1>5 DEF bs

\* The host's last region or copy, and that none has begun after it.
LEMMA LastUnnumberedIs ==
  ASSUME Kinded(open)
  PROVE  \/ LastUnnumbered = 0 /\ \A i \in DOMAIN open : open[i].kind \in KernelKinds
         \/ /\ LastUnnumbered \in 1 .. Len(open)
            /\ open[LastUnnumbered].kind \notin KernelKinds
            /\ \A j \in DOMAIN open : j > LastUnnumbered => open[j].kind \in KernelKinds
<1> DEFINE I == {i \in 1 .. Len(open) : open[i].kind \notin KernelKinds}
<1>1. LastUnnumbered = IF I # {} THEN Max(I) ELSE 0
  BY DEF LastUnnumbered, SelectLastInSeq
<1>2. open \in Seq(Block) /\ DOMAIN open = 1 .. Len(open) /\ Len(open) \in Nat
  BY DEF Kinded
<1>3. CASE I = {}
  BY <1>1, <1>2, <1>3
<1>4. CASE I # {}
  <2>1. Max(I) \in I /\ \A k \in I : k <= Max(I)
    <3>1. I \subseteq 1 .. Len(open)
      OBVIOUS
    <3> HIDE DEF I
    <3> QED BY <1>2, <1>4, <3>1, LastOf
  <2>2. LastUnnumbered \in I /\ \A k \in I : k <= LastUnnumbered
    BY <1>1, <1>4, <2>1
  <2> QED BY <1>2, <2>2
<1> QED BY <1>3, <1>4

\* A tick of the clock keeps the frames of tool and host matched.
LEMMA StackTick ==
  ASSUME StackUp, Tick, UNCHANGED memory
  PROVE  StackUp'
<1>1. /\ clock' = clock + 1
      /\ tree' = tree /\ stack_frame' = stack_frame /\ open' = open /\ elapsed' = elapsed
  BY DEF Tick, host
<1>2. StackShape'
  BY <1>1 DEF StackUp, StackShape
<1>3. TimesTrue => TimesTrue'
  BY <1>1 DEF TimesTrue, Elapsed
<1>4. FramesTrue => FramesTrue'
  BY FramesSame
<1> QED BY <1>1, <1>2, <1>3, <1>4 DEF StackUp, Matched

\* A frame that begins on both sides keeps them matched.
LEMMA StackBegin ==
  ASSUME StackUp, UNCHANGED memory, NEW f \in Frames, stack_frame # NullFrame,
         HostBegins(f), begin_frame(f)
  PROVE  StackUp'
<1> DEFINE p == Append(stack_frame, f)
           node == IF p \in DOMAIN tree THEN tree[p] ELSE NewNode
           block == [kind |-> f.kind, since |-> clock, node |-> p]
<1>0. StackShape /\ stack_frame \in Seq(Frames) /\ Kinded(open) /\ clock \in Int
  BY DEF StackUp, StackShape
<1>1. /\ tree' = Assign(tree, p, BegunNode(node, f.kind))
      /\ stack_frame' = p /\ clock' = clock
      /\ open' = Append(open, block)
      /\ elapsed' = elapsed
  BY DEF begin_frame, HostBegins
<1>2. p \in Seq(Frames) /\ Len(p) = Len(stack_frame) + 1 /\ Len(stack_frame) \in Nat
  BY <1>0
<1>3. PICK fr \in Seq(Frames) : fr = stack_frame
  BY <1>0
<1>4. block \in Block /\ block.node = Append(fr, f) /\ block.kind = f.kind /\ block.since = clock
  BY <1>0, <1>2, <1>3, SpaceTimeStackAssumption DEF Block
<1>5. node \in Node /\ (p \notin DOMAIN tree => node.total_runtime = 0)
  BY <1>0, NewNodeIs DEF StackShape
<1>6. PICK b \in Block : b = block
  BY <1>4
<1>7. b.node = Append(fr, f) /\ b.kind = f.kind /\ b.since = clock /\ b.node = p
  BY <1>3, <1>4, <1>6
<1>8. open' = Append(open, b) /\ stack_frame' = Append(fr, f)
  BY <1>1, <1>3, <1>6
<1> HIDE DEF block, node
<1>9. PICK bnode : bnode = BegunNode(node, f.kind)
  OBVIOUS
<1>10. bnode \in Node /\ bnode.total_runtime = node.total_runtime /\ bnode.start_time = clock
  BY <1>0, <1>5, <1>9, BegunNodeIs
<1> HIDE DEF p
<1>11. /\ DOMAIN tree' = DOMAIN tree \cup {p}
       /\ tree' \in [DOMAIN tree' -> Node]
       /\ tree'[p] = bnode
       /\ \A q \in DOMAIN tree : q # p => tree'[q] = tree[q]
  BY <1>0, <1>1, <1>9, <1>10 DEF StackShape, Assign
<1>12. Kinded(open')
  BY <1>0, <1>7, <1>8, KindedBegin
<1>13. StackShape'
  BY <1>0, <1>1, <1>2, <1>11, <1>12 DEF StackShape
<1>14. CASE Derailed(open, stack_frame)
  <2>1. Derailed(open', stack_frame')
    BY <1>0, <1>3, <1>7, <1>8, <1>14, DerailedBegin
  <2> QED BY <1>13, <2>1 DEF StackUp
<1>15. CASE Matched
  <2>1. InStep(open', stack_frame')
    BY <1>0, <1>3, <1>7, <1>8, <1>15, InStepBegin DEF Matched
  <2>2. TimesTrue'
    <3>0. TimesTrue
      BY <1>15 DEF Matched
    <3>1. DOMAIN elapsed' \subseteq DOMAIN tree'
      BY <1>1, <1>11, <3>0 DEF TimesTrue
    <3>2. ASSUME NEW j \in DOMAIN open'
          PROVE  open'[j].node \in DOMAIN tree' /\ tree'[open'[j].node].start_time = open'[j].since
      <4>1. CASE j \in DOMAIN open
        <5>1. open'[j] = open[j]
          BY <1>0, <1>8, <4>1 DEF Kinded
        <5>2. Len(open[j].node) = j /\ j <= Len(stack_frame)
          BY <1>0, <1>15, <4>1, InnermostBlock DEF Matched
        <5>3. open[j].node # p
          BY <1>2, <5>2
        <5>4. open[j].node \in DOMAIN tree /\ tree[open[j].node].start_time = open[j].since
          BY <3>0, <4>1 DEF TimesTrue
        <5> QED BY <1>11, <5>1, <5>3, <5>4
      <4>2. CASE j \notin DOMAIN open
        <5>1. open'[j] = b
          BY <1>0, <1>8, <4>2 DEF Kinded
        <5> QED BY <1>7, <1>10, <1>11, <5>1
      <4> QED BY <4>1, <4>2
    <3>3. ASSUME NEW q \in DOMAIN tree' \ {Root} PROVE tree'[q].total_runtime = Elapsed(q)'
      <4>0. Elapsed(q)' = Elapsed(q)
        BY <1>1 DEF Elapsed
      <4>1. CASE q \in DOMAIN tree
        <5>1. tree'[q].total_runtime = tree[q].total_runtime
          BY <1>10, <1>11, <4>1 DEF node
        <5> QED BY <3>0, <4>0, <4>1, <5>1 DEF TimesTrue
      <4>2. CASE q \notin DOMAIN tree
        <5>1. q = p /\ q \notin DOMAIN elapsed
          BY <1>11, <3>0, <4>2 DEF TimesTrue
        <5>2. Elapsed(q) = 0
          BY <5>1 DEF Elapsed
        <5> QED BY <1>5, <1>10, <1>11, <4>0, <4>2, <5>1, <5>2
      <4> QED BY <4>1, <4>2
    <3> QED BY <3>1, <3>2, <3>3 DEF TimesTrue
  <2>3. FramesTrue'
    BY <1>15, FramesSame DEF Matched
  <2>4. stack_frame' \in Seq(Frames)
    BY <1>1, <1>2
  <2> QED BY <1>13, <2>1, <2>2, <2>3, <2>4 DEF StackUp, Matched
<1> QED BY <1>14, <1>15 DEF StackUp

\* What end_frame does to the tree and to the current frame.
LEMMA FrameEnds ==
  ASSUME StackShape, stack_frame # NullFrame, end_frame
  PROVE  /\ clock' = clock
         /\ DOMAIN tree' = DOMAIN tree
         /\ tree' \in [DOMAIN tree -> Node]
         /\ \A q \in DOMAIN tree : q # stack_frame => tree'[q] = tree[q]
         /\ \A q \in DOMAIN tree : tree'[q].start_time = tree[q].start_time
         /\ stack_frame \in DOMAIN tree =>
              tree'[stack_frame].total_runtime
              = tree[stack_frame].total_runtime + (clock - tree[stack_frame].start_time)
         /\ stack_frame \in Seq(Frames)
         /\ stack_frame = Root => stack_frame' = NullFrame
         /\ stack_frame # Root => stack_frame' = Front(stack_frame)
         /\ stack_frame' \in Seq(Frames) \cup {NullFrame}
<1>1. clock \in Int /\ stack_frame \in Seq(Frames) /\ tree \in [DOMAIN tree -> Node]
  BY DEF StackShape
<1>2. /\ tree' = [tree EXCEPT ![stack_frame] = EndedNode(@)]
      /\ stack_frame' = IF stack_frame = Root THEN NullFrame ELSE Front(stack_frame)
      /\ clock' = clock
  BY DEF end_frame
<1>3. \A q \in DOMAIN tree :
        /\ EndedNode(tree[q]) \in Node
        /\ EndedNode(tree[q]).total_runtime
           = tree[q].total_runtime + (clock - tree[q].start_time)
        /\ EndedNode(tree[q]).start_time = tree[q].start_time
  BY <1>1, EndedNodeIs
<1>4. stack_frame # Root => Front(stack_frame) \in Seq(Frames)
  BY <1>1, FrontTyped DEF Root
<1> QED BY <1>1, <1>2, <1>3, <1>4

\* A pop the host had nothing open for.
LEMMA StackPop ==
  ASSUME StackUp, UNCHANGED memory, stack_frame # NullFrame, end_frame, UNCHANGED host,
         \A i \in DOMAIN open : open[i].kind \in KernelKinds
  PROVE  StackUp'
<1>0. StackShape /\ stack_frame \in Seq(Frames) /\ Kinded(open)
  BY DEF StackUp, StackShape
<1>1. open' = open /\ elapsed' = elapsed
  BY DEF host
<1>2. StackShape'
  BY <1>0, <1>1, FrameEnds DEF StackShape
<1>3. CASE stack_frame = Root
  BY <1>0, <1>2, <1>3, FrameEnds DEF StackUp
<1>4. CASE stack_frame # Root
  <2>1. stack_frame' = Front(stack_frame) /\ stack_frame # << >>
    BY <1>0, <1>4, FrameEnds DEF Root
  <2>2. CASE Derailed(open, stack_frame)
    BY <1>0, <1>1, <1>2, <2>1, <2>2, DerailedEnd DEF StackUp
  <2>3. CASE Matched
    <3>1. InStep(open, stack_frame)
      BY <2>3 DEF Matched
    <3>2. Len(stack_frame) \in DOMAIN open
      BY <1>0, <2>1, <3>1, InStepEnd
    <3>3. Derailed(open, Front(stack_frame))
      BY <1>0, <2>1, <3>1, <3>2, LeftBehind
    <3> QED BY <1>1, <1>2, <2>1, <3>3 DEF StackUp
  <2> QED BY <2>2, <2>3 DEF StackUp
<1> QED BY <1>3, <1>4

\* The host ends what it has open and the tool accepts it.
LEMMA StackEnd ==
  ASSUME StackUp, UNCHANGED memory, stack_frame # NullFrame, end_frame,
         NEW i \in 1 .. Len(open), HostEnds(i),
         open[i].kind \in KernelKinds => open[i].node = stack_frame,
         open[i].kind \notin KernelKinds =>
           \A j \in DOMAIN open : j > i => open[j].kind \in KernelKinds
  PROVE  StackUp'
<1>0. StackShape /\ stack_frame \in Seq(Frames) /\ Kinded(open)
  BY DEF StackUp, StackShape
<1>1. /\ open' = RemoveAt(open, i)
      /\ elapsed' = Assign(elapsed, open[i].node,
                           Elapsed(open[i].node) + (clock - open[i].since))
  BY DEF HostEnds
<1>2. Kinded(open')
  BY <1>0, <1>1, KindedRemove
<1>3. StackShape'
  BY <1>0, <1>2, FrameEnds DEF StackShape
<1>4. CASE stack_frame = Root
  BY <1>0, <1>3, <1>4, FrameEnds DEF StackUp
<1>5. CASE stack_frame # Root
  <2>1. stack_frame' = Front(stack_frame) /\ stack_frame # << >>
    BY <1>0, <1>5, FrameEnds DEF Root
  <2>2. CASE Derailed(open, stack_frame)
    <3>1. Derailed(RemoveAt(open, i), Front(stack_frame))
      BY <1>0, <2>1, <2>2, DerailedRemove
    <3> QED BY <1>1, <1>3, <2>1, <3>1 DEF StackUp
  <2>3. CASE Matched
    <3>0. InStep(open, stack_frame) /\ TimesTrue
      BY <2>3 DEF Matched
    <3>1. PICK n : n = Len(stack_frame)
      OBVIOUS
    <3>2. /\ DOMAIN open = 1 .. n /\ Len(open) = n /\ n \in Nat /\ i \in 1 .. n
          /\ \A j \in 1 .. n : open[j].node = stack_frame <=> j = n
      BY <1>0, <3>0, <3>1, InnermostBlock
    <3>3. CASE i # n
      <4>1. open[n].kind \in KernelKinds
        BY <3>2, <3>3
      <4>2. i \in 1 .. n - 1
        BY <3>2, <3>3
      <4>3. Derailed(RemoveAt(open, i), Front(stack_frame))
        BY <1>0, <2>1, <3>0, <3>1, <4>1, <4>2, LeftBehind
      <4> QED BY <1>1, <1>3, <2>1, <4>3 DEF StackUp
    <3>4. CASE i = n
      <4>1. /\ InStep(open', stack_frame')
            /\ \A k \in DOMAIN open' : k \in DOMAIN open /\ open'[k] = open[k]
        BY <1>0, <1>1, <2>1, <3>0, <3>1, <3>4, InStepEnd
      <4>2. DOMAIN open' = 1 .. n - 1
        <5>1. Len(open') = Len(stack_frame') /\ Len(stack_frame') = n - 1
          BY <1>0, <2>1, <3>1, <4>1, FrontTyped DEF InStep
        <5> QED BY <1>2, <5>1 DEF Kinded
      <4>3. open[i].node = stack_frame
        BY <3>2, <3>4
      <4>4. stack_frame \in DOMAIN tree /\ tree[stack_frame].start_time = open[i].since
        BY <3>0, <3>2, <4>3 DEF TimesTrue
      <4>5. TimesTrue'
        <5>1. DOMAIN elapsed' \subseteq DOMAIN tree'
          BY <1>0, <1>1, <3>0, <4>3, <4>4, FrameEnds DEF Assign, TimesTrue
        <5>2. ASSUME NEW k \in DOMAIN open'
              PROVE  open'[k].node \in DOMAIN tree' /\ tree'[open'[k].node].start_time = open'[k].since
          <6>1. open'[k] = open[k] /\ k \in DOMAIN open
            BY <4>1
          <6>2. open[k].node \in DOMAIN tree /\ tree[open[k].node].start_time = open[k].since
            BY <3>0, <6>1 DEF TimesTrue
          <6> QED BY <1>0, <6>1, <6>2, FrameEnds
        <5>3. ASSUME NEW q \in DOMAIN tree' \ {Root} PROVE tree'[q].total_runtime = Elapsed(q)'
          <6>0. q \in DOMAIN tree /\ tree[q].total_runtime = Elapsed(q)
            BY <1>0, <3>0, <5>3, FrameEnds DEF TimesTrue
          <6>1. CASE q = stack_frame
            <7>1. Elapsed(q)' = Elapsed(q) + (clock - open[i].since)
              BY <1>1, <4>3, <6>1 DEF Elapsed, Assign
            <7>2. tree'[q].total_runtime = tree[q].total_runtime + (clock - tree[q].start_time)
              BY <1>0, <4>4, <6>1, FrameEnds
            <7> QED BY <4>4, <6>0, <6>1, <7>1, <7>2
          <6>2. CASE q # stack_frame
            <7>1. Elapsed(q)' = Elapsed(q)
              BY <1>1, <4>3, <6>2 DEF Elapsed, Assign
            <7>2. tree'[q] = tree[q]
              BY <1>0, <6>0, <6>2, FrameEnds
            <7> QED BY <6>0, <7>1, <7>2
          <6> QED BY <6>1, <6>2
        <5> QED BY <5>1, <5>2, <5>3 DEF TimesTrue
      <4>6. FramesTrue'
        BY <2>3, FramesSame DEF Matched
      <4>7. stack_frame' \in Seq(Frames)
        BY <1>0, <2>1, FrontTyped
      <4> QED BY <1>3, <4>1, <4>5, <4>6, <4>7 DEF StackUp, Matched
    <3> QED BY <3>3, <3>4
  <2> QED BY <2>2, <2>3 DEF StackUp
<1> QED BY <1>4, <1>5

\* ~State changes the times in Kokkos and the numbers of calls, not the times.
LEMMA AdoptKeepsTimes ==
  ASSUME NEW t, t \in [DOMAIN t -> Node]
  PROVE  /\ DOMAIN adopt(t) = DOMAIN t
         /\ \A p \in DOMAIN t : adopt(t)[p].total_runtime = t[p].total_runtime
<1> DEFINE K == CHOOSE kokkos : kokkos = [p \in DOMAIN t |->
                  (IF KindOf(p) # "region" THEN t[p].total_runtime ELSE 0)
                  + SumOver(kokkos, ChildrenOf(DOMAIN t, p))]
           C == CHOOSE calls : calls = [p \in DOMAIN t |->
                  t[p].total_number_of_kernel_calls
                  + SumOver(calls, ChildrenOf(DOMAIN t, p))]
<1>2. adopt(t) = [p \in DOMAIN t |->
                    [t[p] EXCEPT !.total_kokkos_runtime = K[p],
                                 !.total_number_of_kernel_calls = C[p]]]
  BY Zenon DEF adopt
<1> HIDE DEF K, C
<1>3. ASSUME NEW p \in DOMAIN t PROVE adopt(t)[p].total_runtime = t[p].total_runtime
  <2> DEFINE kokkos == [t[p] EXCEPT !.total_kokkos_runtime = K[p]]
             both   == [kokkos EXCEPT !.total_number_of_kernel_calls = C[p]]
  <2>1. adopt(t)[p] = both
    BY <1>2
  <2>2. DOMAIN kokkos = DOMAIN t[p] /\ kokkos.total_runtime = t[p].total_runtime
        /\ "total_runtime" \in DOMAIN t[p]
    BY DEF Node
  <2> HIDE DEF kokkos
  <2>3. both.total_runtime = kokkos.total_runtime
    BY <2>2
  <2> QED BY <2>1, <2>2, <2>3
<1> QED BY <1>2, <1>3

\* A tool that stopped reports nothing.
LEMMA StackStopped == phase' \in {"aborted", "crashed"} /\ AccountInv' => StackInv'
BY DEF StackInv, ReportIsTrue, SnapshotFramesTrue, Finished

\* A tool that runs has reported nothing yet.
LEMMA StackRuns == phase' = "up" /\ StackUp' /\ AccountInv' => StackInv'
BY DEF StackInv, ReportIsTrue, SnapshotFramesTrue, Finished

\* The invariant reads no other variables.
LEMMA StackSame == StackInv /\ UNCHANGED <<vars, memory>> /\ AccountInv' => StackInv'
<1> SUFFICES ASSUME StackInv, UNCHANGED vars, UNCHANGED memory, AccountInv' PROVE StackInv'
  OBVIOUS
<1>1. /\ phase' = phase /\ clock' = clock /\ tree' = tree /\ stack_frame' = stack_frame
      /\ open' = open /\ elapsed' = elapsed
  BY DEF vars
<1>2. FramesTrue => FramesTrue'
  BY FramesSame
<1>3. TimesTrue => TimesTrue'
  BY <1>1 DEF TimesTrue, Elapsed
<1>4. StackShape => StackShape'
  BY <1>1 DEF StackShape
<1>5. StackLoaded => StackLoaded'
  BY <1>1, <1>2 DEF StackLoaded
<1>6. StackUp => StackUp'
  BY <1>1, <1>2, <1>3, <1>4 DEF StackUp, Matched
<1>7. ReportIsTrue => ReportIsTrue'
  BY <1>1 DEF ReportIsTrue, Finished, Elapsed
<1>8. SnapshotFramesTrue => SnapshotFramesTrue'
  BY <1>1 DEF SnapshotFramesTrue, Finished, memory
<1> QED BY <1>1, <1>5, <1>6, <1>7, <1>8 DEF StackInv

\* The memory steps leave the frames alone.
LEMMA StackMemory ==
  ASSUME StackInv, UNCHANGED vars, FramesTrue => FramesTrue', AccountInv',
         phase \in {"loaded", "up"}
  PROVE  StackInv'
<1>1. /\ phase' = phase /\ clock' = clock /\ tree' = tree /\ stack_frame' = stack_frame
      /\ open' = open /\ elapsed' = elapsed
  BY DEF vars
<1>3. TimesTrue => TimesTrue'
  BY <1>1 DEF TimesTrue, Elapsed
<1>4. StackShape => StackShape'
  BY <1>1 DEF StackShape
<1>5. StackLoaded => StackLoaded'
  BY <1>1 DEF StackLoaded
<1>6. StackUp => StackUp'
  BY <1>1, <1>3, <1>4 DEF StackUp, Matched
<1> QED BY <1>1, <1>5, <1>6 DEF StackInv, ReportIsTrue, SnapshotFramesTrue, Finished

\* In step, the frame the tool notes is the one the host is in.
LEMMA NotedFrame == StackShape /\ Matched => FrameNoted = HostFrame
<1> SUFFICES ASSUME StackShape, Matched PROVE stack_frame = HostFrame
  BY DEF FrameNoted
<1>1. stack_frame \in Seq(Frames) /\ InStep(open, stack_frame) /\ Kinded(open)
  BY DEF Matched, StackShape
<1>2. /\ DOMAIN open = 1 .. Len(stack_frame) /\ Len(open) = Len(stack_frame)
      /\ \A i \in DOMAIN open : open[i].node = stack_frame <=> i = Len(stack_frame)
  BY <1>1, InnermostBlock
<1>3. CASE stack_frame = << >>
  <2>1. open = << >>
    BY <1>1, <1>2, <1>3 DEF Kinded
  <2> QED BY <1>3, <2>1 DEF HostFrame, Root
<1>4. CASE stack_frame # << >>
  <2>1. Len(open) \in DOMAIN open /\ open # << >>
    BY <1>1, <1>2, <1>4
  <2>2. Last(open).node = stack_frame
    BY <1>2, <2>1 DEF Last
  <2> QED BY <2>1, <2>2 DEF HostFrame
<1> QED BY <1>3, <1>4

\* An allocation keeps the invariant.
LEMMA StackAllocates ==
  ASSUME StackInv, AccountInv', NEW handle \in Handles, NEW ptr, NEW size,
         Allocate(handle, ptr, size)
  PROVE  StackInv'
<1>1. /\ phase = "up" /\ handle \in DOMAIN SpaceOf /\ UNCHANGED vars
      /\ AllocateData(handle, ptr, size, FrameNoted, HostFrame)
  BY Zenon DEF Allocate
<1>2. StackUp /\ OverSpaces
  BY <1>1 DEF StackInv, AccountInv
<1>3. /\ phase' = phase /\ clock' = clock /\ tree' = tree /\ stack_frame' = stack_frame
      /\ open' = open /\ elapsed' = elapsed
  BY <1>1 DEF vars
<1>4. StackShape'
  BY <1>2, <1>3 DEF StackShape, StackUp
<1>5. CASE stack_frame = NullFrame \/ Derailed(open, stack_frame)
  <2>1. StackUp'
    BY <1>3, <1>4, <1>5 DEF StackUp
  <2> QED BY <1>1, <1>3, <2>1, StackRuns
<1>6. CASE Matched
  <2>1. PICK frame : frame = FrameNoted /\ frame = HostFrame
    BY <1>2, <1>6, NotedFrame DEF StackUp
  <2>2. AllocateData(handle, ptr, size, frame, frame)
    BY <1>1, <2>1
  <2>3. FramesTrue'
    BY <1>1, <1>2, <1>6, <2>2, FramesAllocated DEF Matched
  <2> QED BY <1>1, <2>3, StackMemory
<1> QED BY <1>2, <1>5, <1>6 DEF StackUp

\* So does a deallocation.
LEMMA StackFrees ==
  ASSUME StackInv, AccountInv', NEW ptr \in DOMAIN held, Deallocate(ptr)
  PROVE  StackInv'
<1>1. /\ phase = "up" /\ held[ptr].handle \in DOMAIN SpaceOf
      /\ (Crash \/ (DeallocateData(ptr) /\ UNCHANGED vars))
  BY Zenon DEF Deallocate
<1>2. CASE Crash
  <2>1. phase' \in {"aborted", "crashed"}
    BY <1>2 DEF Crash
  <2> QED BY <2>1, StackStopped
<1>3. CASE DeallocateData(ptr) /\ UNCHANGED vars
  <2>1. FramesTrue => FramesTrue'
    BY <1>1, <1>3, FramesFreed DEF StackInv, AccountInv
  <2> QED BY <1>1, <1>3, <2>1, StackMemory
<1> QED BY <1>1, <1>2, <1>3

\* Initialisation starts at the root, as the host does.
LEMMA StackInits ==
  ASSUME StackInv, AccountInv', InitLibrary, UNCHANGED memory
  PROVE  StackInv'
<1>1. StackLoaded
  BY DEF InitLibrary, StackInv
<1>2. PICK root : root = BegunNode(NewNode, "region")
  OBVIOUS
<1>3. /\ phase' = "up" /\ tree' = Assign(tree, Root, root) /\ stack_frame' = Root
      /\ clock' = 0 /\ open' = << >> /\ elapsed' = elapsed
      /\ DOMAIN tree = {} /\ DOMAIN elapsed = {}
  BY <1>1, <1>2 DEF InitLibrary, StackLoaded, host, EmptyMap
<1>4. root \in Node
  BY <1>1, <1>2, NewNodeIs, BegunNodeIs DEF StackLoaded
<1>5. tree' = [q \in {Root} |-> root]
  BY <1>3 DEF Assign
<1>6. /\ Root \in Seq(Frames) /\ Len(Root) = 0 /\ DOMAIN Root = {}
      /\ << >> \in Seq(Block) /\ Len(<< >>) = 0 /\ DOMAIN << >> = {}
  BY DEF Root
<1>7. StackShape'
  BY <1>3, <1>4, <1>5, <1>6 DEF StackShape, Kinded
<1>8. InStep(open', stack_frame')
  BY <1>3, <1>6 DEF InStep, Root
<1>9. TimesTrue'
  BY <1>3, <1>5, <1>6 DEF TimesTrue
<1>10. FramesTrue'
  BY <1>1, FramesSame DEF StackLoaded
<1>11. StackUp'
  BY <1>3, <1>6, <1>7, <1>8, <1>9, <1>10 DEF StackUp, Matched
<1> QED BY <1>3, <1>11, StackRuns

\* A run that comes to a report is in step when it does.
LEMMA StackFinishes ==
  ASSUME StackInv, AccountInv', NEW exportJson \in BOOLEAN, FinalizeLibrary(exportJson),
         UNCHANGED memory
  PROVE  StackInv'
<1>1. StackUp /\ \A i \in DOMAIN open : open[i].kind = "region"
  BY DEF FinalizeLibrary, StackInv
<1>2. CASE stack_frame # Root
  <2>1. Crash \/ Abort
    BY <1>2 DEF FinalizeLibrary
  <2>2. phase' \in {"aborted", "crashed"}
    BY <2>1 DEF Crash, Abort
  <2> QED BY <2>2, StackStopped
<1>3. CASE stack_frame = Root
  <2>1. ~ Derailed(open, stack_frame)
    BY <1>1 DEF Derailed, KernelKinds
  <2>2. stack_frame # NullFrame
    <3>1. << >> \in Seq(Frames)
      OBVIOUS
    <3> QED BY <1>3, <3>1, SpaceTimeStackAssumption DEF Root
  <2>3. Matched /\ StackShape
    BY <1>1, <2>1, <2>2 DEF StackUp
  <2> DEFINE ended == [tree EXCEPT ![Root] = EndedNode(@)]
  <2>4. /\ phase' = IF exportJson THEN "exported" ELSE "reported"
        /\ tree' = adopt(ended)
        /\ elapsed' = elapsed
    BY <1>3, <2>2 DEF FinalizeLibrary, host
  <2>5. ended \in [DOMAIN tree -> Node] /\ DOMAIN ended = DOMAIN tree
        /\ \A p \in DOMAIN tree \ {Root} : ended[p] = tree[p]
    <3>1. clock \in Int /\ Root \in DOMAIN tree /\ tree \in [DOMAIN tree -> Node]
      BY <2>3 DEF StackShape
    <3>2. EndedNode(tree[Root]) \in Node
      BY <3>1, EndedNodeIs
    <3> QED BY <3>1, <3>2
  <2> HIDE DEF ended
  <2>6. DOMAIN adopt(ended) = DOMAIN ended
        /\ \A p \in DOMAIN ended : adopt(ended)[p].total_runtime = ended[p].total_runtime
    BY <2>5, AdoptKeepsTimes
  <2>7. ReportIsTrue'
    <3>1. ASSUME NEW p \in DOMAIN tree' \ {Root} PROVE tree'[p].total_runtime = Elapsed(p)'
      <4>1. p \in DOMAIN tree \ {Root} /\ tree'[p].total_runtime = tree[p].total_runtime
        BY <2>4, <2>5, <2>6
      <4>2. Elapsed(p)' = Elapsed(p)
        BY <2>4 DEF Elapsed
      <4> QED BY <2>3, <4>1, <4>2 DEF Matched, TimesTrue
    <3> QED BY <3>1 DEF ReportIsTrue
  <2>8. SnapshotFramesTrue'
    BY <2>3 DEF Matched, FramesTrue, memory, SnapshotFramesTrue
  <2> QED BY <2>4, <2>7, <2>8 DEF StackInv
<1> QED BY <1>2, <1>3

\* Every step of the time half keeps the invariant.
LEMMA StackFrameStep ==
  ASSUME StackInv, AccountInv', FrameStep
  PROVE  StackInv'
<1>0. UNCHANGED memory
  BY Zenon DEF FrameStep
<1>1. CASE InitLibrary
  BY <1>0, <1>1, StackInits
<1>2. CASE Tick
  <2>1. phase = "up" /\ phase' = "up"
    BY <1>2 DEF Tick
  <2>2. StackUp'
    BY <1>0, <1>2, <2>1, StackTick DEF StackInv
  <2> QED BY <2>1, <2>2, StackRuns
<1>3. ASSUME NEW f \in Frames, Begin(f) PROVE StackInv'
  <2>1. CASE stack_frame = NullFrame
    BY <1>3, <2>1, StackStopped DEF Begin, Crash
  <2>2. CASE stack_frame # NullFrame
    <3>1. phase = "up" /\ HostBegins(f) /\ begin_frame(f)
      BY <1>3, <2>2 DEF Begin
    <3>2. phase' = "up"
      BY <3>1 DEF begin_frame
    <3>3. StackUp'
      BY <1>0, <2>2, <3>1, StackBegin DEF StackInv
    <3> QED BY <3>2, <3>3, StackRuns
  <2> QED BY <2>1, <2>2
<1>4. ASSUME NEW i \in DOMAIN open, EndKernel(i) PROVE StackInv'
  <2>1. phase = "up" /\ open[i].kind \in KernelKinds /\ HostEnds(i)
    BY <1>4 DEF EndKernel
  <2>2. StackUp /\ i \in 1 .. Len(open)
    BY <2>1 DEF StackInv, StackUp, StackShape, Kinded
  <2>3. CASE stack_frame = NullFrame \/ ~ ExpectedEnd(i)
    <3>1. phase' \in {"aborted", "crashed"}
      BY <1>4, <2>3 DEF EndKernel, Crash, Abort
    <3> QED BY <3>1, StackStopped
  <2>4. CASE stack_frame # NullFrame /\ ExpectedEnd(i)
    <3>1. end_frame /\ open[i].node = stack_frame
      BY <1>4, <2>4 DEF EndKernel, ExpectedEnd
    <3>2. phase' = "up"
      BY <2>1, <3>1 DEF end_frame
    <3>3. StackUp'
      BY <1>0, <2>1, <2>2, <2>4, <3>1, StackEnd
    <3> QED BY <3>2, <3>3, StackRuns
  <2> QED BY <2>3, <2>4
<1>5. CASE EndUnnumbered
  <2>1. phase = "up" /\ LastUnnumbered # 0 /\ HostEnds(LastUnnumbered)
    BY <1>5 DEF EndUnnumbered
  <2>2. StackUp /\ Kinded(open)
    BY <2>1 DEF StackInv, StackUp, StackShape
  <2>3. CASE stack_frame = NullFrame
    BY <1>5, <2>3, StackStopped DEF EndUnnumbered, Crash
  <2>4. CASE stack_frame # NullFrame
    <3>1. end_frame
      BY <1>5, <2>4 DEF EndUnnumbered
    <3>2. phase' = "up"
      BY <2>1, <3>1 DEF end_frame
    <3>3. /\ LastUnnumbered \in 1 .. Len(open) /\ open[LastUnnumbered].kind \notin KernelKinds
          /\ \A j \in DOMAIN open : j > LastUnnumbered => open[j].kind \in KernelKinds
      BY <2>1, <2>2, LastUnnumberedIs
    <3>4. PICK i \in 1 .. Len(open) : i = LastUnnumbered
      BY <3>3
    <3>5. StackUp'
      BY <1>0, <2>1, <2>2, <2>4, <3>1, <3>3, <3>4, StackEnd
    <3> QED BY <3>2, <3>5, StackRuns
  <2> QED BY <2>3, <2>4
<1>6. CASE PopUnmatched
  <2>1. phase = "up" /\ LastUnnumbered = 0 /\ UNCHANGED host
    BY <1>6 DEF PopUnmatched
  <2>2. StackUp /\ Kinded(open)
    BY <2>1 DEF StackInv, StackUp, StackShape
  <2>3. CASE stack_frame = NullFrame
    BY <1>6, <2>3, StackStopped DEF PopUnmatched, Crash
  <2>4. CASE stack_frame # NullFrame
    <3>1. end_frame
      BY <1>6, <2>4 DEF PopUnmatched
    <3>2. phase' = "up"
      BY <2>1, <3>1 DEF end_frame
    <3>3. \A i \in DOMAIN open : open[i].kind \in KernelKinds
      BY <2>1, <2>2, LastUnnumberedIs
    <3>4. StackUp'
      BY <1>0, <2>1, <2>2, <2>4, <3>1, <3>3, StackPop
    <3> QED BY <3>2, <3>4, StackRuns
  <2> QED BY <2>3, <2>4
<1>7. CASE BeginCopyUnknown
  BY <1>7, StackStopped DEF BeginCopyUnknown, Abort
<1>8. ASSUME NEW exportJson \in BOOLEAN, FinalizeLibrary(exportJson) PROVE StackInv'
  BY <1>0, <1>8, StackFinishes
<1> QED BY <1>1, <1>2, <1>3, <1>4, <1>5, <1>6, <1>7, <1>8, Zenon DEF FrameStep

\* Every step of the tool keeps the invariant.
LEMMA StackInvNext == StackInv /\ [NextTool]_toolVars => StackInv'
<1> SUFFICES ASSUME StackInv, [NextTool]_toolVars PROVE StackInv'
  OBVIOUS
<1>0. AccountInv'
  BY AccountInvNext DEF StackInv
<1>1. CASE FrameStep
  BY <1>0, <1>1, StackFrameStep
<1>2. CASE UNCHANGED toolVars \/ TerminatedTool
  <2>1. UNCHANGED <<vars, memory>>
    BY <1>2, Zenon DEF toolVars, TerminatedTool, Terminated
  <2> QED BY <1>0, <2>1, StackSame
<1>3. ASSUME NEW handle \in Handles, UnknownSpace(handle) PROVE StackInv'
  BY <1>0, <1>3, StackStopped DEF UnknownSpace, Abort
<1>4. ASSUME NEW handle \in Handles, NEW ptr \in Addresses, NEW size \in Sizes,
             AllocateBefore(handle, ptr, size)
      PROVE  StackInv'
  <2>1. phase = "loaded" /\ UNCHANGED vars /\ AllocateUnseen(handle, ptr, size, HostFrame)
    BY <1>4, Zenon DEF AllocateBefore
  <2>2. PICK within : within = HostFrame
    OBVIOUS
  <2>3. AllocateUnseen(handle, ptr, size, within)
    BY <2>1, <2>2
  <2>4. FramesTrue => FramesTrue'
    BY <2>3, FramesUnseen DEF StackInv, AccountInv
  <2> QED BY <1>0, <2>1, <2>4, StackMemory
<1>5. ASSUME NEW handle \in Handles, NEW ptr \in Addresses, NEW size \in Sizes,
             Allocate(handle, ptr, size)
      PROVE  StackInv'
  BY <1>0, <1>5, StackAllocates
<1>6. ASSUME NEW ptr \in DOMAIN held, Deallocate(ptr) PROVE StackInv'
  BY <1>0, <1>6, StackFrees
<1> QED BY <1>1, <1>2, <1>3, <1>4, <1>5, <1>6, Zenon DEF NextTool

\* The tool starts without frames.
LEMMA StackInvInit == InitTool => StackInv
<1> SUFFICES ASSUME InitTool PROVE StackInv
  OBVIOUS
<1>1. PICK F : F = HeldFrames(held)
  OBVIOUS
<1>2. OverSpaces /\ Accounts(held, F)
  BY InitAccount DEF InitTool
<1>3. hwm = peak
  BY DEF InitTool, InitMemory
<1> QED BY <1>1, <1>2, <1>3 DEF InitTool, Init, StackInv, AccountInv, StackLoaded, FramesTrue,
        ReportIsTrue, SnapshotFramesTrue, Finished

\* A report attributes to every frame the time the host spent in it: kernels that
\* overlap, regions popped under them and pops too many are all stopped before
\* (kp_space_time_stack.cpp:637-661, 749-777).
THEOREM ReportOfTime == ToolSpec => []ReportIsTrue
<1>1. StackInv => ReportIsTrue
  BY DEF StackInv
<1> QED BY <1>1, StackInvInit, StackInvNext, PTL DEF ToolSpec

\* The snapshot of a space at its peak is what the host held there when it held
\* most, each allocation with the frame the host made it in (lines 495-544).
THEOREM SnapshotOfPeak == ToolSpec => []SnapshotFramesTrue
<1>1. StackInv => SnapshotFramesTrue
  BY DEF StackInv
<1> QED BY <1>1, StackInvInit, StackInvNext, PTL DEF ToolSpec

-----------------------------------------------------------------------------
(* What every node of the tree has: calls, and time around its children    *)

\* No time and no count of a node is negative.
NatNode == [total_runtime : Nat, total_kokkos_runtime : Nat, number_of_calls : Nat,
            total_number_of_kernel_calls : Nat, start_time : Nat]

\* With a node a tree has its parent.
Closed(paths) == \A q \in paths \ {Root} : Front(q) \in paths

IsNodes(paths) == IsFiniteSet(paths) /\ paths \subseteq Seq(Frames) /\ Closed(paths)

CallsOf(t) == [p \in DOMAIN t |-> t[p].total_number_of_kernel_calls]

\* The time in a node so far, with the time since its begin if it is not over.
RanIn(t, frame, now) ==
  [p \in DOMAIN t |-> t[p].total_runtime + (IF Above(p, frame) THEN now - t[p].start_time ELSE 0)]

\* The children of a node have run no longer than the node.
Holds(ran) == \A p \in DOMAIN ran : SumOver(ran, ChildrenOf(DOMAIN ran, p)) <= ran[p]

\* The blocks are in nodes of the tree.
Opened(blocks, paths) ==
  blocks \in Seq(Block) /\ \A i \in DOMAIN blocks : blocks[i].node \in paths

\* The host's counters within the bounds of the model.
Counted == begun \in 0 .. MaxBegins /\ kernels \in 0 .. begun

\* The variables of the time half, in every phase.
TreeTyped ==
  /\ phase \in {"loaded", "up", "reported", "exported", "aborted", "crashed"}
  /\ clock \in 0 .. MaxClock
  /\ Counted
  /\ IsNodes(DOMAIN tree)
  /\ tree \in [DOMAIN tree -> NatNode]
  /\ \A p \in DOMAIN tree : tree[p].start_time <= clock
  /\ stack_frame \in DOMAIN tree \cup {NullFrame}
  /\ \A p \in DOMAIN inverted : inverted[p] \in Nat
  /\ Opened(open, DOMAIN tree)

\* What the nodes of a tool that runs add up to.
TreeAdds ==
  /\ Root \in DOMAIN tree
  /\ SumOver(CallsOf(tree), DOMAIN tree) = kernels
  /\ stack_frame # NullFrame => Holds(RanIn(tree, stack_frame, clock))

TreeInv ==
  /\ TreeTyped
  /\ phase = "loaded" => tree = EmptyMap /\ inverted = EmptyMap /\ kernels = 0 /\ open = << >>
  /\ phase = "up" => inverted = EmptyMap /\ TreeAdds
  /\ KernelCallsCounted
  /\ InversionConserves

\* What the host holds, addresses and sizes.
HoldsTyped(h) ==
  /\ IsFiniteSet(DOMAIN h)
  /\ \A a \in DOMAIN h : a \in Addresses /\ h[a].handle \in Handles /\ h[a].size \in Sizes

\* The sizes of what the host holds.
SizesOf(h) == [a \in DOMAIN h |-> h[a].size]

SeenIn(h, s) == {a \in DOMAIN h : h[a].seen /\ SpaceOf[h[a].handle] = s}

\* The variables of the memory half, and that the host holds the bytes it does.
MemoryTyped ==
  /\ made \in 0 .. MaxCalls
  /\ HoldsTyped(held)
  /\ \A s \in Spaces : bytes[s] = SumOver(SizesOf(held), SeenIn(held, s))
  /\ \A s \in Spaces : AllocationsOK(current[s]) /\ AllocationsOK(hwm[s])

-----------------------------------------------------------------------------
(* What a tree adds up to from its leaves to the root                      *)

\* The children of a node are those with the node as their parent.
LEMMA ChildrenAre ==
  ASSUME NEW D, D \subseteq Seq(Frames), NEW p \in Seq(Frames)
  PROVE  ChildrenOf(D, p) = {q \in D : q # Root /\ Front(q) = p}
<1>1. \A q \in D : (Len(q) = Len(p) + 1 /\ IsPrefix(p, q)) <=> (q # Root /\ Front(q) = p)
  BY ChildIs DEF Root
<1> QED BY <1>1 DEF ChildrenOf

\* No node is its own child, and a child is one frame longer.
LEMMA ChildIsLonger ==
  ASSUME NEW D, IsNodes(D), NEW p \in Seq(Frames)
  PROVE  /\ ChildrenOf(D, p) \subseteq D /\ IsFiniteSet(ChildrenOf(D, p))
         /\ \A q \in ChildrenOf(D, p) : Len(q) = Len(p) + 1
<1>1. ChildrenOf(D, p) \subseteq D /\ \A q \in ChildrenOf(D, p) : Len(q) = Len(p) + 1
  BY DEF ChildrenOf
<1> QED BY <1>1, FS_Subset DEF IsNodes

\* The nodes of a tree are nowhere deeper than some number of frames.
LEMMA DepthBounded ==
  ASSUME NEW D, IsNodes(D)
  PROVE  \E m \in Nat : \A p \in D : Len(p) \in Nat /\ Len(p) <= m
<1> DEFINE f == [p \in D |-> Len(p)]
           L == {f[p] : p \in D}
<1>1. \A p \in D : Len(p) \in Nat /\ f[p] = Len(p)
  BY DEF IsNodes
<1>2. IsFiniteSet(L)
  <2> HIDE DEF f
  <2> QED BY ValuesFinite DEF IsNodes
<1>3. CASE D = {}
  BY <1>3
<1>4. CASE D # {}
  <2>1. L # {} /\ L \subseteq Int
    <3> HIDE DEF f
    <3> QED BY <1>1, <1>4
  <2>2. Max(L) \in L /\ \A x \in L : x <= Max(L)
    <3> HIDE DEF L
    <3> QED BY <1>2, <2>1, MaxIs
  <2>3. Max(L) \in Nat /\ \A p \in D : Len(p) <= Max(L)
    BY <1>1, <2>2
  <2> QED BY <1>1, <2>3
<1> QED BY <1>3, <1>4

\* Over all nodes, what the children add up to is what all nodes but the root do.
LEMMA ChildrenAddUp ==
  ASSUME NEW D, IsNodes(D), Root \in D, NEW g, \A p \in D : g[p] \in Int,
         NEW h, \A p \in D : h[p] = SumOver(g, ChildrenOf(D, p))
  PROVE  SumOver(h, D) = SumOver(g, D \ {Root})
<1> DEFINE E == D \ {Root}
           key == [q \in E |-> Front(q)]
<1>1. IsFiniteSet(D) /\ IsFiniteSet(E) /\ \A q \in E : g[q] \in Int /\ key[q] \in D
  BY FS_Subset DEF IsNodes, Closed
<1>2. ASSUME NEW p \in D PROVE h[p] = SumOver(g, Keyed(E, key, {p}))
  <2>1. Keyed(E, key, {p}) = ChildrenOf(D, p)
    BY ChildrenAre DEF Keyed, IsNodes
  <2> QED BY <2>1
<1> HIDE DEF E, key
<1>3. SumsByKey(g, E, key, h, D)
  BY <1>1, <1>2 DEF SumsByKey
<1>4. SumOver(h, D) = SumOver(g, E)
  BY <1>3, SumByKey
<1> QED BY <1>4 DEF E

\* f gives every node its own value and what f gives its children.
BottomUp(f, D, own) == f = [p \in D |-> own[p] + SumOver(f, ChildrenOf(D, p))]

\* Such values exist: there are no children below the deepest nodes ...
LEMMA BottomUpExists ==
  ASSUME NEW D, IsNodes(D), NEW own
  PROVE  \E f : BottomUp(f, D, own)
<1>1. PICK m \in Nat : \A p \in D : Len(p) \in Nat /\ Len(p) <= m
  BY DepthBounded
<1> DEFINE Low(n) == {p \in D : Len(p) + n > m}
           Given(h, E) == h = [p \in E |-> own[p] + SumOver(h, ChildrenOf(D, p))]
           N == {n \in Nat : \E h : Given(h, Low(n))}
<1>2. 0 \in N
  <2> DEFINE h == [p \in Low(0) |-> 0]
  <2>1. Low(0) = {}
    BY <1>1
  <2>2. Given(h, Low(0))
    BY <2>1
  <2> QED BY <2>2
<1>3. ASSUME NEW n \in Nat, n \in N PROVE n + 1 \in N
  <2>1. PICK h : Given(h, Low(n))
    BY <1>3
  <2> DEFINE k == [p \in Low(n + 1) |-> own[p] + SumOver(h, ChildrenOf(D, p))]
  <2>2. \A p \in Low(n) : k[p] = h[p]
    <3>1. \A p \in Low(n) : p \in Low(n + 1)
      BY <1>1
    <3>2. \A p \in Low(n) : h[p] = own[p] + SumOver(h, ChildrenOf(D, p))
      <4> HIDE DEF Low
      <4> QED BY <2>1
    <3> HIDE DEF Low, Given
    <3> QED BY <3>1, <3>2
  <2>3. ASSUME NEW p \in Low(n + 1)
        PROVE  SumOver(k, ChildrenOf(D, p)) = SumOver(h, ChildrenOf(D, p))
    <3>0. p \in D /\ p \in Seq(Frames) /\ Len(p) + (n + 1) > m
      BY DEF IsNodes
    <3>1. /\ IsFiniteSet(ChildrenOf(D, p)) /\ ChildrenOf(D, p) \subseteq D
          /\ \A q \in ChildrenOf(D, p) : Len(q) = Len(p) + 1
      BY <3>0, ChildIsLonger
    <3>2. \A q \in ChildrenOf(D, p) : q \in Low(n)
      BY <1>1, <3>0, <3>1
    <3>3. \A q \in ChildrenOf(D, p) : k[q] = h[q]
      BY <2>2, <3>2
    <3> HIDE DEF k
    <3> QED BY <3>1, <3>3, SumAgree
  <2>4. k = [p \in Low(n + 1) |-> own[p] + SumOver(k, ChildrenOf(D, p))]
    <3>1. PICK j : j = k
      OBVIOUS
    <3>2. \A p \in Low(n + 1) :
            own[p] + SumOver(h, ChildrenOf(D, p)) = own[p] + SumOver(j, ChildrenOf(D, p))
      BY <2>3, <3>1
    <3>3. j = [p \in Low(n + 1) |-> own[p] + SumOver(h, ChildrenOf(D, p))]
      BY <3>1
    <3> HIDE DEF Low, k
    <3>4. j = [p \in Low(n + 1) |-> own[p] + SumOver(j, ChildrenOf(D, p))]
      BY <3>2, <3>3
    <3> QED BY <3>1, <3>4
  <2>5. Given(k, Low(n + 1))
    <3> HIDE DEF k, Low
    <3> QED BY <2>4
  <2> HIDE DEF k, Low, Given
  <2> QED BY <2>5
<1>4. m + 1 \in N
  <2> HIDE DEF N
  <2>1. Nat \subseteq N
    BY <1>2, <1>3, NatInduct
  <2> QED BY <2>1
<1>5. Low(m + 1) = D
  BY <1>1
<1>6. PICK f : Given(f, D)
  BY <1>4, <1>5
<1> QED BY <1>6 DEF BottomUp

\* ... and are naturals if the nodes' own values are ...
LEMMA BottomUpTyped ==
  ASSUME NEW D, IsNodes(D), NEW own, \A p \in D : own[p] \in Nat, NEW f, BottomUp(f, D, own)
  PROVE  /\ \A p \in D : f[p] \in Nat /\ f[p] = own[p] + SumOver(f, ChildrenOf(D, p))
         /\ DOMAIN f = D
<1>1. PICK m \in Nat : \A p \in D : Len(p) \in Nat /\ Len(p) <= m
  BY DepthBounded
<1>2. DOMAIN f = D /\ \A p \in D : f[p] = own[p] + SumOver(f, ChildrenOf(D, p))
  <2>1. f = [p \in D |-> own[p] + SumOver(f, ChildrenOf(D, p))]
    BY Zenon DEF BottomUp
  <2>2. PICK g : g = f
    OBVIOUS
  <2>3. f = [p \in D |-> own[p] + SumOver(g, ChildrenOf(D, p))]
    BY <2>1, <2>2
  <2>4. DOMAIN f = D /\ \A p \in D : f[p] = own[p] + SumOver(g, ChildrenOf(D, p))
    BY <2>3
  <2> QED BY <2>2, <2>4
<1> DEFINE N == {n \in Nat : \A p \in D : Len(p) + n > m => f[p] \in Nat}
<1>3. 0 \in N
  BY <1>1
<1>4. ASSUME NEW n \in Nat, n \in N PROVE n + 1 \in N
  <2> SUFFICES ASSUME NEW p \in D, Len(p) + (n + 1) > m PROVE f[p] \in Nat
    OBVIOUS
  <2>1. /\ IsFiniteSet(ChildrenOf(D, p)) /\ ChildrenOf(D, p) \subseteq D
        /\ \A q \in ChildrenOf(D, p) : Len(q) = Len(p) + 1
    BY ChildIsLonger DEF IsNodes
  <2>2. \A q \in ChildrenOf(D, p) : f[q] \in Nat
    BY <1>1, <1>4, <2>1
  <2>3. SumOver(f, ChildrenOf(D, p)) \in Nat
    BY <2>1, <2>2, SumNat
  <2> QED BY <1>2, <2>3
<1>5. m + 1 \in N
  <2>1. Nat \subseteq N
    <3> HIDE DEF N
    <3> QED BY <1>3, <1>4, NatInduct
  <2> QED BY <2>1
<1>6. ASSUME NEW p \in D PROVE f[p] \in Nat
  BY <1>1, <1>5
<1> QED BY <1>2, <1>6

\* ... and the root has the sum of all.
LEMMA BottomUpRoot ==
  ASSUME NEW D, IsNodes(D), Root \in D, NEW own, \A p \in D : own[p] \in Nat,
         NEW f, BottomUp(f, D, own)
  PROVE  f[Root] = SumOver(own, D)
<1> DEFINE h == [p \in D |-> SumOver(f, ChildrenOf(D, p))]
<1>1. \A p \in D : f[p] \in Nat /\ f[p] = own[p] + h[p]
  BY BottomUpTyped
<1>2. \A p \in D : h[p] \in Int
  <2> SUFFICES ASSUME NEW p \in D PROVE SumOver(f, ChildrenOf(D, p)) \in Int
    OBVIOUS
  <2>1. IsFiniteSet(ChildrenOf(D, p)) /\ ChildrenOf(D, p) \subseteq D
    BY ChildIsLonger DEF IsNodes
  <2>2. \A q \in ChildrenOf(D, p) : f[q] \in Int
    BY <1>1, <2>1
  <2> QED BY <2>1, <2>2, SumInt
<1>3. SumOver(h, D) = SumOver(f, D \ {Root})
  <2>1. \A p \in D : h[p] = SumOver(f, ChildrenOf(D, p)) /\ f[p] \in Int
    BY <1>1
  <2> HIDE DEF h
  <2> QED BY <2>1, ChildrenAddUp
<1> HIDE DEF h
<1>4. IsFiniteSet(D)
  BY DEF IsNodes
<1>5. SumOver(f, D) = SumOver(own, D) + SumOver(h, D)
  <2>1. \A p \in D : own[p] \in Int /\ h[p] \in Int /\ f[p] = own[p] + h[p]
    BY <1>1, <1>2
  <2> QED BY <1>4, <2>1, SumPlus
<1>6. SumOver(f, D) = f[Root] + SumOver(f, D \ {Root})
  BY <1>1, <1>4, SumWithout
<1>7. f[Root] \in Int /\ SumOver(own, D) \in Int /\ SumOver(h, D) \in Int
  BY <1>1, <1>2, <1>4, SumInt
<1> QED BY <1>3, <1>5, <1>6, <1>7

\* ~State leaves the times alone, and the root gets the kernel calls of all nodes.
LEMMA AdoptIs ==
  ASSUME NEW t, t \in [DOMAIN t -> NatNode], IsNodes(DOMAIN t), Root \in DOMAIN t
  PROVE  /\ adopt(t) \in [DOMAIN t -> NatNode]
         /\ \A p \in DOMAIN t : /\ adopt(t)[p].total_runtime = t[p].total_runtime
                                /\ adopt(t)[p].start_time = t[p].start_time
         /\ adopt(t)[Root].total_number_of_kernel_calls = SumOver(CallsOf(t), DOMAIN t)
<1> DEFINE D == DOMAIN t
           ownK == [p \in D |-> IF KindOf(p) # "region" THEN t[p].total_runtime ELSE 0]
           GivesK(f) == f = [p \in D |-> (IF KindOf(p) # "region" THEN t[p].total_runtime ELSE 0)
                                         + SumOver(f, ChildrenOf(D, p))]
           GivesC(f) == f = [p \in D |-> t[p].total_number_of_kernel_calls
                                         + SumOver(f, ChildrenOf(D, p))]
           K == CHOOSE f : GivesK(f)
           C == CHOOSE f : GivesC(f)
<1>1. adopt(t) = [p \in D |-> [t[p] EXCEPT !.total_kokkos_runtime = K[p],
                                           !.total_number_of_kernel_calls = C[p]]]
  BY Zenon DEF adopt
<1>2. \A f : GivesK(f) <=> BottomUp(f, D, ownK)
  BY DEF BottomUp
<1>3. \A f : GivesC(f) <=> BottomUp(f, D, CallsOf(t))
  BY DEF BottomUp, CallsOf
<1>4. (\A p \in D : ownK[p] \in Nat) /\ \A p \in D : CallsOf(t)[p] \in Nat
  BY DEF NatNode, CallsOf
<1> HIDE DEF ownK
<1>5. (\E f : BottomUp(f, D, ownK)) /\ \E f : BottomUp(f, D, CallsOf(t))
  BY BottomUpExists
<1>6. BottomUp(K, D, ownK)
  <2> HIDE DEF GivesK
  <2>1. \E f : GivesK(f)
    BY <1>2, <1>5, Zenon
  <2>2. GivesK(K)
    BY <2>1, Zenon
  <2> QED BY <1>2, <2>2, Zenon
<1>7. BottomUp(C, D, CallsOf(t))
  <2> HIDE DEF GivesC
  <2>1. \E f : GivesC(f)
    BY <1>3, <1>5, Zenon
  <2>2. GivesC(C)
    BY <2>1, Zenon
  <2> QED BY <1>3, <2>2, Zenon
<1> HIDE DEF K, C, GivesK, GivesC
<1>8. (\A p \in D : K[p] \in Nat) /\ \A p \in D : C[p] \in Nat
  BY <1>4, <1>6, <1>7, BottomUpTyped
<1>9. C[Root] = SumOver(CallsOf(t), D)
  BY <1>4, <1>7, BottomUpRoot
<1>10. \A p \in D : /\ adopt(t)[p] \in NatNode
                    /\ adopt(t)[p].total_runtime = t[p].total_runtime
                    /\ adopt(t)[p].start_time = t[p].start_time
                    /\ adopt(t)[p].total_number_of_kernel_calls = C[p]
  <2> SUFFICES ASSUME NEW p \in D
               PROVE  /\ adopt(t)[p] \in NatNode
                      /\ adopt(t)[p].total_runtime = t[p].total_runtime
                      /\ adopt(t)[p].start_time = t[p].start_time
                      /\ adopt(t)[p].total_number_of_kernel_calls = C[p]
    OBVIOUS
  <2>1. adopt(t)[p] = [t[p] EXCEPT !.total_kokkos_runtime = K[p],
                                   !.total_number_of_kernel_calls = C[p]]
    BY <1>1
  <2>2. t[p] \in NatNode /\ K[p] \in Nat /\ C[p] \in Nat
    BY <1>8
  <2> QED BY <2>1, <2>2 DEF NatNode
<1>11. DOMAIN adopt(t) = D /\ adopt(t) = [p \in D |-> adopt(t)[p]]
  BY <1>1
<1> QED BY <1>9, <1>10, <1>11

\* The time in a node and in none of its children is a natural, and need not be
\* clipped if the children have run no longer than the node.
LEMMA SelfTimeIs ==
  ASSUME NEW t, IsNodes(DOMAIN t), \A p \in DOMAIN t : t[p] \in Nat, NEW p \in DOMAIN t
  PROVE  /\ self_time(t, p) \in Nat
         /\ SumOver(t, ChildrenOf(DOMAIN t, p)) \in Nat
         /\ SumOver(t, ChildrenOf(DOMAIN t, p)) <= t[p] =>
              t[p] = self_time(t, p) + SumOver(t, ChildrenOf(DOMAIN t, p))
<1> DEFINE c == SumOver(t, ChildrenOf(DOMAIN t, p))
           x == t[p] - c
<1>1. IsFiniteSet(ChildrenOf(DOMAIN t, p)) /\ ChildrenOf(DOMAIN t, p) \subseteq DOMAIN t
  BY ChildIsLonger DEF IsNodes
<1>2. c \in Nat
  BY <1>1, SumNat
<1> HIDE DEF c
<1>3. x \in Int /\ t[p] \in Nat
  BY <1>2
<1>4. self_time(t, p) = Max({0, x})
  BY Zenon DEF self_time, c
<1> HIDE DEF x
<1>5. Max({0, x}) \in {0, x} /\ \A y \in {0, x} : y <= Max({0, x})
  <2>1. IsFiniteSet({0} \cup {x})
    BY FS_Singleton, FS_AddElement
  <2>2. {0} \cup {x} = {0, x} /\ {0, x} \subseteq Int /\ {0, x} # {}
    BY <1>3
  <2> QED BY <2>1, <2>2, MaxIs
<1>6. self_time(t, p) \in Nat
  BY <1>3, <1>4, <1>5
<1>7. c <= t[p] => t[p] = self_time(t, p) + c
  BY <1>2, <1>3, <1>4, <1>5 DEF x
<1> QED BY <1>2, <1>6, <1>7 DEF c

\* The way up from a node has at least the root's own frame.
LEMMA ChainIs ==
  ASSUME NEW p \in Seq(Frames)
  PROVE  /\ UpwardChain(p) \in Seq(Frames \cup {RootFrame})
         /\ Len(UpwardChain(p)) \in Nat /\ Len(UpwardChain(p)) > 0
<1> DEFINE F == Frames \cup {RootFrame}
<1>1. Len(p) \in Nat /\ \A k \in 1 .. Len(p) : p[k] \in F
  OBVIOUS
<1>2. \A k \in 1 .. Len(p) : p[Len(p) - k + 1] \in F
  <2>1. \A k \in 1 .. Len(p) : Len(p) - k + 1 \in 1 .. Len(p)
    BY <1>1
  <2> QED BY <1>1, <2>1
<1>3. Reverse(p) \in Seq(F)
  BY <1>1, <1>2 DEF Reverse
<1>4. RootFrame \in F
  OBVIOUS
<1> HIDE DEF F
<1>5. UpwardChain(p) \in Seq(F) /\ Len(UpwardChain(p)) = Len(Reverse(p)) + 1
  BY <1>3, <1>4, AppendTyped, Zenon DEF UpwardChain
<1>6. Len(Reverse(p)) \in Nat
  BY <1>3
<1> QED BY <1>5, <1>6 DEF F

\* The beginning of a path with one frame.
FirstOf(c) == SubSeq(c, 1, 1)

\* The prefixes of a chain: the empty one, and one with one frame.
LEMMA ShortPrefixes ==
  ASSUME NEW S, NEW c \in Seq(S), Len(c) > 0
  PROVE  /\ Root \in Prefixes(c) /\ IsPrefix(Root, c)
         /\ FirstOf(c) \in Prefixes(c) /\ Len(FirstOf(c)) = 1 /\ IsPrefix(Root, FirstOf(c))
         /\ \A x \in Prefixes(c) : Len(x) = 1 => x = FirstOf(c)
         /\ \A d \in Seq(S) : Len(d) > 0 => (IsPrefix(FirstOf(d), c) <=> FirstOf(d) = FirstOf(c))
<1>1. Len(c) \in Nat /\ 0 \in 0 .. Len(c) /\ 1 \in 0 .. Len(c)
  OBVIOUS
<1>2. \A l \in 0 .. Len(c) : SubSeq(c, 1, l) \in Seq(S) /\ Len(SubSeq(c, 1, l)) = l
  <2> SUFFICES ASSUME NEW l \in 0 .. Len(c)
               PROVE  SubSeq(c, 1, l) \in Seq(S) /\ Len(SubSeq(c, 1, l)) = l
    OBVIOUS
  <2>1. \A k \in 1 .. l : c[k] \in S
    OBVIOUS
  <2> QED BY <2>1, SubSeqProperties
<1>3. Prefixes(c) = {SubSeq(c, 1, l) : l \in 0 .. Len(c)}
  BY DEF Prefixes
<1>4. SubSeq(c, 1, 0) = << >>
  BY <1>1, <1>2, EmptySeq
<1>5. \A d \in Seq(S) : Len(d) > 0 => Len(FirstOf(d)) = 1 /\ SubSeq(FirstOf(d), 1, 1) = FirstOf(d)
  BY DEF FirstOf
<1>6. Len(FirstOf(c)) = 1
  BY <1>5
<1>7. FirstOf(c) \in Prefixes(c) /\ Root \in Prefixes(c)
  BY <1>1, <1>3, <1>4 DEF FirstOf, Root
<1>8. ASSUME NEW x \in Prefixes(c), Len(x) = 1 PROVE x = FirstOf(c)
  <2>1. PICK l \in 0 .. Len(c) : x = SubSeq(c, 1, l)
    BY <1>3
  <2>2. l = 1
    BY <1>2, <1>8, <2>1
  <2> QED BY <2>1, <2>2 DEF FirstOf
<1>9. IsPrefix(Root, c) /\ IsPrefix(Root, FirstOf(c))
  <2>1. \A d : SubSeq(d, 1, 0) = << >>
    OBVIOUS
  <2>2. Len(Root) = 0
    BY DEF Root
  <2>3. Len(Root) <= Len(c) /\ Len(Root) <= Len(FirstOf(c))
    BY <1>1, <1>6, <2>2
  <2> QED BY <2>1, <2>2, <2>3 DEF IsPrefix
<1>10. ASSUME NEW d \in Seq(S), Len(d) > 0
       PROVE  IsPrefix(FirstOf(d), c) <=> FirstOf(d) = FirstOf(c)
  <2>1. Len(FirstOf(d)) = 1 /\ SubSeq(FirstOf(d), 1, 1) = FirstOf(d)
    BY <1>5, <1>10
  <2>2. 1 <= Len(c)
    BY <1>1
  <2>3. IsPrefix(FirstOf(d), c)
        <=> SubSeq(FirstOf(d), 1, Len(FirstOf(d))) = SubSeq(c, 1, Len(FirstOf(d)))
    BY <2>1, <2>2 DEF IsPrefix
  <2> QED BY <2>1, <2>3, Zenon DEF FirstOf
<1> QED BY <1>6, <1>7, <1>8, <1>9, <1>10

\* If no children of a node have run longer than the node, the bottom-up tree has
\* the time of the root, at its own root and below it.
LEMMA InvertIs ==
  ASSUME NEW t, IsNodes(DOMAIN t), \A p \in DOMAIN t : t[p] \in Nat, Root \in DOMAIN t,
         Holds(t)
  PROVE  /\ \A c \in DOMAIN invert(t) : invert(t)[c] \in Nat
         /\ invert(t)[Root] = t[Root]
         /\ SumOver(invert(t), ChildrenOf(DOMAIN invert(t), Root)) = t[Root]
<1> DEFINE D == DOMAIN t
           i == invert(t)
           paths == UNION {Prefixes(UpwardChain(p)) : p \in D}
           own == [p \in D |-> self_time(t, p)]
           In(c) == {p \in D : IsPrefix(c, UpwardChain(p))}
           below == [p \in D |-> SumOver(t, ChildrenOf(D, p))]
           F == Frames \cup {RootFrame}
           key == [p \in D |-> FirstOf(UpwardChain(p))]
           C == {key[p] : p \in D}
<1>1. IsFiniteSet(D) /\ D \subseteq Seq(Frames)
  BY DEF IsNodes
<1>2. ASSUME NEW p \in D
      PROVE  own[p] \in Nat /\ below[p] \in Nat /\ t[p] = own[p] + below[p]
  <2>1. SumOver(t, ChildrenOf(D, p)) <= t[p]
    BY DEF Holds
  <2>2. own[p] = self_time(t, p) /\ below[p] = SumOver(t, ChildrenOf(D, p))
    OBVIOUS
  <2> HIDE DEF own, below
  <2> QED BY <2>1, <2>2, SelfTimeIs
<1>3. DOMAIN i = paths /\ \A c \in paths : i[c] = SumOver(own, In(c))
  <2>1. i = [path \in paths |-> SumOver(own, In(path))]
    BY Zenon DEF invert
  <2> HIDE DEF paths, own, In, i
  <2> QED BY <2>1
<1>4. \A p \in D : /\ UpwardChain(p) \in Seq(F) /\ Len(UpwardChain(p)) > 0
  BY <1>1, ChainIs
<1>5. SumOver(own, D) = t[Root]
  <2>1. SumOver(t, D) = SumOver(own, D) + SumOver(below, D)
    <3>1. \A p \in D : own[p] \in Int /\ below[p] \in Int /\ t[p] = own[p] + below[p]
      <4> HIDE DEF own, below
      <4> QED BY <1>2
    <3> HIDE DEF own, below
    <3> QED BY <1>1, <3>1, SumPlus
  <2>2. SumOver(below, D) = SumOver(t, D \ {Root})
    <3>1. \A p \in D : below[p] = SumOver(t, ChildrenOf(D, p)) /\ t[p] \in Int
      OBVIOUS
    <3> HIDE DEF below
    <3> QED BY <3>1, ChildrenAddUp
  <2>3. SumOver(t, D) = t[Root] + SumOver(t, D \ {Root})
    BY <1>1, SumWithout
  <2>4. t[Root] \in Int /\ SumOver(own, D) \in Int /\ SumOver(below, D) \in Int
    <3>1. \A p \in D : own[p] \in Int /\ below[p] \in Int
      <4> HIDE DEF own, below
      <4> QED BY <1>2
    <3> HIDE DEF own, below
    <3> QED BY <1>1, <3>1, SumInt
  <2> HIDE DEF own, below
  <2> QED BY <2>1, <2>2, <2>3, <2>4
<1> HIDE DEF own, below
<1>6. ASSUME NEW c \in paths PROVE i[c] \in Nat
  <2>1. IsFiniteSet(In(c)) /\ \A p \in In(c) : own[p] \in Nat
    BY <1>1, <1>2, FS_Subset
  <2> HIDE DEF In
  <2>2. SumOver(own, In(c)) \in Nat
    BY <2>1, SumNat
  <2> QED BY <1>3, <1>6, <2>2, Zenon
<1>7. i[Root] = t[Root]
  <2>1. Root \in paths
    <3>1. Root \in Prefixes(UpwardChain(Root))
      BY <1>4, ShortPrefixes
    <3> QED BY <3>1
  <2>2. In(Root) = D
    BY <1>4, ShortPrefixes
  <2> QED BY <1>3, <1>5, <2>1, <2>2, Zenon
<1>8. ChildrenOf(paths, Root) = C
  <2>1. \A p \in D : key[p] = FirstOf(UpwardChain(p))
    OBVIOUS
  <2> HIDE DEF key
  <2>2. ASSUME NEW c \in ChildrenOf(paths, Root) PROVE c \in C
    <3>1. c \in paths /\ Len(c) = 1
      BY DEF ChildrenOf, Root
    <3>2. PICK p \in D : c \in Prefixes(UpwardChain(p))
      BY <3>1
    <3>3. c = FirstOf(UpwardChain(p))
      BY <1>4, <3>1, <3>2, ShortPrefixes
    <3> QED BY <2>1, <3>3
  <2>3. ASSUME NEW p \in D PROVE FirstOf(UpwardChain(p)) \in ChildrenOf(paths, Root)
    <3>1. /\ FirstOf(UpwardChain(p)) \in Prefixes(UpwardChain(p))
          /\ Len(FirstOf(UpwardChain(p))) = 1 /\ IsPrefix(Root, FirstOf(UpwardChain(p)))
      BY <1>4, ShortPrefixes
    <3>2. Len(Root) + 1 = 1
      BY DEF Root
    <3> QED BY <3>1, <3>2 DEF ChildrenOf
  <2> QED BY <2>1, <2>2, <2>3
<1>9. ASSUME NEW c \in C PROVE i[c] = SumOver(own, Keyed(D, key, {c}))
  <2>1. PICK q \in D : c = FirstOf(UpwardChain(q))
    OBVIOUS
  <2>2. \A p \in D : IsPrefix(c, UpwardChain(p)) <=> FirstOf(UpwardChain(p)) = c
    BY <1>4, <2>1, ShortPrefixes
  <2>3. In(c) = Keyed(D, key, {c})
    BY <2>2 DEF Keyed
  <2>4. c \in paths
    BY <1>8 DEF ChildrenOf
  <2> HIDE DEF paths, C, key, In, i
  <2> QED BY <1>3, <2>3, <2>4, Zenon
<1>10. SumOver(i, C) = t[Root]
  <2>1. IsFiniteSet(C)
    <3> HIDE DEF key
    <3> QED BY <1>1, ValuesFinite
  <2>2. \A p \in D : own[p] \in Int /\ key[p] \in C
    <3> HIDE DEF key
    <3> QED BY <1>2
  <2> HIDE DEF C, key, i
  <2>3. SumsByKey(own, D, key, i, C)
    BY <1>1, <1>9, <2>1, <2>2 DEF SumsByKey
  <2>4. SumOver(i, C) = SumOver(own, D)
    BY <2>3, SumByKey
  <2> QED BY <1>5, <2>4
<1> HIDE DEF C, i, paths
<1> QED BY <1>3, <1>6, <1>7, <1>8, <1>10, Zenon DEF i

-----------------------------------------------------------------------------
(* The callbacks keep what the nodes add up to                             *)

\* Of the children of a node one at most is on the way to a frame, and then the
\* node is too.
LEMMA OneAbove ==
  ASSUME NEW D, IsNodes(D), NEW p \in D, NEW frame \in Seq(Frames),
         NEW q \in ChildrenOf(D, p), Above(q, frame)
  PROVE  Above(p, frame) /\ \A r \in ChildrenOf(D, p) : Above(r, frame) => r = q
<1>1. /\ D \subseteq Seq(Frames)
      /\ ChildrenOf(D, p) = {r \in D : r # Root /\ Front(r) = p}
  BY ChildrenAre DEF IsNodes
<1>2. \A r \in ChildrenOf(D, p) : r \in Seq(Frames) /\ Len(r) = Len(p) + 1
  BY <1>1, ChildIsLonger
<1>3. p \in Seq(Frames) /\ Len(p) \in Nat /\ Len(frame) \in Nat
  BY <1>1
<1>4. \A k \in 1 .. Len(p) : p[k] = q[k]
  <2>1. q \in Seq(Frames) /\ q # << >> /\ Front(q) = p
    BY <1>1 DEF Root
  <2>2. \A k \in 1 .. Len(q) - 1 : Front(q)[k] = q[k]
    BY <2>1, FrontElements
  <2>3. Len(q) - 1 = Len(p)
    BY <1>2, <1>3
  <2> QED BY <2>1, <2>2, <2>3
<1>5. Above(p, frame)
  <2>1. Len(q) = Len(p) + 1
    BY <1>2
  <2> QED BY <1>3, <1>4, <2>1 DEF Above
<1>6. ASSUME NEW r \in ChildrenOf(D, p), Above(r, frame) PROVE r = q
  <2>1. q \in Seq(Frames) /\ r \in Seq(Frames) /\ Len(q) = Len(r)
    BY <1>2
  <2>2. \A k \in 1 .. Len(q) : q[k] = r[k]
    BY <1>6, <2>1 DEF Above
  <2> QED BY <2>1, <2>2, SeqEqual
<1> QED BY <1>5, <1>6

\* The time a node has run is a natural.
LEMMA RanTyped ==
  ASSUME NEW t, t \in [DOMAIN t -> NatNode], NEW frame, NEW now \in Nat,
         \A p \in DOMAIN t : t[p].start_time <= now
  PROVE  /\ DOMAIN RanIn(t, frame, now) = DOMAIN t
         /\ \A p \in DOMAIN t : RanIn(t, frame, now)[p] \in Nat
BY DEF RanIn, NatNode

\* A tick passes in a node with every child it passes in, of which there is one at
\* most.
LEMMA HoldsTick ==
  ASSUME NEW t, t \in [DOMAIN t -> NatNode], IsNodes(DOMAIN t), NEW frame \in Seq(Frames),
         NEW now \in Nat, \A p \in DOMAIN t : t[p].start_time <= now,
         Holds(RanIn(t, frame, now))
  PROVE  Holds(RanIn(t, frame, now + 1))
<1> DEFINE D == DOMAIN t
           f == RanIn(t, frame, now)
           g == RanIn(t, frame, now + 1)
<1>1. now + 1 \in Nat /\ \A p \in D : t[p].start_time <= now + 1
  BY DEF NatNode
<1>2. /\ DOMAIN f = D /\ DOMAIN g = D
      /\ \A p \in D : f[p] \in Nat /\ g[p] \in Nat
  BY <1>1, RanTyped
<1>3. \A p \in D : g[p] = f[p] + (IF Above(p, frame) THEN 1 ELSE 0)
  BY DEF RanIn, NatNode
<1> HIDE DEF f, g
<1>4. ASSUME NEW p \in D PROVE SumOver(g, ChildrenOf(D, p)) <= g[p]
  <2> DEFINE C == ChildrenOf(D, p)
  <2>1. C \subseteq D /\ IsFiniteSet(C)
    BY ChildIsLonger DEF IsNodes
  <2>2. SumOver(f, C) <= f[p]
    BY <1>2 DEF Holds, f
  <2>3. SumOver(f, C) \in Int
    BY <1>2, <2>1, SumInt
  <2>4. CASE \E q \in C : Above(q, frame)
    <3>1. PICK q \in C : Above(q, frame)
      BY <2>4
    <3>2. Above(p, frame) /\ \A r \in C : Above(r, frame) => r = q
      BY <3>1, OneAbove
    <3>3. (\A x \in C : f[x] \in Int /\ g[x] \in Int) /\ \A x \in C \ {q} : f[x] = g[x]
      BY <1>2, <1>3, <2>1, <3>2
    <3> HIDE DEF C
    <3>4. SumOver(g, C) = SumOver(f, C) + (g[q] - f[q])
      BY <2>1, <3>1, <3>3, SumChange
    <3>5. g[q] = f[q] + 1 /\ f[q] \in Nat /\ g[p] = f[p] + 1 /\ f[p] \in Nat
      BY <1>2, <1>3, <2>1, <3>1, <3>2
    <3> QED BY <2>2, <2>3, <3>4, <3>5 DEF C
  <2>5. CASE ~ \E q \in C : Above(q, frame)
    <3>1. \A x \in C : g[x] = f[x]
      BY <1>2, <1>3, <2>1, <2>5
    <3> HIDE DEF C
    <3>2. SumOver(g, C) = SumOver(f, C)
      BY <2>1, <3>1, SumAgree
    <3>3. f[p] <= g[p] /\ f[p] \in Nat /\ g[p] \in Nat
      BY <1>2, <1>3
    <3> QED BY <2>2, <2>3, <3>2, <3>3 DEF C
  <2> QED BY <2>4, <2>5
<1> QED BY <1>2, <1>4 DEF Holds, g

\* The tree u is the tree t in which a frame began under another, at some time.
Begun(t, u, frame, f, now) ==
  LET path == Append(frame, f)
  IN /\ DOMAIN u = DOMAIN t \cup {path}
     /\ \A q \in DOMAIN t : q # path => u[q] = t[q]
     /\ u[path].start_time = now
     /\ u[path].total_runtime = IF path \in DOMAIN t THEN t[path].total_runtime ELSE 0

\* A frame that begins has run no longer than before, and has no children if it is
\* new.
LEMMA HoldsBegin ==
  ASSUME NEW t, t \in [DOMAIN t -> NatNode], IsNodes(DOMAIN t), NEW frame \in DOMAIN t,
         NEW now \in Nat, \A p \in DOMAIN t : t[p].start_time <= now,
         NEW f \in Frames, NEW u, Begun(t, u, frame, f, now), Holds(RanIn(t, frame, now))
  PROVE  IsNodes(DOMAIN u) /\ Holds(RanIn(u, Append(frame, f), now))
<1> DEFINE D == DOMAIN t
           path == Append(frame, f)
           E == D \cup {path}
           g == RanIn(t, frame, now)
           h == RanIn(u, path, now)
<1>1. IsFiniteSet(D) /\ D \subseteq Seq(Frames) /\ frame \in Seq(Frames)
  BY DEF IsNodes
<1>2. Extends(path, frame, f) /\ path \in Seq(Frames) /\ path # Root
  BY <1>1, AppendEnds, AppendTyped DEF Root
<1>3. Front(path) = frame /\ Len(path) = Len(frame) + 1 /\ Len(frame) \in Nat
  BY <1>1, <1>2 DEF Extends
<1>4. IsNodes(E)
  <2>1. IsFiniteSet(E) /\ E \subseteq Seq(Frames)
    BY <1>1, <1>2, FS_AddElement
  <2>2. Closed(E)
    BY <1>3 DEF IsNodes, Closed
  <2> QED BY <2>1, <2>2 DEF IsNodes
<1>5. \A q \in D : q # path => (Above(q, path) <=> Above(q, frame))
  <2> SUFFICES ASSUME NEW q \in D, q # path PROVE Above(q, path) <=> Above(q, frame)
    OBVIOUS
  <2>1. q \in Seq(Frames) /\ Len(q) \in Nat
    BY <1>1
  <2>2. Above(q, frame) <=> Above(q, path) /\ Len(q) < Len(path)
    <3>1. path # << >>
      BY <1>2 DEF Root
    <3> HIDE DEF path
    <3> QED BY <1>2, <1>3, <2>1, <3>1, AboveFront
  <2>3. Above(q, path) /\ Len(q) = Len(path) => q = path
    <3> HIDE DEF path
    <3> QED BY <1>2, <2>1, SeqEqual DEF Above
  <2>4. Above(q, path) => Len(q) <= Len(path)
    BY DEF Above
  <2> QED BY <1>3, <2>1, <2>2, <2>3, <2>4
<1>6. ~ Above(path, frame)
  BY <1>3 DEF Above
<1>7. DOMAIN u = E /\ DOMAIN g = D /\ DOMAIN h = E
  BY DEF Begun, RanIn
<1>8. ASSUME NEW q \in D PROVE h[q] = g[q]
  <2>1. g[q] = t[q].total_runtime + (IF Above(q, frame) THEN now - t[q].start_time ELSE 0)
    BY DEF RanIn
  <2>2. h[q] = u[q].total_runtime + (IF Above(q, path) THEN now - u[q].start_time ELSE 0)
    BY <1>7 DEF RanIn
  <2>3. CASE q # path
    BY <1>5, <2>1, <2>2, <2>3 DEF Begun
  <2>4. CASE q = path
    <3>1. u[q].start_time = now /\ u[q].total_runtime = t[q].total_runtime
      BY <2>4 DEF Begun
    <3>2. t[q].total_runtime \in Nat
      BY DEF NatNode
    <3> HIDE DEF path, h, g
    <3> QED BY <1>6, <2>1, <2>2, <2>4, <3>1, <3>2
  <2> QED BY <2>3, <2>4
<1>9. path \notin D => h[path] = 0
  <2>1. h[path] = u[path].total_runtime
                  + (IF Above(path, path) THEN now - u[path].start_time ELSE 0)
    BY <1>7 DEF RanIn
  <2>2. path \notin D => u[path].start_time = now /\ u[path].total_runtime = 0
    BY DEF Begun
  <2> HIDE DEF path, h
  <2> QED BY <2>1, <2>2
<1>10. \A p \in D : g[p] \in Nat
  BY RanTyped
<1> HIDE DEF g, h
<1>11. ASSUME NEW p \in D PROVE SumOver(h, ChildrenOf(E, p)) <= h[p]
  <2> DEFINE C == ChildrenOf(D, p)
  <2>0. p \in Seq(Frames)
    BY <1>1
  <2>1. C \subseteq D /\ IsFiniteSet(C)
    BY <2>0, ChildIsLonger
  <2>2. SumOver(g, C) <= g[p]
    BY <1>7 DEF Holds, g
  <2>3. SumOver(h, C) = SumOver(g, C)
    <3>1. \A x \in C : h[x] = g[x]
      BY <1>8, <2>1
    <3> HIDE DEF C
    <3> QED BY <2>1, <3>1, SumAgree
  <2>4. ChildrenOf(E, p) = C \/ (ChildrenOf(E, p) = C \cup {path} /\ path \notin D)
    BY DEF ChildrenOf
  <2> HIDE DEF C, path, E, D
  <2>5. SumOver(h, ChildrenOf(E, p)) = SumOver(g, C)
    <3>1. CASE ChildrenOf(E, p) = C
      BY <2>3, <3>1
    <3>2. CASE ChildrenOf(E, p) = C \cup {path} /\ path \notin D
      <4>1. path \notin C /\ h[path] = 0 /\ \A x \in C \cup {path} : h[x] \in Int
        BY <1>8, <1>9, <1>10, <2>1, <3>2
      <4>2. SumOver(h, C) \in Int
        BY <2>1, <4>1, SumInt
      <4>3. SumOver(h, C \cup {path}) = SumOver(h, C) + h[path]
        BY <2>1, <4>1, SumAdd
      <4> QED BY <2>3, <3>2, <4>1, <4>2, <4>3
    <3> QED BY <2>4, <3>1, <3>2
  <2> QED BY <1>8, <2>2, <2>5 DEF D
<1>12. ASSUME path \notin D PROVE SumOver(h, ChildrenOf(E, path)) <= h[path]
  <2>1. ChildrenOf(E, path) = {q \in E : q # Root /\ Front(q) = path}
    BY <1>2, <1>4, ChildrenAre DEF IsNodes
  <2>2. frame # path
    BY <1>12
  <2>3. ChildrenOf(E, path) = {}
    BY <1>3, <1>12, <2>1, <2>2 DEF IsNodes, Closed
  <2>4. SumOver(h, {}) = 0
    BY SumEmpty
  <2>5. h[path] = 0
    BY <1>9, <1>12
  <2> HIDE DEF E, path
  <2> QED BY <2>3, <2>4, <2>5
<1>13. \A p \in E : SumOver(h, ChildrenOf(E, p)) <= h[p]
  BY <1>11, <1>12
<1> QED BY <1>4, <1>7, <1>13 DEF Holds, h

\* The tree u is the tree t in which a frame ended at some time.
Ended(t, u, frame, now) ==
  /\ DOMAIN u = DOMAIN t
  /\ \A q \in DOMAIN t : q # frame => u[q] = t[q]
  /\ u[frame].total_runtime = t[frame].total_runtime + (now - t[frame].start_time)

\* The time in a tree so far does not change when a frame ends: what was since its
\* begin is in it now.
LEMMA RanEnd ==
  ASSUME NEW t, t \in [DOMAIN t -> NatNode], IsNodes(DOMAIN t), NEW frame \in DOMAIN t,
         NEW now \in Nat, NEW u, Ended(t, u, frame, now)
  PROVE  /\ frame # Root => RanIn(u, Front(frame), now) = RanIn(t, frame, now)
         /\ frame = Root => Times(u) = RanIn(t, frame, now)
<1>1. \A q \in DOMAIN t : q \in Seq(Frames) /\ Len(q) \in Nat
  BY DEF IsNodes
<1>2. \A q \in DOMAIN t : t[q].total_runtime \in Nat
  BY DEF NatNode
<1>3. ASSUME NEW q \in DOMAIN t, q # frame, Above(q, frame) PROVE Len(q) < Len(frame)
  <2>1. Len(q) = Len(frame) => q = frame
    BY <1>1, <1>3, SeqEqual DEF Above
  <2> QED BY <1>1, <1>3, <2>1 DEF Above
<1>4. Above(frame, frame)
  BY <1>1 DEF Above
<1>5. ASSUME frame # Root PROVE RanIn(u, Front(frame), now) = RanIn(t, frame, now)
  <2>1. \A q \in DOMAIN t : Above(q, Front(frame)) <=> Above(q, frame) /\ Len(q) < Len(frame)
    BY <1>1, <1>5, AboveFront DEF Root
  <2>2. ASSUME NEW q \in DOMAIN t
        PROVE  u[q].total_runtime + (IF Above(q, Front(frame)) THEN now - u[q].start_time ELSE 0)
               = t[q].total_runtime + (IF Above(q, frame) THEN now - t[q].start_time ELSE 0)
    <3>1. CASE q = frame
      <4>1. ~ Above(q, Front(frame)) /\ Above(q, frame)
        BY <1>1, <1>4, <2>1, <3>1
      <4>2. u[q].total_runtime = t[q].total_runtime + (now - t[q].start_time)
        BY <3>1 DEF Ended
      <4>3. t[q].total_runtime + (now - t[q].start_time) \in Int
        BY DEF NatNode
      <4> QED BY <4>1, <4>2, <4>3
    <3>2. CASE q # frame
      <4>1. Above(q, Front(frame)) <=> Above(q, frame)
        BY <1>3, <2>1, <3>2
      <4>2. u[q] = t[q]
        BY <3>2 DEF Ended
      <4> QED BY <4>1, <4>2
    <3> QED BY <3>1, <3>2
  <2>3. DOMAIN u = DOMAIN t
    BY DEF Ended
  <2> QED BY <2>2, <2>3 DEF RanIn
<1>6. ASSUME frame = Root PROVE Times(u) = RanIn(t, frame, now)
  <2>1. ASSUME NEW q \in DOMAIN t
        PROVE  u[q].total_runtime
               = t[q].total_runtime + (IF Above(q, frame) THEN now - t[q].start_time ELSE 0)
    <3>1. CASE q = frame
      BY <1>4, <3>1 DEF Ended
    <3>2. CASE q # frame
      <4>1. ~ Above(q, frame)
        <5>1. Len(frame) = 0
          BY <1>6 DEF Root
        <5> QED BY <1>1, <1>3, <3>2, <5>1
      <4>2. u[q] = t[q]
        BY <3>2 DEF Ended
      <4> QED BY <1>2, <4>1, <4>2
    <3> QED BY <3>1, <3>2
  <2>2. DOMAIN u = DOMAIN t
    BY DEF Ended
  <2> QED BY <2>1, <2>2 DEF RanIn, Times
<1> QED BY <1>5, <1>6

\* A frame that begins adds its call to those of the tree.
LEMMA CallsBegin ==
  ASSUME NEW t, t \in [DOMAIN t -> NatNode], IsNodes(DOMAIN t), NEW path, NEW more \in Nat,
         NEW u, DOMAIN u = DOMAIN t \cup {path},
         \A q \in DOMAIN t : q # path => u[q] = t[q],
         u[path].total_number_of_kernel_calls
         = (IF path \in DOMAIN t THEN t[path].total_number_of_kernel_calls ELSE 0) + more
  PROVE  SumOver(CallsOf(u), DOMAIN u) = SumOver(CallsOf(t), DOMAIN t) + more
<1> DEFINE D == DOMAIN t
           f == CallsOf(t)
           g == CallsOf(u)
<1>1. IsFiniteSet(D)
  BY DEF IsNodes
<1>2. \A q \in D : f[q] \in Nat /\ f[q] = t[q].total_number_of_kernel_calls
  BY DEF CallsOf, NatNode
<1>3. (\A q \in D : q # path => g[q] = f[q])
      /\ g[path] = (IF path \in D THEN f[path] ELSE 0) + more
  BY DEF CallsOf
<1> HIDE DEF f, g
<1>4. SumOver(f, D) \in Int
  BY <1>1, <1>2, SumInt
<1>5. CASE path \in D
  <2>1. (\A q \in D : f[q] \in Int /\ g[q] \in Int) /\ \A q \in D \ {path} : f[q] = g[q]
    BY <1>2, <1>3, <1>5
  <2>2. SumOver(g, D) = SumOver(f, D) + (g[path] - f[path])
    BY <1>1, <1>5, <2>1, SumChange
  <2> HIDE DEF D
  <2>3. g[path] - f[path] = more
    BY <1>2, <1>3, <1>5
  <2>4. D \cup {path} = D
    BY <1>5
  <2>5. SumOver(g, D \cup {path}) = SumOver(f, D) + more
    BY <1>4, <2>2, <2>3, <2>4
  <2> QED BY <2>5 DEF D, f, g
<1>6. CASE path \notin D
  <2>1. (\A q \in D : g[q] = f[q]) /\ g[path] = more /\ \A q \in D \cup {path} : g[q] \in Int
    BY <1>2, <1>3, <1>6
  <2>2. SumOver(g, D \cup {path}) = SumOver(g, D) + g[path]
    BY <1>1, <1>6, <2>1, SumAdd
  <2>3. SumOver(g, D) = SumOver(f, D)
    BY <1>1, <2>1, SumAgree
  <2>4. SumOver(g, D \cup {path}) = SumOver(f, D) + more
    BY <2>1, <2>2, <2>3
  <2> QED BY <2>4 DEF f, g
<1> QED BY <1>5, <1>6

\* A node that begins and ends stays a node.
LEMMA NatNodeIs ==
  ASSUME clock \in Nat, NEW node \in NatNode, NEW kind
  PROVE  /\ NewNode \in NatNode /\ NewNode.total_runtime = 0
         /\ NewNode.total_number_of_kernel_calls = 0
         /\ BegunNode(node, kind) \in NatNode
         /\ BegunNode(node, kind).start_time = clock
         /\ BegunNode(node, kind).total_runtime = node.total_runtime
         /\ BegunNode(node, kind).total_number_of_kernel_calls
            = node.total_number_of_kernel_calls + (IF kind = "region" THEN 0 ELSE 1)
         /\ node.start_time <= clock => EndedNode(node) \in NatNode
         /\ EndedNode(node).start_time = node.start_time
         /\ EndedNode(node).total_runtime = node.total_runtime + (clock - node.start_time)
         /\ EndedNode(node).total_number_of_kernel_calls = node.total_number_of_kernel_calls
<1>1. NewNode \in NatNode /\ NewNode.total_runtime = 0
      /\ NewNode.total_number_of_kernel_calls = 0
  BY DEF NewNode, NatNode
<1>2. PICK one \in Nat : one = IF kind = "region" THEN 0 ELSE 1
  OBVIOUS
<1> DEFINE counted == [node EXCEPT !.number_of_calls = node.number_of_calls + 1]
           summed  == [counted EXCEPT !.total_number_of_kernel_calls
                                        = node.total_number_of_kernel_calls + one]
           started == [summed EXCEPT !.start_time = clock]
<1>3. BegunNode(node, kind) = started
  BY <1>2, Zenon DEF BegunNode
<1>4. /\ BegunNode(node, kind) \in NatNode
      /\ BegunNode(node, kind).start_time = clock
      /\ BegunNode(node, kind).total_runtime = node.total_runtime
      /\ BegunNode(node, kind).total_number_of_kernel_calls
         = node.total_number_of_kernel_calls + one
  <2>1. counted \in NatNode /\ counted.total_runtime = node.total_runtime
    BY DEF NatNode
  <2> HIDE DEF counted
  <2>2. /\ summed \in NatNode /\ summed.total_runtime = node.total_runtime
        /\ summed.total_number_of_kernel_calls = node.total_number_of_kernel_calls + one
    BY <2>1 DEF NatNode
  <2> HIDE DEF summed
  <2>3. /\ started \in NatNode /\ started.total_runtime = node.total_runtime
        /\ started.total_number_of_kernel_calls = node.total_number_of_kernel_calls + one
        /\ started.start_time = clock
    BY <2>2 DEF NatNode
  <2> HIDE DEF started
  <2> QED BY <1>3, <2>3
<1>5. /\ node.start_time <= clock => EndedNode(node) \in NatNode
      /\ EndedNode(node).start_time = node.start_time
      /\ EndedNode(node).total_runtime = node.total_runtime + (clock - node.start_time)
      /\ EndedNode(node).total_number_of_kernel_calls = node.total_number_of_kernel_calls
  BY DEF EndedNode, NatNode
<1> QED BY <1>1, <1>2, <1>4, <1>5

\* A block the host begins in a node, and one it ends.
LEMMA OpenedBegin ==
  ASSUME NEW blocks, NEW paths, Opened(blocks, paths), NEW b \in Block, b.node \in paths
  PROVE  Opened(Append(blocks, b), paths)
<1>1. blocks \in Seq(Block) /\ \A i \in 1 .. Len(blocks) : blocks[i].node \in paths
  BY DEF Opened
<1>2. /\ Append(blocks, b) \in Seq(Block) /\ DOMAIN Append(blocks, b) = 1 .. Len(blocks) + 1
      /\ Append(blocks, b)[Len(blocks) + 1] = b /\ Len(blocks) \in Nat
      /\ \A i \in 1 .. Len(blocks) : Append(blocks, b)[i] = blocks[i]
  BY <1>1
<1> QED BY <1>1, <1>2 DEF Opened

\* The blocks that are left are in their nodes.
LEMMA OpenedEnd ==
  ASSUME NEW blocks, NEW paths, Opened(blocks, paths), NEW i \in 1 .. Len(blocks)
  PROVE  Opened(RemoveAt(blocks, i), paths)
<1> DEFINE bs == RemoveAt(blocks, i)
           n == Len(blocks)
<1>1. blocks \in Seq(Block) /\ \A k \in 1 .. n : blocks[k].node \in paths
  BY DEF Opened
<1>2. /\ bs \in Seq(Block) /\ Len(bs) = n - 1
      /\ \A k \in 1 .. n - 1 : bs[k] = IF k < i THEN blocks[k] ELSE blocks[k + 1]
  BY <1>1, RemoveAtIs
<1>3. DOMAIN bs = 1 .. n - 1 /\ n \in Nat
  BY <1>1, <1>2
<1> HIDE DEF bs, n
<1>4. Opened(bs, paths)
  <2>1. ASSUME NEW k \in 1 .. n - 1 PROVE bs[k].node \in paths
    <3>1. k \in 1 .. n /\ k + 1 \in 1 .. n
      BY <1>3
    <3> QED BY <1>1, <1>2, <3>1
  <2> QED BY <1>2, <1>3, <2>1 DEF Opened
<1> QED BY <1>4 DEF bs

\* A tree that grows keeps the nodes of the blocks.
LEMMA OpenedMore ==
  ASSUME NEW blocks, NEW paths, NEW more, Opened(blocks, paths), paths \subseteq more
  PROVE  Opened(blocks, more)
BY DEF Opened

\* A tool that stops keeps its tree.
LEMMA TreeStops ==
  ASSUME TreeInv, phase' \in {"aborted", "crashed"},
         UNCHANGED <<clock, tree, stack_frame, inverted>>,
         Opened(open', DOMAIN tree), Counted'
  PROVE  TreeInv'
<1>1. /\ clock' = clock /\ tree' = tree /\ stack_frame' = stack_frame /\ inverted' = inverted
      /\ TreeTyped
  BY DEF TreeInv
<1>2. TreeTyped'
  BY <1>1 DEF TreeTyped
<1> QED BY <1>2 DEF TreeInv, KernelCallsCounted, InversionConserves, Finished

\* A tool that goes on has reported nothing yet.
LEMMA TreeGoesOn ==
  ASSUME phase' = "up", inverted' = EmptyMap, TreeTyped', TreeAdds'
  PROVE  TreeInv'
BY DEF TreeInv, KernelCallsCounted, InversionConserves, Finished

\* The invariant reads no other variables.
LEMMA TreeSame ==
  ASSUME TreeInv, UNCHANGED vars
  PROVE  TreeInv'
<1>1. /\ phase' = phase /\ clock' = clock /\ tree' = tree /\ stack_frame' = stack_frame
      /\ inverted' = inverted /\ open' = open /\ begun' = begun /\ kernels' = kernels
  BY DEF vars
<1>2. TreeTyped => TreeTyped'
  BY <1>1 DEF TreeTyped, Counted
<1>3. TreeAdds => TreeAdds'
  BY <1>1 DEF TreeAdds
<1>4. KernelCallsCounted => KernelCallsCounted'
  BY <1>1 DEF KernelCallsCounted, Finished
<1>5. InversionConserves => InversionConserves'
  BY <1>1 DEF InversionConserves
<1> QED BY <1>1, <1>2, <1>3, <1>4, <1>5 DEF TreeInv

\* The clock ticks in the frames that are open.
LEMMA TreeTick ==
  ASSUME TreeInv, Tick
  PROVE  TreeInv'
<1>1. /\ phase = "up" /\ phase' = "up" /\ clock < MaxClock /\ clock' = clock + 1
      /\ tree' = tree /\ stack_frame' = stack_frame /\ inverted' = inverted
      /\ open' = open /\ begun' = begun /\ kernels' = kernels
  BY DEF Tick, host
<1>2. TreeTyped /\ TreeAdds /\ inverted = EmptyMap
  BY <1>1 DEF TreeInv
<1>3. clock \in 0 .. MaxClock /\ MaxClock \in Nat
  BY <1>2, SpaceTimeStackAssumption DEF TreeTyped
<1>4. \A p \in DOMAIN tree : tree[p].start_time <= clock /\ tree[p].start_time \in Nat
  BY <1>2 DEF TreeTyped, NatNode
<1>5. \A p \in DOMAIN tree' : tree'[p].start_time <= clock'
  BY <1>1, <1>3, <1>4
<1>6. TreeTyped'
  <2>1. clock' \in 0 .. MaxClock
    BY <1>1, <1>3
  <2>2. Counted'
    BY <1>1, <1>2 DEF TreeTyped, Counted
  <2> QED BY <1>1, <1>2, <1>5, <2>1, <2>2 DEF TreeTyped
<1>7. TreeAdds'
  <2>1. ASSUME stack_frame # NullFrame PROVE Holds(RanIn(tree, stack_frame, clock + 1))
    <3>1. stack_frame \in Seq(Frames) /\ clock \in Nat
      BY <1>2, <1>3, <2>1 DEF TreeTyped, IsNodes
    <3>2. /\ tree \in [DOMAIN tree -> NatNode] /\ IsNodes(DOMAIN tree)
          /\ \A p \in DOMAIN tree : tree[p].start_time <= clock
      BY <1>2 DEF TreeTyped
    <3>3. Holds(RanIn(tree, stack_frame, clock))
      BY <1>2, <2>1 DEF TreeAdds
    <3> QED BY <3>1, <3>2, <3>3, HoldsTick
  <2> QED BY <1>1, <1>2, <2>1 DEF TreeAdds
<1> QED BY <1>1, <1>2, <1>6, <1>7, TreeGoesOn

\* The host's counters when it begins a frame.
LEMMA CountedBegin ==
  ASSUME Counted, begun < MaxBegins, NEW f \in Frames, HostBegins(f)
  PROVE  /\ Counted'
         /\ kernels' = kernels + (IF f.kind = "region" THEN 0 ELSE 1) /\ kernels \in Nat
<1>1. MaxBegins \in Nat /\ begun \in 0 .. MaxBegins /\ kernels \in 0 .. begun
  BY SpaceTimeStackAssumption DEF Counted
<1>2. PICK one \in {0, 1} : one = IF f.kind = "region" THEN 0 ELSE 1
  OBVIOUS
<1>3. begun' = begun + 1 /\ kernels' = kernels + one
  BY <1>2 DEF HostBegins
<1>4. begun' \in 0 .. MaxBegins /\ kernels' \in 0 .. begun' /\ kernels \in Nat
  BY <1>1, <1>3
<1> QED BY <1>2, <1>3, <1>4 DEF Counted

\* A frame begins.
LEMMA TreeBegin ==
  ASSUME TreeInv, NEW f \in Frames, Begin(f)
  PROVE  TreeInv'
<1>1. /\ phase = "up" /\ begun < MaxBegins /\ HostBegins(f)
      /\ TreeTyped /\ TreeAdds /\ inverted = EmptyMap
  BY DEF Begin, TreeInv
<1>2. Counted' /\ kernels \in Nat
      /\ kernels' = kernels + (IF f.kind = "region" THEN 0 ELSE 1)
  BY <1>1, CountedBegin DEF TreeTyped
<1>3. CASE stack_frame = NullFrame
  <2>1. Crash
    BY <1>3 DEF Begin
  <2>2. open' = open
    BY <1>1, <1>3 DEF HostBegins
  <2>3. Opened(open', DOMAIN tree)
    BY <1>1, <2>2 DEF TreeTyped
  <2> QED BY <1>2, <2>1, <2>3, TreeStops DEF Crash
<1>4. CASE stack_frame # NullFrame
  <2> DEFINE path == Append(stack_frame, f)
             block == [kind |-> f.kind, since |-> clock, node |-> path]
  <2>1. /\ IsNodes(DOMAIN tree) /\ tree \in [DOMAIN tree -> NatNode]
        /\ \A p \in DOMAIN tree : tree[p].start_time <= clock
        /\ stack_frame \in DOMAIN tree /\ clock \in 0 .. MaxClock
        /\ Opened(open, DOMAIN tree)
    BY <1>1, <1>4 DEF TreeTyped
  <2>2. clock \in Nat /\ stack_frame \in Seq(Frames)
    BY <2>1, SpaceTimeStackAssumption DEF IsNodes
  <2>3. begin_frame(f)
    BY <1>4 DEF Begin
  <2>4. PICK node : node = IF path \in DOMAIN tree THEN tree[path] ELSE NewNode
    OBVIOUS
  <2>5. PICK started : started = BegunNode(node, f.kind)
    OBVIOUS
  <2>6. /\ tree' = Assign(tree, path, started) /\ stack_frame' = path
        /\ phase' = phase /\ clock' = clock /\ inverted' = inverted
    BY <2>3, <2>4, <2>5 DEF begin_frame
  <2>7. open' = Append(open, block)
    BY <1>1, <1>4 DEF HostBegins
  <2>8. node \in NatNode
    <3>1. \A n \in NatNode : NewNode \in NatNode
      BY <2>2, NatNodeIs
    <3>2. tree[stack_frame] \in NatNode
      BY <2>1
    <3> QED BY <2>1, <2>4, <3>1, <3>2
  <2>9. /\ started \in NatNode /\ started.start_time = clock
        /\ started.total_runtime = node.total_runtime
        /\ started.total_number_of_kernel_calls
           = node.total_number_of_kernel_calls + (IF f.kind = "region" THEN 0 ELSE 1)
        /\ NewNode.total_runtime = 0 /\ NewNode.total_number_of_kernel_calls = 0
    BY <2>2, <2>5, <2>8, NatNodeIs
  <2> HIDE DEF path
  <2>10. /\ DOMAIN tree' = DOMAIN tree \cup {path}
         /\ tree'[path] = started
         /\ \A q \in DOMAIN tree : q # path => tree'[q] = tree[q]
         /\ tree' \in [DOMAIN tree' -> NatNode]
    BY <2>1, <2>6, <2>9 DEF Assign
  <2>11. PICK u : u = tree'
    OBVIOUS
  <2>12. Begun(tree, u, stack_frame, f, clock)
    BY <2>4, <2>9, <2>10, <2>11 DEF Begun, path
  <2>13. Holds(RanIn(tree, stack_frame, clock))
    BY <1>1, <1>4 DEF TreeAdds
  <2>14. IsNodes(DOMAIN u) /\ Holds(RanIn(u, path, clock))
    BY <2>1, <2>2, <2>12, <2>13, HoldsBegin DEF path
  <2>15. PICK one \in Nat : one = IF f.kind = "region" THEN 0 ELSE 1
    OBVIOUS
  <2>16. SumOver(CallsOf(u), DOMAIN u) = SumOver(CallsOf(tree), DOMAIN tree) + one
    <3>1. u[path].total_number_of_kernel_calls
          = (IF path \in DOMAIN tree THEN tree[path].total_number_of_kernel_calls ELSE 0) + one
      BY <2>4, <2>9, <2>10, <2>11, <2>15
    <3>2. DOMAIN u = DOMAIN tree \cup {path} /\ \A q \in DOMAIN tree : q # path => u[q] = tree[q]
      BY <2>10, <2>11
    <3> QED BY <2>1, <3>1, <3>2, CallsBegin
  <2>17. TreeAdds'
    <3>1. Root \in DOMAIN tree'
      BY <1>1, <2>10 DEF TreeAdds
    <3>2. SumOver(CallsOf(tree'), DOMAIN tree') = kernels'
      BY <1>1, <1>2, <2>11, <2>15, <2>16 DEF TreeAdds
    <3>3. Holds(RanIn(tree', stack_frame', clock'))
      BY <2>6, <2>11, <2>14
    <3> QED BY <3>1, <3>2, <3>3 DEF TreeAdds
  <2>18. TreeTyped'
    <3>1. Opened(open', DOMAIN tree')
      <4>1. path \in Seq(Frames) /\ path \in DOMAIN tree'
        BY <2>2, <2>10, AppendTyped DEF path
      <4>2. block \in Block /\ block.node = path
        BY <2>2, <4>1, SpaceTimeStackAssumption DEF Block
      <4>3. Opened(open, DOMAIN tree')
        BY <2>1, <2>10, OpenedMore
      <4> HIDE DEF block
      <4>4. PICK paths : paths = DOMAIN tree'
        OBVIOUS
      <4>5. Opened(open, paths) /\ block.node \in paths
        BY <4>1, <4>2, <4>3, <4>4
      <4>6. Opened(Append(open, block), paths)
        BY <4>2, <4>5, OpenedBegin
      <4> QED BY <2>7, <4>4, <4>6
    <3>2. \A p \in DOMAIN tree' : tree'[p].start_time <= clock'
      BY <2>1, <2>2, <2>6, <2>9, <2>10
    <3>3. /\ phase' = "up" /\ clock' \in 0 .. MaxClock /\ IsNodes(DOMAIN tree')
          /\ stack_frame' \in DOMAIN tree' /\ inverted' = inverted
      BY <1>1, <2>1, <2>6, <2>10, <2>11, <2>14
    <3> QED BY <1>1, <1>2, <2>10, <3>1, <3>2, <3>3 DEF TreeTyped
  <2> QED BY <1>1, <2>6, <2>17, <2>18, TreeGoesOn
<1> QED BY <1>3, <1>4

\* The innermost frame ends, whatever the host ended.
LEMMA TreeEnd ==
  ASSUME TreeInv, phase = "up", stack_frame # NullFrame, end_frame,
         Opened(open', DOMAIN tree), UNCHANGED <<begun, kernels>>
  PROVE  TreeInv'
<1>1. TreeTyped /\ TreeAdds /\ inverted = EmptyMap
  BY DEF TreeInv
<1>2. /\ IsNodes(DOMAIN tree) /\ tree \in [DOMAIN tree -> NatNode]
      /\ \A p \in DOMAIN tree : tree[p].start_time <= clock
      /\ stack_frame \in DOMAIN tree /\ clock \in 0 .. MaxClock
  BY <1>1 DEF TreeTyped
<1>3. clock \in Nat /\ stack_frame \in Seq(Frames)
  BY <1>2, SpaceTimeStackAssumption DEF IsNodes
<1>4. PICK ended : ended = EndedNode(tree[stack_frame])
  OBVIOUS
<1>5. /\ tree' = [tree EXCEPT ![stack_frame] = ended]
      /\ stack_frame' = IF stack_frame = Root THEN NullFrame ELSE Front(stack_frame)
      /\ phase' = "up" /\ clock' = clock /\ inverted' = EmptyMap
  BY <1>1, <1>4 DEF end_frame
<1>6. /\ ended \in NatNode
      /\ ended.start_time = tree[stack_frame].start_time
      /\ ended.total_runtime
         = tree[stack_frame].total_runtime + (clock - tree[stack_frame].start_time)
      /\ ended.total_number_of_kernel_calls = tree[stack_frame].total_number_of_kernel_calls
  <2>1. tree[stack_frame] \in NatNode /\ tree[stack_frame].start_time <= clock
    BY <1>2
  <2> QED BY <1>3, <1>4, <2>1, NatNodeIs
<1>7. /\ DOMAIN tree' = DOMAIN tree /\ tree' \in [DOMAIN tree -> NatNode]
      /\ \A q \in DOMAIN tree : q # stack_frame => tree'[q] = tree[q]
      /\ tree'[stack_frame] = ended
  BY <1>2, <1>5, <1>6
<1>8. PICK u : u = tree'
  OBVIOUS
<1>9. Ended(tree, u, stack_frame, clock)
  BY <1>6, <1>7, <1>8 DEF Ended
<1>10. TreeAdds'
  <2>1. Root \in DOMAIN tree'
    BY <1>1, <1>7 DEF TreeAdds
  <2>2. SumOver(CallsOf(tree'), DOMAIN tree') = kernels'
    <3>1. CallsOf(tree') = CallsOf(tree)
      BY <1>2, <1>6, <1>7 DEF CallsOf
    <3> QED BY <1>1, <1>7, <3>1 DEF TreeAdds
  <2>3. ASSUME stack_frame' # NullFrame PROVE Holds(RanIn(tree', stack_frame', clock'))
    <3>1. stack_frame # Root /\ stack_frame' = Front(stack_frame)
      BY <1>5, <2>3
    <3>2. Holds(RanIn(tree, stack_frame, clock))
      BY <1>1 DEF TreeAdds
    <3>3. RanIn(u, Front(stack_frame), clock) = RanIn(tree, stack_frame, clock)
      BY <1>2, <1>3, <1>9, <3>1, RanEnd
    <3> QED BY <1>5, <1>8, <3>1, <3>2, <3>3
  <2> QED BY <2>1, <2>2, <2>3 DEF TreeAdds
<1>11. TreeTyped'
  <2>1. \A p \in DOMAIN tree' : tree'[p].start_time <= clock'
    BY <1>2, <1>5, <1>6, <1>7
  <2>2. stack_frame' \in DOMAIN tree' \cup {NullFrame}
    BY <1>2, <1>5, <1>7 DEF IsNodes, Closed
  <2>3. \A p \in DOMAIN inverted' : inverted'[p] \in Nat
    BY <1>5 DEF EmptyMap
  <2>4. Counted'
    BY <1>1 DEF TreeTyped, Counted
  <2> QED BY <1>2, <1>5, <1>7, <2>1, <2>2, <2>3, <2>4 DEF TreeTyped
<1> QED BY <1>5, <1>10, <1>11, TreeGoesOn

\* Initialisation makes the root.
LEMMA TreeInits ==
  ASSUME TreeInv, InitLibrary
  PROVE  TreeInv'
<1>1. /\ phase = "loaded" /\ tree = EmptyMap /\ inverted = EmptyMap /\ kernels = 0
      /\ open = << >> /\ TreeTyped
  BY DEF InitLibrary, TreeInv
<1>2. PICK root : root = BegunNode(NewNode, "region")
  OBVIOUS
<1>3. /\ phase' = "up" /\ tree' = Assign(tree, Root, root) /\ stack_frame' = Root
      /\ clock' = clock /\ inverted' = EmptyMap /\ open' = << >>
      /\ begun' = begun /\ kernels' = 0
  BY <1>1, <1>2 DEF InitLibrary, host
<1>4. clock \in 0 .. MaxClock /\ clock \in Nat
  BY <1>1, SpaceTimeStackAssumption DEF TreeTyped
<1>5. NewNode \in NatNode /\ NewNode.total_runtime = 0
      /\ NewNode.total_number_of_kernel_calls = 0
  BY DEF NewNode, NatNode
<1>6. /\ root \in NatNode /\ root.start_time = clock /\ root.total_runtime = 0
      /\ root.total_number_of_kernel_calls = 0
  BY <1>2, <1>4, <1>5, NatNodeIs
<1>7. tree' = [p \in {Root} |-> root]
  BY <1>1, <1>3 DEF Assign, EmptyMap
<1>8. DOMAIN tree' = {Root} /\ tree'[Root] = root /\ tree' \in [DOMAIN tree' -> NatNode]
  BY <1>6, <1>7
<1>9. IsNodes({Root})
  <2>1. IsFiniteSet({Root}) /\ {Root} \subseteq Seq(Frames)
    BY FS_Singleton DEF Root
  <2> QED BY <2>1 DEF IsNodes, Closed
<1>10. TreeTyped'
  <2>1. Opened(open', DOMAIN tree')
    BY <1>3 DEF Opened
  <2>2. Counted'
    BY <1>1, <1>3 DEF TreeTyped, Counted
  <2>3. \A p \in DOMAIN inverted' : inverted'[p] \in Nat
    BY <1>3 DEF EmptyMap
  <2>4. \A p \in DOMAIN tree' : tree'[p].start_time <= clock'
    BY <1>3, <1>4, <1>6, <1>8
  <2>5. stack_frame' \in DOMAIN tree' /\ IsNodes(DOMAIN tree')
    BY <1>3, <1>8, <1>9
  <2> QED BY <1>3, <1>4, <1>8, <2>1, <2>2, <2>3, <2>4, <2>5 DEF TreeTyped
<1>11. TreeAdds'
  <2>1. SumOver(CallsOf(tree'), DOMAIN tree') = 0
    <3> DEFINE g == CallsOf(tree')
    <3>1. g[Root] = 0
      BY <1>6, <1>8 DEF CallsOf
    <3> HIDE DEF g
    <3>2. SumOver(g, {} \cup {Root}) = SumOver(g, {}) + g[Root]
      <4>1. \A x \in {} \cup {Root} : g[x] \in Int
        BY <3>1
      <4> QED BY <4>1, FS_EmptySet, SumAdd
    <3>3. SumOver(g, {}) = 0
      BY SumEmpty
    <3>4. {} \cup {Root} = DOMAIN tree'
      BY <1>8
    <3>5. SumOver(g, DOMAIN tree') = 0
      BY <3>1, <3>2, <3>3, <3>4
    <3> QED BY <3>5 DEF g
  <2>2. Holds(RanIn(tree', Root, clock'))
    <3> DEFINE ran == RanIn(tree', Root, clock')
    <3>1. DOMAIN ran = {Root} /\ ran[Root] = 0
      <4>1. ran[Root] = 0 + (IF Above(Root, Root) THEN clock - clock ELSE 0)
        BY <1>3, <1>6, <1>8 DEF RanIn
      <4>2. ran[Root] = 0
        BY <1>4, <4>1
      <4> QED BY <1>8, <4>2 DEF RanIn
    <3> HIDE DEF ran
    <3>2. ChildrenOf({Root}, Root) = {}
      BY DEF ChildrenOf, Root
    <3>3. SumOver(ran, {}) = 0
      BY SumEmpty
    <3>4. Holds(ran)
      BY <3>1, <3>2, <3>3 DEF Holds
    <3> QED BY <3>4 DEF ran
  <2>3. Root \in DOMAIN tree' /\ kernels' = 0 /\ stack_frame' = Root
    BY <1>3, <1>8
  <2> QED BY <2>1, <2>2, <2>3 DEF TreeAdds
<1> QED BY <1>3, <1>10, <1>11, TreeGoesOn

\* A report, and an export, is of a tree in which only the root is open.
LEMMA TreeFinishes ==
  ASSUME TreeInv, NEW exportJson \in BOOLEAN, FinalizeLibrary(exportJson)
  PROVE  TreeInv'
<1>1. TreeTyped /\ TreeAdds /\ inverted = EmptyMap /\ phase = "up"
  BY DEF FinalizeLibrary, TreeInv
<1>2. open' = open /\ begun' = begun /\ kernels' = kernels
  BY DEF FinalizeLibrary, host
<1>3. Counted' /\ Opened(open', DOMAIN tree)
  BY <1>1, <1>2 DEF TreeTyped, Counted
<1>4. CASE stack_frame # Root
  <2>1. Crash \/ Abort
    BY <1>4 DEF FinalizeLibrary
  <2> QED BY <1>3, <2>1, TreeStops DEF Crash, Abort
<1>5. CASE stack_frame = Root
  <2>1. stack_frame # NullFrame
    <3>1. << >> \in Seq(Frames)
      OBVIOUS
    <3> QED BY <1>5, <3>1, SpaceTimeStackAssumption DEF Root
  <2> DEFINE root == EndedNode(tree[Root])
             ended == [tree EXCEPT ![Root] = root]
  <2>2. /\ IsNodes(DOMAIN tree) /\ tree \in [DOMAIN tree -> NatNode]
        /\ \A p \in DOMAIN tree : tree[p].start_time <= clock
        /\ Root \in DOMAIN tree /\ clock \in 0 .. MaxClock
    BY <1>1 DEF TreeTyped, TreeAdds
  <2>3. clock \in Nat
    BY <2>2, SpaceTimeStackAssumption
  <2>4. /\ phase' = IF exportJson THEN "exported" ELSE "reported"
        /\ tree' = adopt(ended)
        /\ inverted' = IF exportJson THEN inverted ELSE invert(Times(tree'))
        /\ clock' = clock /\ stack_frame' = stack_frame
    BY <1>5, <2>1 DEF FinalizeLibrary
  <2>5. /\ root \in NatNode
        /\ root.start_time = tree[Root].start_time
        /\ root.total_runtime = tree[Root].total_runtime + (clock - tree[Root].start_time)
        /\ root.total_number_of_kernel_calls = tree[Root].total_number_of_kernel_calls
    <3>1. tree[Root] \in NatNode /\ tree[Root].start_time <= clock
      BY <2>2
    <3> QED BY <2>3, <3>1, NatNodeIs
  <2> HIDE DEF root
  <2>6. /\ DOMAIN ended = DOMAIN tree /\ ended \in [DOMAIN ended -> NatNode]
        /\ \A q \in DOMAIN tree : q # Root => ended[q] = tree[q]
        /\ ended[Root] = root
    BY <2>2, <2>5
  <2> HIDE DEF ended
  <2>7. Times(ended) = RanIn(tree, Root, clock)
    <3>1. Ended(tree, ended, Root, clock)
      BY <2>5, <2>6 DEF Ended
    <3> QED BY <2>2, <2>3, <3>1, RanEnd
  <2>8. Holds(Times(ended))
    BY <1>1, <1>5, <2>1, <2>7 DEF TreeAdds
  <2>9. /\ adopt(ended) \in [DOMAIN tree -> NatNode]
        /\ \A p \in DOMAIN tree : /\ adopt(ended)[p].total_runtime = ended[p].total_runtime
                                  /\ adopt(ended)[p].start_time = ended[p].start_time
        /\ adopt(ended)[Root].total_number_of_kernel_calls
           = SumOver(CallsOf(ended), DOMAIN tree)
    BY <2>2, <2>6, AdoptIs
  <2>10. PICK u : u = tree'
    OBVIOUS
  <2>11. /\ DOMAIN u = DOMAIN tree /\ u \in [DOMAIN tree -> NatNode]
         /\ \A p \in DOMAIN tree : u[p].start_time <= clock
         /\ Times(u) = Times(ended)
    <3>1. DOMAIN adopt(ended) = DOMAIN tree
      BY <2>9
    <3>2. \A p \in DOMAIN tree : ended[p].start_time = tree[p].start_time
      BY <2>5, <2>6
    <3> QED BY <2>2, <2>4, <2>6, <2>9, <2>10, <3>1, <3>2 DEF Times
  <2>12. u[Root].total_number_of_kernel_calls = kernels
    <3>1. CallsOf(ended) = CallsOf(tree)
      BY <2>5, <2>6 DEF CallsOf
    <3> QED BY <1>1, <2>4, <2>9, <2>10, <3>1 DEF TreeAdds
  <2>13. /\ \A c \in DOMAIN invert(Times(u)) : invert(Times(u))[c] \in Nat
         /\ invert(Times(u))[Root] = u[Root].total_runtime
         /\ SumOver(invert(Times(u)), ChildrenOf(DOMAIN invert(Times(u)), Root))
            = u[Root].total_runtime
    <3> DEFINE times == Times(u)
    <3>1. /\ DOMAIN times = DOMAIN tree /\ times[Root] = u[Root].total_runtime
          /\ \A p \in DOMAIN times : times[p] \in Nat
      BY <2>2, <2>11 DEF Times, NatNode
    <3>2. Holds(times)
      BY <2>8, <2>11
    <3> HIDE DEF times
    <3>3. /\ \A c \in DOMAIN invert(times) : invert(times)[c] \in Nat
          /\ invert(times)[Root] = times[Root]
          /\ SumOver(invert(times), ChildrenOf(DOMAIN invert(times), Root)) = times[Root]
      BY <2>2, <3>1, <3>2, InvertIs
    <3> QED BY <3>1, <3>3 DEF times
  <2>14. TreeTyped'
    <3>1. \A p \in DOMAIN inverted' : inverted'[p] \in Nat
      <4>1. CASE exportJson
        BY <1>1, <2>4, <4>1 DEF EmptyMap
      <4>2. CASE ~ exportJson
        <5>1. inverted' = invert(Times(u))
          BY <2>4, <2>10, <4>2
        <5> QED BY <2>13, <5>1
      <4> QED BY <4>1, <4>2
    <3>2. Opened(open', DOMAIN tree')
      BY <1>3, <2>10, <2>11
    <3>3. phase' \in {"reported", "exported"}
      BY <2>4
    <3>4. /\ IsNodes(DOMAIN tree') /\ tree' \in [DOMAIN tree' -> NatNode]
          /\ \A p \in DOMAIN tree' : tree'[p].start_time <= clock'
          /\ stack_frame' \in DOMAIN tree' /\ clock' \in 0 .. MaxClock
      BY <1>5, <2>2, <2>4, <2>10, <2>11
    <3> QED BY <1>3, <3>1, <3>2, <3>3, <3>4 DEF TreeTyped
  <2>15. KernelCallsCounted'
    BY <1>2, <2>10, <2>12 DEF KernelCallsCounted
  <2>16. InversionConserves'
    <3>1. phase' = "reported" => inverted' = invert(Times(u))
      BY <2>4, <2>10
    <3> QED BY <2>10, <2>13, <3>1 DEF InversionConserves
  <2>17. phase' \notin {"loaded", "up"}
    BY <2>4
  <2> QED BY <2>14, <2>15, <2>16, <2>17 DEF TreeInv
<1> QED BY <1>4, <1>5

\* Every step of the time half keeps what the tree adds up to.
LEMMA TreeFrameStep ==
  ASSUME TreeInv, StackInv, FrameStep
  PROVE  TreeInv'
<1>0. TreeTyped
  BY DEF TreeInv
<1>1. CASE InitLibrary
  BY <1>1, TreeInits
<1>2. CASE Tick
  BY <1>2, TreeTick
<1>3. ASSUME NEW f \in Frames, Begin(f) PROVE TreeInv'
  BY <1>3, TreeBegin
<1>4. ASSUME NEW i \in DOMAIN open, phase = "up", HostEnds(i),
             Crash \/ Abort \/ (stack_frame # NullFrame /\ end_frame)
      PROVE  TreeInv'
  <2>1. open' = RemoveAt(open, i) /\ begun' = begun /\ kernels' = kernels
    BY <1>4 DEF HostEnds
  <2>2. Opened(open', DOMAIN tree)
    <3>1. i \in 1 .. Len(open) /\ Opened(open, DOMAIN tree)
      BY <1>0 DEF TreeTyped, Opened
    <3> QED BY <2>1, <3>1, OpenedEnd
  <2>3. Counted'
    BY <1>0, <2>1 DEF TreeTyped, Counted
  <2>4. CASE Crash \/ Abort
    BY <2>2, <2>3, <2>4, TreeStops DEF Crash, Abort
  <2>5. CASE stack_frame # NullFrame /\ end_frame
    BY <1>4, <2>1, <2>2, <2>5, TreeEnd
  <2> QED BY <1>4, <2>4, <2>5
<1>5. ASSUME NEW i \in DOMAIN open, EndKernel(i) PROVE TreeInv'
  <2>1. phase = "up" /\ HostEnds(i) /\ (Crash \/ Abort \/ (stack_frame # NullFrame /\ end_frame))
    BY <1>5 DEF EndKernel
  <2> QED BY <1>4, <2>1
<1>6. CASE EndUnnumbered
  <2>1. phase = "up" /\ LastUnnumbered # 0 /\ HostEnds(LastUnnumbered)
        /\ (Crash \/ Abort \/ (stack_frame # NullFrame /\ end_frame))
    BY <1>6 DEF EndUnnumbered
  <2>2. Kinded(open)
    BY <2>1 DEF StackInv, StackUp, StackShape
  <2>3. LastUnnumbered \in DOMAIN open
    BY <2>1, <2>2, LastUnnumberedIs DEF Kinded
  <2>4. PICK i \in DOMAIN open : i = LastUnnumbered
    BY <2>3
  <2> QED BY <1>4, <2>1, <2>4
<1>7. ASSUME UNCHANGED host, phase = "up",
             Crash \/ Abort \/ (stack_frame # NullFrame /\ end_frame)
      PROVE  TreeInv'
  <2>1. open' = open /\ begun' = begun /\ kernels' = kernels
    BY <1>7 DEF host
  <2>2. Opened(open', DOMAIN tree) /\ Counted'
    BY <1>0, <2>1 DEF TreeTyped, Counted
  <2>3. CASE Crash \/ Abort
    BY <2>2, <2>3, TreeStops DEF Crash, Abort
  <2>4. CASE stack_frame # NullFrame /\ end_frame
    BY <1>7, <2>1, <2>2, <2>4, TreeEnd
  <2> QED BY <1>7, <2>3, <2>4
<1>8. CASE PopUnmatched
  <2>1. UNCHANGED host /\ phase = "up"
        /\ (Crash \/ Abort \/ (stack_frame # NullFrame /\ end_frame))
    BY <1>8 DEF PopUnmatched
  <2> QED BY <1>7, <2>1
<1>9. CASE BeginCopyUnknown
  BY <1>7, <1>9 DEF BeginCopyUnknown
<1>10. ASSUME NEW exportJson \in BOOLEAN, FinalizeLibrary(exportJson) PROVE TreeInv'
  BY <1>10, TreeFinishes
<1> QED BY <1>1, <1>2, <1>3, <1>5, <1>6, <1>8, <1>9, <1>10, Zenon DEF FrameStep

\* Every step of the tool does.
LEMMA TreeInvNext == TreeInv /\ StackInv /\ [NextTool]_toolVars => TreeInv'
<1> SUFFICES ASSUME TreeInv, StackInv, [NextTool]_toolVars PROVE TreeInv'
  OBVIOUS
<1>1. CASE FrameStep
  BY <1>1, TreeFrameStep
<1>2. CASE UNCHANGED vars
  BY <1>2, TreeSame
<1>3. ASSUME Crash \/ Abort, UNCHANGED host PROVE TreeInv'
  <2>1. open' = open /\ begun' = begun /\ kernels' = kernels /\ TreeTyped
    BY <1>3 DEF host, TreeInv
  <2>2. Opened(open', DOMAIN tree) /\ Counted'
    BY <2>1 DEF TreeTyped, Counted
  <2> QED BY <1>3, <2>2, TreeStops DEF Crash, Abort
<1>4. CASE UNCHANGED toolVars \/ TerminatedTool
  BY <1>2, <1>4, Zenon DEF toolVars, TerminatedTool, Terminated
<1>5. ASSUME NEW handle \in Handles, UnknownSpace(handle) PROVE TreeInv'
  BY <1>3, <1>5 DEF UnknownSpace
<1>6. ASSUME NEW handle \in Handles, NEW ptr \in Addresses, NEW size \in Sizes,
             AllocateBefore(handle, ptr, size) \/ Allocate(handle, ptr, size)
      PROVE  TreeInv'
  BY <1>2, <1>6, Zenon DEF AllocateBefore, Allocate
<1>7. ASSUME NEW ptr \in DOMAIN held, Deallocate(ptr) PROVE TreeInv'
  <2>1. UNCHANGED vars \/ (Crash /\ UNCHANGED host)
    BY <1>7, Zenon DEF Deallocate
  <2> QED BY <1>2, <1>3, <2>1
<1> QED BY <1>1, <1>4, <1>5, <1>6, <1>7, Zenon DEF NextTool

\* The tool starts without a tree.
LEMMA TreeInvInit == InitTool => TreeInv
<1> SUFFICES ASSUME InitTool PROVE TreeInv
  OBVIOUS
<1>1. /\ phase = "loaded" /\ clock = 0 /\ tree = EmptyMap /\ stack_frame = NullFrame
      /\ inverted = EmptyMap /\ open = << >> /\ begun = 0 /\ kernels = 0
  BY DEF InitTool, Init
<1>2. DOMAIN EmptyMap = {} /\ EmptyMap \in [{} -> NatNode]
  BY DEF EmptyMap
<1>3. IsNodes({})
  BY FS_EmptySet DEF IsNodes, Closed
<1>4. Opened(<< >>, {})
  BY DEF Opened
<1>5. Counted /\ 0 \in 0 .. MaxClock
  BY <1>1, SpaceTimeStackAssumption DEF Counted
<1>6. TreeTyped
  BY <1>1, <1>2, <1>3, <1>4, <1>5 DEF TreeTyped
<1> QED BY <1>1, <1>6 DEF TreeInv, KernelCallsCounted, InversionConserves, Finished

\* Every kernel and every copy begun is counted at the root of a report, whatever
\* node it was in and however often it was (kp_space_time_stack.cpp:145-157, 169-186).
THEOREM CallsOfKernels == ToolSpec => []KernelCallsCounted
<1>1. TreeInv => KernelCallsCounted
  BY DEF TreeInv
<1> QED BY <1>1, StackInvInit, StackInvNext, TreeInvInit, TreeInvNext, PTL DEF ToolSpec

\* The bottom-up tree of a report has the time of the whole run at its root, and
\* again below it: no self time is ever negative, so that none is clipped
\* (kp_space_time_stack.cpp:206-240).
THEOREM InversionOfTimes == ToolSpec => []InversionConserves
<1>1. TreeInv => InversionConserves
  BY DEF TreeInv
<1> QED BY <1>1, StackInvInit, StackInvNext, TreeInvInit, TreeInvNext, PTL DEF ToolSpec

-----------------------------------------------------------------------------
(* The types of both halves                                                *)

\* No step takes a node out of the tree.
LEMMA TreeGrows == [NextTool]_toolVars => DOMAIN tree \subseteq DOMAIN tree'
<1> SUFFICES ASSUME [NextTool]_toolVars PROVE DOMAIN tree \subseteq DOMAIN tree'
  OBVIOUS
<1>0. Crash \/ Abort \/ end_frame \/ Tick \/ UNCHANGED vars => DOMAIN tree' = DOMAIN tree
  BY DEF Crash, Abort, end_frame, Tick, vars
<1>1. CASE FrameStep
  <2>1. CASE InitLibrary
    BY <2>1 DEF InitLibrary, Assign
  <2>2. ASSUME NEW f \in Frames, Begin(f) PROVE DOMAIN tree \subseteq DOMAIN tree'
    <3>1. CASE begin_frame(f)
      BY <3>1 DEF begin_frame, Assign
    <3> QED BY <1>0, <2>2, <3>1 DEF Begin
  <2>3. ASSUME NEW i \in DOMAIN open, EndKernel(i) PROVE DOMAIN tree \subseteq DOMAIN tree'
    BY <1>0, <2>3 DEF EndKernel
  <2>4. CASE EndUnnumbered \/ PopUnmatched \/ BeginCopyUnknown \/ Tick
    BY <1>0, <2>4 DEF EndUnnumbered, PopUnmatched, BeginCopyUnknown
  <2>5. ASSUME NEW exportJson \in BOOLEAN, FinalizeLibrary(exportJson)
        PROVE  DOMAIN tree \subseteq DOMAIN tree'
    <3>1. \A t : DOMAIN adopt(t) = DOMAIN t
      BY DEF adopt
    <3>2. Crash \/ Abort \/ tree' = adopt([tree EXCEPT ![Root] = EndedNode(@)])
      BY <2>5 DEF FinalizeLibrary
    <3> QED BY <1>0, <3>1, <3>2
  <2> QED BY <1>1, <2>1, <2>2, <2>3, <2>4, <2>5 DEF FrameStep
<1>2. CASE UNCHANGED toolVars \/ TerminatedTool
  BY <1>0, <1>2, Zenon DEF toolVars, TerminatedTool, Terminated
<1>3. ASSUME NEW handle \in Handles, UnknownSpace(handle) PROVE DOMAIN tree \subseteq DOMAIN tree'
  BY <1>0, <1>3 DEF UnknownSpace
<1>4. ASSUME NEW handle \in Handles, NEW ptr \in Addresses, NEW size \in Sizes,
             AllocateBefore(handle, ptr, size) \/ Allocate(handle, ptr, size)
      PROVE  DOMAIN tree \subseteq DOMAIN tree'
  BY <1>0, <1>4, Zenon DEF AllocateBefore, Allocate
<1>5. ASSUME NEW ptr \in DOMAIN held, Deallocate(ptr) PROVE DOMAIN tree \subseteq DOMAIN tree'
  BY <1>0, <1>5, Zenon DEF Deallocate
<1> QED BY <1>1, <1>2, <1>3, <1>4, <1>5, Zenon DEF NextTool

\* The bytes the host holds in a space are a natural.
LEMMA BytesTyped ==
  ASSUME NEW h, HoldsTyped(h), NEW s
  PROVE  /\ IsFiniteSet(SeenIn(h, s)) /\ SeenIn(h, s) \subseteq DOMAIN h
         /\ \A a \in DOMAIN h : SizesOf(h)[a] \in Nat /\ SizesOf(h)[a] = h[a].size
         /\ SumOver(SizesOf(h), SeenIn(h, s)) \in Nat
<1>1. SeenIn(h, s) \subseteq DOMAIN h /\ IsFiniteSet(DOMAIN h)
  BY DEF SeenIn, HoldsTyped
<1>2. IsFiniteSet(SeenIn(h, s))
  BY <1>1, FS_Subset
<1>3. \A a \in DOMAIN h : SizesOf(h)[a] \in Nat /\ SizesOf(h)[a] = h[a].size
  BY SpaceTimeMemoryAssumption DEF SizesOf, HoldsTyped
<1> QED BY <1>1, <1>2, <1>3, SumNat

\* The bytes of the spaces grow by an allocation, if the tool sees it.
GrownBy(h, k, handle, size, seen) ==
  /\ HoldsTyped(k)
  /\ \A s : SumOver(SizesOf(k), SeenIn(k, s)) =
              SumOver(SizesOf(h), SeenIn(h, s))
              + (IF seen /\ SpaceOf[handle] = s THEN size ELSE 0)

\* What the host allocates adds its size to the space it is in, if the tool sees it.
LEMMA BytesGrow ==
  ASSUME NEW h, HoldsTyped(h), NEW ptr \in Addresses, ptr \notin DOMAIN h,
         NEW handle \in Handles, NEW size \in Sizes, NEW within, NEW seen \in BOOLEAN,
         NEW k, k = Assign(h, ptr, [handle |-> handle, size |-> size,
                                    frame |-> within, seen |-> seen])
  PROVE  GrownBy(h, k, handle, size, seen)
<1>1. /\ DOMAIN k = DOMAIN h \cup {ptr}
      /\ k[ptr].handle = handle /\ k[ptr].size = size /\ k[ptr].seen = seen
      /\ \A a \in DOMAIN h : a # ptr /\ k[a] = h[a]
  BY DEF Assign
<1>2. HoldsTyped(k)
  <2>1. IsFiniteSet(DOMAIN k)
    BY <1>1, FS_AddElement DEF HoldsTyped
  <2> QED BY <1>1, <2>1 DEF HoldsTyped
<1>3. ASSUME NEW s
      PROVE  SumOver(SizesOf(k), SeenIn(k, s)) =
               SumOver(SizesOf(h), SeenIn(h, s))
               + (IF seen /\ SpaceOf[handle] = s THEN size ELSE 0)
  <2> DEFINE f == SizesOf(h)
             g == SizesOf(k)
             H == SeenIn(h, s)
             K == SeenIn(k, s)
  <2>1. /\ IsFiniteSet(H) /\ H \subseteq DOMAIN h /\ SumOver(f, H) \in Nat
        /\ \A a \in DOMAIN h : f[a] = h[a].size
    BY BytesTyped
  <2>2. \A a \in DOMAIN k : g[a] \in Nat /\ g[a] = k[a].size
    BY <1>2, BytesTyped
  <2>3. K = IF seen /\ SpaceOf[handle] = s THEN H \cup {ptr} ELSE H
    BY <1>1 DEF SeenIn
  <2>4. ptr \notin H /\ (\A a \in H : g[a] = f[a]) /\ g[ptr] = size
        /\ \A a \in H \cup {ptr} : g[a] \in Int
    BY <1>1, <2>1, <2>2
  <2> HIDE DEF f, g, H, K
  <2>5. SumOver(g, H) = SumOver(f, H)
    BY <2>1, <2>4, SumAgree
  <2>6. SumOver(g, H \cup {ptr}) = SumOver(g, H) + g[ptr]
    BY <2>1, <2>4, SumAdd
  <2>7. CASE seen /\ SpaceOf[handle] = s
    <3>1. SumOver(g, K) = SumOver(f, H) + size
      BY <2>3, <2>4, <2>5, <2>6, <2>7
    <3> QED BY <2>7, <3>1 DEF f, g, H, K
  <2>8. CASE ~ (seen /\ SpaceOf[handle] = s)
    <3>1. SumOver(g, K) = SumOver(f, H) + 0
      BY <2>1, <2>3, <2>5, <2>8
    <3> QED BY <2>8, <3>1 DEF f, g, H, K
  <2> QED BY <2>7, <2>8
<1> QED BY <1>2, <1>3 DEF GrownBy

\* What it frees takes its size out of the space, if the tool saw it.
LEMMA BytesShrink ==
  ASSUME NEW h, HoldsTyped(h), NEW ptr \in DOMAIN h, NEW k, k = Erase(h, ptr)
  PROVE  /\ HoldsTyped(k)
         /\ \A s : SumOver(SizesOf(k), SeenIn(k, s)) =
                     SumOver(SizesOf(h), SeenIn(h, s))
                     - (IF h[ptr].seen /\ SpaceOf[h[ptr].handle] = s THEN h[ptr].size ELSE 0)
<1>1. DOMAIN k = DOMAIN h \ {ptr} /\ \A a \in DOMAIN k : k[a] = h[a]
  BY DEF Erase
<1>2. HoldsTyped(k)
  <2>1. IsFiniteSet(DOMAIN k)
    BY <1>1, FS_Subset DEF HoldsTyped
  <2> QED BY <1>1, <2>1 DEF HoldsTyped
<1>3. ASSUME NEW s
      PROVE  SumOver(SizesOf(k), SeenIn(k, s)) =
               SumOver(SizesOf(h), SeenIn(h, s))
               - (IF h[ptr].seen /\ SpaceOf[h[ptr].handle] = s THEN h[ptr].size ELSE 0)
  <2> DEFINE f == SizesOf(h)
             g == SizesOf(k)
             H == SeenIn(h, s)
             K == SeenIn(k, s)
  <2>1. /\ IsFiniteSet(H) /\ H \subseteq DOMAIN h /\ SumOver(f, H) \in Nat
        /\ \A a \in DOMAIN h : f[a] \in Nat /\ f[a] = h[a].size
    BY BytesTyped
  <2>2. /\ IsFiniteSet(K) /\ K \subseteq DOMAIN k /\ SumOver(g, K) \in Nat
        /\ \A a \in DOMAIN k : g[a] = k[a].size
    BY <1>2, BytesTyped
  <2>3. K = H \ {ptr}
    BY <1>1 DEF SeenIn
  <2>4. \A a \in K : g[a] = f[a]
    BY <1>1, <2>1, <2>2
  <2>5. ptr \in H <=> h[ptr].seen /\ SpaceOf[h[ptr].handle] = s
    BY DEF SeenIn
  <2>6. f[ptr] = h[ptr].size
    BY <2>1
  <2>7. \A a \in H : f[a] \in Int
    BY <2>1
  <2> HIDE DEF f, g, H, K
  <2>8. SumOver(g, K) = SumOver(f, K)
    BY <2>2, <2>4, SumAgree
  <2>9. CASE ptr \in H
    <3>1. SumOver(f, H) = f[ptr] + SumOver(f, H \ {ptr})
      BY <2>1, <2>7, <2>9, SumWithout
    <3>2. SumOver(g, K) = SumOver(f, H) - h[ptr].size
      <4>1. f[ptr] \in Int
        BY <2>7, <2>9
      <4> QED BY <2>2, <2>3, <2>6, <2>8, <3>1, <4>1
    <3> QED BY <2>5, <2>9, <3>2 DEF f, g, H, K
  <2>10. CASE ptr \notin H
    <3>1. K = H
      BY <2>3, <2>10
    <3>2. SumOver(g, K) = SumOver(f, H) - 0
      BY <2>1, <2>8, <3>1
    <3> QED BY <2>5, <2>10, <3>2 DEF f, g, H, K
  <2> QED BY <2>9, <2>10
<1> QED BY <1>2, <1>3

\* The allocations are typed, with frames among some nodes.
PointsInto(allocations, nodes) ==
  /\ allocations.total_size \in Nat
  /\ \A e \in allocations.alloc_set :
       e.ptr \in Addresses /\ e.size \in Sizes /\ e.frame \in nodes

\* The account c holds what the host h does, whatever frames it gives it.
FramesOf(c, b, h) ==
  \E F : \A s \in Spaces : c[s] = [total_size |-> b[s], alloc_set |-> Framed(h, s, F)]

\* The account of every space adds up to the bytes the host holds.
LEMMA TotalsAre ==
  ASSUME NEW c, NEW b, NEW h, FramesOf(c, b, h)
  PROVE  \A s \in Spaces : c[s].total_size = b[s]
<1>1. PICK F : \A s \in Spaces : c[s] = [total_size |-> b[s], alloc_set |-> Framed(h, s, F)]
  BY DEF FramesOf
<1>2. ASSUME NEW s \in Spaces, NEW held_there PROVE
        [total_size |-> b[s], alloc_set |-> held_there].total_size = b[s]
  OBVIOUS
<1> QED BY <1>1, <1>2, Zenon

\* An allocation that is typed keeps the memory typed.
LEMMA MemoryGrows ==
  ASSUME MemoryTyped, AccountInv, AccountInv', NodePointers \subseteq NodePointers',
         NEW handle \in DOMAIN SpaceOf, NEW ptr \in Addresses, NEW size \in Sizes,
         NEW frame \in NodePointers, NEW within, AllocateData(handle, ptr, size, frame, within)
  PROVE  MemoryTyped'
<1> DEFINE sp == SpaceOf[handle]
<1>0. sp \in Spaces /\ handle \in Handles
  BY SpaceTimeMemoryAssumption
<1>1. PICK grown : grown = allocate(current[sp], ptr, size, frame)
  OBVIOUS
<1>2. /\ made < MaxCalls /\ ptr \notin DOMAIN held /\ made' = made + 1
      /\ held' = Assign(held, ptr, [handle |-> handle, size |-> size,
                                    frame |-> within, seen |-> TRUE])
      /\ current' = [current EXCEPT ![sp] = grown]
      /\ hwm' = [hwm EXCEPT ![sp] = Snapshot(grown, @)]
      /\ bytes' = [bytes EXCEPT ![sp] = @ + size]
  BY <1>1, Zenon DEF AllocateData, HostAllocates
<1>3. OverSpaces /\ MaxCalls \in Nat
  BY SpaceTimeMemoryAssumption DEF AccountInv
<1>4. /\ \A s \in Spaces : current'[s] = IF s = sp THEN grown ELSE current[s]
      /\ \A s \in Spaces : bytes'[s] = IF s = sp THEN bytes[s] + size ELSE bytes[s]
      /\ \A s \in Spaces : hwm'[s] = hwm[s] \/ hwm'[s] = current'[s]
  <2> HIDE DEF sp
  <2> QED BY <1>2, <1>3 DEF OverSpaces, Spaced, Snapshot
<1>5. PICK k : k = held'
  OBVIOUS
<1>6. /\ HoldsTyped(k)
      /\ \A s : SumOver(SizesOf(k), SeenIn(k, s)) =
                  SumOver(SizesOf(held), SeenIn(held, s)) + (IF sp = s THEN size ELSE 0)
  <2>1. HoldsTyped(held)
    BY DEF MemoryTyped
  <2> HIDE DEF sp
  <2>2. k = Assign(held, ptr, [handle |-> handle, size |-> size,
                               frame |-> within, seen |-> TRUE])
    BY <1>2, <1>5
  <2>3. PICK h : h = held
    OBVIOUS
  <2>4. PICK seen \in BOOLEAN : seen = TRUE
    OBVIOUS
  <2>5. GrownBy(h, k, handle, size, seen)
    <3>1. k = Assign(h, ptr, [handle |-> handle, size |-> size,
                              frame |-> within, seen |-> seen])
      BY <2>2, <2>3, <2>4, Zenon
    <3>2. HoldsTyped(h) /\ ptr \notin DOMAIN h
      BY <1>2, <2>1, <2>3, Zenon
    <3> QED BY <1>0, <3>1, <3>2, BytesGrow, Zenon
  <2> QED BY <2>3, <2>4, <2>5 DEF sp, GrownBy
<1>7. ASSUME NEW s \in Spaces
      PROVE  bytes'[s] = SumOver(SizesOf(k), SeenIn(k, s)) /\ bytes'[s] \in Nat
  <2>1. bytes[s] = SumOver(SizesOf(held), SeenIn(held, s))
    BY DEF MemoryTyped
  <2>2. SumOver(SizesOf(held), SeenIn(held, s)) \in Nat
    BY BytesTyped DEF MemoryTyped
  <2>3. SumOver(SizesOf(k), SeenIn(k, s)) \in Nat
    BY <1>6, BytesTyped
  <2> HIDE DEF sp
  <2>4. bytes'[s] = SumOver(SizesOf(k), SeenIn(k, s))
    BY <1>4, <1>6, <2>1, <2>2
  <2> QED BY <2>3, <2>4
<1>8. ASSUME NEW s \in Spaces PROVE PointsInto(current'[s], NodePointers')
  <2>0. \A r \in Spaces : current'[r].total_size = bytes'[r]
    <3>1. PICK c, b, h : c = current' /\ b = bytes' /\ h = held'
      OBVIOUS
    <3>2. FramesOf(c, b, h)
      BY <3>1, Zenon DEF AccountInv, Accounts, FramesOf
    <3>3. \A r \in Spaces : c[r].total_size = b[r]
      BY <3>2, TotalsAre, Zenon
    <3> QED BY <3>1, <3>3, Zenon
  <2>1. current'[s].total_size \in Nat
    BY <2>0, <1>7
  <2>2. PointsInto(current[s], NodePointers)
    BY DEF MemoryTyped, AllocationsOK, PointsInto
  <2>3. CASE s # sp
    BY <1>4, <2>1, <2>2, <2>3 DEF PointsInto
  <2>4. CASE s = sp
    <3>1. current'[s] = allocate(current[s], ptr, size, frame)
      BY <1>1, <1>4, <2>4
    <3>2. current'[s].alloc_set \subseteq
            current[s].alloc_set \cup {Allocation(ptr, size, frame)}
      BY <3>1 DEF allocate
    <3> QED BY <2>1, <2>2, <3>2 DEF PointsInto, Allocation
  <2> QED BY <2>3, <2>4
<1>9. ASSUME NEW s \in Spaces PROVE PointsInto(hwm'[s], NodePointers')
  <2>1. PointsInto(hwm[s], NodePointers)
    BY DEF MemoryTyped, AllocationsOK, PointsInto
  <2> QED BY <1>4, <1>8, <2>1 DEF PointsInto
<1>10. made' \in 0 .. MaxCalls
  BY <1>2, <1>3 DEF MemoryTyped
<1> QED BY <1>5, <1>6, <1>7, <1>8, <1>9, <1>10 DEF MemoryTyped, AllocationsOK, PointsInto

\* A deallocation keeps it typed: what is not in the set is not subtracted.
LEMMA MemoryShrinks ==
  ASSUME MemoryTyped, AccountInv, AccountInv', NodePointers \subseteq NodePointers',
         NEW ptr \in DOMAIN held, held[ptr].handle \in DOMAIN SpaceOf, DeallocateData(ptr)
  PROVE  MemoryTyped'
<1> DEFINE sp == SpaceOf[held[ptr].handle]
           size == held[ptr].size
<1>0. sp \in Spaces
  BY SpaceTimeMemoryAssumption
<1>1. /\ current' = [current EXCEPT ![sp] = deallocate(@, ptr, size)]
      /\ bytes' = IF held[ptr].seen THEN [bytes EXCEPT ![sp] = @ - size] ELSE bytes
      /\ held' = Erase(held, ptr) /\ hwm' = hwm /\ made' = made
  BY DEF DeallocateData
<1>2. OverSpaces
  BY DEF AccountInv
<1>3. PICK k : k = held'
  OBVIOUS
<1>4. /\ HoldsTyped(k)
      /\ \A s : SumOver(SizesOf(k), SeenIn(k, s)) =
                  SumOver(SizesOf(held), SeenIn(held, s))
                  - (IF held[ptr].seen /\ sp = s THEN size ELSE 0)
  <2>1. HoldsTyped(held) /\ k = Erase(held, ptr)
    BY <1>1, <1>3 DEF MemoryTyped
  <2> QED BY <2>1, BytesShrink
<1> HIDE DEF sp, size
<1>5. /\ \A s \in Spaces : current'[s] = IF s = sp THEN deallocate(current[s], ptr, size)
                                          ELSE current[s]
      /\ \A s \in Spaces : bytes'[s] = IF held[ptr].seen /\ s = sp THEN bytes[s] - size
                                        ELSE bytes[s]
  BY <1>1, <1>2 DEF OverSpaces, Spaced
<1>6. ASSUME NEW s \in Spaces
      PROVE  bytes'[s] = SumOver(SizesOf(k), SeenIn(k, s)) /\ bytes'[s] \in Nat
  <2>1. bytes[s] = SumOver(SizesOf(held), SeenIn(held, s))
    BY DEF MemoryTyped
  <2>2. SumOver(SizesOf(held), SeenIn(held, s)) \in Nat
    BY BytesTyped DEF MemoryTyped
  <2>3. SumOver(SizesOf(k), SeenIn(k, s)) \in Nat
    BY <1>4, BytesTyped
  <2>4. bytes'[s] = SumOver(SizesOf(k), SeenIn(k, s))
    BY <1>4, <1>5, <2>1, <2>2
  <2> QED BY <2>3, <2>4
<1>7. ASSUME NEW s \in Spaces PROVE PointsInto(current'[s], NodePointers')
  <2>0. \A r \in Spaces : current'[r].total_size = bytes'[r]
    <3>1. PICK c, b, h : c = current' /\ b = bytes' /\ h = held'
      OBVIOUS
    <3>2. FramesOf(c, b, h)
      BY <3>1, Zenon DEF AccountInv, Accounts, FramesOf
    <3>3. \A r \in Spaces : c[r].total_size = b[r]
      BY <3>2, TotalsAre, Zenon
    <3> QED BY <3>1, <3>3, Zenon
  <2>1. current'[s].total_size \in Nat
    BY <2>0, <1>6
  <2>2. PointsInto(current[s], NodePointers)
    BY DEF MemoryTyped, AllocationsOK, PointsInto
  <2>3. current'[s].alloc_set \subseteq current[s].alloc_set
    <3>1. current'[s] = current[s] \/ current'[s] = deallocate(current[s], ptr, size)
      BY <1>5
    <3>2. ASSUME NEW allocations
          PROVE  deallocate(allocations, ptr, size).alloc_set \subseteq allocations.alloc_set
      <4>1. CASE InSet(allocations, ptr, size)
        <5>1. deallocate(allocations, ptr, size) =
                [total_size |-> allocations.total_size - size,
                 alloc_set  |-> allocations.alloc_set \ Found(allocations, ptr, size)]
          BY <4>1, Zenon DEF deallocate
        <5> QED BY <5>1
      <4>2. CASE ~ InSet(allocations, ptr, size)
        BY <4>2, Zenon DEF deallocate
      <4> QED BY <4>1, <4>2
    <3> QED BY <3>1, <3>2, Zenon
  <2> QED BY <2>1, <2>2, <2>3 DEF PointsInto
<1>8. ASSUME NEW s \in Spaces PROVE PointsInto(hwm'[s], NodePointers')
  <2>1. PointsInto(hwm[s], NodePointers)
    BY DEF MemoryTyped, AllocationsOK, PointsInto
  <2> QED BY <1>1, <2>1 DEF PointsInto
<1> QED BY <1>1, <1>3, <1>4, <1>6, <1>7, <1>8 DEF MemoryTyped, AllocationsOK, PointsInto

\* Memory the tool does not see does not change its account.
LEMMA MemoryUnseen ==
  ASSUME MemoryTyped, AccountInv, NodePointers \subseteq NodePointers',
         NEW handle \in Handles, NEW ptr \in Addresses, NEW size \in Sizes, NEW within,
         AllocateUnseen(handle, ptr, size, within)
  PROVE  MemoryTyped'
<1>1. /\ made < MaxCalls /\ ptr \notin DOMAIN held /\ made' = made + 1
      /\ held' = Assign(held, ptr, [handle |-> handle, size |-> size,
                                    frame |-> within, seen |-> FALSE])
      /\ current' = current /\ hwm' = hwm /\ bytes' = bytes
  BY DEF AllocateUnseen, HostAllocates
<1>2. PICK k : k = held'
  OBVIOUS
<1>3. /\ HoldsTyped(k)
      /\ \A s : SumOver(SizesOf(k), SeenIn(k, s)) = SumOver(SizesOf(held), SeenIn(held, s)) + 0
  <2>1. HoldsTyped(held)
    BY DEF MemoryTyped
  <2>2. k = Assign(held, ptr, [handle |-> handle, size |-> size,
                               frame |-> within, seen |-> FALSE])
    BY <1>1, <1>2
  <2>3. PICK h : h = held
    OBVIOUS
  <2>4. PICK seen \in BOOLEAN : seen = FALSE
    OBVIOUS
  <2>5. GrownBy(h, k, handle, size, seen)
    <3>1. k = Assign(h, ptr, [handle |-> handle, size |-> size,
                              frame |-> within, seen |-> seen])
      BY <2>2, <2>3, <2>4, Zenon
    <3>2. HoldsTyped(h) /\ ptr \notin DOMAIN h
      BY <1>1, <2>1, <2>3, Zenon
    <3> QED BY <3>1, <3>2, BytesGrow, Zenon
  <2> QED BY <2>3, <2>4, <2>5 DEF GrownBy
<1>4. \A s \in Spaces : bytes'[s] = SumOver(SizesOf(k), SeenIn(k, s))
  <2> SUFFICES ASSUME NEW s \in Spaces PROVE bytes[s] = SumOver(SizesOf(k), SeenIn(k, s))
    BY <1>1
  <2>1. bytes[s] = SumOver(SizesOf(held), SeenIn(held, s))
    BY DEF MemoryTyped
  <2>2. SumOver(SizesOf(held), SeenIn(held, s)) \in Nat
    BY BytesTyped DEF MemoryTyped
  <2> QED BY <1>3, <2>1, <2>2
<1>5. made' \in 0 .. MaxCalls
  BY <1>1, SpaceTimeMemoryAssumption DEF MemoryTyped
<1>6. \A s \in Spaces : PointsInto(current'[s], NodePointers') /\ PointsInto(hwm'[s], NodePointers')
  BY <1>1 DEF MemoryTyped, AllocationsOK, PointsInto
<1> QED BY <1>2, <1>3, <1>4, <1>5, <1>6 DEF MemoryTyped, AllocationsOK, PointsInto

\* Every step keeps the memory typed.
LEMMA MemoryTypedNext ==
  MemoryTyped /\ TreeInv /\ AccountInv /\ [NextTool]_toolVars => MemoryTyped'
<1> SUFFICES ASSUME MemoryTyped, TreeInv, AccountInv, [NextTool]_toolVars PROVE MemoryTyped'
  OBVIOUS
<1>1. NodePointers \subseteq NodePointers'
  BY TreeGrows DEF NodePointers
<1>2. AccountInv'
  BY AccountInvNext
<1>3. CASE UNCHANGED memory
  <2>1. /\ made' = made /\ held' = held /\ bytes' = bytes /\ current' = current /\ hwm' = hwm
    BY <1>3 DEF memory
  <2> QED BY <1>1, <2>1 DEF MemoryTyped, AllocationsOK
<1>4. CASE FrameStep \/ UNCHANGED toolVars \/ TerminatedTool
           \/ \E handle \in Handles : UnknownSpace(handle)
  BY <1>3, <1>4, Zenon DEF FrameStep, toolVars, TerminatedTool, UnknownSpace
<1>5. ASSUME NEW handle \in Handles, NEW ptr \in Addresses, NEW size \in Sizes,
             AllocateBefore(handle, ptr, size)
      PROVE  MemoryTyped'
  <2>1. PICK within : within = HostFrame
    OBVIOUS
  <2>2. AllocateUnseen(handle, ptr, size, within)
    BY <1>5, <2>1 DEF AllocateBefore
  <2> QED BY <1>1, <2>2, MemoryUnseen
<1>6. ASSUME NEW handle \in Handles, NEW ptr \in Addresses, NEW size \in Sizes,
             Allocate(handle, ptr, size)
      PROVE  MemoryTyped'
  <2>1. PICK within : within = HostFrame
    OBVIOUS
  <2>2. PICK frame \in NodePointers : frame = FrameNoted
    BY DEF TreeInv, TreeTyped, NodePointers, FrameNoted
  <2>3. AllocateData(handle, ptr, size, frame, within) /\ handle \in DOMAIN SpaceOf
    BY <1>6, <2>1, <2>2, Zenon DEF Allocate
  <2> QED BY <1>1, <1>2, <2>3, MemoryGrows
<1>7. ASSUME NEW ptr \in DOMAIN held, Deallocate(ptr) PROVE MemoryTyped'
  <2>1. held[ptr].handle \in DOMAIN SpaceOf /\ (UNCHANGED memory \/ DeallocateData(ptr))
    BY <1>7, Zenon DEF Deallocate
  <2> QED BY <1>1, <1>2, <1>3, <2>1, MemoryShrinks
<1> QED BY <1>4, <1>5, <1>6, <1>7, Zenon DEF NextTool

\* The host starts without memory.
LEMMA MemoryTypedInit == InitTool => MemoryTyped
<1> SUFFICES ASSUME InitTool PROVE MemoryTyped
  OBVIOUS
<1>1. /\ current = [s \in Spaces |-> NoAllocations] /\ hwm = [s \in Spaces |-> NoAllocations]
      /\ held = EmptyMap /\ made = 0 /\ bytes = [s \in Spaces |-> 0]
  BY DEF InitTool, InitMemory
<1>2. DOMAIN held = {}
  BY <1>1 DEF EmptyMap
<1>3. HoldsTyped(held)
  BY <1>2, FS_EmptySet DEF HoldsTyped
<1>4. \A s \in Spaces : bytes[s] = SumOver(SizesOf(held), SeenIn(held, s))
  <2>1. \A s : SeenIn(held, s) = {}
    BY <1>2 DEF SeenIn
  <2> QED BY <1>1, <2>1, SumEmpty
<1>5. \A s \in Spaces : AllocationsOK(current[s]) /\ AllocationsOK(hwm[s])
  BY <1>1 DEF AllocationsOK, NoAllocations
<1>6. made \in 0 .. MaxCalls
  BY <1>1, SpaceTimeMemoryAssumption
<1> QED BY <1>3, <1>4, <1>5, <1>6 DEF MemoryTyped

\* Every variable of the tool keeps its type: no time and no total is ever negative,
\* and what an allocation points at is a node of the tree, or none
\* (kp_space_time_stack.cpp:135-157, 495-512, 637-641).
THEOREM ToolTypeCorrect == ToolSpec => []ToolTypeOK
<1>1. InitTool => AccountInv
  BY StackInvInit DEF StackInv
<1>2. TreeInv /\ MemoryTyped => ToolTypeOK
  <2> SUFFICES ASSUME TreeInv, MemoryTyped PROVE ToolTypeOK
    OBVIOUS
  <2>1. TreeTyped
    BY DEF TreeInv
  <2>2. clock \in 0 .. MaxClock /\ MaxClock \in Nat
    BY <2>1, SpaceTimeStackAssumption DEF TreeTyped
  <2>3. \A p \in DOMAIN tree : tree[p] \in NodeType
    <3>1. \A p \in DOMAIN tree : tree[p] \in NatNode /\ tree[p].start_time <= clock
      BY <2>1 DEF TreeTyped
    <3>2. \A n \in NatNode : n.start_time <= clock => n \in NodeType
      BY <2>2 DEF NatNode, NodeType
    <3> QED BY <3>1, <3>2
  <2>4. TypeOK
    BY <2>1, <2>3 DEF TreeTyped, Counted, Opened, TypeOK
  <2> QED BY <2>4 DEF MemoryTyped, HoldsTyped, ToolTypeOK
<1> QED BY <1>1, <1>2, AccountInvNext, StackInvInit, StackInvNext, TreeInvInit, TreeInvNext,
        MemoryTypedInit, MemoryTypedNext, PTL DEF ToolSpec

=============================================================================
