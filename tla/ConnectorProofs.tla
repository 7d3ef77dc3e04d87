-------------------------- MODULE ConnectorProofs ---------------------------
(***************************************************************************)
(* Theorems about the connectors, each with its host, for every host: any  *)
(* kinds of kernels, names, numbers of sections and number of blocks, that *)
(* begin and end in any order the host allows.                             *)
(***************************************************************************)
EXTENDS ToolRegistry, DataFacts


-----------------------------------------------------------------------------
(* Among                                                                   *)

\* What upTo of Among does with one more block.
Step(before, block, kinds) ==
  IF block.what \in kinds THEN Append(before, block) ELSE before

\* upTo of Among, for the first m blocks.
IsUpTo(f, s, kinds, m) ==
  f = [n \in 0 .. m |-> IF n = 0 THEN << >> ELSE Step(f[n - 1], s[n], kinds)]

\* Its values.
Values(f, s, kinds, m) ==
  f[0] = << >> /\ \A n \in 1 .. m : f[n] = Step(f[n - 1], s[n], kinds)

\* The recursion defines a function.
LEMMA UpToExists ==
  ASSUME NEW s, NEW kinds, NEW m \in Nat
  PROVE  \E f : IsUpTo(f, s, kinds, m)
<1> DEFINE T == {k \in Nat : ~ \E f : IsUpTo(f, s, kinds, k)}
<1> SUFFICES ASSUME T # {} PROVE FALSE
  OBVIOUS
<1>1. PICK k \in T : \A y \in T : k <= y
  <2> HIDE DEF T
  <2>1. T \subseteq Nat
    BY DEF T
  <2> QED BY <2>1, NatMin
<1>2. CASE k = 0
  <2> DEFINE f == [n \in 0 .. 0 |-> << >>]
  <2>1. IsUpTo(f, s, kinds, 0)
    BY DEF IsUpTo
  <2> QED BY <2>1, <1>2
<1>3. CASE k # 0
  <2>1. k - 1 \in Nat /\ k - 1 \notin T
    BY <1>1, <1>3
  <2>2. PICK f : IsUpTo(f, s, kinds, k - 1)
    BY <2>1
  <2> DEFINE g == [n \in 0 .. k |-> IF n < k THEN f[n] ELSE Step(f[n - 1], s[n], kinds)]
  <2>3. IsUpTo(g, s, kinds, k)
    BY <2>1, <2>2, <1>1, <1>3 DEF IsUpTo
  <2> QED BY <2>3, <1>1
<1> QED BY <1>2, <1>3

\* A function that satisfies the recursion has the values it states.
LEMMA UpToValues ==
  ASSUME NEW s, NEW kinds, NEW m \in Nat, NEW f, IsUpTo(f, s, kinds, m)
  PROVE  Values(f, s, kinds, m)
<1>1. \A n \in 0 .. m : f[n] = IF n = 0 THEN << >> ELSE Step(f[n - 1], s[n], kinds)
  BY DEF IsUpTo
<1> QED BY <1>1 DEF Values

\* Among is the last value of such a function.
LEMMA AmongUpTo ==
  ASSUME NEW S, NEW s \in Seq(S), NEW kinds
  PROVE  \E f : Values(f, s, kinds, Len(s)) /\ Among(s, kinds) = f[Len(s)]
<1>1. \E f : IsUpTo(f, s, kinds, Len(s))
  BY UpToExists, Len(s) \in Nat
<1> DEFINE u == CHOOSE f : IsUpTo(f, s, kinds, Len(s))
<1>2. IsUpTo(u, s, kinds, Len(s))
  BY <1>1
<1>3. Among(s, kinds) = u[Len(s)]
  BY DEF Among, IsUpTo, Step
<1> HIDE DEF u
<1>4. Len(s) \in Nat
  OBVIOUS
<1>5. Values(u, s, kinds, Len(s))
  BY <1>2, <1>4, UpToValues
<1> QED BY <1>3, <1>5

\* Two sequences that agree so far keep the same.
LEMMA ValuesSame ==
  ASSUME NEW s, NEW t, NEW kinds, NEW m \in Nat, NEW k \in Nat, m <= k,
         \A n \in 1 .. m : s[n] = t[n],
         NEW f, NEW g, Values(f, s, kinds, m), Values(g, t, kinds, k)
  PROVE  f[m] = g[m]
<1> DEFINE T == {n \in 0 .. m : f[n] # g[n]}
<1> SUFFICES ASSUME T # {} PROVE FALSE
  OBVIOUS
<1>1. PICK n \in T : \A y \in T : n <= y
  <2>1. T \subseteq Nat
    OBVIOUS
  <2> HIDE DEF T
  <2> QED BY <2>1, NatMin
<1>2. n # 0
  BY DEF Values
<1>3. n - 1 \in 0 .. m /\ n - 1 \notin T
  BY <1>1, <1>2
<1>4. f[n - 1] = g[n - 1]
  BY <1>3
<1>5. n \in 1 .. m /\ n \in 1 .. k
  BY <1>2
<1>6. f[n] = Step(f[n - 1], s[n], kinds)
  BY <1>5 DEF Values
<1>7. g[n] = Step(g[n - 1], t[n], kinds)
  BY <1>5 DEF Values
<1> QED BY <1>4, <1>5, <1>6, <1>7

\* Of no blocks nothing is kept.
LEMMA AmongEmpty ==
  ASSUME NEW kinds
  PROVE  Among(<< >>, kinds) = << >>
<1>1. << >> \in Seq({}) /\ Len(<< >>) = 0
  OBVIOUS
<1>2. PICK f : Values(f, << >>, kinds, Len(<< >>)) /\ Among(<< >>, kinds) = f[Len(<< >>)]
  BY <1>1, AmongUpTo
<1> QED BY <1>1, <1>2 DEF Values

\* Of one block more, the block is kept if it is of these kinds.
LEMMA AmongAppend ==
  ASSUME NEW S, NEW s \in Seq(S), NEW b \in S, NEW kinds
  PROVE  Among(Append(s, b), kinds) = Step(Among(s, kinds), b, kinds)
<1> DEFINE t == Append(s, b)
           m == Len(s)
<1>1. t \in Seq(S) /\ Len(t) = m + 1 /\ t[m + 1] = b /\ \A n \in 1 .. m : s[n] = t[n]
  OBVIOUS
<1>2. PICK f : Values(f, s, kinds, m) /\ Among(s, kinds) = f[m]
  BY AmongUpTo
<1>3. PICK g : Values(g, t, kinds, m + 1) /\ Among(t, kinds) = g[m + 1]
  BY <1>1, AmongUpTo
<1>4. m \in Nat
  OBVIOUS
<1> HIDE DEF t, m
<1>5. f[m] = g[m]
  BY <1>1, <1>2, <1>3, <1>4, ValuesSame
<1>6. g[m + 1] = Step(g[m], t[m + 1], kinds)
  BY <1>3, <1>4 DEF Values
<1>7. Among(t, kinds) = Step(Among(s, kinds), b, kinds)
  BY <1>1, <1>2, <1>3, <1>5, <1>6
<1> QED BY <1>7 DEF t

\* What is kept are blocks of the sequence, all of these kinds.
LEMMA AmongType ==
  ASSUME NEW S, NEW s \in Seq(S), NEW kinds
  PROVE  Among(s, kinds) \in Seq({b \in S : b.what \in kinds})
<1> DEFINE K == {b \in S : b.what \in kinds}
           T == {u \in Seq(S) : Among(u, kinds) \in Seq(K)}
<1>1. << >> \in T
  <2>1. Among(<< >>, kinds) = << >>
    BY AmongEmpty
  <2>2. << >> \in Seq(S) /\ << >> \in Seq(K)
    BY EmptySeq
  <2> QED BY <2>1, <2>2
<1>2. ASSUME NEW u \in Seq(S), NEW e \in S, u \in T PROVE Append(u, e) \in T
  <2>1. Among(Append(u, e), kinds) = Step(Among(u, kinds), e, kinds)
    BY AmongAppend
  <2>2. Append(u, e) \in Seq(S) /\ Among(u, kinds) \in Seq(K)
    BY <1>2
  <2>3. CASE e.what \in kinds
    <3>1. e \in K
      BY <2>3
    <3>2. Append(Among(u, kinds), e) \in Seq(K)
      BY <2>2, <3>1, AppendProperties
    <3> QED BY <2>1, <2>2, <2>3, <3>2 DEF Step
  <2>4. CASE e.what \notin kinds
    BY <2>1, <2>2, <2>4 DEF Step
  <2> QED BY <2>3, <2>4
<1>3. Seq(S) \subseteq T
  <2> HIDE DEF T
  <2> QED BY <1>1, <1>2, SeqInduct
<1> QED BY <1>3

\* So it is a sequence of blocks.
LEMMA AmongSeq ==
  ASSUME NEW S, NEW s \in Seq(S), NEW kinds
  PROVE  Among(s, kinds) \in Seq(S)
<1> DEFINE K == {b \in S : b.what \in kinds}
<1>1. K \subseteq S /\ Among(s, kinds) \in Seq(K)
  BY AmongType
<1> HIDE DEF K
<1> QED BY <1>1, SeqMonotonic

\* Of two sequences in a row, what each keeps is kept in a row.
LEMMA AmongConcat ==
  ASSUME NEW S, NEW s \in Seq(S), NEW t \in Seq(S), NEW kinds
  PROVE  Among(s \o t, kinds) = Among(s, kinds) \o Among(t, kinds)
<1> DEFINE T == {u \in Seq(S) : Among(s \o u, kinds) = Among(s, kinds) \o Among(u, kinds)}
<1>0. Among(s, kinds) \in Seq(S)
  BY AmongSeq
<1>1. << >> \in T
  <2>1. s \o << >> = s /\ Among(s, kinds) \o << >> = Among(s, kinds)
    BY <1>0, ConcatEmptySeq
  <2>2. Among(<< >>, kinds) = << >>
    BY AmongEmpty
  <2>3. << >> \in Seq(S)
    OBVIOUS
  <2> QED BY <2>1, <2>2, <2>3
<1>2. ASSUME NEW u \in Seq(S), NEW e \in S, u \in T PROVE Append(u, e) \in T
  <2>1. s \o Append(u, e) = Append(s \o u, e) /\ s \o u \in Seq(S) /\ Append(u, e) \in Seq(S)
    OBVIOUS
  <2>2. Among(s \o Append(u, e), kinds) = Step(Among(s \o u, kinds), e, kinds)
    BY <2>1, AmongAppend
  <2>3. Among(Append(u, e), kinds) = Step(Among(u, kinds), e, kinds)
    BY AmongAppend
  <2>4. Among(u, kinds) \in Seq(S)
    BY AmongSeq
  <2>5. Among(s \o u, kinds) = Among(s, kinds) \o Among(u, kinds)
    BY <1>2
  <2>6. Append(Among(s, kinds) \o Among(u, kinds), e) = Among(s, kinds) \o Append(Among(u, kinds), e)
    <3>1. AppendConcatIn(S)
      BY AppendConcat
    <3> QED BY <1>0, <2>4, <3>1, Zenon DEF AppendConcatIn
  <2>7. Among(s \o Append(u, e), kinds) = Among(s, kinds) \o Among(Append(u, e), kinds)
    BY <2>2, <2>3, <2>5, <2>6 DEF Step
  <2> QED BY <2>1, <2>7
<1>3. Seq(S) \subseteq T
  <2> HIDE DEF T
  <2> QED BY <1>1, <1>2, SeqInduct
<1> QED BY <1>3

\* Every block of these kinds is kept.
LEMMA AmongSet ==
  ASSUME NEW S, NEW s \in Seq(S), NEW kinds
  PROVE  ToSet(Among(s, kinds)) = {b \in ToSet(s) : b.what \in kinds}
<1> DEFINE T == {u \in Seq(S) : ToSet(Among(u, kinds)) = {b \in ToSet(u) : b.what \in kinds}}
<1>1. << >> \in T
  <2>1. Among(<< >>, kinds) = << >> /\ ToSet(<< >>) = {}
    BY AmongEmpty DEF ToSet
  <2> QED BY <2>1
<1>2. ASSUME NEW u \in Seq(S), NEW e \in S, u \in T PROVE Append(u, e) \in T
  <2>1. Among(Append(u, e), kinds) = Step(Among(u, kinds), e, kinds)
    BY AmongAppend
  <2>2. Among(u, kinds) \in Seq(S) /\ Append(u, e) \in Seq(S)
    BY AmongSeq
  <2>4. ToSet(Among(u, kinds)) = {b \in ToSet(u) : b.what \in kinds}
    BY <1>2
  <2>5. ToSet(Append(u, e)) = ToSet(u) \cup {e}
        /\ ToSet(Append(Among(u, kinds), e)) = ToSet(Among(u, kinds)) \cup {e}
    BY <2>2, ToSetAppend
  <2>6. ToSet(Among(Append(u, e), kinds)) = {b \in ToSet(Append(u, e)) : b.what \in kinds}
    BY <2>1, <2>4, <2>5 DEF Step
  <2> QED BY <2>2, <2>6
<1>3. Seq(S) \subseteq T
  <2> HIDE DEF T
  <2> QED BY <1>1, <1>2, SeqInduct
<1> QED BY <1>3

-----------------------------------------------------------------------------
(* A block that ends leaves the sequence of the blocks in flight.          *)

\* What is kept of s, and of s without its element i.
LEMMA AmongSplit ==
  ASSUME NEW S, NEW s \in Seq(S), NEW i \in 1 .. Len(s), NEW kinds,
         NEW pre \in Seq(S), NEW post \in Seq(S), Split(s, i, pre, post)
  PROVE  /\ Among(s, kinds) = Step(Among(pre, kinds), s[i], kinds) \o Among(post, kinds)
         /\ Among(RemoveAt(s, i), kinds) = Among(pre, kinds) \o Among(post, kinds)
<1> DEFINE a == Append(pre, s[i])
<1>1. s[i] \in S
  OBVIOUS
<1>2. a \in Seq(S)
  BY <1>1
<1>3. Among(a, kinds) = Step(Among(pre, kinds), s[i], kinds)
  BY <1>1, AmongAppend
<1>4. s = a \o post /\ RemoveAt(s, i) = pre \o post
  BY DEF Split
<1> HIDE DEF a
<1>5. Among(a \o post, kinds) = Among(a, kinds) \o Among(post, kinds)
  BY <1>2, AmongConcat
<1>6. Among(pre \o post, kinds) = Among(pre, kinds) \o Among(post, kinds)
  BY AmongConcat
<1> QED BY <1>3, <1>4, <1>5, <1>6, Zenon

\* A block of another kind can be taken out unnoticed.
LEMMA AmongRemoveOther ==
  ASSUME NEW S, NEW s \in Seq(S), NEW i \in 1 .. Len(s), NEW kinds, s[i].what \notin kinds
  PROVE  Among(RemoveAt(s, i), kinds) = Among(s, kinds)
<1>1. PICK pre \in Seq(S), post \in Seq(S) : Split(s, i, pre, post)
  BY SplitAt
<1>2. /\ Among(s, kinds) = Step(Among(pre, kinds), s[i], kinds) \o Among(post, kinds)
      /\ Among(RemoveAt(s, i), kinds) = Among(pre, kinds) \o Among(post, kinds)
  BY <1>1, AmongSplit
<1>3. Step(Among(pre, kinds), s[i], kinds) = Among(pre, kinds)
  BY DEF Step
<1> QED BY <1>2, <1>3, Zenon

\* Nothing is kept of a sequence without blocks of these kinds.
LEMMA AmongNone ==
  ASSUME NEW S, NEW s \in Seq(S), NEW kinds, \A k \in 1 .. Len(s) : s[k].what \notin kinds
  PROVE  Among(s, kinds) = << >>
<1> DEFINE A == Among(s, kinds)
<1>1. A \in Seq(S)
  BY AmongSeq
<1>2. ToSet(A) = {b \in ToSet(s) : b.what \in kinds}
  BY AmongSet
<1>3. ToSet(A) = {}
  BY <1>2 DEF ToSet
<1> HIDE DEF A
<1>4. \A k \in 1 .. Len(A) : A[k] \in ToSet(A)
  BY <1>1 DEF ToSet
<1>5. Len(A) = 0
  BY <1>1, <1>3, <1>4
<1>6. A = << >>
  BY <1>1, <1>5
<1> QED BY <1>6 DEF A

\* The last block of these kinds is the last that is kept.
LEMMA AmongRemoveLast ==
  ASSUME NEW S, NEW s \in Seq(S), NEW i \in 1 .. Len(s), NEW kinds, s[i].what \in kinds,
         \A k \in i + 1 .. Len(s) : s[k].what \notin kinds
  PROVE  Among(s, kinds) = Append(Among(RemoveAt(s, i), kinds), s[i])
<1>1. PICK pre \in Seq(S), post \in Seq(S) : Split(s, i, pre, post)
  BY SplitAt
<1>2. /\ Among(s, kinds) = Step(Among(pre, kinds), s[i], kinds) \o Among(post, kinds)
      /\ Among(RemoveAt(s, i), kinds) = Among(pre, kinds) \o Among(post, kinds)
  BY <1>1, AmongSplit
<1>3. \A k \in 1 .. Len(post) : post[k].what \notin kinds
  <2>1. ASSUME NEW k \in 1 .. Len(post) PROVE post[k].what \notin kinds
    <3>1. post[k] = s[i + k] /\ i + k \in i + 1 .. Len(s)
      BY <1>1 DEF Split
    <3> QED BY <3>1
  <2> QED BY <2>1
<1>4. Among(post, kinds) = << >>
  BY <1>3, AmongNone
<1>5. Among(pre, kinds) \in Seq(S)
  BY AmongSeq
<1>6. Step(Among(pre, kinds), s[i], kinds) = Append(Among(pre, kinds), s[i])
  BY DEF Step
<1>7. Append(Among(pre, kinds), s[i]) \in Seq(S)
  BY <1>5
<1>8. /\ Append(Among(pre, kinds), s[i]) \o << >> = Append(Among(pre, kinds), s[i])
      /\ Among(pre, kinds) \o << >> = Among(pre, kinds)
  BY <1>5, <1>7, ConcatEmptySeq
<1> QED BY <1>2, <1>4, <1>6, <1>8, Zenon

\* With a block of these kinds, one less is kept.
LEMMA AmongRemoveLen ==
  ASSUME NEW S, NEW s \in Seq(S), NEW i \in 1 .. Len(s), NEW kinds, s[i].what \in kinds
  PROVE  Len(Among(s, kinds)) = Len(Among(RemoveAt(s, i), kinds)) + 1
<1>1. PICK pre \in Seq(S), post \in Seq(S) : Split(s, i, pre, post)
  BY SplitAt
<1> DEFINE P == Among(pre, kinds)
           Q == Among(post, kinds)
<1>2. /\ Among(s, kinds) = Step(P, s[i], kinds) \o Q
      /\ Among(RemoveAt(s, i), kinds) = P \o Q
  BY <1>1, AmongSplit
<1>3. P \in Seq(S) /\ Q \in Seq(S)
  BY AmongSeq
<1>4. Step(P, s[i], kinds) = Append(P, s[i])
  BY DEF Step
<1> HIDE DEF P, Q
<1>5. s[i] \in S
  OBVIOUS
<1>6. Len(Append(P, s[i]) \o Q) = Len(P \o Q) + 1
  BY <1>3, <1>5
<1> QED BY <1>2, <1>4, <1>6

-----------------------------------------------------------------------------
(* A stack that holds, for each block of a sequence, its image under f.    *)

Images(f, s) == [i \in DOMAIN s |-> f[s[i]]]

PushesImage(f, s, e) ==
  /\ Images(f, Append(s, e)) = Append(Images(f, s), f[e])
  /\ Len(Images(f, s)) = Len(s)
  /\ \E T : Images(f, s) \in Seq(T) /\ f[e] \in T

\* What is left of the stack t is of the sequence s.
PopsImage(f, t, s, e) ==
  /\ t # << >> /\ Last(t) = f[e] /\ t[Len(t)] = f[e]
  /\ Front(t) = Images(f, s)
  /\ RemoveAt(t, Len(t)) = Images(f, s)

\* A block that begins pushes its image.
LEMMA ImagesAppend ==
  ASSUME NEW D, NEW f, NEW s \in Seq(D), NEW e \in D
  PROVE  PushesImage(f, s, e)
<1> DEFINE T == {f[d] : d \in D}
           t == Append(s, e)
           F == Images(f, s)
           G == Images(f, t)
           H == Append(F, f[e])
<1>1. f[e] \in T /\ \A i \in 1 .. Len(s) : f[s[i]] \in T
  OBVIOUS
<1>2. /\ Len(s) \in Nat /\ DOMAIN s = 1 .. Len(s)
      /\ t \in Seq(D) /\ Len(t) = Len(s) + 1 /\ DOMAIN t = 1 .. Len(s) + 1
      /\ t[Len(s) + 1] = e /\ \A i \in 1 .. Len(s) : t[i] = s[i]
  OBVIOUS
<1> HIDE DEF T, t
<1>3. F = [i \in 1 .. Len(s) |-> f[s[i]]] /\ G = [i \in 1 .. Len(s) + 1 |-> f[t[i]]]
  BY <1>2 DEF Images
<1>4. F \in Seq(T) /\ Len(F) = Len(s)
  BY <1>1, <1>2, <1>3
<1>5. (\A i \in 1 .. Len(s) : f[t[i]] \in T) /\ f[t[Len(s) + 1]] \in T
  BY <1>1, <1>2
<1>6. \A i \in 1 .. Len(s) + 1 : f[t[i]] \in T
  BY <1>2, <1>5
<1>7. G \in Seq(T) /\ Len(G) = Len(s) + 1
  BY <1>2, <1>3, <1>6
<1>8. H \in Seq(T) /\ Len(H) = Len(s) + 1
  BY <1>1, <1>4
<1>9. \A i \in 1 .. Len(G) : G[i] = H[i]
  <2>1. \A i \in 1 .. Len(s) : G[i] = f[s[i]] /\ H[i] = F[i] /\ F[i] = f[s[i]]
    BY <1>1, <1>2, <1>3, <1>4
  <2>2. G[Len(s) + 1] = f[e] /\ H[Len(s) + 1] = f[e]
    BY <1>1, <1>2, <1>3, <1>4
  <2> HIDE DEF G, H, F
  <2> QED BY <1>2, <1>7, <2>1, <2>2
<1> HIDE DEF F, G, H
<1>10. G = H
  BY <1>7, <1>8, <1>9, SeqEqual
<1> QED BY <1>1, <1>4, <1>10, Zenon DEF t, F, G, H, PushesImage

\* A block that ends, the last one of the sequence, has its image on top.
LEMMA ImagesEnd ==
  ASSUME NEW D, NEW f, NEW s \in Seq(D), NEW e \in D
  PROVE  PopsImage(f, Images(f, Append(s, e)), s, e)
<1> DEFINE F == Images(f, s)
           t == Images(f, Append(s, e))
           x == f[e]
<1>1. PushesImage(f, s, e)
  BY ImagesAppend
<1>2. PICK T : F \in Seq(T) /\ x \in T
  BY <1>1, Zenon DEF PushesImage
<1>3. t = Append(F, x)
  BY <1>1, Zenon DEF PushesImage
<1> HIDE DEF F, x, t
<1>4. Extends(t, F, x)
  BY <1>2, <1>3, AppendEnds, Zenon
<1> QED BY <1>4, Zenon DEF Extends, F, x, t, PopsImage

\* No blocks have no images.
LEMMA ImagesEmpty ==
  ASSUME NEW f PROVE Images(f, << >>) = << >>
BY DEF Images

-----------------------------------------------------------------------------
(* Types, and the order of the blocks in flight                            *)

\* What the host has open is a sequence of these, created is one of those.
Numbers == Int \cup Ids

HostBlocks ==
  [what : KernelKinds \cup {"region", "copy", "fence", "section"},
   name : Names \cup {"", ToolFence}, num : Numbers, at : Nat]

HostSections == [name : Names, num : Numbers]

HostType ==
  /\ begun \in Nat
  /\ open \in Seq(HostBlocks)
  /\ created \in Seq(HostSections)

\* The numbers that the tools hand to the host.
CounterType ==
  /\ uniqID \in Nat
  /\ nextKernelID \in Nat
  /\ ranges \in Nat
  /\ sections \in Seq([label : Names, id : Int])

\* The blocks in flight are in the order of their begins.
InOrder ==
  /\ \A i \in 1 .. Len(open) : open[i].at < begun
  /\ \A i, j \in 1 .. Len(open) : i < j => open[i].at < open[j].at

HostInv == HostType /\ CounterType /\ InOrder

-----------------------------------------------------------------------------
(* A step of the process is one of the tool that is loaded, or its end.    *)

PowerStep ==
  /\ Power
  /\ \/ \E kind \in KernelKinds, name \in Names, reading \in Readings :
          Begins(kind, name, 0) /\ PowerBegin(name, reading)
     \/ \E i \in DOMAIN open, reading \in Readings :
          open[i].what \in KernelKinds /\ Ends(i) /\ PowerEnd(reading)

LoggerStep ==
  /\ Logger
  /\ \/ \E kind \in KernelKinds, name \in Names :
          Begins(kind, name, LoggerID(kind, name)) /\ LoggerBegin(kind, name)
     \/ \E name \in Names \cup {ToolFence} :
          Begins("fence", name, LoggerID("fence", name)) /\ LoggerBegin("fence", name)
     \/ \E i \in DOMAIN open :
          open[i].what \in KernelKinds \cup {"fence"} /\ Ends(i) /\ LoggerEnd(open[i].num)
     \/ \E name \in Names : Begins("region", name, 0) /\ LoggerPush(name)
     \/ \E i \in DOMAIN open : open[i].what = "region" /\ Ends(i) /\ LoggerPop
     \/ PopsTooOften /\ LoggerPop

FocusStep ==
  /\ Focus
  /\ \/ \E kind \in KernelKinds, name \in Names :
          Begins(kind, name, nextKernelID) /\ FocusBegin(kind, name)
     \/ \E i \in DOMAIN open : open[i].what \in KernelKinds /\ Ends(i) /\ FocusEnd(tool)

ChromeStep ==
  /\ Chrome
  /\ \/ \E what \in NestedKinds, name \in Names \cup {""} :
          Begins(what, name, 0) /\ begin_frame(name, what)
     \/ \E i \in DOMAIN open : open[i].what \in NestedKinds /\ Ends(i) /\ end_frame
     \/ PopsTooOften /\ end_frame

RangeStep ==
  /\ Ranges
  /\ \/ \E what \in NestedKinds, name \in Names \cup {""} :
          Begins(what, name, 0) /\ RangePush(what, name)
     \/ \E i \in DOMAIN open : open[i].what \in NestedKinds /\ Ends(i) /\ RangePop
     \/ PopsTooOften /\ RangePop
     \/ \E name \in Names \cup {ToolFence} :
          Begins("fence", name, FenceHandle(tool, name)) /\ RangeBeginFence(tool, name)
     \/ \E i \in DOMAIN open :
          open[i].what = "fence" /\ Ends(i) /\ RangeEndFence(open[i].num)
     \/ \E name \in Names : Creates(name, NewSection) /\ RangeCreateSection(name)
     \/ \E k \in DOMAIN created : Starts(created[k]) /\ RangeStartSection(created[k].num)
     \/ \E i \in DOMAIN open :
          open[i].what = "section" /\ Ends(i) /\ RangeStopSection(open[i].num)

PapiStep ==
  /\ Papi
  /\ \/ \E kind \in KernelKinds, name \in Names :
          Begins(kind, name, 0) /\ PapiBeginParallel(kind, name)
     \/ \E i \in DOMAIN open :
          open[i].what \in KernelKinds /\ Ends(i) /\ PapiEndParallel(open[i].what)
     \/ \E name \in Names : Begins("region", name, 0) /\ PapiPushRegion(name)
     \/ \E i \in DOMAIN open : open[i].what = "region" /\ Ends(i) /\ PapiPopRegion
     \/ PopsTooOften /\ PapiPopRegion
     \/ Begins("copy", "", 0) /\ PapiBeginDeepCopy
     \/ \E i \in DOMAIN open : open[i].what = "copy" /\ Ends(i) /\ PapiEndDeepCopy
     \/ \E name \in Names, id \in Ids : Creates(name, id) /\ PapiCreateSection(id, name)
     \/ \E k \in DOMAIN created : Starts(created[k]) /\ PapiStartSection(created[k].num)
     \/ \E i \in DOMAIN open :
          open[i].what = "section" /\ Ends(i) /\ PapiStopSection(open[i].num)
     \/ \E k \in DOMAIN created : Destroys(k) /\ PapiDestroySection(created[k].num)

EndStep == Finalize \/ Abort \/ UNCHANGED vars

\* Every step is one of the tools' steps or the end of the process.
LEMMA NextSteps ==
  [NextRegistry]_vars =>
    PowerStep \/ LoggerStep \/ FocusStep \/ ChromeStep \/ RangeStep \/ PapiStep \/ EndStep
<1> SUFFICES ASSUME [NextRegistry]_vars
             PROVE  PowerStep \/ LoggerStep \/ FocusStep \/ ChromeStep \/ RangeStep
                    \/ PapiStep \/ EndStep
  OBVIOUS
<1> USE DEF PowerStep, LoggerStep, FocusStep, ChromeStep, RangeStep, PapiStep
<1>1. ASSUME NEW kind \in KernelKinds, NEW name \in Names, BeginKernel(kind, name)
      PROVE  PowerStep \/ LoggerStep \/ FocusStep \/ ChromeStep \/ RangeStep \/ PapiStep
  <2>1. kind \in NestedKinds /\ name \in Names \cup {""}
    BY DEF NestedKinds
  <2> QED BY <1>1, <2>1, Zenon DEF BeginKernel
<1>2. ASSUME NEW i \in DOMAIN open, EndKernel(i)
      PROVE  PowerStep \/ LoggerStep \/ FocusStep \/ ChromeStep \/ RangeStep \/ PapiStep
  <2>1. open[i].what \in NestedKinds /\ open[i].what \in KernelKinds \cup {"fence"}
    BY <1>2 DEF NestedKinds, EndKernel
  <2> QED BY <1>2, <2>1, Zenon DEF EndKernel
<1>3. ASSUME NEW name \in Names, PushRegion(name)
      PROVE  LoggerStep \/ ChromeStep \/ RangeStep \/ PapiStep
  <2>1. "region" \in NestedKinds /\ name \in Names \cup {""}
    BY DEF NestedKinds
  <2> QED BY <1>3, <2>1, Zenon DEF PushRegion
<1>4. ASSUME PopRegion PROVE LoggerStep \/ ChromeStep \/ RangeStep \/ PapiStep
  <2>1. "region" \in NestedKinds
    BY DEF NestedKinds
  <2> QED BY <1>4, <2>1, Zenon DEF PopRegion
<1>5. ASSUME BeginDeepCopy PROVE ChromeStep \/ RangeStep \/ PapiStep
  <2>1. "copy" \in NestedKinds /\ "" \in Names \cup {""}
    BY DEF NestedKinds
  <2> QED BY <1>5, <2>1, Zenon DEF BeginDeepCopy
<1>6. ASSUME NEW i \in DOMAIN open, EndDeepCopy(i) PROVE ChromeStep \/ RangeStep \/ PapiStep
  <2>1. open[i].what \in NestedKinds
    BY <1>6 DEF NestedKinds, EndDeepCopy
  <2> QED BY <1>6, <2>1, Zenon DEF EndDeepCopy
<1>7. ASSUME NEW name \in Names \cup {ToolFence}, BeginFence(name) PROVE RangeStep \/ LoggerStep
  BY <1>7, Zenon DEF BeginFence
<1>8. ASSUME NEW i \in DOMAIN open, EndFence(i) PROVE RangeStep \/ LoggerStep
  <2>1. open[i].what \in KernelKinds \cup {"fence"}
    BY <1>8 DEF EndFence
  <2> QED BY <1>8, <2>1, Zenon DEF EndFence
<1>9. ASSUME NEW name \in Names, CreateSection(name) PROVE RangeStep \/ PapiStep
  BY <1>9, Zenon DEF CreateSection
<1>10. ASSUME NEW k \in DOMAIN created, StartSection(created[k]) PROVE RangeStep \/ PapiStep
  BY <1>10, Zenon DEF StartSection
<1>11. ASSUME NEW i \in DOMAIN open, StopSection(i) PROVE RangeStep \/ PapiStep
  BY <1>11, Zenon DEF StopSection
<1>12. ASSUME NEW k \in DOMAIN created, DestroySection(k) PROVE PapiStep
  BY <1>12, Zenon DEF DestroySection
<1>13. CASE Finalize \/ Abort \/ UNCHANGED vars
  BY <1>13, Zenon DEF EndStep
<1> HIDE DEF PowerStep, LoggerStep, FocusStep, ChromeStep, RangeStep, PapiStep
<1> QED
  BY <1>1, <1>2, <1>3, <1>4, <1>5, <1>6, <1>7, <1>8, <1>9, <1>10, <1>11, <1>12, <1>13, Zenon
  DEF NextRegistry

\* A process keeps the tool it has loaded.
LEMMA ToolStays == [NextRegistry]_vars => tool' = tool
  BY NextSteps, Zenon DEF PowerStep, LoggerStep, FocusStep, ChromeStep, RangeStep, PapiStep,
    EndStep, Finalize, Abort, vars, Papi, Ranges, Chrome, Focus, Logger, Power,
    OnlyPapi, OnlyRanges, OnlyChrome, OnlyFocus, OnlyLogger, OnlyPower

\* What a step is for the host.
HostStep ==
  \/ \E what \in KernelKinds \cup {"region", "copy", "fence"},
        name \in Names \cup {"", ToolFence}, num \in Numbers : Begins(what, name, num)
  \/ \E i \in DOMAIN open : Ends(i)
  \/ PopsTooOften
  \/ \E name \in Names, num \in Numbers : Creates(name, num)
  \/ \E k \in DOMAIN created : Destroys(k)
  \/ \E k \in DOMAIN created : Starts(created[k])
  \/ UNCHANGED trace

\* Every callback is one of the four things the host can do.
LEMMA HostSteps == HostInv /\ [NextRegistry]_vars => HostStep
<1> SUFFICES ASSUME HostInv, [NextRegistry]_vars PROVE HostStep
  OBVIOUS
<1> DEFINE whats == KernelKinds \cup {"region", "copy", "fence"}
           names == Names \cup {"", ToolFence}
<1>0. 0 \in Numbers /\ NestedKinds \subseteq whats /\ Ids \subseteq Numbers /\ Int \subseteq Numbers
  BY DEF Numbers, NestedKinds
<1>1. CASE PowerStep
  BY <1>0, <1>1 DEF PowerStep, HostStep
<1>2. CASE LoggerStep
  <2>1. \A what, name : LoggerID(what, name) \in Numbers
    BY <1>0 DEF HostInv, CounterType, LoggerID, FilteredID, NewID
  <2> QED BY <1>0, <1>2, <2>1, Zenon DEF LoggerStep, HostStep
<1>3. CASE FocusStep
  <2>1. nextKernelID \in Numbers
    BY <1>0 DEF HostInv, CounterType
  <2> QED BY <1>0, <1>3, <2>1, Zenon DEF FocusStep, HostStep
<1>4. CASE ChromeStep
  BY <1>0, <1>4, Zenon DEF ChromeStep, HostStep
<1>5. CASE RangeStep
  <2>1. \A name : FenceHandle(tool, name) \in Numbers
    BY <1>0 DEF HostInv, CounterType, FenceHandle, UINT64_MAX, NewRange
  <2>2. NewSection \in Numbers
    BY <1>0, LenProperties DEF HostInv, CounterType, NewSection
  <2> QED BY <1>0, <1>5, <2>1, <2>2, Zenon DEF RangeStep, HostStep
<1>6. CASE PapiStep
  BY <1>0, <1>6, Zenon DEF PapiStep, HostStep
<1>7. CASE EndStep
  BY <1>7, Zenon DEF EndStep, Finalize, Abort, vars, HostStep
<1> QED BY <1>1, <1>2, <1>3, <1>4, <1>5, <1>6, <1>7, NextSteps, Zenon

\* The counters stay numbers.
LEMMA CountersStep == HostInv /\ [NextRegistry]_vars => CounterType'
<1> SUFFICES ASSUME HostInv, [NextRegistry]_vars PROVE CounterType'
  OBVIOUS
<1>0. CounterType /\ HostType
  BY DEF HostInv
<1> USE DEF CounterType
<1>1. CASE PowerStep
  BY <1>0, <1>1 DEF PowerStep, Power, OnlyPower, rangeVars, loggerVars, focusVars
<1>2. CASE LoggerStep
  <2>1. UNCHANGED rangeVars /\ UNCHANGED focusVars
    BY <1>2 DEF LoggerStep, Logger, OnlyLogger
  <2>2. uniqID' = uniqID \/ uniqID' = uniqID + 1
    BY <1>2 DEF LoggerStep, LoggerBegin, LoggerEnd, LoggerPush, LoggerPop, loggerVars
  <2> QED BY <1>0, <2>1, <2>2 DEF rangeVars, focusVars
<1>3. CASE FocusStep
  <2>1. UNCHANGED rangeVars /\ UNCHANGED loggerVars
    BY <1>3 DEF FocusStep, Focus, OnlyFocus
  <2>2. nextKernelID' = nextKernelID \/ nextKernelID' = nextKernelID + 1
    BY <1>3 DEF FocusStep, FocusBegin, FocusEnd
  <2> QED BY <1>0, <2>1, <2>2 DEF rangeVars, loggerVars
<1>4. CASE ChromeStep
  BY <1>0, <1>4 DEF ChromeStep, Chrome, OnlyChrome, rangeVars, loggerVars, focusVars
<1>5. CASE RangeStep
  <2>1. UNCHANGED loggerVars /\ UNCHANGED focusVars
    BY <1>5 DEF RangeStep, Ranges, OnlyRanges
  <2>2. ranges' = ranges \/ ranges' = ranges + 1
    BY <1>5 DEF RangeStep, RangePush, RangePop, RangeBeginFence, RangeEndFence, RangeStart,
      RangeCreateSection, RangeStartSection, RangeStopSection, RangeEnd, NewRange, rangeVars
  <2>3. \/ sections' = sections
        \/ \E name \in Names : RangeCreateSection(name)
        \/ \E k \in DOMAIN created : RangeStartSection(created[k].num)
    BY <1>5 DEF RangeStep, RangePush, RangePop, RangeBeginFence, RangeEndFence, RangeStart,
      RangeStopSection, RangeEnd, rangeVars
  <2>4. sections' \in Seq([label : Names, id : Int])
    <3>1. ASSUME NEW name \in Names, RangeCreateSection(name)
          PROVE  sections' \in Seq([label : Names, id : Int])
      <4>1. [label |-> name, id |-> UINT64_MAX] \in [label : Names, id : Int]
        BY DEF UINT64_MAX
      <4> QED BY <1>0, <3>1, <4>1, AppendProperties DEF RangeCreateSection
    <3>2. ASSUME NEW sID, RangeStartSection(sID)
          PROVE  sections' \in Seq([label : Names, id : Int])
      <4> DEFINE T == [label : Names, id : Int]
      <4>1. sections' = [sections EXCEPT ![sID + 1].id = NewRange] /\ NewRange \in Int
        BY <1>0, <3>2 DEF RangeStartSection, StartedSection, NewRange
      <4>2. sections \in [1 .. Len(sections) -> T] /\ Len(sections) \in Nat
        <5>1. sections \in Seq(T)
          BY <1>0
        <5> HIDE DEF T
        <5> QED BY <5>1, LenProperties
      <4>3. \A r \in T, n \in Int : [r EXCEPT !.id = n] \in T
        OBVIOUS
      <4>4. sections' \in [1 .. Len(sections) -> T]
        BY <4>1, <4>2, <4>3
      <4> HIDE DEF T
      <4>5. sections' \in Seq(T)
        BY <4>2, <4>4
      <4> QED BY <4>5 DEF T
    <3> QED BY <1>0, <2>3, <3>1, <3>2
  <2> QED BY <1>0, <2>1, <2>2, <2>4 DEF loggerVars, focusVars
<1>6. CASE PapiStep
  BY <1>0, <1>6 DEF PapiStep, Papi, OnlyPapi, rangeVars, loggerVars, focusVars
<1>7. CASE EndStep
  BY <1>0, <1>7 DEF EndStep, Finalize, Abort, vars, rangeVars, loggerVars, focusVars
<1> QED BY <1>1, <1>2, <1>3, <1>4, <1>5, <1>6, <1>7, NextSteps, Zenon

\* The host's blocks and sections keep their types.
LEMMA HostTypeStep == HostInv /\ [NextRegistry]_vars => HostType'
<1> SUFFICES ASSUME HostInv, HostStep PROVE HostType'
  BY HostSteps
<1>0. begun \in Nat /\ open \in Seq(HostBlocks) /\ created \in Seq(HostSections)
  BY DEF HostInv, HostType
<1>8. HostBegins => begun' \in Nat
  BY <1>0 DEF HostBegins
<1>1. ASSUME NEW what \in KernelKinds \cup {"region", "copy", "fence", "section"},
             NEW name \in Names \cup {"", ToolFence}, NEW num \in Numbers,
             open' = Append(open, Block(what, name, num))
      PROVE  open' \in Seq(HostBlocks)
  <2>1. Block(what, name, num) \in HostBlocks
    BY <1>0 DEF Block, HostBlocks
  <2> HIDE DEF HostBlocks
  <2> QED BY <1>0, <1>1, <2>1, AppendProperties
<1>2. ASSUME NEW what \in KernelKinds \cup {"region", "copy", "fence"},
             NEW name \in Names \cup {"", ToolFence}, NEW num \in Numbers, Begins(what, name, num)
      PROVE  HostType'
  <2>1. open' = Append(open, Block(what, name, num))
    BY <1>2 DEF Begins
  <2>2. what \in KernelKinds \cup {"region", "copy", "fence", "section"}
    BY <1>2
  <2>3. open' \in Seq(HostBlocks)
    BY <1>1, <2>1, <2>2, Zenon
  <2>4. HostBegins /\ created' = created
    BY <1>2, Zenon DEF Begins
  <2>5. begun' \in Nat
    BY <1>8, <2>4, Zenon
  <2>6. created' \in Seq(HostSections)
    BY <1>0, <2>4, Zenon
  <2> QED BY <2>3, <2>5, <2>6, Zenon DEF HostType
<1>3. ASSUME NEW i \in DOMAIN open, Ends(i) PROVE HostType'
  <2>1. i \in 1 .. Len(open)
    BY <1>0
  <2>2. open' \in Seq(HostBlocks)
    BY <1>0, <1>3, <2>1, RemoveAtIs DEF Ends
  <2> QED BY <1>0, <1>3, <2>2 DEF Ends, HostType
<1>4. ASSUME NEW name \in Names, NEW num \in Numbers, Creates(name, num) PROVE HostType'
  <2>1. [name |-> name, num |-> num] \in HostSections
    BY DEF HostSections
  <2>2. created' \in Seq(HostSections)
    BY <1>0, <1>4, <2>1, AppendProperties DEF Creates
  <2> QED BY <1>0, <1>4, <2>2 DEF Creates, HostBegins, HostType
<1>5. ASSUME NEW k \in DOMAIN created, Destroys(k) PROVE HostType'
  <2>1. k \in 1 .. Len(created)
    BY <1>0
  <2>2. created' \in Seq(HostSections)
    BY <1>0, <1>5, <2>1, RemoveAtIs DEF Destroys
  <2> QED BY <1>0, <1>5, <2>2 DEF Destroys, HostType
<1>6. ASSUME NEW k \in DOMAIN created, Starts(created[k]) PROVE HostType'
  <2>1. created[k] \in HostSections
    BY <1>0
  <2>2. created[k].name \in Names \cup {"", ToolFence} /\ created[k].num \in Numbers
    BY <2>1 DEF HostSections
  <2>3. open' = Append(open, Block("section", created[k].name, created[k].num))
    BY <1>6 DEF Starts
  <2>4. open' \in Seq(HostBlocks)
    BY <1>1, <2>2, <2>3, Zenon
  <2> QED BY <1>0, <1>6, <2>4 DEF Starts, HostBegins, HostType
<1>7. CASE PopsTooOften \/ UNCHANGED trace
  BY <1>0, <1>7 DEF PopsTooOften, trace, HostType
<1> QED BY <1>2, <1>3, <1>4, <1>5, <1>6, <1>7, Zenon DEF HostStep

\* A block that begins is later than all in flight, and one that ends leaves the
\* rest in order.
LEMMA InOrderStep == HostInv /\ [NextRegistry]_vars => InOrder'
<1> SUFFICES ASSUME HostInv, HostStep PROVE InOrder'
  BY HostSteps
<1>0. /\ begun \in Nat /\ open \in Seq(HostBlocks) /\ InOrder
      /\ \A i \in 1 .. Len(open) : open[i].at \in Nat
  <2>1. open \in Seq(HostBlocks)
    BY DEF HostInv, HostType
  <2>2. \A i \in 1 .. Len(open) : open[i] \in HostBlocks
    BY <2>1
  <2> QED BY <2>1, <2>2 DEF HostInv, HostType, HostBlocks
<1> HIDE DEF HostBlocks
<1>1. ASSUME NEW what, NEW name, NEW num, HostBegins, open' = Append(open, Block(what, name, num))
      PROVE  InOrder'
  <2>1. /\ Len(open') = Len(open) + 1
        /\ open'[Len(open) + 1].at = begun
        /\ \A i \in 1 .. Len(open) : open'[i] = open[i]
    BY <1>0, <1>1 DEF Block
  <2> QED BY <1>0, <1>1, <2>1 DEF InOrder, HostBegins
<1>2. ASSUME NEW i \in DOMAIN open, Ends(i) PROVE InOrder'
  <2>1. i \in 1 .. Len(open) /\ open' = RemoveAt(open, i) /\ begun' = begun
    BY <1>0, <1>2 DEF Ends
  <2>2. /\ Len(open') = Len(open) - 1
        /\ \A k \in 1 .. Len(open) - 1 : open'[k] = IF k < i THEN open[k] ELSE open[k + 1]
    BY <1>0, <2>1, RemoveAtIs
  <2>3. ASSUME NEW k \in 1 .. Len(open')
        PROVE  \E j \in 1 .. Len(open) : open'[k] = open[j] /\ j = IF k < i THEN k ELSE k + 1
    BY <1>0, <2>1, <2>2
  <2>4. \A k \in 1 .. Len(open') : open'[k].at < begun'
    BY <1>0, <2>1, <2>3 DEF InOrder
  <2>5. \A k, l \in 1 .. Len(open') : k < l => open'[k].at < open'[l].at
    <3>1. SUFFICES ASSUME NEW k \in 1 .. Len(open'), NEW l \in 1 .. Len(open'), k < l
                   PROVE  open'[k].at < open'[l].at
      OBVIOUS
    <3>2. PICK j \in 1 .. Len(open) : open'[k] = open[j] /\ j = IF k < i THEN k ELSE k + 1
      BY <2>3
    <3>3. PICK m \in 1 .. Len(open) : open'[l] = open[m] /\ m = IF l < i THEN l ELSE l + 1
      BY <2>3
    <3>4. j < m
      BY <1>0, <2>1, <2>2, <3>1, <3>2, <3>3
    <3> QED BY <1>0, <3>2, <3>3, <3>4 DEF InOrder
  <2> QED BY <2>4, <2>5 DEF InOrder
<1>3. CASE PopsTooOften \/ UNCHANGED trace
  BY <1>0, <1>3 DEF PopsTooOften, trace, InOrder
<1>4. ASSUME NEW name, NEW num, Creates(name, num) PROVE InOrder'
  BY <1>0, <1>4 DEF Creates, HostBegins, InOrder
<1>5. ASSUME NEW k \in DOMAIN created, Destroys(k) PROVE InOrder'
  BY <1>0, <1>5 DEF Destroys, InOrder
<1>6. ASSUME NEW k \in DOMAIN created, Starts(created[k]) PROVE InOrder'
  BY <1>1, <1>6 DEF Starts
<1>7. ASSUME NEW what, NEW name, NEW num, Begins(what, name, num) PROVE InOrder'
  BY <1>1, <1>7 DEF Begins
<1> QED BY <1>2, <1>3, <1>4, <1>5, <1>6, <1>7, Zenon DEF HostStep

\* The host starts with nothing in flight.
LEMMA HostInvInit == InitRegistry => HostInv
<1> SUFFICES ASSUME InitRegistry PROVE HostInv
  OBVIOUS
<1>1. /\ open = << >> /\ created = << >> /\ begun = 0
      /\ ranges = 0 /\ sections = << >> /\ nextKernelID = 0 /\ uniqID = 0
  BY DEF InitRegistry, InitTrace, InitRanges, InitFocus, InitLogger
<1>2. HostType /\ CounterType
  BY <1>1 DEF HostType, CounterType
<1>3. InOrder
  BY <1>1 DEF InOrder
<1> QED BY <1>2, <1>3 DEF HostInv

\* A step keeps the host's invariant.
LEMMA HostInvStep == HostInv /\ [NextRegistry]_vars => HostInv'
  BY HostTypeStep, CountersStep, InOrderStep, Zenon DEF HostInv

\* So it always holds.
LEMMA HostInvariant == RegistrySpec => []HostInv
  BY HostInvInit, HostInvStep, PTL DEF RegistrySpec

\* A block that is in flight has begun.
LEMMA BegunBefore == HostInv /\ open # << >> => begun \in Nat \ {0}
<1> SUFFICES ASSUME HostInv, open # << >> PROVE begun \in Nat \ {0}
  OBVIOUS
<1>1. open \in Seq(HostBlocks) /\ begun \in Nat /\ InOrder
  BY DEF HostInv, HostType
<1>2. 1 \in 1 .. Len(open) /\ open[1] \in HostBlocks
  BY <1>1
<1>3. open[1].at \in Nat
  BY <1>2 DEF HostBlocks
<1> QED BY <1>1, <1>2, <1>3 DEF InOrder

\* What a begin and an end do to the open blocks of some kinds.
LEMMA BeginsView ==
  ASSUME HostInv, HostInv', NEW what, NEW name, NEW num,
         open' = Append(open, Block(what, name, num))
  PROVE  \A kinds : OpenKinds(kinds)' = Step(OpenKinds(kinds), Block(what, name, num), kinds)
<1> DEFINE b == Block(what, name, num)
<1>1. open \in Seq(HostBlocks) /\ open' \in Seq(HostBlocks)
  BY DEF HostInv, HostType
<1>2. b \in HostBlocks
  <2> HIDE DEF b
  <2>1. Len(open) + 1 \in 1 .. Len(open') /\ open'[Len(open) + 1] = b
    BY <1>1 DEF b
  <2>2. open'[Len(open) + 1] \in HostBlocks
    BY <1>1, <2>1, ElementOfSeq
  <2> QED BY <2>1, <2>2
<1> HIDE DEF b
<1>3. ASSUME NEW kinds PROVE Among(Append(open, b), kinds) = Step(Among(open, kinds), b, kinds)
  BY <1>1, <1>2, AmongAppend
<1> QED BY <1>3 DEF OpenKinds, b

\* A block that the host has begun.
LEMMA BlockTyped ==
  ASSUME HostInv, HostInv', NEW b, open' = Append(open, b)
  PROVE  b \in HostBlocks
<1>1. open \in Seq(HostBlocks) /\ open' \in Seq(HostBlocks)
  BY DEF HostInv, HostType
<1>2. Len(open) + 1 \in 1 .. Len(open') /\ open'[Len(open) + 1] = b
  BY <1>1
<1>3. open'[Len(open) + 1] \in HostBlocks
  BY <1>1, <1>2, ElementOfSeq
<1> QED BY <1>2, <1>3

\* The blocks in flight differ, by the time of their begins.
LEMMA BeginsSet ==
  ASSUME HostInv, HostInv', NEW b, open' = Append(open, b)
  PROVE  ToSet(open') = ToSet(open) \cup {b}
<1>1. open \in Seq(HostBlocks) /\ b \in HostBlocks
  BY BlockTyped DEF HostInv, HostType
<1> QED BY <1>1, ToSetAppend

\* A block that ends leaves all the others in flight: no two are the same.
LEMMA EndsSet ==
  ASSUME HostInv, NEW i \in DOMAIN open, open' = RemoveAt(open, i)
  PROVE  ToSet(open') = ToSet(open) \ {open[i]}
<1>1. open \in Seq(HostBlocks) /\ i \in 1 .. Len(open) /\ DOMAIN open = 1 .. Len(open)
  BY DEF HostInv, HostType
<1>2. /\ open' \in Seq(HostBlocks) /\ Len(open') = Len(open) - 1
      /\ \A k \in 1 .. Len(open) - 1 : open'[k] = IF k < i THEN open[k] ELSE open[k + 1]
  BY <1>1, RemoveAtIs
<1>3. \A j \in 1 .. Len(open) : j # i => open[j] # open[i]
  <2>1. SUFFICES ASSUME NEW j \in 1 .. Len(open), open[j] = open[i] PROVE j = i
    OBVIOUS
  <2>2. InOrder
    BY DEF HostInv
  <2>3. ~ (j < i) /\ ~ (i < j)
    <3>1. open[i] \in HostBlocks
      BY <1>1
    <3>2. open[i].at \in Nat
      BY <3>1 DEF HostBlocks
    <3> QED BY <1>1, <2>1, <2>2, <3>2 DEF InOrder
  <2> QED BY <1>1, <2>3
<1>4. ASSUME NEW k \in 1 .. Len(open')
      PROVE  \E j \in 1 .. Len(open) : j # i /\ open'[k] = open[j]
  BY <1>1, <1>2
<1>5. ASSUME NEW j \in 1 .. Len(open), j # i
      PROVE  \E k \in 1 .. Len(open') : open'[k] = open[j]
  <2>1. CASE j < i
    <3>1. j \in 1 .. Len(open') /\ open'[j] = open[j]
      BY <1>1, <1>2, <2>1
    <3> QED BY <3>1
  <2>2. CASE i < j
    <3>1. j - 1 \in 1 .. Len(open') /\ open'[j - 1] = open[j]
      BY <1>1, <1>2, <2>2
    <3> QED BY <3>1
  <2> QED BY <1>1, <1>5, <2>1, <2>2
<1>6. DOMAIN open' = 1 .. Len(open')
  BY <1>2
<1>7. /\ \A x : x \in ToSet(open) <=> \E j \in 1 .. Len(open) : x = open[j]
      /\ \A x : x \in ToSet(open') <=> \E k \in 1 .. Len(open') : x = open'[k]
  BY <1>1, <1>6 DEF ToSet
<1> DEFINE B == ToSet(open)
           C == ToSet(open')
<1>8. ASSUME NEW x \in C PROVE x \in B /\ x # open[i]
  <2>1. PICK k \in 1 .. Len(open') : x = open'[k]
    BY <1>7
  <2>2. PICK j \in 1 .. Len(open) : j # i /\ open'[k] = open[j]
    BY <1>4
  <2> QED BY <1>3, <1>7, <2>1, <2>2
<1>9. ASSUME NEW x \in B, x # open[i] PROVE x \in C
  <2>1. PICK j \in 1 .. Len(open) : x = open[j]
    BY <1>7
  <2>2. PICK k \in 1 .. Len(open') : open'[k] = open[j]
    BY <1>5, <1>9, <2>1
  <2> QED BY <1>7, <2>1, <2>2
<1> HIDE DEF B, C
<1>10. C = B \ {open[i]}
  BY <1>8, <1>9
<1> QED BY <1>10 DEF B, C

\* While nothing begins or ends, nor does anything of some kinds.
LEMMA SameView ==
  ASSUME open' = open
  PROVE  \A kinds : OpenKinds(kinds)' = OpenKinds(kinds)
  BY DEF OpenKinds

\* What the end of a block does to the blocks of some kinds.
LEMMA EndsView ==
  ASSUME HostInv, NEW i \in DOMAIN open, open' = RemoveAt(open, i)
  PROVE  /\ \A kinds : open[i].what \notin kinds => OpenKinds(kinds)' = OpenKinds(kinds)
         /\ \A kinds : open[i].what \in kinds =>
              Len(OpenKinds(kinds)) = Len(OpenKinds(kinds)') + 1
         /\ \A kinds :
              open[i].what \in kinds /\ (\A k \in i + 1 .. Len(open) : open[k].what \notin kinds)
                => OpenKinds(kinds) = Append(OpenKinds(kinds)', open[i])
<1>1. open \in Seq(HostBlocks) /\ i \in 1 .. Len(open)
  BY DEF HostInv, HostType
<1>2. ASSUME NEW kinds, open[i].what \notin kinds
      PROVE  OpenKinds(kinds)' = OpenKinds(kinds)
  BY <1>1, <1>2, AmongRemoveOther DEF OpenKinds
<1>3. ASSUME NEW kinds, open[i].what \in kinds
      PROVE  Len(OpenKinds(kinds)) = Len(OpenKinds(kinds)') + 1
  BY <1>1, <1>3, AmongRemoveLen DEF OpenKinds
<1>4. ASSUME NEW kinds, open[i].what \in kinds,
             \A k \in i + 1 .. Len(open) : open[k].what \notin kinds
      PROVE  OpenKinds(kinds) = Append(OpenKinds(kinds)', open[i])
  BY <1>1, <1>4, AmongRemoveLast DEF OpenKinds
<1> QED BY <1>2, <1>3, <1>4

ViewType ==
  \A kinds : /\ OpenKinds(kinds) \in Seq(HostBlocks)
             /\ ToSet(OpenKinds(kinds)) = {b \in ToSet(open) : b.what \in kinds}

\* The blocks of some kinds are blocks of the host, all of these kinds.
LEMMA ViewTyped == HostInv => ViewType
<1> SUFFICES ASSUME HostInv, NEW kinds
             PROVE  /\ OpenKinds(kinds) \in Seq(HostBlocks)
                    /\ ToSet(OpenKinds(kinds)) = {b \in ToSet(open) : b.what \in kinds}
  BY DEF ViewType
<1>1. open \in Seq(HostBlocks)
  BY DEF HostInv, HostType
<1> QED BY <1>1, AmongSeq, AmongSet DEF OpenKinds

\* And so they are after a step.
LEMMA ViewTypedNext == HostInv' => ViewType'
  BY ViewTyped, PTL

\* At most one kernel is in flight unless the host let one begin within another.
OneKernel == "kernels" \notin slips => Len(OpenKinds(KernelKinds)) <= 1

\* Kernels only come to overlap when the host slips.
LEMMA OneKernelStep ==
  HostInv /\ OneKernel /\ [NextRegistry]_vars => OneKernel'
<1> SUFFICES ASSUME HostInv, OneKernel, [NextRegistry]_vars, "kernels" \notin slips'
             PROVE  Len(OpenKinds(KernelKinds))' <= 1
  BY DEF OneKernel
<1> DEFINE A == OpenKinds(KernelKinds)
<1>0. HostStep /\ HostInv'
  BY HostSteps, HostInvStep
<1>a. A \in Seq(HostBlocks) /\ ToSet(A) = {b \in ToSet(open) : b.what \in KernelKinds}
  BY ViewTyped DEF ViewType
<1>1. ASSUME NEW what, NEW name, NEW num, Begins(what, name, num) PROVE Len(A') <= 1
  <2> DEFINE b == Block(what, name, num)
  <2>1. open' = Append(open, b)
    BY <1>1 DEF Begins
  <2>2. OpenKinds(KernelKinds)' = Step(A, b, KernelKinds)
    BY <1>0, <2>1, BeginsView
  <2>3. b.what = what
    BY DEF Block
  <2> HIDE DEF b
  <2>4. "kernels" \notin slips
    BY <1>1 DEF Begins, Slips
  <2>5. CASE what \in KernelKinds
    <3>1. \A c \in ToSet(open) : c.what \notin KernelKinds
      BY <1>1, <2>5 DEF Begins, Slips
    <3>2. ToSet(A) = {}
      BY <1>a, <3>1
    <3>3. A = << >>
      BY <1>a, <3>2 DEF ToSet
    <3>4. A' = Append(<< >>, b)
      BY <2>2, <2>3, <2>5, <3>3 DEF Step
    <3> QED BY <3>4
  <2>6. CASE what \notin KernelKinds
    BY <2>2, <2>3, <2>4, <2>6 DEF Step, OneKernel
  <2> QED BY <2>5, <2>6
<1>2. ASSUME NEW i \in DOMAIN open, Ends(i) PROVE Len(A') <= 1
  <2>1. open' = RemoveAt(open, i) /\ "kernels" \notin slips
    BY <1>2 DEF Ends, Slips
  <2>2. /\ open[i].what \notin KernelKinds => A' = A
        /\ open[i].what \in KernelKinds => Len(A) = Len(A') + 1
    BY <2>1, EndsView
  <2>3. A' \in Seq(HostBlocks) /\ Len(A') \in Nat
    BY <1>0, ViewTypedNext, LenProperties DEF ViewType
  <2> QED BY <2>1, <2>2, <2>3 DEF OneKernel
<1>3. ASSUME open' = open, "kernels" \notin slips PROVE Len(A') <= 1
  BY <1>3, SameView DEF OneKernel
<1>4. ASSUME NEW k \in DOMAIN created, Starts(created[k]) PROVE Len(A') <= 1
  <2> DEFINE b == Block("section", created[k].name, created[k].num)
  <2>1. open' = Append(open, b) /\ "kernels" \notin slips
    BY <1>4 DEF Starts
  <2>2. OpenKinds(KernelKinds)' = Step(A, b, KernelKinds)
    BY <1>0, <2>1, BeginsView
  <2>3. b.what \notin KernelKinds
    BY HostTraceAssumption DEF Block
  <2> HIDE DEF b
  <2> QED BY <2>1, <2>2, <2>3 DEF Step, OneKernel
<1>5. ASSUME NEW name, NEW num, Creates(name, num) PROVE Len(A') <= 1
  BY <1>3, <1>5 DEF Creates
<1>6. ASSUME NEW k \in DOMAIN created, Destroys(k) PROVE Len(A') <= 1
  BY <1>3, <1>6 DEF Destroys
<1>7. ASSUME PopsTooOften PROVE Len(A') <= 1
  BY <1>3, <1>7 DEF PopsTooOften
<1>8. ASSUME UNCHANGED trace PROVE Len(A') <= 1
  BY <1>3, <1>8 DEF trace
<1> HIDE DEF A
<1>9. Len(A') <= 1
  BY <1>0, <1>1, <1>2, <1>4, <1>5, <1>6, <1>7, <1>8, Zenon DEF HostStep
<1> QED BY <1>9 DEF A

\* The one kernel in flight ends.
LEMMA OnlyKernelEnds ==
  ASSUME HostInv, HostInv', Len(OpenKinds(KernelKinds)) <= 1,
         NEW i \in DOMAIN open, open' = RemoveAt(open, i), open[i].what \in KernelKinds
  PROVE  OpenKinds(KernelKinds) = <<open[i]>> /\ OpenKinds(KernelKinds)' = << >>
<1> DEFINE A == OpenKinds(KernelKinds)
<1>1. A \in Seq(HostBlocks) /\ ToSet(A) = {b \in ToSet(open) : b.what \in KernelKinds}
  BY ViewTyped DEF ViewType
<1>2. open[i] \in ToSet(A)
  BY <1>1 DEF ToSet
<1>3. Len(A) = Len(A') + 1
  BY EndsView
<1>4. A' \in Seq(HostBlocks) /\ Len(A') \in Nat
  BY ViewTypedNext, LenProperties DEF ViewType
<1> HIDE DEF A
<1>5. Len(A) <= 1
  BY DEF A
<1>6. Len(A) = 1 /\ Len(A') = 0
  BY <1>3, <1>4, <1>5
<1>7. A[1] = open[i]
  BY <1>1, <1>2, <1>6 DEF ToSet
<1>8. A = <<open[i]>> /\ A' = << >>
  BY <1>1, <1>4, <1>6, <1>7
<1> QED BY <1>8 DEF A

\* The last of the blocks of one kind ends, and while blocks nest the last of all that
\* are to nest.
LEMMA KindEnds ==
  ASSUME HostInv, NEW i \in DOMAIN open, Ends(i), open[i].what \in NestedKinds
  PROVE  \A kind : open[i].what = kind =>
           OpenKinds({kind}) = Append(OpenKinds({kind})', open[i])
<1> SUFFICES ASSUME NEW kind, open[i].what = kind
             PROVE  OpenKinds({kind}) = Append(OpenKinds({kind})', open[i])
  OBVIOUS
<1>1. open' = RemoveAt(open, i) /\ \A k \in i + 1 .. Len(open) : open[k].what \notin {kind}
  BY DEF Ends, MayEnd
<1> QED BY <1>1, EndsView

\* While blocks nest, the one that ends is the innermost.
LEMMA NestedEnds ==
  ASSUME HostInv, NEW i \in DOMAIN open, Ends(i), open[i].what \in NestedKinds,
         "overlap" \notin slips'
  PROVE  OpenKinds(NestedKinds) = Append(OpenKinds(NestedKinds)', open[i])
<1>1. open' = RemoveAt(open, i)
  BY DEF Ends
<1>2. \A k \in i + 1 .. Len(open) : open[k].what \notin NestedKinds
  BY DEF Ends, Slips
<1> QED BY <1>1, <1>2, EndsView

\* A slip of the host is never forgotten.
LEMMA SlipsStay == HostInv /\ [NextRegistry]_vars => slips \subseteq slips'
<1> SUFFICES ASSUME HostStep PROVE slips \subseteq slips'
  BY HostSteps
<1> QED BY DEF HostStep, Begins, Slips, Ends, PopsTooOften, Creates, Destroys, Starts, trace

-----------------------------------------------------------------------------
(* Variorum                                                                *)

\* The periods of the records that end are one after the other, and none ends later
\* than next; only the records of odd may not end.
PeriodsUpTo(recs, next, odd) ==
  /\ \E S : recs \in Seq(S)
  /\ \A i \in 1 .. Len(recs) :
       /\ recs[i].from \in Nat /\ recs[i].to \in Nat
       /\ i \notin odd => recs[i].to # 0
       /\ recs[i].to # 0 => 0 < recs[i].from /\ recs[i].from <= recs[i].to
       /\ recs[i].to <= next
  /\ \A i, j \in 1 .. Len(recs) : i < j /\ recs[i].to # 0 /\ recs[j].to # 0 =>
       recs[i].to <= recs[j].from

\* The second reading is made where it completes a record, and a first reading with a
\* power has a time, unless it lacked one.
PairsOpen ==
  /\ global_power = <<global_power[1], 0>>
  /\ global_time \in Nat \X Nat
  /\ global_time[1] = 0 => global_time[2] = 0
  /\ global_power[1] # 0 /\ Len(records) + 1 \notin untimed => global_time[1] # 0
  /\ global_time[1] <= 2 * begun

PowerInv ==
  /\ PairsOpen
  /\ PeriodsUpTo(records, 2 * begun, untimed)
  /\ global_time[1] # 0 => PeriodsUpTo(records, global_time[1], untimed)

\* What lies before a moment lies before a later one.
LEMMA PeriodsLater ==
  ASSUME NEW recs, NEW m \in Nat, NEW n \in Nat, m <= n,
         NEW odd, NEW odder, odd \subseteq odder, PeriodsUpTo(recs, m, odd)
  PROVE  PeriodsUpTo(recs, n, odder)
  BY DEF PeriodsUpTo

\* A period that starts where the others have ended can be added, and a record that
\* does not end where it is allowed to.
LEMMA PeriodAdded ==
  ASSUME NEW recs, NEW m \in Nat, NEW n \in Nat, NEW odd, PeriodsUpTo(recs, m, odd), m <= n,
         NEW r, r.from \in Nat, r.to \in Nat, r.to <= n,
         Len(recs) + 1 \notin odd => r.to # 0,
         r.to # 0 => m <= r.from /\ 0 < r.from /\ r.from <= r.to
  PROVE  PeriodsUpTo(Append(recs, r), n, odd)
<1> DEFINE new == Append(recs, r)
<1>1. PICK S : recs \in Seq(S)
  BY DEF PeriodsUpTo
<1>2. recs \in Seq(S \cup {r}) /\ r \in S \cup {r}
  BY <1>1, SeqMonotonic
<1>3. /\ new \in Seq(S \cup {r})
      /\ Len(new) = Len(recs) + 1
      /\ \A i \in 1 .. Len(recs) : new[i] = recs[i]
      /\ new[Len(recs) + 1] = r
      /\ Len(recs) \in Nat
  BY <1>2
<1> HIDE DEF new
<1>4. \A i \in 1 .. Len(new) :
        /\ new[i].from \in Nat /\ new[i].to \in Nat
        /\ i \notin odd => new[i].to # 0
        /\ new[i].to # 0 => 0 < new[i].from /\ new[i].from <= new[i].to
        /\ new[i].to <= n
  BY <1>3 DEF PeriodsUpTo
<1>5. \A i, j \in 1 .. Len(new) : i < j /\ new[i].to # 0 /\ new[j].to # 0 =>
        new[i].to <= new[j].from
  <2> SUFFICES ASSUME NEW i \in 1 .. Len(new), NEW j \in 1 .. Len(new),
                      i < j, new[i].to # 0, new[j].to # 0
               PROVE  new[i].to <= new[j].from
    OBVIOUS
  <2>1. i \in 1 .. Len(recs) /\ new[i] = recs[i] /\ recs[i].to \in Nat /\ recs[i].to <= m
    BY <1>3 DEF PeriodsUpTo
  <2>2. CASE j \in 1 .. Len(recs)
    BY <1>3, <2>1, <2>2 DEF PeriodsUpTo
  <2>3. CASE j = Len(recs) + 1
    BY <1>3, <2>1, <2>3
  <2> QED BY <1>3, <2>2, <2>3
<1>6. PeriodsUpTo(new, n, odd)
  BY <1>3, <1>4, <1>5 DEF PeriodsUpTo
<1> QED BY <1>6 DEF new

\* A reading with a power has a socket; and a time, unless it lacks one.
LEMMA ReadingIs ==
  ASSUME NEW reading \in Readings, NEW now
  PROVE  /\ reading.gpu => reading.socket
         /\ Timestamp(reading, now) = now \/ Timestamp(reading, now) = 0
         /\ reading.gpu /\ reading.power # 0 /\ ~ LacksTime(reading) =>
              Timestamp(reading, now) = now
<1>1. CASE reading \in [socket : {TRUE}, timestamp : BOOLEAN, gpu : {TRUE}, power : Powers]
  <2>1. reading.socket = TRUE
    BY <1>1
  <2> QED BY <2>1, Zenon DEF Timestamp, LacksTime
<1>2. CASE reading \in [socket : {TRUE}, timestamp : BOOLEAN, gpu : {FALSE}]
  <2>1. reading.socket = TRUE
    BY <1>2
  <2> QED BY <2>1, Zenon DEF Timestamp, LacksTime
<1>3. CASE reading \in [socket : {FALSE}, timestamp : {FALSE}, gpu : {FALSE}]
  <2>1. reading.gpu = FALSE
    BY <1>3
  <2> QED BY <2>1, Zenon DEF Timestamp, LacksTime
<1> QED BY <1>1, <1>2, <1>3, Zenon DEF Readings

\* One call of variorum_call, at a time that is not before any that was noted.
LEMMA VariorumCall ==
  ASSUME PowerInv, begun \in Nat, begun' \in Nat,
         NEW name, NEW reading \in Readings, NEW now \in Nat \ {0},
         2 * begun <= now, now <= 2 * begun', variorum_call(name, reading, now)
  PROVE  PowerInv'
<1> DEFINE time  == IF reading.socket THEN Noted(global_time, Timestamp(reading, now))
                                      ELSE global_time
           power == IF reading.gpu THEN Noted(global_power, reading.power) ELSE global_power
<1>0. PICK t, v, n, l : /\ t = global_time[1] /\ v = Timestamp(reading, now)
                        /\ n = 2 * begun' /\ l = Len(records) + 1
  OBVIOUS
<1>1. /\ t \in Nat /\ global_time[2] \in Nat /\ global_time = <<t, global_time[2]>>
      /\ t = 0 => global_time = <<0, 0>>
      /\ global_power = <<global_power[1], 0>>
      /\ global_power[1] # 0 /\ l \notin untimed => t # 0
      /\ t <= 2 * begun
  BY <1>0 DEF PowerInv, PairsOpen
<1>2. /\ reading.gpu => reading.socket
      /\ v = now \/ v = 0
      /\ reading.gpu /\ reading.power # 0 /\ ~ LacksTime(reading) => v = now
  BY <1>0, ReadingIs, Zenon
<1>3. n \in Nat /\ t <= n /\ 2 * begun \in Nat /\ 2 * begun <= n /\ now <= n /\ v \in Nat
  BY <1>0, <1>1, <1>2
<1>4. untimed \subseteq untimed' /\ (l \notin untimed' => ~ LacksTime(reading))
  <2>1. untimed' = IF LacksTime(reading) THEN untimed \cup {l} ELSE untimed
    BY <1>0, Zenon DEF variorum_call
  <2>2. CASE LacksTime(reading)
    BY <2>1, <2>2
  <2>3. CASE ~ LacksTime(reading)
    BY <2>1, <2>3
  <2> QED BY <2>2, <2>3
<1>5. PeriodsUpTo(records, 2 * begun, untimed')
  <2>1. PeriodsUpTo(records, 2 * begun, untimed)
    BY DEF PowerInv
  <2> QED BY <1>3, <1>4, <2>1, PeriodsLater
<1>6. t # 0 => PeriodsUpTo(records, t, untimed')
  <2>1. t # 0 => PeriodsUpTo(records, t, untimed)
    BY <1>0 DEF PowerInv
  <2> QED BY <1>1, <1>4, <2>1, PeriodsLater
<1>7. CASE BothRead(power, time)
  <2>1. global_power[1] # 0
    BY <1>1, <1>7 DEF BothRead, Noted
  <2>2. reading.gpu
    BY <1>1, <1>7, <2>1 DEF BothRead
  <2>3. reading.power # 0
    BY <1>1, <1>7, <2>1, <2>2 DEF BothRead, Noted
  <2>4. time = IF t = 0 THEN <<v, 0>> ELSE <<t, v>>
    BY <1>0, <1>1, <1>2, <2>2 DEF Noted
  <2>5. global_power' = <<0, 0>> /\ global_time' = <<0, 0>>
    BY <1>7 DEF variorum_call, TimesReset
  <2>6. PairsOpen'
    <3>1. global_power'[1] = 0 /\ global_time'[1] = 0 /\ global_time' \in Nat \X Nat
      BY <2>5
    <3>2. 0 <= 2 * begun'
      <4>1. \A m \in Nat : 0 <= 2 * m
        OBVIOUS
      <4> QED BY <4>1
    <3> QED BY <2>5, <3>1, <3>2 DEF PairsOpen
  <2>7. PeriodsUpTo(records', n, untimed')
    <3>1. CASE global_filename = ""
      <4>1. records' = records
        BY <1>7, <3>1 DEF variorum_call
      <4> QED BY <1>3, <1>5, <4>1, PeriodsLater
    <3>2. CASE global_filename # ""
      <4>1. PICK r : /\ records' = Append(records, r)
                     /\ r = [name |-> name, from |-> time[1], to |-> time[2],
                             energy |-> Energy(power, time)]
        BY <1>7, <3>2, Zenon DEF variorum_call
      <4>2. r.from = time[1] /\ r.to = time[2]
        <5> HIDE DEF time, power
        <5> QED BY <4>1
      <4>3. l \notin untimed' => t # 0 /\ v = now
        BY <1>1, <1>2, <1>4, <2>1, <2>2, <2>3
      <4> HIDE DEF time, power
      <4>4. CASE t = 0
        <5>1. r.from = v /\ r.to = 0
          BY <2>4, <4>2, <4>4
        <5>2. Len(records) + 1 \in untimed'
          BY <1>0, <4>3, <4>4
        <5> QED BY <1>3, <1>5, <4>1, <5>1, <5>2, PeriodAdded
      <4>5. CASE t # 0
        <5>1. r.from = t /\ r.to = v
          BY <2>4, <4>2, <4>5
        <5>2. v # 0 => t <= v
          BY <1>1, <1>2, <1>3
        <5>3. Len(records) + 1 \notin untimed' => v # 0
          BY <1>0, <4>3
        <5>4. v <= n /\ 0 < t
          BY <1>1, <1>2, <1>3, <4>5
        <5> QED BY <1>1, <1>3, <1>6, <4>1, <4>5, <5>1, <5>2, <5>3, <5>4, PeriodAdded
      <4> QED BY <4>4, <4>5
    <3> QED BY <3>1, <3>2
  <2> QED BY <1>0, <2>5, <2>6, <2>7 DEF PowerInv
<1>8. CASE ~ BothRead(power, time)
  <2>1. global_power' = power /\ global_time' = time /\ records' = records
    BY <1>8 DEF variorum_call
  <2>2. PeriodsUpTo(records', n, untimed')
    BY <1>3, <1>5, <2>1, PeriodsLater
  <2>3. time[1] = t \/ (t = 0 /\ time[1] = v)
    BY <1>0, <1>1 DEF Noted
  <2>4. /\ time \in Nat \X Nat /\ time[1] <= n
        /\ time[1] = 0 => time[2] = 0
    BY <1>0, <1>1, <1>2, <1>3 DEF Noted
  <2>5. power = <<power[1], 0>>
    BY <1>1, <1>8 DEF Noted, BothRead
  <2>6. power[1] # 0 /\ l \notin untimed' => time[1] # 0
    <3> SUFFICES ASSUME power[1] # 0, l \notin untimed' PROVE time[1] # 0
      OBVIOUS
    <3>1. CASE global_power[1] # 0
      <4>1. t # 0
        BY <1>1, <1>4, <3>1
      <4> QED BY <2>3, <4>1
    <3>2. CASE global_power[1] = 0
      <4>1. reading.gpu /\ reading.power # 0
        BY <1>1, <3>2 DEF Noted
      <4>2. v = now /\ reading.socket
        BY <1>2, <1>4, <4>1
      <4> QED BY <1>0, <1>1, <4>2 DEF Noted
    <3> QED BY <3>1, <3>2
  <2>7. PairsOpen'
    <3> HIDE DEF time, power
    <3>1. Len(records') + 1 = l
      BY <1>0, <2>1
    <3> QED BY <1>0, <2>1, <2>4, <2>5, <2>6, <3>1 DEF PairsOpen
  <2>8. global_time'[1] # 0 => PeriodsUpTo(records', global_time'[1], untimed')
    <3> HIDE DEF time
    <3>1. CASE time[1] = t
      BY <1>6, <2>1, <3>1
    <3>2. CASE time[1] = v
      <4>1. v # 0 => PeriodsUpTo(records, v, untimed')
        BY <1>2, <1>3, <1>5, PeriodsLater
      <4> QED BY <2>1, <3>2, <4>1
    <3> QED BY <2>3, <3>1, <3>2
  <2> QED BY <1>0, <2>2, <2>7, <2>8 DEF PowerInv
<1> QED BY <1>7, <1>8

\* No period at first.
LEMMA PowerInvInit == InitRegistry => PowerInv
<1> SUFFICES ASSUME InitRegistry PROVE PowerInv
  OBVIOUS
<1>1. /\ global_power = <<0, 0>> /\ global_time = <<0, 0>> /\ records = << >> /\ begun = 0
      /\ untimed = {}
  BY DEF InitRegistry, InitTrace, InitPower
<1> QED BY <1>1 DEF PowerInv, PairsOpen, PeriodsUpTo

\* Every step of the Variorum connector keeps its periods apart.
LEMMA PowerInvStep ==
  HostInv /\ (tool = "variorum" => PowerInv) /\ [NextRegistry]_vars
    => (tool = "variorum" => PowerInv)'
<1> SUFFICES ASSUME HostInv, [NextRegistry]_vars, tool = "variorum", PowerInv
             PROVE  PowerInv'
  BY ToolStays
<1>0. begun \in Nat
  BY DEF HostInv, HostType
<1>1. CASE PowerStep
  <2>1. ASSUME NEW kind \in KernelKinds, NEW name \in Names, NEW reading \in Readings,
               Begins(kind, name, 0), PowerBegin(name, reading)
        PROVE  PowerInv'
    <3>1. begun' = begun + 1
      BY <2>1, Zenon DEF Begins, HostBegins
    <3>2. BeginTime(begun) = 2 * begun + 1
      BY DEF BeginTime
    <3>3. variorum_call(name, reading, BeginTime(begun))
      BY <2>1 DEF PowerBegin
    <3>4. /\ begun' \in Nat /\ BeginTime(begun) \in Nat \ {0}
          /\ 2 * begun <= BeginTime(begun) /\ BeginTime(begun) <= 2 * begun'
      BY <1>0, <3>1, <3>2
    <3> QED BY <1>0, <3>3, <3>4, VariorumCall
  <2>2. ASSUME NEW i \in DOMAIN open, NEW reading \in Readings, Ends(i), PowerEnd(reading)
        PROVE  PowerInv'
    <3>1. begun' = begun
      BY <2>2, Zenon DEF Ends
    <3>2. open # << >>
      <4>1. open \in Seq(HostBlocks)
        BY DEF HostInv, HostType
      <4> QED BY <2>2, <4>1
    <3>3. begun \in Nat \ {0}
      BY <3>2, BegunBefore
    <3>4. variorum_call(global_kernel_name, reading, EndTime)
      BY <2>2 DEF PowerEnd
    <3>5. /\ EndTime \in Nat \ {0} /\ 2 * begun <= EndTime /\ EndTime <= 2 * begun'
          /\ begun' \in Nat
      BY <3>1, <3>3 DEF EndTime
    <3> QED BY <1>0, <3>4, <3>5, VariorumCall
  <2> QED BY <1>1, <2>1, <2>2, Zenon DEF PowerStep
<1>2. CASE EndStep
  <2>1. /\ global_power' = global_power /\ global_time' = global_time
        /\ records' = records /\ begun' = begun /\ untimed' = untimed
    BY <1>2 DEF EndStep, Finalize, Abort, vars, trace, powerVars
  <2> QED BY <2>1 DEF PowerInv, PairsOpen
<1>3. ~ LoggerStep /\ ~ FocusStep /\ ~ ChromeStep /\ ~ RangeStep /\ ~ PapiStep
  BY DEF LoggerStep, FocusStep, ChromeStep, RangeStep, PapiStep, Logger, Focus, Chrome, Ranges,
    Papi, RangeTools, FocusTools, FocusedTools
<1> QED BY <1>1, <1>2, <1>3, NextSteps, Zenon

\* However kernels overlap and whatever readings lack, no energy is counted twice: the
\* records of the Variorum connector that end are of periods one after the other, and
\* only one of whose own two powers had no time may end at 0
\* (variorum-connector.cpp:64-142).
THEOREM PeriodsSafety == RegistrySpec => []EnergyOnce
<1>1. InitRegistry => (tool = "variorum" => PowerInv)
  BY PowerInvInit
<1>2. (tool = "variorum" => PowerInv) => EnergyOnce
  <2> SUFFICES ASSUME PowerInv PROVE PeriodsApart
    BY DEF EnergyOnce
  <2>1. PICK S : records \in Seq(S)
    BY DEF PowerInv, PeriodsUpTo
  <2>2. DOMAIN records = 1 .. Len(records)
    BY <2>1
  <2> QED BY <2>2 DEF PowerInv, PeriodsUpTo, PeriodsApart
<1> QED BY <1>1, <1>2, HostInvariant, PowerInvStep, PTL DEF RegistrySpec

\* While no kernel begins within another and no power is missing or 0, the pairs hold
\* what was read at the begin of the kernel in flight.
PairsOfKernel ==
  LET kernels == OpenKinds(KernelKinds)
  IN ~ missed /\ "kernels" \notin slips =>
       /\ kernels = << >> => global_power = <<0, 0>> /\ global_time = <<0, 0>>
       /\ kernels # << >> => /\ global_power[1] # 0 /\ global_power = <<global_power[1], 0>>
                             /\ Len(records) + 1 \notin untimed =>
                                  global_time = <<BeginTime(Last(kernels).at), 0>>
                             /\ global_kernel_name = Last(kernels).name

\* A call with a reading that has a power.
LEMMA WholeReading ==
  ASSUME missed \in BOOLEAN, NEW name, NEW reading \in Readings, NEW now,
         variorum_call(name, reading, now), ~ missed'
  PROVE  LET time  == Noted(global_time, Timestamp(reading, now))
             power == Noted(global_power, reading.power)
         IN /\ ~ missed
            /\ reading.power # 0
            /\ Len(records) + 1 \notin untimed' =>
                 Len(records) + 1 \notin untimed /\ Timestamp(reading, now) = now
            /\ global_kernel_name' = name
            /\ BothRead(power, time) =>
                 /\ global_power' = <<0, 0>> /\ global_time' = <<0, 0>>
                 /\ global_filename # "" =>
                      records' = Append(records, [name |-> name, from |-> time[1], to |-> time[2],
                                                  energy |-> Energy(power, time)])
            /\ ~ BothRead(power, time) =>
                 global_power' = power /\ global_time' = time /\ records' = records
<1> DEFINE time  == Noted(global_time, Timestamp(reading, now))
           power == Noted(global_power, reading.power)
<1>1. missed' = (missed \/ ~ reading.gpu \/ reading.power = 0)
  BY Zenon DEF variorum_call
<1>2. ~ missed /\ reading.gpu /\ reading.power # 0
  BY <1>1, Zenon
<1>3. reading.socket /\ (~ LacksTime(reading) => Timestamp(reading, now) = now)
  BY <1>2, ReadingIs, Zenon
<1>4. Len(records) + 1 \notin untimed' => Len(records) + 1 \notin untimed /\ ~ LacksTime(reading)
  <2>1. PICK l : l = Len(records) + 1
    OBVIOUS
  <2>2. untimed' = IF LacksTime(reading) THEN untimed \cup {l} ELSE untimed
    BY <2>1, Zenon DEF variorum_call
  <2>3. CASE LacksTime(reading)
    BY <2>1, <2>2, <2>3
  <2>4. CASE ~ LacksTime(reading)
    BY <2>2, <2>4
  <2> QED BY <2>3, <2>4
<1>5. /\ global_kernel_name' = name
      /\ IF BothRead(power, time)
         THEN /\ records' = IF global_filename = "" THEN records
                            ELSE Append(records, [name |-> name, from |-> time[1], to |-> time[2],
                                                  energy |-> Energy(power, time)])
              /\ global_power' = <<0, 0>>
              /\ global_time' = TimesReset(time)
         ELSE /\ global_power' = power
              /\ global_time' = time
              /\ UNCHANGED records
  BY <1>2, <1>3, Zenon DEF variorum_call
<1> QED BY <1>2, <1>3, <1>4, <1>5, Zenon DEF TimesReset

\* While kernels do not nest, the first reading is of the kernel in flight, and
\* a record of the one that ends.
LEMMA PairsOfKernelStep ==
  ASSUME HostInv, OneKernel, tool = "variorum", missed \in BOOLEAN, PairsOfKernel,
         NEW S, records \in Seq(S), [NextRegistry]_vars
  PROVE  PairsOfKernel' /\ WritesKernel
<1> DEFINE A == OpenKinds(KernelKinds)
<1>0. /\ HostInv' /\ OneKernel' /\ slips \subseteq slips'
      /\ A \in Seq(HostBlocks) /\ A' \in Seq(HostBlocks)
  BY HostInvStep, OneKernelStep, SlipsStay, ViewTyped, ViewTypedNext DEF ViewType
<1>1. ASSUME NEW kind \in KernelKinds, NEW name \in Names, NEW reading \in Readings,
             Begins(kind, name, 0), PowerBegin(name, reading)
      PROVE  PairsOfKernel' /\ WritesKernel
  <2> DEFINE b == Block(kind, name, 0)
  <2>1. open' = Append(open, b)
    BY <1>1 DEF Begins
  <2>2. A' = Step(A, b, KernelKinds)
    BY <1>0, <2>1, BeginsView
  <2>3. b.what = kind /\ b.name = name /\ b.at = begun
    BY DEF Block
  <2> HIDE DEF b
  <2>4. A' = Append(A, b)
    BY <1>1, <2>2, <2>3 DEF Step
  <2>5. SUFFICES ASSUME ~ missed', "kernels" \notin slips'
                 PROVE  PairsOfKernel' /\ WritesKernel
    BY DEF PairsOfKernel, WritesKernel
  <2>6. A = << >>
    <3>1. Len(A') = Len(A) + 1 /\ Len(A) \in Nat
      BY <1>0, <2>4
    <3>2. Len(A') <= 1
      BY <1>0, <2>5 DEF OneKernel
    <3> QED BY <1>0, <3>1, <3>2
  <2>15. PICK v : v = Timestamp(reading, BeginTime(begun))
    OBVIOUS
  <2> DEFINE time  == Noted(global_time, v)
             power == Noted(global_power, reading.power)
  <2>7. variorum_call(name, reading, BeginTime(begun))
    BY <1>1 DEF PowerBegin
  <2>8. /\ ~ missed /\ reading.power # 0 /\ global_kernel_name' = name
        /\ Len(records) + 1 \notin untimed' => v = BeginTime(begun)
        /\ ~ BothRead(power, time) =>
             global_power' = power /\ global_time' = time /\ records' = records
    BY <2>5, <2>7, <2>15, WholeReading, Zenon
  <2>9. global_power = <<0, 0>> /\ global_time = <<0, 0>>
    BY <1>0, <2>5, <2>6, <2>8 DEF PairsOfKernel
  <2>10. power = <<reading.power, 0>> /\ time = <<v, 0>>
    BY <2>9 DEF Noted
  <2>11. global_power' = power /\ global_time' = time /\ records' = records
    BY <2>8, <2>10 DEF BothRead
  <2>12. A' # << >> /\ Last(A') = b
    BY <2>4, <2>6 DEF Last
  <2>13. PairsOfKernel'
    <3>1. /\ A' # << >>
          /\ global_power'[1] # 0 /\ global_power' = <<global_power'[1], 0>>
          /\ Len(records') + 1 \notin untimed' => global_time' = <<BeginTime(Last(A').at), 0>>
          /\ global_kernel_name' = Last(A').name
      BY <2>3, <2>8, <2>10, <2>11, <2>12
    <3> QED BY <3>1, Zenon DEF PairsOfKernel
  <2>14. WritesKernel
    <3>1. ~ (Len(A') < Len(A))
      BY <2>4, <2>6
    <3> QED BY <2>11, <3>1 DEF WritesKernel
  <2> QED BY <2>13, <2>14
<1>2. ASSUME NEW i \in DOMAIN open, NEW reading \in Readings,
             open[i].what \in KernelKinds, Ends(i), PowerEnd(reading)
      PROVE  PairsOfKernel' /\ WritesKernel
  <2>1. SUFFICES ASSUME ~ missed', "kernels" \notin slips'
                 PROVE  PairsOfKernel' /\ WritesKernel
    BY DEF PairsOfKernel, WritesKernel
  <2>2. open' = RemoveAt(open, i) /\ begun' = begun
    BY <1>2 DEF Ends
  <2>3. A = <<open[i]>> /\ A' = << >>
    <3>1. Len(A) <= 1
      BY <1>0, <2>1 DEF OneKernel
    <3> QED BY <1>0, <1>2, <2>2, <3>1, OnlyKernelEnds
  <2>4. A # << >> /\ Last(A) = open[i] /\ Len(A') < Len(A)
    BY <2>3 DEF Last
  <2>13. PICK v, t, l : /\ v = Timestamp(reading, EndTime) /\ t = BeginTime(open[i].at)
                        /\ l = Len(records) + 1
    OBVIOUS
  <2> DEFINE time  == Noted(global_time, v)
             power == Noted(global_power, reading.power)
  <2>5. variorum_call(global_kernel_name, reading, EndTime)
    BY <1>2 DEF PowerEnd
  <2>6. /\ ~ missed /\ reading.power # 0
        /\ l \notin untimed' => l \notin untimed /\ v = EndTime
        /\ BothRead(power, time) =>
             /\ global_power' = <<0, 0>> /\ global_time' = <<0, 0>>
             /\ global_filename # "" =>
                  records' = Append(records, [name |-> global_kernel_name, from |-> time[1],
                                              to |-> time[2], energy |-> Energy(power, time)])
    BY <2>1, <2>5, <2>13, WholeReading, Zenon
  <2>7. /\ global_power[1] # 0 /\ global_power = <<global_power[1], 0>>
        /\ l \notin untimed => global_time = <<t, 0>>
        /\ global_kernel_name = open[i].name
    BY <1>0, <2>1, <2>4, <2>6, <2>13 DEF PairsOfKernel
  <2>8. t # 0
    <3>1. open[i] \in HostBlocks
      BY <1>2 DEF HostInv, HostType
    <3>2. open[i].at \in Nat
      BY <3>1 DEF HostBlocks
    <3> QED BY <2>13, <3>2 DEF BeginTime
  <2>9. /\ power = <<global_power[1], reading.power>>
        /\ l \notin untimed' => time = <<t, EndTime>>
    <3>1. power = <<global_power[1], reading.power>>
      BY <2>7 DEF Noted
    <3>2. ASSUME l \notin untimed' PROVE time = <<t, EndTime>>
      <4>1. global_time = <<t, 0>> /\ v = EndTime
        BY <2>6, <2>7, <3>2
      <4> QED BY <2>8, <4>1 DEF Noted
    <3> HIDE DEF time, power
    <3> QED BY <3>1, <3>2
  <2>10. BothRead(power, time)
    <3> HIDE DEF power, time
    <3>1. power[1] # 0 /\ power[2] # 0
      BY <2>6, <2>7, <2>9
    <3> QED BY <3>1 DEF BothRead
  <2>11. PairsOfKernel'
    BY <2>3, <2>6, <2>10 DEF PairsOfKernel
  <2>12. WritesKernel
    <3>1. SUFFICES ASSUME global_filename # ""
                   PROVE  /\ Len(records') = Len(records) + 1
                          /\ Last(records').name = Last(A).name
                          /\ Len(records') \notin untimed' =>
                               <<Last(records').from, Last(records').to>> =
                               <<BeginTime(Last(A).at), EndTime>>
      BY <2>4 DEF WritesKernel
    <3> DEFINE r == [name |-> global_kernel_name, from |-> time[1], to |-> time[2],
                     energy |-> Energy(power, time)]
    <3>2. r.name = open[i].name /\ r.from = time[1] /\ r.to = time[2]
      <4> HIDE DEF time, power
      <4> QED BY <2>7
    <3>6. l \notin untimed' => r.from = t /\ r.to = EndTime
      <4> HIDE DEF time, r
      <4> QED BY <2>9, <3>2
    <3> HIDE DEF r
    <3>3. records' = Append(records, r)
      BY <2>6, <2>10, <3>1 DEF r
    <3>4. records \in Seq(S \cup {r}) /\ r \in S \cup {r}
      BY SeqMonotonic
    <3>5. Len(records') = l /\ Last(records') = r
      BY <2>13, <3>3, <3>4 DEF Last
    <3> HIDE DEF time, power
    <3> QED BY <2>4, <2>13, <3>2, <3>5, <3>6
  <2> QED BY <2>11, <2>12
<1>3. CASE PowerStep
  BY <1>1, <1>2, <1>3, Zenon DEF PowerStep
<1>4. CASE EndStep
  <2>1. /\ UNCHANGED <<global_power, global_time, global_kernel_name, records, missed, untimed>>
        /\ open' = open /\ slips' = slips
    BY <1>4 DEF EndStep, Finalize, Abort, vars, trace, powerVars
  <2>2. A' = A
    BY <2>1, SameView
  <2>3. PairsOfKernel'
    BY <2>1, <2>2 DEF PairsOfKernel
  <2>4. ~ (Len(A') < Len(A))
    BY <1>0, <2>2
  <2>5. WritesKernel
    BY <2>1, <2>4 DEF WritesKernel
  <2> QED BY <2>3, <2>5
<1>5. ~ LoggerStep /\ ~ FocusStep /\ ~ ChromeStep /\ ~ RangeStep /\ ~ PapiStep
  BY DEF LoggerStep, FocusStep, ChromeStep, RangeStep, PapiStep, Logger, Focus, Chrome, Ranges,
    Papi, RangeTools, FocusTools, FocusedTools
<1> QED BY <1>3, <1>4, <1>5, NextSteps, Zenon

EnergyInv ==
  /\ HostInv /\ OneKernel
  /\ missed \in BOOLEAN
  /\ tool = "variorum" => PowerInv /\ PairsOfKernel

\* No reading at first.
LEMMA EnergyInvInit == InitRegistry => EnergyInv
<1> SUFFICES ASSUME InitRegistry PROVE EnergyInv
  OBVIOUS
<1>1. HostInv /\ PowerInv
  BY HostInvInit, PowerInvInit
<1>2. /\ open = << >> /\ missed = FALSE /\ global_power = <<0, 0>> /\ global_time = <<0, 0>>
  BY DEF InitRegistry, InitTrace, InitPower
<1>3. OpenKinds(KernelKinds) = << >>
  BY <1>2, AmongEmpty DEF OpenKinds
<1>4. OneKernel /\ PairsOfKernel
  BY <1>2, <1>3 DEF OneKernel, PairsOfKernel
<1> QED BY <1>1, <1>2, <1>4 DEF EnergyInv

\* A step keeps the pairing, and what it writes is of the kernel that ends.
LEMMA EnergyInvStep ==
  EnergyInv /\ [NextRegistry]_vars => EnergyInv' /\ (tool = "variorum" => WritesKernel)
<1> SUFFICES ASSUME EnergyInv, [NextRegistry]_vars
             PROVE  EnergyInv' /\ (tool = "variorum" => WritesKernel)
  OBVIOUS
<1>1. HostInv' /\ OneKernel' /\ (tool = "variorum" => PowerInv)' /\ tool' = tool
  BY HostInvStep, OneKernelStep, PowerInvStep, ToolStays, Zenon DEF EnergyInv
<1>2. missed' \in BOOLEAN
  <2>1. CASE PowerStep
    BY <2>1, Zenon DEF PowerStep, PowerBegin, PowerEnd, variorum_call
  <2>2. CASE ~ PowerStep
    <3>1. missed' = missed
      BY <2>2, NextSteps, Zenon DEF LoggerStep, FocusStep, ChromeStep, RangeStep, PapiStep,
        EndStep, Finalize, Abort, vars, powerVars, Papi, Ranges, Chrome, Focus, Logger,
        OnlyPapi, OnlyRanges, OnlyChrome, OnlyFocus, OnlyLogger
    <3> QED BY <3>1 DEF EnergyInv
  <2> QED BY <2>1, <2>2
<1>3. ASSUME tool = "variorum" PROVE PairsOfKernel' /\ WritesKernel
  <2>1. PICK S : records \in Seq(S)
    BY <1>3 DEF EnergyInv, PowerInv, PeriodsUpTo
  <2> QED BY <1>3, <2>1, PairsOfKernelStep DEF EnergyInv
<1> QED BY <1>1, <1>2, <1>3, Zenon DEF EnergyInv

\* While no kernel begins within another and no power is missing or 0, the end of a
\* kernel writes its record, from its begin to its end unless one of these two times
\* was missing, and no other step writes any (variorum-connector.cpp:64-142, 176-208).
THEOREM KernelEnergy == RegistrySpec => EnergyOfKernel
  BY EnergyInvInit, EnergyInvStep, PTL DEF RegistrySpec, EnergyOfKernel

-----------------------------------------------------------------------------
(* Chrome tracing                                                          *)

\* No frame began while a block of the file was running, and the file and the stack
\* are in the order of time.
NestingInv ==
  /\ \E S : current_stack \in Seq(S)
  /\ \E S : outfile \in Seq(S)
  /\ \A k \in 1 .. Len(current_stack) :
       current_stack[k].start_time \in Nat /\ current_stack[k].start_time < begun
  /\ \A k, l \in 1 .. Len(current_stack) :
       k < l => current_stack[k].start_time < current_stack[l].start_time
  /\ \A i \in 1 .. Len(outfile) :
       outfile[i].ts \in Nat /\ outfile[i].ended \in Nat /\ outfile[i].ended <= begun
  /\ \A i \in 1 .. Len(outfile), k \in 1 .. Len(current_stack) :
       ~ (/\ outfile[i].ts < current_stack[k].start_time
          /\ current_stack[k].start_time < outfile[i].ended)
  /\ RecordsNest

\* A frame that begins is later than everything in the file.
LEMMA FrameBegins ==
  ASSUME NestingInv, begun \in Nat, begun' = begun + 1, NEW name, NEW kind, begin_frame(name, kind)
  PROVE  NestingInv'
<1> DEFINE f == [name |-> name, kind |-> kind, start_time |-> begun]
           n == Len(current_stack)
<1>1. PICK S : current_stack \in Seq(S)
  BY DEF NestingInv
<1>2. current_stack \in Seq(S \cup {f}) /\ f \in S \cup {f}
  BY <1>1, SeqMonotonic
<1>3. f.start_time = begun
  OBVIOUS
<1>4. current_stack' = Append(current_stack, f) /\ outfile' = outfile
  BY DEF begin_frame
<1> HIDE DEF f
<1>5. /\ current_stack' \in Seq(S \cup {f}) /\ n \in Nat
      /\ Len(current_stack') = n + 1
      /\ \A k \in 1 .. n : current_stack'[k] = current_stack[k]
      /\ current_stack'[n + 1].start_time = begun
  BY <1>2, <1>3, <1>4
<1> HIDE DEF n
<1>6. /\ n = Len(current_stack)
      /\ \A k \in 1 .. n : current_stack[k].start_time \in Nat /\ current_stack[k].start_time < begun
      /\ \A k, l \in 1 .. n : k < l => current_stack[k].start_time < current_stack[l].start_time
      /\ \A i \in 1 .. Len(outfile) :
           outfile[i].ts \in Nat /\ outfile[i].ended \in Nat /\ outfile[i].ended <= begun
      /\ \A i \in 1 .. Len(outfile), k \in 1 .. n :
           ~ (/\ outfile[i].ts < current_stack[k].start_time
              /\ current_stack[k].start_time < outfile[i].ended)
  BY DEF NestingInv, n
<1>7. \A k \in 1 .. Len(current_stack') :
        current_stack'[k].start_time \in Nat /\ current_stack'[k].start_time < begun'
  BY <1>5, <1>6
<1>8. \A k, l \in 1 .. Len(current_stack') :
        k < l => current_stack'[k].start_time < current_stack'[l].start_time
  BY <1>5, <1>6
<1>9. \A i \in 1 .. Len(outfile') :
        outfile'[i].ts \in Nat /\ outfile'[i].ended \in Nat /\ outfile'[i].ended <= begun'
  BY <1>4, <1>6
<1>10. \A i \in 1 .. Len(outfile'), k \in 1 .. Len(current_stack') :
         ~ (/\ outfile'[i].ts < current_stack'[k].start_time
            /\ current_stack'[k].start_time < outfile'[i].ended)
  BY <1>4, <1>5, <1>6
<1>11. (\E T : current_stack' \in Seq(T)) /\ (\E T : outfile' \in Seq(T)) /\ RecordsNest'
  BY <1>4, <1>5 DEF NestingInv, RecordsNest
<1> QED BY <1>7, <1>8, <1>9, <1>10, <1>11 DEF NestingInv

\* The record of a frame that ends nests with those in the file.
LEMMA FrameEnds ==
  ASSUME NestingInv, begun \in Nat, begun' = begun, end_frame
  PROVE  NestingInv'
<1>1. CASE current_stack = << >>
  BY <1>1 DEF end_frame, chromeVars, NestingInv, RecordsNest
<1>2. CASE current_stack # << >>
  <2> DEFINE n == Len(current_stack)
             frame == current_stack[n]
             r == [name |-> frame.name, kind |-> frame.kind, ts |-> frame.start_time,
                   ended |-> begun]
             m == Len(outfile)
  <2>1. PICK S : current_stack \in Seq(S)
    BY DEF NestingInv
  <2>2. PICK T : outfile \in Seq(T)
    BY DEF NestingInv
  <2>3. outfile \in Seq(T \cup {r}) /\ r \in T \cup {r}
    BY <2>2, SeqMonotonic
  <2>4. outfile' = Append(outfile, r) /\ current_stack' = RemoveAt(current_stack, n)
    BY <1>2 DEF end_frame, EndingFrame, FrameRemoved
  <2>5. n \in 1 .. Len(current_stack) /\ n \in Nat
    BY <1>2, <2>1
  <2>6. r.ts = frame.start_time /\ r.ended = begun
    OBVIOUS
  <2> HIDE DEF r
  <2>7. /\ outfile' \in Seq(T \cup {r}) /\ m \in Nat
        /\ Len(outfile') = m + 1
        /\ \A i \in 1 .. m : outfile'[i] = outfile[i]
        /\ outfile'[m + 1] = r
    BY <2>3, <2>4
  <2>8. /\ current_stack' \in Seq(S) /\ Len(current_stack') = n - 1
        /\ \A k \in 1 .. n - 1 : current_stack'[k] = current_stack[k]
    <3> DEFINE e == n
    <3>1. e \in 1 .. Len(current_stack)
      BY <2>5
    <3> HIDE DEF e
    <3>2. /\ RemoveAt(current_stack, e) \in Seq(S)
          /\ Len(RemoveAt(current_stack, e)) = Len(current_stack) - 1
          /\ \A k \in 1 .. Len(current_stack) - 1 :
               RemoveAt(current_stack, e)[k] =
               IF k < e THEN current_stack[k] ELSE current_stack[k + 1]
      BY <2>1, <3>1, RemoveAtIs
    <3> QED BY <2>4, <2>5, <3>2 DEF e
  <2>9. /\ n = Len(current_stack) /\ m = Len(outfile)
        /\ \A k \in 1 .. n : current_stack[k].start_time \in Nat /\ current_stack[k].start_time < begun
        /\ \A k, l \in 1 .. n : k < l => current_stack[k].start_time < current_stack[l].start_time
        /\ \A i \in 1 .. m :
             outfile[i].ts \in Nat /\ outfile[i].ended \in Nat /\ outfile[i].ended <= begun
        /\ \A i \in 1 .. m, k \in 1 .. n :
             ~ (/\ outfile[i].ts < current_stack[k].start_time
                /\ current_stack[k].start_time < outfile[i].ended)
    BY DEF NestingInv
  <2>10. \A i, j \in 1 .. m : i < j =>
           ~ (outfile[i].ts < outfile[j].ts /\ outfile[j].ts < outfile[i].ended)
    <3>1. DOMAIN outfile = 1 .. m
      BY <2>2
    <3> QED BY <3>1 DEF NestingInv, RecordsNest
  <2> HIDE DEF n, m
  <2>11. r.ts = current_stack[n].start_time /\ r.ts \in Nat /\ r.ended = begun
    BY <2>5, <2>6, <2>9
  <2> HIDE DEF frame
  <2>12. \A k \in 1 .. Len(current_stack') :
           current_stack'[k].start_time \in Nat /\ current_stack'[k].start_time < begun'
    BY <2>5, <2>8, <2>9
  <2>13. \A k, l \in 1 .. Len(current_stack') :
           k < l => current_stack'[k].start_time < current_stack'[l].start_time
    BY <2>5, <2>8, <2>9
  <2>14. \A i \in 1 .. Len(outfile') :
           outfile'[i].ts \in Nat /\ outfile'[i].ended \in Nat /\ outfile'[i].ended <= begun'
    BY <2>7, <2>9, <2>11
  <2>15. \A i \in 1 .. Len(outfile'), k \in 1 .. Len(current_stack') :
           ~ (/\ outfile'[i].ts < current_stack'[k].start_time
              /\ current_stack'[k].start_time < outfile'[i].ended)
    <3> SUFFICES ASSUME NEW i \in 1 .. m + 1, NEW k \in 1 .. n - 1
                 PROVE  ~ (/\ outfile'[i].ts < current_stack[k].start_time
                           /\ current_stack[k].start_time < outfile'[i].ended)
      BY <2>7, <2>8
    <3>1. CASE i = m + 1
      <4>1. current_stack[k].start_time < current_stack[n].start_time
        BY <2>5, <2>9
      <4> QED BY <2>5, <2>7, <2>9, <2>11, <3>1, <4>1
    <3>2. CASE i # m + 1
      <4>1. i \in 1 .. m /\ k \in 1 .. n
        BY <2>5, <2>7, <3>2
      <4> QED BY <2>7, <2>9, <4>1
    <3> QED BY <3>1, <3>2
  <2>16. RecordsNest'
    <3>1. DOMAIN outfile' = 1 .. m + 1
      BY <2>7
    <3>2. SUFFICES ASSUME NEW i \in 1 .. m + 1, NEW j \in 1 .. m + 1, i < j
                   PROVE  ~ (/\ outfile'[i].ts < outfile'[j].ts
                             /\ outfile'[j].ts < outfile'[i].ended)
      BY <3>1 DEF RecordsNest
    <3>3. i \in 1 .. m /\ outfile'[i] = outfile[i]
      BY <2>7, <3>2
    <3>4. CASE j = m + 1
      BY <2>5, <2>7, <2>9, <2>11, <3>3, <3>4
    <3>5. CASE j # m + 1
      <4>1. j \in 1 .. m /\ outfile'[j] = outfile[j]
        BY <2>7, <3>5
      <4> QED BY <2>10, <3>2, <3>3, <4>1
    <3> QED BY <3>4, <3>5
  <2>17. (\E U : current_stack' \in Seq(U)) /\ (\E U : outfile' \in Seq(U))
    BY <2>7, <2>8
  <2> QED BY <2>12, <2>13, <2>14, <2>15, <2>16, <2>17 DEF NestingInv
<1> QED BY <1>1, <1>2

\* After ~State there are no frames, and the file stays.
LEMMA StateDeleted ==
  ASSUME NestingInv, begun' = begun, DeleteState
  PROVE  NestingInv'
<1>1. current_stack' = << >> /\ outfile' = outfile
  BY DEF DeleteState
<1>2. (\E S : current_stack' \in Seq(S)) /\ Len(current_stack') = 0
  <2>1. << >> \in Seq({})
    OBVIOUS
  <2> QED BY <1>1, <2>1
<1> QED BY <1>1, <1>2 DEF NestingInv, RecordsNest

\* With this tool loaded the other tools' steps do not happen.
LEMMA NotChrome ==
  tool = "chrome-tracing" =>
    ~ LoggerStep /\ ~ FocusStep /\ ~ PowerStep /\ ~ RangeStep /\ ~ PapiStep
  BY DEF LoggerStep, FocusStep, PowerStep, RangeStep, PapiStep, Logger, Focus, Power, Ranges,
    Papi, RangeTools, FocusTools, FocusedTools

\* The file starts empty.
LEMMA NestingInvInit == InitRegistry => NestingInv
<1> SUFFICES ASSUME InitRegistry PROVE NestingInv
  OBVIOUS
<1>1. current_stack = << >> /\ outfile = << >>
  BY DEF InitRegistry, InitChrome
<1>2. << >> \in Seq({}) /\ Len(<< >>) = 0
  OBVIOUS
<1> QED BY <1>1, <1>2 DEF NestingInv, RecordsNest

\* Every step keeps the file nested.
LEMMA NestingInvStep ==
  HostInv /\ (tool = "chrome-tracing" => NestingInv) /\ [NextRegistry]_vars
    => (tool = "chrome-tracing" => NestingInv)'
<1> SUFFICES ASSUME HostInv, [NextRegistry]_vars, tool = "chrome-tracing", NestingInv
             PROVE  NestingInv'
  BY ToolStays
<1>0. begun \in Nat
  BY DEF HostInv, HostType
<1>1. CASE ChromeStep
  <2>1. ASSUME NEW what, NEW name, Begins(what, name, 0), begin_frame(name, what)
        PROVE  NestingInv'
    <3>1. begun' = begun + 1
      BY <2>1, Zenon DEF Begins, HostBegins
    <3> QED BY <1>0, <2>1, <3>1, FrameBegins
  <2>2. ASSUME begun' = begun, end_frame PROVE NestingInv'
    BY <1>0, <2>2, FrameEnds
  <2>3. \A i \in DOMAIN open : Ends(i) => begun' = begun
    BY Zenon DEF Ends
  <2>4. PopsTooOften => begun' = begun
    BY Zenon DEF PopsTooOften
  <2> QED BY <1>1, <2>1, <2>2, <2>3, <2>4, Zenon DEF ChromeStep
<1>2. CASE EndStep
  <2>1. CASE Finalize
    BY <2>1, StateDeleted DEF Finalize, trace
  <2>2. CASE Abort \/ UNCHANGED vars
    <3>1. UNCHANGED <<begun, current_stack, outfile>>
      BY <2>2 DEF Abort, vars, trace, chromeVars
    <3> QED BY <3>1 DEF NestingInv, RecordsNest
  <2> QED BY <1>2, <2>1, <2>2 DEF EndStep
<1> QED BY <1>1, <1>2, NextSteps, NotChrome, Zenon

\* The records of the trace nest, in whatever order the host ends its blocks and
\* however often it pops (kp_chrome_tracing.cpp:134-151).
THEOREM RecordsNesting == RegistrySpec => []TraceNests
<1>1. (tool = "chrome-tracing" => NestingInv) => TraceNests
  BY DEF TraceNests, NestingInv
<1> QED BY <1>1, NestingInvInit, HostInvariant, NestingInvStep, PTL DEF RegistrySpec

\* While the host nests its blocks, the frames are its blocks.
FrameOf ==
  [b \in HostBlocks |-> [name |-> b.name, kind |-> b.what, start_time |-> b.at]]

StackOfHost ==
  ~ over /\ slips \cap {"pop", "overlap"} = {} =>
    current_stack = Images(FrameOf, OpenKinds(NestedKinds))

\* While blocks nest, the frames stay those of the host's blocks, and the top
\* one is written.
LEMMA StackOfHostStep ==
  ASSUME HostInv, tool = "chrome-tracing", StackOfHost, [NextRegistry]_vars
  PROVE  StackOfHost' /\ WritesWhatEnds
<1> DEFINE A == OpenKinds(NestedKinds)
<1>0. /\ HostInv' /\ slips \subseteq slips'
      /\ A \in Seq(HostBlocks) /\ A' \in Seq(HostBlocks)
      /\ Len(A) \in Nat /\ Len(A') \in Nat
  BY HostInvStep, SlipsStay, ViewTyped, ViewTypedNext, LenProperties DEF ViewType
<1>1. ASSUME NEW what \in NestedKinds, NEW name \in Names \cup {""},
             Begins(what, name, 0), begin_frame(name, what), ~ over
      PROVE  StackOfHost' /\ WritesWhatEnds
  <2> DEFINE b == Block(what, name, 0)
  <2>1. open' = Append(open, b)
    BY <1>1 DEF Begins
  <2>2. A' = Step(A, b, NestedKinds)
    BY <1>0, <2>1, BeginsView
  <2>3. b.what = what /\ b.name = name /\ b.at = begun
    BY DEF Block
  <2>4. b \in HostBlocks
    BY <1>0, <2>1, BlockTyped
  <2> HIDE DEF b
  <2>5. A' = Append(A, b)
    BY <1>1, <2>2, <2>3 DEF Step
  <2>6. SUFFICES ASSUME slips' \cap {"pop", "overlap"} = {}
                 PROVE  current_stack' = Images(FrameOf, A') /\ outfile' = outfile
                        /\ ~ (Len(A') < Len(A))
    BY DEF StackOfHost, WritesWhatEnds
  <2>7. current_stack = Images(FrameOf, A)
    BY <1>0, <1>1, <2>6 DEF StackOfHost
  <2>8. FrameOf[b] = [name |-> name, kind |-> what, start_time |-> begun]
    BY <2>3, <2>4 DEF FrameOf
  <2>9. Images(FrameOf, Append(A, b)) = Append(Images(FrameOf, A), FrameOf[b])
    <3>1. A \in Seq(HostBlocks)
      BY <1>0
    <3> HIDE DEF A
    <3>2. PushesImage(FrameOf, A, b)
      BY <2>4, <3>1, ImagesAppend
    <3> QED BY <3>2 DEF PushesImage
  <2>10. ~ (Len(A') < Len(A))
    <3>1. A \in Seq(HostBlocks) /\ A' = Append(A, b)
      BY <1>0, <2>5
    <3> DEFINE B == A'
    <3> HIDE DEF A, B
    <3>2. Extends(B, A, b)
      BY <2>4, <3>1, AppendEnds DEF B
    <3>3. ~ (Len(B) < Len(A))
      BY <3>2, Zenon DEF Extends
    <3> QED BY <3>3 DEF B
  <2> QED BY <1>1, <2>5, <2>7, <2>8, <2>9, <2>10, Zenon DEF begin_frame
<1>2. ASSUME NEW i \in DOMAIN open, open[i].what \in NestedKinds, Ends(i), end_frame, ~ over
      PROVE  StackOfHost' /\ WritesWhatEnds
  <2> DEFINE e == open[i]
  <2>1. e \in HostBlocks
    BY <1>2 DEF HostInv, HostType
  <2> SUFFICES ASSUME slips' \cap {"pop", "overlap"} = {}
               PROVE  StackOfHost' /\ WritesWhatEnds
    BY DEF StackOfHost, WritesWhatEnds
  <2>2. A = Append(A', e)
    BY <1>2, NestedEnds
  <2>3. current_stack = Images(FrameOf, A)
    BY <1>0, <1>2 DEF StackOfHost
  <2>4. /\ current_stack # << >>
        /\ current_stack[Len(current_stack)] = FrameOf[e]
        /\ RemoveAt(current_stack, Len(current_stack)) = Images(FrameOf, A')
    <3>1. PopsImage(FrameOf, Images(FrameOf, Append(A', e)), A', e)
      BY <1>0, <2>1, ImagesEnd, Zenon
    <3> QED BY <2>2, <2>3, <3>1, Zenon DEF PopsImage
  <2>5. /\ FrameOf[e].name = e.name /\ FrameOf[e].kind = e.what /\ FrameOf[e].start_time = e.at
    BY <2>1 DEF FrameOf
  <2>6. Last(A) = e /\ Len(A') < Len(A)
    <3> DEFINE B == A'
    <3> HIDE DEF B, e
    <3>1. Extends(Append(B, e), B, e) /\ Len(B) \in Nat
      BY <1>0, <2>1, AppendEnds DEF B
    <3> QED BY <2>2, <3>1 DEF Extends, B
  <2> HIDE DEF e
  <2>7. /\ outfile' = Append(outfile, [name |-> e.name, kind |-> e.what, ts |-> e.at,
                                       ended |-> begun])
        /\ current_stack' = Images(FrameOf, A')
    BY <1>2, <2>4, <2>5 DEF end_frame, EndingFrame, FrameRemoved
  <2>8. StackOfHost'
    BY <2>7 DEF StackOfHost
  <2>9. WritesWhatEnds
    BY <2>6, <2>7 DEF WritesWhatEnds
  <2> QED BY <2>8, <2>9
<1>3. ASSUME PopsTooOften PROVE StackOfHost' /\ WritesWhatEnds
  BY <1>3 DEF PopsTooOften, StackOfHost, WritesWhatEnds
<1>4. CASE ChromeStep
  BY <1>1, <1>2, <1>3, <1>4, Zenon DEF ChromeStep, Chrome
<1>5. CASE EndStep
  <2>1. /\ open' = open /\ slips' = slips /\ outfile' = outfile
        /\ over' \/ (over' = over /\ current_stack' = current_stack)
    BY <1>5 DEF EndStep, Finalize, Abort, DeleteState, vars, trace, chromeVars
  <2>2. A' = A
    BY <2>1, SameView
  <2>3. ~ (Len(A') < Len(A))
    BY <1>0, <2>2
  <2> QED BY <2>1, <2>2, <2>3 DEF StackOfHost, WritesWhatEnds
<1> QED BY <1>4, <1>5, NextSteps, NotChrome, Zenon

\* No frames at first.
LEMMA StackOfHostInit == InitRegistry => StackOfHost
<1> SUFFICES ASSUME InitRegistry PROVE StackOfHost
  OBVIOUS
<1>1. open = << >> /\ current_stack = << >>
  BY DEF InitRegistry, InitTrace, InitChrome
<1> QED BY <1>1, AmongEmpty, ImagesEmpty DEF StackOfHost, OpenKinds

\* While the host nests its blocks, the file of Chrome tracing gets one record when a
\* block ends, of that block with the time it began, and no other
\* (kp_chrome_tracing.cpp:134-175).
THEOREM TraceWritesWhatEnds == RegistrySpec => TraceIsTrue
<1> DEFINE Inv == tool = "chrome-tracing" => StackOfHost
<1>1. InitRegistry => Inv
  BY StackOfHostInit
<1>2. HostInv /\ Inv /\ [NextRegistry]_vars => Inv'
  BY StackOfHostStep, ToolStays
<1>3. HostInv /\ Inv /\ [NextRegistry]_vars => (tool = "chrome-tracing" => WritesWhatEnds)
  BY StackOfHostStep
<1> QED BY <1>1, <1>2, <1>3, HostInvariant, PTL DEF RegistrySpec, TraceIsTrue

-----------------------------------------------------------------------------
(* The focused connectors                                                  *)

\* While no kernel begins within another, the current kernel is the one in flight and
\* the last range of its domain the only one there is.
FocusInv ==
  LET kernels == OpenKinds(KernelKinds)
  IN /\ collecting \in BOOLEAN
     /\ "kernels" \notin slips =>
          /\ ~ crashed
          /\ kernels = << >> => /\ currentKernel = NULL
                                /\ frames = EmptyMap
                                /\ collecting = (tool \notin FocusedTools)
          /\ kernels # << >> => /\ currentKernel = Last(kernels).name
                                /\ currentKernel \in Names
                                /\ frames = [n \in {nextKernelID} |-> currentKernel]
                                /\ currentRange[currentKernel] = nextKernelID
                                /\ collecting = TRUE

\* Every callback keeps the current kernel that of the host.
LEMMA FocusInvStep ==
  ASSUME HostInv, OneKernel, tool \in FocusTools, FocusInv, [NextRegistry]_vars
  PROVE  FocusInv'
<1> DEFINE A == OpenKinds(KernelKinds)
<1>0. /\ HostInv' /\ OneKernel' /\ slips \subseteq slips' /\ tool' = tool
      /\ A \in Seq(HostBlocks) /\ A' \in Seq(HostBlocks)
  BY HostInvStep, OneKernelStep, SlipsStay, ViewTyped, ViewTypedNext, ToolStays DEF ViewType
<1>1. ASSUME NEW kind \in KernelKinds, NEW name \in Names,
             Begins(kind, name, nextKernelID), FocusBegin(kind, name)
      PROVE  FocusInv'
  <2> DEFINE b == Block(kind, name, nextKernelID)
  <2>1. open' = Append(open, b)
    BY <1>1 DEF Begins
  <2>2. b.what = kind /\ b.name = name
    BY DEF Block
  <2>3. A' = Append(A, b)
    <3>1. A' = Step(A, b, KernelKinds)
      BY <1>0, <2>1, BeginsView
    <3> HIDE DEF b
    <3> QED BY <1>1, <2>2, <3>1 DEF Step
  <2> HIDE DEF b
  <2>4. collecting' = TRUE
    BY <1>1 DEF FocusBegin
  <2>5. SUFFICES ASSUME "kernels" \notin slips'
                 PROVE  /\ ~ crashed' /\ A' # << >> /\ currentKernel' = Last(A').name
                        /\ currentKernel' \in Names
                        /\ frames' = [n \in {nextKernelID'} |-> currentKernel']
                        /\ currentRange'[currentKernel'] = nextKernelID'
    BY <2>4, Zenon DEF FocusInv
  <2>6. A = << >>
    <3>1. Len(A') = Len(A) + 1 /\ Len(A) \in Nat
      BY <1>0, <2>3
    <3>2. Len(A') <= 1
      BY <1>0, <2>5 DEF OneKernel
    <3> QED BY <1>0, <3>1, <3>2
  <2>7. ~ crashed /\ frames = EmptyMap
    BY <1>0, <2>5, <2>6, Zenon DEF FocusInv
  <2>8. A' # << >> /\ Last(A') = b
    BY <2>3, <2>6 DEF Last
  <2> HIDE DEF A
  <2>9. /\ nextKernelID' = nextKernelID + 1 /\ currentKernel' = name /\ crashed' = crashed
        /\ currentRange' = Assign(currentRange, name, nextKernelID + 1)
        /\ frames' = Assign(EmptyMap, nextKernelID + 1, name)
    BY <1>1, <2>7 DEF FocusBegin
  <2>10. Assign(currentRange, name, nextKernelID + 1)[name] = nextKernelID + 1
    BY DEF Assign
  <2>11. Assign(EmptyMap, nextKernelID + 1, name) = [n \in {nextKernelID + 1} |-> name]
    BY DEF Assign, EmptyMap
  <2> QED BY <2>2, <2>7, <2>8, <2>9, <2>10, <2>11
<1>2. ASSUME NEW i \in DOMAIN open, open[i].what \in KernelKinds, Ends(i), FocusEnd(tool)
      PROVE  FocusInv'
  <2>1. open' = RemoveAt(open, i)
    BY <1>2 DEF Ends
  <2>2. collecting' \in BOOLEAN
    BY <1>2 DEF FocusEnd, CollectsOutside, FocusInv
  <2>3. SUFFICES ASSUME "kernels" \notin slips'
                 PROVE  /\ ~ crashed' /\ A' = << >> /\ currentKernel' = NULL
                        /\ frames' = EmptyMap
                        /\ collecting' = (tool \notin FocusedTools)
    BY <1>0, <2>2, Zenon DEF FocusInv
  <2>4. A = <<open[i]>> /\ A' = << >>
    <3>1. Len(A) <= 1
      BY <1>0, <2>3 DEF OneKernel
    <3> QED BY <1>0, <1>2, <2>1, <3>1, OnlyKernelEnds
  <2>5. A # << >>
    BY <2>4
  <2>6. /\ ~ crashed /\ currentKernel \in Names
        /\ frames = [n \in {nextKernelID} |-> currentKernel]
        /\ currentRange[currentKernel] = nextKernelID
    BY <1>0, <2>3, <2>5, Zenon DEF FocusInv
  <2>7. currentKernel # NULL
    BY <2>6, FocusedConnectorsAssumption
  <2>8. /\ frames' = Erase(frames, nextKernelID) /\ currentKernel' = NULL
        /\ collecting' = (tool \notin FocusedTools) /\ crashed' = crashed
    BY <1>2, <2>6, <2>7 DEF FocusEnd, EndingRange, CollectsOutside
  <2>9. Erase([n \in {nextKernelID} |-> currentKernel], nextKernelID) = EmptyMap
    BY DEF Erase, EmptyMap
  <2> QED BY <2>4, <2>6, <2>8, <2>9
<1>3. CASE FocusStep
  BY <1>1, <1>2, <1>3, Zenon DEF FocusStep
<1>4. CASE EndStep
  <2>1. /\ UNCHANGED <<currentKernel, currentRange, frames, collecting, nextKernelID, crashed>>
        /\ open' = open /\ slips' = slips
    BY <1>4 DEF EndStep, Finalize, Abort, vars, trace, focusVars
  <2>2. A' = A
    BY <2>1, SameView
  <2> QED BY <1>0, <2>1, <2>2, Zenon DEF FocusInv
<1>5. ~ LoggerStep /\ ~ ChromeStep /\ ~ PowerStep /\ ~ RangeStep /\ ~ PapiStep
  BY DEF LoggerStep, ChromeStep, PowerStep, RangeStep, PapiStep, Logger, Chrome, Power, Ranges,
    Papi, RangeTools, FocusTools, FocusedTools
<1> QED BY <1>3, <1>4, <1>5, NextSteps, Zenon

\* No current kernel at first.
LEMMA FocusInvInit == InitRegistry => FocusInv
<1> SUFFICES ASSUME InitRegistry PROVE FocusInv
  OBVIOUS
<1>1. /\ open = << >> /\ currentKernel = NULL /\ frames = EmptyMap /\ crashed = FALSE
      /\ collecting = (tool \notin FocusedTools)
  BY DEF InitRegistry, InitTrace, InitFocus
<1>2. OpenKinds(KernelKinds) = << >>
  BY <1>1, AmongEmpty DEF OpenKinds
<1> QED BY <1>1, <1>2 DEF FocusInv

FocusedInv == HostInv /\ OneKernel /\ (tool \in FocusTools => FocusInv)

\* While no kernel begins within another, the current kernel is not NULL when it is
\* used, and exactly the kernel in flight has a range, in the domain of its name
\* (kp_nvtx_focused_connector.cpp:63-89).
THEOREM KernelInFocus == RegistrySpec => []FocusIsTrue
<1>1. InitRegistry => FocusedInv
  <2> SUFFICES ASSUME InitRegistry PROVE FocusedInv
    OBVIOUS
  <2>1. OpenKinds(KernelKinds) = << >>
    BY AmongEmpty DEF InitRegistry, InitTrace, OpenKinds
  <2> QED BY <2>1, HostInvInit, FocusInvInit DEF FocusedInv, OneKernel
<1>2. FocusedInv /\ [NextRegistry]_vars => FocusedInv'
  BY HostInvStep, OneKernelStep, FocusInvStep, ToolStays DEF FocusedInv
<1>3. FocusedInv => FocusIsTrue
  <2> DEFINE A == OpenKinds(KernelKinds)
  <2> SUFFICES ASSUME HostInv, FocusInv, tool \in FocusTools, "kernels" \notin slips
               PROVE  /\ ~ crashed
                      /\ currentKernel = (IF A = << >> THEN NULL ELSE Last(A).name)
                      /\ ToSet(A) # {} => frames = [n \in {nextKernelID} |-> currentKernel]
                      /\ ToSet(A) = {} => frames = EmptyMap
                      /\ collecting <=> (tool \in FocusedTools => A # << >>)
    BY DEF FocusedInv, FocusIsTrue, FocusedOnKernel
  <2>1. ToSet(A) = {} <=> A = << >>
    <3>1. A \in Seq(HostBlocks)
      BY ViewTyped DEF ViewType
    <3>2. ASSUME NEW s \in Seq(HostBlocks) PROVE ToSet(s) = {} <=> s = << >>
      BY DEF ToSet
    <3> QED BY <3>1, <3>2
  <2>2. CASE A = << >>
    BY <2>1, <2>2, Zenon DEF FocusInv
  <2>3. CASE A # << >>
    BY <2>1, <2>3, Zenon DEF FocusInv
  <2> QED BY <2>2, <2>3
<1> QED BY <1>1, <1>2, <1>3, PTL DEF RegistrySpec

-----------------------------------------------------------------------------
(* The kernel logger                                                       *)

\* A block whose begin the logger wrote.
Logged(b) == b.what \in KernelKinds \cup {"fence"} /\ (b.what # "fence" \/ b.name # ToolFence)

Announces(line, n) == IsBegin(line) /\ line.id = n
Completes(line, n) == ~ IsBegin(line) /\ line.id = n

\* The lines ls are of the numbers less than n, each announced once, completed at most
\* once and later, and completed unless it is that of a block in flight, one of B.
LogOf(ls, B, n) ==
  /\ \A i \in 1 .. Len(ls) : ls[i].id \in 0 .. n - 1
  /\ \A m \in 0 .. n - 1 : \E i \in 1 .. Len(ls) : Announces(ls[i], m)
  /\ \A m \in 0 .. n - 1, i, j \in 1 .. Len(ls) :
       /\ Announces(ls[i], m) /\ Announces(ls[j], m) => i = j
       /\ Completes(ls[i], m) /\ Completes(ls[j], m) => i = j
       /\ Announces(ls[i], m) /\ Completes(ls[j], m) => i < j
  /\ \A m \in 0 .. n - 1 :
       \/ \E i \in 1 .. Len(ls) : Completes(ls[i], m)
       \/ \E b \in B : Logged(b) /\ b.num = m
  /\ \A b \in B : Logged(b) =>
       b.num \in 0 .. n - 1 /\ \A i \in 1 .. Len(ls) : ~ Completes(ls[i], b.num)
  /\ \A b, c \in B : Logged(b) /\ Logged(c) /\ b.num = c.num => b = c
  /\ \A b \in B : b.what = "fence" /\ ~ Logged(b) => b.num = FilteredID

\* A line more leaves the others where they are.
LEMMA LogAppend ==
  ASSUME NEW S, NEW ls \in Seq(S), NEW r
  PROVE  /\ \E T : Append(ls, r) \in Seq(T)
         /\ Len(Append(ls, r)) = Len(ls) + 1 /\ Len(ls) \in Nat
         /\ \A i \in 1 .. Len(ls) : Append(ls, r)[i] = ls[i]
         /\ Append(ls, r)[Len(ls) + 1] = r
<1>1. ls \in Seq(S \cup {r}) /\ r \in S \cup {r}
  BY SeqMonotonic
<1> QED BY <1>1

\* A line for a begin: its number is the next one, so no line has it yet.
LEMMA LogBegin ==
  ASSUME NEW S, NEW ls \in Seq(S), NEW B, NEW n \in Nat, LogOf(ls, B, n),
         NEW b, Logged(b), b.num = n, NEW r, IsBegin(r), r.id = n
  PROVE  LogOf(Append(ls, r), B \cup {b}, n + 1)
<1> DEFINE new == Append(ls, r)
           l == Len(ls)
           C == B \cup {b}
<1>1. /\ Len(new) = l + 1 /\ l \in Nat
      /\ \A i \in 1 .. l : new[i] = ls[i]
      /\ new[l + 1] = r
  BY LogAppend
<1>2. /\ Announces(r, n) /\ \A m : ~ Completes(r, m)
      /\ \A m \in 0 .. n - 1 : ~ Announces(r, m)
  BY DEF Announces, Completes
<1>3. /\ \A i \in 1 .. l : ls[i].id \in 0 .. n - 1
      /\ \A m \in 0 .. n - 1 : \E i \in 1 .. l : Announces(ls[i], m)
      /\ \A m \in 0 .. n - 1, i, j \in 1 .. l :
           /\ Announces(ls[i], m) /\ Announces(ls[j], m) => i = j
           /\ Completes(ls[i], m) /\ Completes(ls[j], m) => i = j
           /\ Announces(ls[i], m) /\ Completes(ls[j], m) => i < j
      /\ \A m \in 0 .. n - 1 :
           \/ \E i \in 1 .. l : Completes(ls[i], m)
           \/ \E c \in B : Logged(c) /\ c.num = m
      /\ \A c \in B : Logged(c) =>
           c.num \in 0 .. n - 1 /\ \A i \in 1 .. l : ~ Completes(ls[i], c.num)
      /\ \A c, d \in B : Logged(c) /\ Logged(d) /\ c.num = d.num => c = d
      /\ \A c \in B : c.what = "fence" /\ ~ Logged(c) => c.num = FilteredID
  BY DEF LogOf
<1>4. \A i \in 1 .. l : ~ Announces(ls[i], n) /\ ~ Completes(ls[i], n)
  BY <1>3 DEF Announces, Completes
<1> HIDE DEF new, l
<1>5. \A i \in 1 .. Len(new) : new[i].id \in 0 .. (n + 1) - 1
  BY <1>1, <1>3
<1>6. \A m \in 0 .. (n + 1) - 1 : m = n \/ m \in 0 .. n - 1
  OBVIOUS
<1>7. \A i \in 1 .. Len(new) : i = l + 1 \/ i \in 1 .. l
  BY <1>1
<1>8. l + 1 \in 1 .. Len(new) /\ 1 .. l \subseteq 1 .. Len(new)
  BY <1>1
<1>9. \A m \in 0 .. (n + 1) - 1 : \E i \in 1 .. Len(new) : Announces(new[i], m)
  BY <1>1, <1>2, <1>3, <1>6, <1>8
<1>10. ASSUME NEW m \in 0 .. (n + 1) - 1, NEW i \in 1 .. Len(new), NEW j \in 1 .. Len(new)
       PROVE  /\ Announces(new[i], m) /\ Announces(new[j], m) => i = j
              /\ Completes(new[i], m) /\ Completes(new[j], m) => i = j
              /\ Announces(new[i], m) /\ Completes(new[j], m) => i < j
  <2>1. CASE m = n
    BY <1>1, <1>2, <1>4, <1>7, <2>1
  <2>2. CASE m \in 0 .. n - 1
    BY <1>1, <1>2, <1>3, <1>7, <2>2
  <2> QED BY <1>6, <2>1, <2>2
<1>11. \A m \in 0 .. (n + 1) - 1 :
         \/ \E i \in 1 .. Len(new) : Completes(new[i], m)
         \/ \E c \in C : Logged(c) /\ c.num = m
  BY <1>1, <1>3, <1>6, <1>8
<1>12. \A c \in C : Logged(c) =>
         c.num \in 0 .. (n + 1) - 1 /\ \A i \in 1 .. Len(new) : ~ Completes(new[i], c.num)
  BY <1>1, <1>2, <1>3, <1>4, <1>7
<1>13. \A c, d \in C : Logged(c) /\ Logged(d) /\ c.num = d.num => c = d
  BY <1>3
<1>14. \A c \in C : c.what = "fence" /\ ~ Logged(c) => c.num = FilteredID
  BY <1>3
<1> HIDE DEF C
<1>15. LogOf(new, C, n + 1)
  BY <1>5, <1>9, <1>10, <1>11, <1>12, <1>13, <1>14, Zenon DEF LogOf
<1> QED BY <1>15 DEF new, C

\* A line for an end: its block was in flight, so no line has completed it.
LEMMA LogEnd ==
  ASSUME NEW S, NEW ls \in Seq(S), NEW B, NEW n \in Nat, LogOf(ls, B, n),
         NEW b \in B, Logged(b), NEW r, ~ IsBegin(r), r.id = b.num
  PROVE  LogOf(Append(ls, r), B \ {b}, n)
<1> DEFINE new == Append(ls, r)
           l == Len(ls)
           C == B \ {b}
<1>1. /\ Len(new) = l + 1 /\ l \in Nat
      /\ \A i \in 1 .. l : new[i] = ls[i]
      /\ new[l + 1] = r
  BY LogAppend
<1>2. /\ Completes(r, b.num) /\ \A m : ~ Announces(r, m)
      /\ \A m : Completes(r, m) => m = b.num
  BY DEF Announces, Completes
<1>3. /\ \A i \in 1 .. l : ls[i].id \in 0 .. n - 1
      /\ \A m \in 0 .. n - 1 : \E i \in 1 .. l : Announces(ls[i], m)
      /\ \A m \in 0 .. n - 1, i, j \in 1 .. l :
           /\ Announces(ls[i], m) /\ Announces(ls[j], m) => i = j
           /\ Completes(ls[i], m) /\ Completes(ls[j], m) => i = j
           /\ Announces(ls[i], m) /\ Completes(ls[j], m) => i < j
      /\ \A m \in 0 .. n - 1 :
           \/ \E i \in 1 .. l : Completes(ls[i], m)
           \/ \E c \in B : Logged(c) /\ c.num = m
      /\ \A c \in B : Logged(c) =>
           c.num \in 0 .. n - 1 /\ \A i \in 1 .. l : ~ Completes(ls[i], c.num)
      /\ \A c, d \in B : Logged(c) /\ Logged(d) /\ c.num = d.num => c = d
      /\ \A c \in B : c.what = "fence" /\ ~ Logged(c) => c.num = FilteredID
  BY DEF LogOf
<1> HIDE DEF new, l
<1>4. \A i \in 1 .. Len(new) : i = l + 1 \/ i \in 1 .. l
  BY <1>1
<1>5. l + 1 \in 1 .. Len(new) /\ 1 .. l \subseteq 1 .. Len(new) /\ \A i \in 1 .. l : i < l + 1
  BY <1>1
<1>6. \A i \in 1 .. Len(new) : new[i].id \in 0 .. n - 1
  BY <1>1, <1>3, <1>4
<1>7. \A m \in 0 .. n - 1 : \E i \in 1 .. Len(new) : Announces(new[i], m)
  BY <1>1, <1>3, <1>5
<1>8. ASSUME NEW m \in 0 .. n - 1, NEW i \in 1 .. Len(new), NEW j \in 1 .. Len(new)
      PROVE  /\ Announces(new[i], m) /\ Announces(new[j], m) => i = j
             /\ Completes(new[i], m) /\ Completes(new[j], m) => i = j
             /\ Announces(new[i], m) /\ Completes(new[j], m) => i < j
  <2>1. CASE m = b.num
    BY <1>1, <1>2, <1>3, <1>4, <1>5, <2>1
  <2>2. CASE m # b.num
    BY <1>1, <1>2, <1>3, <1>4, <2>2
  <2> QED BY <2>1, <2>2
<1>9. \A m \in 0 .. n - 1 :
        \/ \E i \in 1 .. Len(new) : Completes(new[i], m)
        \/ \E c \in C : Logged(c) /\ c.num = m
  BY <1>1, <1>2, <1>3, <1>5
<1>10. \A c \in C : Logged(c) =>
         c.num \in 0 .. n - 1 /\ \A i \in 1 .. Len(new) : ~ Completes(new[i], c.num)
  BY <1>1, <1>2, <1>3, <1>4
<1>11. \A c, d \in C : Logged(c) /\ Logged(d) /\ c.num = d.num => c = d
  BY <1>3
<1>12. \A c \in C : c.what = "fence" /\ ~ Logged(c) => c.num = FilteredID
  BY <1>3
<1> HIDE DEF C
<1>13. LogOf(new, C, n)
  BY <1>6, <1>7, <1>8, <1>9, <1>10, <1>11, <1>12, Zenon DEF LogOf
<1> QED BY <1>13 DEF new, C

\* Blocks that the logger leaves out.
LEMMA LogOther ==
  ASSUME NEW ls, NEW B, NEW n \in Nat, LogOf(ls, B, n), NEW b, ~ Logged(b)
  PROVE  /\ (b.what = "fence" => b.num = FilteredID) => LogOf(ls, B \cup {b}, n)
         /\ LogOf(ls, B \ {b}, n)
<1> DEFINE C == B \cup {b}
           D == B \ {b}
<1>1. \A c : Logged(c) => (c \in B <=> c \in C) /\ (c \in B <=> c \in D)
  OBVIOUS
<1>2. (\A c \in C : c \in B \/ c = b) /\ D \subseteq B
  OBVIOUS
<1> HIDE DEF C, D
<1>3. ASSUME b.what = "fence" => b.num = FilteredID PROVE LogOf(ls, C, n)
  BY <1>1, <1>2, <1>3, Zenon DEF LogOf
<1>4. LogOf(ls, D, n)
  BY <1>1, <1>2, Zenon DEF LogOf
<1> QED BY <1>3, <1>4 DEF C, D

RegionName == [b \in HostBlocks |-> b.name]

LoggerInv ==
  /\ \E S : lines \in Seq(S)
  /\ LogOf(lines, ToSet(open), uniqID)
  /\ regions = Images(RegionName, OpenKinds({"region"}))

\* The begin of a kernel or a fence keeps the log readable.
LEMMA LoggerBegins ==
  ASSUME HostInv, HostInv', LoggerInv, NEW what \in KernelKinds \cup {"fence"}, NEW name,
         Begins(what, name, LoggerID(what, name)), LoggerBegin(what, name)
  PROVE  LoggerInv'
<1> DEFINE b == Block(what, name, LoggerID(what, name))
           A == OpenKinds({"region"})
<1>0. uniqID \in Nat /\ FilteredID \notin Nat
  BY DEF HostInv, CounterType, FilteredID
<1>1. open' = Append(open, b)
  BY DEF Begins
<1>2. b.what = what /\ b.name = name /\ b.num = LoggerID(what, name)
  BY DEF Block
<1>a. A' = Step(A, b, {"region"})
  BY <1>1, BeginsView
<1> HIDE DEF b
<1>3. ToSet(open') = ToSet(open) \cup {b}
  BY <1>1, BeginsSet
<1>4. A' = A
  <2>2. b.what # "region"
    BY <1>2, HostTraceAssumption
  <2> QED BY <1>a, <2>2 DEF Step
<1>5. Logged(b) <=> LoggerID(what, name) # FilteredID
  BY <1>0, <1>2 DEF Logged, LoggerID, NewID
<1>6. CASE LoggerID(what, name) = FilteredID
  <2>1. UNCHANGED loggerVars
    BY <1>6 DEF LoggerBegin
  <2>2. LogOf(lines, ToSet(open) \cup {b}, uniqID)
    BY <1>0, <1>2, <1>5, <1>6, LogOther DEF LoggerInv
  <2> QED BY <1>3, <1>4, <2>1, <2>2 DEF LoggerInv, loggerVars
<1>7. CASE LoggerID(what, name) # FilteredID
  <2> DEFINE r == [what |-> what, id |-> uniqID, name |-> name, around |-> regions]
  <2>1. uniqID' = uniqID + 1 /\ lines' = Append(lines, r) /\ regions' = regions
    BY <1>7 DEF LoggerBegin, NewID
  <2>2. IsBegin(r) /\ r.id = uniqID
    BY DEF IsBegin
  <2> HIDE DEF r
  <2>3. b.num = uniqID
    BY <1>2, <1>7 DEF LoggerID, NewID
  <2>4. PICK S : lines \in Seq(S)
    BY DEF LoggerInv
  <2>5. LogOf(Append(lines, r), ToSet(open) \cup {b}, uniqID + 1)
    BY <1>0, <1>5, <1>7, <2>2, <2>3, <2>4, LogBegin DEF LoggerInv
  <2>6. \E T : Append(lines, r) \in Seq(T)
    BY <2>4, LogAppend
  <2> QED BY <1>3, <1>4, <2>1, <2>5, <2>6 DEF LoggerInv
<1> QED BY <1>6, <1>7

\* So does its end.
LEMMA LoggerEnds ==
  ASSUME HostInv, HostInv', LoggerInv, NEW i \in DOMAIN open,
         open[i].what \in KernelKinds \cup {"fence"}, Ends(i), LoggerEnd(open[i].num)
  PROVE  LoggerInv'
<1> DEFINE b == open[i]
           A == OpenKinds({"region"})
<1>0. uniqID \in Nat /\ FilteredID \notin Nat
  BY DEF HostInv, CounterType, FilteredID
<1>1. open' = RemoveAt(open, i)
  BY DEF Ends
<1>2. ToSet(open') = ToSet(open) \ {b} /\ b \in ToSet(open)
  BY <1>1, EndsSet DEF ToSet
<1>3. A' = A
  <2>1. b.what \notin {"region"}
    BY HostTraceAssumption
  <2> QED BY <1>1, <2>1, EndsView
<1>4. uniqID' = uniqID /\ regions' = regions
      /\ lines' = IF b.num = FilteredID THEN lines ELSE Append(lines, [id |-> b.num])
  BY DEF LoggerEnd
<1>5. b.what \in KernelKinds \cup {"fence"}
  OBVIOUS
<1> HIDE DEF b
<1>6. CASE Logged(b)
  <2> DEFINE r == [id |-> b.num]
  <2>1. b.num \in 0 .. uniqID - 1
    BY <1>2, <1>6 DEF LoggerInv, LogOf
  <2>2. b.num # FilteredID
    BY <1>0, <2>1
  <2>3. ~ IsBegin(r) /\ r.id = b.num
    BY DEF IsBegin
  <2>4. lines' = Append(lines, r)
    BY <1>4, <2>2
  <2> HIDE DEF r
  <2>5. PICK S : lines \in Seq(S)
    BY DEF LoggerInv
  <2>6. LogOf(Append(lines, r), ToSet(open) \ {b}, uniqID)
    BY <1>0, <1>2, <1>6, <2>3, <2>5, LogEnd DEF LoggerInv
  <2>7. \E T : Append(lines, r) \in Seq(T)
    BY <2>5, LogAppend
  <2> QED BY <1>2, <1>3, <1>4, <2>4, <2>6, <2>7 DEF LoggerInv
<1>7. CASE ~ Logged(b)
  <2>1. b.what = "fence"
    BY <1>5, <1>7, HostTraceAssumption DEF Logged
  <2>2. b.num = FilteredID
    BY <1>2, <1>7, <2>1 DEF LoggerInv, LogOf
  <2>3. LogOf(lines, ToSet(open) \ {b}, uniqID)
    BY <1>0, <1>7, LogOther DEF LoggerInv
  <2> QED BY <1>2, <1>3, <1>4, <2>2, <2>3 DEF LoggerInv
<1> QED BY <1>6, <1>7

\* A region that is pushed is on the tool's stack and on the host's.
LEMMA LoggerPushes ==
  ASSUME HostInv, HostInv', LoggerInv, NEW name, Begins("region", name, 0), LoggerPush(name)
  PROVE  LoggerInv'
<1> DEFINE b == Block("region", name, 0)
           A == OpenKinds({"region"})
<1>0. uniqID \in Nat /\ A \in Seq(HostBlocks)
  BY ViewTyped DEF HostInv, CounterType, ViewType
<1>1. open' = Append(open, b)
  BY DEF Begins
<1>2. b.what = "region" /\ b.name = name
  BY DEF Block
<1>3. b \in HostBlocks
  BY <1>1, BlockTyped
<1>a. A' = Step(A, b, {"region"})
  BY <1>1, BeginsView
<1> HIDE DEF b
<1>4. ToSet(open') = ToSet(open) \cup {b}
  BY <1>1, BeginsSet
<1>5. A' = Append(A, b)
  BY <1>2, <1>a DEF Step
<1>6. ~ Logged(b)
  BY <1>2, HostTraceAssumption DEF Logged
<1>7. LogOf(lines, ToSet(open) \cup {b}, uniqID)
  BY <1>0, <1>2, <1>6, LogOther DEF LoggerInv
<1>8. PushesImage(RegionName, A, b)
  <2> HIDE DEF A
  <2> QED BY <1>0, <1>3, ImagesAppend
<1>9. RegionName[b] = name
  BY <1>2, <1>3 DEF RegionName
<1>10. /\ regions = Images(RegionName, A) /\ regions' = Append(regions, name)
       /\ uniqID' = uniqID /\ lines' = lines /\ \E S : lines \in Seq(S)
  BY DEF LoggerInv, LoggerPush
<1>11. regions' = Images(RegionName, A')
  BY <1>5, <1>8, <1>9, <1>10, Zenon DEF PushesImage
<1> QED BY <1>4, <1>7, <1>10, <1>11 DEF LoggerInv

\* A region that is popped is on neither.
LEMMA LoggerPops ==
  ASSUME HostInv, HostInv', LoggerInv, NEW i \in DOMAIN open, open[i].what = "region",
         Ends(i), LoggerPop
  PROVE  LoggerInv'
<1> DEFINE b == open[i]
           A == OpenKinds({"region"})
<1>0. uniqID \in Nat /\ b \in HostBlocks /\ A' \in Seq(HostBlocks)
  BY ViewTypedNext DEF HostInv, HostType, CounterType, ViewType
<1>1. open' = RemoveAt(open, i) /\ open[i].what \in NestedKinds
  BY DEF Ends, NestedKinds
<1>2. ToSet(open') = ToSet(open) \ {b}
  BY <1>1, EndsSet
<1>3. A = Append(A', b)
  BY <1>1, KindEnds
<1>4. ~ Logged(b)
  BY HostTraceAssumption DEF Logged
<1> HIDE DEF b
<1>5. LogOf(lines, ToSet(open) \ {b}, uniqID)
  BY <1>0, <1>4, LogOther DEF LoggerInv
<1>6. regions # << >> /\ Front(regions) = Images(RegionName, A')
  <2>1. PopsImage(RegionName, Images(RegionName, Append(A', b)), A', b)
    BY <1>0, ImagesEnd, Zenon
  <2>2. regions = Images(RegionName, Append(A', b))
    BY <1>3 DEF LoggerInv
  <2> QED BY <2>1, <2>2, Zenon DEF PopsImage
<1>7. regions' = Images(RegionName, A') /\ lines' = lines /\ uniqID' = uniqID
  BY <1>6 DEF LoggerPop
<1> QED BY <1>2, <1>5, <1>7 DEF LoggerInv

\* Every callback of the logger keeps the invariant.
LEMMA LoggerInvStep ==
  ASSUME HostInv, tool = "kernel-logger", LoggerInv, [NextRegistry]_vars
  PROVE  LoggerInv'
<1>0. HostInv'
  BY HostInvStep
<1>1. ASSUME PopsTooOften, LoggerPop PROVE LoggerInv'
  <2>1. open' = open /\ \A b \in ToSet(open) : b.what # "region"
    BY <1>1 DEF PopsTooOften
  <2>2. OpenKinds({"region"})' = OpenKinds({"region"})
    BY <2>1, SameView
  <2>3. OpenKinds({"region"}) = << >>
    <3>1. open \in Seq(HostBlocks) /\ \A k \in 1 .. Len(open) : open[k].what \notin {"region"}
      BY <2>1 DEF HostInv, HostType, ToSet
    <3> QED BY <3>1, AmongNone DEF OpenKinds
  <2>4. regions = << >>
    BY <2>3, ImagesEmpty DEF LoggerInv
  <2>5. UNCHANGED loggerVars
    BY <1>1, <2>4 DEF LoggerPop, loggerVars
  <2> QED BY <2>1, <2>2, <2>5 DEF LoggerInv, loggerVars
<1>2. CASE LoggerStep
  <2>1. \A k \in KernelKinds : k \in KernelKinds \cup {"fence"}
    OBVIOUS
  <2>2. "fence" \in KernelKinds \cup {"fence"}
    OBVIOUS
  <2> QED BY <1>0, <1>1, <1>2, <2>1, <2>2, LoggerBegins, LoggerEnds, LoggerPushes, LoggerPops, Zenon
    DEF LoggerStep
<1>3. CASE EndStep
  <2>1. open' = open /\ UNCHANGED loggerVars
    BY <1>3 DEF EndStep, Finalize, Abort, vars, trace, loggerVars
  <2>2. OpenKinds({"region"})' = OpenKinds({"region"})
    BY <2>1, SameView
  <2> QED BY <2>1, <2>2 DEF LoggerInv, loggerVars
<1>4. ~ FocusStep /\ ~ ChromeStep /\ ~ PowerStep /\ ~ RangeStep /\ ~ PapiStep
  BY DEF FocusStep, ChromeStep, PowerStep, RangeStep, PapiStep, Focus, Chrome, Power, Ranges,
    Papi, RangeTools, FocusTools, FocusedTools
<1> QED BY <1>2, <1>3, <1>4, NextSteps, Zenon

\* No line at first.
LEMMA LoggerInvInit == InitRegistry => LoggerInv
<1> SUFFICES ASSUME InitRegistry PROVE LoggerInv
  OBVIOUS
<1>1. open = << >> /\ regions = << >> /\ uniqID = 0 /\ lines = << >>
  BY DEF InitRegistry, InitTrace, InitLogger
<1>2. regions = Images(RegionName, OpenKinds({"region"}))
  BY <1>1, AmongEmpty, ImagesEmpty DEF OpenKinds
<1>3. LogOf(<< >>, {}, 0)
  BY DEF LogOf
<1>4. ToSet(<< >>) = {}
  BY DEF ToSet
<1>5. << >> \in Seq({})
  OBVIOUS
<1> QED BY <1>1, <1>2, <1>3, <1>4, <1>5 DEF LoggerInv

\* What the lines of LogOf say.
LEMMA LogCounts ==
  ASSUME NEW S, NEW ls \in Seq(S), NEW B, NEW n \in Nat, LogOf(ls, B, n),
         NEW m \in {ls[i].id : i \in DOMAIN ls}
  PROVE  LET announced == {i \in DOMAIN ls : IsBegin(ls[i]) /\ ls[i].id = m}
             completed == {i \in DOMAIN ls : ~ IsBegin(ls[i]) /\ ls[i].id = m}
         IN /\ Cardinality(announced) = 1
            /\ Cardinality(completed) <= 1
            /\ \A i \in announced, j \in completed : i < j
<1> DEFINE announced == {i \in DOMAIN ls : IsBegin(ls[i]) /\ ls[i].id = m}
           completed == {i \in DOMAIN ls : ~ IsBegin(ls[i]) /\ ls[i].id = m}
<1>1. DOMAIN ls = 1 .. Len(ls)
  OBVIOUS
<1>2. m \in 0 .. n - 1
  BY <1>1 DEF LogOf
<1>3. /\ announced = {i \in 1 .. Len(ls) : Announces(ls[i], m)}
      /\ completed = {i \in 1 .. Len(ls) : Completes(ls[i], m)}
  BY <1>1 DEF Announces, Completes
<1> HIDE DEF announced, completed
<1>4. /\ \E i \in 1 .. Len(ls) : Announces(ls[i], m)
      /\ \A i, j \in 1 .. Len(ls) :
           /\ Announces(ls[i], m) /\ Announces(ls[j], m) => i = j
           /\ Completes(ls[i], m) /\ Completes(ls[j], m) => i = j
           /\ Announces(ls[i], m) /\ Completes(ls[j], m) => i < j
  BY <1>2 DEF LogOf
<1>5. PICK k : announced = {k}
  <2>1. PICK k \in 1 .. Len(ls) : Announces(ls[k], m)
    BY <1>4
  <2>2. announced = {k}
    BY <1>3, <1>4, <2>1
  <2> QED BY <2>2
<1>6. Cardinality(announced) = 1
  BY <1>5, FS_Singleton
<1>7. Cardinality(completed) <= 1
  <2>1. CASE completed = {}
    BY <2>1, FS_EmptySet
  <2>2. ASSUME NEW j \in completed PROVE Cardinality(completed) <= 1
    <3>1. completed = {j}
      BY <1>3, <1>4
    <3>2. Cardinality(completed) = 1
      BY <3>1, FS_Singleton
    <3> QED BY <3>2
  <2> QED BY <2>1, <2>2
<1>8. \A i \in announced, j \in completed : i < j
  BY <1>3, <1>4
<1> QED BY <1>6, <1>7, <1>8 DEF announced, completed

\* The numbers that are not completed are those of the blocks in flight.
LEMMA LogPending ==
  ASSUME NEW S, NEW ls \in Seq(S), NEW B, NEW n \in Nat, LogOf(ls, B, n)
  PROVE  {m \in {ls[i].id : i \in DOMAIN ls} :
            {i \in DOMAIN ls : ~ IsBegin(ls[i]) /\ ls[i].id = m} = {}}
         = {b.num : b \in {c \in B : Logged(c)}}
<1> DEFINE ids == {ls[i].id : i \in DOMAIN ls}
           completed(m) == {i \in DOMAIN ls : ~ IsBegin(ls[i]) /\ ls[i].id = m}
           left == {m \in ids : completed(m) = {}}
           nums == {b.num : b \in {c \in B : Logged(c)}}
<1>1. DOMAIN ls = 1 .. Len(ls)
  OBVIOUS
<1>2. ids = 0 .. n - 1
  <2>1. ids \subseteq 0 .. n - 1
    BY <1>1 DEF LogOf
  <2>2. \A m \in 0 .. n - 1 : \E i \in 1 .. Len(ls) : ls[i].id = m
    BY DEF LogOf, Announces
  <2> QED BY <1>1, <2>1, <2>2
<1>3. \A m : completed(m) = {} <=> \A i \in 1 .. Len(ls) : ~ Completes(ls[i], m)
  BY <1>1 DEF Completes
<1> HIDE DEF ids, completed
<1>4. ASSUME NEW m \in left PROVE m \in nums
  BY <1>2, <1>3 DEF LogOf
<1>5. ASSUME NEW m \in nums PROVE m \in left
  <2>1. PICK b \in B : Logged(b) /\ m = b.num
    OBVIOUS
  <2>2. m \in 0 .. n - 1 /\ \A i \in 1 .. Len(ls) : ~ Completes(ls[i], m)
    BY <2>1, Zenon DEF LogOf
  <2> QED BY <1>2, <1>3, <2>2
<1>6. left = nums
  BY <1>4, <1>5
<1> QED BY <1>6 DEF ids, completed

\* The log can be read: whatever order kernels and fences end in, a line of completion
\* names one begin that has none yet, what is left is what the host has open, and the
\* regions around a kernel are those the host has open (kp_kernel_logger.cpp:53-163).
THEOREM LogReadable == RegistrySpec => []LogIsReadable
<1> DEFINE Inv == tool = "kernel-logger" => LoggerInv
<1>1. InitRegistry => Inv
  BY LoggerInvInit
<1>2. HostInv /\ Inv /\ [NextRegistry]_vars => Inv'
  BY LoggerInvStep, ToolStays
<1>3. HostInv /\ Inv => LogIsReadable
  <2> SUFFICES ASSUME HostInv, LoggerInv PROVE LogReads
    BY DEF LogIsReadable
  <2> DEFINE A == OpenKinds({"region"})
             C == OpenKinds(KernelKinds \cup {"fence"})
             ids == {lines[i].id : i \in DOMAIN lines}
             announced(m) == {i \in DOMAIN lines : IsBegin(lines[i]) /\ lines[i].id = m}
             completed(m) == {i \in DOMAIN lines : ~ IsBegin(lines[i]) /\ lines[i].id = m}
             rest == {b.num : b \in {c \in ToSet(C) : c.what # "fence" \/ c.name # ToolFence}}
  <2>1. PICK S : lines \in Seq(S)
    BY DEF LoggerInv
  <2>2. uniqID \in Nat /\ LogOf(lines, ToSet(open), uniqID)
    BY DEF HostInv, CounterType, LoggerInv
  <2>3. ASSUME NEW m \in ids
        PROVE  /\ Cardinality(announced(m)) = 1
               /\ Cardinality(completed(m)) <= 1
               /\ \A i \in announced(m), j \in completed(m) : i < j
    BY <2>1, <2>2, <2>3, LogCounts
  <2>4. {m \in ids : completed(m) = {}} = rest
    <3>1. {c \in ToSet(C) : c.what # "fence" \/ c.name # ToolFence}
          = {c \in ToSet(open) : Logged(c)}
      <4>1. ToSet(C) = {b \in ToSet(open) : b.what \in KernelKinds \cup {"fence"}}
        BY ViewTyped DEF ViewType
      <4> HIDE DEF C
      <4> QED BY <4>1 DEF Logged
    <3>2. {m \in ids : completed(m) = {}} = {b.num : b \in {c \in ToSet(open) : Logged(c)}}
      BY <2>1, <2>2, LogPending
    <3> QED BY <3>1, <3>2
  <2>5. regions = [i \in DOMAIN A |-> A[i].name]
    <3>1. A \in Seq(HostBlocks) /\ regions = Images(RegionName, A)
      BY ViewTyped DEF ViewType, LoggerInv
    <3> HIDE DEF A
    <3>2. \A i \in DOMAIN A : A[i] \in HostBlocks
      BY <3>1
    <3> QED BY <3>1, <3>2 DEF Images, RegionName
  <2> HIDE DEF ids, announced, completed, rest
  <2>6. /\ \A m \in ids : /\ Cardinality(announced(m)) = 1
                         /\ Cardinality(completed(m)) <= 1
                         /\ \A i \in announced(m), j \in completed(m) : i < j
        /\ {m \in ids : completed(m) = {}} = rest
        /\ regions = [i \in DOMAIN A |-> A[i].name]
    BY <2>3, <2>4, <2>5, Zenon
  <2> QED BY <2>6, Zenon DEF LogReads, ids, announced, completed, rest
<1> QED BY <1>1, <1>2, <1>3, HostInvariant, PTL DEF RegistrySpec

-----------------------------------------------------------------------------
(* The range connectors: ranges that are started                           *)

\* The blocks that are started and ended by a number, and their numbers.
Ranged(blocks) == {b \in blocks : b.what \in {"fence", "section"}}

Handle(secs, b) == IF b.what = "section" THEN secs[b.num + 1].id ELSE b.num

SectionKept(secs, b) ==
  b.what = "section" => /\ b.num \in 0 .. Len(secs) - 1
                        /\ secs[b.num + 1].label = b.name
                        /\ Handle(secs, b) # UINT64_MAX

\* The profiler has started the ranges of the blocks B, each with a number of its own
\* up to n, and no others.
HandlesOf(secs, st, B, n) ==
  /\ \A b \in B : SectionKept(secs, b)
  /\ \A b \in B : Handle(secs, b) \in 1 .. n \cup {UINT64_MAX}
  /\ \A b, c \in B : Handle(secs, b) = Handle(secs, c) /\ Handle(secs, b) # UINT64_MAX => b = c
  /\ \A h : h \in DOMAIN st <=> h # UINT64_MAX /\ \E b \in B : h = Handle(secs, b)
  /\ \A b \in B : Handle(secs, b) # UINT64_MAX => st[Handle(secs, b)] = b.name

\* A range that starts gets a number of its own.
LEMMA HandleStarts ==
  ASSUME NEW secs, NEW new, NEW st, NEW B, NEW n \in Nat, HandlesOf(secs, st, B, n),
         \A c \in B : Handle(new, c) = Handle(secs, c) /\ SectionKept(new, c),
         NEW b, Handle(new, b) = n + 1, SectionKept(new, b)
  PROVE  HandlesOf(new, Assign(st, n + 1, b.name), B \cup {b}, n + 1)
<1> DEFINE C == B \cup {b}
           t == Assign(st, n + 1, b.name)
<1>1. UINT64_MAX \notin Nat
  BY DEF UINT64_MAX
<1>2. \A c \in B : Handle(new, c) \in 1 .. n \cup {UINT64_MAX} /\ Handle(new, c) # n + 1
  BY <1>1 DEF HandlesOf
<1>3. /\ DOMAIN t = DOMAIN st \cup {n + 1} /\ t[n + 1] = b.name
      /\ \A h \in DOMAIN st : h # n + 1 => t[h] = st[h]
  BY DEF Assign
<1> HIDE DEF t
<1>4. \A c \in C : SectionKept(new, c)
  OBVIOUS
<1>5. \A c \in C : Handle(new, c) \in 1 .. n + 1 \cup {UINT64_MAX}
  BY <1>2
<1>6. ASSUME NEW c \in C, NEW d \in C, Handle(new, c) = Handle(new, d),
             Handle(new, c) # UINT64_MAX
      PROVE  c = d
  BY <1>2, <1>6 DEF HandlesOf
<1>7. \A h : h \in DOMAIN t <=> h # UINT64_MAX /\ \E c \in C : h = Handle(new, c)
  <2>1. n + 1 # UINT64_MAX
    BY <1>1
  <2>2. \A h : h \in DOMAIN st <=> h # UINT64_MAX /\ \E c \in B : h = Handle(new, c)
    BY DEF HandlesOf
  <2> QED BY <1>3, <2>1, <2>2
<1>8. ASSUME NEW c \in C, Handle(new, c) # UINT64_MAX
      PROVE  t[Handle(new, c)] = c.name
  <2>1. CASE c = b
    BY <1>3, <2>1
  <2>2. CASE c \in B
    BY <1>2, <1>3, <1>8, <2>2 DEF HandlesOf
  <2> QED BY <2>1, <2>2
<1> HIDE DEF C
<1>9. HandlesOf(new, t, C, n + 1)
  BY <1>4, <1>5, <1>6, <1>7, <1>8, Zenon DEF HandlesOf
<1> QED BY <1>9 DEF t, C

\* New sections that keep the handles of the blocks change nothing.
LEMMA HandlesKept ==
  ASSUME NEW secs, NEW new, NEW st, NEW B, NEW n, HandlesOf(secs, st, B, n),
         \A c \in B : Handle(new, c) = Handle(secs, c) /\ SectionKept(new, c)
  PROVE  HandlesOf(new, st, B, n)
BY DEF HandlesOf

\* A fence that is left out.
LEMMA HandleLeftOut ==
  ASSUME NEW secs, NEW st, NEW B, NEW n, HandlesOf(secs, st, B, n),
         NEW b, b.what = "fence", b.num = UINT64_MAX
  PROVE  HandlesOf(secs, st, B \cup {b}, n) /\ HandlesOf(secs, st, B \ {b}, n)
<1> DEFINE C == B \cup {b}
           D == B \ {b}
<1>1. Handle(secs, b) = UINT64_MAX /\ SectionKept(secs, b)
  BY DEF Handle, SectionKept
<1>2. /\ \A c : c \in C <=> c \in B \/ c = b
      /\ \A c : c \in D <=> c \in B /\ c # b
  OBVIOUS
<1> HIDE DEF C, D
<1>3. HandlesOf(secs, st, C, n)
  BY <1>1, <1>2 DEF HandlesOf
<1>4. HandlesOf(secs, st, D, n)
  BY <1>1, <1>2 DEF HandlesOf
<1> QED BY <1>3, <1>4 DEF C, D

\* A range that ends is the one of the block that ends.
LEMMA HandleEnds ==
  ASSUME NEW secs, NEW st, NEW B, NEW n, HandlesOf(secs, st, B, n),
         NEW b \in B, Handle(secs, b) # UINT64_MAX
  PROVE  HandlesOf(secs, Erase(st, Handle(secs, b)), B \ {b}, n)
<1> DEFINE t == Erase(st, Handle(secs, b))
           D == B \ {b}
<1>1. /\ DOMAIN t = DOMAIN st \ {Handle(secs, b)}
      /\ \A h \in DOMAIN t : t[h] = st[h]
  BY DEF Erase
<1>2. \A c : c \in D <=> c \in B /\ c # b
  OBVIOUS
<1> HIDE DEF t, D
<1>3. \A c \in D : Handle(secs, c) # Handle(secs, b)
  BY <1>2 DEF HandlesOf
<1>4. \A h : h \in DOMAIN t <=> h # UINT64_MAX /\ \E c \in D : h = Handle(secs, c)
  <2>1. \A h : h \in DOMAIN st <=> h # UINT64_MAX /\ \E c \in B : h = Handle(secs, c)
    BY DEF HandlesOf
  <2> QED BY <1>1, <1>2, <1>3, <2>1
<1>5. \A c \in D : Handle(secs, c) # UINT64_MAX => t[Handle(secs, c)] = c.name
  BY <1>1, <1>2, <1>4 DEF HandlesOf
<1>6. /\ \A c \in D : SectionKept(secs, c)
      /\ \A c \in D : Handle(secs, c) \in 1 .. n \cup {UINT64_MAX}
      /\ \A c, d \in D : Handle(secs, c) = Handle(secs, d) /\ Handle(secs, c) # UINT64_MAX => c = d
  BY <1>2 DEF HandlesOf
<1>7. HandlesOf(secs, t, D, n)
  BY <1>4, <1>5, <1>6, Zenon DEF HandlesOf
<1> QED BY <1>7 DEF t, D

SectionsCreated ==
  \A k \in DOMAIN created : /\ created[k].num \in 0 .. Len(sections) - 1
                            /\ sections[created[k].num + 1].label = created[k].name

RangedInv ==
  /\ SectionsCreated
  /\ "restart" \notin slips => HandlesOf(sections, started, Ranged(ToSet(open)), ranges)

\* Blocks of the profiler's stack do not matter here.
LEMMA StackedBlocks ==
  ASSUME HostInv, HostInv', NEW b, b.what \in NestedKinds,
         \/ open' = Append(open, b)
         \/ \E i \in DOMAIN open : b = open[i] /\ open' = RemoveAt(open, i)
  PROVE  Ranged(ToSet(open)) = Ranged(ToSet(open'))
<1>1. b.what \notin {"fence", "section"}
  BY HostTraceAssumption DEF NestedKinds
<1> DEFINE B == ToSet(open)
           C == ToSet(open')
<1>2. C = B \cup {b} \/ C = B \ {b}
  BY BeginsSet, EndsSet
<1> HIDE DEF B, C
<1>3. Ranged(B) = Ranged(C)
  BY <1>1, <1>2 DEF Ranged
<1> QED BY <1>3 DEF B, C

\* A fence starts a range, unless it is the tool's own.
LEMMA FenceBegins ==
  ASSUME HostInv, HostInv', RangedInv, slips \subseteq slips', NEW name,
         Begins("fence", name, FenceHandle(tool, name)), RangeBeginFence(tool, name)
  PROVE  RangedInv'
<1> DEFINE b == Block("fence", name, FenceHandle(tool, name))
           B == Ranged(ToSet(open))
<1>0. ranges \in Nat /\ created' = created
  BY DEF HostInv, CounterType, Begins
<1>1. open' = Append(open, b)
  BY DEF Begins
<1>2. b.what = "fence" /\ b.name = name /\ b.num = FenceHandle(tool, name)
  BY DEF Block
<1> HIDE DEF b
<1>3. Ranged(ToSet(open')) = B \cup {b}
  <2>1. ToSet(open') = ToSet(open) \cup {b}
    BY <1>1, BeginsSet
  <2> QED BY <1>2, <2>1 DEF Ranged
<1> HIDE DEF B
<1>4. sections' = sections
  BY DEF RangeBeginFence, rangeVars
<1>5. SectionsCreated'
  BY <1>0, <1>4 DEF RangedInv, SectionsCreated
<1>6. SUFFICES ASSUME "restart" \notin slips
               PROVE  HandlesOf(sections', started', B \cup {b}, ranges')
  BY <1>3, <1>5 DEF RangedInv
<1>7. HandlesOf(sections, started, B, ranges)
  BY <1>6 DEF RangedInv, B
<1>8. CASE FilteredFence(tool, name)
  <2>1. b.num = UINT64_MAX
    BY <1>2, <1>8 DEF FenceHandle
  <2>2. started' = started /\ ranges' = ranges
    BY <1>8 DEF RangeBeginFence, rangeVars
  <2>3. HandlesOf(sections, started, B \cup {b}, ranges)
    BY <1>2, <1>7, <2>1, HandleLeftOut
  <2> QED BY <1>4, <2>2, <2>3
<1>9. CASE ~ FilteredFence(tool, name)
  <2>1. b.num = ranges + 1
    BY <1>2, <1>9 DEF FenceHandle, NewRange
  <2>2. started' = Assign(started, ranges + 1, b.name) /\ ranges' = ranges + 1
    BY <1>2, <1>9 DEF RangeBeginFence, RangeStart, NewRange
  <2>3. Handle(sections, b) = ranges + 1 /\ SectionKept(sections, b)
    BY <1>2, <2>1 DEF Handle, SectionKept
  <2>4. \A c \in B : SectionKept(sections, c)
    BY <1>7 DEF HandlesOf
  <2>5. HandlesOf(sections, Assign(started, ranges + 1, b.name), B \cup {b}, ranges + 1)
    BY <1>0, <1>7, <2>3, <2>4, HandleStarts
  <2> QED BY <1>4, <2>2, <2>5
<1> QED BY <1>8, <1>9

\* The end of a fence, or a section that stops, ends its own range.
LEMMA RangeEnds ==
  ASSUME HostInv, HostInv', RangedInv, slips \subseteq slips', NEW i \in DOMAIN open,
         Ends(i), UNCHANGED <<ranges, sections>>,
         \/ open[i].what = "fence" /\ RangeEndFence(open[i].num)
         \/ open[i].what = "section" /\ RangeStopSection(open[i].num)
  PROVE  RangedInv'
<1> DEFINE b == open[i]
           B == Ranged(ToSet(open))
<1>1. open' = RemoveAt(open, i) /\ created' = created
  BY DEF Ends
<1>2. Ranged(ToSet(open')) = B \ {b} /\ b \in B
  <2>1. ToSet(open') = ToSet(open) \ {b} /\ b \in ToSet(open)
    BY <1>1, EndsSet DEF ToSet
  <2>2. b.what \in {"fence", "section"}
    OBVIOUS
  <2> HIDE DEF b
  <2> QED BY <2>1, <2>2 DEF Ranged
<1>3. \/ b.what = "fence" /\ EndsRange(b.num)
      \/ b.what = "section" /\ started' = Erase(started, sections[b.num + 1].id)
  BY DEF RangeEndFence, RangeStopSection, RangeEnd
<1> HIDE DEF b, B
<1>4. SectionsCreated'
  BY <1>1 DEF RangedInv, SectionsCreated
<1>5. SUFFICES ASSUME "restart" \notin slips
               PROVE  HandlesOf(sections, started', B \ {b}, ranges)
  BY <1>2, <1>4 DEF RangedInv
<1>6. HandlesOf(sections, started, B, ranges)
  BY <1>5 DEF RangedInv, B
<1>7. CASE b.what = "fence" /\ b.num = UINT64_MAX
  <2>1. started' = started
    BY <1>3, <1>7 DEF EndsRange
  <2> QED BY <1>6, <1>7, <2>1, HandleLeftOut
<1>8. CASE ~ (b.what = "fence" /\ b.num = UINT64_MAX)
  <2>1. Handle(sections, b) # UINT64_MAX
    BY <1>2, <1>3, <1>6, <1>8 DEF HandlesOf, SectionKept, Handle
  <2>2. started' = Erase(started, Handle(sections, b))
    BY <1>3, <1>8 DEF EndsRange, Handle
  <2> QED BY <1>2, <1>6, <2>1, <2>2, HandleEnds
<1> QED BY <1>7, <1>8

\* A new section has a number no other has.
LEMMA SectionAdded ==
  ASSUME HostInv, RangedInv, slips \subseteq slips', NEW name \in Names,
         Creates(name, NewSection), RangeCreateSection(name)
  PROVE  RangedInv'
<1> DEFINE B == Ranged(ToSet(open))
           n == Len(sections)
           T == [label : Names, id : Int]
           e == [name |-> name, num |-> n]
<1>1. /\ n \in Nat /\ Len(sections') = n + 1
      /\ \A k \in 1 .. n : sections'[k] = sections[k]
      /\ sections'[n + 1].label = name
  <2> DEFINE r == [label |-> name, id |-> UINT64_MAX]
  <2>1. sections \in Seq(T) /\ sections' = Append(sections, r) /\ r \in T /\ r.label = name
    BY DEF HostInv, CounterType, RangeCreateSection, UINT64_MAX
  <2> HIDE DEF r, T
  <2> QED BY <2>1
<1>2. /\ created \in Seq(HostSections) /\ created' = Append(created, e)
      /\ e \in HostSections /\ e.name = name /\ e.num = n
  BY <1>1 DEF HostInv, HostType, Creates, NewSection, HostSections, Numbers
<1>3. open' = open /\ started' = started /\ ranges' = ranges
  BY DEF Creates, RangeCreateSection
<1> HIDE DEF n, e
<1>4. SectionsCreated'
  <2>1. ASSUME NEW k \in DOMAIN created'
        PROVE  created'[k] = e \/ \E j \in DOMAIN created : created'[k] = created[j]
    <3> HIDE DEF HostSections
    <3> QED BY <1>2
  <2>2. ASSUME NEW c, c = e \/ \E j \in DOMAIN created : c = created[j]
        PROVE  c.num \in 0 .. Len(sections') - 1 /\ sections'[c.num + 1].label = c.name
    <3>1. CASE c = e
      BY <1>1, <1>2, <3>1
    <3>2. ASSUME NEW j \in DOMAIN created, c = created[j]
          PROVE  c.num \in 0 .. Len(sections') - 1 /\ sections'[c.num + 1].label = c.name
      <4>1. c.num \in 0 .. n - 1 /\ sections[c.num + 1].label = c.name
        BY <3>2 DEF RangedInv, SectionsCreated, n
      <4>2. c.num + 1 \in 1 .. n
        BY <1>1, <4>1
      <4> QED BY <1>1, <4>1, <4>2
    <3> QED BY <2>2, <3>1, <3>2
  <2> QED BY <2>1, <2>2 DEF SectionsCreated
<1>5. SUFFICES ASSUME "restart" \notin slips
               PROVE  HandlesOf(sections', started, B, ranges)
  BY <1>3, <1>4 DEF RangedInv
<1>6. HandlesOf(sections, started, B, ranges)
  BY <1>5 DEF RangedInv
<1> HIDE DEF B
<1>7. ASSUME NEW c \in B
      PROVE  Handle(sections', c) = Handle(sections, c) /\ SectionKept(sections', c)
  <2>1. SectionKept(sections, c)
    BY <1>6 DEF HandlesOf
  <2>2. CASE c.what = "section"
    <3>1. c.num \in 0 .. n - 1 /\ c.num + 1 \in 1 .. n
      BY <1>1, <2>1, <2>2 DEF SectionKept, n
    <3> QED BY <1>1, <2>1, <2>2, <3>1 DEF SectionKept, Handle
  <2>3. CASE c.what # "section"
    BY <2>3 DEF SectionKept, Handle
  <2> QED BY <2>2, <2>3
<1> QED BY <1>6, <1>7, HandlesKept

\* A section that starts gets a new range, and loses the old one only if it was
\* running.
LEMMA SectionStarts ==
  ASSUME HostInv, HostInv', RangedInv, slips \subseteq slips', NEW k \in DOMAIN created,
         Starts(created[k]), RangeStartSection(created[k].num)
  PROVE  RangedInv'
<1> DEFINE sec == created[k]
           b == Block("section", sec.name, sec.num)
           B == Ranged(ToSet(open))
           n == Len(sections)
           T == [label : Names, id : Int]
<1>0. ranges \in Nat /\ created' = created /\ n \in Nat
  BY LenProperties DEF HostInv, CounterType, Starts
<1>1. open' = Append(open, b)
  BY DEF Starts
<1>2. b.what = "section" /\ b.name = sec.name /\ b.num = sec.num
  BY DEF Block
<1>3. sec.num \in 0 .. n - 1 /\ sections[sec.num + 1].label = sec.name
  BY DEF RangedInv, SectionsCreated
<1>4. /\ Len(sections') = n
      /\ \A j \in 1 .. n : sections'[j].label = sections[j].label
      /\ \A j \in 1 .. n : j # sec.num + 1 => sections'[j] = sections[j]
      /\ sections'[sec.num + 1].id = ranges + 1
  <2> DEFINE m == sec.num + 1
  <2>0. sections' = [sections EXCEPT ![m].id = ranges + 1]
    BY Zenon DEF RangeStartSection, StartedSection, NewRange
  <2>1. sections \in [1 .. n -> T]
    <3>1. sections \in Seq(T)
      BY DEF HostInv, CounterType
    <3> HIDE DEF T
    <3> QED BY <3>1, LenProperties
  <2>2. m \in 1 .. n
    BY <1>0, <1>3
  <2> HIDE DEF m, n
  <2>3. DOMAIN sections' = 1 .. n /\ \A j \in 1 .. n : j # m => sections'[j] = sections[j]
    BY <2>0, <2>1, <2>2
  <2>4. sections'[m] = [sections[m] EXCEPT !.id = ranges + 1]
    BY <2>0, <2>1, <2>2
  <2>5. sections[m] \in T
    BY <2>1, <2>2
  <2>6. sections'[m].id = ranges + 1 /\ sections'[m].label = sections[m].label
    BY <2>4, <2>5
  <2>7. Len(sections') = n
    <3>1. \E S : sections' \in Seq(S)
      BY DEF HostInv, CounterType
    <3> QED BY <1>0, <2>3, <3>1
  <2> QED BY <2>3, <2>6, <2>7 DEF m
<1>5. started' = Assign(started, ranges + 1, sec.name) /\ ranges' = ranges + 1
  BY <1>3 DEF RangeStartSection, RangeStart, NewRange
<1>6. "restart" \notin slips' => ~ Running(sec) /\ "restart" \notin slips
  BY DEF Starts
<1> HIDE DEF b, sec, n
<1>7. Ranged(ToSet(open')) = B \cup {b}
  <2>1. ToSet(open') = ToSet(open) \cup {b}
    BY <1>1, BeginsSet
  <2> QED BY <1>2, <2>1 DEF Ranged
<1>8. SectionsCreated'
  <2>1. ASSUME NEW j \in DOMAIN created
        PROVE  /\ created[j].num \in 0 .. Len(sections') - 1
               /\ sections'[created[j].num + 1].label = created[j].name
    <3>1. created[j].num \in 0 .. n - 1 /\ sections[created[j].num + 1].label = created[j].name
      BY DEF RangedInv, SectionsCreated, n
    <3>2. created[j].num + 1 \in 1 .. n
      BY <1>0, <3>1
    <3> QED BY <1>4, <3>1, <3>2
  <2> QED BY <1>0, <2>1 DEF SectionsCreated
<1>9. SUFFICES ASSUME ~ Running(sec), "restart" \notin slips
               PROVE  HandlesOf(sections', Assign(started, ranges + 1, b.name), B \cup {b}, ranges + 1)
  BY <1>2, <1>5, <1>6, <1>7, <1>8 DEF RangedInv
<1>10. HandlesOf(sections, started, B, ranges)
  BY <1>9 DEF RangedInv
<1>11. ASSUME NEW c \in B
       PROVE  Handle(sections', c) = Handle(sections, c) /\ SectionKept(sections', c)
  <2>1. SectionKept(sections, c)
    BY <1>10 DEF HandlesOf
  <2>2. CASE c.what = "section"
    <3>1. c.num \in 0 .. n - 1 /\ sections[c.num + 1].label = c.name
      BY <2>1, <2>2 DEF SectionKept, n
    <3>2. c.num # sec.num
      <4>1. SUFFICES ASSUME c.num = sec.num PROVE FALSE
        OBVIOUS
      <4>2. c \in ToSet(open) /\ c.name = sec.name
        BY <1>3, <3>1, <4>1 DEF Ranged
      <4> QED BY <1>9, <2>2, <4>1, <4>2 DEF Running
    <3>3. c.num + 1 \in 1 .. n /\ c.num + 1 # sec.num + 1
      BY <1>0, <1>3, <3>1, <3>2
    <3> QED BY <1>4, <2>1, <2>2, <3>1, <3>3 DEF SectionKept, Handle
  <2>3. CASE c.what # "section"
    BY <2>3 DEF SectionKept, Handle
  <2> QED BY <2>2, <2>3
<1>12. Handle(sections', b) = ranges + 1 /\ SectionKept(sections', b)
  <2>1. Handle(sections', b) = ranges + 1
    BY <1>2, <1>4 DEF Handle
  <2>2. ranges + 1 # UINT64_MAX
    BY <1>0 DEF UINT64_MAX
  <2>3. sec.num + 1 \in 1 .. n
    BY <1>0, <1>3
  <2> QED BY <1>2, <1>3, <1>4, <2>1, <2>2, <2>3 DEF SectionKept
<1> HIDE DEF B
<1> QED BY <1>0, <1>10, <1>11, <1>12, HandleStarts

-----------------------------------------------------------------------------
(* The range connectors: ranges that are pushed                            *)

PushedOf == [b \in HostBlocks |-> Pushed(b.what, b.name)]

PushedInv ==
  LET blocks == OpenKinds(NestedKinds)
  IN /\ \E S : pushed \in Seq(S)
     /\ "pop" \notin slips => Len(pushed) = Len(blocks)
     /\ slips \cap {"pop", "overlap"} = {} => pushed = Images(PushedOf, blocks)

\* What nests is pushed.
LEMMA RangePushed ==
  ASSUME HostInv, HostInv', PushedInv, slips \subseteq slips',
         NEW what \in NestedKinds, NEW name, Begins(what, name, 0), RangePush(what, name)
  PROVE  PushedInv'
<1> DEFINE b == Block(what, name, 0)
           A == OpenKinds(NestedKinds)
<1>0. A \in Seq(HostBlocks)
  BY ViewTyped DEF ViewType
<1>1. open' = Append(open, b)
  BY DEF Begins
<1>2. b.what = what /\ b.name = name
  BY DEF Block
<1>3. b \in HostBlocks
  BY <1>1, BlockTyped
<1>4. A' = Step(A, b, NestedKinds)
  BY <1>1, BeginsView
<1> HIDE DEF b
<1>5. A' = Append(A, b)
  BY <1>2, <1>4 DEF Step
<1>6. pushed' = Append(pushed, PushedOf[b])
  BY <1>2, <1>3 DEF RangePush, PushedOf
<1>7. PushesImage(PushedOf, A, b)
  <2> HIDE DEF A
  <2> QED BY <1>0, <1>3, ImagesAppend
<1>8. (\E S : pushed' \in Seq(S)) /\ Len(pushed') = Len(pushed) + 1
  <2>1. PICK S : pushed \in Seq(S)
    BY DEF PushedInv
  <2>2. pushed \in Seq(S \cup {PushedOf[b]}) /\ PushedOf[b] \in S \cup {PushedOf[b]}
    BY <2>1, SeqMonotonic
  <2> QED BY <1>6, <2>2
<1>9. Len(A') = Len(A) + 1
  BY <1>0, <1>3, <1>5
<1>10. ASSUME "pop" \notin slips' PROVE Len(pushed') = Len(A')
  BY <1>8, <1>9, <1>10 DEF PushedInv
<1>11. ASSUME slips' \cap {"pop", "overlap"} = {} PROVE pushed' = Images(PushedOf, A')
  <2>1. pushed = Images(PushedOf, A)
    BY <1>11 DEF PushedInv
  <2> QED BY <1>5, <1>6, <1>7, <2>1, Zenon DEF PushesImage
<1> HIDE DEF A
<1>12. /\ \E S : pushed' \in Seq(S)
       /\ "pop" \notin slips' => Len(pushed') = Len(A')
       /\ slips' \cap {"pop", "overlap"} = {} => pushed' = Images(PushedOf, A')
  BY <1>8, <1>10, <1>11
<1> QED BY <1>12 DEF PushedInv, A

\* A pop takes the last range, if there is one.
LEMMA PoppedTyped ==
  ASSUME PushedInv, RangePop
  PROVE  /\ \E S : pushed' \in Seq(S)
         /\ pushed # << >> => Len(pushed') = Len(pushed) - 1 /\ pushed' = Front(pushed)
<1>1. PICK S : pushed \in Seq(S)
  BY DEF PushedInv
<1>2. CASE pushed = << >>
  BY <1>1, <1>2 DEF RangePop, InnermostEnded
<1>3. CASE pushed # << >>
  BY <1>1, <1>3, FrontTyped DEF RangePop, InnermostEnded
<1> QED BY <1>2, <1>3

\* What nests is popped at its own end.
LEMMA RangePopped ==
  ASSUME HostInv, HostInv', PushedInv, slips \subseteq slips',
         NEW i \in DOMAIN open, open[i].what \in NestedKinds, Ends(i), RangePop
  PROVE  PushedInv'
<1> DEFINE b == open[i]
           A == OpenKinds(NestedKinds)
<1>0. /\ A \in Seq(HostBlocks) /\ A' \in Seq(HostBlocks) /\ b \in HostBlocks
      /\ Len(A) \in Nat /\ Len(A') \in Nat
  BY ViewTyped, ViewTypedNext, LenProperties DEF ViewType, HostInv, HostType
<1>1. open' = RemoveAt(open, i)
  BY DEF Ends
<1>2. Len(A) = Len(A') + 1
  BY <1>1, EndsView
<1>3. \E S : pushed' \in Seq(S)
  BY PoppedTyped
<1>4. ASSUME "pop" \notin slips' PROVE Len(pushed') = Len(A')
  <2>1. Len(pushed) = Len(A)
    BY <1>4 DEF PushedInv
  <2>2. pushed # << >>
    BY <1>0, <1>2, <2>1
  <2> QED BY <1>0, <1>2, <2>1, <2>2, PoppedTyped
<1>5. ASSUME slips' \cap {"pop", "overlap"} = {} PROVE pushed' = Images(PushedOf, A')
  <2>1. pushed = Images(PushedOf, A)
    BY <1>5 DEF PushedInv
  <2>2. A = Append(A', b)
    BY <1>5, NestedEnds
  <2>3. PopsImage(PushedOf, Images(PushedOf, Append(A', b)), A', b)
    BY <1>0, ImagesEnd, Zenon
  <2>4. pushed # << >> /\ Front(pushed) = Images(PushedOf, A')
    BY <2>1, <2>2, <2>3, Zenon DEF PopsImage
  <2> QED BY <2>4, PoppedTyped
<1> HIDE DEF A
<1>6. /\ \E S : pushed' \in Seq(S)
      /\ "pop" \notin slips' => Len(pushed') = Len(A')
      /\ slips' \cap {"pop", "overlap"} = {} => pushed' = Images(PushedOf, A')
  BY <1>3, <1>4, <1>5
<1> QED BY <1>6 DEF PushedInv, A

\* Blocks that are started do not matter here.
LEMMA PushedStays ==
  ASSUME HostInv, HostInv', PushedInv, slips \subseteq slips', pushed' = pushed,
         \/ open' = open
         \/ \E b : b.what \notin NestedKinds /\ open' = Append(open, b)
                   /\ \E what, name, num : b = Block(what, name, num)
         \/ \E i \in DOMAIN open : open[i].what \notin NestedKinds /\ open' = RemoveAt(open, i)
  PROVE  PushedInv'
<1> DEFINE A == OpenKinds(NestedKinds)
<1>1. ASSUME NEW what, NEW name, NEW num, Block(what, name, num).what \notin NestedKinds,
             open' = Append(open, Block(what, name, num))
      PROVE  A' = A
  <2>1. A' = Step(A, Block(what, name, num), NestedKinds)
    BY <1>1, BeginsView
  <2> QED BY <1>1, <2>1 DEF Step
<1>2. ASSUME NEW i \in DOMAIN open, open[i].what \notin NestedKinds, open' = RemoveAt(open, i)
      PROVE  A' = A
  BY <1>2, EndsView
<1>3. open' = open => A' = A
  BY SameView
<1> HIDE DEF A
<1>4. A' = A
  BY <1>1, <1>2, <1>3, Zenon
<1> QED BY <1>4 DEF PushedInv, A

\* Every callback of a range connector keeps both invariants.
LEMMA RangesStep ==
  ASSUME HostInv, tool \in RangeTools, RangedInv, PushedInv, [NextRegistry]_vars
  PROVE  RangedInv' /\ PushedInv'
<1>0. HostInv' /\ slips \subseteq slips' /\ "fence" \notin NestedKinds
      /\ "section" \notin NestedKinds
  BY HostInvStep, SlipsStay, HostTraceAssumption DEF NestedKinds
<1>1. ASSUME created' = created, UNCHANGED <<started, ranges, sections>>,
             Ranged(ToSet(open)) = Ranged(ToSet(open'))
      PROVE  RangedInv'
  <2>1. SectionsCreated'
    BY <1>1 DEF RangedInv, SectionsCreated
  <2> DEFINE B == Ranged(ToSet(open))
  <2>2. B' = B
    BY <1>1 DEF Ranged
  <2> HIDE DEF B
  <2>3. "restart" \notin slips' => HandlesOf(sections', started', B', ranges')
    BY <1>0, <1>1, <2>2 DEF RangedInv, B
  <2> QED BY <2>1, <2>3 DEF RangedInv, B
<1>2. ASSUME NEW what \in NestedKinds, NEW name, Begins(what, name, 0), RangePush(what, name)
      PROVE  RangedInv' /\ PushedInv'
  <2> DEFINE b == Block(what, name, 0)
  <2>1. open' = Append(open, b) /\ created' = created /\ b.what \in NestedKinds
    BY <1>2 DEF Begins, Block
  <2> HIDE DEF b
  <2>2. Ranged(ToSet(open)) = Ranged(ToSet(open'))
    BY <1>0, <2>1, StackedBlocks
  <2>3. UNCHANGED <<started, ranges, sections>>
    BY <1>2 DEF RangePush
  <2> QED BY <1>0, <1>1, <1>2, <2>1, <2>2, <2>3, RangePushed
<1>3. ASSUME NEW i \in DOMAIN open, open[i].what \in NestedKinds, Ends(i), RangePop
      PROVE  RangedInv' /\ PushedInv'
  <2>1. open' = RemoveAt(open, i) /\ created' = created
    BY <1>3 DEF Ends
  <2>2. Ranged(ToSet(open)) = Ranged(ToSet(open'))
    BY <1>0, <1>3, <2>1, StackedBlocks
  <2>3. UNCHANGED <<started, ranges, sections>>
    BY <1>3 DEF RangePop
  <2> QED BY <1>0, <1>1, <1>3, <2>1, <2>2, <2>3, RangePopped
<1>4. ASSUME PopsTooOften, RangePop PROVE RangedInv' /\ PushedInv'
  <2>1. open' = open /\ created' = created /\ "pop" \in slips'
    BY <1>4 DEF PopsTooOften
  <2>2. UNCHANGED <<started, ranges, sections>>
    BY <1>4 DEF RangePop
  <2>3. PushedInv'
    BY <1>4, <2>1, PoppedTyped DEF PushedInv
  <2> QED BY <1>1, <2>1, <2>2, <2>3
<1>5. ASSUME NEW name, Begins("fence", name, FenceHandle(tool, name)), RangeBeginFence(tool, name)
      PROVE  RangedInv' /\ PushedInv'
  <2> DEFINE b == Block("fence", name, FenceHandle(tool, name))
  <2>1. open' = Append(open, b) /\ b.what = "fence"
    BY <1>5 DEF Begins, Block
  <2>2. pushed' = pushed
    BY <1>5 DEF RangeBeginFence, rangeVars
  <2>3. PushedInv'
    BY <1>0, <2>1, <2>2, PushedStays
  <2> QED BY <1>0, <1>5, <2>3, FenceBegins
<1>6. ASSUME NEW i \in DOMAIN open, Ends(i),
             \/ open[i].what = "fence" /\ RangeEndFence(open[i].num)
             \/ open[i].what = "section" /\ RangeStopSection(open[i].num)
      PROVE  RangedInv' /\ PushedInv'
  <2>1. open' = RemoveAt(open, i) /\ open[i].what \notin NestedKinds
    BY <1>0, <1>6 DEF Ends
  <2>2. pushed' = pushed /\ UNCHANGED <<ranges, sections>>
    BY <1>6 DEF RangeEndFence, RangeStopSection, RangeEnd
  <2>3. PushedInv'
    BY <1>0, <2>1, <2>2, PushedStays
  <2> QED BY <1>0, <1>6, <2>2, <2>3, RangeEnds
<1>7. ASSUME NEW name \in Names, Creates(name, NewSection), RangeCreateSection(name)
      PROVE  RangedInv' /\ PushedInv'
  <2>1. open' = open /\ pushed' = pushed
    BY <1>7 DEF Creates, RangeCreateSection
  <2>2. PushedInv'
    BY <1>0, <2>1, PushedStays
  <2> QED BY <1>0, <1>7, <2>2, SectionAdded
<1>8. ASSUME NEW k \in DOMAIN created, Starts(created[k]), RangeStartSection(created[k].num)
      PROVE  RangedInv' /\ PushedInv'
  <2> DEFINE b == Block("section", created[k].name, created[k].num)
  <2>1. open' = Append(open, b) /\ b.what = "section"
    BY <1>8 DEF Starts, Block
  <2>2. pushed' = pushed
    BY <1>8 DEF RangeStartSection
  <2>3. PushedInv'
    BY <1>0, <2>1, <2>2, PushedStays
  <2> QED BY <1>0, <1>8, <2>3, SectionStarts
<1>9. CASE RangeStep
  BY <1>2, <1>3, <1>4, <1>5, <1>6, <1>7, <1>8, <1>9, Zenon DEF RangeStep
<1>10. CASE EndStep
  <2>1. open' = open /\ created' = created /\ UNCHANGED rangeVars
    BY <1>10 DEF EndStep, Finalize, Abort, vars, trace, rangeVars
  <2>2. pushed' = pushed /\ UNCHANGED <<started, ranges, sections>>
        /\ Ranged(ToSet(open)) = Ranged(ToSet(open'))
    BY <2>1 DEF rangeVars
  <2> QED BY <1>0, <1>1, <2>1, <2>2, PushedStays
<1>11. ~ FocusStep /\ ~ ChromeStep /\ ~ PowerStep /\ ~ LoggerStep /\ ~ PapiStep
  BY DEF FocusStep, ChromeStep, PowerStep, LoggerStep, PapiStep, Focus, Chrome, Power, Logger,
    Papi, RangeTools, FocusTools, FocusedTools
<1> QED BY <1>9, <1>10, <1>11, NextSteps, Zenon

\* No range at first.
LEMMA RangesInit == InitRegistry => RangedInv /\ PushedInv
<1> SUFFICES ASSUME InitRegistry PROVE RangedInv /\ PushedInv
  OBVIOUS
<1>1. /\ open = << >> /\ created = << >> /\ pushed = << >> /\ started = EmptyMap
      /\ ranges = 0 /\ sections = << >>
  BY DEF InitRegistry, InitTrace, InitRanges
<1>2. OpenKinds(NestedKinds) = << >> /\ pushed = Images(PushedOf, << >>)
  BY <1>1, AmongEmpty, ImagesEmpty DEF OpenKinds
<1>3. Ranged(ToSet(open)) = {}
  BY <1>1 DEF Ranged, ToSet
<1>4. HandlesOf(<< >>, EmptyMap, {}, 0)
  BY DEF HandlesOf, EmptyMap
<1>5. RangedInv
  <2>1. SectionsCreated
    BY <1>1 DEF SectionsCreated
  <2>2. HandlesOf(sections, started, Ranged(ToSet(open)), ranges)
    BY <1>1, <1>3, <1>4, Zenon
  <2> QED BY <2>1, <2>2 DEF RangedInv
<1>6. << >> \in Seq({})
  OBVIOUS
<1> QED BY <1>1, <1>2, <1>5, <1>6 DEF PushedInv

\* With one of the range connectors, the profiler has pushed as many ranges as the host
\* has blocks of its stack, and the same while they nest; and until a section is started
\* while it runs, it has started exactly those of the fences and sections in flight,
\* under their names (kp_nvtx_connector.cpp:56-130).
THEOREM RangesAreTrue == RegistrySpec => []RangesFollowHost
<1> DEFINE Inv == tool \in RangeTools => RangedInv /\ PushedInv
<1>1. InitRegistry => Inv
  BY RangesInit
<1>2. HostInv /\ Inv /\ [NextRegistry]_vars => Inv'
  BY RangesStep, ToolStays
<1>3. HostInv /\ Inv => RangesFollowHost
  <2> SUFFICES ASSUME HostInv, RangedInv, PushedInv PROVE RangesNest /\ HandlesEnd
    BY DEF RangesFollowHost
  <2>1. RangesNest
    <3> DEFINE A == OpenKinds(NestedKinds)
    <3>1. Images(PushedOf, A) = [i \in DOMAIN A |-> Pushed(A[i].what, A[i].name)]
      <4>1. A \in Seq(HostBlocks)
        BY ViewTyped DEF ViewType
      <4> HIDE DEF A
      <4>2. \A i \in DOMAIN A : A[i] \in HostBlocks
        BY <4>1
      <4> QED BY <4>2 DEF Images, PushedOf
    <3> QED BY <3>1, Zenon DEF PushedInv, RangesNest
  <2>2. HandlesEnd
    <3> DEFINE C == OpenKinds({"fence", "section"})
               B == Ranged(ToSet(open))
               handed == {b \in ToSet(C) : Handle(sections, b) # UINT64_MAX}
    <3>1. ToSet(C) = B
      BY ViewTyped DEF ViewType, Ranged
    <3> SUFFICES ASSUME "restart" \notin slips
                 PROVE  /\ DOMAIN started = {Handle(sections, b) : b \in handed}
                        /\ \A b \in handed : started[Handle(sections, b)] = b.name
                        /\ \A b \in ToSet(open) : b.what = "section" => b \in handed
      BY Zenon DEF HandlesEnd, Handle
    <3>2. HandlesOf(sections, started, B, ranges)
      BY DEF RangedInv
    <3>3. \A b \in ToSet(open) : b.what = "section" => b \in B
      BY DEF Ranged
    <3> HIDE DEF B, C
    <3>4. \A h : h \in DOMAIN started <=> h \in {Handle(sections, b) : b \in handed}
      BY <3>1, <3>2 DEF HandlesOf
    <3>5. DOMAIN started = {Handle(sections, b) : b \in handed}
      BY <3>4
    <3>6. \A b \in handed : started[Handle(sections, b)] = b.name
      BY <3>1, <3>2 DEF HandlesOf
    <3>7. \A b \in ToSet(open) : b.what = "section" => b \in handed
      BY <3>1, <3>2, <3>3 DEF HandlesOf, SectionKept
    <3> QED BY <3>5, <3>6, <3>7
  <2> QED BY <2>1, <2>2
<1> QED BY <1>1, <1>2, <1>3, HostInvariant, PTL DEF RegistrySpec

-----------------------------------------------------------------------------
(* PAPI: how often a region is open, and how many blocks have its name     *)

Count(bag, x) == IF x \in DOMAIN bag THEN bag[x] ELSE 0

Bag(bag) == \A x \in DOMAIN bag : bag[x] \in Nat \ {0}

Counts(bag, next, r, n) ==
  /\ Bag(next)
  /\ \A x : x # r => Count(next, x) = Count(bag, x)
  /\ Count(next, r) = Count(bag, r) + n

\* A bag holds what it counts more than zero times.
LEMMA CountIn ==
  ASSUME NEW bag, NEW x, Bag(bag)
  PROVE  Count(bag, x) \in Nat /\ (x \in DOMAIN bag <=> Count(bag, x) # 0)
BY DEF Bag, Count

\* One more in a bag counts once more, and nothing else does.
LEMMA OneMore ==
  ASSUME NEW bag, NEW r, Bag(bag)
  PROVE  Counts(bag, bag (+) One(r), r, 1)
<1> DEFINE next == bag (+) One(r)
<1>1. next = [x \in DOMAIN bag \cup {r} |->
                (IF x \in DOMAIN bag THEN bag[x] ELSE 0) + (IF x \in {r} THEN 1 ELSE 0)]
  <2>1. DOMAIN One(r) = {r} /\ \A x \in {r} : One(r)[x] = 1
    BY DEF One, SetToBag
  <2>2. next = [x \in DOMAIN bag \cup DOMAIN One(r) |->
                  (IF x \in DOMAIN bag THEN bag[x] ELSE 0)
                  + (IF x \in DOMAIN One(r) THEN One(r)[x] ELSE 0)]
    BY Zenon DEF (+)
  <2> HIDE DEF next
  <2> QED BY <2>1, <2>2
<1> HIDE DEF next
<1>2. /\ DOMAIN next = DOMAIN bag \cup {r}
      /\ \A x \in DOMAIN bag : x # r => next[x] = bag[x] + 0
      /\ next[r] = Count(bag, r) + 1
  BY <1>1 DEF Count
<1>3. Count(bag, r) \in Nat
  BY CountIn
<1>4. Bag(next)
  BY <1>2, <1>3 DEF Bag
<1>5. \A x : x # r => Count(next, x) = Count(bag, x)
  BY <1>2 DEF Count, Bag
<1>6. Count(next, r) = Count(bag, r) + 1
  BY <1>2 DEF Count
<1>7. Counts(bag, next, r, 1)
  BY <1>4, <1>5, <1>6 DEF Counts
<1> QED BY <1>7 DEF next

\* One less counts once less, if it was there.
LEMMA OneLess ==
  ASSUME NEW bag, NEW r, Bag(bag)
  PROVE  Counts(bag, bag (-) One(r), r, IF r \in DOMAIN bag THEN -1 ELSE 0)
<1> DEFINE next == bag (-) One(r)
           left == [x \in DOMAIN bag |-> IF x = r THEN bag[x] - 1 ELSE bag[x]]
<1>1. next = [x \in {y \in DOMAIN left : left[y] > 0} |-> left[x]]
  <2>1. DOMAIN One(r) = {r} /\ \A x \in {r} : One(r)[x] = 1
    BY DEF One, SetToBag
  <2> DEFINE B == [x \in DOMAIN bag |-> IF x \in DOMAIN One(r) THEN bag[x] - One(r)[x]
                                       ELSE bag[x]]
  <2>2. next = [x \in {y \in DOMAIN B : B[y] > 0} |-> B[x]]
    BY Zenon DEF (-)
  <2>3. B = left
    BY <2>1
  <2> HIDE DEF next, B, left
  <2> QED BY <2>2, <2>3
<1> HIDE DEF next
<1>2. \A x \in DOMAIN bag : left[x] = IF x = r THEN bag[x] - 1 ELSE bag[x]
  OBVIOUS
<1>3. DOMAIN left = DOMAIN bag
  OBVIOUS
<1> HIDE DEF left
<1>4. \A x : x \in DOMAIN next <=> x \in DOMAIN bag /\ left[x] > 0
  BY <1>1, <1>3
<1>5. \A x \in DOMAIN next : next[x] = left[x]
  BY <1>1
<1>6. Bag(next)
  <2> SUFFICES ASSUME NEW x \in DOMAIN next PROVE next[x] \in Nat \ {0}
    BY DEF Bag
  <2>1. x \in DOMAIN bag /\ left[x] > 0 /\ next[x] = left[x] /\ bag[x] \in Nat
    BY <1>4, <1>5 DEF Bag
  <2> QED BY <1>2, <2>1
<1>7. ASSUME NEW x, x # r PROVE Count(next, x) = Count(bag, x)
  <2>1. x \in DOMAIN bag => left[x] = bag[x] /\ bag[x] \in Nat \ {0}
    BY <1>2, <1>7 DEF Bag
  <2>2. x \in DOMAIN next <=> x \in DOMAIN bag
    BY <1>4, <2>1
  <2> QED BY <1>5, <2>1, <2>2 DEF Count
<1>8. Count(next, r) = Count(bag, r) + (IF r \in DOMAIN bag THEN -1 ELSE 0)
  <2>1. CASE r \notin DOMAIN bag
    BY <1>4, <2>1 DEF Count
  <2>2. CASE r \in DOMAIN bag
    <3>1. left[r] = bag[r] - 1 /\ bag[r] \in Nat \ {0}
      BY <1>2, <2>2 DEF Bag
    <3>2. CASE bag[r] = 1
      BY <1>4, <2>2, <3>1, <3>2 DEF Count
    <3>3. CASE bag[r] # 1
      <4>1. left[r] > 0
        BY <3>1, <3>3
      <4> QED BY <1>4, <1>5, <2>2, <3>1, <4>1 DEF Count
    <3> QED BY <3>2, <3>3
  <2> QED BY <2>1, <2>2
<1>9. Counts(bag, next, r, IF r \in DOMAIN bag THEN -1 ELSE 0)
  BY <1>6, <1>7, <1>8 DEF Counts
<1> QED BY <1>9 DEF next

\* Finitely many blocks are in flight.
LEMMA OpenFinite ==
  ASSUME NEW S, NEW s \in Seq(S)
  PROVE  IsFiniteSet(ToSet(s))
<1> DEFINE T == {t \in Seq(S) : IsFiniteSet(ToSet(t))}
<1>1. << >> \in T
  <2>1. << >> \in Seq(S) /\ ToSet(<< >>) = {}
    BY DEF ToSet
  <2> QED BY <2>1, FS_EmptySet
<1>2. ASSUME NEW t \in Seq(S), NEW e \in S, t \in T PROVE Append(t, e) \in T
  <2>1. ToSet(Append(t, e)) = ToSet(t) \cup {e} /\ Append(t, e) \in Seq(S)
    BY ToSetAppend, AppendProperties
  <2>2. IsFiniteSet(ToSet(t))
    BY <1>2
  <2>3. IsFiniteSet(ToSet(t) \cup {e})
    BY <2>2, FS_AddElement
  <2> QED BY <2>1, <2>3
<1> HIDE DEF T
<1>3. Seq(S) \subseteq T
  BY <1>1, <1>2, SeqInduct
<1> QED BY <1>3 DEF T

\* The block that begins is new.
LEMMA BeginsNew ==
  ASSUME HostInv, NEW what, NEW name, NEW num
  PROVE  Block(what, name, num) \notin ToSet(open)
<1>1. Block(what, name, num).at = begun
  BY DEF Block
<1>2. open \in Seq(HostBlocks) /\ InOrder /\ begun \in Nat
  BY DEF HostInv, HostType
<1>3. \A i \in 1 .. Len(open) : open[i].at \in Nat /\ open[i].at < begun
  <2>1. \A i \in 1 .. Len(open) : open[i] \in HostBlocks
    BY <1>2
  <2> QED BY <1>2, <2>1 DEF HostBlocks, InOrder
<1>4. DOMAIN open = 1 .. Len(open)
  BY <1>2
<1>5. \A b \in ToSet(open) : b.at # begun
  BY <1>2, <1>3, <1>4 DEF ToSet
<1> QED BY <1>1, <1>5

Named(blocks, x) == {b \in blocks : PapiNameOf(b) = x}

\* A block more counts once more under its name.
LEMMA NamedAdded ==
  ASSUME NEW B, IsFiniteSet(B), NEW b, b \notin B, NEW x
  PROVE  Cardinality(Named(B \cup {b}, x)) =
         Cardinality(Named(B, x)) + (IF PapiNameOf(b) = x THEN 1 ELSE 0)
<1> DEFINE N == Named(B, x)
<1>1. IsFiniteSet(N) /\ Cardinality(N) \in Nat /\ b \notin N
  <2>1. N \subseteq B
    BY DEF Named
  <2> HIDE DEF N
  <2>2. IsFiniteSet(N)
    BY <2>1, FS_Subset
  <2> QED BY <2>1, <2>2, FS_CardinalityType
<1>2. CASE PapiNameOf(b) = x
  <2>1. Named(B \cup {b}, x) = N \cup {b}
    BY <1>2 DEF Named
  <2> HIDE DEF N
  <2>2. Cardinality(N \cup {b}) = Cardinality(N) + 1
    BY <1>1, FS_AddElement
  <2> QED BY <1>2, <2>1, <2>2 DEF N
<1>3. CASE PapiNameOf(b) # x
  <2>1. Named(B \cup {b}, x) = N
    BY <1>3 DEF Named
  <2> HIDE DEF N
  <2> QED BY <1>1, <1>3, <2>1 DEF N
<1> QED BY <1>2, <1>3

\* A block less counts once less under its name.
LEMMA NamedRemoved ==
  ASSUME NEW B, IsFiniteSet(B), NEW b \in B, NEW x
  PROVE  /\ Cardinality(Named(B \ {b}, x)) =
            Cardinality(Named(B, x)) - (IF PapiNameOf(b) = x THEN 1 ELSE 0)
         /\ Cardinality(Named(B, PapiNameOf(b))) # 0
<1> DEFINE N == Named(B, x)
           M == Named(B, PapiNameOf(b))
<1>1. /\ IsFiniteSet(N) /\ Cardinality(N) \in Nat
      /\ IsFiniteSet(M)
  <2>1. N \subseteq B /\ M \subseteq B
    BY DEF Named
  <2> HIDE DEF N, M
  <2>2. IsFiniteSet(N) /\ IsFiniteSet(M)
    BY <2>1, FS_Subset
  <2> QED BY <2>1, <2>2, FS_CardinalityType
<1>2. b \in M
  BY DEF Named
<1>3. CASE PapiNameOf(b) = x
  <2>1. Named(B \ {b}, x) = N \ {b} /\ b \in N
    BY <1>3 DEF Named
  <2> HIDE DEF N
  <2>2. Cardinality(N \ {b}) = Cardinality(N) - 1
    BY <1>1, <2>1, FS_RemoveElement
  <2> HIDE DEF M
  <2>3. Cardinality(M) # 0
    BY <1>1, <1>2, FS_EmptySet
  <2> QED BY <1>3, <2>1, <2>2, <2>3 DEF N, M
<1>4. CASE PapiNameOf(b) # x
  <2>1. Named(B \ {b}, x) = N
    BY <1>4 DEF Named
  <2> HIDE DEF N, M
  <2>2. Cardinality(M) # 0
    BY <1>1, <1>2, FS_EmptySet
  <2> QED BY <1>1, <1>4, <2>1, <2>2 DEF N, M
<1> QED BY <1>3, <1>4

-----------------------------------------------------------------------------
(* The PAPI connector                                                      *)

TagOf == [b \in HostBlocks |-> Tagged(b.what, b.name)]

\* PAPI has the region x open as often as the host has a block of that name.
PapiOpen(x) == Count(papi, x) = Cardinality(Named(ToSet(open), x))

\* Kernels are right always, the rest until a section is started.
Measured ==
  /\ Bag(papi) /\ strays \in Int
  /\ \A x : x[1] \in KernelKinds \/ "section" \notin slips => PapiOpen(x)

KernelStacks ==
  /\ kernel_name = [kind \in KernelKinds |-> kernel_name[kind]]
  /\ \A kind \in KernelKinds : kernel_name[kind] = Images(TagOf, OpenKinds({kind}))

\* What is on the stack of regions is no kernel, and until a section is started it is
\* the regions in flight.
RegionStack ==
  /\ \E S : region_name \in Seq(S) /\ \A t \in S : t[1] \notin KernelKinds
  /\ "section" \notin slips =>
       /\ strays = 0
       /\ \A b \in ToSet(open) : b.what # "section"
       /\ region_name = Images(TagOf, OpenKinds({"region"}))

PapiInv == Measured /\ KernelStacks /\ RegionStack

\* The open blocks of these kinds stay as they are.
NotOf(kinds) ==
  \/ open' = open
  \/ \E what, name, num : what \notin kinds /\ open' = Append(open, Block(what, name, num))
  \/ \E i \in DOMAIN open : open[i].what \notin kinds /\ open' = RemoveAt(open, i)

\* Blocks of other kinds come and go unnoticed.
LEMMA OtherViews ==
  ASSUME HostInv, HostInv', NEW kinds, NotOf(kinds)
  PROVE  \A k : k \subseteq kinds => OpenKinds(k)' = OpenKinds(k)
<1> SUFFICES ASSUME NEW k, k \subseteq kinds PROVE OpenKinds(k)' = OpenKinds(k)
  OBVIOUS
<1>1. open' = open => OpenKinds(k)' = OpenKinds(k)
  BY SameView
<1>2. ASSUME NEW what, NEW name, NEW num, what \notin kinds,
             open' = Append(open, Block(what, name, num))
      PROVE  OpenKinds(k)' = OpenKinds(k)
  <2>1. OpenKinds(k)' = Step(OpenKinds(k), Block(what, name, num), k)
    BY <1>2, BeginsView
  <2> QED BY <1>2, <2>1 DEF Step, Block
<1>3. ASSUME NEW i \in DOMAIN open, open[i].what \notin kinds, open' = RemoveAt(open, i)
      PROVE  OpenKinds(k)' = OpenKinds(k)
  BY <1>3, EndsView
<1> QED BY <1>1, <1>2, <1>3, Zenon DEF NotOf

\* The name of a block begins with what the block is.
LEMMA NameTells == \A b, x : PapiNameOf(b) = x => x[1] = b.what
BY DEF PapiNameOf, Tagged, Copy

\* PAPI is told of the block that begins, or of the one that ends.
LEMMA PapiOpened ==
  ASSUME HostInv, HostInv', NEW what, NEW name, NEW num,
         open' = Append(open, Block(what, name, num)),
         Bag(papi), papi' = papi (+) One(PapiNameOf(Block(what, name, num)))
  PROVE  Bag(papi') /\ \A x : PapiOpen(x) => PapiOpen(x)'
<1> DEFINE b == Block(what, name, num)
           r == PapiNameOf(b)
           B == ToSet(open)
<1>1. b \notin B /\ ToSet(open') = B \cup {b}
  BY BeginsNew, BeginsSet
<1>2. IsFiniteSet(B)
  BY OpenFinite DEF HostInv, HostType
<1>3. Counts(papi, papi', r, 1)
  BY OneMore
<1> HIDE DEF b, B
<1>4. SUFFICES ASSUME NEW x, PapiOpen(x) PROVE PapiOpen(x)'
  BY <1>3 DEF Counts
<1>5. Cardinality(Named(B \cup {b}, x)) = Cardinality(Named(B, x)) + (IF r = x THEN 1 ELSE 0)
  BY <1>1, <1>2, NamedAdded
<1>6. Count(papi, x) = Cardinality(Named(B, x)) /\ Count(papi, x) \in Nat
  BY <1>4, CountIn DEF PapiOpen, B
<1> HIDE DEF r
<1>7. Count(papi', x) = Cardinality(Named(B \cup {b}, x))
  BY <1>3, <1>5, <1>6 DEF Counts
<1> QED BY <1>1, <1>7, Zenon DEF PapiOpen

\* PAPI is told the end of a region it has open.
LEMMA PapiEnded ==
  ASSUME HostInv, NEW i \in DOMAIN open, open' = RemoveAt(open, i),
         Bag(papi), PapiOpen(PapiNameOf(open[i])), papi' = papi (-) One(PapiNameOf(open[i]))
  PROVE  /\ Bag(papi') /\ BagIn(PapiNameOf(open[i]), papi)
         /\ \A x : PapiOpen(x) => PapiOpen(x)'
<1> DEFINE b == open[i]
           r == PapiNameOf(b)
           B == ToSet(open)
<1>1. b \in B /\ ToSet(open') = B \ {b}
  BY EndsSet DEF ToSet
<1>2. IsFiniteSet(B)
  BY OpenFinite DEF HostInv, HostType
<1>3. Counts(papi, papi', r, IF r \in DOMAIN papi THEN -1 ELSE 0)
  BY OneLess
<1>4. Count(papi, r) = Cardinality(Named(B, r))
  BY DEF PapiOpen
<1> HIDE DEF b, B
<1>5. \A x : /\ Cardinality(Named(B \ {b}, x)) =
                Cardinality(Named(B, x)) - (IF r = x THEN 1 ELSE 0)
             /\ Cardinality(Named(B, r)) # 0
  BY <1>1, <1>2, NamedRemoved
<1> HIDE DEF r
<1>6. r \in DOMAIN papi
  BY <1>4, <1>5, CountIn
<1>7. ASSUME NEW x, PapiOpen(x) PROVE PapiOpen(x)'
  <2>1. Count(papi, x) = Cardinality(Named(B, x)) /\ Count(papi, x) \in Nat
    BY <1>7, CountIn DEF PapiOpen, B
  <2>2. Count(papi', x) = Cardinality(Named(B \ {b}, x))
    BY <1>3, <1>5, <1>6, <2>1 DEF Counts
  <2> QED BY <1>1, <2>2, Zenon DEF PapiOpen
<1>8. Bag(papi')
  BY <1>3 DEF Counts
<1>9. BagIn(r, papi)
  BY <1>6 DEF BagIn, BagToSet
<1> QED BY <1>7, <1>8, <1>9 DEF r, b

\* Calls for other regions do not change the kernels that PAPI has open.
LEMMA KernelsKept ==
  ASSUME HostInv, HostInv', NotOf(KernelKinds), Bag(papi), NEW t,
         \/ papi' = papi
         \/ t[1] \notin KernelKinds /\ papi' = papi (+) One(t)
         \/ t[1] \notin KernelKinds /\ papi' = papi (-) One(t)
  PROVE  Bag(papi') /\ \A x : x[1] \in KernelKinds /\ PapiOpen(x) => PapiOpen(x)'
<1>1. Bag(papi') /\ \A x : x[1] \in KernelKinds => Count(papi', x) = Count(papi, x)
  <2>1. CASE papi' = papi
    BY <2>1
  <2>2. CASE t[1] \notin KernelKinds /\ papi' = papi (+) One(t)
    <3>1. Counts(papi, papi', t, 1)
      BY <2>2, OneMore
    <3> QED BY <2>2, <3>1 DEF Counts
  <2>3. CASE t[1] \notin KernelKinds /\ papi' = papi (-) One(t)
    <3>1. Counts(papi, papi', t, IF t \in DOMAIN papi THEN -1 ELSE 0)
      BY <2>3, OneLess
    <3> QED BY <2>3, <3>1 DEF Counts
  <2> QED BY <2>1, <2>2, <2>3
<1>2. ASSUME NEW x, x[1] \in KernelKinds
      PROVE  Named(ToSet(open'), x) = Named(ToSet(open), x)
  <2>1. CASE open' = open
    BY <2>1
  <2>2. ASSUME NEW what, NEW name, NEW num, what \notin KernelKinds,
               open' = Append(open, Block(what, name, num))
        PROVE  Named(ToSet(open'), x) = Named(ToSet(open), x)
    <3> DEFINE b == Block(what, name, num)
    <3>1. b.what \notin KernelKinds /\ ToSet(open') = ToSet(open) \cup {b}
      BY <2>2, BeginsSet DEF Block
    <3>2. PapiNameOf(b) # x
      BY <1>2, <3>1, NameTells
    <3> HIDE DEF b
    <3> QED BY <3>1, <3>2 DEF Named
  <2>3. ASSUME NEW i \in DOMAIN open, open[i].what \notin KernelKinds, open' = RemoveAt(open, i)
        PROVE  Named(ToSet(open'), x) = Named(ToSet(open), x)
    <3>1. ToSet(open') = ToSet(open) \ {open[i]}
      BY <2>3, EndsSet
    <3>2. PapiNameOf(open[i]) # x
      BY <1>2, <2>3, NameTells
    <3> QED BY <3>1, <3>2 DEF Named
  <2> QED BY <2>1, <2>2, <2>3, Zenon DEF NotOf
<1> QED BY <1>1, <1>2 DEF PapiOpen

\* Every block of the host has a tag of its kind and name.
LEMMA TagTyped == \A b \in HostBlocks : TagOf[b] = Tagged(b.what, b.name)
BY DEF TagOf

\* Begins and ends of other blocks leave the stacks of kernels, and those of no regions
\* the stack of regions.
LEMMA KernelStacksStay ==
  ASSUME HostInv, HostInv', NotOf(KernelKinds), KernelStacks, kernel_name' = kernel_name
  PROVE  KernelStacks'
<1>1. \A kind \in KernelKinds : OpenKinds({kind})' = OpenKinds({kind})
  <2>1. \A k : k \subseteq KernelKinds => OpenKinds(k)' = OpenKinds(k)
    BY OtherViews
  <2> QED BY <2>1
<1> QED BY <1>1, Zenon DEF KernelStacks

\* What is not a region leaves the stack of regions as it is.
LEMMA RegionStackStays ==
  ASSUME HostInv, HostInv', NotOf({"region", "section"}), RegionStack,
         region_name' = region_name, "section" \notin slips' => strays' = strays,
         slips \subseteq slips'
  PROVE  RegionStack'
<1>1. OpenKinds({"region"})' = OpenKinds({"region"})
  BY OtherViews
<1>2. ASSUME \A b \in ToSet(open) : b.what # "section"
      PROVE  \A b \in ToSet(open') : b.what # "section"
  <2>1. ASSUME NEW what, NEW name, NEW num, what \notin {"region", "section"},
               open' = Append(open, Block(what, name, num))
        PROVE  \A b \in ToSet(open') : b.what # "section"
    <3>1. ToSet(open') = ToSet(open) \cup {Block(what, name, num)}
      BY <2>1, BeginsSet
    <3>2. Block(what, name, num).what # "section"
      BY <2>1 DEF Block
    <3> QED BY <1>2, <3>1, <3>2
  <2>2. ASSUME NEW i \in DOMAIN open, open' = RemoveAt(open, i)
        PROVE  \A b \in ToSet(open') : b.what # "section"
    <3>1. ToSet(open') = ToSet(open) \ {open[i]}
      BY <2>2, EndsSet
    <3> QED BY <1>2, <3>1
  <2>3. CASE open' = open
    BY <1>2, <2>3
  <2> QED BY <2>1, <2>2, <2>3, Zenon DEF NotOf
<1>3. /\ \E S : region_name' \in Seq(S) /\ \A t \in S : t[1] \notin KernelKinds
      /\ "section" \notin slips' =>
           /\ strays' = 0
           /\ \A b \in ToSet(open') : b.what # "section"
           /\ region_name' = Images(TagOf, OpenKinds({"region"})')
  BY <1>1, <1>2, Zenon DEF RegionStack
<1> QED BY <1>3 DEF RegionStack

\* PAPI's name of a kernel or region that begins.
LEMMA KernelTags ==
  ASSUME NEW what, NEW name, NEW num, what \in KernelKinds \cup {"region"}
  PROVE  PapiNameOf(Block(what, name, num)) = Tagged(what, name)
BY HostTraceAssumption DEF PapiNameOf, Block

\* PAPI's name of a kernel or region in flight.
LEMMA BlockTags ==
  ASSUME NEW b, b.what \in KernelKinds \cup {"region"}
  PROVE  PapiNameOf(b) = Tagged(b.what, b.name)
BY HostTraceAssumption DEF PapiNameOf

\* A kernel that begins is on the stack of its kind and open in PAPI.
LEMMA PapiKernelBegins ==
  ASSUME HostInv, HostInv', PapiInv, slips \subseteq slips',
         NEW kind \in KernelKinds, NEW name, Begins(kind, name, 0), PapiBeginParallel(kind, name)
  PROVE  PapiInv'
<1> DEFINE b == Block(kind, name, 0)
<1>1. open' = Append(open, b) /\ b.what = kind /\ b.name = name
  BY DEF Begins, Block
<1>2. b \in HostBlocks
  BY <1>1, BlockTyped
<1>3. kind \notin {"region", "section"}
  BY HostTraceAssumption
<1>4. Measured'
  <2>1. PapiNameOf(b) = Tagged(kind, name)
    BY KernelTags
  <2>2. papi' = papi (+) One(PapiNameOf(b))
    BY <2>1 DEF PapiBeginParallel, PAPI_hl_region_begin
  <2>3. Bag(papi') /\ \A x : PapiOpen(x) => PapiOpen(x)'
    BY <1>1, <2>2, PapiOpened DEF PapiInv, Measured
  <2>4. strays' = strays
    BY DEF PapiBeginParallel, PAPI_hl_region_begin
  <2> QED BY <2>3, <2>4, Zenon DEF PapiInv, Measured
<1>5. RegionStack'
  <2>1. NotOf({"region", "section"})
    BY <1>1, <1>3 DEF NotOf
  <2> QED BY <2>1, RegionStackStays DEF PapiInv, PapiBeginParallel, PAPI_hl_region_begin
<1>6. KernelStacks'
  <2>1. \A k : OpenKinds(k)' = Step(OpenKinds(k), b, k)
    BY <1>1, BeginsView
  <2> HIDE DEF b
  <2>2. /\ kernel_name' = [k \in KernelKinds |->
              IF k = kind THEN Append(kernel_name[k], Tagged(kind, name)) ELSE kernel_name[k]]
    BY DEF PapiInv, KernelStacks, PapiBeginParallel
  <2>3. ASSUME NEW k \in KernelKinds PROVE kernel_name'[k] = Images(TagOf, OpenKinds({k})')
    <3> DEFINE A == OpenKinds({k})
    <3>1. kernel_name[k] = Images(TagOf, A) /\ A \in Seq(HostBlocks)
      BY ViewTyped DEF PapiInv, KernelStacks, ViewType
    <3>2. CASE k # kind
      <4>1. A' = A
        BY <1>1, <2>1, <3>2 DEF Step
      <4> QED BY <2>2, <3>1, <3>2, <4>1
    <3>3. CASE k = kind
      <4>1. A' = Append(A, b)
        BY <1>1, <2>1, <3>3 DEF Step
      <4> HIDE DEF A
      <4>2. PushesImage(TagOf, A, b)
        BY <1>2, <3>1, ImagesAppend
      <4>3. TagOf[b] = Tagged(kind, name)
        BY <1>1, <1>2, TagTyped
      <4>4. kernel_name'[k] = Append(kernel_name[k], TagOf[b])
        BY <2>2, <3>3, <4>3
      <4>5. kernel_name'[k] = Images(TagOf, A')
        BY <3>1, <4>1, <4>2, <4>4, Zenon DEF PushesImage
      <4> QED BY <4>5 DEF A
    <3> QED BY <3>2, <3>3
  <2>4. kernel_name' = [k \in KernelKinds |-> kernel_name'[k]]
    BY <2>2
  <2> QED BY <2>3, <2>4, Zenon DEF KernelStacks
<1> QED BY <1>4, <1>5, <1>6 DEF PapiInv

\* A kernel that ends is the last of its kind, so its name is on top of the
\* stack.
LEMMA PapiKernelEnds ==
  ASSUME HostInv, HostInv', PapiInv, slips \subseteq slips',
         NEW i \in DOMAIN open, open[i].what \in KernelKinds, Ends(i),
         PapiEndParallel(open[i].what)
  PROVE  PapiInv'
<1>a. PICK b, kind : b = open[i] /\ kind = b.what
  OBVIOUS
<1> DEFINE A == OpenKinds({kind})
<1>1. open' = RemoveAt(open, i)
  BY DEF Ends
<1>2. b \in HostBlocks /\ kind \in KernelKinds /\ kind \in NestedKinds
  BY <1>a DEF HostInv, HostType, NestedKinds
<1>3. kind \notin {"region", "section"}
  BY <1>2, HostTraceAssumption
<1>4. /\ A = Append(A', b) /\ A' \in Seq(HostBlocks)
      /\ kernel_name[kind] = Images(TagOf, A)
  <2>1. A = Append(A', b)
    BY <1>a, <1>2, KindEnds
  <2>2. A' \in Seq(HostBlocks)
    BY ViewTypedNext DEF ViewType
  <2>3. kernel_name[kind] = Images(TagOf, A)
    BY <1>2, Zenon DEF PapiInv, KernelStacks
  <2> QED BY <2>1, <2>2, <2>3
<1>5. PopsImage(TagOf, kernel_name[kind], A', b)
  <2>1. PopsImage(TagOf, Images(TagOf, Append(A', b)), A', b)
    BY <1>2, <1>4, ImagesEnd, Zenon
  <2> QED BY <1>4, <2>1, Zenon
<1>6. Top(kernel_name[kind]) = PapiNameOf(b)
  <2>1. TagOf[b] = Tagged(b.what, b.name)
    BY <1>2, TagTyped
  <2>2. PapiNameOf(b) = Tagged(b.what, b.name)
    BY <1>a, <1>2, BlockTags
  <2> QED BY <1>5, <2>1, <2>2, Zenon DEF PopsImage, Top
<1>7. /\ Bag(papi') /\ BagIn(PapiNameOf(b), papi) /\ strays' = strays
      /\ \A x : PapiOpen(x) => PapiOpen(x)'
  <2>1. /\ papi' = papi (-) One(PapiNameOf(b))
        /\ strays' = strays + (IF BagIn(PapiNameOf(b), papi) THEN 0 ELSE 1)
    BY <1>a, <1>6, Zenon DEF PapiEndParallel, PAPI_hl_region_end
  <2>2. Bag(papi) /\ PapiOpen(PapiNameOf(b))
    <3>1. PapiNameOf(b)[1] \in KernelKinds
      BY <1>a, <1>2, NameTells
    <3> QED BY <3>1, Zenon DEF PapiInv, Measured
  <2>3. /\ Bag(papi') /\ BagIn(PapiNameOf(b), papi)
        /\ \A x : PapiOpen(x) => PapiOpen(x)'
    BY <1>a, <1>1, <2>1, <2>2, PapiEnded
  <2>4. strays \in Int
    BY DEF PapiInv, Measured
  <2> QED BY <2>1, <2>3, <2>4
<1>8. Measured'
  BY <1>7, Zenon DEF PapiInv, Measured
<1>9. RegionStack'
  <2>1. NotOf({"region", "section"})
    BY <1>a, <1>1, <1>3 DEF NotOf
  <2> QED BY <1>7, <2>1, RegionStackStays DEF PapiInv, PapiEndParallel
<1>10. KernelStacks'
  <2>1. kernel_name' = [k \in KernelKinds |->
           IF k = kind THEN Front(kernel_name[k]) ELSE kernel_name[k]]
    BY <1>a DEF PapiInv, KernelStacks, PapiEndParallel, Popped
  <2>2. ASSUME NEW k \in KernelKinds PROVE kernel_name'[k] = Images(TagOf, OpenKinds({k})')
    <3>1. CASE k # kind
      <4>1. open[i].what \notin {k}
        BY <1>a, <3>1
      <4>2. OpenKinds({k})' = OpenKinds({k})
        BY <1>1, <4>1, EndsView
      <4> QED BY <2>1, <3>1, <4>2, Zenon DEF PapiInv, KernelStacks
    <3>2. CASE k = kind
      BY <1>5, <2>1, <3>2, Zenon DEF PopsImage
    <3> QED BY <3>1, <3>2
  <2>3. kernel_name' = [k \in KernelKinds |-> kernel_name'[k]]
    BY <2>1
  <2> QED BY <2>2, <2>3, Zenon DEF KernelStacks
<1> QED BY <1>8, <1>9, <1>10 DEF PapiInv

RegionsTyped(names) == \E S : names \in Seq(S) /\ \A t \in S : t[1] \notin KernelKinds

\* A name more on the stack of regions.
LEMMA RegionAppended ==
  ASSUME NEW names, RegionsTyped(names), NEW t, t[1] \notin KernelKinds, NEW next,
         next = Append(names, t)
  PROVE  RegionsTyped(next)
<1>1. PICK S : names \in Seq(S) /\ \A r \in S : r[1] \notin KernelKinds
  BY DEF RegionsTyped
<1>2. names \in Seq(S \cup {t}) /\ t \in S \cup {t}
  BY <1>1, SeqMonotonic
<1>3. next \in Seq(S \cup {t}) /\ \A r \in S \cup {t} : r[1] \notin KernelKinds
  BY <1>1, <1>2, AppendProperties
<1> QED BY <1>3 DEF RegionsTyped

\* A name less on the stack of regions.
LEMMA RegionPopped ==
  ASSUME NEW names, RegionsTyped(names), names # << >>
  PROVE  RegionsTyped(Popped(names)) /\ Top(names)[1] \notin KernelKinds
<1>1. PICK S : names \in Seq(S) /\ \A r \in S : r[1] \notin KernelKinds
  BY DEF RegionsTyped
<1>2. Front(names) \in Seq(S) /\ Last(names) \in S
  BY <1>1, FrontTyped
<1> QED BY <1>1, <1>2, Zenon DEF RegionsTyped, Popped, Top

\* Once a section has been started, only the kernels matter.
LEMMA OnlyKernels ==
  ASSUME HostInv, HostInv', PapiInv, NotOf(KernelKinds), "section" \in slips', NEW t,
         \/ papi' = papi
         \/ t[1] \notin KernelKinds /\ papi' = papi (+) One(t)
         \/ t[1] \notin KernelKinds /\ papi' = papi (-) One(t),
         kernel_name' = kernel_name, RegionsTyped(region_name'), strays' \in Int
  PROVE  PapiInv'
<1>1. Bag(papi') /\ \A x : x[1] \in KernelKinds /\ PapiOpen(x) => PapiOpen(x)'
  BY KernelsKept DEF PapiInv, Measured
<1>2. Measured'
  BY <1>1, Zenon DEF PapiInv, Measured
<1>3. KernelStacks'
  BY KernelStacksStay DEF PapiInv
<1>4. RegionStack'
  BY DEF RegionStack, RegionsTyped
<1> QED BY <1>2, <1>3, <1>4 DEF PapiInv

\* A region or a copy begins, of which PAPI is told.
LEMMA OtherBegins ==
  ASSUME HostInv, HostInv', PapiInv, slips \subseteq slips',
         NEW what \in {"region", "copy"}, NEW name, Begins(what, name, 0),
         PAPI_hl_region_begin(PapiNameOf(Block(what, name, 0)))
  PROVE  Measured' /\ strays' = strays /\ NotOf(KernelKinds)
<1>1. open' = Append(open, Block(what, name, 0)) /\ what \notin KernelKinds
  BY HostTraceAssumption DEF Begins
<1>2. papi' = papi (+) One(PapiNameOf(Block(what, name, 0))) /\ strays' = strays
  BY DEF PAPI_hl_region_begin
<1>3. Bag(papi') /\ \A x : PapiOpen(x) => PapiOpen(x)'
  BY <1>1, <1>2, PapiOpened DEF PapiInv, Measured
<1>4. Measured'
  BY <1>2, <1>3, Zenon DEF PapiInv, Measured
<1> QED BY <1>1, <1>2, <1>4 DEF NotOf

\* A region or a copy ends, and PAPI is told to end one, of that name if no section has
\* been started.
LEMMA OtherEnds ==
  ASSUME HostInv, HostInv', PapiInv, slips \subseteq slips', "section" \notin slips',
         NEW i \in DOMAIN open, open[i].what \notin KernelKinds, Ends(i),
         PAPI_hl_region_end(PapiNameOf(open[i]))
  PROVE  Measured' /\ strays' = strays
<1>1. open' = RemoveAt(open, i)
  BY DEF Ends
<1>2. PICK r : r = PapiNameOf(open[i])
  OBVIOUS
<1>3. papi' = papi (-) One(r) /\ strays' = strays + (IF BagIn(r, papi) THEN 0 ELSE 1)
  BY <1>2, Zenon DEF PAPI_hl_region_end
<1>4. PapiOpen(r) /\ Bag(papi) /\ strays \in Int
  BY DEF PapiInv, Measured
<1>5. Bag(papi') /\ BagIn(r, papi) /\ \A x : PapiOpen(x) => PapiOpen(x)'
  BY <1>1, <1>2, <1>3, <1>4, PapiEnded
<1>6. strays' = strays
  BY <1>3, <1>4, <1>5
<1>7. Measured'
  BY <1>5, <1>6, Zenon DEF PapiInv, Measured
<1> QED BY <1>6, <1>7

\* The begin of a copy keeps the invariant.
LEMMA CopyBegins ==
  ASSUME HostInv, HostInv', PapiInv, slips \subseteq slips', Begins("copy", "", 0),
         PapiBeginDeepCopy
  PROVE  PapiInv'
<1>1. PapiNameOf(Block("copy", "", 0)) = Copy
  BY DEF PapiNameOf, Block
<1>2. PAPI_hl_region_begin(PapiNameOf(Block("copy", "", 0)))
  BY <1>1, Zenon DEF PapiBeginDeepCopy
<1>3. Measured' /\ strays' = strays /\ NotOf(KernelKinds)
  BY <1>2, OtherBegins
<1>4. KernelStacks'
  BY <1>3, KernelStacksStay DEF PapiInv, PapiBeginDeepCopy
<1>5. NotOf({"region", "section"})
  BY DEF NotOf, Begins
<1>6. RegionStack'
  BY <1>3, <1>5, RegionStackStays DEF PapiInv, PapiBeginDeepCopy
<1> QED BY <1>3, <1>4, <1>6 DEF PapiInv

\* So does its end.
LEMMA CopyEnds ==
  ASSUME HostInv, HostInv', PapiInv, slips \subseteq slips',
         NEW i \in DOMAIN open, open[i].what = "copy", Ends(i), PapiEndDeepCopy
  PROVE  PapiInv'
<1>1. /\ open' = RemoveAt(open, i) /\ open[i].what \notin KernelKinds
      /\ open[i].what \notin {"region", "section"}
  BY HostTraceAssumption DEF Ends
<1>2. NotOf(KernelKinds) /\ NotOf({"region", "section"})
  BY <1>1 DEF NotOf
<1>3. PapiNameOf(open[i]) = Copy /\ Copy[1] = "copy"
  BY DEF PapiNameOf, Copy
<1>4. /\ PAPI_hl_region_end(PapiNameOf(open[i]))
      /\ kernel_name' = kernel_name /\ region_name' = region_name
  BY <1>3, Zenon DEF PapiEndDeepCopy
<1>5. CASE "section" \notin slips'
  <2>1. Measured' /\ strays' = strays
    BY <1>1, <1>4, <1>5, OtherEnds
  <2>2. KernelStacks'
    BY <1>2, <1>4, KernelStacksStay DEF PapiInv
  <2>3. RegionStack'
    BY <1>2, <1>4, <2>1, RegionStackStays DEF PapiInv
  <2> QED BY <2>1, <2>2, <2>3 DEF PapiInv
<1>6. CASE "section" \in slips'
  <2>1. papi' = papi (-) One(Copy) /\ strays' \in Int
    BY DEF PapiEndDeepCopy, PAPI_hl_region_end, PapiInv, Measured
  <2>2. RegionsTyped(region_name')
    BY <1>4 DEF PapiInv, RegionStack, RegionsTyped
  <2>3. Copy[1] \notin KernelKinds
    BY <1>3, HostTraceAssumption
  <2> QED BY <1>2, <1>4, <1>6, <2>1, <2>2, <2>3, OnlyKernels
<1> QED BY <1>5, <1>6

\* A region that is pushed keeps the invariant.
LEMMA RegionBegins ==
  ASSUME HostInv, HostInv', PapiInv, slips \subseteq slips',
         NEW name, Begins("region", name, 0), PapiPushRegion(name)
  PROVE  PapiInv'
<1> DEFINE b == Block("region", name, 0)
           A == OpenKinds({"region"})
           t == Tagged("region", name)
<1>1. /\ open' = Append(open, b) /\ b.what = "region" /\ b.name = name
      /\ slips' = slips
  BY HostTraceAssumption DEF Begins, Block, Slips
<1>2. b \in HostBlocks /\ A \in Seq(HostBlocks)
  BY <1>1, BlockTyped, ViewTyped DEF ViewType
<1>3. PapiNameOf(b) = t
  BY KernelTags
<1>4. /\ PAPI_hl_region_begin(PapiNameOf(b))
      /\ kernel_name' = kernel_name /\ region_name' = Append(region_name, t)
  BY <1>3, Zenon DEF PapiPushRegion
<1>5. Measured' /\ strays' = strays /\ NotOf(KernelKinds)
  BY <1>4, OtherBegins
<1>6. KernelStacks'
  BY <1>4, <1>5, KernelStacksStay DEF PapiInv
<1>7. RegionsTyped(region_name')
  <2>1. t[1] \notin KernelKinds
    BY HostTraceAssumption DEF Tagged
  <2>2. RegionsTyped(region_name)
    BY DEF PapiInv, RegionStack, RegionsTyped
  <2> QED BY <1>4, <2>1, <2>2, RegionAppended
<1>8. ASSUME "section" \notin slips'
      PROVE  /\ strays' = 0
             /\ \A c \in ToSet(open') : c.what # "section"
             /\ region_name' = Images(TagOf, A')
  <2>1. /\ strays = 0 /\ region_name = Images(TagOf, A)
        /\ \A c \in ToSet(open) : c.what # "section"
    BY <1>1, <1>8 DEF PapiInv, RegionStack
  <2>2. ToSet(open') = ToSet(open) \cup {b}
    BY <1>1, BeginsSet
  <2>3. A' = Step(A, b, {"region"})
    BY <1>1, BeginsView
  <2>4. \A c \in ToSet(open') : c.what # "section"
    BY <1>1, <2>1, <2>2
  <2> HIDE DEF b
  <2>5. A' = Append(A, b)
    BY <1>1, <2>3 DEF Step
  <2>6. TagOf[b] = t
    BY <1>1, <1>2, TagTyped
  <2> HIDE DEF A
  <2>7. PushesImage(TagOf, A, b)
    BY <1>2, ImagesAppend
  <2>8. region_name' = Images(TagOf, A')
    BY <1>4, <2>1, <2>5, <2>6, <2>7, Zenon DEF PushesImage
  <2> QED BY <1>5, <2>1, <2>4, <2>8
<1>9. RegionStack'
  BY <1>7, <1>8, Zenon DEF RegionStack, RegionsTyped
<1> QED BY <1>5, <1>6, <1>9 DEF PapiInv

\* So does one that is popped: until a section is started the name on top is its
\* own.
LEMMA RegionEnds ==
  ASSUME HostInv, HostInv', PapiInv, slips \subseteq slips',
         NEW i \in DOMAIN open, open[i].what = "region", Ends(i), PapiPopRegion
  PROVE  PapiInv'
<1>a. PICK b : b = open[i]
  OBVIOUS
<1> DEFINE A == OpenKinds({"region"})
<1>1. /\ open' = RemoveAt(open, i) /\ b.what \notin KernelKinds /\ b \in HostBlocks
      /\ b.what = "region" /\ "region" \in NestedKinds
  BY <1>a, HostTraceAssumption DEF Ends, HostInv, HostType, NestedKinds
<1>2. NotOf(KernelKinds)
  BY <1>a, <1>1 DEF NotOf
<1>3. /\ RegionsTyped(region_name) /\ kernel_name' = kernel_name
      /\ region_name = << >> => papi' = papi /\ region_name' = region_name /\ strays' = strays
      /\ region_name # << >> => /\ PAPI_hl_region_end(Top(region_name))
                                /\ region_name' = Popped(region_name)
  BY DEF PapiInv, RegionStack, RegionsTyped, PapiPopRegion, papiVars
<1>4. RegionsTyped(region_name')
  BY <1>3, RegionPopped
<1>5. CASE "section" \in slips'
  <2>1. PICK t : t = Top(region_name)
    OBVIOUS
  <2>2. strays' \in Int
    BY <1>3 DEF PapiInv, Measured, PAPI_hl_region_end
  <2>3. \/ papi' = papi
        \/ t[1] \notin KernelKinds /\ papi' = papi (-) One(t)
    BY <1>3, <2>1, RegionPopped, Zenon DEF PAPI_hl_region_end
  <2> QED BY <1>2, <1>3, <1>4, <1>5, <2>2, <2>3, OnlyKernels
<1>6. CASE "section" \notin slips'
  <2>1. region_name = Images(TagOf, A) /\ \A c \in ToSet(open) : c.what # "section"
    BY <1>6 DEF PapiInv, RegionStack
  <2>2. A = Append(A', b) /\ A' \in Seq(HostBlocks)
    BY <1>a, <1>1, KindEnds, ViewTypedNext DEF ViewType
  <2>3. PopsImage(TagOf, region_name, A', b)
    <3>1. PopsImage(TagOf, Images(TagOf, Append(A', b)), A', b)
      BY <1>1, <2>2, ImagesEnd, Zenon
    <3> QED BY <2>1, <2>2, <3>1, Zenon
  <2>4. region_name # << >> /\ Top(region_name) = TagOf[b] /\ region_name' = Images(TagOf, A')
    BY <1>3, <2>3, Zenon DEF PopsImage, Top, Popped
  <2>5. TagOf[b] = PapiNameOf(b)
    <3>1. TagOf[b] = Tagged(b.what, b.name)
      BY <1>1, TagTyped
    <3>2. PapiNameOf(b) = Tagged(b.what, b.name)
      BY <1>1, BlockTags
    <3> QED BY <3>1, <3>2
  <2>6. PAPI_hl_region_end(PapiNameOf(open[i]))
    BY <1>a, <1>3, <2>4, <2>5, Zenon
  <2>7. Measured' /\ strays' = strays
    BY <1>a, <1>1, <1>6, <2>6, OtherEnds
  <2>8. KernelStacks'
    BY <1>2, <1>3, KernelStacksStay DEF PapiInv
  <2>9. \A c \in ToSet(open') : c.what # "section"
    <3>1. ToSet(open') = ToSet(open) \ {open[i]}
      BY <1>1, EndsSet
    <3> QED BY <2>1, <3>1
  <2>10. strays' = 0
    BY <1>6, <2>7 DEF PapiInv, RegionStack
  <2>11. RegionStack'
    BY <1>4, <2>4, <2>9, <2>10, Zenon DEF RegionStack, RegionsTyped
  <2> QED BY <2>7, <2>8, <2>11 DEF PapiInv
<1> QED BY <1>5, <1>6

\* Without a section, the stack of names is empty when the host has no region open, and
\* the call is passed over.
LEMMA RegionMissing ==
  ASSUME HostInv, HostInv', PapiInv, slips \subseteq slips', PopsTooOften, PapiPopRegion
  PROVE  PapiInv'
<1>1. open' = open /\ \A b \in ToSet(open) : b.what # "region"
  BY DEF PopsTooOften
<1>2. /\ RegionsTyped(region_name) /\ kernel_name' = kernel_name
      /\ region_name = << >> => papi' = papi /\ region_name' = region_name /\ strays' = strays
      /\ region_name # << >> => /\ PAPI_hl_region_end(Top(region_name))
                                /\ region_name' = Popped(region_name)
  BY DEF PapiInv, RegionStack, RegionsTyped, PapiPopRegion, papiVars
<1>3. NotOf(KernelKinds) /\ NotOf({"region", "section"})
  BY <1>1 DEF NotOf
<1>4. CASE "section" \in slips'
  <2>1. PICK t : t = Top(region_name)
    OBVIOUS
  <2>2. strays' \in Int
    BY <1>2 DEF PapiInv, Measured, PAPI_hl_region_end
  <2>3. \/ papi' = papi
        \/ t[1] \notin KernelKinds /\ papi' = papi (-) One(t)
    BY <1>2, <2>1, RegionPopped, Zenon DEF PAPI_hl_region_end
  <2>4. RegionsTyped(region_name')
    BY <1>2, RegionPopped
  <2> QED BY <1>2, <1>3, <1>4, <2>2, <2>3, <2>4, OnlyKernels
<1>5. CASE "section" \notin slips'
  <2> DEFINE A == OpenKinds({"region"})
  <2>1. A = << >>
    <3>1. A \in Seq(HostBlocks) /\ ToSet(A) = {b \in ToSet(open) : b.what \in {"region"}}
      BY ViewTyped DEF ViewType
    <3> HIDE DEF A
    <3>2. ToSet(A) = {}
      BY <1>1, <3>1
    <3> QED BY <3>1, <3>2 DEF ToSet
  <2>2. region_name = << >>
    BY <1>5, <2>1, ImagesEmpty DEF PapiInv, RegionStack
  <2>3. Measured'
    BY <1>1, <1>2, <2>2 DEF PapiInv, Measured, PapiOpen
  <2>4. KernelStacks' /\ RegionStack'
    BY <1>2, <1>3, <2>2, KernelStacksStay, RegionStackStays DEF PapiInv
  <2> QED BY <2>3, <2>4 DEF PapiInv
<1> QED BY <1>4, <1>5

\* A step that leaves PAPI and the blocks alone.
LEMMA PapiSame ==
  ASSUME HostInv, HostInv', PapiInv, slips \subseteq slips', open' = open,
         UNCHANGED <<kernel_name, region_name, papi, strays>>
  PROVE  PapiInv'
<1>1. NotOf(KernelKinds) /\ NotOf({"region", "section"})
  BY DEF NotOf
<1>2. Measured'
  BY DEF PapiInv, Measured, PapiOpen
<1>3. KernelStacks' /\ RegionStack'
  BY <1>1, KernelStacksStay, RegionStackStays DEF PapiInv
<1> QED BY <1>2, <1>3 DEF PapiInv

\* A section starts or stops.
LEMMA PapiSection ==
  ASSUME HostInv, HostInv', PapiInv, slips \subseteq slips', NEW id,
         \/ \E k \in DOMAIN created : Starts(created[k]) /\ PapiStartSection(id)
         \/ \E i \in DOMAIN open : open[i].what = "section" /\ Ends(i) /\ PapiStopSection(id)
  PROVE  PapiInv'
<1>1. NotOf(KernelKinds) /\ "section" \in slips'
  <2>1. "section" \notin KernelKinds
    BY HostTraceAssumption
  <2>2. ASSUME NEW k \in DOMAIN created, Starts(created[k])
        PROVE  NotOf(KernelKinds) /\ "section" \in slips'
    BY <2>1, <2>2 DEF NotOf, Starts
  <2>3. ASSUME NEW i \in DOMAIN open, open[i].what = "section", Ends(i)
        PROVE  NotOf(KernelKinds) /\ "section" \in slips'
    <3>1. open' = RemoveAt(open, i) /\ open[i] \in ToSet(open)
      BY <2>3 DEF Ends, ToSet
    <3>2. "section" \in slips
      BY <2>3, <3>1 DEF PapiInv, RegionStack
    <3> QED BY <2>1, <2>3, <3>1, <3>2 DEF NotOf
  <2> QED BY <2>2, <2>3
<1>2. PICK t : t = SectionName(id)
  OBVIOUS
<1>3. t[1] \notin KernelKinds
  BY <1>2, HostTraceAssumption DEF SectionName
<1>4. /\ kernel_name' = kernel_name
      /\ region_name' = region_name \/ region_name' = Append(region_name, t)
      /\ \/ papi' = papi /\ strays' = strays
         \/ PAPI_hl_region_begin(t)
         \/ PAPI_hl_region_end(t)
  BY <1>2, Zenon DEF PapiStartSection, PapiStopSection, papiVars
<1>5. RegionsTyped(region_name')
  <2>1. RegionsTyped(region_name)
    BY DEF PapiInv, RegionStack, RegionsTyped
  <2> QED BY <1>3, <1>4, <2>1, RegionAppended
<1>6. strays' \in Int
  BY <1>4 DEF PapiInv, Measured, PAPI_hl_region_begin, PAPI_hl_region_end
<1>7. papi' = papi \/ papi' = papi (+) One(t) \/ papi' = papi (-) One(t)
  BY <1>4, Zenon DEF PAPI_hl_region_begin, PAPI_hl_region_end
<1> QED BY <1>1, <1>3, <1>4, <1>5, <1>6, <1>7, OnlyKernels

\* Every callback of the PAPI connector keeps the invariant.
LEMMA PapiInvStep ==
  ASSUME HostInv, tool = "papi-connector", PapiInv, [NextRegistry]_vars
  PROVE  PapiInv'
<1>0. HostInv' /\ slips \subseteq slips'
  BY HostInvStep, SlipsStay
<1>1. CASE PapiStep
  <2>1. ASSUME NEW name, NEW id, Creates(name, id), PapiCreateSection(id, name) PROVE PapiInv'
    BY <1>0, <2>1, PapiSame DEF Creates, PapiCreateSection
  <2>2. ASSUME NEW k \in DOMAIN created, Destroys(k), PapiDestroySection(created[k].num)
        PROVE  PapiInv'
    BY <1>0, <2>2, PapiSame DEF Destroys, PapiDestroySection
  <2>3. ASSUME NEW k \in DOMAIN created, Starts(created[k]), PapiStartSection(created[k].num)
        PROVE  PapiInv'
    BY <1>0, <2>3, PapiSection, Zenon
  <2>4. ASSUME NEW i \in DOMAIN open, open[i].what = "section", Ends(i),
               PapiStopSection(open[i].num)
        PROVE  PapiInv'
    BY <1>0, <2>4, PapiSection, Zenon
  <2>5. ASSUME NEW kind \in KernelKinds, NEW name, Begins(kind, name, 0),
               PapiBeginParallel(kind, name)
        PROVE  PapiInv'
    BY <1>0, <2>5, PapiKernelBegins
  <2>6. ASSUME NEW i \in DOMAIN open, open[i].what \in KernelKinds, Ends(i),
               PapiEndParallel(open[i].what)
        PROVE  PapiInv'
    BY <1>0, <2>6, PapiKernelEnds
  <2>7. ASSUME NEW name, Begins("region", name, 0), PapiPushRegion(name) PROVE PapiInv'
    BY <1>0, <2>7, RegionBegins
  <2>8. ASSUME NEW i \in DOMAIN open, open[i].what = "region", Ends(i), PapiPopRegion
        PROVE  PapiInv'
    BY <1>0, <2>8, RegionEnds
  <2>9. ASSUME PopsTooOften, PapiPopRegion PROVE PapiInv'
    BY <1>0, <2>9, RegionMissing
  <2>10. ASSUME Begins("copy", "", 0), PapiBeginDeepCopy PROVE PapiInv'
    BY <1>0, <2>10, CopyBegins
  <2>11. ASSUME NEW i \in DOMAIN open, open[i].what = "copy", Ends(i), PapiEndDeepCopy
         PROVE  PapiInv'
    BY <1>0, <2>11, CopyEnds
  <2> QED BY <1>1, <2>1, <2>2, <2>3, <2>4, <2>5, <2>6, <2>7, <2>8, <2>9, <2>10, <2>11, Zenon
          DEF PapiStep
<1>2. CASE EndStep
  <2>1. open' = open /\ UNCHANGED papiVars
    BY <1>2 DEF EndStep, Finalize, Abort, vars, trace, papiVars
  <2> QED BY <1>0, <2>1, PapiSame DEF papiVars
<1>3. ~ FocusStep /\ ~ ChromeStep /\ ~ PowerStep /\ ~ LoggerStep /\ ~ RangeStep
  BY DEF FocusStep, ChromeStep, PowerStep, LoggerStep, RangeStep, Focus, Chrome, Power, Logger,
    Ranges, RangeTools, FocusTools, FocusedTools
<1> QED BY <1>1, <1>2, <1>3, NextSteps, Zenon

\* PAPI has nothing open at first.
LEMMA PapiInvInit == InitRegistry => PapiInv
<1> SUFFICES ASSUME InitRegistry PROVE PapiInv
  OBVIOUS
<1>1. /\ open = << >> /\ slips = {} /\ kernel_name = [k \in KernelKinds |-> << >>]
      /\ region_name = << >> /\ papi = EmptyBag /\ strays = 0
  BY DEF InitRegistry, InitTrace, InitPapi
<1>2. \A k : OpenKinds(k) = << >>
  BY <1>1, AmongEmpty DEF OpenKinds
<1>3. ToSet(open) = {}
  BY <1>1 DEF ToSet
<1>4. DOMAIN papi = {}
  BY <1>1 DEF EmptyBag, SetToBag
<1>5. Measured
  <2>1. \A x : Named({}, x) = {}
    BY DEF Named
  <2>2. \A x : Count(papi, x) = 0
    BY <1>4 DEF Count
  <2>3. \A x : Cardinality(Named(ToSet(open), x)) = 0
    BY <1>3, <2>1, FS_EmptySet
  <2> QED BY <1>1, <1>4, <2>2, <2>3 DEF Measured, PapiOpen, Bag
<1>6. Images(TagOf, << >>) = << >>
  BY ImagesEmpty
<1>7. KernelStacks
  BY <1>1, <1>2, <1>6 DEF KernelStacks
<1>8. RegionStack
  <2>1. << >> \in Seq({})
    OBVIOUS
  <2> QED BY <1>1, <1>2, <1>3, <1>6, <2>1 DEF RegionStack
<1> QED BY <1>5, <1>7, <1>8 DEF PapiInv

\* With PAPI loaded, PAPI has open exactly the kernels in flight, under their names,
\* whatever overlaps them; and until a section is started, exactly the regions and
\* copies too, and no call ends what is not open (kp_papi_connector.cpp:51-137).
THEOREM PapiIsTrue == RegistrySpec => []PapiFollowsHost
<1> DEFINE Inv == tool = "papi-connector" => PapiInv
<1>1. InitRegistry => Inv
  BY PapiInvInit
<1>2. HostInv /\ Inv /\ [NextRegistry]_vars => Inv'
  BY PapiInvStep, ToolStays
<1>3. HostInv /\ Inv => PapiFollowsHost
  <2> SUFFICES ASSUME HostInv, PapiInv PROVE PapiMeasuresKernels /\ PapiMeasuresRegions
    BY DEF PapiFollowsHost
  <2>1. \A x : TimesOpen(x) = Count(papi, x)
    BY DEF TimesOpen, Count, BagIn, BagToSet
  <2>2. PapiMeasuresKernels
    <3> SUFFICES ASSUME NEW kind \in KernelKinds, NEW name \in Names
                 PROVE  TimesOpen(Tagged(kind, name)) =
                        Cardinality({b \in ToSet(open) : b.what = kind /\ b.name = name})
      BY DEF PapiMeasuresKernels
    <3>1. Tagged(kind, name)[1] \in KernelKinds
      BY DEF Tagged
    <3>2. PapiOpen(Tagged(kind, name))
      BY <3>1, Zenon DEF PapiInv, Measured
    <3>3. ASSUME NEW b PROVE PapiNameOf(b) = Tagged(kind, name) <=> b.what = kind /\ b.name = name
      <4>1. PapiNameOf(b) = Tagged(kind, name) => b.what = kind
        BY NameTells DEF Tagged
      <4>2. b.what = kind => PapiNameOf(b) = Tagged(b.what, b.name)
        BY BlockTags
      <4> QED BY <4>1, <4>2 DEF Tagged
    <3>4. {b \in ToSet(open) : b.what = kind /\ b.name = name} =
          Named(ToSet(open), Tagged(kind, name))
      BY <3>3 DEF Named
    <3> QED BY <2>1, <3>2, <3>4 DEF PapiOpen
  <2>3. ASSUME "section" \notin slips PROVE BlocksOpen
    <3> DEFINE blocks == {b \in ToSet(open) : b.what \notin KernelKinds}
    <3>1. strays = 0
      BY <2>3 DEF PapiInv, RegionStack
    <3>2. ASSUME NEW x, x[1] \notin KernelKinds
          PROVE  TimesOpen(x) = Cardinality({b \in blocks : PapiNameOf(b) = x})
      <4>1. PapiOpen(x)
        BY <2>3 DEF PapiInv, Measured
      <4>2. \A b : PapiNameOf(b) = x => b.what \notin KernelKinds
        BY <3>2, NameTells
      <4>3. {b \in blocks : PapiNameOf(b) = x} = Named(ToSet(open), x)
        BY <4>2 DEF Named
      <4> QED BY <2>1, <4>1, <4>3 DEF PapiOpen
    <3> QED BY <3>1, <3>2, Zenon DEF BlocksOpen
  <2> QED BY <2>2, <2>3 DEF PapiMeasuresRegions
<1> QED BY <1>1, <1>2, <1>3, HostInvariant, PTL DEF RegistrySpec

=============================================================================
