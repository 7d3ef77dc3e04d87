----------------------------- MODULE DataFacts ------------------------------
(***************************************************************************)
(* Facts about naturals, sequences and sums that the proofs of several     *)
(* components need: induction, what a sequence is made of once an element  *)
(* is added at its end or taken out of it, and what a sum over a finite    *)
(* set becomes when the set or the values change.                          *)
(***************************************************************************)
EXTENDS Integers, SequencesExt, Maps, SequenceTheorems, FiniteSetTheorems,
        WellFoundedInduction, TLAPS

\* A set of naturals has a least element: induction is proved from it, since a
\* smallest counterexample has a predecessor that is none.
LEMMA NatMin ==
  ASSUME NEW T, T \subseteq Nat, T # {}
  PROVE  \E x \in T : \A y \in T : x <= y
<1> DEFINE R == OpToRel(<, Nat)
<1>1. \A x, y \in Nat : <<y, x>> \in R <=> y < x
  BY DEF OpToRel
<1>2. \E x \in T : \A y \in T : ~ (<<y, x>> \in R)
  BY NatLessThanWellFounded, WFMin
<1> HIDE DEF R
<1>3. PICK x \in T : \A y \in T : ~ (<<y, x>> \in R)
  BY <1>2, Zenon
<1>4. ASSUME NEW y \in T PROVE x <= y
  <2>1. x \in Nat /\ y \in Nat
    OBVIOUS
  <2>2. ~ (y < x)
    BY <1>1, <1>3, <2>1, Zenon
  <2> QED BY <2>1, <2>2
<1> QED BY <1>4, Zenon

\* A set of naturals that holds 0 and each successor holds them all.
LEMMA NatInduct ==
  ASSUME NEW T, 0 \in T, \A n \in Nat : n \in T => n + 1 \in T
  PROVE  Nat \subseteq T
<1> DEFINE Bad == {n \in Nat : n \notin T}
<1> SUFFICES ASSUME Bad # {} PROVE FALSE
  OBVIOUS
<1>1. PICK n \in Bad : \A y \in Bad : n <= y
  <2>1. Bad \subseteq Nat
    OBVIOUS
  <2> HIDE DEF Bad
  <2> QED BY <2>1, NatMin
<1>2. n \in Nat /\ n # 0
  OBVIOUS
<1>3. n - 1 \in Nat /\ n - 1 \in T
  BY <1>1, <1>2
<1>4. (n - 1) + 1 \in T
  BY <1>3
<1> QED BY <1>2, <1>4

\* A set of sequences that holds the empty one and each one with an element more
\* holds them all.
LEMMA SeqInduct ==
  ASSUME NEW S, NEW T, << >> \in T,
         \A s \in Seq(S), e \in S : s \in T => Append(s, e) \in T
  PROVE  Seq(S) \subseteq T
<1> DEFINE N == {n \in Nat : \A s \in Seq(S) : Len(s) = n => s \in T}
<1>1. 0 \in N
  <2>1. ASSUME NEW s \in Seq(S), Len(s) = 0 PROVE s \in T
    BY <2>1, s = << >>
  <2> QED BY <2>1
<1>2. ASSUME NEW n \in Nat, n \in N PROVE n + 1 \in N
  <2>1. ASSUME NEW s \in Seq(S), Len(s) = n + 1 PROVE s \in T
    <3>1. s # << >>
      BY <2>1
    <3>2. PICK u \in Seq(S), e \in S : s = Append(u, e)
      BY <3>1, SequenceEmptyOrAppend
    <3>3. Len(u) = n
      BY <2>1, <3>2
    <3> QED BY <1>2, <3>2, <3>3
  <2> QED BY <2>1
<1>3. Nat \subseteq N
  <2> HIDE DEF N
  <2> QED BY <1>1, <1>2, NatInduct
<1> QED BY <1>3, LenProperties

AppendConcatIn(S) ==
  \A p \in Seq(S), q \in Seq(S), e \in S : Append(p \o q, e) = p \o Append(q, e)

\* An element at the end of two sequences is one at the end of the second.
LEMMA AppendConcat ==
  ASSUME NEW S
  PROVE  AppendConcatIn(S)
<1> SUFFICES ASSUME NEW p \in Seq(S), NEW q \in Seq(S), NEW e \in S
             PROVE  Append(p \o q, e) = p \o Append(q, e)
  BY Zenon DEF AppendConcatIn
<1>1. Append(p \o q, e) \in Seq(S) /\ p \o Append(q, e) \in Seq(S)
  OBVIOUS
<1>2. Len(Append(p \o q, e)) = Len(p \o Append(q, e))
  OBVIOUS
<1>3. \A i \in 1 .. Len(Append(p \o q, e)) : Append(p \o q, e)[i] = (p \o Append(q, e))[i]
  OBVIOUS
<1> QED BY <1>1, <1>2, <1>3, SeqEqual

\* The domain of a sequence.
LEMMA SeqDomain ==
  ASSUME NEW S, NEW s \in Seq(S)
  PROVE  DOMAIN s = 1 .. Len(s) /\ Len(s) \in Nat
  OBVIOUS

\* The elements of a sequence with one more.
LEMMA ToSetAppend ==
  ASSUME NEW S, NEW s \in Seq(S), NEW e \in S
  PROVE  ToSet(Append(s, e)) = ToSet(s) \cup {e}
<1> DEFINE t == Append(s, e)
<1>1. DOMAIN s = 1 .. Len(s) /\ DOMAIN t = 1 .. Len(s) + 1 /\ Len(s) \in Nat
  OBVIOUS
<1>2. t[Len(s) + 1] = e /\ \A i \in 1 .. Len(s) : t[i] = s[i]
  OBVIOUS
<1>3. ASSUME NEW x \in ToSet(t) PROVE x \in ToSet(s) \cup {e}
  BY <1>1, <1>2 DEF ToSet
<1>4. ASSUME NEW x \in ToSet(s) \cup {e} PROVE x \in ToSet(t)
  <2> HIDE DEF t
  <2>1. CASE x = e
    <3>1. Len(s) + 1 \in DOMAIN t
      BY <1>1
    <3> QED BY <1>2, <2>1, <3>1 DEF ToSet
  <2>2. CASE x \in ToSet(s)
    <3>1. PICK i \in 1 .. Len(s) : x = s[i]
      BY <1>1, <2>2 DEF ToSet
    <3>2. i \in DOMAIN t /\ x = t[i]
      BY <1>1, <1>2, <3>1
    <3> QED BY <3>2 DEF ToSet
  <2> QED BY <2>1, <2>2
<1> QED BY <1>3, <1>4

-----------------------------------------------------------------------------
(* An element is added at the end, or taken out.                           *)

\* What is left of a sequence when an element is taken out.
LEMMA RemoveAtIs ==
  ASSUME NEW S, NEW s \in Seq(S), NEW i \in 1 .. Len(s)
  PROVE  /\ RemoveAt(s, i) \in Seq(S)
         /\ Len(RemoveAt(s, i)) = Len(s) - 1
         /\ \A k \in 1 .. Len(s) - 1 : RemoveAt(s, i)[k] = IF k < i THEN s[k] ELSE s[k + 1]
<1> DEFINE pre  == SubSeq(s, 1, i - 1)
           post == SubSeq(s, i + 1, Len(s))
<1>1. /\ pre \in Seq(S)
      /\ Len(pre) = i - 1
      /\ \A k \in 1 .. i - 1 : pre[k] = s[k]
  OBVIOUS
<1>2. /\ post \in Seq(S)
      /\ Len(post) = Len(s) - i
      /\ \A k \in 1 .. Len(s) - i : post[k] = s[i + k]
  OBVIOUS
<1>3. RemoveAt(s, i) = pre \o post
  BY DEF RemoveAt
<1>4. Len(s) \in Nat
  OBVIOUS
<1> HIDE DEF pre, post
<1>5. pre \o post \in Seq(S) /\ Len(pre \o post) = Len(s) - 1
  <2>1. pre \in Seq(S) /\ post \in Seq(S)
    BY <1>1, <1>2
  <2>2. Len(pre \o post) = Len(pre) + Len(post)
    BY <2>1, ConcatProperties
  <2> QED BY <1>1, <1>2, <1>4, <2>1, <2>2
<1>6. ASSUME NEW k \in 1 .. Len(s) - 1
      PROVE  (pre \o post)[k] = IF k < i THEN s[k] ELSE s[k + 1]
  <2>1. CASE k < i
    <3>1. (pre \o post)[k] = pre[k]
      BY <1>1, <1>2, <1>4, <2>1
    <3> QED BY <1>1, <2>1, <3>1
  <2>2. CASE ~ (k < i)
    <3>1. (pre \o post)[k] = post[k - (i - 1)] /\ k - (i - 1) \in 1 .. Len(s) - i
      BY <1>1, <1>2, <1>4, <2>2
    <3>2. post[k - (i - 1)] = s[i + (k - (i - 1))] /\ i + (k - (i - 1)) = k + 1
      BY <1>2, <1>4, <3>1
    <3> QED BY <2>2, <3>1, <3>2
  <2> QED BY <2>1, <2>2
<1> QED BY <1>3, <1>5, <1>6

\* The last element of a sequence, and what is left without it.
Extends(s, x, e) ==
  /\ s # << >> /\ Len(s) = Len(x) + 1 /\ Len(x) < Len(s) /\ ~ (Len(s) < Len(x))
  /\ Last(s) = e /\ s[Len(s)] = e
  /\ Front(s) = x
  /\ RemoveAt(s, Len(s)) = x

\* The end of a sequence with one more.
LEMMA AppendEnds ==
  ASSUME NEW S, NEW x \in Seq(S), NEW e \in S
  PROVE  Extends(Append(x, e), x, e)
<1> DEFINE s == Append(x, e)
<1>1. s \in Seq(S) /\ s # << >> /\ Len(s) = Len(x) + 1 /\ s[Len(s)] = e /\ Len(x) \in Nat
  OBVIOUS
<1>2. \A k \in 1 .. Len(x) : s[k] = x[k]
  OBVIOUS
<1> HIDE DEF s
<1>3. Front(s) = x
  <2> DEFINE f == SubSeq(s, 1, Len(s) - 1)
  <2>1. f \in Seq(S) /\ Len(f) = Len(x) /\ \A k \in 1 .. Len(x) : f[k] = s[k]
    BY <1>1
  <2> HIDE DEF f
  <2>2. f = x
    BY <1>1, <1>2, <2>1, SeqEqual
  <2> QED BY <2>2 DEF Front, f
<1>4. RemoveAt(s, Len(s)) = x
  <2> DEFINE n == Len(s)
             r == RemoveAt(s, n)
  <2>1. n \in 1 .. Len(s) /\ Len(s) - 1 = Len(x)
    BY <1>1
  <2>2. /\ r \in Seq(S) /\ Len(r) = Len(s) - 1
        /\ \A k \in 1 .. Len(s) - 1 : r[k] = IF k < n THEN s[k] ELSE s[k + 1]
    <3> HIDE DEF n
    <3> QED BY <1>1, <2>1, RemoveAtIs
  <2>3. \A k \in 1 .. Len(r) : r[k] = x[k]
    BY <1>1, <1>2, <2>1, <2>2
  <2> HIDE DEF r
  <2>4. r = x
    BY <2>1, <2>2, <2>3, SeqEqual
  <2> QED BY <2>4 DEF r
<1>5. Len(x) < Len(s) /\ ~ (Len(s) < Len(x)) /\ Last(s) = e
  BY <1>1 DEF Last
<1>6. Extends(s, x, e)
  BY <1>1, <1>3, <1>4, <1>5, Zenon DEF Extends
<1> QED BY <1>6 DEF s

\* What one element more makes of a sequence.
LEMMA AppendTyped ==
  ASSUME NEW S, NEW s \in Seq(S), NEW e \in S
  PROVE  /\ Append(s, e) \in Seq(S) /\ Append(s, e) # << >>
         /\ Len(Append(s, e)) = Len(s) + 1 /\ Append(s, e)[Len(s) + 1] = e
         /\ \A k \in 1 .. Len(s) : Append(s, e)[k] = s[k]
  OBVIOUS

\* What is left is a sequence.
LEMMA FrontTyped ==
  ASSUME NEW S, NEW s \in Seq(S), s # << >>
  PROVE  /\ Front(s) \in Seq(S)
         /\ Len(Front(s)) = Len(s) - 1
         /\ Last(s) \in S
<1> DEFINE n == Len(s) - 1
<1>1. n \in Int /\ 0 <= n /\ \A i \in 1 .. n : s[i] \in S
  OBVIOUS
<1>2. Last(s) \in S
  BY DEF Last
<1>3. Front(s) = SubSeq(s, 1, n)
  BY DEF Front
<1> HIDE DEF n
<1>4. SubSeq(s, 1, n) \in Seq(S) /\ Len(SubSeq(s, 1, n)) = IF 1 <= n THEN n - 1 + 1 ELSE 0
  BY <1>1, SubSeqProperties
<1>5. Len(SubSeq(s, 1, n)) = n
  BY <1>1, <1>4
<1> QED BY <1>2, <1>3, <1>4, <1>5 DEF n

\* All but the last element stay where they are.
LEMMA FrontElements ==
  ASSUME NEW S, NEW s \in Seq(S), s # << >>
  PROVE  \A k \in 1 .. Len(s) - 1 : Front(s)[k] = s[k]
<1> DEFINE n == Len(s) - 1
<1>1. n \in Int /\ 0 <= n /\ \A k \in 1 .. n : SubSeq(s, 1, n)[k] = s[k]
  OBVIOUS
<1> QED BY <1>1 DEF Front

\* A child of a node is a path whose front is the node.
LEMMA ChildIs ==
  ASSUME NEW S, NEW p \in Seq(S), NEW c \in Seq(S)
  PROVE  (Len(c) = Len(p) + 1 /\ IsPrefix(p, c)) <=> (c # << >> /\ Front(c) = p)
<1>1. SubSeq(p, 1, Len(p)) = p
  OBVIOUS
<1>2. Len(p) \in Nat /\ Len(c) \in Nat
  OBVIOUS
<1>3. CASE c = << >>
  BY <1>2, <1>3
<1>4. CASE c # << >>
  <2>1. Len(Front(c)) = Len(c) - 1
    BY <1>4, FrontTyped
  <2>2. Front(c) = SubSeq(c, 1, Len(c) - 1)
    BY Zenon DEF Front
  <2>3. ASSUME Front(c) = p PROVE Len(c) = Len(p) + 1 /\ IsPrefix(p, c)
    <3>1. Len(p) = Len(c) - 1 /\ Len(c) = Len(p) + 1
      BY <1>2, <2>1, <2>3
    <3>2. SubSeq(c, 1, Len(p)) = p
      BY <2>2, <2>3, <3>1, Zenon
    <3>3. Len(p) <= Len(c)
      BY <1>2, <3>1
    <3> QED BY <1>1, <3>1, <3>2, <3>3, Zenon DEF IsPrefix
  <2>4. ASSUME Len(c) = Len(p) + 1, IsPrefix(p, c) PROVE Front(c) = p
    <3>1. Len(p) = Len(c) - 1
      BY <1>2, <2>4
    <3>2. SubSeq(p, 1, Len(p)) = SubSeq(c, 1, Len(p))
      BY <2>4, Zenon DEF IsPrefix
    <3> QED BY <1>1, <2>2, <3>1, <3>2, Zenon
  <2> QED BY <1>4, <2>3, <2>4
<1> QED BY <1>3, <1>4

\* The last element with a property: no later one has it.
LEMMA LastOf ==
  ASSUME NEW S, NEW s \in Seq(S), NEW I, I \subseteq 1 .. Len(s), I # {}
  PROVE  Max(I) \in I /\ \A k \in I : k <= Max(I)
<1> DEFINE T == {Len(s) - k : k \in I}
<1>0. PICK n \in Nat : n = Len(s)
  OBVIOUS
<1>1. T \subseteq Nat /\ T # {}
  <2>1. ASSUME NEW k \in I PROVE Len(s) - k \in Nat
    <3>1. k \in 1 .. n
      BY <1>0
    <3> QED BY <1>0, <3>1
  <2>2. T # {}
    <3>1. PICK k : k \in I
      OBVIOUS
    <3> QED BY <3>1
  <2> QED BY <2>1, <2>2
<1>2. PICK x \in T : \A y \in T : x <= y
  <2> HIDE DEF T
  <2> QED BY <1>1, NatMin
<1>3. PICK m \in I : x = Len(s) - m
  OBVIOUS
<1>4. ASSUME NEW k \in I PROVE m >= k
  <2>1. Len(s) - k \in T
    OBVIOUS
  <2>2. m \in 1 .. Len(s) /\ k \in 1 .. Len(s) /\ Len(s) \in Nat
    OBVIOUS
  <2>3. x <= Len(s) - k
    BY <1>2, <2>1, Zenon
  <2> HIDE DEF T
  <2> QED BY <1>3, <2>2, <2>3
<1>5. Max(I) \in I /\ \A k \in I : Max(I) >= k
  BY <1>4, Zenon DEF Max
<1>6. I \subseteq Int
  OBVIOUS
<1> HIDE DEF T
<1> QED BY <1>5, <1>6

\* s is the sequence pre, its element i, and the sequence post.
Split(s, i, pre, post) ==
  /\ s = Append(pre, s[i]) \o post
  /\ RemoveAt(s, i) = pre \o post
  /\ Len(pre) = i - 1
  /\ Len(post) = Len(s) - i
  /\ \A k \in 1 .. i - 1 : pre[k] = s[k]
  /\ \A k \in 1 .. Len(s) - i : post[k] = s[i + k]

\* Every element splits its sequence.
LEMMA SplitAt ==
  ASSUME NEW S, NEW s \in Seq(S), NEW i \in 1 .. Len(s)
  PROVE  \E pre \in Seq(S), post \in Seq(S) : Split(s, i, pre, post)
<1> DEFINE pre  == SubSeq(s, 1, i - 1)
           post == SubSeq(s, i + 1, Len(s))
<1>1. s[i] \in S
  OBVIOUS
<1>2. /\ pre \in Seq(S)
      /\ Len(pre) = i - 1
      /\ \A k \in 1 .. i - 1 : pre[k] = s[k]
  OBVIOUS
<1>3. /\ post \in Seq(S)
      /\ Len(post) = Len(s) - i
      /\ \A k \in 1 .. Len(s) - i : post[k] = s[i + k]
  OBVIOUS
<1>4. RemoveAt(s, i) = pre \o post
  BY DEF RemoveAt
<1>5. s = Append(pre, s[i]) \o post
  <2> DEFINE a == Append(pre, s[i])
             t == a \o post
  <2>1. Len(s) \in Nat /\ i \in 1 .. Len(s)
    OBVIOUS
  <2> HIDE DEF pre, post
  <2>2. a \in Seq(S) /\ Len(a) = i /\ a[i] = s[i] /\ \A k \in 1 .. i - 1 : a[k] = s[k]
    BY <1>1, <1>2
  <2> HIDE DEF a
  <2>3. t \in Seq(S) /\ Len(t) = Len(s)
    BY <1>3, <2>1, <2>2
  <2>4. ASSUME NEW k \in 1 .. Len(s) PROVE s[k] = t[k]
    <3>1. CASE k <= i
      <4>1. t[k] = a[k]
        BY <1>3, <2>1, <2>2, <3>1
      <4>2. k = i \/ k \in 1 .. i - 1
        BY <2>1, <3>1
      <4> QED BY <2>2, <4>1, <4>2
    <3>2. CASE k > i
      <4>1. t[k] = post[k - i] /\ k - i \in 1 .. Len(s) - i
        BY <1>3, <2>1, <2>2, <3>2
      <4>2. post[k - i] = s[i + (k - i)] /\ i + (k - i) = k
        BY <1>3, <2>1, <4>1
      <4> QED BY <4>1, <4>2
    <3>3. k <= i \/ k > i
      BY <2>1
    <3> QED BY <3>1, <3>2, <3>3
  <2> HIDE DEF t
  <2>5. s = t
    BY <2>3, <2>4, SeqEqual
  <2> QED BY <2>5 DEF t, a
<1> HIDE DEF pre, post
<1>6. Split(s, i, pre, post)
  BY <1>2, <1>3, <1>4, <1>5 DEF Split
<1> QED BY <1>2, <1>3, <1>6

-----------------------------------------------------------------------------
(* Finite sets                                                             *)

\* A set of finite sets that holds each one whose smaller subsets it holds.
LEMMA FiniteInduct ==
  ASSUME NEW S, IsFiniteSet(S), NEW T, {} \in T,
         \A s \in SUBSET S : s # {} /\ (\A x \in s : s \ {x} \in T) => s \in T
  PROVE  S \in T
<1> DEFINE N == {n \in Nat : \A s \in SUBSET S : Cardinality(s) = n => s \in T}
<1>1. \A s \in SUBSET S : IsFiniteSet(s) /\ Cardinality(s) \in Nat
  BY FS_Subset, FS_CardinalityType
<1>2. 0 \in N
  BY <1>1, FS_EmptySet
<1>3. ASSUME NEW n \in Nat, n \in N PROVE n + 1 \in N
  <2> SUFFICES ASSUME NEW s \in SUBSET S, Cardinality(s) = n + 1 PROVE s \in T
    OBVIOUS
  <2>1. s # {}
    <3>1. Cardinality({}) = 0 /\ n + 1 # 0
      BY FS_EmptySet
    <3> QED BY <3>1
  <2>2. \A x \in s : s \ {x} \in T
    BY <1>1, <1>3, FS_RemoveElement
  <2> QED BY <2>1, <2>2
<1>4. Nat \subseteq N
  <2> HIDE DEF N
  <2> QED BY <1>2, <1>3, NatInduct
<1> QED BY <1>1, <1>4

\* The greatest of finitely many integers.
LEMMA MaxIs ==
  ASSUME NEW S, IsFiniteSet(S), S # {}, S \subseteq Int
  PROVE  Max(S) \in S /\ \A x \in S : x <= Max(S)
<1> DEFINE T == {s \in SUBSET S : s # {} => \E x \in s : \A y \in s : x >= y}
<1>1. {} \in T
  OBVIOUS
<1>2. ASSUME NEW s \in SUBSET S, s # {}, \A x \in s : s \ {x} \in T PROVE s \in T
  <2>1. PICK z \in s : TRUE
    BY <1>2
  <2>2. CASE s \ {z} = {}
    <3>1. \A y \in s : y = z /\ z >= y
      BY <2>2
    <3> QED BY <3>1
  <2>3. CASE s \ {z} # {}
    <3>1. PICK x \in s \ {z} : \A y \in s \ {z} : x >= y
      BY <1>2, <2>3
    <3>2. x \in Int /\ z \in Int /\ s \subseteq Int
      OBVIOUS
    <3>3. CASE x >= z
      <4>1. \A y \in s : x >= y
        BY <3>1, <3>3
      <4> QED BY <4>1
    <3>4. CASE z >= x
      <4>1. \A y \in s : z >= y
        BY <3>1, <3>2, <3>4
      <4> QED BY <4>1
    <3> QED BY <3>2, <3>3, <3>4
  <2> QED BY <2>2, <2>3
<1>3. S \in T
  <2> HIDE DEF T
  <2> QED BY <1>1, <1>2, FiniteInduct
<1>4. Max(S) \in S /\ \A y \in S : Max(S) >= y
  BY <1>3, Zenon DEF Max
<1> QED BY <1>4

\* The least of some naturals.
LEMMA MinIs ==
  ASSUME NEW S, S # {}, S \subseteq Nat
  PROVE  Min(S) \in S /\ \A x \in S : Min(S) <= x
<1>1. \E x \in S : \A y \in S : x <= y
  BY NatMin
<1> QED BY <1>1, Zenon DEF Min

-----------------------------------------------------------------------------
(* Queues without repetitions                                              *)

\* A queue is its head and the rest; without repetitions the head is not in the
\* rest.
LEMMA QueueHead ==
  ASSUME NEW S, NEW s \in Seq(S), s # << >>
  PROVE  /\ Head(s) \in S /\ Tail(s) \in Seq(S) /\ Len(Tail(s)) = Len(s) - 1
         /\ ToSet(s) = {Head(s)} \cup ToSet(Tail(s))
         /\ IsInjective(s) => IsInjective(Tail(s)) /\ Head(s) \notin ToSet(Tail(s))
<1> DEFINE n == Len(s)
           t == Tail(s)
<1>1. /\ n \in Nat /\ n > 0 /\ DOMAIN s = 1 .. n /\ Head(s) = s[1] /\ s[1] \in S
      /\ t \in Seq(S) /\ Len(t) = n - 1 /\ DOMAIN t = 1 .. n - 1
      /\ \A k \in 1 .. n - 1 : t[k] = s[k + 1]
  OBVIOUS
<1> HIDE DEF n, t
<1>2. \A k \in 1 .. n : k = 1 \/ (k - 1 \in 1 .. n - 1 /\ k - 1 + 1 = k)
  BY <1>1
<1>3. \A k \in 1 .. n - 1 : k + 1 \in 1 .. n /\ k + 1 # 1
  BY <1>1
<1>4. 1 \in 1 .. n
  BY <1>1
<1>5. ToSet(s) \subseteq {s[1]} \cup ToSet(t)
  <2>1. ASSUME NEW k \in 1 .. n PROVE s[k] \in {s[1]} \cup ToSet(t)
    <3>1. k = 1 \/ s[k] = t[k - 1]
      BY <1>1, <1>2
    <3>2. k = 1 \/ t[k - 1] \in ToSet(t)
      BY <1>1, <1>2 DEF ToSet
    <3> QED BY <3>1, <3>2
  <2> QED BY <1>1, <2>1 DEF ToSet
<1>6. {s[1]} \cup ToSet(t) \subseteq ToSet(s)
  <2>1. ASSUME NEW k \in 1 .. n - 1 PROVE t[k] \in ToSet(s)
    <3>1. t[k] = s[k + 1] /\ k + 1 \in DOMAIN s
      BY <1>1, <1>3
    <3> QED BY <3>1, Zenon DEF ToSet
  <2>2. s[1] \in ToSet(s)
    BY <1>1, <1>4, Zenon DEF ToSet
  <2> QED BY <1>1, <2>1, <2>2 DEF ToSet
<1>7. ASSUME IsInjective(s) PROVE IsInjective(t)
  <2>1. \A i, j \in 1 .. n - 1 : i + 1 = j + 1 => i = j
    BY <1>1
  <2>2. ASSUME NEW i \in 1 .. n - 1, NEW j \in 1 .. n - 1, t[i] = t[j]
        PROVE  i + 1 = j + 1
    <3>1. i + 1 \in DOMAIN s /\ j + 1 \in DOMAIN s
      BY <1>1, <1>3, Zenon
    <3>2. s[i + 1] = s[j + 1]
      BY <1>1, <2>2, Zenon
    <3> QED BY <1>7, <3>1, <3>2, Zenon DEF IsInjective
  <2> QED BY <1>1, <2>1, <2>2, Zenon DEF IsInjective
<1>8. ASSUME IsInjective(s) PROVE s[1] \notin ToSet(t)
  <2>1. \A k \in 1 .. n - 1 : t[k] # s[1]
    BY <1>1, <1>3, <1>4, <1>8, Zenon DEF IsInjective
  <2> QED BY <1>1, <2>1 DEF ToSet
<1>9. ToSet(s) = {s[1]} \cup ToSet(t)
  BY <1>5, <1>6
<1> QED BY <1>1, <1>7, <1>8, <1>9, Zenon DEF n, t

\* An element that is not in the queue can be added, and no other.
LEMMA QueueAppend ==
  ASSUME NEW S, NEW s \in Seq(S), NEW e \in S
  PROVE  IsInjective(Append(s, e)) <=> IsInjective(s) /\ e \notin ToSet(s)
<1> DEFINE n == Len(s)
           t == Append(s, e)
<1>1. /\ n \in Nat /\ DOMAIN s = 1 .. n /\ t[n + 1] = e
      /\ DOMAIN t = 1 .. n + 1
      /\ \A k \in 1 .. n : t[k] = s[k]
  OBVIOUS
<1> HIDE DEF n, t
<1>2. \A k \in 1 .. n : k \in 1 .. n + 1 /\ k # n + 1
  BY <1>1
<1>3. \A k \in 1 .. n + 1 : k \in 1 .. n \/ k = n + 1
  BY <1>1
<1>4. n + 1 \in 1 .. n + 1
  BY <1>1
<1>5. ASSUME IsInjective(t) PROVE IsInjective(s) /\ e \notin ToSet(s)
  <2>1. IsInjective(s)
    BY <1>1, <1>2, <1>5, Zenon DEF IsInjective
  <2>2. \A k \in 1 .. n : s[k] # e
    BY <1>1, <1>2, <1>4, <1>5, Zenon DEF IsInjective
  <2>3. e \notin ToSet(s)
    BY <1>1, <2>2, Zenon DEF ToSet
  <2> QED BY <2>1, <2>3
<1>6. ASSUME IsInjective(s), e \notin ToSet(s) PROVE IsInjective(t)
  <2>1. \A k \in 1 .. n : s[k] # e
    BY <1>1, <1>6, Zenon DEF ToSet
  <2>2. ASSUME NEW i \in 1 .. n + 1, NEW j \in 1 .. n + 1, t[i] = t[j] PROVE i = j
    <3>1. CASE i \in 1 .. n /\ j \in 1 .. n
      BY <1>1, <1>6, <2>2, <3>1, Zenon DEF IsInjective
    <3>2. CASE i = n + 1 \/ j = n + 1
      BY <1>1, <1>3, <2>1, <2>2, <3>2
    <3> QED BY <1>3, <3>1, <3>2
  <2> QED BY <1>1, <2>2, Zenon DEF IsInjective
<1> QED BY <1>5, <1>6, Zenon DEF t

-----------------------------------------------------------------------------
(* Finite sets                                                              *)

\* The values of a function on a finite set are finitely many.
LEMMA ValuesFinite ==
  ASSUME NEW S, IsFiniteSet(S), NEW f
  PROVE  IsFiniteSet({f[x] : x \in S})
<1> DEFINE T == {f[x] : x \in S}
           h == [x \in S |-> f[x]]
<1>1. h \in Surjection(S, T)
  BY DEF Surjection
<1> QED BY <1>1, FS_Surjection

-----------------------------------------------------------------------------
(* Sums over finite sets.  A sum takes one element out after the other; it   *)
(* is shown that any order of them gives the same.                           *)

\* The element a sum takes out next.
Chosen(s) == CHOOSE x \in s : TRUE

\* h gives the sum of g over every set of D.
Partial(g, D, h) ==
  h = [s \in D |-> IF s = {} THEN 0 ELSE g[Chosen(s)] + h[s \ {Chosen(s)}]]

\* A sum is the value of the function it is defined with, if there is one.
LEMMA SumIs ==
  ASSUME NEW g, NEW S, \E h : Partial(g, SUBSET S, h)
  PROVE  \E h : Partial(g, SUBSET S, h) /\ SumOver(g, S) = h[S]
<1> DEFINE it == CHOOSE h : Partial(g, SUBSET S, h)
<1>1. Partial(g, SUBSET S, it)
  BY Zenon
<1>2. SumOver(g, S) = it[S]
  BY Zenon DEF SumOver, MapThenSumSet, MapThenFoldSet, Partial, Chosen
<1> HIDE DEF it
<1> QED BY <1>1, <1>2, Zenon

\* The summation is defined, subset by subset, as long as the set is finite.
LEMMA PartialExists ==
  ASSUME NEW g, NEW S, IsFiniteSet(S)
  PROVE  \E h : Partial(g, SUBSET S, h)
<1> DEFINE D(n) == {s \in SUBSET S : Cardinality(s) <= n}
           N == {n \in Nat : \E h : Partial(g, D(n), h)}
<1>1. \A s \in SUBSET S : IsFiniteSet(s) /\ Cardinality(s) \in Nat /\ Cardinality(s) <= Cardinality(S)
  BY FS_Subset, FS_CardinalityType
<1>2. \A s \in SUBSET S : s # {} => /\ Chosen(s) \in s
                                    /\ s \ {Chosen(s)} \in SUBSET S
                                    /\ Cardinality(s \ {Chosen(s)}) = Cardinality(s) - 1
  <2> SUFFICES ASSUME NEW s \in SUBSET S, s # {}
               PROVE  /\ Chosen(s) \in s
                      /\ s \ {Chosen(s)} \in SUBSET S
                      /\ Cardinality(s \ {Chosen(s)}) = Cardinality(s) - 1
    OBVIOUS
  <2>1. Chosen(s) \in s
    BY DEF Chosen
  <2> QED BY <1>1, <2>1, FS_RemoveElement
<1>3. 0 \in N
  <2> DEFINE h == [s \in D(0) |-> 0]
  <2>1. \A s \in D(0) : s = {}
    <3> SUFFICES ASSUME NEW s \in D(0) PROVE s = {}
      OBVIOUS
    <3>1. IsFiniteSet(s) /\ Cardinality(s) = 0
      BY <1>1
    <3> QED BY <3>1, FS_EmptySet
  <2>2. Partial(g, D(0), h)
    BY <2>1 DEF Partial
  <2> QED BY <2>2
<1>4. ASSUME NEW n \in Nat, n \in N PROVE n + 1 \in N
  <2>1. PICK h : Partial(g, D(n), h)
    BY <1>4
  <2> DEFINE k == [s \in D(n + 1) |-> IF s = {} THEN 0 ELSE g[Chosen(s)] + h[s \ {Chosen(s)}]]
  <2>2. D(n) \subseteq D(n + 1)
    BY <1>1
  <2>3. \A s \in D(n) : k[s] = h[s]
    <3>1. \A s \in D(n) : h[s] = IF s = {} THEN 0 ELSE g[Chosen(s)] + h[s \ {Chosen(s)}]
      <4> HIDE DEF D
      <4> QED BY <2>1, Zenon DEF Partial
    <3>2. \A s \in D(n + 1) : k[s] = IF s = {} THEN 0 ELSE g[Chosen(s)] + h[s \ {Chosen(s)}]
      <4> HIDE DEF D
      <4> QED BY Zenon
    <3> HIDE DEF D, k
    <3> QED BY <2>2, <3>1, <3>2
  <2>4. \A s \in D(n + 1) : s # {} => s \ {Chosen(s)} \in D(n)
    BY <1>1, <1>2
  <2>5. k = [s \in D(n + 1) |-> IF s = {} THEN 0 ELSE g[Chosen(s)] + k[s \ {Chosen(s)}]]
    <3> DEFINE E == D(n + 1)
    <3>1. \A s \in E : (IF s = {} THEN 0 ELSE g[Chosen(s)] + h[s \ {Chosen(s)}])
                        = (IF s = {} THEN 0 ELSE g[Chosen(s)] + k[s \ {Chosen(s)}])
      <4> HIDE DEF D, k
      <4> QED BY <2>3, <2>4
    <3>2. k = [s \in E |-> IF s = {} THEN 0 ELSE g[Chosen(s)] + h[s \ {Chosen(s)}]]
      BY Zenon
    <3> HIDE DEF E, k
    <3>3. k = [s \in E |-> IF s = {} THEN 0 ELSE g[Chosen(s)] + k[s \ {Chosen(s)}]]
      BY <3>1, <3>2
    <3> QED BY <3>3 DEF E
  <2> HIDE DEF k, D
  <2>6. Partial(g, D(n + 1), k)
    BY <2>5, Zenon DEF Partial
  <2> QED BY <2>6
<1>5. Cardinality(S) \in Nat
  BY FS_CardinalityType
<1>6. Nat \subseteq N
  <2> HIDE DEF N
  <2> QED BY <1>3, <1>4, NatInduct
<1>7. \E h : Partial(g, D(Cardinality(S)), h)
  BY <1>5, <1>6
<1>8. D(Cardinality(S)) = SUBSET S
  BY <1>1
<1> QED BY <1>7, <1>8, Zenon

\* Whatever the set it was defined on, a summation gives a subset the same sum.
LEMMA PartialSame ==
  ASSUME NEW g, NEW A, NEW B, NEW h, NEW k, NEW S, IsFiniteSet(S), S \subseteq A, S \subseteq B,
         Partial(g, SUBSET A, h), Partial(g, SUBSET B, k)
  PROVE  h[S] = k[S]
<1> DEFINE T == {s \in SUBSET S : h[s] = k[s]}
<1>1. \A s \in SUBSET S : h[s] = IF s = {} THEN 0 ELSE g[Chosen(s)] + h[s \ {Chosen(s)}]
  <2>1. \A s \in SUBSET A : h[s] = IF s = {} THEN 0 ELSE g[Chosen(s)] + h[s \ {Chosen(s)}]
    BY Zenon DEF Partial
  <2> QED BY <2>1
<1>2. \A s \in SUBSET S : k[s] = IF s = {} THEN 0 ELSE g[Chosen(s)] + k[s \ {Chosen(s)}]
  <2>1. \A s \in SUBSET B : k[s] = IF s = {} THEN 0 ELSE g[Chosen(s)] + k[s \ {Chosen(s)}]
    BY Zenon DEF Partial
  <2> QED BY <2>1
<1>3. {} \in T
  BY <1>1, <1>2
<1>4. ASSUME NEW s \in SUBSET S, s # {}, \A x \in s : s \ {x} \in T PROVE s \in T
  <2>1. Chosen(s) \in s
    BY <1>4 DEF Chosen
  <2>2. h[s \ {Chosen(s)}] = k[s \ {Chosen(s)}]
    BY <1>4, <2>1
  <2> QED BY <1>1, <1>2, <1>4, <2>2
<1>5. S \in T
  <2> HIDE DEF T
  <2> QED BY <1>3, <1>4, FiniteInduct
<1> QED BY <1>5

\* Nothing adds up to 0.
LEMMA SumEmpty ==
  ASSUME NEW g
  PROVE  SumOver(g, {}) = 0
<1>1. PICK h : Partial(g, SUBSET {}, h) /\ SumOver(g, {}) = h[{}]
  BY FS_EmptySet, PartialExists, SumIs
<1> QED BY <1>1 DEF Partial

\* The sum is what the chosen element and the sum of the others make.
LEMMA SumStep ==
  ASSUME NEW g, NEW S, IsFiniteSet(S), S # {}
  PROVE  SumOver(g, S) = g[Chosen(S)] + SumOver(g, S \ {Chosen(S)})
<1> DEFINE R == S \ {Chosen(S)}
<1>1. IsFiniteSet(R) /\ R \subseteq S
  BY FS_Subset
<1>2. PICK h : Partial(g, SUBSET S, h) /\ SumOver(g, S) = h[S]
  BY PartialExists, SumIs
<1> HIDE DEF R
<1>3. PICK k : Partial(g, SUBSET R, k) /\ SumOver(g, R) = k[R]
  BY <1>1, PartialExists, SumIs
<1>4. h[R] = k[R]
  BY <1>1, <1>2, <1>3, PartialSame
<1>5. h[S] = g[Chosen(S)] + h[S \ {Chosen(S)}]
  <2>1. \A s \in SUBSET S : h[s] = IF s = {} THEN 0 ELSE g[Chosen(s)] + h[s \ {Chosen(s)}]
    BY <1>2, Zenon DEF Partial
  <2> QED BY <2>1
<1> QED BY <1>2, <1>3, <1>4, <1>5 DEF R

\* A sum of integers is one.
LEMMA SumInt ==
  ASSUME NEW g, NEW S, IsFiniteSet(S), \A x \in S : g[x] \in Int
  PROVE  SumOver(g, S) \in Int
<1> DEFINE T == {s \in SUBSET S : SumOver(g, s) \in Int}
<1>1. {} \in T
  BY SumEmpty
<1>2. ASSUME NEW s \in SUBSET S, s # {}, \A x \in s : s \ {x} \in T PROVE s \in T
  <2>1. Chosen(s) \in s /\ IsFiniteSet(s)
    BY <1>2, FS_Subset DEF Chosen
  <2>2. SumOver(g, s) = g[Chosen(s)] + SumOver(g, s \ {Chosen(s)})
    BY <1>2, <2>1, SumStep
  <2> QED BY <1>2, <2>1, <2>2
<1>3. S \in T
  <2> HIDE DEF T
  <2> QED BY <1>1, <1>2, FiniteInduct
<1> QED BY <1>3

\* A sum of naturals is one.
LEMMA SumNat ==
  ASSUME NEW g, NEW S, IsFiniteSet(S), \A x \in S : g[x] \in Nat
  PROVE  SumOver(g, S) \in Nat
<1> DEFINE T == {s \in SUBSET S : SumOver(g, s) \in Nat}
<1>1. {} \in T
  BY SumEmpty
<1>2. ASSUME NEW s \in SUBSET S, s # {}, \A x \in s : s \ {x} \in T PROVE s \in T
  <2>1. Chosen(s) \in s /\ IsFiniteSet(s)
    BY <1>2, FS_Subset DEF Chosen
  <2>2. SumOver(g, s) = g[Chosen(s)] + SumOver(g, s \ {Chosen(s)})
    BY <1>2, <2>1, SumStep
  <2> QED BY <1>2, <2>1, <2>2
<1>3. S \in T
  <2> HIDE DEF T
  <2> QED BY <1>1, <1>2, FiniteInduct
<1> QED BY <1>3

\* The sum depends on the values of the elements and on nothing else.
LEMMA SumAgree ==
  ASSUME NEW f, NEW g, NEW S, IsFiniteSet(S), \A x \in S : f[x] = g[x]
  PROVE  SumOver(f, S) = SumOver(g, S)
<1> DEFINE T == {s \in SUBSET S : SumOver(f, s) = SumOver(g, s)}
<1>1. {} \in T
  BY SumEmpty
<1>2. ASSUME NEW s \in SUBSET S, s # {}, \A x \in s : s \ {x} \in T PROVE s \in T
  <2>1. Chosen(s) \in s /\ IsFiniteSet(s)
    BY <1>2, FS_Subset DEF Chosen
  <2>2. /\ SumOver(f, s) = f[Chosen(s)] + SumOver(f, s \ {Chosen(s)})
        /\ SumOver(g, s) = g[Chosen(s)] + SumOver(g, s \ {Chosen(s)})
    BY <1>2, <2>1, SumStep
  <2>3. f[Chosen(s)] = g[Chosen(s)]
    BY <2>1
  <2> QED BY <1>2, <2>1, <2>2, <2>3
<1>3. S \in T
  <2> HIDE DEF T
  <2> QED BY <1>1, <1>2, FiniteInduct
<1> QED BY <1>3

\* Any element may be the one that is taken out first.
LEMMA SumWithout ==
  ASSUME NEW g, NEW S, IsFiniteSet(S), \A x \in S : g[x] \in Int
  PROVE  \A x \in S : SumOver(g, S) = g[x] + SumOver(g, S \ {x})
<1> DEFINE T == {s \in SUBSET S : \A x \in s : SumOver(g, s) = g[x] + SumOver(g, s \ {x})}
<1>1. {} \in T
  OBVIOUS
<1>2. ASSUME NEW s \in SUBSET S, s # {}, \A x \in s : s \ {x} \in T PROVE s \in T
  <2> SUFFICES ASSUME NEW x \in s PROVE SumOver(g, s) = g[x] + SumOver(g, s \ {x})
    OBVIOUS
  <2> DEFINE c == Chosen(s)
  <2>1. c \in s /\ IsFiniteSet(s)
    BY <1>2, FS_Subset DEF Chosen
  <2>2. SumOver(g, s) = g[c] + SumOver(g, s \ {c})
    BY <1>2, <2>1, SumStep
  <2> HIDE DEF c
  <2>3. CASE c = x
    BY <2>2, <2>3
  <2>4. CASE c # x
    <3>1. SumOver(g, s \ {c}) = g[x] + SumOver(g, (s \ {c}) \ {x})
      BY <1>2, <2>1, <2>4
    <3>2. SumOver(g, s \ {x}) = g[c] + SumOver(g, (s \ {x}) \ {c})
      BY <1>2, <2>1, <2>4
    <3>3. (s \ {c}) \ {x} = (s \ {x}) \ {c}
      OBVIOUS
    <3> DEFINE r == (s \ {x}) \ {c}
    <3>4. SumOver(g, r) \in Int
      <4>1. IsFiniteSet(r) /\ \A y \in r : g[y] \in Int
        BY <2>1, FS_Subset
      <4> HIDE DEF r
      <4> QED BY <4>1, SumInt
    <3>5. g[c] \in Int /\ g[x] \in Int
      BY <2>1
    <3>6. SumOver(g, s \ {c}) = g[x] + SumOver(g, r) /\ SumOver(g, s \ {x}) = g[c] + SumOver(g, r)
      BY <3>1, <3>2, <3>3
    <3> HIDE DEF r
    <3> QED BY <2>2, <3>4, <3>5, <3>6
  <2> QED BY <2>3, <2>4
<1>3. S \in T
  <2> HIDE DEF T
  <2> QED BY <1>1, <1>2, FiniteInduct
<1> QED BY <1>3

\* An element more adds its value.
LEMMA SumAdd ==
  ASSUME NEW g, NEW S, IsFiniteSet(S), NEW x, x \notin S, \A y \in S \cup {x} : g[y] \in Int
  PROVE  SumOver(g, S \cup {x}) = SumOver(g, S) + g[x]
<1>1. IsFiniteSet(S \cup {x})
  BY FS_AddElement
<1>2. SumOver(g, S \cup {x}) = g[x] + SumOver(g, (S \cup {x}) \ {x})
  BY <1>1, SumWithout
<1>3. (S \cup {x}) \ {x} = S
  OBVIOUS
<1>4. SumOver(g, S) \in Int /\ g[x] \in Int
  BY SumInt
<1>5. SumOver(g, S \cup {x}) = g[x] + SumOver(g, S)
  BY <1>2, <1>3, Zenon
<1> QED BY <1>4, <1>5

\* Two sets without a common element add up to the sum of both.
LEMMA SumTogether ==
  ASSUME NEW g, NEW A, NEW B, IsFiniteSet(A), IsFiniteSet(B), A \cap B = {},
         \A x \in A \cup B : g[x] \in Int
  PROVE  SumOver(g, A \cup B) = SumOver(g, A) + SumOver(g, B)
<1> DEFINE T == {s \in SUBSET B : SumOver(g, A \cup s) = SumOver(g, A) + SumOver(g, s)}
<1>0. SumOver(g, A) \in Int
  BY SumInt
<1>1. {} \in T
  BY <1>0, SumEmpty
<1>2. ASSUME NEW s \in SUBSET B, s # {}, \A x \in s : s \ {x} \in T PROVE s \in T
  <2>1. PICK x : x \in s
    BY <1>2
  <2> DEFINE r == s \ {x}
             C == A \cup r
  <2>2. /\ s = r \cup {x} /\ x \notin r /\ x \notin C /\ A \cup s = C \cup {x}
        /\ \A y \in r \cup {x} : g[y] \in Int /\ \A z \in C \cup {x} : g[z] \in Int
    BY <2>1
  <2>3. IsFiniteSet(r) /\ IsFiniteSet(C)
    BY <1>2, FS_Subset, FS_Union
  <2>4. SumOver(g, C) = SumOver(g, A) + SumOver(g, r)
    BY <1>2, <2>1
  <2> HIDE DEF r, C
  <2>5. SumOver(g, s) = SumOver(g, r) + g[x] /\ SumOver(g, A \cup s) = SumOver(g, C) + g[x]
    <3>1. SumOver(g, r \cup {x}) = SumOver(g, r) + g[x]
      BY <2>2, <2>3, SumAdd
    <3>2. SumOver(g, C \cup {x}) = SumOver(g, C) + g[x]
      BY <2>2, <2>3, SumAdd
    <3> QED BY <2>2, <3>1, <3>2
  <2>6. SumOver(g, r) \in Int /\ g[x] \in Int
    BY <2>2, <2>3, SumInt
  <2>7. SumOver(g, A \cup s) = SumOver(g, A) + SumOver(g, s)
    BY <1>0, <2>4, <2>5, <2>6
  <2> QED BY <2>7
<1>3. B \in T
  <2> HIDE DEF T
  <2> QED BY <1>1, <1>2, FiniteInduct
<1> QED BY <1>3

\* The elements with a key in s.
Keyed(D, key, s) == {x \in D : key[x] \in s}

\* G has for every key what the elements with that key add up to.
SumsByKey(g, D, key, G, C) ==
  /\ IsFiniteSet(D) /\ IsFiniteSet(C)
  /\ \A x \in D : g[x] \in Int /\ key[x] \in C
  /\ \A c \in C : G[c] = SumOver(g, Keyed(D, key, {c}))

\* The sum over a set is the sum over the keys of its elements of what the elements
\* with the key add up to.
LEMMA SumByKey ==
  ASSUME NEW g, NEW D, NEW key, NEW G, NEW C, SumsByKey(g, D, key, G, C)
  PROVE  SumOver(G, C) = SumOver(g, D)
<1> USE DEF SumsByKey
<1> DEFINE T == {s \in SUBSET C : SumOver(G, s) = SumOver(g, Keyed(D, key, s))}
<1>0. \A s : /\ IsFiniteSet(Keyed(D, key, s)) /\ SumOver(g, Keyed(D, key, s)) \in Int
             /\ \A x \in Keyed(D, key, s) : g[x] \in Int
  <2> SUFFICES ASSUME NEW s
               PROVE  /\ IsFiniteSet(Keyed(D, key, s)) /\ SumOver(g, Keyed(D, key, s)) \in Int
                      /\ \A x \in Keyed(D, key, s) : g[x] \in Int
    OBVIOUS
  <2>1. Keyed(D, key, s) \subseteq D
    BY DEF Keyed
  <2>2. IsFiniteSet(Keyed(D, key, s)) /\ \A x \in Keyed(D, key, s) : g[x] \in Int
    BY <2>1, FS_Subset
  <2> QED BY <2>2, SumInt
<1>1. {} \in T
  <2>1. Keyed(D, key, {}) = {}
    BY DEF Keyed
  <2> QED BY <2>1, SumEmpty
<1>2. ASSUME NEW s \in SUBSET C, s # {}, \A x \in s : s \ {x} \in T PROVE s \in T
  <2>1. PICK c : c \in s
    BY <1>2
  <2> DEFINE r == s \ {c}
             A == Keyed(D, key, r)
             B == Keyed(D, key, {c})
  <2>2. s = r \cup {c} /\ c \notin r /\ c \in C /\ r \in SUBSET C
    BY <2>1
  <2>3. SumOver(G, r) = SumOver(g, A)
    BY <1>2, <2>1
  <2>4. A \cup B = Keyed(D, key, s) /\ A \cap B = {}
    BY <2>1 DEF Keyed
  <2>5. SumOver(g, A \cup B) = SumOver(g, A) + SumOver(g, B)
    <3>1. /\ IsFiniteSet(A) /\ IsFiniteSet(B) /\ (\A x \in A : g[x] \in Int)
          /\ (\A x \in B : g[x] \in Int)
      BY <1>0
    <3>2. \A x \in A \cup B : g[x] \in Int
      BY <3>1
    <3> HIDE DEF A, B
    <3> QED BY <2>4, <3>1, <3>2, SumTogether
  <2>6. IsFiniteSet(r) /\ \A d \in r \cup {c} : G[d] \in Int
    <3>1. IsFiniteSet(s)
      BY FS_Subset
    <3>2. \A d \in C : G[d] \in Int
      BY <1>0
    <3> QED BY <2>2, <3>1, <3>2, FS_Subset
  <2>7. SumOver(G, r \cup {c}) = SumOver(G, r) + G[c]
    <3> HIDE DEF r
    <3> QED BY <2>2, <2>6, SumAdd
  <2>8. G[c] = SumOver(g, B)
    BY <2>2
  <2> HIDE DEF r, A, B
  <2>9. SumOver(G, s) = SumOver(g, A) + SumOver(g, B)
    BY <2>2, <2>3, <2>7, <2>8
  <2> QED BY <2>4, <2>5, <2>9
<1>3. C \in T
  <2> HIDE DEF T
  <2> QED BY <1>1, <1>2, FiniteInduct
<1>4. Keyed(D, key, C) = D
  BY DEF Keyed
<1> QED BY <1>3, <1>4

\* A sum of sums is the sum of both.
LEMMA SumPlus ==
  ASSUME NEW f, NEW g, NEW h, NEW S, IsFiniteSet(S),
         \A x \in S : f[x] \in Int /\ g[x] \in Int /\ h[x] = f[x] + g[x]
  PROVE  SumOver(h, S) = SumOver(f, S) + SumOver(g, S)
<1> DEFINE T == {s \in SUBSET S : SumOver(h, s) = SumOver(f, s) + SumOver(g, s)}
<1>1. {} \in T
  BY SumEmpty
<1>2. ASSUME NEW s \in SUBSET S, s # {}, \A x \in s : s \ {x} \in T PROVE s \in T
  <2> DEFINE c == Chosen(s)
             r == s \ {c}
  <2>1. c \in s /\ IsFiniteSet(s) /\ IsFiniteSet(r) /\ r \subseteq S
    BY <1>2, FS_Subset DEF Chosen
  <2>2. /\ SumOver(f, s) = f[c] + SumOver(f, r)
        /\ SumOver(g, s) = g[c] + SumOver(g, r)
        /\ SumOver(h, s) = h[c] + SumOver(h, r)
    BY <1>2, <2>1, SumStep
  <2>3. SumOver(h, r) = SumOver(f, r) + SumOver(g, r)
    BY <1>2, <2>1
  <2> HIDE DEF c, r
  <2>4. SumOver(f, r) \in Int /\ SumOver(g, r) \in Int
    BY <2>1, SumInt
  <2>5. f[c] \in Int /\ g[c] \in Int /\ h[c] = f[c] + g[c]
    BY <2>1
  <2>6. SumOver(h, s) = SumOver(f, s) + SumOver(g, s)
    BY <2>2, <2>3, <2>4, <2>5
  <2> QED BY <2>6
<1>3. S \in T
  <2> HIDE DEF T
  <2> QED BY <1>1, <1>2, FiniteInduct
<1> QED BY <1>3

\* Where one value changes, the sum changes by as much.
LEMMA SumChange ==
  ASSUME NEW f, NEW g, NEW S, IsFiniteSet(S), NEW c \in S,
         \A x \in S : f[x] \in Int /\ g[x] \in Int,
         \A x \in S \ {c} : f[x] = g[x]
  PROVE  SumOver(g, S) = SumOver(f, S) + (g[c] - f[c])
<1> DEFINE r == S \ {c}
<1>1. SumOver(f, S) = f[c] + SumOver(f, r) /\ SumOver(g, S) = g[c] + SumOver(g, r)
  BY SumWithout
<1>2. IsFiniteSet(r) /\ \A x \in r : f[x] \in Int /\ f[x] = g[x]
  BY FS_Subset
<1> HIDE DEF r
<1>3. SumOver(f, r) = SumOver(g, r) /\ SumOver(f, r) \in Int
  BY <1>2, SumAgree, SumInt
<1>4. f[c] \in Int /\ g[c] \in Int
  OBVIOUS
<1> QED BY <1>1, <1>3, <1>4

\* Nothing adds up to nothing.
LEMMA SumZero ==
  ASSUME NEW g, NEW S, IsFiniteSet(S), \A x \in S : g[x] = 0
  PROVE  SumOver(g, S) = 0
<1>1. SumOver(g, S) = SumOver(g, S) + SumOver(g, S)
  <2>1. \A x \in S : g[x] \in Int /\ g[x] \in Int /\ g[x] = g[x] + g[x]
    OBVIOUS
  <2> QED BY <2>1, SumPlus
<1>2. SumOver(g, S) \in Int
  BY SumInt
<1> QED BY <1>1, <1>2

\* What is nothing outside a part of the set adds up within it.
LEMMA SumWithin ==
  ASSUME NEW g, NEW S, IsFiniteSet(S), NEW A, A \subseteq S, \A x \in S : g[x] \in Int,
         \A x \in S \ A : g[x] = 0
  PROVE  SumOver(g, A) = SumOver(g, S)
<1> DEFINE B == S \ A
<1>1. /\ IsFiniteSet(A) /\ IsFiniteSet(B) /\ A \cap B = {} /\ A \cup B = S
      /\ (\A x \in B : g[x] = 0) /\ (\A x \in A \cup B : g[x] \in Int)
      /\ (\A x \in A : g[x] \in Int)
  BY FS_Subset
<1> HIDE DEF B
<1>2. SumOver(g, A \cup B) = SumOver(g, A) + SumOver(g, B)
  BY <1>1, SumTogether
<1>3. SumOver(g, B) = 0 /\ SumOver(g, A) \in Int
  BY <1>1, SumZero, SumInt
<1>4. SumOver(g, S) = SumOver(g, A) + 0
  BY <1>1, <1>2, <1>3
<1> QED BY <1>3, <1>4

\* What is less everywhere adds up to less.
LEMMA SumLess ==
  ASSUME NEW f, NEW g, NEW S, IsFiniteSet(S),
         \A x \in S : f[x] \in Int /\ g[x] \in Int /\ f[x] <= g[x]
  PROVE  SumOver(f, S) <= SumOver(g, S)
<1> DEFINE h == [x \in S |-> g[x] - f[x]]
<1>1. \A x \in S : f[x] \in Int /\ h[x] \in Nat /\ h[x] \in Int /\ g[x] = f[x] + h[x]
  OBVIOUS
<1> HIDE DEF h
<1>2. SumOver(g, S) = SumOver(f, S) + SumOver(h, S)
  BY <1>1, SumPlus
<1>3. SumOver(f, S) \in Int /\ SumOver(h, S) \in Nat
  BY <1>1, SumInt, SumNat
<1> QED BY <1>2, <1>3

\* The sum over one element.
LEMMA SumOne ==
  ASSUME NEW g, NEW x, g[x] \in Int
  PROVE  SumOver(g, {x}) = g[x]
<1>1. SumOver(g, {} \cup {x}) = SumOver(g, {}) + g[x]
  <2>1. \A y \in {} \cup {x} : g[y] \in Int
    OBVIOUS
  <2> QED BY <2>1, FS_EmptySet, SumAdd
<1>2. {} \cup {x} = {x}
  OBVIOUS
<1> QED BY <1>1, <1>2, SumEmpty

\* h has the values of g at the pairs of A and B row by row, and G adds the rows up.
RowSums(g, h, G, A, B) ==
  /\ IsFiniteSet(A) /\ IsFiniteSet(B)
  /\ \A a \in A, b \in B : g[<<a, b>>] \in Int /\ h[a][b] = g[<<a, b>>]
  /\ \A a \in A : G[a] = SumOver(h[a], B)

\* The sum over pairs is the sum of the rows.
LEMMA SumPairs ==
  ASSUME NEW g, NEW h, NEW G, NEW A, NEW B, RowSums(g, h, G, A, B)
  PROVE  SumOver(g, A \X B) = SumOver(G, A)
<1> USE DEF RowSums
<1> DEFINE D == A \X B
           key == [p \in D |-> p[1]]
           second == [p \in D |-> p[2]]
<1>1. IsFiniteSet(D) /\ \A p \in D : g[p] \in Int /\ key[p] \in A /\ second[p] \in B
  BY FS_Product
<1>2. ASSUME NEW a \in A PROVE G[a] = SumOver(g, Keyed(D, key, {a}))
  <2> DEFINE R == Keyed(D, key, {a})
  <2>1. /\ R \subseteq D /\ IsFiniteSet(R) /\ \A b \in B : Keyed(R, second, {b}) = {<<a, b>>}
    <3>1. R \subseteq D
      BY DEF Keyed
    <3>2. \A p : p \in R <=> \E b \in B : p = <<a, b>>
      BY DEF Keyed
    <3>3. ASSUME NEW b \in B PROVE Keyed(R, second, {b}) = {<<a, b>>}
      <4>1. \A c \in B : second[<<a, c>>] = c
        OBVIOUS
      <4> HIDE DEF R, second
      <4>2. <<a, b>> \in R
        BY <3>2
      <4> QED BY <3>2, <4>1, <4>2 DEF Keyed
    <3>4. IsFiniteSet(R)
      <4> HIDE DEF R
      <4> QED BY <1>1, <3>1, FS_Subset
    <3> QED BY <3>1, <3>3, <3>4
  <2>2. ASSUME NEW b \in B PROVE h[a][b] = SumOver(g, Keyed(R, second, {b}))
    <3>1. SumOver(g, {<<a, b>>}) = g[<<a, b>>]
      BY SumOne
    <3> HIDE DEF R, second
    <3> QED BY <2>1, <3>1
  <2>3. \A p \in R : g[p] \in Int /\ second[p] \in B
    BY <1>1, <2>1
  <2> HIDE DEF R, second, D, key
  <2>4. SumsByKey(g, R, second, h[a], B)
    BY <2>1, <2>2, <2>3 DEF SumsByKey
  <2>5. SumOver(h[a], B) = SumOver(g, R)
    BY <2>4, SumByKey
  <2> QED BY <2>5 DEF R
<1> HIDE DEF D, key, second
<1>3. SumsByKey(g, D, key, G, A)
  BY <1>1, <1>2 DEF SumsByKey
<1> QED BY <1>3, SumByKey DEF D

=============================================================================
