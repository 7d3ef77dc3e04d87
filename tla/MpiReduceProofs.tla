--------------------------- MODULE MpiReduceProofs ---------------------------
(***************************************************************************)
(* Theorems about the reduction of the trees over MPI, for any number of   *)
(* ranks and any trees: the ranks make the same collectives in the same    *)
(* order, and every rank ends up with the sum of all trees and the longest *)
(* time of every node.                                                     *)
(*                                                                         *)
(* The ranks are never at the same place, so what they agree on is a       *)
(* traversal: a sequence of stages, one for each collective, of which      *)
(* every rank has gone through some and none leaves.  A stage has all that *)
(* the ranks share after a collective, and the given trees say which       *)
(* stages may follow it.                                                   *)
(***************************************************************************)
EXTENDS MpiReduce, DataFacts

-----------------------------------------------------------------------------
(* The trees the ranks start a round with, and what it makes of them       *)

Paths == Seq(Nat)

Union(g) == UNION {DOMAIN g[s] : s \in Ranks}

Holders(g, p) == {s \in Ranks : p \in DOMAIN g[s]}

\* The sum of the given trees: the tree every rank has after the first round.
Merged(g) == [p \in Union(g) |-> SumOver([s \in Holders(g, p) |-> g[s][p]], Holders(g, p))]

Base(g, k, s) == IF k = 1 THEN g[s] ELSE invert(Merged(g))

All(g, k) == UNION {DOMAIN Base(g, k, s) : s \in Ranks}

Own(g, k, s, p) == IF p \in DOMAIN Base(g, k, s) THEN Base(g, k, s)[p] ELSE 0

Whole(g, k, p) == SumOver([s \in Ranks |-> Own(g, k, s, p)], Ranks)

Highest(g, k, p) == Max({Own(g, k, s, p) : s \in Ranks})

\* A tree has the results of the first round.
ResultOf(t, g) ==
  /\ DOMAIN t = Union(g)
  /\ \A p \in DOMAIN t : t[p].total = Merged(g)[p] /\ t[p].max = Highest(g, 1, p)

-----------------------------------------------------------------------------
(* Stages                                                                  *)

Ops == {"totals", "count", "child", "next"}

\* After a collective: the round and the node it is for, the queue, what was
\* broadcast and how many children still are, the nodes found and those visited.
Stages == [round : {1, 2}, op : Ops, root : Nat, node : Paths, value : Nat,
           q : Seq(Paths), left : Nat, pushed : SUBSET Paths, visited : SUBSET Paths]

\* The children of the node that a rank has and that nobody has broadcast.
Left(g, s, e) == {Last(p) : p \in {c \in DOMAIN Base(g, e.round, s) \ e.pushed : Front(c) = e.node}}

Proposes(g, s, e) == IF Left(g, s, e) = {} THEN comm_size ELSE s

Lowest(g, e) == Min({Proposes(g, s, e) : s \in Ranks})

\* A round starts with the root.
Starting(e, k) ==
  /\ e.op = "totals" /\ e.root = comm_size /\ e.round = k
  /\ e.node = Root /\ e.q = << >> /\ e.pushed = {Root} /\ e.visited = {Root}

SameNode(d, e) == e.round = d.round /\ e.node = d.node /\ e.visited = d.visited

Waits(d, e) == SameNode(d, e) /\ e.q = d.q /\ e.pushed = d.pushed

Counts(d, e, root) == e.op = "count" /\ e.root = root /\ e.left = e.value /\ Waits(d, e)

Broadcasts(d, e) ==
  LET path == Append(d.node, e.value)
  IN /\ e.op = "child" /\ e.root = d.root /\ e.left = d.left - 1
     /\ SameNode(d, e)
     /\ e.q = Append(d.q, path)
     /\ e.pushed = d.pushed \cup {path}

Pops(d, e) ==
  /\ e.op = "totals" /\ e.root = comm_size /\ e.round = d.round
  /\ e.node = Head(d.q) /\ e.q = Tail(d.q)
  /\ e.pushed = d.pushed /\ e.visited = d.visited \cup {Head(d.q)}

\* The stages that may follow one.
Goes(g, d, e) ==
  \/ d.op = "totals" /\ Counts(d, e, 0)
  \/ d.op \in {"count", "child"} /\ d.left > 0 /\ Broadcasts(d, e)
  \/ /\ d.op \in {"count", "child"} /\ d.left = 0
     /\ e.op = "next" /\ e.root = comm_size /\ Waits(d, e)
  \/ d.op = "next" /\ Lowest(g, d) < comm_size /\ Counts(d, e, Lowest(g, d))
  \/ d.op = "next" /\ Lowest(g, d) = comm_size /\ d.q # << >> /\ Pops(d, e)
  \/ d.op = "next" /\ Lowest(g, d) = comm_size /\ d.q = << >> /\ d.round = 1 /\ Starting(e, 2)

\* Every node found waits in the queue or was visited, once; and a node that was
\* left has no children that were not found.
Sound(g, e) ==
  /\ e.op \in {"count", "child"} => e.root \in Ranks
  /\ Root \in e.pushed /\ e.pushed \subseteq All(g, e.round)
  /\ e.pushed = e.visited \cup ToSet(e.q) /\ e.visited \cap ToSet(e.q) = {}
  /\ IsInjective(e.q)
  /\ e.node \in e.visited
  /\ \A p \in e.pushed \ {Root} : Front(p) \in e.visited
  /\ e.op = "totals" => \A p \in e.pushed \ {Root} : Front(p) # e.node
  /\ \A s \in Ranks : \A p \in DOMAIN Base(g, e.round, s) \ {Root} :
       Front(p) \in e.visited \ {e.node} => p \in e.pushed

Traversal(g, L) ==
  /\ L \in Seq(Stages)
  /\ \A i \in 1 .. Len(L) : Sound(g, L[i])
  /\ Len(L) > 0 => Starting(L[1], 1)
  /\ \A i \in 1 .. Len(L) - 1 : Goes(g, L[i], L[i + 1])

-----------------------------------------------------------------------------
(* The ranks on their way                                                  *)

\* The tree of a rank: it has the nodes found, and the sums and maxima of those that
\* are done.
TreeIs(g, r, e, done) ==
  /\ DOMAIN tree[r] = DOMAIN Base(g, e.round, r) \cup e.pushed
  /\ \A p \in DOMAIN tree[r] :
       tree[r][p].total = IF p \in done THEN Whole(g, e.round, p) ELSE Own(g, e.round, r, p)
  /\ \A p \in DOMAIN tree[r] : p \in done => tree[r][p].max = Highest(g, e.round, p)

Starts(g, r, k) ==
  /\ pc[r] = "pop" /\ round[r] = k /\ q[r] = <<Root>>
  /\ tree[r] = Nodes(Base(g, k, r))

At(r, e) == round[r] = e.round /\ node[r] = e.node /\ q[r] = e.q

Waiting(g, r, e) == children_to_process[r] = Left(g, r, e)

\* Where a rank may be whose last collective led to stage e.
InTotals(g, r, e) ==
  e.op = "totals" /\ pc[r] = "totals" /\ At(r, e) /\ TreeIs(g, r, e, e.visited \ {e.node})

Done(g, r, e) == At(r, e) /\ TreeIs(g, r, e, e.visited)

HasTotals(g, r, e) ==
  e.op = "totals" /\ pc[r] = "count" /\ bcast_rank[r] = 0 /\ Waiting(g, r, e) /\ Done(g, r, e)

InChildren(g, r, e) ==
  /\ e.op \in {"count", "child"} /\ pc[r] = "child" /\ bcast_rank[r] = e.root
  /\ Len(pending[r]) = e.left
  /\ IF e.root = r
     THEN /\ ToSet(pending[r]) = Left(g, r, e)
          /\ IsInjective(pending[r])
     ELSE Waiting(g, r, e)
  /\ Done(g, r, e)

InNext(g, r, e) == e.op = "next" /\ pc[r] = "next" /\ Waiting(g, r, e) /\ Done(g, r, e)

HasNext(g, r, e) ==
  /\ e.op = "next" /\ Lowest(g, e) < comm_size
  /\ pc[r] = "count" /\ bcast_rank[r] = Lowest(g, e) /\ Waiting(g, r, e) /\ Done(g, r, e)

HasNone(g, r, e) ==
  /\ e.op = "next" /\ Lowest(g, e) = comm_size
  /\ pc[r] = IF q[r] # << >> THEN "pop" ELSE "reduced"
  /\ Done(g, r, e)

Again(g, r, e) ==
  /\ e.op = "next" /\ Lowest(g, e) = comm_size /\ e.q = << >> /\ e.round = 1
  /\ Starts(g, r, 2)

Stands(g, r, e) ==
  \/ InTotals(g, r, e) \/ HasTotals(g, r, e) \/ InChildren(g, r, e) \/ InNext(g, r, e)
  \/ HasNext(g, r, e) \/ HasNone(g, r, e) \/ Again(g, r, e)

\* A call of a rank is that of the stage.
Matches(g, r, c, e) ==
  /\ c.op = e.op /\ c.root = e.root /\ c.node = e.node
  /\ e.op \in {"count", "child"} => c.value = e.value
  /\ e.op = "totals" => c.value = Own(g, e.round, r, e.node)
  /\ e.op = "next" => c.value = Proposes(g, r, e)

\* A rank goes along the traversal, and is the first at its own broadcasts.
Follows(g, r, L) ==
  /\ Len(calls[r]) <= Len(L)
  /\ \A i \in 1 .. Len(calls[r]) : Matches(g, r, calls[r][i], L[i])
  /\ \A i \in 1 .. Len(L) : L[i].op \in {"count", "child"} /\ L[i].root = r => i <= Len(calls[r])
  /\ Len(calls[r]) = 0 => Starts(g, r, 1)
  /\ Len(calls[r]) > 0 => Stands(g, r, L[Len(calls[r])])

Calls == [op : Ops, root : Nat, node : Paths, value : Nat]

Types ==
  /\ given \in [Ranks -> InitialTrees]
  /\ round \in [Ranks -> {1, 2}]
  /\ pc \in [Ranks -> {"pop", "totals", "count", "child", "next", "reduced"}]
  /\ DOMAIN tree = Ranks /\ DOMAIN reduced = Ranks
  /\ q \in [Ranks -> Seq(Paths)]
  /\ node \in [Ranks -> Paths]
  /\ children_to_process \in [Ranks -> SUBSET Nat]
  /\ bcast_rank \in [Ranks -> Nat]
  /\ pending \in [Ranks -> Seq(Nat)]
  /\ calls \in [Ranks -> Seq(Calls)]

HasResult(r) == \E t, g : t = reduced[r] /\ g = given /\ ResultOf(t, g)

Reductions == \A r \in Ranks : IF round[r] = 1 THEN reduced[r] = EmptyMap ELSE HasResult(r)

Core(g) == \E L : Traversal(g, L) /\ \A s \in Ranks : Follows(g, s, L)

MInv == Types /\ Reductions /\ \E g : g = given /\ Core(g)

-----------------------------------------------------------------------------
(* Paths                                                                   *)

\* A path is its front and its last frame.
LEMMA PathEnds ==
  ASSUME NEW c \in Paths, c # Root
  PROVE  Front(c) \in Paths /\ Last(c) \in Nat /\ c = Append(Front(c), Last(c))
<1>1. Front(c) \in Seq(Nat) /\ Len(Front(c)) = Len(c) - 1 /\ Last(c) \in Nat
  BY FrontTyped DEF Paths, Root
<1>2. \A k \in 1 .. Len(c) - 1 : Front(c)[k] = c[k]
  BY FrontElements DEF Paths, Root
<1>3. Last(c) = c[Len(c)]
  BY DEF Last
<1>4. c = Append(Front(c), Last(c))
  <2> DEFINE x == Front(c)
             e == Last(c)
             y == Append(x, e)
  <2> HIDE DEF x, e
  <2>1. /\ x \in Seq(Nat) /\ e \in Nat /\ c \in Seq(Nat) /\ Len(x) = Len(c) - 1
        /\ e = c[Len(c)] /\ \A k \in 1 .. Len(c) - 1 : x[k] = c[k]
    BY <1>1, <1>2, <1>3 DEF x, e, Paths
  <2>2. /\ y \in Seq(Nat) /\ Len(y) = Len(x) + 1 /\ y[Len(x) + 1] = e
        /\ \A k \in 1 .. Len(x) : y[k] = x[k]
    BY <2>1, AppendTyped
  <2>4. Len(y) = Len(c) /\ \A k \in 1 .. Len(y) : y[k] = c[k]
    <3> HIDE DEF y
    <3>1. Len(c) \in Nat /\ Len(x) + 1 = Len(c)
      BY <2>1
    <3>2. Len(y) = Len(c) /\ y[Len(c)] = c[Len(c)]
      BY <2>1, <2>2, <3>1, Zenon
    <3>3. \A k \in 1 .. Len(c) - 1 : y[k] = c[k]
      BY <2>1, <2>2, Zenon
    <3>4. \A k \in 1 .. Len(c) : k \in 1 .. Len(c) - 1 \/ k = Len(c)
      BY <3>1
    <3> QED BY <3>2, <3>3, <3>4, Zenon
  <2>3. y = c
    <3> HIDE DEF y
    <3> QED BY <2>1, <2>2, <2>4, SeqEqual
  <2> QED BY <2>3 DEF x, e
<1> QED BY <1>1, <1>4 DEF Paths

\* The path of a child, and the way back to its parent.
LEMMA AppendPath ==
  ASSUME NEW p \in Paths, NEW f \in Nat
  PROVE  /\ Append(p, f) \in Paths /\ Append(p, f) # Root
         /\ Front(Append(p, f)) = p /\ Last(Append(p, f)) = f
<1>1. Extends(Append(p, f), p, f)
  BY AppendEnds DEF Paths
<1>2. Append(p, f) \in Seq(Nat) /\ Append(p, f) # << >>
  BY AppendTyped DEF Paths
<1> QED BY <1>1, <1>2 DEF Extends, Paths, Root

-----------------------------------------------------------------------------
(* The trees                                                               *)

\* A tree whose times are naturals.
TimesTree(t) == IsTree(t) /\ \A p \in DOMAIN t : t[p] \in Nat

\* What the assumption says of the ranks.
LEMMA RanksAre ==
  IsFiniteSet(Ranks) /\ Ranks \subseteq Nat /\ 0 \in Ranks /\ comm_size \notin Ranks
  /\ comm_size \in Nat /\ \A r \in Ranks : r < comm_size
<1>1. IsFiniteSet(0 .. comm_size - 1)
  <2>1. comm_size - 1 \in Int /\ 0 \in Int
    BY MpiReduceAssumption
  <2> QED BY <2>1, FS_Interval
<1> QED BY <1>1, MpiReduceAssumption DEF Ranks

\* Every rank is given a tree of natural times.
LEMMA GivenTree ==
  ASSUME NEW g \in [Ranks -> InitialTrees], NEW s \in Ranks
  PROVE  TimesTree(g[s])
BY MpiReduceAssumption DEF TimesTree

\* The sum of trees is a tree.
LEMMA MergedTree ==
  ASSUME NEW g \in [Ranks -> InitialTrees]
  PROVE  TimesTree(Merged(g))
<1> DEFINE t == Merged(g)
<1>1. DOMAIN t = Union(g)
  BY DEF Merged
<1>2. \A s \in Ranks : TimesTree(g[s])
  BY GivenTree
<1>3. IsFiniteSet(Union(g))
  <2> DEFINE f == [s \in Ranks |-> DOMAIN g[s]]
             F == {f[s] : s \in Ranks}
  <2>1. IsFiniteSet(F)
    <3> HIDE DEF f
    <3> QED BY RanksAre, ValuesFinite
  <2>2. \A T \in F : IsFiniteSet(T)
    BY <1>2 DEF TimesTree, IsTree
  <2>3. F = {DOMAIN g[s] : s \in Ranks}
    OBVIOUS
  <2> HIDE DEF F
  <2>4. IsFiniteSet(UNION F)
    BY <2>1, <2>2, FS_UNION
  <2> QED BY <2>3, <2>4 DEF Union
<1>4. Union(g) \subseteq Seq(Nat)
  BY <1>2 DEF Union, TimesTree, IsTree
<1>5. Root \in Union(g)
  BY <1>2, RanksAre DEF Union, TimesTree, IsTree
<1>6. \A p \in Union(g) \ {Root} : Front(p) \in Union(g)
  BY <1>2, Zenon DEF Union, TimesTree, IsTree
<1>7. ASSUME NEW p \in Union(g) PROVE t[p] \in Nat
  <2> DEFINE H == Holders(g, p)
             f == [s \in H |-> g[s][p]]
  <2>1. H \subseteq Ranks /\ \A s \in H : f[s] \in Nat
    BY <1>2 DEF Holders, TimesTree
  <2>2. IsFiniteSet(H)
    BY <2>1, RanksAre, FS_Subset
  <2>3. SumOver(f, H) \in Nat
    <3> HIDE DEF H, f
    <3> QED BY <2>1, <2>2, SumNat
  <2> QED BY <1>7, <2>3 DEF Merged
<1> HIDE DEF t
<1>8. IsTree(t)
  BY <1>1, <1>3, <1>4, <1>5, <1>6, Zenon DEF IsTree
<1> QED BY <1>1, <1>7, <1>8, Zenon DEF TimesTree, t

\* The prefixes of a path.
LEMMA PrefixesAre ==
  ASSUME NEW c \in Paths
  PROVE  /\ IsFiniteSet(Prefixes(c)) /\ Prefixes(c) \subseteq Paths /\ Root \in Prefixes(c)
         /\ \A p \in Prefixes(c) \ {Root} : Front(p) \in Prefixes(c)
<1> DEFINE n == Len(c)
           f == [l \in 0 .. n |-> SubSeq(c, 1, l)]
<1>1. n \in Nat
  BY DEF Paths
<1>3. \A l \in 0 .. n : /\ SubSeq(c, 1, l) \in Paths /\ Len(SubSeq(c, 1, l)) = l
                        /\ \A k \in 1 .. l : SubSeq(c, 1, l)[k] = c[k]
  <2>1. ASSUME NEW l \in 0 .. n
        PROVE  /\ SubSeq(c, 1, l) \in Paths /\ Len(SubSeq(c, 1, l)) = l
               /\ \A k \in 1 .. l : SubSeq(c, 1, l)[k] = c[k]
    <3>1. \A k \in 1 .. l : c[k] \in Nat
      BY DEF Paths
    <3>2. /\ SubSeq(c, 1, l) \in Seq(Nat)
          /\ Len(SubSeq(c, 1, l)) = IF 1 <= l THEN l - 1 + 1 ELSE 0
          /\ \A k \in 1 .. l - 1 + 1 : SubSeq(c, 1, l)[k] = c[1 + k - 1]
      BY <1>1, <3>1, SubSeqProperties
    <3>3. l \in Nat /\ l - 1 + 1 = l /\ (IF 1 <= l THEN l - 1 + 1 ELSE 0) = l
      BY <1>1
    <3>4. \A k \in 1 .. l : 1 + k - 1 = k
      OBVIOUS
    <3> QED BY <3>2, <3>3, <3>4, Zenon DEF Paths
  <2> QED BY <2>1
<1>4. IsFiniteSet(Prefixes(c))
  <2>1. IsFiniteSet(0 .. n)
    BY <1>1, FS_Interval
  <2>2. IsFiniteSet({f[l] : l \in 0 .. n})
    <3> HIDE DEF n, f
    <3> QED BY <2>1, ValuesFinite
  <2>3. {f[l] : l \in 0 .. n} = {SubSeq(c, 1, l) : l \in 0 .. n}
    OBVIOUS
  <2> QED BY <2>2, <2>3, Zenon DEF Prefixes
<1>5. Prefixes(c) \subseteq Paths
  BY <1>3 DEF Prefixes
<1>6. Root \in Prefixes(c)
  <2>1. 0 \in 0 .. n /\ Len(SubSeq(c, 1, 0)) = 0
    BY <1>1, <1>3
  <2>2. SubSeq(c, 1, 0) = << >>
    BY <1>3, <2>1, EmptySeq DEF Paths
  <2> QED BY <2>1, <2>2 DEF Prefixes, Root
<1>7. ASSUME NEW p \in Prefixes(c), p # Root PROVE Front(p) \in Prefixes(c)
  <2>1. PICK l \in 0 .. n : p = SubSeq(c, 1, l)
    BY DEF Prefixes
  <2>2. p \in Seq(Nat) /\ Len(p) = l /\ \A k \in 1 .. l : p[k] = c[k]
    BY <1>3, <2>1 DEF Paths
  <2>3. l # 0
    BY <1>7, <2>2, EmptySeq DEF Root
  <2>4. l - 1 \in 0 .. n
    BY <1>1, <2>3
  <2> DEFINE x == Front(p)
             y == SubSeq(c, 1, l - 1)
  <2>5. x \in Seq(Nat) /\ Len(x) = l - 1 /\ \A k \in 1 .. l - 1 : x[k] = p[k]
    BY <1>7, <2>2, FrontTyped, FrontElements DEF Root
  <2>6. y \in Seq(Nat) /\ Len(y) = l - 1 /\ \A k \in 1 .. l - 1 : y[k] = c[k]
    BY <1>3, <2>4 DEF Paths
  <2> HIDE DEF x, y
  <2>7. \A k \in 1 .. Len(x) : x[k] = y[k]
    <3>1. \A k \in 1 .. l - 1 : k \in 1 .. l
      BY <2>4
    <3>2. \A k \in 1 .. l - 1 : x[k] = y[k]
      BY <2>2, <2>5, <2>6, <3>1, Zenon
    <3> QED BY <2>5, <3>2, Zenon
  <2>8. x = y
    BY <2>5, <2>6, <2>7, SeqEqual
  <2> QED BY <2>4, <2>8 DEF Prefixes, x, y
<1> QED BY <1>4, <1>5, <1>6, <1>7

\* The inverse of a tree is a tree.
LEMMA InvertTree ==
  ASSUME NEW t, TimesTree(t)
  PROVE  TimesTree(invert(t))
<1> DEFINE D == DOMAIN t
           own == [p \in D |-> self_time(t, p)]
           paths == UNION {Prefixes(UpwardChain(p)) : p \in D}
           i == invert(t)
<1>1. IsFiniteSet(D) /\ D \subseteq Paths /\ Root \in D /\ \A p \in D : t[p] \in Nat
  BY DEF TimesTree, IsTree, Paths
<1>2. ASSUME NEW p \in D PROVE UpwardChain(p) \in Paths
  <2>1. p \in Seq(Nat) /\ Len(p) \in Nat /\ \A k \in 1 .. Len(p) : p[k] \in Nat
    BY <1>1 DEF Paths
  <2>2. \A k \in 1 .. Len(p) : p[Len(p) - k + 1] \in Nat
    BY <2>1
  <2>3. Reverse(p) \in Seq(Nat)
    BY <2>1, <2>2 DEF Reverse
  <2> QED BY <2>3, AppendTyped, MpiReduceAssumption DEF UpwardChain, Paths
<1>3. \A p \in D : /\ IsFiniteSet(Prefixes(UpwardChain(p)))
                   /\ Prefixes(UpwardChain(p)) \subseteq Paths
                   /\ Root \in Prefixes(UpwardChain(p))
                   /\ \A c \in Prefixes(UpwardChain(p)) \ {Root} : Front(c) \in Prefixes(UpwardChain(p))
  BY <1>2, PrefixesAre
<1>4. IsFiniteSet(paths)
  <2> DEFINE f == [p \in D |-> Prefixes(UpwardChain(p))]
             F == {f[p] : p \in D}
  <2>1. IsFiniteSet(F)
    <3> HIDE DEF f, D
    <3> QED BY <1>1, ValuesFinite
  <2>2. \A T \in F : IsFiniteSet(T)
    BY <1>3
  <2>3. F = {Prefixes(UpwardChain(p)) : p \in D}
    OBVIOUS
  <2>4. IsFiniteSet(UNION F)
    <3> HIDE DEF F
    <3> QED BY <2>1, <2>2, FS_UNION
  <2> QED BY <2>3, <2>4, Zenon
<1>5. paths \subseteq Seq(Nat) /\ Root \in paths
  BY <1>1, <1>3 DEF Paths
<1>6. \A c \in paths \ {Root} : Front(c) \in paths
  BY <1>3, Zenon
<1>7. \A p \in D : own[p] \in Nat
  <2>1. ASSUME NEW p \in D PROVE self_time(t, p) \in Nat
    <3> DEFINE C == ChildrenOf(D, p)
               x == t[p] - SumOver(t, C)
    <3>1. C \in SUBSET D
      BY Zenon DEF ChildrenOf
    <3>2. IsFiniteSet(C) /\ \A c \in C : t[c] \in Int
      BY <1>1, <3>1, FS_Subset
    <3>3. SumOver(t, C) \in Int
      <4> HIDE DEF C
      <4> QED BY <3>2, SumInt
    <3>4. x \in Int
      <4> HIDE DEF C, D
      <4> QED BY <1>1, <2>1, <3>3
    <3> HIDE DEF x
    <3>5. IsFiniteSet({0, x})
      <4>1. IsFiniteSet({0} \cup {x})
        BY FS_Singleton, FS_AddElement
      <4>2. {0} \cup {x} = {0, x}
        OBVIOUS
      <4> QED BY <4>1, <4>2
    <3>6. Max({0, x}) \in {0, x} /\ \A y \in {0, x} : y <= Max({0, x})
      <4>1. {0, x} \subseteq Int /\ {0, x} # {}
        BY <3>4
      <4> QED BY <3>5, <4>1, MaxIs
    <3>7. Max({0, x}) \in Nat
      BY <3>4, <3>6
    <3> QED BY <3>7, Zenon DEF self_time, x
  <2> QED BY <2>1
<1>8. ASSUME NEW c \in paths PROVE i[c] \in Nat
  <2> DEFINE P == {p \in D : IsPrefix(c, UpwardChain(p))}
  <2>1. i[c] = SumOver(own, P)
    BY <1>8, Zenon DEF invert
  <2>2. IsFiniteSet(P) /\ \A p \in P : own[p] \in Nat
    <3>1. P \in SUBSET D
      OBVIOUS
    <3> HIDE DEF own, P
    <3> QED BY <1>1, <1>7, <3>1, FS_Subset
  <2>3. SumOver(own, P) \in Nat
    <3> HIDE DEF own, P
    <3> QED BY <2>2, SumNat
  <2> QED BY <2>1, <2>3, Zenon
<1>9. DOMAIN i = paths
  BY Zenon DEF invert
<1> HIDE DEF paths, i
<1>10. IsTree(i)
  BY <1>4, <1>5, <1>6, <1>9, Zenon DEF IsTree
<1> QED BY <1>8, <1>9, <1>10, Zenon DEF TimesTree, i

\* So is what the ranks start a round with.
LEMMA BaseTree ==
  ASSUME NEW g \in [Ranks -> InitialTrees], NEW k, NEW s \in Ranks
  PROVE  TimesTree(Base(g, k, s))
BY GivenTree, MergedTree, InvertTree, Zenon DEF Base

\* What a rank brings to a node is a natural.
LEMMA OwnTyped ==
  ASSUME NEW g \in [Ranks -> InitialTrees], NEW k, NEW s \in Ranks, NEW p
  PROVE  Own(g, k, s, p) \in Nat
BY BaseTree DEF Own, TimesTree

\* Adding up the trees with zeros for the missing nodes makes the same sum.
LEMMA WholeIsMerged ==
  ASSUME NEW g \in [Ranks -> InitialTrees], NEW p \in Union(g)
  PROVE  Whole(g, 1, p) = Merged(g)[p]
<1> DEFINE H == Holders(g, p)
           f == [s \in H |-> g[s][p]]
           o == [s \in Ranks |-> Own(g, 1, s, p)]
           T == {A \in SUBSET Ranks : SumOver(o, A) = SumOver(o, A \cap H)}
<1>1. \A s \in Ranks : o[s] \in Int /\ o[s] \in Nat
  BY OwnTyped
<1>2. \A s \in Ranks \ H : o[s] = 0
  BY DEF Own, Holders, Base
<1>3. {} \in T
  <2>1. {} \cap H = {}
    OBVIOUS
  <2> QED BY <2>1, Zenon
<1>4. ASSUME NEW A \in SUBSET Ranks, A # {}, \A x \in A : A \ {x} \in T
      PROVE  A \in T
  <2>1. PICK x \in A : TRUE
    BY <1>4
  <2> DEFINE B == A \ {x}
  <2>2. IsFiniteSet(A) /\ IsFiniteSet(A \cap H)
    BY RanksAre, FS_Subset
  <2>3. SumOver(o, A) = o[x] + SumOver(o, B)
    <3> HIDE DEF o
    <3> QED BY <1>1, <2>1, <2>2, SumWithout
  <2>4. SumOver(o, B) = SumOver(o, B \cap H)
    BY <1>4, <2>1
  <2>5. CASE x \in H
    <3>1. SumOver(o, A \cap H) = o[x] + SumOver(o, (A \cap H) \ {x})
      <4>1. \A y \in A \cap H : o[y] \in Int
        BY <1>1
      <4>2. x \in A \cap H
        BY <2>1, <2>5
      <4> HIDE DEF o, H
      <4> QED BY <2>2, <4>1, <4>2, SumWithout
    <3>2. (A \cap H) \ {x} = B \cap H
      OBVIOUS
    <3> QED BY <2>3, <2>4, <3>1, <3>2, Zenon
  <2>6. CASE x \notin H
    <3>1. A \cap H = B \cap H
      BY <2>6
    <3>2. o[x] = 0
      BY <1>2, <2>1, <2>6
    <3>3. SumOver(o, B) \in Int
      <4>1. IsFiniteSet(B) /\ \A y \in B : o[y] \in Int
        BY <1>1, <2>2, FS_Subset
      <4> HIDE DEF o, B
      <4> QED BY <4>1, SumInt
    <3>4. SumOver(o, A) = SumOver(o, B)
      <4> HIDE DEF o, B
      <4> QED BY <2>3, <3>2, <3>3
    <3> QED BY <2>4, <3>1, <3>4, Zenon
  <2> QED BY <2>5, <2>6
<1>5. Ranks \in T
  <2> HIDE DEF T
  <2> QED BY <1>3, <1>4, RanksAre, FiniteInduct
<1>6. SumOver(o, Ranks) = SumOver(o, H)
  <2>1. Ranks \cap H = H
    BY DEF Holders
  <2> QED BY <1>5, <2>1
<1>7. SumOver(o, H) = SumOver(f, H)
  <2>1. IsFiniteSet(H)
    BY RanksAre, FS_Subset DEF Holders
  <2>2. \A s \in H : o[s] = f[s]
    BY DEF Holders, Own, Base
  <2> HIDE DEF o, H, f
  <2> QED BY <2>1, <2>2, SumAgree
<1> QED BY <1>6, <1>7, Zenon DEF Whole, Merged

-----------------------------------------------------------------------------
(* The children that are left, and who broadcasts them                     *)

\* A number is left when the child it makes exists on the rank and was not found.
LEMMA LeftIs ==
  ASSUME NEW g \in [Ranks -> InitialTrees], NEW s \in Ranks, NEW e \in Stages, Root \in e.pushed
  PROVE  /\ Left(g, s, e) \subseteq Nat /\ IsFiniteSet(Left(g, s, e))
         /\ \A f \in Nat : f \in Left(g, s, e) <=>
              Append(e.node, f) \in DOMAIN Base(g, e.round, s) \ e.pushed
<1> DEFINE D == DOMAIN Base(g, e.round, s)
           C == {c \in D \ e.pushed : Front(c) = e.node}
           last == [c \in C |-> Last(c)]
<1>1. IsFiniteSet(D) /\ D \subseteq Paths
  BY BaseTree DEF TimesTree, IsTree, Paths
<1>2. e.node \in Paths
  BY DEF Stages
<1>3. Left(g, s, e) = {Last(c) : c \in C}
  BY Zenon DEF Left
<1>4. \A c \in C : c \in Paths /\ c # Root /\ c = Append(e.node, Last(c)) /\ Last(c) \in Nat
  <2>1. \A c \in C : c \in Paths /\ c # Root /\ Front(c) = e.node
    BY <1>1
  <2> QED BY <2>1, PathEnds
<1>5. IsFiniteSet(Left(g, s, e))
  <2>1. IsFiniteSet(C)
    BY <1>1, FS_Subset
  <2>2. IsFiniteSet({last[c] : c \in C})
    <3> HIDE DEF C, last
    <3> QED BY <2>1, ValuesFinite
  <2>3. {last[c] : c \in C} = {Last(c) : c \in C}
    OBVIOUS
  <2> QED BY <1>3, <2>2, <2>3, Zenon
<1>6. ASSUME NEW f \in Nat
      PROVE  f \in Left(g, s, e) <=> Append(e.node, f) \in D \ e.pushed
  <2> DEFINE c == Append(e.node, f)
  <2>1. Front(c) = e.node /\ Last(c) = f
    BY <1>2, AppendPath
  <2>2. ASSUME f \in Left(g, s, e) PROVE c \in D \ e.pushed
    <3>1. PICK x \in C : Last(x) = f
      BY <1>3, <2>2, Zenon
    <3>2. x = c
      BY <1>4, <3>1, Zenon
    <3> QED BY <3>2
  <2>3. ASSUME c \in D \ e.pushed PROVE f \in Left(g, s, e)
    <3>1. c \in C
      BY <2>1, <2>3
    <3> QED BY <1>3, <2>1, <3>1, Zenon
  <2> QED BY <2>2, <2>3
<1>7. Left(g, s, e) \subseteq Nat
  BY <1>3, <1>4, Zenon
<1> QED BY <1>5, <1>6, <1>7

\* What is left depends on the node and on the nodes found only.
LEMMA LeftSame ==
  ASSUME NEW g, NEW s, NEW d, NEW e, e.round = d.round, e.node = d.node, e.pushed = d.pushed
  PROVE  Left(g, s, e) = Left(g, s, d) /\ Proposes(g, s, e) = Proposes(g, s, d)
BY Zenon DEF Left, Proposes

\* Ranks propose themselves, or nobody; the lowest is nobody when all do.
LEMMA LowestIs ==
  ASSUME NEW g, NEW e
  PROVE  /\ Lowest(g, e) \in Ranks \cup {comm_size}
         /\ Lowest(g, e) \in Nat
         /\ Lowest(g, e) < comm_size => Lowest(g, e) \in Ranks
         /\ Lowest(g, e) = comm_size => \A s \in Ranks : Left(g, s, e) = {}
         /\ Lowest(g, e) < comm_size \/ Lowest(g, e) = comm_size
<1> DEFINE P == {Proposes(g, s, e) : s \in Ranks}
<1>1. P \subseteq Ranks \cup {comm_size} /\ P # {}
  BY RanksAre DEF Proposes
<1>2. P \subseteq Nat
  BY <1>1, RanksAre
<1>3. Min(P) \in P /\ \A x \in P : Min(P) <= x
  <2> HIDE DEF P
  <2> QED BY <1>1, <1>2, MinIs
<1>4. Lowest(g, e) = Min(P)
  BY Zenon DEF Lowest
<1>5. ASSUME Lowest(g, e) = comm_size, NEW s \in Ranks PROVE Left(g, s, e) = {}
  <2>1. Proposes(g, s, e) \in P
    OBVIOUS
  <2>2. comm_size <= Proposes(g, s, e)
    <3> HIDE DEF P
    <3> QED BY <1>3, <1>4, <1>5, <2>1
  <2>3. s < comm_size /\ s \in Nat /\ comm_size \in Nat
    BY RanksAre
  <2> QED BY <2>2, <2>3 DEF Proposes
<1>6. Lowest(g, e) \in Ranks \cup {comm_size}
  BY <1>1, <1>3, <1>4, Zenon
<1>7. /\ Lowest(g, e) \in Nat
      /\ Lowest(g, e) < comm_size => Lowest(g, e) \in Ranks
      /\ Lowest(g, e) < comm_size \/ Lowest(g, e) = comm_size
  <2>1. \A x \in Ranks \cup {comm_size} :
          /\ x \in Nat
          /\ x < comm_size => x \in Ranks
          /\ x < comm_size \/ x = comm_size
    BY MpiReduceAssumption DEF Ranks
  <2> QED BY <1>6, <2>1, Zenon
<1> QED BY <1>5, <1>6, <1>7, Zenon

Rising(s) == \A i, j \in DOMAIN s : i < j => s[i] < s[j]

\* A finite set of naturals can be enumerated in ascending order.
LEMMA RisingExists ==
  ASSUME NEW F, IsFiniteSet(F), F \subseteq Nat
  PROVE  \E s \in [1 .. Cardinality(F) -> F] : Rising(s)
<1> DEFINE T == {A \in SUBSET F : \E s \in [1 .. Cardinality(A) -> A] : Rising(s)}
<1>1. {} \in T
  <2> DEFINE s == [i \in 1 .. 0 |-> 0]
  <2>1. Cardinality({}) = 0
    BY FS_EmptySet
  <2>2. s \in [1 .. 0 -> {}] /\ Rising(s)
    BY DEF Rising
  <2> QED BY <2>1, <2>2
<1>2. ASSUME NEW A \in SUBSET F, A # {}, \A x \in A : A \ {x} \in T PROVE A \in T
  <2>1. IsFiniteSet(A) /\ A \subseteq Int
    <3>1. IsFiniteSet(A)
      BY FS_Subset
    <3> QED BY <3>1
  <2>2. PICK x : x \in A /\ \A y \in A : y <= x
    BY <1>2, <2>1, MaxIs, Zenon
  <2> DEFINE B == A \ {x}
             n == Cardinality(A)
  <2>3. n \in Nat /\ n # 0 /\ Cardinality(B) = n - 1
    BY <1>2, <2>1, <2>2, FS_RemoveElement, FS_CardinalityType, FS_EmptySet
  <2>4. PICK s \in [1 .. n - 1 -> B] : Rising(s)
    BY <1>2, <2>2, <2>3
  <2> HIDE DEF n
  <2> DEFINE t == [i \in 1 .. n |-> IF i = n THEN x ELSE s[i]]
  <2>5. \A i \in 1 .. n : i # n => i \in 1 .. n - 1
    BY <2>3
  <2>6. t \in [1 .. n -> A]
    BY <2>2, <2>4, <2>5
  <2>7. \A y \in B : y < x
    BY <2>1, <2>2
  <2>8. ASSUME NEW i \in 1 .. n, NEW j \in 1 .. n, i < j PROVE t[i] < t[j]
    <3>1. i # n /\ i \in 1 .. n - 1 /\ s[i] \in B
      BY <2>3, <2>4, <2>8
    <3>2. CASE j = n
      BY <2>7, <2>8, <3>1, <3>2
    <3>3. CASE j # n
      <4>1. j \in 1 .. n - 1
        BY <2>5, <3>3
      <4> QED BY <2>4, <2>8, <3>1, <3>3, <4>1 DEF Rising
    <3> QED BY <3>2, <3>3
  <2>9. Rising(t)
    <3>1. DOMAIN t = 1 .. n
      OBVIOUS
    <3> HIDE DEF t
    <3> QED BY <2>8, <3>1, Zenon DEF Rising
  <2> HIDE DEF t
  <2> QED BY <2>6, <2>9, Zenon DEF n
<1>3. F \in T
  <2> HIDE DEF T
  <2> QED BY <1>1, <1>2, FiniteInduct
<1> QED BY <1>3

\* So the enumeration of the children has each of them once.
LEMMA AscendingIs ==
  ASSUME NEW F, IsFiniteSet(F), F \subseteq Nat
  PROVE  /\ Ascending(F) \in Seq(Nat) /\ Len(Ascending(F)) = Cardinality(F)
         /\ Cardinality(F) \in Nat
         /\ ToSet(Ascending(F)) = F
         /\ IsInjective(Ascending(F))
<1> DEFINE s == Ascending(F)
           n == Cardinality(F)
<1>1. s \in [1 .. n -> F] /\ \A i, j \in DOMAIN s : i < j => s[i] < s[j]
  BY RisingExists, Zenon DEF Ascending, Rising
<1>2. n \in Nat
  BY FS_CardinalityType
<1> HIDE DEF s, n
<1>3. s \in Seq(Nat) /\ Len(s) = n /\ DOMAIN s = 1 .. n
  <2>1. s \in [1 .. n -> Nat] /\ DOMAIN s = 1 .. n
    BY <1>1
  <2>2. s \in Seq(Nat)
    BY <1>2, <2>1
  <2> QED BY <1>2, <2>1, <2>2
<1>4. \A i, j \in DOMAIN s : s[i] = s[j] => i = j
  <2>1. \A i, j \in 1 .. n : i < j \/ i = j \/ j < i
    BY <1>2
  <2>2. \A i \in 1 .. n : s[i] \in Nat
    BY <1>1
  <2>3. \A i, j \in 1 .. n : i < j => s[i] # s[j]
    BY <1>1, <2>2
  <2> QED BY <1>3, <2>1, <2>3, Zenon
<1>5. s \in Injection(1 .. n, F)
  BY <1>1, <1>3, <1>4, Zenon DEF Injection, IsInjective
<1>6. Cardinality(1 .. n) = Cardinality(F)
  <2>1. Cardinality(1 .. n) = n
    BY <1>2, FS_Interval
  <2> QED BY <2>1 DEF n
<1>7. s \in Surjection(1 .. n, F)
  BY <1>5, <1>6, FS_Injection
<1>8. ToSet(s) = F
  BY <1>1, <1>3, <1>7 DEF Surjection, ToSet
<1>9. IsInjective(s)
  BY <1>4, Zenon DEF IsInjective
<1> QED BY <1>2, <1>3, <1>8, <1>9, Zenon DEF s, n

-----------------------------------------------------------------------------
(* The stages are sound                                                    *)

\* The root is a node of every rank.
LEMMA RootInAll ==
  ASSUME NEW g \in [Ranks -> InitialTrees], NEW k
  PROVE  Root \in All(g, k) /\ All(g, k) \subseteq Paths
<1>1. \A s \in Ranks : Root \in DOMAIN Base(g, k, s) /\ DOMAIN Base(g, k, s) \subseteq Paths
  BY BaseTree, Zenon DEF TimesTree, IsTree, Paths
<1> QED BY <1>1, RanksAre, Zenon DEF All

\* A round starts with a sound stage.
LEMMA StartingSound ==
  ASSUME NEW g \in [Ranks -> InitialTrees], NEW e \in Stages, NEW k, Starting(e, k)
  PROVE  Sound(g, e)
<1>1. /\ e.op = "totals" /\ e.node = Root /\ e.q = << >>
      /\ e.pushed = {Root} /\ e.visited = {Root}
  BY Zenon DEF Starting
<1>2. ToSet(e.q) = {} /\ IsInjective(e.q)
  BY <1>1 DEF ToSet, IsInjective
<1>3. Root \in All(g, e.round)
  BY RootInAll
<1>4. e.pushed = e.visited \cup ToSet(e.q) /\ e.visited \cap ToSet(e.q) = {}
      /\ e.pushed \ {Root} = {} /\ e.visited \ {e.node} = {} /\ e.pushed \subseteq All(g, e.round)
  BY <1>1, <1>2, <1>3
<1>5. e.op \notin {"count", "child"}
  BY <1>1
<1> QED BY <1>1, <1>2, <1>4, <1>5, Zenon DEF Sound

\* As long as only the node's own children are broadcast, a sound stage is
\* followed by sound ones: a node is left when no rank has children of it left.
LEMMA SoundStep ==
  ASSUME NEW g \in [Ranks -> InitialTrees], NEW d \in Stages, NEW e \in Stages,
         Sound(g, d), Goes(g, d, e),
         e.op = "child" => e.value \in Left(g, e.root, d)
  PROVE  Sound(g, e)
<1>1. /\ d.node \in Paths /\ d.q \in Seq(Paths) /\ d.pushed \subseteq Paths
      /\ d.visited \subseteq Paths /\ e.value \in Nat
  BY DEF Stages
<1>2. /\ Root \in d.pushed /\ d.pushed \subseteq All(g, d.round)
      /\ d.pushed = d.visited \cup ToSet(d.q) /\ d.visited \cap ToSet(d.q) = {}
      /\ IsInjective(d.q) /\ d.node \in d.visited
      /\ \A p \in d.pushed \ {Root} : Front(p) \in d.visited
      /\ \A s \in Ranks : \A p \in DOMAIN Base(g, d.round, s) \ {Root} :
           Front(p) \in d.visited \ {d.node} => p \in d.pushed
      /\ d.op \in {"count", "child"} => d.root \in Ranks
  BY Zenon DEF Sound
<1>3. ASSUME Waits(d, e), e.op # "totals", e.op \in {"count", "child"} => e.root \in Ranks
      PROVE  Sound(g, e)
  <2>1. /\ e.round = d.round /\ e.node = d.node /\ e.visited = d.visited
        /\ e.q = d.q /\ e.pushed = d.pushed
    BY <1>3, Zenon DEF Waits, SameNode
  <2> QED BY <1>2, <1>3, <2>1, Zenon DEF Sound
<1>4. ASSUME NEW root, Counts(d, e, root), root \in Ranks PROVE Sound(g, e)
  <2>1. e.op = "count" /\ e.root \in Ranks /\ Waits(d, e)
    BY <1>4, Zenon DEF Counts
  <2>2. e.op # "totals"
    BY <2>1
  <2> QED BY <1>3, <2>1, <2>2, Zenon
<1>5. CASE d.op = "totals" /\ Counts(d, e, 0)
  BY <1>4, <1>5, RanksAre, Zenon
<1>6. CASE d.op \in {"count", "child"} /\ d.left > 0 /\ Broadcasts(d, e)
  <2> DEFINE path == Append(d.node, e.value)
  <2>1. /\ e.op = "child" /\ e.root = d.root /\ e.round = d.round /\ e.node = d.node
        /\ e.visited = d.visited /\ e.q = Append(d.q, path) /\ e.pushed = d.pushed \cup {path}
    BY <1>6, Zenon DEF Broadcasts, SameNode
  <2>2. e.root \in Ranks
    BY <1>2, <1>6, <2>1, Zenon
  <2>3. e.value \in Left(g, e.root, d)
    BY <2>1
  <2>4. path \in DOMAIN Base(g, d.round, e.root) \ d.pushed
    BY <1>1, <1>2, <2>2, <2>3, LeftIs, Zenon
  <2>5. path \in Paths /\ Front(path) = d.node
    BY <1>1, AppendPath
  <2> HIDE DEF path
  <2>6. path \notin ToSet(d.q) /\ path \in All(g, d.round)
    BY <1>2, <2>2, <2>4, Zenon DEF All
  <2>7. ToSet(e.q) = ToSet(d.q) \cup {path} /\ IsInjective(e.q)
    <3>1. ToSet(Append(d.q, path)) = ToSet(d.q) \cup {path}
      BY <1>1, <2>5, ToSetAppend
    <3>2. IsInjective(Append(d.q, path)) <=> IsInjective(d.q) /\ path \notin ToSet(d.q)
      BY <1>1, <2>5, QueueAppend
    <3> QED BY <1>2, <2>1, <2>6, <3>1, <3>2, Zenon
  <2>8. /\ Root \in e.pushed /\ e.pushed \subseteq All(g, e.round)
        /\ e.pushed = e.visited \cup ToSet(e.q) /\ e.visited \cap ToSet(e.q) = {}
        /\ e.node \in e.visited
    BY <1>2, <2>1, <2>4, <2>6, <2>7
  <2>9. \A p \in e.pushed \ {Root} : Front(p) \in e.visited
    BY <1>2, <2>1, <2>5, Zenon
  <2>10. \A s \in Ranks : \A p \in DOMAIN Base(g, e.round, s) \ {Root} :
           Front(p) \in e.visited \ {e.node} => p \in e.pushed
    BY <1>2, <2>1, Zenon
  <2>11. e.op # "totals"
    BY <2>1
  <2> QED BY <2>2, <2>7, <2>8, <2>9, <2>10, <2>11, Zenon DEF Sound
<1>7. CASE /\ d.op \in {"count", "child"} /\ d.left = 0
           /\ e.op = "next" /\ e.root = comm_size /\ Waits(d, e)
  <2>1. e.op # "totals" /\ e.op \notin {"count", "child"}
    BY <1>7
  <2> QED BY <1>3, <1>7, <2>1, Zenon
<1>8. CASE d.op = "next" /\ Lowest(g, d) < comm_size /\ Counts(d, e, Lowest(g, d))
  BY <1>4, <1>8, LowestIs, Zenon
<1>9. CASE d.op = "next" /\ Lowest(g, d) = comm_size /\ d.q # << >> /\ Pops(d, e)
  <2> DEFINE h == Head(d.q)
             t == Tail(d.q)
  <2>1. /\ e.op = "totals" /\ e.round = d.round /\ e.node = h /\ e.q = t
        /\ e.pushed = d.pushed /\ e.visited = d.visited \cup {h}
    BY <1>9, Zenon DEF Pops
  <2>2. ToSet(d.q) = {h} \cup ToSet(t) /\ IsInjective(t) /\ h \notin ToSet(t)
    BY <1>1, <1>2, <1>9, QueueHead, Zenon
  <2> HIDE DEF h, t
  <2>3. h \notin d.visited
    BY <1>2, <2>2
  <2>4. /\ e.pushed = e.visited \cup ToSet(e.q) /\ e.visited \cap ToSet(e.q) = {}
        /\ e.node \in e.visited /\ e.visited \ {e.node} = d.visited
        /\ Root \in e.pushed /\ e.pushed \subseteq All(g, e.round)
    BY <1>2, <2>1, <2>2, <2>3
  <2>5. \A p \in e.pushed \ {Root} : Front(p) \in e.visited /\ Front(p) # e.node
    BY <1>2, <2>1, <2>3
  <2>6. ASSUME NEW s \in Ranks, NEW p \in DOMAIN Base(g, e.round, s) \ {Root},
               Front(p) \in e.visited \ {e.node}
        PROVE  p \in e.pushed
    <3>1. Front(p) \in d.visited
      BY <2>4, <2>6
    <3>2. CASE Front(p) # d.node
      BY <1>2, <2>1, <3>1, <3>2, Zenon
    <3>3. CASE Front(p) = d.node
      <4>1. Left(g, s, d) = {}
        BY <1>9, LowestIs
      <4>2. ASSUME p \notin d.pushed PROVE FALSE
        <5>1. Last(p) \in Left(g, s, d)
          BY <2>1, <3>3, <4>2, Zenon DEF Left
        <5> QED BY <4>1, <5>1
      <4> QED BY <2>1, <4>2
    <3> QED BY <3>2, <3>3
  <2>7. e.op \notin {"count", "child"}
    BY <2>1
  <2> QED BY <2>1, <2>2, <2>4, <2>5, <2>6, <2>7, Zenon DEF Sound
<1>10. CASE d.op = "next" /\ Lowest(g, d) = comm_size /\ d.q = << >> /\ d.round = 1 /\ Starting(e, 2)
  BY <1>10, StartingSound, Zenon
<1> QED BY <1>5, <1>6, <1>7, <1>8, <1>9, <1>10, Zenon DEF Goes

\* When the queue is empty and nobody has children left, all nodes were found:
\* from the root down, by the length of the path.
LEMMA AllFound ==
  ASSUME NEW g \in [Ranks -> InitialTrees], NEW e \in Stages, Sound(g, e),
         e.op = "next", Lowest(g, e) = comm_size, e.q = << >>
  PROVE  e.pushed = All(g, e.round) /\ e.visited = All(g, e.round)
<1>1. /\ Root \in e.pushed /\ e.pushed \subseteq All(g, e.round)
      /\ e.pushed = e.visited \cup ToSet(e.q)
      /\ \A s \in Ranks : \A p \in DOMAIN Base(g, e.round, s) \ {Root} :
           Front(p) \in e.visited \ {e.node} => p \in e.pushed
  BY Zenon DEF Sound
<1>2. ToSet(e.q) = {}
  BY DEF ToSet
<1>3. e.visited = e.pushed
  BY <1>1, <1>2
<1> DEFINE N == {n \in Nat : \A p \in All(g, e.round) : Len(p) = n => p \in e.pushed}
<1>4. All(g, e.round) \subseteq Seq(Nat)
  BY RootInAll DEF Paths
<1>5. 0 \in N
  <2>1. \A p \in All(g, e.round) : Len(p) = 0 => p = Root
    BY <1>4, EmptySeq DEF Root
  <2> QED BY <1>1, <2>1
<1>6. ASSUME NEW n \in Nat, n \in N PROVE n + 1 \in N
  <2>1. ASSUME NEW p \in All(g, e.round), Len(p) = n + 1 PROVE p \in e.pushed
    <3>1. PICK s \in Ranks : p \in DOMAIN Base(g, e.round, s)
      BY Zenon DEF All
    <3>2. p # << >> /\ p \in Seq(Nat)
      BY <1>4, <2>1
    <3>3. Front(p) \in DOMAIN Base(g, e.round, s)
      <4>1. TimesTree(Base(g, e.round, s))
        BY BaseTree
      <4> QED BY <3>1, <3>2, <4>1, Zenon DEF TimesTree, IsTree, Root
    <3>4. Len(Front(p)) = n
      <4>1. Len(Front(p)) = Len(p) - 1
        BY <3>2, FrontTyped
      <4> QED BY <2>1, <4>1
    <3>5. Front(p) \in e.pushed
      BY <1>6, <3>3, <3>4, Zenon DEF All
    <3>6. CASE Front(p) # e.node
      BY <1>1, <1>3, <3>1, <3>2, <3>5, <3>6 DEF Root
    <3>7. CASE Front(p) = e.node
      <4>1. Left(g, s, e) = {}
        BY LowestIs
      <4>2. ASSUME p \notin e.pushed PROVE FALSE
        <5>1. Last(p) \in Left(g, s, e)
          BY <3>1, <3>7, <4>2, Zenon DEF Left
        <5> QED BY <4>1, <5>1
      <4> QED BY <4>2
    <3> QED BY <3>6, <3>7
  <2> QED BY <2>1
<1>7. Nat \subseteq N
  <2> HIDE DEF N
  <2> QED BY <1>5, <1>6, NatInduct
<1>8. \A p \in All(g, e.round) : p \in e.pushed
  <2>1. \A p \in All(g, e.round) : Len(p) \in Nat
    BY <1>4
  <2> QED BY <1>7, <2>1
<1> QED BY <1>1, <1>3, <1>8

-----------------------------------------------------------------------------
(* Going along a traversal                                                 *)

\* What a step leaves alone of a rank.
Still(s) ==
  /\ round'[s] = round[s] /\ pc'[s] = pc[s] /\ tree'[s] = tree[s] /\ q'[s] = q[s]
  /\ node'[s] = node[s] /\ children_to_process'[s] = children_to_process[s]
  /\ bcast_rank'[s] = bcast_rank[s] /\ pending'[s] = pending[s]

\* The stage that the next collective of a rank leads to: the traversal has it,
\* or the rank is the first to get there.
NextStage(g, L, n, r, e) ==
  \/ n < Len(L) /\ e = L[n + 1]
  \/ /\ n = Len(L) /\ Sound(g, e)
     /\ n = 0 => Starting(e, 1)
     /\ n > 0 => Goes(g, L[n], e)
     /\ e.op \in {"count", "child"} => e.root = r

\* A rank that does not step stands where it stood.
LEMMA StandsStill ==
  ASSUME NEW g, NEW s, NEW e, Stands(g, s, e), Still(s)
  PROVE  Stands(g, s, e)'
<1>1. At(s, e) => At(s, e)'
  BY Zenon DEF Still, At
<1>2. Waiting(g, s, e) => Waiting(g, s, e)'
  BY Zenon DEF Still, Waiting
<1>3. TreeIs(g, s, e, e.visited) => TreeIs(g, s, e, e.visited)'
  BY Zenon DEF Still, TreeIs
<1>4. TreeIs(g, s, e, e.visited \ {e.node}) => TreeIs(g, s, e, e.visited \ {e.node})'
  BY Zenon DEF Still, TreeIs
<1>5. Done(g, s, e) => Done(g, s, e)'
  BY <1>1, <1>3, Zenon DEF Done
<1>6. InTotals(g, s, e) => InTotals(g, s, e)'
  BY <1>1, <1>4, Zenon DEF InTotals, Still
<1>7. HasTotals(g, s, e) => HasTotals(g, s, e)'
  BY <1>2, <1>5, Zenon DEF HasTotals, Still
<1>8. InChildren(g, s, e) => InChildren(g, s, e)'
  BY <1>2, <1>5, Zenon DEF InChildren, Still
<1>9. InNext(g, s, e) => InNext(g, s, e)'
  BY <1>2, <1>5, Zenon DEF InNext, Still
<1>10. HasNext(g, s, e) => HasNext(g, s, e)'
  BY <1>2, <1>5, Zenon DEF HasNext, Still
<1>11. HasNone(g, s, e) => HasNone(g, s, e)'
  BY <1>5, Zenon DEF HasNone, Still
<1>12. Again(g, s, e) => Again(g, s, e)'
  BY Zenon DEF Again, Starts, Still
<1> QED BY <1>6, <1>7, <1>8, <1>9, <1>10, <1>11, <1>12, Zenon DEF Stands

\* The ranks that do not step go along as before,
LEMMA FollowsStill ==
  ASSUME NEW g, NEW s, NEW L, Follows(g, s, L), Still(s), calls'[s] = calls[s]
  PROVE  Follows(g, s, L)'
<1>1. Starts(g, s, 1) => Starts(g, s, 1)'
  BY Zenon DEF Starts, Still
<1>2. Stands(g, s, L[Len(calls[s])]) => Stands(g, s, L[Len(calls[s])])'
  <2>1. PICK e : e = L[Len(calls[s])]
    OBVIOUS
  <2>2. e = L[Len(calls'[s])]
    BY <2>1
  <2>3. Stands(g, s, e) => Stands(g, s, e)'
    BY StandsStill
  <2> QED BY <2>1, <2>2, <2>3, Zenon
<1>3. (Len(calls[s]) > 0) <=> (Len(calls'[s]) > 0)
  OBVIOUS
<1> QED BY <1>1, <1>2, <1>3, Zenon DEF Follows

\* also when the traversal gets longer by another rank's stage.
LEMMA FollowsLonger ==
  ASSUME NEW g, NEW s, NEW L \in Seq(Stages), NEW e \in Stages, calls[s] \in Seq(Calls),
         Follows(g, s, L), e.op \in {"count", "child"} => e.root # s
  PROVE  Follows(g, s, Append(L, e))
<1> DEFINE K == Append(L, e)
           n == Len(calls[s])
<1>1. /\ Len(K) = Len(L) + 1 /\ K[Len(L) + 1] = e /\ \A i \in 1 .. Len(L) : K[i] = L[i]
      /\ Len(L) \in Nat
  BY AppendTyped
<1>2. n \in Nat
  OBVIOUS
<1> HIDE DEF K, n
<1>3. /\ n <= Len(L)
      /\ \A i \in 1 .. n : Matches(g, s, calls[s][i], L[i])
      /\ \A i \in 1 .. Len(L) : L[i].op \in {"count", "child"} /\ L[i].root = s => i <= n
      /\ n = 0 => Starts(g, s, 1)
      /\ n > 0 => Stands(g, s, L[n])
  BY Zenon DEF Follows, n
<1>4. \A i \in 1 .. n : i \in 1 .. Len(L)
  BY <1>1, <1>2, <1>3
<1>5. \A i \in 1 .. n : Matches(g, s, calls[s][i], K[i])
  <2>1. ASSUME NEW i \in 1 .. n PROVE Matches(g, s, calls[s][i], K[i])
    <3>1. K[i] = L[i] /\ Matches(g, s, calls[s][i], L[i])
      BY <1>1, <1>3, <1>4, Zenon
    <3> QED BY <3>1
  <2> QED BY <2>1
<1>6. \A i \in 1 .. Len(K) : K[i].op \in {"count", "child"} /\ K[i].root = s => i <= n
  <2>1. \A i \in 1 .. Len(K) : i \in 1 .. Len(L) \/ i = Len(L) + 1
    BY <1>1
  <2> QED BY <1>1, <1>3, <2>1, Zenon
<1>7. n <= Len(K)
  BY <1>1, <1>2, <1>3
<1>8. n > 0 => Stands(g, s, K[n])
  <2>1. n > 0 => n \in 1 .. Len(L)
    BY <1>1, <1>2, <1>3
  <2>2. n > 0 => K[n] = L[n]
    BY <1>1, <2>1, Zenon
  <2> QED BY <1>3, <2>2
<1> QED BY <1>3, <1>5, <1>6, <1>7, <1>8, Zenon DEF Follows, n, K

\* A sound stage that follows the last one extends the traversal.
LEMMA TraversalLonger ==
  ASSUME NEW g, NEW L, Traversal(g, L), NEW e \in Stages, Sound(g, e),
         Len(L) = 0 => Starting(e, 1), Len(L) > 0 => Goes(g, L[Len(L)], e)
  PROVE  Traversal(g, Append(L, e))
<1> DEFINE K == Append(L, e)
           n == Len(L)
<1>0. /\ L \in Seq(Stages) /\ \A i \in 1 .. n : Sound(g, L[i])
      /\ n > 0 => Starting(L[1], 1)
      /\ \A i \in 1 .. n - 1 : Goes(g, L[i], L[i + 1])
  BY Zenon DEF Traversal
<1>1. /\ Len(K) = n + 1 /\ K[n + 1] = e /\ \A i \in 1 .. n : K[i] = L[i]
      /\ n \in Nat /\ K \in Seq(Stages)
  BY <1>0, AppendTyped
<1> HIDE DEF K
<1>2. ASSUME NEW i \in 1 .. Len(K) PROVE Sound(g, K[i])
  <2>1. i \in 1 .. n \/ i = n + 1
    BY <1>1
  <2> QED BY <1>0, <1>1, <2>1, Zenon
<1>3. Starting(K[1], 1)
  <2>1. CASE n = 0
    <3>1. K[1] = e
      BY <1>1, <2>1
    <3> QED BY <2>1, <3>1
  <2>2. CASE n > 0
    <3>1. 1 \in 1 .. n
      BY <1>1, <2>2
    <3>2. K[1] = L[1]
      BY <1>1, <3>1, Zenon
    <3> QED BY <1>0, <2>2, <3>2
  <2> QED BY <1>1, <2>1, <2>2
<1>4. ASSUME NEW i \in 1 .. Len(K) - 1 PROVE Goes(g, K[i], K[i + 1])
  <2>1. i \in 1 .. n
    BY <1>1
  <2>2. CASE i = n
    <3>1. K[i] = L[n] /\ K[i + 1] = e /\ n > 0
      BY <1>1, <2>1, <2>2
    <3> QED BY <3>1
  <2>3. CASE i # n
    <3>1. i \in 1 .. n - 1 /\ i + 1 \in 1 .. n
      BY <1>1, <2>1, <2>3
    <3>2. K[i] = L[i] /\ K[i + 1] = L[i + 1]
      BY <1>1, <2>1, <3>1, Zenon
    <3>3. Goes(g, L[i], L[i + 1])
      BY <1>0, <3>1, Zenon
    <3> QED BY <3>2, <3>3
  <2> QED BY <2>2, <2>3
<1>5. Traversal(g, K)
  BY <1>1, <1>2, <1>3, <1>4, Zenon DEF Traversal
<1> QED BY <1>5 DEF K

\* A rank that enters its next collective goes one stage further.
LEMMA EnterStage ==
  ASSUME NEW g, NEW r \in Ranks, NEW L, Traversal(g, L),
         \A s \in Ranks : Follows(g, s, L),
         calls \in [Ranks -> Seq(Calls)], NEW c \in Calls,
         calls' = [calls EXCEPT ![r] = Append(@, c)],
         \A s \in Ranks \ {r} : Still(s),
         NEW e \in Stages, NextStage(g, L, Len(calls[r]), r, e),
         Matches(g, r, c, e), Stands(g, r, e)'
  PROVE  Core(g)' /\ calls' \in [Ranks -> Seq(Calls)]
<1> DEFINE n == Len(calls[r])
           K == IF n < Len(L) THEN L ELSE Append(L, e)
           after == calls'[r]
<1>1. calls[r] \in Seq(Calls) /\ n \in Nat /\ L \in Seq(Stages) /\ Len(L) \in Nat
  <2>1. L \in Seq(Stages)
    BY Zenon DEF Traversal
  <2> QED BY <2>1
<1>2. /\ after \in Seq(Calls) /\ Len(after) = n + 1 /\ after[n + 1] = c
      /\ \A i \in 1 .. n : after[i] = calls[r][i]
  <2>1. after = Append(calls[r], c)
    OBVIOUS
  <2> QED BY <1>1, <2>1, AppendTyped
<1>3. \A s \in Ranks \ {r} : calls'[s] = calls[s]
  OBVIOUS
<1>4. calls' \in [Ranks -> Seq(Calls)]
  BY <1>1, AppendTyped
<1>5. Follows(g, r, L)
  OBVIOUS
<1>6. /\ n <= Len(L)
      /\ \A i \in 1 .. n : Matches(g, r, calls[r][i], L[i])
      /\ \A i \in 1 .. Len(L) : L[i].op \in {"count", "child"} /\ L[i].root = r => i <= n
  BY <1>5, Zenon DEF Follows
<1>7. \/ n < Len(L) /\ e = L[n + 1]
      \/ /\ n = Len(L) /\ Sound(g, e)
         /\ n = 0 => Starting(e, 1)
         /\ n > 0 => Goes(g, L[n], e)
         /\ e.op \in {"count", "child"} => e.root = r
  BY Zenon DEF NextStage
<1>8. /\ Traversal(g, K) /\ n + 1 <= Len(K) /\ K[n + 1] = e
      /\ \A i \in 1 .. n : K[i] = L[i]
      /\ \A i \in 1 .. Len(K) : K[i].op \in {"count", "child"} /\ K[i].root = r => i <= n + 1
      /\ \A s \in Ranks \ {r} : Follows(g, s, K)
  <2>1. CASE n < Len(L)
    <3>0. n # Len(L)
      BY <1>1, <2>1
    <3>1. K = L /\ e = L[n + 1]
      BY <1>7, <2>1, <3>0, Zenon
    <3>2. n + 1 <= Len(L)
      BY <1>1, <2>1
    <3>3. \A i \in 1 .. Len(L) : i <= n => i <= n + 1
      BY <1>1
    <3> QED BY <1>6, <3>1, <3>2, <3>3, Zenon
  <2>2. CASE ~ (n < Len(L))
    <3>1. K = Append(L, e)
      BY <2>2
    <3>3. n > 0 => Goes(g, L[n], e)
      BY <1>7, <2>2, Zenon
    <3>4. e.op \in {"count", "child"} => e.root = r
      BY <1>7, <2>2, Zenon
    <3>5. n = Len(L) /\ Sound(g, e)
      BY <1>7, <2>2, Zenon
    <3>6. n = 0 => Starting(e, 1)
      BY <1>7, <2>2, Zenon
    <3>7. Traversal(g, K)
      BY <3>1, <3>3, <3>5, <3>6, TraversalLonger
    <3>8. Len(K) = n + 1 /\ K[n + 1] = e /\ \A i \in 1 .. n : K[i] = L[i]
      BY <1>1, <3>1, <3>5, AppendTyped
    <3>9. \A i \in 1 .. Len(K) : i <= n + 1
      BY <1>1, <3>8
    <3>10. \A s \in Ranks \ {r} : Follows(g, s, K)
      <4>1. ASSUME NEW s \in Ranks \ {r} PROVE Follows(g, s, Append(L, e))
        <5>1. e.op \in {"count", "child"} => e.root # s
          BY <3>4
        <5>2. calls[s] \in Seq(Calls) /\ Follows(g, s, L)
          OBVIOUS
        <5> QED BY <1>1, <5>1, <5>2, FollowsLonger
      <4> QED BY <3>1, <4>1
    <3>11. n + 1 <= Len(K)
      BY <1>1, <3>8
    <3> QED BY <3>7, <3>8, <3>9, <3>10, <3>11, Zenon
  <2> QED BY <2>1, <2>2
<1>9. PICK M : M = K
  OBVIOUS
<1>10. PICK m : m = n
  OBVIOUS
<1> HIDE DEF K, n, after
<1>11. \A s \in Ranks \ {r} : Follows(g, s, M)'
  <2>1. ASSUME NEW s \in Ranks \ {r} PROVE Follows(g, s, M)'
    <3>1. Follows(g, s, M) /\ Still(s) /\ calls'[s] = calls[s]
      BY <1>3, <1>8, <1>9, Zenon
    <3> QED BY <3>1, FollowsStill
  <2> QED BY <2>1
<1>12. Follows(g, r, M)'
  <2>1. Len(calls'[r]) = m + 1 /\ m \in Nat
    BY <1>1, <1>2, <1>10, Zenon DEF after
  <2>2. m + 1 <= Len(M) /\ M[m + 1] = e
    BY <1>8, <1>9, <1>10, Zenon
  <2>3. \A i \in 1 .. m + 1 : Matches(g, r, calls'[r][i], M[i])
    <3>1. ASSUME NEW i \in 1 .. m + 1 PROVE Matches(g, r, calls'[r][i], M[i])
      <4>1. CASE i = m + 1
        <5>1. calls'[r][i] = c /\ M[i] = e
          BY <1>2, <1>10, <2>2, <4>1, Zenon DEF after
        <5> QED BY <5>1
      <4>2. CASE i # m + 1
        <5>1. i \in 1 .. m
          BY <2>1, <4>2
        <5>2. calls'[r][i] = calls[r][i] /\ M[i] = L[i]
          BY <1>2, <1>8, <1>9, <1>10, <5>1, Zenon DEF after
        <5>3. Matches(g, r, calls[r][i], L[i])
          BY <1>6, <1>10, <5>1, Zenon
        <5> QED BY <5>2, <5>3
      <4> QED BY <4>1, <4>2
    <3> QED BY <3>1
  <2>4. \A i \in 1 .. Len(M) : M[i].op \in {"count", "child"} /\ M[i].root = r => i <= m + 1
    BY <1>8, <1>9, <1>10, Zenon
  <2>5. Len(calls'[r]) # 0
    BY <2>1
  <2>6. M[Len(calls'[r])] = e
    BY <2>1, <2>2, Zenon
  <2>7. Stands(g, r, M[Len(calls[r])])'
    BY <2>6, Zenon
  <2>8. Len(calls[r])' = m + 1
    BY <2>1
  <2> QED BY <2>1, <2>2, <2>3, <2>4, <2>5, <2>7, <2>8, Zenon DEF Follows
<1>13. Traversal(g, M) /\ \A s \in Ranks : Follows(g, s, M)'
  BY <1>8, <1>9, <1>11, <1>12, Zenon
<1> QED BY <1>4, <1>13, Zenon DEF Core

\* A rank that returns from one stays where it is on the traversal.
LEMMA LeaveStage ==
  ASSUME NEW g, NEW r \in Ranks, NEW L, Traversal(g, L),
         \A s \in Ranks : Follows(g, s, L), calls' = calls,
         \A s \in Ranks \ {r} : Still(s),
         Len(calls[r]) > 0, Stands(g, r, L[Len(calls[r])])', calls \in [Ranks -> Seq(Calls)]
  PROVE  Core(g)'
<1>1. \A s \in Ranks \ {r} : Follows(g, s, L)'
  <2>1. ASSUME NEW s \in Ranks \ {r} PROVE Follows(g, s, L)'
    BY <2>1, FollowsStill
  <2> QED BY <2>1
<1>2. Follows(g, r, L)'
  <2>1. Len(calls[r]) # 0 /\ Len(calls'[r]) = Len(calls[r])
    OBVIOUS
  <2>2. /\ Len(calls[r]) <= Len(L)
        /\ \A i \in 1 .. Len(calls[r]) : Matches(g, r, calls[r][i], L[i])
        /\ \A i \in 1 .. Len(L) : L[i].op \in {"count", "child"} /\ L[i].root = r => i <= Len(calls[r])
    BY Zenon DEF Follows
  <2> QED BY <2>1, <2>2, Zenon DEF Follows
<1> QED BY <1>1, <1>2, Zenon DEF Core

-----------------------------------------------------------------------------
(* The steps of a rank                                                     *)

\* What the step of a rank starts from.
LEMMA OnTheWay ==
  ASSUME NEW g, NEW r \in Ranks, NEW L, Traversal(g, L), Follows(g, r, L),
         calls \in [Ranks -> Seq(Calls)]
  PROVE  LET n == Len(calls[r])
         IN /\ n \in Nat /\ Len(L) \in Nat /\ n <= Len(L)
            /\ n = 0 => Starts(g, r, 1)
            /\ n > 0 => L[n] \in Stages /\ Sound(g, L[n]) /\ Stands(g, r, L[n])
            /\ n < Len(L) => L[n + 1] \in Stages /\ Sound(g, L[n + 1])
            /\ n < Len(L) /\ n > 0 => Goes(g, L[n], L[n + 1])
            /\ n < Len(L) /\ n = 0 => Starting(L[n + 1], 1)
            /\ n < Len(L) => ~ (L[n + 1].op \in {"count", "child"} /\ L[n + 1].root = r)
<1> DEFINE n == Len(calls[r])
<1>1. L \in Seq(Stages) /\ calls[r] \in Seq(Calls)
  BY Zenon DEF Traversal
<1>2. n \in Nat /\ Len(L) \in Nat
  BY <1>1
<1> HIDE DEF n
<1>3. /\ n <= Len(L)
      /\ \A i \in 1 .. Len(L) : L[i].op \in {"count", "child"} /\ L[i].root = r => i <= n
      /\ n = 0 => Starts(g, r, 1)
      /\ n > 0 => Stands(g, r, L[n])
  BY Zenon DEF Follows, n
<1>4. /\ \A i \in 1 .. Len(L) : Sound(g, L[i])
      /\ Len(L) > 0 => Starting(L[1], 1)
      /\ \A i \in 1 .. Len(L) - 1 : Goes(g, L[i], L[i + 1])
  BY Zenon DEF Traversal
<1>5. \A i \in 1 .. Len(L) : L[i] \in Stages
  BY <1>1
<1>6. n > 0 => n \in 1 .. Len(L)
  BY <1>2, <1>3
<1>7. n < Len(L) => n + 1 \in 1 .. Len(L) /\ ~ (n + 1 <= n) /\ (n > 0 => n \in 1 .. Len(L) - 1)
  BY <1>2
<1>8. n < Len(L) /\ n = 0 => Len(L) > 0 /\ n + 1 = 1
  BY <1>2
<1>9. n > 0 => L[n] \in Stages /\ Sound(g, L[n]) /\ Stands(g, r, L[n])
  BY <1>3, <1>4, <1>5, <1>6, Zenon
<1>10. n < Len(L) => L[n + 1] \in Stages /\ Sound(g, L[n + 1])
  BY <1>4, <1>5, <1>7, Zenon
<1>11. n < Len(L) /\ n > 0 => Goes(g, L[n], L[n + 1])
  BY <1>4, <1>7, Zenon
<1>12. n < Len(L) /\ n = 0 => Starting(L[n + 1], 1)
  BY <1>4, <1>8, Zenon
<1>13. n < Len(L) => ~ (L[n + 1].op \in {"count", "child"} /\ L[n + 1].root = r)
  BY <1>3, <1>7, Zenon
<1> QED BY <1>2, <1>3, <1>9, <1>10, <1>11, <1>12, <1>13, Zenon DEF n

\* A stage determines what may follow it.
LEMMA GoesOn ==
  ASSUME NEW g, NEW d \in Stages, NEW e, Goes(g, d, e)
  PROVE  /\ d.op = "totals" => Counts(d, e, 0)
         /\ d.op \in {"count", "child"} /\ d.left > 0 => Broadcasts(d, e)
         /\ d.op \in {"count", "child"} /\ d.left = 0 =>
              e.op = "next" /\ e.root = comm_size /\ Waits(d, e)
         /\ d.op = "next" /\ Lowest(g, d) < comm_size => Counts(d, e, Lowest(g, d))
         /\ d.op = "next" /\ Lowest(g, d) = comm_size /\ d.q # << >> => Pops(d, e)
         /\ d.op = "next" /\ Lowest(g, d) = comm_size /\ d.q = << >> => Starting(e, 2)
<1>1. /\ "totals" # "count" /\ "totals" # "child" /\ "totals" # "next"
      /\ "next" # "count" /\ "next" # "child"
  OBVIOUS
<1>2. ~ (Lowest(g, d) < comm_size /\ Lowest(g, d) = comm_size)
  BY LowestIs, RanksAre
<1>3. ~ (d.left > 0 /\ d.left = 0)
  OBVIOUS
<1> QED BY <1>1, <1>2, <1>3, Zenon DEF Goes

\* Only the rank that steps changes.
LEMMA OthersStill ==
  ASSUME NEW r \in Ranks, Step(r), Types
  PROVE  /\ \A s \in Ranks \ {r} : Still(s)
         /\ given' = given
<1>1. /\ DOMAIN round = Ranks /\ DOMAIN pc = Ranks /\ DOMAIN tree = Ranks /\ DOMAIN q = Ranks
      /\ DOMAIN node = Ranks /\ DOMAIN children_to_process = Ranks
      /\ DOMAIN bcast_rank = Ranks /\ DOMAIN pending = Ranks
  BY DEF Types
<1>2. CASE PopNode(r)
  BY <1>1, <1>2 DEF PopNode, Goto, Still
<1>3. CASE FinishTotals(r)
  BY <1>1, <1>3 DEF FinishTotals, Goto, Still
<1>4. CASE SendCount(r)
  BY <1>1, <1>4 DEF SendCount, Goto, Still
<1>5. CASE RecvCount(r)
  BY <1>1, <1>5 DEF RecvCount, Goto, Still
<1>6. CASE SendChild(r)
  BY <1>1, <1>6 DEF SendChild, PushChild, Goto, Still
<1>7. CASE RecvChild(r)
  BY <1>1, <1>7 DEF RecvChild, PushChild, Goto, Still
<1>8. CASE ProposeNext(r)
  BY <1>1, <1>8 DEF ProposeNext, Goto, Still
<1>9. CASE FinishNext(r)
  BY <1>1, <1>9 DEF FinishNext, Goto, Still
<1>10. CASE Invert(r)
  BY <1>1, <1>10 DEF Invert, Goto, Still
<1> QED BY <1>2, <1>3, <1>4, <1>5, <1>6, <1>7, <1>8, <1>9, <1>10 DEF Step

\* The place of a rank says which stage it has come to.
LEMMA PlaceOf ==
  ASSUME NEW g, NEW r \in Ranks, NEW e, Stands(g, r, e)
  PROVE  /\ pc[r] = "totals" => InTotals(g, r, e)
         /\ pc[r] = "count" => HasTotals(g, r, e) \/ HasNext(g, r, e)
         /\ pc[r] = "child" => InChildren(g, r, e)
         /\ pc[r] = "next" => InNext(g, r, e)
         /\ pc[r] = "pop" => (HasNone(g, r, e) /\ q[r] # << >>) \/ Again(g, r, e)
         /\ pc[r] = "reduced" => HasNone(g, r, e) /\ q[r] = << >>
<1>1. InTotals(g, r, e) => pc[r] = "totals"
  BY Zenon DEF InTotals
<1>2. HasTotals(g, r, e) \/ HasNext(g, r, e) => pc[r] = "count"
  BY Zenon DEF HasTotals, HasNext
<1>3. InChildren(g, r, e) => pc[r] = "child"
  BY Zenon DEF InChildren
<1>4. InNext(g, r, e) => pc[r] = "next"
  BY Zenon DEF InNext
<1>5. HasNone(g, r, e) => IF q[r] # << >> THEN pc[r] = "pop" ELSE pc[r] = "reduced"
  BY Zenon DEF HasNone
<1>6. Again(g, r, e) => pc[r] = "pop"
  BY Zenon DEF Again, Starts
<1> QED BY <1>1, <1>2, <1>3, <1>4, <1>5, <1>6 DEF Stands

\* The tree at the start of a round.
LEMMA StartingTree ==
  ASSUME NEW g \in [Ranks -> InitialTrees], NEW r \in Ranks, NEW k, NEW e \in Stages,
         Starting(e, k), Starts(g, r, k)
  PROVE  TreeIs(g, r, e, e.visited \ {e.node})
<1>1. e.round = k /\ e.visited \ {e.node} = {} /\ e.pushed = {Root}
  BY DEF Starting
<1>2. tree[r] = Nodes(Base(g, k, r))
  BY Zenon DEF Starts
<1>3. Root \in DOMAIN Base(g, k, r)
  BY BaseTree DEF TimesTree, IsTree
<1>4. DOMAIN tree[r] = DOMAIN Base(g, k, r) /\ \A p \in DOMAIN tree[r] : tree[r][p].total = Base(g, k, r)[p]
  BY <1>2 DEF Nodes
<1>5. DOMAIN tree[r] = DOMAIN Base(g, e.round, r) \cup e.pushed
  BY <1>1, <1>3, <1>4
<1>6. \A p \in DOMAIN tree[r] : tree[r][p].total = Own(g, e.round, r, p)
  BY <1>1, <1>4, Zenon DEF Own
<1>7. \A p : p \notin e.visited \ {e.node}
  BY <1>1
<1> QED BY <1>5, <1>6, <1>7, Zenon DEF TreeIs

\* The first stage of a round.
FirstStage(k) ==
  [round |-> k, op |-> "totals", root |-> comm_size, node |-> Root, value |-> 0, q |-> << >>,
   left |-> 0, pushed |-> {Root}, visited |-> {Root}]

\* It is a stage, and a round can start with it.
LEMMA FirstStageIs ==
  ASSUME NEW k \in {1, 2}
  PROVE  FirstStage(k) \in Stages /\ Starting(FirstStage(k), k)
<1>1. Root \in Paths /\ << >> \in Seq(Paths) /\ comm_size \in Nat /\ "totals" \in Ops
  BY RanksAre DEF Root, Paths, Ops
<1> QED BY <1>1 DEF FirstStage, Stages, Starting

\* A rank that takes a node from its queue comes to the stage of that node.
LEMMA PopStage ==
  ASSUME NEW g \in [Ranks -> InitialTrees], NEW r \in Ranks, NEW L, Traversal(g, L),
         Follows(g, r, L), Types, pc[r] = "pop"
  PROVE  \E e \in Stages :
           /\ NextStage(g, L, Len(calls[r]), r, e) /\ Sound(g, e)
           /\ e.op = "totals" /\ e.root = comm_size /\ e.round = round[r]
           /\ q[r] # << >> /\ e.node = Head(q[r]) /\ e.q = Tail(q[r])
           /\ TreeIs(g, r, e, e.visited \ {e.node})
<1> DEFINE n == Len(calls[r])
           d == L[n]
<1>1. /\ n \in Nat /\ Len(L) \in Nat /\ n <= Len(L)
      /\ n = 0 => Starts(g, r, 1)
      /\ n > 0 => d \in Stages /\ Sound(g, d) /\ Stands(g, r, d)
      /\ n < Len(L) => L[n + 1] \in Stages /\ Sound(g, L[n + 1])
      /\ n < Len(L) /\ n > 0 => Goes(g, d, L[n + 1])
      /\ n < Len(L) /\ n = 0 => Starting(L[n + 1], 1)
  <2>1. calls \in [Ranks -> Seq(Calls)]
    BY Zenon DEF Types
  <2> QED BY <2>1, OnTheWay, Zenon
<1> HIDE DEF n, d
<1>2. n < Len(L) \/ n = Len(L)
  BY <1>1
<1>3. ASSUME NEW k \in {1, 2}, NEW e \in Stages, Starts(g, r, k), Starting(e, k)
      PROVE  /\ e.op = "totals" /\ e.root = comm_size /\ e.round = round[r]
             /\ q[r] # << >> /\ e.node = Head(q[r]) /\ e.q = Tail(q[r])
             /\ TreeIs(g, r, e, e.visited \ {e.node})
             /\ Sound(g, e)
  <2>1. q[r] = <<Root>> /\ round[r] = k
    BY <1>3, Zenon DEF Starts
  <2>2. q[r] # << >> /\ Head(q[r]) = Root /\ Tail(q[r]) = << >>
    BY <2>1
  <2>3. e.op = "totals" /\ e.root = comm_size /\ e.round = k /\ e.node = Root /\ e.q = << >>
    BY <1>3, Zenon DEF Starting
  <2>4. TreeIs(g, r, e, e.visited \ {e.node}) /\ Sound(g, e)
    BY <1>3, StartingTree, StartingSound
  <2> QED BY <2>1, <2>2, <2>3, <2>4, Zenon
<1>4. ASSUME NEW k \in {1, 2}, Starts(g, r, k),
             n = 0 => k = 1,
             n > 0 /\ n < Len(L) => Starting(L[n + 1], k),
             n > 0 => \A e : Starting(e, k) => Goes(g, d, e)
      PROVE  \E e \in Stages : NextStage(g, L, n, r, e) /\ Starting(e, k)
  <2>1. CASE n < Len(L)
    <3>1. n = 0 \/ n > 0
      BY <1>1
    <3>2. Starting(L[n + 1], k)
      BY <1>1, <1>4, <2>1, <3>1, Zenon
    <3>3. L[n + 1] \in Stages
      BY <1>1, <2>1, Zenon
    <3> QED BY <2>1, <3>2, <3>3, Zenon DEF NextStage
  <2>2. CASE n = Len(L)
    <3>1. PICK e \in Stages : Starting(e, k)
      BY FirstStageIs
    <3>2. Sound(g, e)
      BY <3>1, StartingSound
    <3>3. e.op \notin {"count", "child"}
      BY <3>1 DEF Starting
    <3>4. n > 0 => Goes(g, L[n], e)
      BY <1>4, <3>1, Zenon DEF d
    <3>5. n = 0 => Starting(e, 1)
      BY <1>4, <3>1, Zenon
    <3> QED BY <2>2, <3>1, <3>2, <3>3, <3>4, <3>5, Zenon DEF NextStage
  <2> QED BY <1>2, <2>1, <2>2
<1>5. CASE n = 0
  <2>1. Starts(g, r, 1) /\ ~ (n > 0)
    BY <1>1, <1>5
  <2>2. PICK e \in Stages : NextStage(g, L, n, r, e) /\ Starting(e, 1)
    BY <1>4, <2>1
  <2> QED BY <1>3, <2>1, <2>2, Zenon DEF n
<1>6. CASE n > 0 /\ Again(g, r, d)
  <2>1. Starts(g, r, 2) /\ d.op = "next" /\ Lowest(g, d) = comm_size /\ d.q = << >> /\ d.round = 1
    BY <1>6, Zenon DEF Again
  <2>2. \A e : Starting(e, 2) => Goes(g, d, e)
    BY <2>1, Zenon DEF Goes
  <2>3. n < Len(L) => Starting(L[n + 1], 2)
    BY <1>1, <1>6, <2>1, GoesOn, Zenon
  <2>4. n # 0
    BY <1>6
  <2>5. PICK e \in Stages : NextStage(g, L, n, r, e) /\ Starting(e, 2)
    BY <1>4, <2>1, <2>2, <2>3, <2>4
  <2> QED BY <1>3, <2>1, <2>5, Zenon DEF n
<1>7. CASE n > 0 /\ HasNone(g, r, d) /\ q[r] # << >>
  <2>1. /\ d.op = "next" /\ Lowest(g, d) = comm_size
        /\ round[r] = d.round /\ q[r] = d.q /\ TreeIs(g, r, d, d.visited)
    BY <1>7, Zenon DEF HasNone, Done, At
  <2>2. d \in Stages /\ Sound(g, d)
    BY <1>1, <1>7
  <2>3. \E e \in Stages : NextStage(g, L, n, r, e) /\ Pops(d, e) /\ Sound(g, e)
    <3>1. CASE n < Len(L)
      <4>1. Goes(g, d, L[n + 1]) /\ L[n + 1] \in Stages /\ Sound(g, L[n + 1])
        BY <1>1, <1>7, <3>1
      <4>2. Pops(d, L[n + 1])
        BY <1>7, <2>1, <2>2, <4>1, GoesOn, Zenon
      <4> QED BY <3>1, <4>1, <4>2, Zenon DEF NextStage
    <3>2. CASE n = Len(L)
      <4> DEFINE e == [round |-> d.round, op |-> "totals", root |-> comm_size, node |-> Head(d.q),
                       value |-> 0, q |-> Tail(d.q), left |-> 0, pushed |-> d.pushed,
                       visited |-> d.visited \cup {Head(d.q)}]
      <4>1. d.q \in Seq(Paths) /\ d.q # << >> /\ d.round \in {1, 2}
            /\ d.pushed \subseteq Paths /\ d.visited \subseteq Paths
        BY <1>7, <2>1, <2>2 DEF Stages
      <4>2. Head(d.q) \in Paths /\ Tail(d.q) \in Seq(Paths)
        BY <4>1, QueueHead
      <4>3. e \in Stages
        BY <4>1, <4>2, RanksAre DEF Stages, Ops
      <4>4. Pops(d, e) /\ e.op = "totals"
        BY DEF Pops
      <4> HIDE DEF e
      <4>5. Goes(g, d, e)
        BY <2>1, <4>1, <4>4, Zenon DEF Goes
      <4>6. e.op \notin {"count", "child"} /\ e.op # "child"
        BY <4>4
      <4>7. Sound(g, e)
        BY <2>2, <4>3, <4>5, <4>6, SoundStep
      <4>8. n # 0
        BY <1>7
      <4>9. NextStage(g, L, n, r, e)
        BY <3>2, <4>5, <4>6, <4>7, <4>8, Zenon DEF NextStage, d
      <4> QED BY <4>3, <4>4, <4>7, <4>9
    <3> QED BY <1>2, <3>1, <3>2
  <2>4. PICK e \in Stages : NextStage(g, L, n, r, e) /\ Pops(d, e) /\ Sound(g, e)
    BY <2>3, Zenon
  <2>5. /\ e.op = "totals" /\ e.root = comm_size /\ e.round = d.round
        /\ e.node = Head(d.q) /\ e.q = Tail(d.q)
        /\ e.pushed = d.pushed /\ e.visited = d.visited \cup {Head(d.q)}
    BY <2>4, Zenon DEF Pops
  <2>6. Head(d.q) \notin d.visited
    <3>1. d.q \in Seq(Paths) /\ d.q # << >>
      BY <1>7, <2>1, <2>2 DEF Stages
    <3>2. Head(d.q) \in ToSet(d.q)
      BY <3>1, QueueHead
    <3>3. d.visited \cap ToSet(d.q) = {}
      BY <2>2, Zenon DEF Sound
    <3> QED BY <3>2, <3>3
  <2>7. e.visited \ {e.node} = d.visited
    BY <2>5, <2>6
  <2>8. TreeIs(g, r, e, d.visited)
    BY <2>1, <2>5, Zenon DEF TreeIs
  <2>9. TreeIs(g, r, e, e.visited \ {e.node})
    BY <2>7, <2>8
  <2> QED BY <1>7, <2>1, <2>4, <2>5, <2>9, Zenon DEF n
<1>8. n > 0 => (HasNone(g, r, d) /\ q[r] # << >>) \/ Again(g, r, d)
  BY <1>1, PlaceOf, Zenon
<1>9. n = 0 \/ n > 0
  BY <1>1
<1> QED BY <1>5, <1>6, <1>7, <1>8, <1>9, Zenon

\* The invariant with its witnesses.
On(g, L) ==
  /\ g \in [Ranks -> InitialTrees] /\ g = given
  /\ Types /\ Reductions
  /\ Traversal(g, L) /\ \A s \in Ranks : Follows(g, s, L)

\* The parts of the invariant, after a step, make it.
LEMMA KeepsMInv ==
  ASSUME NEW g, g = given, given' = given, Types', Reductions', Core(g)'
  PROVE  MInv'
<1>1. g = given'
  OBVIOUS
<1> QED BY <1>1, Zenon DEF MInv

\* Steps within a round keep the results of the first one.
LEMMA SameReductions ==
  ASSUME given' = given, round' = round, reduced' = reduced, Reductions
  PROVE  Reductions'
<1>1. \A r \in Ranks : HasResult(r) => HasResult(r)'
  BY Zenon DEF HasResult
<1> QED BY <1>1, Zenon DEF Reductions

\* A rank takes the next node of its queue: the others have the same queue, or
\* will.
LEMMA PopNodeMInv ==
  ASSUME NEW g, NEW L, On(g, L), NEW r \in Ranks, PopNode(r)
  PROVE  MInv'
<1>1. /\ g \in [Ranks -> InitialTrees] /\ g = given /\ Types /\ Reductions /\ Traversal(g, L)
      /\ \A s \in Ranks : Follows(g, s, L)
  BY Zenon DEF On
<1>2. given' = given /\ \A s \in Ranks \ {r} : Still(s)
  BY <1>1, OthersStill, Zenon DEF Step
<1>3. /\ pc[r] = "pop" /\ pc' = [pc EXCEPT ![r] = "totals"]
      /\ node' = [node EXCEPT ![r] = Head(q[r])] /\ q' = [q EXCEPT ![r] = Tail(@)]
      /\ Enter(r, "totals", comm_size, tree[r][Head(q[r])].total)
      /\ round' = round /\ tree' = tree /\ reduced' = reduced /\ bcast_rank' = bcast_rank
      /\ children_to_process' = children_to_process /\ pending' = pending
  BY Zenon DEF PopNode, Goto
<1>4. PICK e \in Stages :
           /\ NextStage(g, L, Len(calls[r]), r, e) /\ Sound(g, e)
           /\ e.op = "totals" /\ e.root = comm_size /\ e.round = round[r]
           /\ q[r] # << >> /\ e.node = Head(q[r]) /\ e.q = Tail(q[r])
           /\ TreeIs(g, r, e, e.visited \ {e.node})
  BY <1>1, <1>3, PopStage, Zenon
<1>5. /\ DOMAIN pc = Ranks /\ DOMAIN node = Ranks /\ DOMAIN q = Ranks
      /\ q[r] \in Seq(Paths) /\ calls \in [Ranks -> Seq(Calls)]
  BY <1>1 DEF Types
<1>6. pc'[r] = "totals" /\ node'[r] = Head(q[r]) /\ q'[r] = Tail(q[r])
  BY <1>3, <1>5
<1>7. Head(q[r]) \in Paths /\ Tail(q[r]) \in Seq(Paths)
  BY <1>4, <1>5, QueueHead
<1>8. tree[r][e.node].total = Own(g, e.round, r, e.node)
  <2>1. e.node \in DOMAIN tree[r]
    BY <1>4 DEF Sound, TreeIs
  <2>2. e.node \notin e.visited \ {e.node}
    OBVIOUS
  <2> QED BY <1>4, <2>1, <2>2, Zenon DEF TreeIs
<1> DEFINE c == [op |-> "totals", root |-> comm_size, node |-> node'[r],
                 value |-> tree[r][Head(q[r])].total]
<1>9. c \in Calls
  <2>1. tree[r][Head(q[r])].total \in Nat
    BY <1>1, <1>4, <1>8, OwnTyped
  <2> QED BY <1>6, <1>7, <2>1, RanksAre DEF Calls, Ops
<1>10. calls' = [calls EXCEPT ![r] = Append(@, c)]
  BY <1>3, Zenon DEF Enter
<1>11. Matches(g, r, c, e)
  <2>1. c.op = e.op /\ c.root = e.root /\ c.node = e.node /\ c.value = Own(g, e.round, r, e.node)
    BY <1>4, <1>6, <1>8
  <2>2. e.op \notin {"count", "child"} /\ e.op # "next"
    BY <1>4
  <2> QED BY <2>1, <2>2, Zenon DEF Matches
<1>12. Stands(g, r, e)'
  <2>1. At(r, e)'
    BY <1>3, <1>4, <1>6, Zenon DEF At
  <2>2. TreeIs(g, r, e, e.visited \ {e.node})'
    BY <1>3, <1>4, Zenon DEF TreeIs
  <2>3. InTotals(g, r, e)'
    BY <1>4, <1>6, <2>1, <2>2, Zenon DEF InTotals
  <2> QED BY <2>3, Zenon DEF Stands
<1> HIDE DEF c
<1>13. Core(g)' /\ calls' \in [Ranks -> Seq(Calls)]
  BY <1>1, <1>2, <1>4, <1>5, <1>9, <1>10, <1>11, <1>12, EnterStage
<1>14. Types'
  BY <1>1, <1>2, <1>3, <1>7, <1>13 DEF Types
<1>15. Reductions'
  BY <1>1, <1>2, <1>3, SameReductions
<1> QED BY <1>1, <1>2, <1>13, <1>14, <1>15, KeepsMInv

\* A rank that is not about to take a node has come to a stage.
LEMMA StageOf ==
  ASSUME NEW g, NEW L, On(g, L), NEW r \in Ranks, pc[r] # "pop"
  PROVE  LET n == Len(calls[r])
         IN /\ n \in Nat /\ n > 0 /\ n <= Len(L) /\ Len(L) \in Nat
            /\ L[n] \in Stages /\ Sound(g, L[n]) /\ Stands(g, r, L[n])
            /\ n < Len(L) => /\ L[n + 1] \in Stages /\ Sound(g, L[n + 1]) /\ Goes(g, L[n], L[n + 1])
                             /\ ~ (L[n + 1].op \in {"count", "child"} /\ L[n + 1].root = r)
<1>1. /\ Traversal(g, L) /\ Follows(g, r, L) /\ calls \in [Ranks -> Seq(Calls)]
  BY Zenon DEF On, Types
<1> DEFINE n == Len(calls[r])
<1>2. /\ n \in Nat /\ Len(L) \in Nat /\ n <= Len(L)
      /\ n = 0 => Starts(g, r, 1)
      /\ n > 0 => L[n] \in Stages /\ Sound(g, L[n]) /\ Stands(g, r, L[n])
      /\ n < Len(L) => L[n + 1] \in Stages /\ Sound(g, L[n + 1])
      /\ n < Len(L) /\ n > 0 => Goes(g, L[n], L[n + 1])
      /\ n < Len(L) => ~ (L[n + 1].op \in {"count", "child"} /\ L[n + 1].root = r)
  BY <1>1, OnTheWay, Zenon
<1> HIDE DEF n
<1>3. n # 0
  BY <1>2, Zenon DEF Starts
<1>4. n > 0
  BY <1>2, <1>3
<1> QED BY <1>2, <1>4, Zenon DEF n

\* When all ranks have entered a reduction, each gave what the stage asks for.
LEMMA AllMatch ==
  ASSUME NEW g, NEW L, On(g, L), NEW r \in Ranks, AllEntered(r), Len(calls[r]) > 0
  PROVE  \A s \in Ranks : Matches(g, s, calls[s][Len(calls[r])], L[Len(calls[r])])
<1> DEFINE n == Len(calls[r])
<1>1. calls \in [Ranks -> Seq(Calls)]
  BY Zenon DEF On, Types
<1>2. ASSUME NEW s \in Ranks PROVE Matches(g, s, calls[s][n], L[n])
  <2>1. Len(calls[s]) >= n /\ n \in Nat /\ Len(calls[s]) \in Nat /\ n > 0
    BY <1>1 DEF AllEntered
  <2> HIDE DEF n
  <2>2. n \in 1 .. Len(calls[s])
    BY <2>1
  <2>3. Follows(g, s, L)
    BY Zenon DEF On
  <2> QED BY <2>2, <2>3, Zenon DEF Follows
<1> QED BY <1>2

\* What a rank receives is what the traversal says of the next stage.
LEMMA FromRootIs ==
  ASSUME NEW g, NEW L, On(g, L), NEW r \in Ranks, bcast_rank[r] \in Ranks, RootEntered(r)
  PROVE  /\ Len(calls[r]) < Len(L)
         /\ L[Len(calls[r]) + 1].op \in {"count", "child"} =>
              FromRoot(r) = L[Len(calls[r]) + 1].value
<1> DEFINE n == Len(calls[r])
           b == bcast_rank[r]
<1>1. calls \in [Ranks -> Seq(Calls)] /\ Follows(g, b, L) /\ L \in Seq(Stages)
  BY Zenon DEF On, Types, Traversal
<1>2. Len(calls[b]) > n /\ n \in Nat /\ Len(calls[b]) \in Nat /\ Len(L) \in Nat
  BY <1>1 DEF RootEntered
<1>3. Len(calls[b]) <= Len(L) /\ \A i \in 1 .. Len(calls[b]) : Matches(g, b, calls[b][i], L[i])
  BY <1>1, Zenon DEF Follows
<1>4. FromRoot(r) = calls[b][n + 1].value
  BY Zenon DEF FromRoot
<1> HIDE DEF n, b
<1>5. n < Len(L) /\ n + 1 \in 1 .. Len(calls[b])
  BY <1>2, <1>3
<1>6. Matches(g, b, calls[b][n + 1], L[n + 1])
  BY <1>3, <1>5
<1> QED BY <1>4, <1>5, <1>6, Zenon DEF Matches, n

\* A rank leaves the reduction of a node with the sum and the maximum of all.
LEMMA FinishTotalsMInv ==
  ASSUME NEW g, NEW L, On(g, L), NEW r \in Ranks, FinishTotals(r)
  PROVE  MInv'
<1>1. /\ g \in [Ranks -> InitialTrees] /\ g = given /\ Types /\ Reductions /\ Traversal(g, L)
      /\ \A s \in Ranks : Follows(g, s, L)
  BY Zenon DEF On
<1>2. given' = given /\ \A s \in Ranks \ {r} : Still(s)
  BY <1>1, OthersStill, Zenon DEF Step
<1>0. PICK n, e, p0 : n = Len(calls[r]) /\ e = L[n] /\ p0 = node[r]
  OBVIOUS
<1> DEFINE w == [total |-> SumOver(Contributions(r), Ranks),
                 max   |-> Max({Contributions(r)[s] : s \in Ranks})]
<1>3. /\ pc[r] = "totals" /\ pc' = [pc EXCEPT ![r] = "count"] /\ AllEntered(r)
      /\ tree' = [tree EXCEPT ![r][p0] = w]
      /\ children_to_process' = [children_to_process EXCEPT ![r] =
            {Last(c) : c \in ChildrenOf(DOMAIN tree[r], p0)}]
      /\ bcast_rank' = [bcast_rank EXCEPT ![r] = 0]
      /\ round' = round /\ reduced' = reduced /\ q' = q /\ node' = node
      /\ pending' = pending /\ calls' = calls
  BY <1>0, Zenon DEF FinishTotals, Goto
<1>4. n > 0 /\ e \in Stages /\ Sound(g, e) /\ InTotals(g, r, e)
  <2>1. pc[r] # "pop"
    BY <1>3
  <2>2. n > 0 /\ e \in Stages /\ Sound(g, e) /\ Stands(g, r, e)
    BY <1>0, <2>1, StageOf, Zenon
  <2> QED BY <1>3, <2>2, PlaceOf, Zenon
<1>5. /\ e.op = "totals" /\ round[r] = e.round /\ p0 = e.node /\ q[r] = e.q
      /\ TreeIs(g, r, e, e.visited \ {e.node})
  BY <1>0, <1>4, Zenon DEF InTotals, At
<1>6. \A s \in Ranks : Matches(g, s, calls[s][n], e)
  BY <1>0, <1>3, <1>4, AllMatch, Zenon
<1>7. /\ SumOver(Contributions(r), Ranks) = Whole(g, e.round, e.node)
      /\ Max({Contributions(r)[s] : s \in Ranks}) = Highest(g, e.round, e.node)
  <2>1. \A s \in Ranks : calls[s][n].value = Own(g, e.round, s, e.node)
    BY <1>5, <1>6, Zenon DEF Matches
  <2>2. Contributions(r) = [s \in Ranks |-> Own(g, e.round, s, e.node)]
    BY <1>0, <2>1, Zenon DEF Contributions
  <2>3. {Contributions(r)[s] : s \in Ranks} = {Own(g, e.round, s, e.node) : s \in Ranks}
    BY <2>2
  <2> QED BY <2>2, <2>3, Zenon DEF Whole, Highest
<1>8. /\ DOMAIN tree[r] = DOMAIN Base(g, e.round, r) \cup e.pushed
      /\ \A p \in DOMAIN tree[r] : tree[r][p].total =
           IF p \in e.visited \ {e.node} THEN Whole(g, e.round, p) ELSE Own(g, e.round, r, p)
      /\ \A p \in DOMAIN tree[r] :
           p \in e.visited \ {e.node} => tree[r][p].max = Highest(g, e.round, p)
  BY <1>5, Zenon DEF TreeIs
<1>9. e.node \in e.visited /\ e.visited \subseteq e.pushed
  BY <1>4 DEF Sound
<1>10. /\ DOMAIN pc = Ranks /\ DOMAIN tree = Ranks /\ DOMAIN children_to_process = Ranks
       /\ DOMAIN bcast_rank = Ranks /\ calls \in [Ranks -> Seq(Calls)]
  BY <1>1 DEF Types
<1>11. TreeIs(g, r, e, e.visited)'
  <2>1. w.total = Whole(g, e.round, e.node) /\ w.max = Highest(g, e.round, e.node)
    BY <1>7, Zenon
  <2> HIDE DEF w
  <2>2. p0 \in DOMAIN tree[r]
    BY <1>5, <1>8, <1>9
  <2>3. DOMAIN tree'[r] = DOMAIN tree[r] /\ tree'[r][p0] = w
        /\ \A p \in DOMAIN tree[r] : p # p0 => tree'[r][p] = tree[r][p]
    BY <1>3, <1>10, <2>2
  <2>4. ASSUME NEW p \in DOMAIN tree[r]
        PROVE  /\ tree'[r][p].total =
                    IF p \in e.visited THEN Whole(g, e.round, p) ELSE Own(g, e.round, r, p)
               /\ p \in e.visited => tree'[r][p].max = Highest(g, e.round, p)
    <3>1. CASE p = e.node
      BY <1>5, <1>9, <2>1, <2>3, <3>1
    <3>2. CASE p # e.node
      <4>1. tree'[r][p] = tree[r][p]
        BY <1>5, <2>3, <3>2
      <4>2. p \in e.visited <=> p \in e.visited \ {e.node}
        BY <3>2
      <4> QED BY <1>8, <4>1, <4>2, Zenon
    <3> QED BY <3>1, <3>2
  <2> QED BY <1>8, <2>3, <2>4, Zenon DEF TreeIs
<1>12. {Last(c) : c \in ChildrenOf(DOMAIN tree[r], p0)} = Left(g, r, e)
  <2> DEFINE D == DOMAIN Base(g, e.round, r)
  <2>1. D \subseteq Paths /\ e.pushed \subseteq Paths /\ e.node \in Paths
    <3>1. TimesTree(Base(g, e.round, r))
      BY <1>1, BaseTree
    <3>2. D \subseteq Paths
      BY <3>1, Zenon DEF TimesTree, IsTree, Paths
    <3> QED BY <1>4, <3>2 DEF Stages
  <2>2. /\ Root \in e.pushed
        /\ \A p \in e.pushed \ {Root} : Front(p) # e.node
    BY <1>4, <1>5, Zenon DEF Sound
  <2>3. ASSUME NEW c \in D \cup e.pushed
        PROVE (Len(c) = Len(e.node) + 1 /\ IsPrefix(e.node, c))
                 <=> (c \in D \ e.pushed /\ Front(c) = e.node)
    <3>1. (Len(c) = Len(e.node) + 1 /\ IsPrefix(e.node, c)) <=> (c # Root /\ Front(c) = e.node)
      BY <2>1, ChildIs DEF Paths, Root
    <3> QED BY <2>2, <3>1
  <2>4. ChildrenOf(DOMAIN tree[r], p0) = {c \in D \ e.pushed : Front(c) = e.node}
    <3>1. DOMAIN tree[r] = D \cup e.pushed
      BY <1>8
    <3>2. ChildrenOf(DOMAIN tree[r], p0) =
            {c \in D \cup e.pushed : Len(c) = Len(e.node) + 1 /\ IsPrefix(e.node, c)}
      BY <1>5, <3>1, Zenon DEF ChildrenOf
    <3> HIDE DEF D
    <3> QED BY <2>3, <3>2
  <2> QED BY <2>4, Zenon DEF Left
<1>13. Left(g, r, e) \subseteq Nat
  BY <1>1, <1>4, LeftIs, Zenon DEF Sound
<1>14. /\ pc'[r] = "count" /\ bcast_rank'[r] = 0 /\ children_to_process'[r] = Left(g, r, e)
  BY <1>3, <1>10, <1>12
<1>15. Stands(g, r, e)'
  <2>1. At(r, e)'
    BY <1>0, <1>3, <1>5, Zenon DEF At
  <2>2. Done(g, r, e)' /\ Waiting(g, r, e)'
    BY <1>11, <1>14, <2>1, Zenon DEF Done, Waiting
  <2> QED BY <1>5, <1>14, <2>2, Zenon DEF Stands, HasTotals
<1>16. Core(g)'
  <2>1. L[Len(calls'[r])] = e
    BY <1>0, <1>3
  <2>2. Stands(g, r, L[Len(calls[r])])'
    BY <1>15, <2>1, Zenon
  <2> QED BY <1>0, <1>1, <1>2, <1>3, <1>4, <1>10, <2>2, LeaveStage
<1>17. Types'
  <2>1. DOMAIN tree' = Ranks
    BY <1>3, <1>10
  <2>2. children_to_process' \in [Ranks -> SUBSET Nat]
    BY <1>1, <1>3, <1>12, <1>13 DEF Types
  <2>3. /\ pc' \in [Ranks -> {"pop", "totals", "count", "child", "next", "reduced"}]
        /\ bcast_rank' \in [Ranks -> Nat]
    BY <1>1, <1>3 DEF Types
  <2> QED BY <1>1, <1>2, <1>3, <2>1, <2>2, <2>3, Zenon DEF Types
<1>18. Reductions'
  BY <1>1, <1>2, <1>3, SameReductions
<1> QED BY <1>1, <1>2, <1>16, <1>17, <1>18, KeepsMInv

\* While a node is broadcast, what the ranks have of it does not depend on the
\* collective.
LEMMA StaysDone ==
  ASSUME NEW g, NEW r, NEW d, NEW e, Waits(d, e)
  PROVE  /\ Done(g, r, d) => Done(g, r, e)
         /\ Left(g, r, e) = Left(g, r, d) /\ Proposes(g, r, e) = Proposes(g, r, d)
<1>1. /\ e.round = d.round /\ e.node = d.node /\ e.visited = d.visited /\ e.q = d.q
      /\ e.pushed = d.pushed
  BY Zenon DEF Waits, SameNode
<1>2. Done(g, r, d) => Done(g, r, e)
  BY <1>1, Zenon DEF Done, At, TreeIs
<1> QED BY <1>1, <1>2, LeftSame, Zenon

\* Nothing of a node is done or undone by a step that leaves the tree alone.
LEMMA DoneStill ==
  ASSUME NEW g, NEW r, NEW e, Done(g, r, e), round'[r] = round[r], node'[r] = node[r],
         q'[r] = q[r], tree'[r] = tree[r]
  PROVE  Done(g, r, e)'
BY Zenon DEF Done, At, TreeIs

\* All ranks know who broadcasts next.
LEMMA CountStage ==
  ASSUME NEW g, NEW L, On(g, L), NEW r \in Ranks, pc[r] = "count"
  PROVE  LET n == Len(calls[r])
             e == L[n]
         IN /\ n \in Nat /\ n > 0 /\ n <= Len(L) /\ Len(L) \in Nat
            /\ e \in Stages /\ Sound(g, e)
            /\ bcast_rank[r] \in Ranks /\ Waiting(g, r, e) /\ Done(g, r, e)
            /\ \A x : Counts(e, x, bcast_rank[r]) => Goes(g, e, x)
            /\ n < Len(L) => /\ L[n + 1] \in Stages /\ Sound(g, L[n + 1])
                             /\ Counts(e, L[n + 1], bcast_rank[r])
                             /\ ~ (L[n + 1].op \in {"count", "child"} /\ L[n + 1].root = r)
<1> DEFINE n == Len(calls[r])
           e == L[n]
<1>1. pc[r] # "pop"
  OBVIOUS
<1>2. /\ n \in Nat /\ n > 0 /\ n <= Len(L) /\ Len(L) \in Nat
      /\ e \in Stages /\ Sound(g, e) /\ Stands(g, r, e)
      /\ n < Len(L) => /\ L[n + 1] \in Stages /\ Sound(g, L[n + 1]) /\ Goes(g, e, L[n + 1])
                       /\ ~ (L[n + 1].op \in {"count", "child"} /\ L[n + 1].root = r)
  BY <1>1, StageOf, Zenon
<1> HIDE DEF n, e
<1>3. CASE HasTotals(g, r, e)
  <2>1. e.op = "totals" /\ bcast_rank[r] = 0 /\ Waiting(g, r, e) /\ Done(g, r, e)
    BY <1>3, Zenon DEF HasTotals
  <2>2. \A x : Counts(e, x, bcast_rank[r]) => Goes(g, e, x)
    BY <2>1, Zenon DEF Goes
  <2>3. n < Len(L) => Counts(e, L[n + 1], bcast_rank[r])
    BY <1>2, <2>1, GoesOn, Zenon
  <2> QED BY <1>2, <2>1, <2>2, <2>3, RanksAre, Zenon DEF n, e
<1>4. CASE HasNext(g, r, e)
  <2>1. /\ e.op = "next" /\ Lowest(g, e) < comm_size /\ bcast_rank[r] = Lowest(g, e)
        /\ Waiting(g, r, e) /\ Done(g, r, e)
    BY <1>4, Zenon DEF HasNext
  <2>2. \A x : Counts(e, x, bcast_rank[r]) => Goes(g, e, x)
    BY <2>1, Zenon DEF Goes
  <2>3. n < Len(L) => Counts(e, L[n + 1], bcast_rank[r])
    BY <1>2, <2>1, GoesOn, Zenon
  <2>4. bcast_rank[r] \in Ranks
    BY <2>1, LowestIs, Zenon
  <2> QED BY <1>2, <2>1, <2>2, <2>3, <2>4, Zenon DEF n, e
<1> QED BY <1>2, <1>3, <1>4, PlaceOf, Zenon

\* The broadcasting rank announces its children.
LEMMA SendCountMInv ==
  ASSUME NEW g, NEW L, On(g, L), NEW r \in Ranks, SendCount(r)
  PROVE  MInv'
<1>1. /\ g \in [Ranks -> InitialTrees] /\ g = given /\ Types /\ Reductions /\ Traversal(g, L)
      /\ \A s \in Ranks : Follows(g, s, L)
  BY Zenon DEF On
<1>2. given' = given /\ \A s \in Ranks \ {r} : Still(s)
  BY <1>1, OthersStill, Zenon DEF Step
<1>3. /\ pc[r] = "count" /\ pc' = [pc EXCEPT ![r] = "child"] /\ bcast_rank[r] = r
      /\ pending' = [pending EXCEPT ![r] = Ascending(children_to_process[r])]
      /\ Enter(r, "count", r, Cardinality(children_to_process[r]))
      /\ round' = round /\ tree' = tree /\ reduced' = reduced /\ q' = q /\ node' = node
      /\ children_to_process' = children_to_process /\ bcast_rank' = bcast_rank
  BY Zenon DEF SendCount, Goto
<1>4. PICK n, d : n = Len(calls[r]) /\ d = L[n]
  OBVIOUS
<1>5. /\ n \in Nat /\ n > 0 /\ n <= Len(L) /\ Len(L) \in Nat /\ d \in Stages /\ Sound(g, d)
      /\ Waiting(g, r, d) /\ Done(g, r, d)
      /\ \A x : Counts(d, x, r) => Goes(g, d, x)
      /\ n < Len(L) => /\ Counts(d, L[n + 1], r)
                       /\ ~ (L[n + 1].op \in {"count", "child"} /\ L[n + 1].root = r)
  BY <1>3, <1>4, CountStage, Zenon
<1>6. n = Len(L)
  <2>1. n < Len(L) => FALSE
    BY <1>5 DEF Counts
  <2> QED BY <1>5, <2>1
<1>7. PICK F : F = Left(g, r, d)
  OBVIOUS
<1>8. F \subseteq Nat /\ IsFiniteSet(F)
  BY <1>1, <1>5, <1>7, LeftIs, Zenon DEF Sound
<1>9. children_to_process[r] = F
  BY <1>5, <1>7, Zenon DEF Waiting
<1>10. PICK k, s0 : k = Cardinality(F) /\ s0 = Ascending(F)
  OBVIOUS
<1>11. s0 \in Seq(Nat) /\ Len(s0) = k /\ k \in Nat /\ ToSet(s0) = F /\ IsInjective(s0)
  BY <1>8, <1>10, AscendingIs
<1>12. PICK e : e = [round |-> d.round, op |-> "count", root |-> r, node |-> d.node, value |-> k,
                     q |-> d.q, left |-> k, pushed |-> d.pushed, visited |-> d.visited]
  OBVIOUS
<1>13. e \in Stages /\ e.op = "count" /\ e.root = r /\ e.left = k /\ e.value = k
       /\ Waits(d, e) /\ Counts(d, e, r)
  BY <1>5, <1>11, <1>12, RanksAre DEF Stages, Ops, Waits, SameNode, Counts
<1>14. Goes(g, d, e) /\ Sound(g, e)
  <2>1. e.op # "child"
    BY <1>13
  <2> QED BY <1>1, <1>5, <1>13, <2>1, SoundStep
<1>15. NextStage(g, L, n, r, e)
  <2>1. n # 0
    BY <1>5
  <2> QED BY <1>4, <1>6, <1>13, <1>14, <2>1, Zenon DEF NextStage
<1>16. node[r] = d.node /\ d.node = e.node /\ d.node \in Paths
  BY <1>5, <1>13 DEF Done, At, Waits, SameNode, Stages
<1>17. PICK c : c = [op |-> "count", root |-> r, node |-> e.node, value |-> k]
  OBVIOUS
<1>18. c \in Calls /\ Matches(g, r, c, e)
  BY <1>11, <1>13, <1>16, <1>17, RanksAre DEF Calls, Ops, Matches
<1>19. calls' = [calls EXCEPT ![r] = Append(@, c)]
  <2>1. node'[r] = e.node
    BY <1>3, <1>16
  <2> QED BY <1>3, <1>9, <1>10, <1>17, <2>1, Zenon DEF Enter
<1>20. /\ DOMAIN pc = Ranks /\ DOMAIN pending = Ranks /\ calls \in [Ranks -> Seq(Calls)]
  BY <1>1 DEF Types
<1>21. pc'[r] = "child" /\ pending'[r] = s0
  BY <1>3, <1>9, <1>10, <1>20
<1>22. Stands(g, r, e)'
  <2>1. Done(g, r, e)'
    BY <1>3, <1>5, <1>13, StaysDone, DoneStill, Zenon
  <2>2. Left(g, r, e) = F
    BY <1>7, <1>13, StaysDone, Zenon
  <2>3. InChildren(g, r, e)'
    BY <1>3, <1>11, <1>13, <1>21, <2>1, <2>2, Zenon DEF InChildren
  <2> QED BY <2>3, Zenon DEF Stands
<1>23. Core(g)' /\ calls' \in [Ranks -> Seq(Calls)]
  BY <1>1, <1>2, <1>4, <1>13, <1>15, <1>18, <1>19, <1>20, <1>22, EnterStage
<1>24. Types'
  <2>1. /\ pc' \in [Ranks -> {"pop", "totals", "count", "child", "next", "reduced"}]
        /\ pending' \in [Ranks -> Seq(Nat)]
    BY <1>1, <1>3, <1>9, <1>10, <1>11 DEF Types
  <2> QED BY <1>1, <1>2, <1>3, <1>23, <2>1, Zenon DEF Types
<1>25. Reductions'
  BY <1>1, <1>2, <1>3, SameReductions
<1> QED BY <1>1, <1>2, <1>23, <1>24, <1>25, KeepsMInv

\* The others learn how many children follow.
LEMMA RecvCountMInv ==
  ASSUME NEW g, NEW L, On(g, L), NEW r \in Ranks, RecvCount(r)
  PROVE  MInv'
<1>1. /\ g \in [Ranks -> InitialTrees] /\ g = given /\ Types /\ Reductions /\ Traversal(g, L)
      /\ \A s \in Ranks : Follows(g, s, L)
  BY Zenon DEF On
<1>2. given' = given /\ \A s \in Ranks \ {r} : Still(s)
  BY <1>1, OthersStill, Zenon DEF Step
<1>3. /\ pc[r] = "count" /\ pc' = [pc EXCEPT ![r] = "child"] /\ bcast_rank[r] # r
      /\ RootEntered(r)
      /\ pending' = [pending EXCEPT ![r] = [i \in 1 .. FromRoot(r) |-> 0]]
      /\ Enter(r, "count", bcast_rank[r], FromRoot(r))
      /\ round' = round /\ tree' = tree /\ reduced' = reduced /\ q' = q /\ node' = node
      /\ children_to_process' = children_to_process /\ bcast_rank' = bcast_rank
  BY Zenon DEF RecvCount, Goto, nchildren_to_process
<1>4. PICK n, d, e, b : /\ n = Len(calls[r]) /\ d = L[n] /\ e = L[n + 1] /\ b = bcast_rank[r]
  OBVIOUS
<1>5. /\ n > 0 /\ d \in Stages /\ Sound(g, d) /\ b \in Ranks
      /\ Waiting(g, r, d) /\ Done(g, r, d)
      /\ n < Len(L) => e \in Stages /\ Counts(d, e, b)
  BY <1>3, <1>4, CountStage, Zenon
<1>6. n < Len(L) /\ (e.op \in {"count", "child"} => FromRoot(r) = e.value)
  BY <1>3, <1>4, <1>5, FromRootIs, Zenon
<1>7. e \in Stages /\ e.op = "count" /\ e.root = b /\ e.left = e.value /\ Waits(d, e)
  BY <1>5, <1>6, Zenon DEF Counts
<1>8. FromRoot(r) = e.value /\ e.value \in Nat
  BY <1>6, <1>7 DEF Stages
<1>9. NextStage(g, L, n, r, e)
  BY <1>4, <1>6, Zenon DEF NextStage
<1>10. node[r] = d.node /\ d.node = e.node /\ d.node \in Paths
  BY <1>5, <1>7 DEF Done, At, Waits, SameNode, Stages
<1>11. PICK c : c = [op |-> "count", root |-> b, node |-> e.node, value |-> e.value]
  OBVIOUS
<1>12. c \in Calls /\ Matches(g, r, c, e)
  BY <1>5, <1>7, <1>8, <1>10, <1>11, RanksAre DEF Calls, Ops, Matches
<1>13. calls' = [calls EXCEPT ![r] = Append(@, c)]
  <2>1. node'[r] = e.node
    BY <1>3, <1>10
  <2> QED BY <1>3, <1>4, <1>8, <1>11, <2>1, Zenon DEF Enter
<1>14. /\ DOMAIN pc = Ranks /\ DOMAIN pending = Ranks /\ calls \in [Ranks -> Seq(Calls)]
  BY <1>1 DEF Types
<1>15. PICK s0 : s0 = [i \in 1 .. e.value |-> 0]
  OBVIOUS
<1>16. s0 \in Seq(Nat) /\ Len(s0) = e.value
  BY <1>8, <1>15
<1>17. pc'[r] = "child" /\ pending'[r] = s0 /\ bcast_rank'[r] = b
  BY <1>3, <1>4, <1>8, <1>14, <1>15
<1>18. Stands(g, r, e)'
  <2>1. Done(g, r, e)'
    BY <1>3, <1>5, <1>7, StaysDone, DoneStill, Zenon
  <2>2. children_to_process'[r] = Left(g, r, e)
    BY <1>3, <1>5, <1>7, StaysDone, Zenon DEF Waiting
  <2>3. Waiting(g, r, e)'
    BY <2>2, Zenon DEF Waiting
  <2>4. e.root # r
    BY <1>3, <1>4, <1>7
  <2>5. InChildren(g, r, e)'
    BY <1>7, <1>16, <1>17, <2>1, <2>3, <2>4, Zenon DEF InChildren
  <2> QED BY <2>5, Zenon DEF Stands
<1>19. Core(g)' /\ calls' \in [Ranks -> Seq(Calls)]
  BY <1>1, <1>2, <1>4, <1>7, <1>9, <1>12, <1>13, <1>14, <1>18, EnterStage
<1>20. Types'
  <2>1. /\ pc' \in [Ranks -> {"pop", "totals", "count", "child", "next", "reduced"}]
        /\ pending' \in [Ranks -> Seq(Nat)]
    BY <1>1, <1>3, <1>8, <1>15, <1>16 DEF Types
  <2> QED BY <1>1, <1>2, <1>3, <1>19, <2>1, Zenon DEF Types
<1>21. Reductions'
  BY <1>1, <1>2, <1>3, SameReductions
<1> QED BY <1>1, <1>2, <1>19, <1>20, <1>21, KeepsMInv

\* A child that was broadcast is no longer left.
LEMMA LeftAfter ==
  ASSUME NEW g \in [Ranks -> InitialTrees], NEW s \in Ranks, NEW d \in Stages, NEW e \in Stages,
         Broadcasts(d, e), Root \in d.pushed
  PROVE  Left(g, s, e) = Left(g, s, d) \ {e.value}
<1> DEFINE D == DOMAIN Base(g, d.round, s)
<1>1. PICK path : path = Append(d.node, e.value)
  OBVIOUS
<1>2. e.round = d.round /\ e.node = d.node /\ e.pushed = d.pushed \cup {path}
  BY <1>1, Zenon DEF Broadcasts, SameNode
<1>3. d.node \in Paths /\ e.value \in Nat
  BY DEF Stages
<1>4. /\ Left(g, s, d) \subseteq Nat
      /\ \A f \in Nat : f \in Left(g, s, d) <=> Append(d.node, f) \in D \ d.pushed
  BY LeftIs
<1>5. /\ Left(g, s, e) \subseteq Nat
      /\ \A f \in Nat : f \in Left(g, s, e) <=> Append(d.node, f) \in D \ e.pushed
  <2>1. Root \in e.pushed
    BY <1>2
  <2>2. /\ Left(g, s, e) \subseteq Nat
        /\ \A f \in Nat : f \in Left(g, s, e) <=>
             Append(e.node, f) \in DOMAIN Base(g, e.round, s) \ e.pushed
    BY <2>1, LeftIs
  <2> QED BY <1>2, <2>2, Zenon
<1>6. \A f \in Nat : Append(d.node, f) = path <=> f = e.value
  <2>1. \A f \in Nat : Last(Append(d.node, f)) = f
    BY <1>3, AppendPath
  <2> QED BY <1>1, <1>3, <2>1, Zenon
<1> HIDE DEF D
<1>7. \A f \in Nat : f \in Left(g, s, e) <=> f \in Left(g, s, d) /\ f # e.value
  BY <1>2, <1>4, <1>5, <1>6
<1> QED BY <1>4, <1>5, <1>7

\* get_child and push keep the tree of the rank in step with the nodes found.
LEMMA PushedDone ==
  ASSUME NEW g, NEW r \in Ranks, NEW d \in Stages, NEW e \in Stages, NEW path,
         path = Append(d.node, e.value),
         Sound(g, e), Broadcasts(d, e), Done(g, r, d),
         round'[r] = round[r], node'[r] = node[r],
         tree'[r] = Insert(tree[r], path, [total |-> 0, max |-> 0]),
         q'[r] = Append(q[r], path)
  PROVE  Done(g, r, e)'
<1>1. /\ e.round = d.round /\ e.node = d.node /\ e.visited = d.visited
      /\ e.q = Append(d.q, path) /\ e.pushed = d.pushed \cup {path}
  BY Zenon DEF Broadcasts, SameNode
<1>2. /\ round[r] = d.round /\ node[r] = d.node /\ q[r] = d.q
      /\ DOMAIN tree[r] = DOMAIN Base(g, d.round, r) \cup d.pushed
      /\ \A p \in DOMAIN tree[r] : tree[r][p].total =
           IF p \in d.visited THEN Whole(g, d.round, p) ELSE Own(g, d.round, r, p)
      /\ \A p \in DOMAIN tree[r] : p \in d.visited => tree[r][p].max = Highest(g, d.round, p)
  BY Zenon DEF Done, At, TreeIs
<1>3. path \notin e.visited
  <2>1. d.q \in Seq(Paths) /\ d.node \in Paths /\ e.value \in Nat
    BY DEF Stages
  <2>2. path \in Paths
    BY <2>1, AppendPath
  <2>3. path \in ToSet(e.q)
    BY <1>1, <2>1, <2>2, ToSetAppend
  <2>4. e.visited \cap ToSet(e.q) = {}
    BY Zenon DEF Sound
  <2> QED BY <2>3, <2>4
<1>4. /\ DOMAIN tree'[r] = DOMAIN tree[r] \cup {path}
      /\ \A p \in DOMAIN tree[r] : tree'[r][p] = tree[r][p]
      /\ path \notin DOMAIN tree[r] => tree'[r][path].total = 0
  BY DEF Insert
<1>5. DOMAIN tree'[r] = DOMAIN Base(g, e.round, r) \cup e.pushed
  BY <1>1, <1>2, <1>4
<1>6. ASSUME NEW p \in DOMAIN tree'[r]
      PROVE  /\ tree'[r][p].total =
                  IF p \in e.visited THEN Whole(g, e.round, p) ELSE Own(g, e.round, r, p)
             /\ p \in e.visited => tree'[r][p].max = Highest(g, e.round, p)
  <2>1. CASE p \in DOMAIN tree[r]
    BY <1>1, <1>2, <1>4, <2>1, Zenon
  <2>2. CASE p \notin DOMAIN tree[r]
    <3>1. p = path /\ p \notin DOMAIN Base(g, e.round, r)
      BY <1>1, <1>2, <1>4, <2>2
    <3>2. tree'[r][p].total = 0 /\ Own(g, e.round, r, p) = 0
      BY <1>4, <2>2, <3>1, Zenon DEF Own
    <3> QED BY <1>3, <3>1, <3>2, Zenon
  <2> QED BY <2>1, <2>2
<1>7. TreeIs(g, r, e, e.visited)'
  BY <1>5, <1>6, Zenon DEF TreeIs
<1>8. At(r, e)'
  BY <1>1, <1>2, Zenon DEF At
<1> QED BY <1>7, <1>8, Zenon DEF Done

\* What a rank knows between two broadcasts of children.
Coming(g, L, r, n, e) ==
  /\ n \in Nat /\ n > 0 /\ n <= Len(L) /\ Len(L) \in Nat
  /\ e \in Stages /\ Sound(g, e)
  /\ e.op \in {"count", "child"} /\ bcast_rank[r] = e.root /\ e.root \in Ranks
  /\ Len(pending[r]) = e.left /\ pending[r] \in Seq(Nat)
  /\ e.root = r => ToSet(pending[r]) = Left(g, r, e) /\ IsInjective(pending[r])
  /\ e.root # r => Waiting(g, r, e)
  /\ Done(g, r, e)
  /\ n < Len(L) =>
       /\ L[n + 1] \in Stages /\ Sound(g, L[n + 1])
       /\ e.left > 0 => Broadcasts(e, L[n + 1])
       /\ e.left = 0 => L[n + 1].op = "next" /\ L[n + 1].root = comm_size /\ Waits(e, L[n + 1])
       /\ ~ (L[n + 1].op \in {"count", "child"} /\ L[n + 1].root = r)

\* All ranks know how many children are still to come.
LEMMA ChildStage ==
  ASSUME NEW g, NEW L, On(g, L), NEW r \in Ranks, pc[r] = "child"
  PROVE  Coming(g, L, r, Len(calls[r]), L[Len(calls[r])])
<1> DEFINE n == Len(calls[r])
           e == L[n]
<1>1. pc[r] # "pop"
  OBVIOUS
<1>2. /\ n \in Nat /\ n > 0 /\ n <= Len(L) /\ Len(L) \in Nat
      /\ e \in Stages /\ Sound(g, e) /\ Stands(g, r, e)
      /\ n < Len(L) => /\ L[n + 1] \in Stages /\ Sound(g, L[n + 1]) /\ Goes(g, e, L[n + 1])
                       /\ ~ (L[n + 1].op \in {"count", "child"} /\ L[n + 1].root = r)
  BY <1>1, StageOf, Zenon
<1> HIDE DEF n, e
<1>3. InChildren(g, r, e)
  BY <1>2, PlaceOf, Zenon
<1>4. /\ e.op \in {"count", "child"} /\ bcast_rank[r] = e.root /\ Len(pending[r]) = e.left
      /\ Done(g, r, e)
      /\ e.root = r => ToSet(pending[r]) = Left(g, r, e) /\ IsInjective(pending[r])
      /\ e.root # r => Waiting(g, r, e)
  BY <1>3, Zenon DEF InChildren
<1>5. e.root \in Ranks
  BY <1>2, <1>4, Zenon DEF Sound
<1>6. pending[r] \in Seq(Nat)
  BY DEF On, Types
<1>7. n < Len(L) =>
         /\ e.left > 0 => Broadcasts(e, L[n + 1])
         /\ e.left = 0 => L[n + 1].op = "next" /\ L[n + 1].root = comm_size /\ Waits(e, L[n + 1])
  BY <1>2, <1>4, GoesOn, Zenon
<1> QED BY <1>2, <1>4, <1>5, <1>6, <1>7, Zenon DEF Coming, n, e

\* The broadcasting rank sends its next child.
LEMMA SendChildMInv ==
  ASSUME NEW g, NEW L, On(g, L), NEW r \in Ranks, SendChild(r)
  PROVE  MInv'
<1>1. /\ g \in [Ranks -> InitialTrees] /\ g = given /\ Types /\ Reductions /\ Traversal(g, L)
      /\ \A s \in Ranks : Follows(g, s, L)
  BY Zenon DEF On
<1>2. given' = given /\ \A s \in Ranks \ {r} : Still(s)
  BY <1>1, OthersStill, Zenon DEF Step
<1>3. PICK n, d, f, P, path :
        /\ n = Len(calls[r]) /\ d = L[n] /\ P = pending[r] /\ f = Head(P)
        /\ path = Append(node[r], f)
  OBVIOUS
<1>4. /\ pc[r] = "child" /\ pc' = [pc EXCEPT ![r] = "child"] /\ bcast_rank[r] = r
      /\ P # << >>
      /\ tree' = [tree EXCEPT ![r] = Insert(@, path, [total |-> 0, max |-> 0])]
      /\ q' = [q EXCEPT ![r] = Append(@, path)]
      /\ pending' = [pending EXCEPT ![r] = Tail(@)]
      /\ Enter(r, "child", r, f)
      /\ round' = round /\ reduced' = reduced /\ node' = node
      /\ children_to_process' = children_to_process /\ bcast_rank' = bcast_rank
  BY <1>3, Zenon DEF SendChild, Goto, PushChild
<1>5. /\ n \in Nat /\ n > 0 /\ n <= Len(L) /\ Len(L) \in Nat /\ d \in Stages /\ Sound(g, d)
      /\ d.op \in {"count", "child"} /\ d.root = r
      /\ Len(P) = d.left /\ P \in Seq(Nat)
      /\ ToSet(P) = Left(g, r, d) /\ IsInjective(P) /\ Done(g, r, d)
      /\ n < Len(L) => /\ d.left > 0 => Broadcasts(d, L[n + 1])
                       /\ ~ (L[n + 1].op \in {"count", "child"} /\ L[n + 1].root = r)
  <2>1. Coming(g, L, r, n, d)
    BY <1>3, <1>4, ChildStage
  <2>2. /\ n \in Nat /\ n > 0 /\ n <= Len(L) /\ Len(L) \in Nat /\ d \in Stages /\ Sound(g, d)
        /\ d.op \in {"count", "child"} /\ d.root = r
        /\ Len(P) = d.left /\ P \in Seq(Nat) /\ Done(g, r, d)
    BY <1>3, <1>4, <2>1, Zenon DEF Coming
  <2>3. ToSet(P) = Left(g, r, d) /\ IsInjective(P)
    BY <1>3, <2>1, <2>2, Zenon DEF Coming
  <2>4. n < Len(L) => /\ d.left > 0 => Broadcasts(d, L[n + 1])
                      /\ ~ (L[n + 1].op \in {"count", "child"} /\ L[n + 1].root = r)
    BY <2>1, Zenon DEF Coming
  <2> QED BY <2>2, <2>3, <2>4, Zenon
<1>6. /\ f \in Nat /\ f \in Left(g, r, d) /\ Tail(P) \in Seq(Nat) /\ Len(Tail(P)) = d.left - 1
      /\ ToSet(Tail(P)) = Left(g, r, d) \ {f} /\ IsInjective(Tail(P)) /\ d.left > 0
  <2>1. /\ f \in Nat /\ Tail(P) \in Seq(Nat) /\ Len(Tail(P)) = Len(P) - 1
        /\ ToSet(P) = {f} \cup ToSet(Tail(P))
        /\ IsInjective(Tail(P)) /\ f \notin ToSet(Tail(P))
    BY <1>3, <1>4, <1>5, QueueHead, Zenon
  <2>2. Len(P) > 0
    BY <1>4, <1>5, EmptySeq
  <2>3. f \in Left(g, r, d) /\ ToSet(Tail(P)) = Left(g, r, d) \ {f}
    BY <1>5, <2>1
  <2> QED BY <1>5, <2>1, <2>2, <2>3, Zenon
<1>7. n = Len(L)
  <2>1. n < Len(L) => FALSE
    BY <1>5, <1>6 DEF Broadcasts
  <2> QED BY <1>5, <2>1
<1>8. node[r] = d.node /\ q[r] = d.q /\ d.node \in Paths /\ d.q \in Seq(Paths)
  BY <1>5 DEF Done, At, Stages
<1>9. path \in Paths /\ path = Append(d.node, f)
  BY <1>3, <1>6, <1>8, AppendPath
<1>10. PICK e : e = [round |-> d.round, op |-> "child", root |-> r, node |-> d.node, value |-> f,
                     q |-> Append(d.q, path), left |-> d.left - 1,
                     pushed |-> d.pushed \cup {path}, visited |-> d.visited]
  OBVIOUS
<1>11. e \in Stages
  <2>1. /\ d.round \in {1, 2} /\ d.left - 1 \in Nat /\ d.visited \subseteq Paths
        /\ d.pushed \cup {path} \subseteq Paths /\ "child" \in Ops /\ r \in Nat
    <3>1. /\ d.round \in {1, 2} /\ d.left \in Nat /\ d.visited \subseteq Paths
          /\ d.pushed \subseteq Paths
      BY <1>5 DEF Stages
    <3>2. d.left - 1 \in Nat
      BY <1>6, <3>1
    <3>3. d.pushed \cup {path} \subseteq Paths /\ "child" \in Ops /\ r \in Nat
      BY <1>9, <3>1, RanksAre DEF Ops
    <3> QED BY <3>1, <3>2, <3>3, Zenon
  <2>2. Append(d.q, path) \in Seq(Paths)
    BY <1>8, <1>9, AppendTyped
  <2> QED BY <1>6, <1>8, <1>10, <2>1, <2>2 DEF Stages
<1>12. /\ e.op = "child" /\ e.root = r /\ e.left = d.left - 1 /\ e.value = f /\ e.node = d.node
       /\ Broadcasts(d, e)
  BY <1>5, <1>9, <1>10 DEF Broadcasts, SameNode
<1>13. Goes(g, d, e)
  BY <1>5, <1>6, <1>12, Zenon DEF Goes
<1>14. Sound(g, e)
  BY <1>1, <1>5, <1>6, <1>11, <1>12, <1>13, SoundStep
<1>15. NextStage(g, L, n, r, e)
  <2>1. n # 0
    BY <1>5
  <2> QED BY <1>3, <1>7, <1>12, <1>13, <1>14, <2>1, Zenon DEF NextStage
<1>16. PICK c : c = [op |-> "child", root |-> r, node |-> e.node, value |-> f]
  OBVIOUS
<1>17. c \in Calls /\ Matches(g, r, c, e)
  BY <1>6, <1>8, <1>12, <1>16, RanksAre DEF Calls, Ops, Matches
<1>18. calls' = [calls EXCEPT ![r] = Append(@, c)]
  <2>1. node'[r] = e.node
    BY <1>4, <1>8, <1>12
  <2> QED BY <1>4, <1>16, <2>1, Zenon DEF Enter
<1>19. /\ DOMAIN pc = Ranks /\ DOMAIN pending = Ranks /\ DOMAIN tree = Ranks /\ DOMAIN q = Ranks
       /\ calls \in [Ranks -> Seq(Calls)]
  BY <1>1 DEF Types
<1>20. /\ pc'[r] = "child" /\ pending'[r] = Tail(P)
       /\ tree'[r] = Insert(tree[r], path, [total |-> 0, max |-> 0])
       /\ q'[r] = Append(q[r], path)
  BY <1>3, <1>4, <1>19
<1>21. Stands(g, r, e)'
  <2>1. Done(g, r, e)'
    BY <1>4, <1>5, <1>9, <1>11, <1>12, <1>14, <1>20, PushedDone
  <2>2. Left(g, r, e) = Left(g, r, d) \ {f}
    BY <1>1, <1>5, <1>11, <1>12, LeftAfter DEF Sound
  <2>3. /\ Len(pending'[r]) = e.left /\ ToSet(pending'[r]) = Left(g, r, e) /\ IsInjective(pending'[r])
    BY <1>6, <1>12, <1>20, <2>2, Zenon
  <2>4. InChildren(g, r, e)'
    BY <1>4, <1>12, <1>20, <2>1, <2>3, Zenon DEF InChildren
  <2> QED BY <2>4, Zenon DEF Stands
<1>22. Core(g)' /\ calls' \in [Ranks -> Seq(Calls)]
  BY <1>1, <1>2, <1>3, <1>11, <1>15, <1>17, <1>18, <1>19, <1>21, EnterStage
<1>23. Types'
  <2>1. /\ pc' \in [Ranks -> {"pop", "totals", "count", "child", "next", "reduced"}]
        /\ pending' \in [Ranks -> Seq(Nat)] /\ DOMAIN tree' = Ranks
    BY <1>1, <1>3, <1>4, <1>6 DEF Types
  <2>2. q' \in [Ranks -> Seq(Paths)]
    <3>1. Append(q[r], path) \in Seq(Paths)
      BY <1>8, <1>9, AppendTyped
    <3> QED BY <1>1, <1>4, <3>1 DEF Types
  <2> QED BY <1>1, <1>2, <1>4, <1>22, <2>1, <2>2, Zenon DEF Types
<1>24. Reductions'
  BY <1>1, <1>2, <1>4, SameReductions
<1> QED BY <1>1, <1>2, <1>22, <1>23, <1>24, KeepsMInv

\* The others add that child, if they lack it, and strike it out.
LEMMA RecvChildMInv ==
  ASSUME NEW g, NEW L, On(g, L), NEW r \in Ranks, RecvChild(r)
  PROVE  MInv'
<1>1. /\ g \in [Ranks -> InitialTrees] /\ g = given /\ Types /\ Reductions /\ Traversal(g, L)
      /\ \A s \in Ranks : Follows(g, s, L)
  BY Zenon DEF On
<1>2. given' = given /\ \A s \in Ranks \ {r} : Still(s)
  BY <1>1, OthersStill, Zenon DEF Step
<1>3. PICK n, d, e, b, f, P, path :
        /\ n = Len(calls[r]) /\ d = L[n] /\ e = L[n + 1] /\ b = bcast_rank[r]
        /\ f = FromRoot(r) /\ P = pending[r] /\ path = Append(node[r], f)
  OBVIOUS
<1>4. /\ pc[r] = "child" /\ pc' = [pc EXCEPT ![r] = "child"] /\ b # r
      /\ P # << >> /\ RootEntered(r)
      /\ tree' = [tree EXCEPT ![r] = Insert(@, path, [total |-> 0, max |-> 0])]
      /\ q' = [q EXCEPT ![r] = Append(@, path)]
      /\ children_to_process' = [children_to_process EXCEPT ![r] = children_to_process[r] \ {f}]
      /\ pending' = [pending EXCEPT ![r] = Tail(@)]
      /\ Enter(r, "child", b, f)
      /\ round' = round /\ reduced' = reduced /\ node' = node /\ bcast_rank' = bcast_rank
  BY <1>3, Zenon DEF RecvChild, Goto, PushChild, ReceivedErased
<1>5. Coming(g, L, r, n, d)
  BY <1>3, <1>4, ChildStage
<1>6. /\ n > 0 /\ d \in Stages /\ Sound(g, d) /\ d.root = b /\ b \in Ranks
      /\ Len(P) = d.left /\ P \in Seq(Nat) /\ Done(g, r, d)
  BY <1>3, <1>5, Zenon DEF Coming
<1>7. Waiting(g, r, d)
  BY <1>4, <1>5, <1>6, Zenon DEF Coming
<1>8. n < Len(L) /\ (e.op \in {"count", "child"} => f = e.value)
  BY <1>3, <1>4, <1>6, FromRootIs, Zenon
<1>9. Tail(P) \in Seq(Nat) /\ Len(Tail(P)) = d.left - 1 /\ d.left > 0
  <2>1. Tail(P) \in Seq(Nat) /\ Len(Tail(P)) = Len(P) - 1
    BY <1>4, <1>6, QueueHead
  <2>2. Len(P) > 0
    BY <1>4, <1>6, EmptySeq
  <2> QED BY <1>6, <2>1, <2>2, Zenon
<1>10. e \in Stages /\ Sound(g, e) /\ Broadcasts(d, e)
  BY <1>3, <1>5, <1>8, <1>9, Zenon DEF Coming
<1>11. e.op = "child" /\ e.root = b /\ e.left = d.left - 1 /\ e.node = d.node
  BY <1>6, <1>10, Zenon DEF Broadcasts, SameNode
<1>12. f = e.value /\ f \in Nat
  BY <1>8, <1>10, <1>11 DEF Stages
<1>13. node[r] = d.node /\ q[r] = d.q /\ d.node \in Paths /\ d.q \in Seq(Paths)
  BY <1>6 DEF Done, At, Stages
<1>14. path \in Paths /\ path = Append(d.node, e.value)
  BY <1>3, <1>12, <1>13, AppendPath
<1>15. NextStage(g, L, n, r, e)
  BY <1>3, <1>8, Zenon DEF NextStage
<1>16. PICK c : c = [op |-> "child", root |-> b, node |-> e.node, value |-> f]
  OBVIOUS
<1>17. c \in Calls /\ Matches(g, r, c, e)
  BY <1>6, <1>11, <1>12, <1>13, <1>16, RanksAre DEF Calls, Ops, Matches
<1>18. calls' = [calls EXCEPT ![r] = Append(@, c)]
  <2>1. node'[r] = e.node
    BY <1>4, <1>11, <1>13
  <2> QED BY <1>4, <1>16, <2>1, Zenon DEF Enter
<1>19. /\ DOMAIN pc = Ranks /\ DOMAIN pending = Ranks /\ DOMAIN tree = Ranks /\ DOMAIN q = Ranks
       /\ DOMAIN children_to_process = Ranks /\ calls \in [Ranks -> Seq(Calls)]
  BY <1>1 DEF Types
<1>20. /\ pc'[r] = "child" /\ pending'[r] = Tail(P)
       /\ tree'[r] = Insert(tree[r], path, [total |-> 0, max |-> 0])
       /\ q'[r] = Append(q[r], path)
       /\ children_to_process'[r] = children_to_process[r] \ {f}
  BY <1>3, <1>4, <1>19
<1>21. Stands(g, r, e)'
  <2>1. Done(g, r, e)'
    BY <1>4, <1>6, <1>10, <1>14, <1>20, PushedDone
  <2>2. Left(g, r, e) = Left(g, r, d) \ {e.value}
    BY <1>1, <1>6, <1>10, LeftAfter DEF Sound
  <2>3. Waiting(g, r, e)'
    BY <1>7, <1>12, <1>20, <2>2, Zenon DEF Waiting
  <2>4. Len(pending'[r]) = e.left /\ bcast_rank'[r] = e.root /\ e.root # r
    BY <1>3, <1>4, <1>9, <1>11, <1>20, Zenon
  <2>5. InChildren(g, r, e)'
    BY <1>11, <1>20, <2>1, <2>3, <2>4, Zenon DEF InChildren
  <2> QED BY <2>5, Zenon DEF Stands
<1>22. Core(g)' /\ calls' \in [Ranks -> Seq(Calls)]
  BY <1>1, <1>2, <1>3, <1>10, <1>15, <1>17, <1>18, <1>19, <1>21, EnterStage
<1>23. Types'
  <2>1. /\ pc' \in [Ranks -> {"pop", "totals", "count", "child", "next", "reduced"}]
        /\ pending' \in [Ranks -> Seq(Nat)] /\ DOMAIN tree' = Ranks
        /\ children_to_process' \in [Ranks -> SUBSET Nat]
    BY <1>1, <1>3, <1>4, <1>9 DEF Types
  <2>2. q' \in [Ranks -> Seq(Paths)]
    <3>1. Append(q[r], path) \in Seq(Paths)
      BY <1>13, <1>14, AppendTyped
    <3> QED BY <1>1, <1>4, <3>1 DEF Types
  <2> QED BY <1>1, <1>2, <1>4, <1>22, <2>1, <2>2, Zenon DEF Types
<1>24. Reductions'
  BY <1>1, <1>2, <1>4, SameReductions
<1> QED BY <1>1, <1>2, <1>22, <1>23, <1>24, KeepsMInv

\* A rank proposes itself if it has children left.
LEMMA ProposeNextMInv ==
  ASSUME NEW g, NEW L, On(g, L), NEW r \in Ranks, ProposeNext(r)
  PROVE  MInv'
<1>1. /\ g \in [Ranks -> InitialTrees] /\ g = given /\ Types /\ Reductions /\ Traversal(g, L)
      /\ \A s \in Ranks : Follows(g, s, L)
  BY Zenon DEF On
<1>2. given' = given /\ \A s \in Ranks \ {r} : Still(s)
  BY <1>1, OthersStill, Zenon DEF Step
<1>3. PICK n, d, b, left :
        /\ n = Len(calls[r]) /\ d = L[n] /\ b = bcast_rank[r]
        /\ left = IF b = r THEN {} ELSE children_to_process[r]
  OBVIOUS
<1>4. /\ pc[r] = "child" /\ pc' = [pc EXCEPT ![r] = "next"] /\ pending[r] = << >>
      /\ children_to_process' = [children_to_process EXCEPT ![r] = left]
      /\ Enter(r, "next", comm_size, IF left = {} THEN comm_size ELSE r)
      /\ round' = round /\ tree' = tree /\ reduced' = reduced /\ q' = q /\ node' = node
      /\ bcast_rank' = bcast_rank /\ pending' = pending
  BY <1>3, Zenon DEF ProposeNext, Goto
<1>5. Coming(g, L, r, n, d)
  BY <1>3, <1>4, ChildStage
<1>6. /\ n \in Nat /\ n > 0 /\ n <= Len(L) /\ Len(L) \in Nat /\ d \in Stages /\ Sound(g, d)
      /\ d.op \in {"count", "child"} /\ d.root = b
      /\ Len(pending[r]) = d.left /\ Done(g, r, d)
  BY <1>3, <1>5, Zenon DEF Coming
<1>7. d.left = 0
  BY <1>4, <1>6
<1>8. left = Left(g, r, d)
  <2>1. CASE b = r
    <3>1. ToSet(pending[r]) = Left(g, r, d)
      BY <1>5, <1>6, <2>1, Zenon DEF Coming
    <3>2. ToSet(pending[r]) = {}
      BY <1>4 DEF ToSet
    <3> QED BY <1>3, <2>1, <3>1, <3>2
  <2>2. CASE b # r
    <3>1. Waiting(g, r, d)
      BY <1>5, <1>6, <2>2, Zenon DEF Coming
    <3> QED BY <1>3, <2>2, <3>1, Zenon DEF Waiting
  <2> QED BY <2>1, <2>2
<1>9. \E e \in Stages : /\ NextStage(g, L, n, r, e)
                        /\ e.op = "next" /\ e.root = comm_size /\ Waits(d, e)
  <2>1. CASE n < Len(L)
    <3>1. L[n + 1] \in Stages /\ L[n + 1].op = "next" /\ L[n + 1].root = comm_size /\ Waits(d, L[n + 1])
      BY <1>5, <1>7, <2>1, Zenon DEF Coming
    <3> QED BY <2>1, <3>1, Zenon DEF NextStage
  <2>2. CASE n = Len(L)
    <3> DEFINE e == [round |-> d.round, op |-> "next", root |-> comm_size, node |-> d.node,
                     value |-> 0, q |-> d.q, left |-> 0, pushed |-> d.pushed,
                     visited |-> d.visited]
    <3>1. e \in Stages
      BY <1>6, RanksAre DEF Stages, Ops
    <3>2. e.op = "next" /\ e.root = comm_size /\ Waits(d, e)
      BY DEF Waits, SameNode
    <3> HIDE DEF e
    <3>3. Goes(g, d, e)
      BY <1>6, <1>7, <3>2, Zenon DEF Goes
    <3>4. e.op # "child" /\ e.op \notin {"count", "child"} /\ n # 0
      BY <1>6, <3>2
    <3>5. Sound(g, e)
      BY <1>1, <1>6, <3>1, <3>3, <3>4, SoundStep
    <3>6. NextStage(g, L, n, r, e)
      BY <1>3, <2>2, <3>3, <3>4, <3>5, Zenon DEF NextStage
    <3> QED BY <3>1, <3>2, <3>6
  <2> QED BY <1>6, <2>1, <2>2
<1>10. PICK e \in Stages : /\ NextStage(g, L, n, r, e)
                           /\ e.op = "next" /\ e.root = comm_size /\ Waits(d, e)
  BY <1>9
<1>11. Left(g, r, e) = left /\ Proposes(g, r, e) = IF left = {} THEN comm_size ELSE r
  BY <1>8, <1>10, StaysDone, Zenon DEF Proposes
<1>12. node[r] = d.node /\ d.node = e.node /\ d.node \in Paths
  BY <1>6, <1>10 DEF Done, At, Waits, SameNode, Stages
<1>13. PICK v, c : /\ v = (IF left = {} THEN comm_size ELSE r)
                   /\ c = [op |-> "next", root |-> comm_size, node |-> e.node, value |-> v]
  OBVIOUS
<1>14. c \in Calls /\ Matches(g, r, c, e)
  <2>1. v \in Nat /\ comm_size \in Nat
    BY <1>13, RanksAre
  <2>2. c \in Calls
    BY <1>12, <1>13, <2>1 DEF Calls, Ops
  <2>3. c.op = e.op /\ c.root = e.root /\ c.node = e.node /\ c.value = Proposes(g, r, e)
    BY <1>10, <1>11, <1>13
  <2>4. e.op \notin {"count", "child"} /\ e.op # "totals"
    BY <1>10
  <2> QED BY <2>2, <2>3, <2>4, Zenon DEF Matches
<1>15. calls' = [calls EXCEPT ![r] = Append(@, c)]
  <2>1. node'[r] = e.node
    BY <1>4, <1>12
  <2> QED BY <1>4, <1>13, <2>1, Zenon DEF Enter
<1>16. /\ DOMAIN pc = Ranks /\ DOMAIN children_to_process = Ranks /\ calls \in [Ranks -> Seq(Calls)]
  BY <1>1 DEF Types
<1>17. pc'[r] = "next" /\ children_to_process'[r] = left
  BY <1>4, <1>16
<1>18. Stands(g, r, e)'
  <2>1. Done(g, r, e)'
    BY <1>4, <1>6, <1>10, StaysDone, DoneStill, Zenon
  <2>2. Waiting(g, r, e)'
    BY <1>11, <1>17, Zenon DEF Waiting
  <2>3. InNext(g, r, e)'
    BY <1>10, <1>17, <2>1, <2>2, Zenon DEF InNext
  <2> QED BY <2>3, Zenon DEF Stands
<1>19. Core(g)' /\ calls' \in [Ranks -> Seq(Calls)]
  BY <1>1, <1>2, <1>3, <1>10, <1>14, <1>15, <1>16, <1>18, EnterStage
<1>20. Types'
  <2>1. /\ pc' \in [Ranks -> {"pop", "totals", "count", "child", "next", "reduced"}]
        /\ children_to_process' \in [Ranks -> SUBSET Nat]
    BY <1>1, <1>3, <1>4 DEF Types
  <2> QED BY <1>1, <1>2, <1>4, <1>19, <2>1, Zenon DEF Types
<1>21. Reductions'
  BY <1>1, <1>2, <1>4, SameReductions
<1> QED BY <1>1, <1>2, <1>19, <1>20, <1>21, KeepsMInv

\* All ranks choose the same next broadcasting rank, or are done with the node.
LEMMA FinishNextMInv ==
  ASSUME NEW g, NEW L, On(g, L), NEW r \in Ranks, FinishNext(r)
  PROVE  MInv'
<1>1. /\ g \in [Ranks -> InitialTrees] /\ g = given /\ Types /\ Reductions /\ Traversal(g, L)
      /\ \A s \in Ranks : Follows(g, s, L)
  BY Zenon DEF On
<1>2. given' = given /\ \A s \in Ranks \ {r} : Still(s)
  BY <1>1, OthersStill, Zenon DEF Step
<1>3. PICK n, e, low, place :
        /\ n = Len(calls[r]) /\ e = L[n] /\ low = LowestProposal(r)
        /\ place = IF low < comm_size THEN "count" ELSE IF q[r] # << >> THEN "pop" ELSE "reduced"
  OBVIOUS
<1>4. /\ pc[r] = "next" /\ AllEntered(r) /\ pc' = [pc EXCEPT ![r] = place]
      /\ bcast_rank' = [bcast_rank EXCEPT ![r] = low]
      /\ round' = round /\ tree' = tree /\ reduced' = reduced /\ q' = q /\ node' = node
      /\ children_to_process' = children_to_process /\ pending' = pending /\ calls' = calls
  BY <1>3, Zenon DEF FinishNext, Goto
<1>5. n > 0 /\ e \in Stages /\ Sound(g, e) /\ InNext(g, r, e)
  <2>1. pc[r] # "pop"
    BY <1>4
  <2>2. n > 0 /\ e \in Stages /\ Sound(g, e) /\ Stands(g, r, e)
    BY <1>3, <2>1, StageOf, Zenon
  <2> QED BY <1>4, <2>2, PlaceOf, Zenon
<1>6. e.op = "next" /\ Waiting(g, r, e) /\ Done(g, r, e)
  BY <1>5, Zenon DEF InNext
<1>7. \A s \in Ranks : Matches(g, s, calls[s][n], e)
  BY <1>3, <1>4, <1>5, AllMatch, Zenon
<1>8. low = Lowest(g, e)
  <2>1. \A s \in Ranks : calls[s][n].value = Proposes(g, s, e)
    BY <1>6, <1>7, Zenon DEF Matches
  <2>2. \A s \in Ranks : Contributions(r)[s] = Proposes(g, s, e)
    BY <1>3, <2>1 DEF Contributions
  <2>3. {Contributions(r)[s] : s \in Ranks} = {Proposes(g, s, e) : s \in Ranks}
    BY <2>2, Zenon
  <2> QED BY <1>3, <2>3, Zenon DEF LowestProposal, Lowest
<1>9. low \in Nat /\ (low < comm_size \/ low = comm_size)
  BY <1>8, LowestIs
<1>10. /\ DOMAIN pc = Ranks /\ DOMAIN bcast_rank = Ranks /\ calls \in [Ranks -> Seq(Calls)]
  BY <1>1 DEF Types
<1>11. pc'[r] = place /\ bcast_rank'[r] = low
  BY <1>4, <1>10
<1>12. Done(g, r, e)' /\ Waiting(g, r, e)'
  <2>1. Done(g, r, e)'
    BY <1>4, <1>6, DoneStill, Zenon
  <2>2. Waiting(g, r, e)'
    BY <1>4, <1>6, Zenon DEF Waiting
  <2> QED BY <2>1, <2>2
<1>13. Stands(g, r, e)'
  <2>1. CASE low < comm_size
    <3>1. place = "count"
      BY <1>3, <2>1, Zenon
    <3>2. HasNext(g, r, e)'
      BY <1>6, <1>8, <1>11, <1>12, <2>1, <3>1, Zenon DEF HasNext
    <3> QED BY <3>2, Zenon DEF Stands
  <2>2. CASE low = comm_size
    <3>1. ~ (low < comm_size)
      BY <2>2, RanksAre
    <3>2. place = IF q'[r] # << >> THEN "pop" ELSE "reduced"
      BY <1>3, <1>4, <3>1, Zenon
    <3>3. HasNone(g, r, e)'
      BY <1>6, <1>8, <1>11, <1>12, <2>2, <3>2, Zenon DEF HasNone
    <3> QED BY <3>3, Zenon DEF Stands
  <2> QED BY <1>9, <2>1, <2>2
<1>14. Core(g)'
  <2>1. L[Len(calls'[r])] = e
    BY <1>3, <1>4
  <2>2. Stands(g, r, L[Len(calls[r])])'
    BY <1>13, <2>1, Zenon
  <2> QED BY <1>1, <1>2, <1>3, <1>4, <1>5, <1>10, <2>2, LeaveStage
<1>15. Types'
  <2>1. /\ pc' \in [Ranks -> {"pop", "totals", "count", "child", "next", "reduced"}]
        /\ bcast_rank' \in [Ranks -> Nat]
    BY <1>1, <1>3, <1>4, <1>9 DEF Types
  <2> QED BY <1>1, <1>2, <1>4, <2>1, Zenon DEF Types
<1>16. Reductions'
  BY <1>1, <1>2, <1>4, SameReductions
<1> QED BY <1>1, <1>2, <1>14, <1>15, <1>16, KeepsMInv

\* A rank that is through with a round has the nodes of all ranks, with their sums.
LEMMA ReducedTree ==
  ASSUME NEW g, NEW L, On(g, L), NEW r \in Ranks, pc[r] = "reduced"
  PROVE  LET e == L[Len(calls[r])]
         IN /\ HasNone(g, r, e) /\ e.q = << >> /\ e.round = round[r]
            /\ DOMAIN tree[r] = All(g, round[r])
            /\ \A p \in DOMAIN tree[r] : /\ tree[r][p].total = Whole(g, round[r], p)
                                         /\ tree[r][p].max = Highest(g, round[r], p)
<1>1. PICK n, e : n = Len(calls[r]) /\ e = L[n]
  OBVIOUS
<1>2. e \in Stages /\ Sound(g, e) /\ HasNone(g, r, e) /\ q[r] = << >>
  <2>1. pc[r] # "pop"
    OBVIOUS
  <2>2. e \in Stages /\ Sound(g, e) /\ Stands(g, r, e)
    BY <1>1, <2>1, StageOf, Zenon
  <2> QED BY <2>2, PlaceOf, Zenon
<1>3. /\ e.op = "next" /\ Lowest(g, e) = comm_size /\ round[r] = e.round /\ q[r] = e.q
      /\ DOMAIN tree[r] = DOMAIN Base(g, e.round, r) \cup e.pushed
      /\ \A p \in DOMAIN tree[r] : tree[r][p].total =
           IF p \in e.visited THEN Whole(g, e.round, p) ELSE Own(g, e.round, r, p)
      /\ \A p \in DOMAIN tree[r] : p \in e.visited => tree[r][p].max = Highest(g, e.round, p)
  BY <1>2, Zenon DEF HasNone, Done, At, TreeIs
<1>4. g \in [Ranks -> InitialTrees]
  BY Zenon DEF On
<1>5. e.pushed = All(g, e.round) /\ e.visited = All(g, e.round)
  BY <1>2, <1>3, <1>4, AllFound, Zenon
<1>6. DOMAIN tree[r] = All(g, e.round)
  BY <1>3, <1>5 DEF All
<1> QED BY <1>1, <1>2, <1>3, <1>5, <1>6, Zenon

\* The totals of a result are the sum of the given trees.
LEMMA TotalsOfResult ==
  ASSUME NEW g, NEW t, ResultOf(t, g)
  PROVE  Totals(t) = Merged(g)
<1>1. Totals(t) = [p \in Union(g) |-> t[p].total]
  BY Zenon DEF Totals, ResultOf
<1>2. Merged(g) = [p \in Union(g) |-> Merged(g)[p]]
  BY Zenon DEF Merged
<1>3. \A p \in Union(g) : t[p].total = Merged(g)[p]
  BY Zenon DEF ResultOf
<1> QED BY <1>1, <1>2, <1>3

\* After the first round a rank has the result of it.
LEMMA FirstRound ==
  ASSUME NEW g, NEW L, On(g, L), NEW r \in Ranks, pc[r] = "reduced", round[r] = 1
  PROVE  ResultOf(tree[r], g)
<1>1. /\ DOMAIN tree[r] = All(g, 1)
      /\ \A p \in DOMAIN tree[r] : /\ tree[r][p].total = Whole(g, 1, p)
                                   /\ tree[r][p].max = Highest(g, 1, p)
  BY ReducedTree, Zenon
<1>2. All(g, 1) = Union(g)
  BY Zenon DEF All, Union, Base
<1>3. g \in [Ranks -> InitialTrees]
  BY Zenon DEF On
<1>4. \A p \in Union(g) : tree[r][p].total = Merged(g)[p]
  BY <1>1, <1>2, <1>3, WholeIsMerged, Zenon
<1> QED BY <1>1, <1>2, <1>4, Zenon DEF ResultOf

\* A rank starts the second round with the inverse of its reduced tree.
LEMMA InvertMInv ==
  ASSUME NEW g, NEW L, On(g, L), NEW r \in Ranks, Invert(r)
  PROVE  MInv'
<1>1. /\ g \in [Ranks -> InitialTrees] /\ g = given /\ Types /\ Reductions /\ Traversal(g, L)
      /\ \A s \in Ranks : Follows(g, s, L)
  BY Zenon DEF On
<1>2. given' = given /\ \A s \in Ranks \ {r} : Still(s)
  BY <1>1, OthersStill, Zenon DEF Step
<1>3. PICK n, e : n = Len(calls[r]) /\ e = L[n]
  OBVIOUS
<1>4. /\ round[r] = 1 /\ pc[r] = "reduced" /\ pc' = [pc EXCEPT ![r] = "pop"]
      /\ round' = [round EXCEPT ![r] = 2]
      /\ reduced' = [reduced EXCEPT ![r] = tree[r]]
      /\ tree' = [tree EXCEPT ![r] = Nodes(invert(Totals(tree[r])))]
      /\ q' = [q EXCEPT ![r] = <<Root>>]
      /\ node' = [node EXCEPT ![r] = Root]
      /\ children_to_process' = children_to_process /\ bcast_rank' = bcast_rank
      /\ pending' = pending /\ calls' = calls
  BY Zenon DEF Invert, Goto
<1>5. n > 0
  <2>1. pc[r] # "pop"
    BY <1>4
  <2> QED BY <1>3, <2>1, StageOf, Zenon
<1>6. /\ e.op = "next" /\ Lowest(g, e) = comm_size /\ e.q = << >> /\ e.round = 1
  <2>1. HasNone(g, r, e) /\ e.q = << >> /\ e.round = round[r]
    BY <1>3, <1>4, ReducedTree, Zenon
  <2> QED BY <1>4, <2>1, Zenon DEF HasNone
<1>7. ResultOf(tree[r], g) /\ Totals(tree[r]) = Merged(g)
  BY <1>4, FirstRound, TotalsOfResult
<1>8. /\ DOMAIN pc = Ranks /\ DOMAIN round = Ranks /\ DOMAIN reduced = Ranks /\ DOMAIN tree = Ranks
      /\ DOMAIN q = Ranks /\ DOMAIN node = Ranks /\ calls \in [Ranks -> Seq(Calls)]
  BY <1>1 DEF Types
<1>9. /\ pc'[r] = "pop" /\ round'[r] = 2 /\ q'[r] = <<Root>>
      /\ reduced'[r] = tree[r] /\ tree'[r] = Nodes(invert(Merged(g)))
  BY <1>4, <1>7, <1>8
<1>10. Stands(g, r, e)'
  <2>1. Base(g, 2, r) = invert(Merged(g))
    BY DEF Base
  <2>2. Starts(g, r, 2)'
    BY <1>9, <2>1, Zenon DEF Starts
  <2>3. Again(g, r, e)'
    BY <1>6, <2>2, Zenon DEF Again
  <2> QED BY <2>3, Zenon DEF Stands
<1>11. Core(g)'
  <2>1. L[Len(calls'[r])] = e
    BY <1>3, <1>4
  <2>2. Stands(g, r, L[Len(calls[r])])'
    BY <1>10, <2>1, Zenon
  <2> QED BY <1>1, <1>2, <1>3, <1>4, <1>5, <1>8, <2>2, LeaveStage
<1>12. Types'
  <2>1. /\ round' \in [Ranks -> {1, 2}] /\ DOMAIN tree' = Ranks /\ DOMAIN reduced' = Ranks
        /\ pc' \in [Ranks -> {"pop", "totals", "count", "child", "next", "reduced"}]
    BY <1>1, <1>4 DEF Types
  <2>2. Root \in Paths /\ <<Root>> \in Seq(Paths)
    BY DEF Root, Paths
  <2>3. q' \in [Ranks -> Seq(Paths)] /\ node' \in [Ranks -> Paths]
    BY <1>1, <1>4, <2>2 DEF Types
  <2> QED BY <1>1, <1>2, <1>4, <2>1, <2>3, Zenon DEF Types
<1>13. Reductions'
  <2>1. given' = g
    BY <1>1, <1>2
  <2>2. ASSUME NEW s \in Ranks
        PROVE  IF round'[s] = 1 THEN reduced'[s] = EmptyMap ELSE HasResult(s)'
    <3>1. CASE s = r
      <4>1. round'[s] # 1
        BY <1>9, <3>1
      <4>2. PICK t : t = tree[r]
        OBVIOUS
      <4>3. t = reduced'[s] /\ g = given' /\ ResultOf(t, g)
        BY <1>7, <1>9, <2>1, <3>1, <4>2, Zenon
      <4>4. HasResult(s)'
        BY <4>3, Zenon DEF HasResult
      <4> QED BY <4>1, <4>4
    <3>2. CASE s # r
      <4>1. reduced'[s] = reduced[s] /\ round'[s] = round[s]
        BY <1>4, <1>8, <3>2
      <4>2. IF round[s] = 1 THEN reduced[s] = EmptyMap ELSE HasResult(s)
        BY <1>1, Zenon DEF Reductions
      <4>3. HasResult(s) => HasResult(s)'
        BY <1>2, <4>1, Zenon DEF HasResult
      <4> QED BY <4>1, <4>2, <4>3, Zenon
    <3> QED BY <3>1, <3>2
  <2> QED BY <2>2, Zenon DEF Reductions
<1> QED BY <1>1, <1>2, <1>11, <1>12, <1>13, KeepsMInv

-----------------------------------------------------------------------------
(* The theorems                                                            *)

\* No collective yet, and no stage.
LEMMA InitMInv == Init => MInv
<1> SUFFICES ASSUME Init PROVE MInv
  OBVIOUS
<1>1. /\ given \in [Ranks -> InitialTrees] /\ round = [r \in Ranks |-> 1]
      /\ pc = [r \in Ranks |-> "pop"] /\ tree = [r \in Ranks |-> Nodes(given[r])]
      /\ reduced = [r \in Ranks |-> EmptyMap] /\ q = [r \in Ranks |-> <<Root>>]
      /\ node = [r \in Ranks |-> Root] /\ children_to_process = [r \in Ranks |-> {}]
      /\ bcast_rank = [r \in Ranks |-> 0] /\ pending = [r \in Ranks |-> << >>]
      /\ calls = [r \in Ranks |-> << >>]
  BY Zenon DEF Init
<1>2. Types
  <2>1. Root \in Paths /\ <<Root>> \in Seq(Paths) /\ << >> \in Seq(Nat) /\ << >> \in Seq(Calls)
    BY DEF Root, Paths
  <2> QED BY <1>1, <2>1 DEF Types
<1>3. Reductions
  BY <1>1 DEF Reductions
<1>4. PICK g : g = given
  OBVIOUS
<1>5. Traversal(g, << >>)
  <2>1. << >> \in Seq(Stages) /\ Len(<< >>) = 0 /\ 1 .. 0 = {} /\ 1 .. 0 - 1 = {}
    OBVIOUS
  <2> QED BY <2>1 DEF Traversal
<1>6. ASSUME NEW r \in Ranks PROVE Follows(g, r, << >>)
  <2>1. calls[r] = << >> /\ Len(calls[r]) = 0 /\ 1 .. 0 = {} /\ Len(<< >>) = 0 /\ 0 <= 0 /\ ~ (0 > 0)
    BY <1>1
  <2>2. Base(g, 1, r) = given[r]
    BY <1>4 DEF Base
  <2>3. Starts(g, r, 1)
    BY <1>1, <2>2 DEF Starts
  <2> QED BY <2>1, <2>3 DEF Follows
<1>7. Core(g)
  BY <1>5, <1>6, Zenon DEF Core
<1> QED BY <1>2, <1>3, <1>4, <1>7, Zenon DEF MInv

\* The invariant has its witnesses.
LEMMA OnFromMInv ==
  ASSUME MInv
  PROVE  \E g, L : On(g, L)
<1>1. PICK g, L : g = given /\ Traversal(g, L) /\ \A s \in Ranks : Follows(g, s, L)
  BY Zenon DEF MInv, Core
<1>2. Types /\ Reductions
  BY Zenon DEF MInv
<1>3. g \in [Ranks -> InitialTrees]
  BY <1>1, <1>2, Zenon DEF Types
<1>4. On(g, L)
  BY <1>1, <1>2, <1>3, Zenon DEF On
<1> QED BY <1>4

\* The invariant reads no other variables.
LEMMA StutterMInv ==
  ASSUME MInv, UNCHANGED vars
  PROVE  MInv'
<1>1. PICK g, L : On(g, L)
  BY OnFromMInv, Zenon
<1>2. /\ g = given /\ Types /\ Reductions /\ Traversal(g, L) /\ \A s \in Ranks : Follows(g, s, L)
  BY <1>1, Zenon DEF On
<1>3. /\ given' = given /\ round' = round /\ pc' = pc /\ tree' = tree /\ reduced' = reduced
      /\ q' = q /\ node' = node /\ children_to_process' = children_to_process
      /\ bcast_rank' = bcast_rank /\ pending' = pending /\ calls' = calls
  BY Zenon DEF vars
<1>4. ASSUME NEW s \in Ranks PROVE Follows(g, s, L)'
  <2>1. Still(s) /\ calls'[s] = calls[s]
    BY <1>3, Zenon DEF Still
  <2> QED BY <1>2, <2>1, FollowsStill
<1>5. Core(g)'
  BY <1>2, <1>4, Zenon DEF Core
<1>6. Types'
  BY <1>2, <1>3, Zenon DEF Types
<1>7. Reductions'
  BY <1>2, <1>3, SameReductions
<1> QED BY <1>2, <1>3, <1>5, <1>6, <1>7, KeepsMInv

\* Every step of every rank keeps the invariant.
LEMMA MInvNext == MInv /\ [Next]_vars => MInv'
<1> SUFFICES ASSUME MInv, [Next]_vars PROVE MInv'
  OBVIOUS
<1>1. PICK g, L : On(g, L)
  BY OnFromMInv, Zenon
<1>2. ASSUME NEW r \in Ranks, Step(r) PROVE MInv'
  <2>1. CASE PopNode(r)
    BY <1>1, <2>1, PopNodeMInv
  <2>2. CASE FinishTotals(r)
    BY <1>1, <2>2, FinishTotalsMInv
  <2>3. CASE SendCount(r)
    BY <1>1, <2>3, SendCountMInv
  <2>4. CASE RecvCount(r)
    BY <1>1, <2>4, RecvCountMInv
  <2>5. CASE SendChild(r)
    BY <1>1, <2>5, SendChildMInv
  <2>6. CASE RecvChild(r)
    BY <1>1, <2>6, RecvChildMInv
  <2>7. CASE ProposeNext(r)
    BY <1>1, <2>7, ProposeNextMInv
  <2>8. CASE FinishNext(r)
    BY <1>1, <2>8, FinishNextMInv
  <2>9. CASE Invert(r)
    BY <1>1, <2>9, InvertMInv
  <2> QED BY <1>2, <2>1, <2>2, <2>3, <2>4, <2>5, <2>6, <2>7, <2>8, <2>9, Zenon DEF Step
<1>3. CASE Next
  BY <1>2, <1>3, Zenon DEF Next
<1>4. CASE UNCHANGED vars
  BY <1>4, StutterMInv
<1> QED BY <1>3, <1>4

\* Ranks that follow one traversal make the same collectives.
LEMMA MInvMatches == MInv => CollectivesMatch
<1> SUFFICES ASSUME MInv, NEW r \in Ranks, NEW s \in Ranks, NEW n \in DOMAIN calls[r] \cap DOMAIN calls[s]
             PROVE  /\ calls[r][n].op = calls[s][n].op
                    /\ calls[r][n].root = calls[s][n].root
                    /\ calls[r][n].node = calls[s][n].node
  BY Zenon DEF CollectivesMatch
<1>1. PICK g, L : On(g, L)
  BY OnFromMInv, Zenon
<1>2. Follows(g, r, L) /\ Follows(g, s, L) /\ calls[r] \in Seq(Calls) /\ calls[s] \in Seq(Calls)
  BY <1>1 DEF On, Types
<1>3. n \in 1 .. Len(calls[r]) /\ n \in 1 .. Len(calls[s])
  BY <1>2
<1>4. Matches(g, r, calls[r][n], L[n]) /\ Matches(g, s, calls[s][n], L[n])
  BY <1>2, <1>3, Zenon DEF Follows
<1> QED BY <1>4, Zenon DEF Matches

\* The zeros of the ranks that lack a node are never above the times of those that
\* have it.
LEMMA HighestOfHolders ==
  ASSUME NEW g \in [Ranks -> InitialTrees], NEW p \in Union(g)
  PROVE  Highest(g, 1, p) = Max({g[s][p] : s \in Holders(g, p)})
<1> DEFINE all  == {Own(g, 1, s, p) : s \in Ranks}
           some == {g[s][p] : s \in Holders(g, p)}
<1>1. \A s \in Ranks : Own(g, 1, s, p) \in Nat
  BY OwnTyped
<1>2. \A s \in Holders(g, p) : s \in Ranks /\ Own(g, 1, s, p) = g[s][p]
  BY DEF Own, Base, Holders
<1>3. \A s \in Ranks \ Holders(g, p) : Own(g, 1, s, p) = 0
  BY DEF Own, Base, Holders
<1>4. PICK h : h \in Holders(g, p)
  BY DEF Union, Holders
<1>5. IsFiniteSet(all) /\ all # {} /\ all \subseteq Int
  <2>1. IsFiniteSet(all)
    <3> DEFINE own == [s \in Ranks |-> Own(g, 1, s, p)]
    <3>1. IsFiniteSet({own[s] : s \in Ranks})
      <4> HIDE DEF own
      <4> QED BY RanksAre, ValuesFinite
    <3>2. {own[s] : s \in Ranks} = all
      OBVIOUS
    <3> QED BY <3>1, <3>2, Zenon
  <2>2. Own(g, 1, h, p) \in all
    BY <1>2, <1>4
  <2> QED BY <1>1, <2>1, <2>2
<1>6. some \subseteq all /\ some # {}
  BY <1>2, <1>4
<1>7. IsFiniteSet(some) /\ some \subseteq Int
  <2> HIDE DEF all, some
  <2> QED BY <1>5, <1>6, FS_Subset
<1>8. PICK m, n : m = Max(all) /\ n = Max(some)
  OBVIOUS
<1>9. /\ m \in all /\ \A x \in all : x <= m
      /\ n \in some /\ \A x \in some : x <= n
  <2> HIDE DEF all, some
  <2> QED BY <1>5, <1>6, <1>7, <1>8, MaxIs
<1>10. \A x \in all : x \in some \/ x = 0
  BY <1>2, <1>3
<1>11. n \in all /\ n \in Nat
  BY <1>1, <1>6, <1>9
<1>12. m <= n /\ n <= m
  <2> HIDE DEF all, some
  <2> QED BY <1>5, <1>9, <1>10, <1>11
<1>13. m = n
  <2>1. m \in Int
    BY <1>5, <1>9
  <2> HIDE DEF all, some
  <2> QED BY <1>11, <1>12, <2>1
<1> QED BY <1>8, <1>13, Zenon DEF Highest

\* A rank that is through a traversal has visited every node of every rank.
LEMMA MInvMerged == MInv => TreesMerged
<1> SUFFICES ASSUME MInv, NEW r \in Ranks, reduced[r] # EmptyMap
             PROVE  /\ DOMAIN reduced[r] = UNION {DOMAIN given[s] : s \in Ranks}
                    /\ \A p \in DOMAIN reduced[r] :
                         LET holders == {s \in Ranks : p \in DOMAIN given[s]}
                         IN /\ reduced[r][p].total =
                                 SumOver([s \in holders |-> given[s][p]], holders)
                            /\ reduced[r][p].max = Max({given[s][p] : s \in holders})
  BY Zenon DEF TreesMerged
<1>1. ResultOf(reduced[r], given) /\ given \in [Ranks -> InitialTrees]
  BY Zenon DEF MInv, Reductions, HasResult, Types
<1>2. DOMAIN reduced[r] = Union(given)
  BY <1>1, Zenon DEF ResultOf
<1>3. ASSUME NEW p \in DOMAIN reduced[r]
      PROVE  /\ reduced[r][p].total =
                  SumOver([s \in Holders(given, p) |-> given[s][p]], Holders(given, p))
             /\ reduced[r][p].max = Max({given[s][p] : s \in Holders(given, p)})
  <2>1. /\ p \in Union(given) /\ reduced[r][p].total = Merged(given)[p]
        /\ reduced[r][p].max = Highest(given, 1, p)
    BY <1>1, <1>2, Zenon DEF ResultOf
  <2>2. Merged(given)[p] =
          SumOver([s \in Holders(given, p) |-> given[s][p]], Holders(given, p))
    BY <2>1, Zenon DEF Merged
  <2> QED BY <1>1, <2>1, <2>2, HighestOfHolders, Zenon
<1> QED BY <1>2, <1>3, Zenon DEF Union, Holders

\* The collectives of the ranks pair up (lines 413-472): at every position all
\* ranks call the same, with the same root, for the same node, for any number of
\* ranks, any trees and any order in which the ranks run.
THEOREM CallsPairUp == Spec => []CollectivesMatch
<1>1. Init => MInv
  BY InitMInv
<1>2. MInv /\ [Next]_vars => MInv'
  BY MInvNext
<1>3. MInv => CollectivesMatch
  BY MInvMatches
<1> QED BY <1>1, <1>2, <1>3, PTL DEF Spec

\* After the first reduction every rank has the nodes of all ranks, and with each the
\* sum of the times of those that had it, and the longest of them (lines 411-430).
THEOREM SumsAllTrees == Spec => []TreesMerged
<1>1. Init => MInv
  BY InitMInv
<1>2. MInv /\ [Next]_vars => MInv'
  BY MInvNext
<1>3. MInv => TreesMerged
  BY MInvMerged
<1> QED BY <1>1, <1>2, <1>3, PTL DEF Spec

\* A value that all ranks give is added up once for each of them.
LEMMA SumOfEqual ==
  ASSUME NEW v \in Int
  PROVE  SumOver([s \in Ranks |-> v], Ranks) = comm_size * v
<1> DEFINE f == [s \in Ranks |-> v]
           N == {n \in Nat : n <= comm_size => SumOver(f, 0 .. n - 1) = n * v}
<1>1. 0 \in N
  <2>1. 0 .. 0 - 1 = {}
    OBVIOUS
  <2>2. SumOver(f, {}) = 0
    BY SumEmpty
  <2> QED BY <2>1, <2>2
<1>2. ASSUME NEW n \in Nat, n \in N PROVE n + 1 \in N
  <2>1. ASSUME n + 1 <= comm_size PROVE SumOver(f, 0 .. n) = (n + 1) * v
    <3>1. n \in Ranks /\ n <= comm_size
      BY <2>1, RanksAre DEF Ranks
    <3>2. SumOver(f, 0 .. n - 1) = n * v
      BY <1>2, <3>1
    <3>3. /\ (0 .. n - 1) \cup {n} = 0 .. n /\ n \notin 0 .. n - 1
          /\ 0 .. n \subseteq Ranks
      BY <2>1, RanksAre DEF Ranks
    <3>4. IsFiniteSet(0 .. n - 1)
      <4>1. 0 \in Int /\ n - 1 \in Int
        OBVIOUS
      <4> QED BY <4>1, FS_Interval
    <3>5. \A y \in (0 .. n - 1) \cup {n} : f[y] \in Int
      BY <3>3
    <3>6. f[n] = v
      BY <3>1
    <3> HIDE DEF f
    <3>7. SumOver(f, (0 .. n - 1) \cup {n}) = SumOver(f, 0 .. n - 1) + f[n]
      BY <3>3, <3>4, <3>5, SumAdd
    <3>8. SumOver(f, 0 .. n) = n * v + v
      BY <3>2, <3>3, <3>6, <3>7, Zenon
    <3>9. n * v + v = (n + 1) * v
      OBVIOUS
    <3> QED BY <3>8, <3>9, Zenon
  <2>2. n + 1 - 1 = n
    OBVIOUS
  <2> QED BY <2>1, <2>2
<1>3. Nat \subseteq N
  <2> HIDE DEF N
  <2> QED BY <1>1, <1>2, NatInduct
<1>4. SumOver(f, 0 .. comm_size - 1) = comm_size * v
  <2>1. comm_size \in N /\ comm_size <= comm_size
    BY <1>3, MpiReduceAssumption
  <2> HIDE DEF f
  <2> QED BY <2>1
<1> QED BY <1>4, Zenon DEF Ranks

\* What the second reduction makes of the inverse: every rank starts it with the
\* same tree, so its totals are comm_size times the self times.
InverseMultiplied ==
  \A r \in Ranks : Finished(r) =>
    /\ DOMAIN tree[r] = DOMAIN invert(Totals(reduced[r]))
    /\ \A p \in DOMAIN tree[r] :
         tree[r][p].total = comm_size * invert(Totals(reduced[r]))[p]

\* And in the second round every rank brings the same to a node.
LEMMA MInvMultiplied == MInv => InverseMultiplied
<1> SUFFICES ASSUME MInv, NEW r \in Ranks, Finished(r)
             PROVE  /\ DOMAIN tree[r] = DOMAIN invert(Totals(reduced[r]))
                    /\ \A p \in DOMAIN tree[r] :
                         tree[r][p].total = comm_size * invert(Totals(reduced[r]))[p]
  BY Zenon DEF InverseMultiplied
<1>1. PICK g, L : On(g, L)
  BY OnFromMInv, Zenon
<1>2. /\ g \in [Ranks -> InitialTrees] /\ g = given /\ Reductions
  BY <1>1, Zenon DEF On
<1>3. round[r] = 2 /\ pc[r] = "reduced"
  BY Zenon DEF Finished
<1>4. PICK i : i = invert(Totals(reduced[r]))
  OBVIOUS
<1>5. Totals(reduced[r]) = Merged(g)
  <2>1. round[r] # 1
    BY <1>3
  <2>2. ResultOf(reduced[r], g)
    BY <1>2, <2>1, Zenon DEF Reductions, HasResult
  <2> QED BY <2>2, TotalsOfResult
<1>6. \A s \in Ranks : Base(g, 2, s) = i
  BY <1>4, <1>5 DEF Base
<1>7. /\ DOMAIN tree[r] = All(g, 2)
      /\ \A p \in DOMAIN tree[r] : tree[r][p].total = Whole(g, 2, p)
  <2>1. /\ DOMAIN tree[r] = All(g, round[r])
        /\ \A p \in DOMAIN tree[r] : tree[r][p].total = Whole(g, round[r], p)
    BY <1>1, <1>3, ReducedTree, Zenon
  <2> QED BY <1>3, <2>1, Zenon
<1>8. All(g, 2) = DOMAIN i
  BY <1>6, RanksAre DEF All
<1>9. TimesTree(i)
  BY <1>2, <1>4, <1>5, MergedTree, InvertTree, Zenon
<1>10. ASSUME NEW p \in DOMAIN i PROVE Whole(g, 2, p) = comm_size * i[p]
  <2>1. i[p] \in Int
    BY <1>9 DEF TimesTree
  <2>2. \A s \in Ranks : Own(g, 2, s, p) = i[p]
    BY <1>6, <1>10, Zenon DEF Own
  <2>3. [s \in Ranks |-> Own(g, 2, s, p)] = [s \in Ranks |-> i[p]]
    BY <2>2
  <2> QED BY <2>1, <2>3, SumOfEqual, Zenon DEF Whole
<1> QED BY <1>4, <1>7, <1>8, <1>10, Zenon

\* The totals of the bottom-up tree are comm_size times the self times of all
\* ranks (lines 686-696): for one rank that is what the report says, for more it
\* is not.
THEOREM BottomUpTotals == Spec => []InverseMultiplied
<1>1. Init => MInv
  BY InitMInv
<1>2. MInv /\ [Next]_vars => MInv'
  BY MInvNext
<1>3. MInv => InverseMultiplied
  BY MInvMultiplied
<1> QED BY <1>1, <1>2, <1>3, PTL DEF Spec

=============================================================================
