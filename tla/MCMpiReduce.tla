---------------------------- MODULE MCMpiReduce -----------------------------
(***************************************************************************)
(* Small instances of the MPI reduction for TLC.                           *)
(***************************************************************************)
EXTENDS MpiReduce

\* Every node takes one unit of its own time for each of its frame's number.
RECURSIVE Spent(_, _)
Spent(paths, p) ==
  (IF p = Root THEN 1 ELSE Last(p)) +
  MapThenSumSet(LAMBDA c : Spent(paths, c), ChildrenOf(paths, p))

TreeOn(paths) == [p \in paths |-> Spent(paths, p)]

\* Trees of two frames and depth one.
MCFlatTrees == {TreeOn({Root} \cup {<<f>> : f \in S}) : S \in SUBSET {1, 2}}

\* And of depth two: a frame below its sibling, and below both.
MCTrees ==
  MCFlatTrees \cup {TreeOn({Root, <<1>>, <<1, 2>>}),
                   TreeOn({Root, <<1>>, <<2>>, <<1, 2>>, <<2, 2>>})}

=============================================================================
