----------------------------- MODULE StackTree ------------------------------
(***************************************************************************)
(* The trees of StackNode of                                               *)
(* src/profiling/space-time-stack/kp_space_time_stack.cpp.  A node is its  *)
(* path from the root, a tree maps the paths of its nodes to their times.  *)
(***************************************************************************)
EXTENDS Integers, SequencesExt, Maps

CONSTANT RootFrame (* the frame of the root node: no name, kind region *)

Root == << >>

ChildrenOf(paths, path) ==
  {q \in paths : Len(q) = Len(path) + 1 /\ IsPrefix(path, q)}

\* Mutant: the time of the children is not taken off.
whole_time(times, p) == times[p]

\* The time in a node and in none of its children, clipped at zero.
self_time(times, p) ==
  Max({0, times[p] - SumOver(times, ChildrenOf(DOMAIN times, p))})

\* The frames from a node up to the root, which invert walks.
UpwardChain(p) == Append(Reverse(p), RootFrame)

\* invert: the self time of every node is added to the inverted root and along
\* the node's chain.
invert(times) ==
  LET paths == UNION {Prefixes(UpwardChain(p)) : p \in DOMAIN times}
      own   == [p \in DOMAIN times |-> self_time(times, p)]
  IN [path \in paths |->
        SumOver(own, {p \in DOMAIN times : IsPrefix(path, UpwardChain(p))})]

=============================================================================
