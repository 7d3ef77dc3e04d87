----------------------------- MODULE MpiReduce ------------------------------
(***************************************************************************)
(* StackNode::reduce_over_mpi of                                           *)
(* src/profiling/space-time-stack/kp_space_time_stack.cpp, run by every    *)
(* MPI rank: first on the tree of the rank, then on its inverse.           *)
(*                                                                         *)
(* The ranks hold different trees.  They walk them breadth first, in step  *)
(* only through the collectives: MPI matches the n-th collective of one    *)
(* rank with the n-th of every other, whatever the ranks meant by it.      *)
(* Frames are numbers, in the order of children_to_process.                *)
(***************************************************************************)
EXTENDS StackTree, Maps

CONSTANTS
  comm_size,   (* number of ranks                                    *)
  InitialTrees (* the trees a process may hold when it is finalised  *)

Ranks == 0 .. comm_size - 1

\* A tree has finitely many nodes, and with a node its parent.
IsTree(t) ==
  /\ IsFiniteSet(DOMAIN t)
  /\ DOMAIN t \subseteq Seq(Nat)
  /\ Root \in DOMAIN t
  /\ \A p \in DOMAIN t \ {Root} : Front(p) \in DOMAIN t

ASSUME MpiReduceAssumption ==
  /\ comm_size \in Nat \ {0}
  /\ RootFrame \in Nat
  /\ \A t \in InitialTrees : IsTree(t) /\ \A p \in DOMAIN t : t[p] \in Nat

VARIABLES
  given,               (* the trees before the reduction                     *)
  round,               (* 1: the tree, 2: its inverse                        *)
  pc,                  (* where each rank is                                 *)
  tree,                (* path -> [total, max] of each rank                  *)
  reduced,             (* the tree of each rank after round 1                *)
  q,                   (* the queue of nodes                                 *)
  node,                (* the node being processed                           *)
  children_to_process, (* its children that no rank has broadcast            *)
  bcast_rank,          (* the rank that broadcasts                           *)
  pending,             (* broadcasts of children still to come               *)
  calls                (* MPI: the collectives each rank has entered         *)

vars == <<given, round, pc, tree, reduced, q, node, children_to_process,
          bcast_rank, pending, calls>>

Nodes(times) == [p \in DOMAIN times |-> [total |-> times[p], max |-> 0]]
Totals(t)    == [p \in DOMAIN t |-> t[p].total]

Init ==
  /\ given \in [Ranks -> InitialTrees]
  /\ round = [r \in Ranks |-> 1]
  /\ pc = [r \in Ranks |-> "pop"]
  /\ tree = [r \in Ranks |-> Nodes(given[r])]
  /\ reduced = [r \in Ranks |-> EmptyMap]
  /\ q = [r \in Ranks |-> <<Root>>]
  /\ node = [r \in Ranks |-> Root]
  /\ children_to_process = [r \in Ranks |-> {}]
  /\ bcast_rank = [r \in Ranks |-> 0]
  /\ pending = [r \in Ranks |-> << >>]
  /\ calls = [r \in Ranks |-> << >>]

-----------------------------------------------------------------------------
(* MPI.  A call records what it is, the root of a broadcast, the node it    *)
(* was meant for and its value.                                            *)

Enter(r, op, root, value) ==
  calls' = [calls EXCEPT ![r] =
              Append(@, [op |-> op, root |-> root, node |-> node'[r], value |-> value])]

\* A reduction that rank r has entered as its last call returns when all have.
AllEntered(r) == \A s \in Ranks : Len(calls[s]) >= Len(calls[r])

Contributions(r) == [s \in Ranks |-> calls[s][Len(calls[r])].value]

\* A broadcast returns on rank r once the root has entered it.
RootEntered(r) == Len(calls[bcast_rank[r]]) > Len(calls[r])

FromRoot(r) == calls[bcast_rank[r]][Len(calls[r]) + 1].value

Goto(r, from, to) ==
  /\ pc[r] = from
  /\ pc' = [pc EXCEPT ![r] = to]

-----------------------------------------------------------------------------
(* One node                                                                *)

\* The next node of the queue; its times enter the four MPI_Allreduce.
PopNode(r) ==
  /\ Goto(r, "pop", "totals")
  /\ node' = [node EXCEPT ![r] = Head(q[r])]
  /\ q' = [q EXCEPT ![r] = Tail(@)]
  /\ Enter(r, "totals", comm_size, tree[r][Head(q[r])].total)
  /\ UNCHANGED <<given, round, tree, reduced, children_to_process, bcast_rank, pending>>

\* They return the sum and the maximum; the children to broadcast are listed.
FinishTotals(r) ==
  /\ Goto(r, "totals", "count")
  /\ AllEntered(r)
  /\ tree' = [tree EXCEPT ![r][node[r]] =
                [total |-> SumOver(Contributions(r), Ranks),
                 max   |-> Max({Contributions(r)[s] : s \in Ranks})]]
  /\ children_to_process' = [children_to_process EXCEPT ![r] =
       {Last(c) : c \in ChildrenOf(DOMAIN tree[r], node[r])}]
  /\ bcast_rank' = [bcast_rank EXCEPT ![r] = 0]
  /\ UNCHANGED <<given, round, reduced, q, node, pending, calls>>

\* The order of the std::set.
Ascending(frames) ==
  CHOOSE s \in [1 .. Cardinality(frames) -> frames] :
    \A i, j \in DOMAIN s : i < j => s[i] < s[j]

\* The broadcasting rank announces how many children follow.
SendCount(r) ==
  /\ Goto(r, "count", "child")
  /\ bcast_rank[r] = r
  /\ pending' = [pending EXCEPT ![r] = Ascending(children_to_process[r])]
  /\ UNCHANGED <<given, round, tree, reduced, q, node, children_to_process, bcast_rank>>
  /\ Enter(r, "count", r, Cardinality(children_to_process[r]))

\* Mutant: the loop over the children runs once too often.
CountInclusive(r) == FromRoot(r) + 1

nchildren_to_process(r) == FromRoot(r)

RecvCount(r) ==
  /\ Goto(r, "count", "child")
  /\ bcast_rank[r] # r
  /\ RootEntered(r)
  /\ pending' = [pending EXCEPT ![r] = [i \in 1 .. nchildren_to_process(r) |-> 0]]
  /\ UNCHANGED <<given, round, tree, reduced, q, node, children_to_process, bcast_rank>>
  /\ Enter(r, "count", bcast_rank[r], FromRoot(r))

\* get_child and push: a child that this rank lacks becomes an empty node.
PushChild(r, frame) ==
  LET path == Append(node[r], frame)
  IN /\ tree' = [tree EXCEPT ![r] = Insert(@, path, [total |-> 0, max |-> 0])]
     /\ q' = [q EXCEPT ![r] = Append(@, path)]

SendChild(r) ==
  /\ Goto(r, "child", "child")
  /\ bcast_rank[r] = r
  /\ pending[r] # << >>
  /\ PushChild(r, Head(pending[r]))
  /\ pending' = [pending EXCEPT ![r] = Tail(@)]
  /\ UNCHANGED <<given, round, reduced, node, children_to_process, bcast_rank>>
  /\ Enter(r, "child", r, Head(pending[r]))

ReceivedErased(r, frame) == children_to_process[r] \ {frame}

RecvChild(r) ==
  /\ Goto(r, "child", "child")
  /\ bcast_rank[r] # r
  /\ pending[r] # << >>
  /\ RootEntered(r)
  /\ PushChild(r, FromRoot(r))
  /\ children_to_process' = [children_to_process EXCEPT ![r] =
       ReceivedErased(r, FromRoot(r))]
  /\ pending' = [pending EXCEPT ![r] = Tail(@)]
  /\ UNCHANGED <<given, round, reduced, node, bcast_rank>>
  /\ Enter(r, "child", bcast_rank[r], FromRoot(r))

\* The broadcasting rank is through with its children; every rank proposes
\* itself as the next one if it has any left.
ProposeNext(r) ==
  LET left == IF bcast_rank[r] = r THEN {} ELSE children_to_process[r]
  IN /\ Goto(r, "child", "next")
     /\ pending[r] = << >>
     /\ children_to_process' = [children_to_process EXCEPT ![r] = left]
     /\ UNCHANGED <<given, round, tree, reduced, q, node, bcast_rank, pending>>
     /\ Enter(r, "next", comm_size, IF left = {} THEN comm_size ELSE r)

\* Mutant: a rank goes by its own proposal.
OwnProposal(r) == Contributions(r)[r]

\* Mutant: only rank 0 broadcasts its children.
NoMoreRounds(r) == comm_size

LowestProposal(r) == Min({Contributions(r)[s] : s \in Ranks})

\* The lowest proposal broadcasts next; without one the node is finished.
FinishNext(r) ==
  /\ pc[r] = "next"
  /\ AllEntered(r)
  /\ Goto(r, "next", IF LowestProposal(r) < comm_size THEN "count"
                     ELSE IF q[r] # << >> THEN "pop" ELSE "reduced")
  /\ bcast_rank' = [bcast_rank EXCEPT ![r] = LowestProposal(r)]
  /\ UNCHANGED <<given, round, tree, reduced, q, node, children_to_process,
                 pending, calls>>

\* ~State goes on to reduce the inverse of the reduced tree.
Invert(r) ==
  /\ round[r] = 1
  /\ Goto(r, "reduced", "pop")
  /\ round' = [round EXCEPT ![r] = 2]
  /\ reduced' = [reduced EXCEPT ![r] = tree[r]]
  /\ tree' = [tree EXCEPT ![r] = Nodes(invert(Totals(tree[r])))]
  /\ q' = [q EXCEPT ![r] = <<Root>>]
  /\ node' = [node EXCEPT ![r] = Root]
  /\ UNCHANGED <<given, children_to_process, bcast_rank, pending, calls>>

Finished(r) == round[r] = 2 /\ pc[r] = "reduced"

Step(r) ==
  \/ PopNode(r) \/ FinishTotals(r)
  \/ SendCount(r) \/ RecvCount(r)
  \/ SendChild(r) \/ RecvChild(r)
  \/ ProposeNext(r) \/ FinishNext(r)
  \/ Invert(r)

Next == \E r \in Ranks : Step(r)

\* Every rank keeps running: the reduction is straight-line code between
\* collectives that MPI completes.
Spec == Init /\ [][Next]_vars /\ \A r \in Ranks : WF_vars(Step(r))

-----------------------------------------------------------------------------
(* Properties                                                              *)

\* The collectives of the ranks pair up: at every position all ranks make the
\* same call, with the same root, for the same node (lines 413-472).  MPI would
\* pair up different calls without a word, or wait for ever.
CollectivesMatch ==
  \A r, s \in Ranks : \A n \in DOMAIN calls[r] \cap DOMAIN calls[s] :
    /\ calls[r][n].op = calls[s][n].op
    /\ calls[r][n].root = calls[s][n].root
    /\ calls[r][n].node = calls[s][n].node

\* "repeat step 2 broadcasting from that rank until we process all children
\* from all ranks" (lines 422-430): every rank ends up with the nodes of all, with
\* their times added up, and with the longest of them, whoever broadcast a node.
TreesMerged ==
  \A r \in Ranks : reduced[r] # EmptyMap =>
    /\ DOMAIN reduced[r] = UNION {DOMAIN given[s] : s \in Ranks}
    /\ \A p \in DOMAIN reduced[r] :
         LET holders == {s \in Ranks : p \in DOMAIN given[s]}
         IN /\ reduced[r][p].total = SumOver([s \in holders |-> given[s][p]], holders)
            /\ reduced[r][p].max = Max({given[s][p] : s \in holders})

\* All ranks come out of both reductions: no rank waits in a collective that
\* another one never enters (lines 413-472).
Termination == <>(\A r \in Ranks : Finished(r))

\* Both trees are reported with an "<average time>" (lines 690 and 696), total
\* over comm_size.  So the totals of the bottom-up tree are the self times of
\* all ranks, added up once.
BottomUpAverage ==
  \A r \in Ranks : Finished(r) => Totals(tree[r]) = invert(Totals(reduced[r]))

=============================================================================
