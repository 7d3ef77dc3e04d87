----------------------------- MODULE HwmReport ------------------------------
(***************************************************************************)
(* Allocations::print of                                                   *)
(* src/profiling/space-time-stack/kp_space_time_stack.cpp, run by every    *)
(* MPI rank for one space after the other: the ranks find the lowest rank  *)
(* among those with the most memory, and that rank sends its snapshot to   *)
(* rank 0, which prints it.  The snapshot travels as two messages, its     *)
(* length and its text, with one tag for all spaces.  Then                 *)
(* print_process_hwm, which is also all that                               *)
(* src/profiling/memory-hwm-mpi/kp_hwm_mpi.cpp does when it is finalised:  *)
(* three reductions to rank 0.                                             *)
(*                                                                         *)
(* MPI may complete a send early or only when it is received; the model    *)
(* allows both, and promises only the latter.                              *)
(***************************************************************************)
EXTENDS Integers, Sequences, Maps

CONSTANTS
  comm_size, (* number of ranks                                             *)
  NSPACES,   (* number of spaces                                            *)
  Totals,    (* high water marks a rank may have in a space                 *)
  hwm        (* rank -> ru_maxrss of its process                            *)

Ranks  == 0 .. comm_size - 1
Spaces == 1 .. NSPACES

ASSUME HwmReportAssumption ==
  /\ comm_size \in Nat \ {0}
  /\ NSPACES \in Nat \ {0}
  /\ Totals \subseteq Nat
  /\ hwm \in [Ranks -> Nat]

VARIABLES
  total_size,   (* rank -> space -> total_size of the snapshot              *)
  pc,           (* where each rank is                                       *)
  space,        (* the space each rank is at; NSPACES + 1 when it is done   *)
  min_max_rank, (* what each rank knows of the rank that prints             *)
  calls,        (* MPI: the value each rank gave to each of its collectives *)
  sent,         (* MPI: the messages to rank 0 that are under way, by rank  *)
  posted,       (* MPI: rank 0 has posted a receive that is not matched     *)
  received,     (* what the last receive of rank 0 was matched with         *)
  printed,      (* what rank 0 has printed                                  *)
  reductions,   (* how many of the three reductions each rank has entered   *)
  process       (* what rank 0 has printed of the processes                 *)

vars == <<total_size, pc, space, min_max_rank, calls, sent, posted, received, printed,
          reductions, process>>

end == <<reductions, process>>

Init ==
  /\ total_size \in [Ranks -> [Spaces -> Totals]]
  /\ pc = [r \in Ranks |-> "max"]
  /\ space = [r \in Ranks |-> 1]
  /\ min_max_rank = [r \in Ranks |-> comm_size]
  /\ calls = [r \in Ranks |-> <<total_size[r][1]>>]
  /\ sent = [r \in Ranks |-> << >>]
  /\ posted = FALSE
  /\ received = << >>
  /\ printed = << >>
  /\ reductions = [r \in Ranks |-> 0]
  /\ process = << >>

-----------------------------------------------------------------------------
(* MPI                                                                     *)

\* A reduction returns when every rank has entered it.
AllEntered(r) == \A s \in Ranks : Len(calls[s]) >= Len(calls[r])

Contributions(r) == {calls[s][Len(calls[r])] : s \in Ranks}

\* A posted receive takes the oldest message of its source.
Match ==
  LET source == min_max_rank[0]
  IN /\ posted
     /\ sent[source] # << >>
     /\ received' = Head(sent[source])
     /\ sent' = [sent EXCEPT ![source] = Tail(@)]
     /\ posted' = FALSE
     /\ UNCHANGED <<total_size, pc, space, min_max_rank, calls, printed, end>>

-----------------------------------------------------------------------------
(* Who does what once min_max_rank is known, in the order of the code      *)

\* Mutant: the text goes out before its length.
TextFirst == <<"irecv_size", "send_text", "await_size", "irecv_text", "send_size",
               "await_text">>

\* Mutant: the length is sent before the receive is posted.
SendFirst == <<"send_size", "irecv_size", "await_size", "irecv_text", "send_text",
               "await_text">>

Dance == <<"irecv_size", "send_size", "await_size", "irecv_text", "send_text",
           "await_text">>

TakesPart(step, r, source) ==
  IF step \in {"send_size", "send_text"} THEN r = source ELSE r = 0

\* The next step of a rank from position i of the dance.
StepFrom(i, r, source) ==
  LET left == {j \in i .. Len(Dance) : TakesPart(Dance[j], r, source)}
  IN IF left = {} THEN "next" ELSE Dance[Min(left)]

Position(step) == CHOOSE i \in DOMAIN Dance : Dance[i] = step

After(r) == pc' = [pc EXCEPT ![r] = StepFrom(Position(pc[r]) + 1, r, min_max_rank[r])]

-----------------------------------------------------------------------------
(* Allocations::print                                                      *)

\* A rank proposes itself if it has the most memory.
Proposal(r, largest) == IF total_size[r][space[r]] = largest THEN r ELSE comm_size

FinishMax(r) ==
  /\ pc[r] = "max"
  /\ AllEntered(r)
  /\ pc' = [pc EXCEPT ![r] = "min"]
  /\ calls' = [calls EXCEPT ![r] = Append(@, Proposal(r, Max(Contributions(r))))]
  /\ UNCHANGED <<total_size, space, min_max_rank, sent, posted, received, printed, end>>

FinishMin(r) ==
  /\ pc[r] = "min"
  /\ AllEntered(r)
  /\ min_max_rank' = [min_max_rank EXCEPT ![r] = Min(Contributions(r))]
  /\ pc' = [pc EXCEPT ![r] = StepFrom(1, r, Min(Contributions(r)))]
  /\ UNCHANGED <<total_size, space, calls, sent, posted, received, printed, end>>

\* MPI_Irecv of rank 0.
Irecv(r) ==
  /\ pc[r] \in {"irecv_size", "irecv_text"}
  /\ posted' = TRUE
  /\ After(r)
  /\ UNCHANGED <<total_size, space, min_max_rank, calls, sent, received, printed, end>>

\* MPI_Send: the message goes out, and the rank waits for it to be received.
Send(r) ==
  /\ pc[r] \in {"send_size", "send_text"}
  /\ sent' = [sent EXCEPT ![r] = Append(@, [part |-> pc[r], rank |-> r, space |-> space[r]])]
  /\ pc' = [pc EXCEPT ![r] = IF @ = "send_size" THEN "sent_size" ELSE "sent_text"]
  /\ UNCHANGED <<total_size, space, min_max_rank, calls, posted, received, printed, end>>

SendReturns(r) ==
  /\ pc[r] \in {"sent_size", "sent_text"}
  /\ pc' = [pc EXCEPT ![r] =
              StepFrom(Position(IF @ = "sent_size" THEN "send_size" ELSE "send_text") + 1,
                       r, min_max_rank[r])]
  /\ UNCHANGED <<total_size, space, min_max_rank, calls, sent, posted, received, printed, end>>

FinishSend(r) == sent[r] = << >> /\ SendReturns(r)

\* A send that MPI buffers.
FinishEagerSend(r) == sent[r] # << >> /\ SendReturns(r)

WaitReturns == ~ posted

\* MPI_Wait for the length.
AwaitSize(r) ==
  /\ pc[r] = "await_size"
  /\ WaitReturns
  /\ After(r)
  /\ UNCHANGED <<total_size, space, min_max_rank, calls, sent, posted, received, printed, end>>

\* MPI_Wait for the text, which is printed.
AwaitText(r) ==
  /\ pc[r] = "await_text"
  /\ WaitReturns
  /\ After(r)
  /\ printed' = Append(printed, received)
  /\ UNCHANGED <<total_size, space, min_max_rank, calls, sent, posted, received, end>>

\* The loop of ~State goes on to the next space, or is over.
NextSpace(r) ==
  /\ pc[r] = "next"
  /\ space' = [space EXCEPT ![r] = @ + 1]
  /\ IF space[r] < NSPACES
     THEN /\ pc' = [pc EXCEPT ![r] = "max"]
          /\ calls' = [calls EXCEPT ![r] = Append(@, total_size[r][space[r] + 1])]
     ELSE /\ pc' = [pc EXCEPT ![r] = "process"]
          /\ UNCHANGED calls
  /\ UNCHANGED <<total_size, min_max_rank, sent, posted, received, printed, end>>

-----------------------------------------------------------------------------
(* print_process_hwm                                                       *)

\* MPI_Reduce of the maximum, the minimum and the sum, all of them of hwm.  The
\* other ranks need not wait for anyone; rank 0 waits for all before it goes on.
Reduce(r) ==
  /\ pc[r] = "process"
  /\ reductions[r] < 3
  /\ r = 0 /\ reductions[r] > 0 => AllEntered(r)
  /\ calls' = [calls EXCEPT ![r] = Append(@, hwm[r])]
  /\ reductions' = [reductions EXCEPT ![r] = @ + 1]
  /\ UNCHANGED <<total_size, pc, space, min_max_rank, sent, posted, received, printed, process>>

\* What the n-th of the three gives on rank 0.
Reduced(n) == [r \in Ranks |-> calls[r][Len(calls[0]) - 3 + n]]

\* Mutant: every rank divides before the sum is taken.
SumOfShares(values) == SumOver([r \in Ranks |-> values[r] \div comm_size], Ranks)

Average(values) == SumOver(values, Ranks) \div comm_size

PrintProcess(r) ==
  /\ pc[r] = "process"
  /\ reductions[r] = 3
  /\ r = 0 => AllEntered(r)
  /\ process' = IF r # 0 THEN process
                ELSE [max |-> Max({Reduced(1)[s] : s \in Ranks}),
                      min |-> Min({Reduced(2)[s] : s \in Ranks}),
                      ave |-> Average(Reduced(3))]
  /\ pc' = [pc EXCEPT ![r] = "done"]
  /\ UNCHANGED <<total_size, space, min_max_rank, calls, sent, posted, received, printed, reductions>>

Step(r) ==
  \/ FinishMax(r) \/ FinishMin(r)
  \/ Irecv(r) \/ Send(r) \/ FinishSend(r)
  \/ AwaitSize(r) \/ AwaitText(r)
  \/ NextSpace(r)
  \/ Reduce(r) \/ PrintProcess(r)

Next ==
  \/ Match
  \/ \E r \in Ranks : Step(r)
  \/ \E r \in Ranks : FinishEagerSend(r)

\* Ranks keep running and MPI matches what it can; it need not buffer.
Spec ==
  /\ Init /\ [][Next]_vars
  /\ WF_vars(Match)
  /\ \A r \in Ranks : WF_vars(Step(r))

-----------------------------------------------------------------------------
(* Properties                                                              *)

\* "the one with the lowest MPI rank will print its snapshot" (lines 552-555):
\* what rank 0 prints are the texts, never a length, of the lowest of the ranks
\* with the most memory, space by space, however far the senders run ahead.
PrintsLowestMaximum ==
  \A s \in DOMAIN printed :
    /\ printed[s].part = "send_text"
    /\ printed[s].space = s
    /\ printed[s].rank =
         Min({r \in Ranks : \A t \in Ranks : total_size[r][s] >= total_size[t][s]})

\* What rank 0 prints of the processes is the largest, the smallest and the average
\* memory of all ranks: ranks that run ahead into the next reduction, while others
\* are still at their spaces, do not mix the three up (lines 101-119, and
\* kp_hwm_mpi.cpp:54-72).
ProcessHwmIsTrue ==
  process # << >> =>
    process = [max |-> Max({hwm[r] : r \in Ranks}), min |-> Min({hwm[r] : r \in Ranks}),
               ave |-> SumOver(hwm, Ranks) \div comm_size]

\* Every rank comes out of the loop and of the reductions, also when rank 0 sends to
\* itself and MPI buffers nothing (lines 585-609).
Termination == <>(\A r \in Ranks : pc[r] = "done")

=============================================================================
