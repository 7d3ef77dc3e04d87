----------------------------- MODULE ReportProofs ----------------------------
(***************************************************************************)
(* Theorems about the two reports that put several processes together.     *)
(*                                                                         *)
(* The memory report over MPI, for any number of ranks and spaces and any  *)
(* high water marks: whatever the ranks that run ahead have sent or        *)
(* contributed already, rank 0 prints what it should.                      *)
(*                                                                         *)
(* The kernel timer and the readers of its files, for any kernels, regions *)
(* and names and any number of processes: no call is lost on the way from  *)
(* the callbacks to the report, and what is not tangled is exact.          *)
(*                                                                         *)
(* The two share nothing but the facts about sums and sequences.           *)
(***************************************************************************)
EXTENDS HwmReport, KernelReader, DataFacts

-----------------------------------------------------------------------------
(* The memory report: the inductive invariant                              *)

\* The most memory any rank has in a space, and the rank that prints it.
Largest(s) == Max({total_size[t][s] : t \in Ranks})

Largests(s) == {r \in Ranks : \A t \in Ranks : total_size[r][s] >= total_size[t][s]}

Lowest(s) == Min(Largests(s))

Receiving == {"irecv_size", "await_size", "irecv_text", "await_text"}
Sending   == {"send_size", "sent_size", "send_text", "sent_text"}
AtEnd     == {"process", "done"}
Places    == {"max", "min", "next"} \cup Receiving \cup Sending \cup AtEnd

Messages == [part : {"send_size", "send_text"}, rank : Ranks, space : Spaces]

Types ==
  /\ total_size \in [Ranks -> [Spaces -> Nat]]
  /\ pc \in [Ranks -> Places]
  /\ space \in [Ranks -> 1 .. NSPACES + 1]
  /\ min_max_rank \in [Ranks -> 0 .. comm_size]
  /\ calls \in [Ranks -> Seq(Nat)]
  /\ sent \in [Ranks -> Seq(Messages)]
  /\ posted \in BOOLEAN
  /\ printed \in Seq(Messages)
  /\ reductions \in [Ranks -> 0 .. 3]

\* How many collectives a rank has entered, by the place it is at.
Entered(r) ==
  IF pc[r] \in AtEnd THEN 2 * NSPACES + reductions[r]
  ELSE IF pc[r] = "max" THEN 2 * space[r] - 1 ELSE 2 * space[r]

Counted ==
  \A r \in Ranks :
    /\ pc[r] \in AtEnd <=> space[r] = NSPACES + 1
    /\ pc[r] \notin AtEnd => reductions[r] = 0
    /\ pc[r] = "done" => reductions[r] = 3
    /\ Len(calls[r]) = Entered(r)

Proposed(r, s) == IF total_size[r][s] = Largest(s) THEN r ELSE comm_size

\* What a rank gives to each of its collectives.
Valued ==
  \A r \in Ranks :
    /\ \A s \in Spaces :
         /\ 2 * s - 1 <= Len(calls[r]) => calls[r][2 * s - 1] = total_size[r][s]
         /\ 2 * s <= Len(calls[r]) => calls[r][2 * s] = Proposed(r, s)
    /\ \A i \in 1 .. 3 :
         2 * NSPACES + i <= Len(calls[r]) => calls[r][2 * NSPACES + i] = hwm[r]

\* The ranks agree on who prints, and only that rank and rank 0 take part.
Agreed ==
  \A r \in Ranks :
    /\ pc[r] \in Receiving \cup Sending => min_max_rank[r] = Lowest(space[r])
    /\ pc[r] \in Receiving => r = 0
    /\ pc[r] \in Sending => r = Lowest(space[r])

\* The messages of all spaces in one order.
Code(msg) == IF msg.part = "send_size" THEN 2 * msg.space - 1 ELSE 2 * msg.space

\* The first message a rank has not sent, if it is the one to send it, and the
\* first that rank 0 has not received.
SentTo(r) ==
  IF pc[r] \in {"max", "min", "irecv_size", "send_size"} \cup AtEnd THEN 2 * space[r] - 1
  ELSE IF pc[r] \in {"sent_size", "await_size", "irecv_text", "send_text"} THEN 2 * space[r]
  ELSE 2 * space[r] + 1

ReceivedTo ==
  IF pc[0] \in {"max", "min", "irecv_size"} \cup AtEnd THEN 2 * space[0] - 1
  ELSE IF pc[0] \in {"send_size", "sent_size", "await_size"}
       THEN IF posted THEN 2 * space[0] - 1 ELSE 2 * space[0]
  ELSE IF pc[0] = "irecv_text" THEN 2 * space[0]
  ELSE IF pc[0] \in {"send_text", "sent_text", "await_text"}
       THEN IF posted THEN 2 * space[0] ELSE 2 * space[0] + 1
  ELSE 2 * space[0] + 1

\* Under way from a rank are its messages that rank 0 has not received, in order;
\* and what it has received was sent.
UnderWay(r) ==
  {msg \in Messages : /\ msg.rank = r /\ r = Lowest(msg.space)
                      /\ ReceivedTo <= Code(msg) /\ Code(msg) < SentTo(r)}

InOrder ==
  \A r \in Ranks :
    /\ \A i \in DOMAIN sent[r] : sent[r][i] \in UnderWay(r)
    /\ \A msg \in UnderWay(r) : \E i \in DOMAIN sent[r] : sent[r][i] = msg
    /\ \A i, j \in DOMAIN sent[r] : i < j => Code(sent[r][i]) < Code(sent[r][j])
    /\ \A msg \in Messages :
         msg.rank = r /\ r = Lowest(msg.space) /\ Code(msg) < ReceivedTo => Code(msg) < SentTo(r)

Text(s) == [part |-> "send_text", rank |-> Lowest(s), space |-> s]

Printed ==
  /\ posted => pc[0] \in {"send_size", "sent_size", "await_size",
                          "send_text", "sent_text", "await_text"}
  /\ pc[0] \in {"send_text", "sent_text", "await_text"} /\ ~ posted =>
       received = Text(space[0])
  /\ Len(printed) = IF pc[0] = "next" THEN space[0] ELSE space[0] - 1
  /\ \A s \in DOMAIN printed : printed[s] = Text(s)

HInv == Types /\ Counted /\ Valued /\ Agreed /\ InOrder /\ Printed /\ ProcessHwmIsTrue

-----------------------------------------------------------------------------
(* Lemmas                                                                  *)

\* What the assumption says of ranks and spaces.
LEMMA Ranked ==
  /\ 0 \in Ranks /\ Ranks \subseteq Nat /\ comm_size \in Nat
  /\ \A r \in Ranks : r < comm_size
  /\ IsFiniteSet(Ranks)
  /\ NSPACES \in Nat /\ 1 <= NSPACES /\ 1 \in Spaces
  /\ \A s \in Spaces : s \in Nat /\ 1 <= s /\ s <= NSPACES
<1>1. comm_size \in Nat \ {0} /\ NSPACES \in Nat \ {0}
  BY HwmReportAssumption
<1>2. IsFiniteSet(Ranks)
  <2>1. comm_size - 1 \in Int
    BY <1>1
  <2> QED BY <2>1, FS_Interval DEF Ranks
<1> QED BY <1>1, <1>2 DEF Ranks, Spaces

\* The rank that prints a space is the first of those with the most memory.
LEMMA LowestIs ==
  ASSUME Types, NEW s \in Spaces
  PROVE  /\ Largest(s) \in Nat
         /\ \A t \in Ranks : total_size[t][s] \in Nat /\ total_size[t][s] <= Largest(s)
         /\ \A r \in Ranks : total_size[r][s] = Largest(s) <=> r \in Largests(s)
         /\ Lowest(s) \in Largests(s)
         /\ Lowest(s) \in Ranks
         /\ \A r \in Largests(s) : Lowest(s) <= r
<1> DEFINE S == {total_size[t][s] : t \in Ranks}
<1>1. \A t \in Ranks : total_size[t][s] \in Nat
  BY DEF Types
<1>2. IsFiniteSet(S) /\ S # {} /\ S \subseteq Int
  <2>1. IsFiniteSet(S)
    <3> DEFINE f == [t \in Ranks |-> total_size[t][s]]
    <3>1. f \in Surjection(Ranks, S)
      BY DEF Surjection
    <3> HIDE DEF f, S
    <3> QED BY <3>1, Ranked, FS_Surjection
  <2> QED BY <1>1, <2>1, Ranked
<1>3. Max(S) \in S /\ \A x \in S : x <= Max(S)
  <2> HIDE DEF S
  <2> QED BY <1>2, MaxIs
<1>4. Largest(s) = Max(S)
  BY DEF Largest
<1>5. /\ Largest(s) \in Nat
      /\ \A t \in Ranks : total_size[t][s] <= Largest(s)
      /\ \E t \in Ranks : total_size[t][s] = Largest(s)
  BY <1>1, <1>3, <1>4
<1> HIDE DEF S
<1>6. \A r \in Ranks : total_size[r][s] = Largest(s) <=> r \in Largests(s)
  BY <1>1, <1>5 DEF Largests
<1>7. Largests(s) \subseteq Ranks /\ Largests(s) # {}
  BY <1>5, <1>6 DEF Largests
<1>8. Lowest(s) \in Largests(s) /\ \A r \in Largests(s) : Lowest(s) <= r
  <2> DEFINE L == Largests(s)
  <2>1. L \subseteq Nat /\ L # {}
    BY <1>7, Ranked
  <2> HIDE DEF L
  <2>2. Min(L) \in L /\ \A r \in L : Min(L) <= r
    BY <2>1, MinIs
  <2> QED BY <2>2 DEF L, Lowest
<1> QED BY <1>1, <1>5, <1>6, <1>7, <1>8

\* Marks that stay make the same rank print.
LEMMA SameLowest ==
  ASSUME total_size' = total_size
  PROVE  /\ \A s : Largest(s)' = Largest(s) /\ Lowest(s)' = Lowest(s)
         /\ \A r, s : Proposed(r, s)' = Proposed(r, s)
BY DEF Largest, Lowest, Largests, Proposed

\* The steps of a rank through the exchange.
LEMMA DanceSteps ==
  /\ Position("irecv_size") = 1 /\ Position("send_size") = 2 /\ Position("await_size") = 3
  /\ Position("irecv_text") = 4 /\ Position("send_text") = 5 /\ Position("await_text") = 6
<1>1. /\ DOMAIN Dance = 1 .. 6
      /\ Dance[1] = "irecv_size" /\ Dance[2] = "send_size" /\ Dance[3] = "await_size"
      /\ Dance[4] = "irecv_text" /\ Dance[5] = "send_text" /\ Dance[6] = "await_text"
  BY DEF Dance
<1>2. \A i \in DOMAIN Dance : i = 1 \/ i = 2 \/ i = 3 \/ i = 4 \/ i = 5 \/ i = 6
  BY <1>1
<1>3. ASSUME NEW k \in 1 .. 6 PROVE Position(Dance[k]) = k
  <2> DEFINE e == Dance[k]
  <2>1. \A i \in DOMAIN Dance : Dance[i] = e => i = k
    BY <1>1, <1>2
  <2>2. k \in DOMAIN Dance /\ Dance[k] = e
    BY <1>1
  <2> HIDE DEF e
  <2>3. Position(e) = k
    BY <2>1, <2>2 DEF Position
  <2> QED BY <2>3 DEF e
<1> QED BY <1>1, <1>3

Follows(r, q) ==
  /\ StepFrom(1, r, q) = IF r = 0 THEN "irecv_size" ELSE IF r = q THEN "send_size" ELSE "next"
  /\ StepFrom(2, r, q) = IF r = q THEN "send_size" ELSE IF r = 0 THEN "await_size" ELSE "next"
  /\ StepFrom(3, r, q) = IF r = 0 THEN "await_size" ELSE IF r = q THEN "send_text" ELSE "next"
  /\ StepFrom(4, r, q) = IF r = 0 THEN "irecv_text" ELSE IF r = q THEN "send_text" ELSE "next"
  /\ StepFrom(5, r, q) = IF r = q THEN "send_text" ELSE IF r = 0 THEN "await_text" ELSE "next"
  /\ StepFrom(6, r, q) = IF r = 0 THEN "await_text" ELSE "next"
  /\ StepFrom(7, r, q) = "next"

\* The steps that follow each step of the dance, for the rank that sends and for
\* the others.
LEMMA NextStep ==
  ASSUME NEW r \in Ranks, NEW q \in Ranks
  PROVE  Follows(r, q)
<1> DEFINE L(i) == {j \in i .. Len(Dance) : TakesPart(Dance[j], r, q)}
<1>1. /\ Len(Dance) = 6
      /\ Dance[1] = "irecv_size" /\ Dance[2] = "send_size" /\ Dance[3] = "await_size"
      /\ Dance[4] = "irecv_text" /\ Dance[5] = "send_text" /\ Dance[6] = "await_text"
  BY DEF Dance
<1>2. /\ \A j \in {1, 3, 4, 6} : TakesPart(Dance[j], r, q) <=> r = 0
      /\ \A j \in {2, 5} : TakesPart(Dance[j], r, q) <=> r = q
  BY <1>1 DEF TakesPart
<1>3. \A i \in 1 .. 7 : \A j : j \in L(i) <=> /\ j \in {1, 2, 3, 4, 5, 6} /\ j >= i
                                              /\ IF j \in {2, 5} THEN r = q ELSE r = 0
  <2> TAKE i \in 1 .. 7
  <2>1. \A j : j \in i .. 6 <=> j \in {1, 2, 3, 4, 5, 6} /\ j >= i
    OBVIOUS
  <2>2. \A j \in {1, 2, 3, 4, 5, 6} : TakesPart(Dance[j], r, q) <=> IF j \in {2, 5} THEN r = q ELSE r = 0
    BY <1>2
  <2> QED BY <1>1, <2>1, <2>2
<1>4. ASSUME NEW i \in 1 .. 7, NEW k \in L(i), \A j \in L(i) : k <= j
      PROVE  StepFrom(i, r, q) = Dance[k]
  <2>1. L(i) \subseteq Nat
    BY <1>3
  <2>2. Min(L(i)) = k
    <3> DEFINE M == L(i)
    <3>1. k \in M /\ M \subseteq Nat /\ \A j \in M : k <= j
      BY <1>4, <2>1
    <3> HIDE DEF M
    <3>2. Min(M) \in M /\ \A j \in M : Min(M) <= j
      BY <3>1, MinIs
    <3>3. Min(M) = k
      <4>1. Min(M) <= k /\ k <= Min(M)
        BY <3>1, <3>2
      <4>2. Min(M) \in Nat /\ k \in Nat
        BY <3>1, <3>2
      <4> QED BY <4>1, <4>2
    <3> QED BY <3>3 DEF M
  <2>3. StepFrom(i, r, q) = Dance[Min(L(i))]
    BY DEF StepFrom
  <2> QED BY <2>2, <2>3
<1>5. ASSUME NEW i \in 1 .. 7, L(i) = {} PROVE StepFrom(i, r, q) = "next"
  BY <1>5 DEF StepFrom
<1> HIDE DEF L
<1>6. StepFrom(7, r, q) = "next"
  <2>1. L(7) = {}
    BY <1>3
  <2> QED BY <1>5, <2>1
<1>7. StepFrom(6, r, q) = IF r = 0 THEN "await_text" ELSE "next"
  <2>1. CASE r = 0
    <3>1. 6 \in L(6) /\ \A j \in L(6) : 6 <= j
      BY <1>3, <2>1
    <3> QED BY <1>1, <1>4, <2>1, <3>1
  <2>2. CASE r # 0
    <3>1. L(6) = {}
      BY <1>3, <2>2
    <3> QED BY <1>5, <2>2, <3>1
  <2> QED BY <2>1, <2>2
<1>8. StepFrom(5, r, q) = IF r = q THEN "send_text" ELSE IF r = 0 THEN "await_text" ELSE "next"
  <2>1. CASE r = q
    <3>1. 5 \in L(5) /\ \A j \in L(5) : 5 <= j
      BY <1>3, <2>1
    <3> QED BY <1>1, <1>4, <2>1, <3>1
  <2>2. CASE ~ (r = q) /\ r = 0
    <3>1. 6 \in L(5) /\ \A j \in L(5) : 6 <= j
      BY <1>3, <2>2
    <3> QED BY <1>1, <1>4, <2>2, <3>1
  <2>3. CASE ~ (r = q) /\ ~ (r = 0)
    <3>1. L(5) = {}
      BY <1>3, <2>3
    <3> QED BY <1>5, <2>3, <3>1
  <2> QED BY <2>1, <2>2, <2>3
<1>9. StepFrom(4, r, q) = IF r = 0 THEN "irecv_text" ELSE IF r = q THEN "send_text" ELSE "next"
  <2>1. CASE r = 0
    <3>1. 4 \in L(4) /\ \A j \in L(4) : 4 <= j
      BY <1>3, <2>1
    <3> QED BY <1>1, <1>4, <2>1, <3>1
  <2>2. CASE ~ (r = 0) /\ r = q
    <3>1. 5 \in L(4) /\ \A j \in L(4) : 5 <= j
      BY <1>3, <2>2
    <3> QED BY <1>1, <1>4, <2>2, <3>1
  <2>3. CASE ~ (r = 0) /\ ~ (r = q)
    <3>1. L(4) = {}
      BY <1>3, <2>3
    <3> QED BY <1>5, <2>3, <3>1
  <2> QED BY <2>1, <2>2, <2>3
<1>10. StepFrom(3, r, q) = IF r = 0 THEN "await_size" ELSE IF r = q THEN "send_text" ELSE "next"
  <2>1. CASE r = 0
    <3>1. 3 \in L(3) /\ \A j \in L(3) : 3 <= j
      BY <1>3, <2>1
    <3> QED BY <1>1, <1>4, <2>1, <3>1
  <2>2. CASE ~ (r = 0) /\ r = q
    <3>1. 5 \in L(3) /\ \A j \in L(3) : 5 <= j
      BY <1>3, <2>2
    <3> QED BY <1>1, <1>4, <2>2, <3>1
  <2>3. CASE ~ (r = 0) /\ ~ (r = q)
    <3>1. L(3) = {}
      BY <1>3, <2>3
    <3> QED BY <1>5, <2>3, <3>1
  <2> QED BY <2>1, <2>2, <2>3
<1>11. StepFrom(2, r, q) = IF r = q THEN "send_size" ELSE IF r = 0 THEN "await_size" ELSE "next"
  <2>1. CASE r = q
    <3>1. 2 \in L(2) /\ \A j \in L(2) : 2 <= j
      BY <1>3, <2>1
    <3> QED BY <1>1, <1>4, <2>1, <3>1
  <2>2. CASE ~ (r = q) /\ r = 0
    <3>1. 3 \in L(2) /\ \A j \in L(2) : 3 <= j
      BY <1>3, <2>2
    <3> QED BY <1>1, <1>4, <2>2, <3>1
  <2>3. CASE ~ (r = q) /\ ~ (r = 0)
    <3>1. L(2) = {}
      BY <1>3, <2>3
    <3> QED BY <1>5, <2>3, <3>1
  <2> QED BY <2>1, <2>2, <2>3
<1>12. StepFrom(1, r, q) = IF r = 0 THEN "irecv_size" ELSE IF r = q THEN "send_size" ELSE "next"
  <2>1. CASE r = 0
    <3>1. 1 \in L(1) /\ \A j \in L(1) : 1 <= j
      BY <1>3, <2>1
    <3> QED BY <1>1, <1>4, <2>1, <3>1
  <2>2. CASE ~ (r = 0) /\ r = q
    <3>1. 2 \in L(1) /\ \A j \in L(1) : 2 <= j
      BY <1>3, <2>2
    <3> QED BY <1>1, <1>4, <2>2, <3>1
  <2>3. CASE ~ (r = 0) /\ ~ (r = q)
    <3>1. L(1) = {}
      BY <1>3, <2>3
    <3> QED BY <1>5, <2>3, <3>1
  <2> QED BY <2>1, <2>2, <2>3
<1> QED BY <1>6, <1>7, <1>8, <1>9, <1>10, <1>11, <1>12 DEF Follows

-----------------------------------------------------------------------------
(* Initial states, and what a step keeps                                   *)

\* No message and no collective at first.
LEMMA InitHInv == Init => HInv
<1> SUFFICES ASSUME Init PROVE HInv
  OBVIOUS
<1>1. /\ \A r \in Ranks : \A s \in Spaces : total_size[r][s] \in Nat
      /\ total_size \in [Ranks -> [Spaces -> Nat]]
  BY HwmReportAssumption, Ranked DEF Init
<1>2. \A r \in Ranks : calls[r] = <<total_size[r][1]>> /\ Len(calls[r]) = 1 /\ calls[r] \in Seq(Nat)
  BY <1>1, Ranked DEF Init
<1>3. Types
  <2>1. calls \in [Ranks -> Seq(Nat)]
    BY <1>1, Ranked DEF Init
  <2>2. NSPACES \in Nat /\ 1 <= NSPACES /\ comm_size \in Nat
    BY Ranked
  <2>3. /\ pc \in [Ranks -> Places]
        /\ space \in [Ranks -> 1 .. NSPACES + 1]
        /\ min_max_rank \in [Ranks -> 0 .. comm_size]
        /\ reductions \in [Ranks -> 0 .. 3]
    BY <2>2 DEF Init, Places
  <2>4. sent \in [Ranks -> Seq(Messages)] /\ printed \in Seq(Messages) /\ posted \in BOOLEAN
    <3>1. << >> \in Seq(Messages)
      OBVIOUS
    <3> QED BY <3>1, Zenon DEF Init
  <2> QED BY <1>1, <2>1, <2>3, <2>4 DEF Types
<1>4. \A r \in Ranks : pc[r] = "max" /\ space[r] = 1 /\ reductions[r] = 0 /\ sent[r] = << >>
  BY DEF Init
<1>5. Counted
  <2> SUFFICES \A r \in Ranks :
        /\ pc[r] \in AtEnd <=> space[r] = NSPACES + 1
        /\ pc[r] \notin AtEnd => reductions[r] = 0
        /\ pc[r] = "done" => reductions[r] = 3
        /\ Len(calls[r]) = Entered(r)
    BY DEF Counted
  <2>1. NSPACES \in Nat /\ 1 <= NSPACES
    BY Ranked
  <2> TAKE r \in Ranks
  <2>2. pc[r] = "max" /\ space[r] = 1 /\ reductions[r] = 0 /\ Len(calls[r]) = 1
    BY <1>2, <1>4
  <2>3. pc[r] \notin AtEnd /\ Entered(r) = 1
    BY <2>2 DEF Entered, AtEnd
  <2> QED BY <2>1, <2>2, <2>3
<1>6. Valued
  <2> SUFFICES \A r \in Ranks :
        /\ \A s \in Spaces :
             /\ 2 * s - 1 <= Len(calls[r]) => calls[r][2 * s - 1] = total_size[r][s]
             /\ 2 * s <= Len(calls[r]) => calls[r][2 * s] = Proposed(r, s)
        /\ \A i \in 1 .. 3 :
             2 * NSPACES + i <= Len(calls[r]) => calls[r][2 * NSPACES + i] = hwm[r]
    BY DEF Valued
  <2>1. \A s \in Spaces : s \in Nat /\ s >= 1
    BY Ranked
  <2>2. ASSUME NEW r \in Ranks, NEW s \in Spaces, 2 * s - 1 <= 1 PROVE s = 1
    BY <2>1, <2>2
  <2>3. ASSUME NEW r \in Ranks, NEW s \in Spaces PROVE ~ (2 * s <= 1)
    BY <2>1
  <2>4. NSPACES \in Nat /\ 1 <= NSPACES
    BY Ranked
  <2>5. \A r \in Ranks : calls[r][1] = total_size[r][1]
    BY <1>2
  <2> TAKE r \in Ranks
  <2>6. Len(calls[r]) = 1 /\ calls[r][1] = total_size[r][1]
    BY <1>2, <2>5
  <2>7. \A s \in Spaces : 2 * s - 1 <= 1 => calls[r][2 * s - 1] = total_size[r][s]
    BY <2>2, <2>6
  <2>8. \A i \in 1 .. 3 : ~ (2 * NSPACES + i <= 1)
    BY <2>4
  <2> QED BY <2>3, <2>6, <2>7, <2>8
<1>7. Agreed
  BY <1>4 DEF Agreed, Receiving, Sending
<1>8. InOrder
  <2>1. ReceivedTo = 1 /\ \A r \in Ranks : SentTo(r) = 1
    BY <1>4, Ranked DEF ReceivedTo, SentTo
  <2>2. \A r \in Ranks : UnderWay(r) = {}
    <3>1. \A msg \in Messages : Code(msg) \in Int
      <4> TAKE msg \in Messages
      <4>1. msg.space \in Spaces
        BY DEF Messages
      <4>2. msg.space \in Nat
        BY <4>1, Ranked
      <4> QED BY <4>2 DEF Code
    <3> QED BY <2>1, <3>1 DEF UnderWay
  <2> QED BY <1>4, <2>1, <2>2 DEF InOrder
<1>9. Printed
  <2>1. pc[0] = "max" /\ space[0] = 1 /\ posted = FALSE /\ printed = << >>
    BY <1>4, Ranked DEF Init
  <2> QED BY <2>1 DEF Printed
<1>10. ProcessHwmIsTrue
  BY DEF Init, ProcessHwmIsTrue
<1> QED BY <1>3, <1>5, <1>6, <1>7, <1>8, <1>9, <1>10 DEF HInv

\* No call, no change of what the calls say.
LEMMA ValuedSame ==
  ASSUME Valued, calls' = calls, total_size' = total_size
  PROVE  Valued'
BY SameLowest DEF Valued

\* A call more has to have the right value for its position.
LEMMA ValuedAppend ==
  ASSUME Types, Valued, total_size' = total_size, NEW r \in Ranks, NEW v \in Nat,
         calls' = [calls EXCEPT ![r] = Append(@, v)],
         \A s \in Spaces :
           /\ Len(calls[r]) + 1 = 2 * s - 1 => v = total_size[r][s]
           /\ Len(calls[r]) + 1 = 2 * s =>
                v = Proposed(r, s),
         \A i \in 1 .. 3 : Len(calls[r]) + 1 = 2 * NSPACES + i => v = hwm[r]
  PROVE  /\ Valued'
         /\ calls' \in [Ranks -> Seq(Nat)]
         /\ Len(calls'[r]) = Len(calls[r]) + 1
         /\ \A t \in Ranks : t # r => calls'[t] = calls[t]
<1>1. /\ calls'[r] = Append(calls[r], v)
      /\ \A t \in Ranks : t # r => calls'[t] = calls[t]
      /\ calls[r] \in Seq(Nat)
      /\ calls' \in [Ranks -> Seq(Nat)]
  BY DEF Types
<1> DEFINE n == Len(calls[r])
<1>2. /\ n \in Nat /\ Len(calls'[r]) = n + 1
      /\ calls'[r][n + 1] = v
      /\ \A k \in 1 .. n : calls'[r][k] = calls[r][k]
  BY <1>1
<1>3. ASSUME NEW t \in Ranks
      PROVE  /\ \A s \in Spaces :
                  /\ 2 * s - 1 <= Len(calls'[t]) => calls'[t][2 * s - 1] = total_size[t][s]
                  /\ 2 * s <= Len(calls'[t]) =>
                       calls'[t][2 * s] = Proposed(t, s)
             /\ \A i \in 1 .. 3 :
                  2 * NSPACES + i <= Len(calls'[t]) => calls'[t][2 * NSPACES + i] = hwm[t]
  <2>1. CASE t # r
    BY <1>1, <2>1 DEF Valued
  <2>2. CASE t = r
    <3> HIDE DEF n
    <3>1. ASSUME NEW s \in Spaces
          PROVE  /\ 2 * s - 1 <= n + 1 => calls'[r][2 * s - 1] = total_size[r][s]
                 /\ 2 * s <= n + 1 =>
                      calls'[r][2 * s] = Proposed(r, s)
      <4>1. s \in Nat /\ s >= 1
        BY Ranked
      <4>2. CASE 2 * s - 1 = n + 1
        BY <1>2, <4>1, <4>2 DEF n
      <4>3. CASE 2 * s = n + 1
        <5>1. 2 * s - 1 <= n /\ 2 * s - 1 \in 1 .. n
          BY <1>2, <4>1, <4>3
        <5>2. calls'[r][2 * s - 1] = total_size[r][s]
          BY <1>2, <5>1 DEF Valued, n
        <5>3. calls'[r][2 * s] = Proposed(r, s)
          BY <1>2, <4>3 DEF n
        <5> QED BY <5>2, <5>3
      <4>4. CASE 2 * s <= n
        <5>1. 2 * s \in 1 .. n /\ 2 * s - 1 \in 1 .. n /\ 2 * s - 1 <= n
          BY <1>2, <4>1, <4>4
        <5>2. /\ calls[r][2 * s - 1] = total_size[r][s]
              /\ calls[r][2 * s] = Proposed(r, s)
          BY <4>4, <5>1 DEF Valued, n
        <5>3. calls'[r][2 * s - 1] = calls[r][2 * s - 1] /\ calls'[r][2 * s] = calls[r][2 * s]
          BY <1>2, <5>1 DEF n
        <5> QED BY <5>2, <5>3
      <4>5. CASE 2 * s - 1 > n + 1
        BY <1>2, <4>1, <4>5 DEF n
      <4>6. 2 * s - 1 = n + 1 \/ 2 * s = n + 1 \/ 2 * s <= n \/ 2 * s - 1 > n + 1
        BY <1>2, <4>1
      <4> QED BY <4>2, <4>3, <4>4, <4>5, <4>6
    <3>2. ASSUME NEW i \in 1 .. 3, 2 * NSPACES + i <= n + 1
          PROVE  calls'[r][2 * NSPACES + i] = hwm[r]
      <4>1. NSPACES \in Nat
        BY Ranked
      <4>2. CASE 2 * NSPACES + i = n + 1
        BY <1>2, <4>2 DEF n
      <4>3. CASE 2 * NSPACES + i <= n
        <5>1. 2 * NSPACES + i \in 1 .. n
          BY <1>2, <4>1, <4>3
        <5> QED BY <1>2, <4>3, <5>1 DEF Valued, n
      <4> QED BY <1>2, <3>2, <4>1, <4>2, <4>3
    <3> QED BY <1>2, <2>2, <3>1, <3>2
  <2> QED BY <2>1, <2>2
<1>4. Valued'
  <2>1. \A t, s : Proposed(t, s)' = Proposed(t, s)
    BY SameLowest
  <2>2. ASSUME NEW t \in Ranks
        PROVE  /\ \A s \in Spaces :
                    /\ 2 * s - 1 <= Len(calls'[t]) => calls'[t][2 * s - 1] = total_size'[t][s]
                    /\ 2 * s <= Len(calls'[t]) =>
                         calls'[t][2 * s] = Proposed(t, s)'
               /\ \A i \in 1 .. 3 :
                    2 * NSPACES + i <= Len(calls'[t]) => calls'[t][2 * NSPACES + i] = hwm[t]
    <3>1. \A s : total_size'[t][s] = total_size[t][s] /\ Proposed(t, s)' = Proposed(t, s)
      BY <2>1
    <3>2. ASSUME NEW s \in Spaces, 2 * s - 1 <= Len(calls'[t])
          PROVE  calls'[t][2 * s - 1] = total_size'[t][s]
      BY <1>3, <3>1, <3>2, Zenon
    <3>3. ASSUME NEW s \in Spaces, 2 * s <= Len(calls'[t])
          PROVE  calls'[t][2 * s] = Proposed(t, s)'
      <4>1. calls'[t][2 * s] = Proposed(t, s)
        BY <1>3, <3>3, Zenon
      <4> QED BY <3>1, <4>1, Zenon
    <3>4. \A i \in 1 .. 3 :
            2 * NSPACES + i <= Len(calls'[t]) => calls'[t][2 * NSPACES + i] = hwm[t]
      BY <1>3, Zenon
    <3> QED BY <3>2, <3>3, <3>4, Zenon
  <2> QED BY <2>2, Zenon DEF Valued
<1> QED BY <1>1, <1>2, <1>4

\* A rank that is not the one to send a space may pass it.
Passes(r, from, to) ==
  \/ to = from
  \/ \E s \in Spaces : r # Lowest(s) /\ from \in 2 * s - 1 .. 2 * s + 1 /\ to \in 2 * s - 1 .. 2 * s + 1

\* Ranks that pass over spaces they do not send keep the order of messages.
LEMMA InOrderSame ==
  ASSUME InOrder, sent' = sent, total_size' = total_size,
         ReceivedTo' = ReceivedTo,
         \A r \in Ranks : Passes(r, SentTo(r), SentTo(r)')
  PROVE  InOrder'
<1>1. ASSUME NEW r \in Ranks, NEW msg \in Messages, r = Lowest(msg.space)
      PROVE  Code(msg) < SentTo(r)' <=> Code(msg) < SentTo(r)
  <2>1. CASE SentTo(r)' = SentTo(r)
    BY <2>1
  <2>2. CASE SentTo(r)' # SentTo(r)
    <3>1. PICK s \in Spaces : /\ r # Lowest(s)
                              /\ SentTo(r) \in 2 * s - 1 .. 2 * s + 1
                              /\ SentTo(r)' \in 2 * s - 1 .. 2 * s + 1
      BY <2>2 DEF Passes
    <3>2. msg.space \in Spaces /\ msg.space # s
      BY <1>1, <3>1 DEF Messages
    <3>3. s \in Nat /\ msg.space \in Nat
      BY <3>1, <3>2, Ranked
    <3>4. Code(msg) \in {2 * msg.space - 1, 2 * msg.space}
      BY DEF Code
    <3>5. CASE msg.space < s
      BY <3>1, <3>3, <3>4, <3>5
    <3>6. CASE msg.space > s
      BY <3>1, <3>3, <3>4, <3>6
    <3> QED BY <3>2, <3>3, <3>5, <3>6
  <2> QED BY <2>1, <2>2
<1>2. \A r \in Ranks : UnderWay(r)' = UnderWay(r)
  BY <1>1, SameLowest DEF UnderWay
<1>3. \A r \in Ranks : \A msg \in Messages :
        msg.rank = r /\ r = Lowest(msg.space)' /\ Code(msg) < ReceivedTo' => Code(msg) < SentTo(r)'
  BY <1>1, SameLowest DEF InOrder
<1> QED BY <1>2, <1>3 DEF InOrder

\* What a step leaves alone.
LEMMA PrintedSame ==
  ASSUME Printed, UNCHANGED <<posted, received, printed, total_size>>, Types,
         pc'[0] = pc[0], space'[0] = space[0]
  PROVE  Printed'
BY SameLowest DEF Printed, Text

\* A rank that is not through has a space to work on.
LEMMA AtSpace ==
  ASSUME HInv, NEW r \in Ranks, pc[r] \notin AtEnd
  PROVE  space[r] \in Spaces /\ Lowest(space[r]) \in Ranks
<1>1. space[r] \in 1 .. NSPACES + 1 /\ space[r] # NSPACES + 1
  BY DEF HInv, Types, Counted
<1>2. space[r] \in Spaces
  BY <1>1, Ranked DEF Spaces
<1> QED BY <1>2, LowestIs DEF HInv

\* Where the other ranks are.
LEMMA Others ==
  ASSUME Types, NEW r \in Ranks, NEW x, pc' = [pc EXCEPT ![r] = x], space' = space
  PROVE  /\ pc'[r] = x
         /\ \A t \in Ranks : t # r => pc'[t] = pc[t] /\ SentTo(t)' = SentTo(t)
         /\ r # 0 /\ posted' = posted => ReceivedTo' = ReceivedTo
<1>1. pc'[r] = x /\ \A t \in Ranks : t # r => pc'[t] = pc[t]
  BY DEF Types
<1>2. \A t \in Ranks : t # r => SentTo(t)' = SentTo(t)
  BY <1>1 DEF SentTo
<1>3. r # 0 => pc'[0] = pc[0]
  BY <1>1, Ranked
<1>4. r # 0 /\ posted' = posted => ReceivedTo' = ReceivedTo
  BY <1>3 DEF ReceivedTo
<1> QED BY <1>1, <1>2, <1>4

\* A step of the exchange keeps all that is not about the messages.
LEMMA ExchangeStep ==
  ASSUME HInv, NEW r \in Ranks, NEW x,
         x \in Receiving \cup Sending \cup {"next"},
         pc[r] \in Receiving \cup Sending,
         x \in Receiving => r = 0,
         x \in Sending => r = Lowest(space[r]),
         pc' = [pc EXCEPT ![r] = x],
         UNCHANGED <<total_size, space, min_max_rank, calls, reductions, process>>,
         sent' \in [Ranks -> Seq(Messages)], posted' \in BOOLEAN, printed' \in Seq(Messages),
         InOrder', Printed'
  PROVE  HInv'
<1> USE DEF HInv
<1>1. pc'[r] = x /\ \A t \in Ranks : t # r => pc'[t] = pc[t]
  BY Others
<1>2. Types'
  BY DEF Types, Places
<1>3. Counted'
  <2>1. /\ pc[r] \notin AtEnd /\ pc[r] # "max" /\ pc[r] # "done"
        /\ x \notin AtEnd /\ x # "max" /\ x # "done"
    BY DEF Receiving, Sending, AtEnd
  <2>2. \A t \in Ranks : /\ pc'[t] \in AtEnd <=> pc[t] \in AtEnd
                         /\ pc'[t] = "done" <=> pc[t] = "done"
                         /\ pc'[t] = "max" <=> pc[t] = "max"
    BY <1>1, <2>1
  <2>3. \A t \in Ranks : Entered(t)' = Entered(t)
    BY <2>2 DEF Entered
  <2> QED BY <2>2, <2>3 DEF Counted
<1>4. Valued'
  BY ValuedSame
<1>5. Agreed'
  <2>1. \A t \in Ranks : Lowest(space[t])' = Lowest(space[t])
    BY SameLowest
  <2>2. min_max_rank[r] = Lowest(space[r])
    BY DEF Agreed
  <2>3. ASSUME NEW t \in Ranks
        PROVE  /\ pc'[t] \in Receiving \cup Sending => min_max_rank'[t] = Lowest(space[t])'
               /\ pc'[t] \in Receiving => t = 0
               /\ pc'[t] \in Sending => t = Lowest(space[t])'
    BY <1>1, <2>1, <2>2 DEF Agreed
  <2> QED BY <2>3 DEF Agreed
<1>6. ProcessHwmIsTrue'
  BY DEF ProcessHwmIsTrue
<1> QED BY <1>2, <1>3, <1>4, <1>5, <1>6

-----------------------------------------------------------------------------
(* The messages                                                            *)

\* Rank 0 posts the receive of the message that comes next.
LEMMA IrecvHInv ==
  ASSUME HInv, NEW r \in Ranks, Irecv(r)
  PROVE  HInv'
<1> USE DEF HInv
<1> DEFINE y == space[r]
           q == Lowest(y)
           x == StepFrom(Position(pc[r]) + 1, r, min_max_rank[r])
<1>1. /\ pc[r] \in {"irecv_size", "irecv_text"}
      /\ posted' = TRUE
      /\ pc' = [pc EXCEPT ![r] = x]
      /\ UNCHANGED <<total_size, space, min_max_rank, calls, sent, received, printed,
                     reductions, process>>
  BY DEF Irecv, After, end
<1>2. r = 0 /\ min_max_rank[r] = q /\ y \in Spaces /\ q \in Ranks /\ y \in Nat
  BY <1>1, AtSpace, Ranked DEF Agreed, Receiving, AtEnd
<1>3. Follows(r, q)
  BY <1>2, NextStep
<1>4. \/ pc[r] = "irecv_size" /\ x = IF r = q THEN "send_size" ELSE "await_size"
      \/ pc[r] = "irecv_text" /\ x = IF r = q THEN "send_text" ELSE "await_text"
  <2> HIDE DEF q
  <2> QED BY <1>1, <1>2, <1>3, DanceSteps DEF Follows
<1> HIDE DEF x, y, q
<1>5. pc'[r] = x /\ \A t \in Ranks : t # r => pc'[t] = pc[t] /\ SentTo(t)' = SentTo(t)
  BY <1>1, Others
<1>6. ReceivedTo' = ReceivedTo
  <2>1. pc'[0] = x /\ posted' = TRUE /\ space'[0] = space[0]
    BY <1>1, <1>2, <1>5
  <2>2. CASE pc[0] = "irecv_size" /\ x \in {"send_size", "await_size"}
    BY <2>1, <2>2 DEF ReceivedTo, AtEnd
  <2>3. CASE pc[0] = "irecv_text" /\ x \in {"send_text", "await_text"}
    BY <2>1, <2>3 DEF ReceivedTo, AtEnd
  <2> QED BY <1>2, <1>4, <2>2, <2>3
<1>7. Passes(r, SentTo(r), SentTo(r)')
  <2>1. CASE r = q
    <3>1. space'[r] = space[r]
      BY <1>1
    <3>2. ASSUME pc[r] = "irecv_size", pc'[r] = "send_size" PROVE SentTo(r)' = SentTo(r)
      BY <3>1, <3>2 DEF SentTo, AtEnd
    <3>3. ASSUME pc[r] = "irecv_text", pc'[r] = "send_text" PROVE SentTo(r)' = SentTo(r)
      BY <3>1, <3>3 DEF SentTo, AtEnd
    <3>4. SentTo(r)' = SentTo(r)
      BY <1>4, <1>5, <2>1, <3>2, <3>3
    <3> QED BY <3>4 DEF Passes
  <2>2. CASE r # q
    <3>1. SentTo(r) \in 2 * y - 1 .. 2 * y + 1 /\ SentTo(r)' \in 2 * y - 1 .. 2 * y + 1
      BY <1>1, <1>2, <1>4, <1>5, <2>2 DEF SentTo, y
    <3> QED BY <1>2, <2>2, <3>1 DEF Passes, q
  <2> QED BY <2>1, <2>2
<1>8. InOrder'
  <2>1. \A t \in Ranks : Passes(t, SentTo(t), SentTo(t)')
    BY <1>5, <1>7 DEF Passes
  <2> QED BY <1>1, <1>6, <2>1, InOrderSame
<1>9. Printed'
  <2>1. pc'[0] \in {"send_size", "await_size", "send_text", "await_text"} /\ pc[0] # "next" /\ pc'[0] # "next"
    BY <1>1, <1>2, <1>4, <1>5
  <2>2. \A s : Text(s)' = Text(s)
    BY <1>1, SameLowest DEF Text
  <2> QED BY <1>1, <2>1, <2>2 DEF Printed
<1>10. /\ x \in Receiving \cup Sending /\ pc[r] \in Receiving
       /\ x \in Sending => r = q
  BY <1>1, <1>4 DEF Receiving, Sending
<1> QED BY <1>1, <1>2, <1>8, <1>9, <1>10, ExchangeStep DEF Types, q, y

\* A message is known by its place in the order.
LEMMA CodeIs ==
  /\ \A m \in Messages : /\ m.space \in Spaces /\ m.space \in Nat
                         /\ Code(m) \in {2 * m.space - 1, 2 * m.space} /\ Code(m) \in Int
  /\ \A a, b \in Messages : a.rank = b.rank /\ Code(a) = Code(b) => a = b
<1>1. ASSUME NEW m \in Messages
      PROVE  /\ m.space \in Spaces /\ m.space \in Nat
             /\ Code(m) \in {2 * m.space - 1, 2 * m.space} /\ Code(m) \in Int
             /\ m.part = "send_size" \/ m.part = "send_text"
             /\ m.part = "send_size" <=> Code(m) = 2 * m.space - 1
             /\ m = [part |-> m.part, rank |-> m.rank, space |-> m.space]
  <2>1. m.space \in Spaces /\ (m.part = "send_size" \/ m.part = "send_text")
    BY DEF Messages
  <2>2. m.space \in Nat
    BY <2>1, Ranked
  <2>3. m = [part |-> m.part, rank |-> m.rank, space |-> m.space]
    BY DEF Messages
  <2> QED BY <2>1, <2>2, <2>3 DEF Code
<1>2. ASSUME NEW a \in Messages, NEW b \in Messages, a.rank = b.rank, Code(a) = Code(b)
      PROVE  a = b
  <2>1. a.space \in Nat /\ b.space \in Nat
    BY <1>1
  <2>2. a.space = b.space
    BY <1>1, <1>2, <2>1
  <2>3. a.part = b.part
    BY <1>1, <1>2, <2>1, <2>2
  <2> QED BY <1>1, <1>2, <2>2, <2>3, Zenon
<1> QED BY <1>1, <1>2

\* A rank comes back from a send.
LEMMA SendReturnsHInv ==
  ASSUME HInv, NEW r \in Ranks, SendReturns(r)
  PROVE  HInv'
<1> USE DEF HInv
<1> DEFINE y == space[r]
           x == pc'[r]
<1>1. /\ pc[r] \in {"sent_size", "sent_text"}
      /\ UNCHANGED <<total_size, space, min_max_rank, calls, sent, posted, received, printed,
                     reductions, process>>
  BY DEF SendReturns, end
<1>2. r = Lowest(y) /\ min_max_rank[r] = r /\ y \in Spaces /\ y \in Nat
  BY <1>1, AtSpace, Ranked DEF Agreed, Sending, AtEnd
<1>3. Follows(r, r)
  BY NextStep
<1>4. /\ pc' = [pc EXCEPT ![r] = x]
      /\ \/ pc[r] = "sent_size" /\ x = IF r = 0 THEN "await_size" ELSE "send_text"
         \/ pc[r] = "sent_text" /\ x = IF r = 0 THEN "await_text" ELSE "next"
  <2>1. CASE pc[r] = "sent_size"
    <3>0. Position(IF pc[r] = "sent_size" THEN "send_size" ELSE "send_text") + 1 = 3
      BY <2>1, DanceSteps
    <3>1. pc' = [pc EXCEPT ![r] = StepFrom(3, r, r)]
      BY <1>2, <3>0, Zenon DEF SendReturns
    <3> QED BY <1>3, <2>1, <3>1 DEF Types, Follows
  <2>2. CASE pc[r] = "sent_text"
    <3>0. Position(IF pc[r] = "sent_size" THEN "send_size" ELSE "send_text") + 1 = 6
      BY <2>2, DanceSteps
    <3>1. pc' = [pc EXCEPT ![r] = StepFrom(6, r, r)]
      BY <1>2, <3>0, Zenon DEF SendReturns
    <3> QED BY <1>3, <2>2, <3>1 DEF Types, Follows
  <2> QED BY <1>1, <2>1, <2>2
<1> HIDE DEF x, y
<1>5. pc'[r] = x /\ \A t \in Ranks : t # r => pc'[t] = pc[t] /\ SentTo(t)' = SentTo(t)
  BY <1>1, <1>4, Others
<1>6. SentTo(r)' = SentTo(r)
  <2>1. space'[r] = space[r]
    BY <1>1
  <2>2. ASSUME pc[r] = "sent_size", pc'[r] \in {"await_size", "send_text"} PROVE SentTo(r)' = SentTo(r)
    BY <2>1, <2>2 DEF SentTo, AtEnd
  <2>3. ASSUME pc[r] = "sent_text", pc'[r] \in {"await_text", "next"} PROVE SentTo(r)' = SentTo(r)
    BY <2>1, <2>3 DEF SentTo, AtEnd
  <2> QED BY <1>4, <1>5, <2>2, <2>3
<1>7. ReceivedTo' = ReceivedTo
  <2>1. CASE r # 0
    BY <1>1, <1>4, <2>1, Others
  <2>2. CASE r = 0
    <3>1. posted' = posted /\ space'[0] = space[0]
      BY <1>1
    <3>2. ASSUME pc[0] = "sent_size", pc'[0] = "await_size" PROVE ReceivedTo' = ReceivedTo
      BY <3>1, <3>2 DEF ReceivedTo, AtEnd
    <3>3. ASSUME pc[0] = "sent_text", pc'[0] = "await_text" PROVE ReceivedTo' = ReceivedTo
      BY <3>1, <3>3 DEF ReceivedTo, AtEnd
    <3> QED BY <1>4, <1>5, <2>2, <3>2, <3>3
  <2> QED BY <2>1, <2>2
<1>8. InOrder'
  <2>1. \A t \in Ranks : Passes(t, SentTo(t), SentTo(t)')
    BY <1>5, <1>6 DEF Passes
  <2> QED BY <1>1, <1>7, <2>1, InOrderSame
<1>9. Printed'
  <2>1. CASE r # 0
    <3>1. pc'[0] = pc[0] /\ space'[0] = space[0]
      BY <1>1, <1>5, <2>1, Ranked
    <3> QED BY <1>1, <3>1, PrintedSame
  <2>2. CASE r = 0
    <3>1. \A s : Text(s)' = Text(s)
      BY <1>1, SameLowest DEF Text
    <3>2. \/ pc[0] = "sent_size" /\ pc'[0] = "await_size"
          \/ pc[0] = "sent_text" /\ pc'[0] = "await_text"
      BY <1>4, <1>5, <2>2
    <3> QED BY <1>1, <3>1, <3>2 DEF Printed
  <2> QED BY <2>1, <2>2
<1>10. /\ pc[r] \in Receiving \cup Sending
       /\ x \in Receiving \cup Sending \cup {"next"}
       /\ x \in Receiving => r = 0
       /\ x \in Sending => r = Lowest(y)
  BY <1>2, <1>4 DEF Receiving, Sending
<1> QED BY <1>1, <1>4, <1>8, <1>9, <1>10, ExchangeStep DEF Types, y

\* Rank 0 has the length.
LEMMA AwaitSizeHInv ==
  ASSUME HInv, NEW r \in Ranks, AwaitSize(r)
  PROVE  HInv'
<1> USE DEF HInv
<1> DEFINE y == space[r]
           q == Lowest(y)
<1>1. /\ pc[r] = "await_size" /\ posted = FALSE
      /\ UNCHANGED <<total_size, space, min_max_rank, calls, sent, posted, received, printed,
                     reductions, process>>
  BY DEF AwaitSize, WaitReturns, end, Types
<1>2. r = 0 /\ min_max_rank[r] = q /\ y \in Spaces /\ q \in Ranks /\ y \in Nat
  BY <1>1, AtSpace, Ranked DEF Agreed, Receiving, AtEnd
<1>3. Follows(r, q)
  BY <1>2, NextStep
<1>4. pc' = [pc EXCEPT ![r] = "irecv_text"]
  <2> HIDE DEF q
  <2>0. Position(pc[r]) + 1 = 4
    BY <1>1, DanceSteps
  <2>1. pc' = [pc EXCEPT ![r] = StepFrom(4, r, q)]
    BY <1>2, <2>0, Zenon DEF AwaitSize, After
  <2> QED BY <1>2, <1>3, <2>1 DEF Follows
<1> HIDE DEF y, q
<1>5. /\ pc'[r] = "irecv_text"
      /\ \A t \in Ranks : t # r => pc'[t] = pc[t] /\ SentTo(t)' = SentTo(t)
  BY <1>1, <1>4, Others
<1>6. SentTo(r)' = SentTo(r)
  BY <1>1, <1>5 DEF SentTo, AtEnd
<1>7. ReceivedTo' = ReceivedTo
  BY <1>1, <1>2, <1>5 DEF ReceivedTo, AtEnd
<1>8. InOrder'
  <2>1. \A t \in Ranks : Passes(t, SentTo(t), SentTo(t)')
    BY <1>5, <1>6 DEF Passes
  <2> QED BY <1>1, <1>7, <2>1, InOrderSame
<1>9. Printed'
  <2>1. \A s : Text(s)' = Text(s)
    BY <1>1, SameLowest DEF Text
  <2> QED BY <1>1, <1>2, <1>5, <2>1 DEF Printed
<1>10. "irecv_text" \in Receiving /\ pc[r] \in Receiving /\ "irecv_text" \notin Sending
  BY <1>1 DEF Receiving, Sending
<1> QED BY <1>1, <1>2, <1>4, <1>8, <1>9, <1>10, ExchangeStep DEF Types

\* Rank 0 prints the text it was sent.
LEMMA AwaitTextHInv ==
  ASSUME HInv, NEW r \in Ranks, AwaitText(r)
  PROVE  HInv'
<1> USE DEF HInv
<1> DEFINE y == space[r]
           q == Lowest(y)
<1>1. /\ pc[r] = "await_text" /\ posted = FALSE
      /\ printed' = Append(printed, received)
      /\ UNCHANGED <<total_size, space, min_max_rank, calls, sent, posted, received,
                     reductions, process>>
  BY DEF AwaitText, WaitReturns, end, Types
<1>2. r = 0 /\ min_max_rank[r] = q /\ y \in Spaces /\ q \in Ranks /\ y \in Nat
  BY <1>1, AtSpace, Ranked DEF Agreed, Receiving, AtEnd
<1>3. Follows(r, q)
  BY <1>2, NextStep
<1>4. pc' = [pc EXCEPT ![r] = "next"]
  <2> HIDE DEF q
  <2>0. Position(pc[r]) + 1 = 7
    BY <1>1, DanceSteps
  <2>1. pc' = [pc EXCEPT ![r] = StepFrom(7, r, q)]
    BY <1>2, <2>0, Zenon DEF AwaitText, After
  <2> QED BY <1>2, <1>3, <2>1 DEF Follows
<1> HIDE DEF y, q
<1>5. /\ pc'[r] = "next"
      /\ \A t \in Ranks : t # r => pc'[t] = pc[t] /\ SentTo(t)' = SentTo(t)
  BY <1>1, <1>4, Others
<1>6. SentTo(r)' = SentTo(r)
  BY <1>1, <1>5 DEF SentTo, AtEnd
<1>7. ReceivedTo' = ReceivedTo
  BY <1>1, <1>2, <1>5 DEF ReceivedTo, AtEnd
<1>8. InOrder'
  <2>1. \A t \in Ranks : Passes(t, SentTo(t), SentTo(t)')
    BY <1>5, <1>6 DEF Passes
  <2> QED BY <1>1, <1>7, <2>1, InOrderSame
<1>9. received = Text(y) /\ Text(y) \in Messages
  <2>1. received = Text(y)
    BY <1>1, <1>2 DEF Printed, y
  <2> QED BY <1>2, <2>1 DEF Text, q, Messages
<1>10. Printed' /\ printed' \in Seq(Messages)
  <2>1. \A s : Text(s)' = Text(s)
    BY <1>1, SameLowest DEF Text
  <2>2. printed \in Seq(Messages) /\ Len(printed) = y - 1
    BY <1>1, <1>2 DEF Types, Printed, y
  <2>3. /\ printed' \in Seq(Messages) /\ Len(printed') = y
        /\ printed'[y] = Text(y)
        /\ \A s \in 1 .. y - 1 : printed'[s] = printed[s]
        /\ DOMAIN printed' = 1 .. y /\ DOMAIN printed = 1 .. y - 1
    BY <1>1, <1>2, <1>9, <2>2
  <2>4. \A s \in DOMAIN printed' : printed'[s] = Text(s)
    <3> TAKE s \in DOMAIN printed'
    <3>1. s = y \/ s \in 1 .. y - 1
      BY <1>2, <2>3
    <3>2. \A k \in 1 .. y - 1 : printed[k] = Text(k)
      BY <2>3 DEF Printed
    <3> QED BY <2>3, <3>1, <3>2
  <2> QED BY <1>1, <1>2, <1>5, <2>1, <2>3, <2>4 DEF Printed, y
<1>11. pc[r] \in Receiving /\ "next" \notin Sending \cup Receiving
  BY <1>1 DEF Receiving, Sending
<1> QED BY <1>1, <1>2, <1>4, <1>8, <1>10, <1>11, ExchangeStep DEF Types

\* A rank sends its length or its text.
LEMMA SendHInv ==
  ASSUME HInv, NEW r \in Ranks, Send(r)
  PROVE  HInv'
<1> USE DEF HInv
<1> DEFINE y == space[r]
           m == [part |-> pc[r], rank |-> r, space |-> y]
           x == IF pc[r] = "send_size" THEN "sent_size" ELSE "sent_text"
<1>1. /\ pc[r] \in {"send_size", "send_text"}
      /\ sent' = [sent EXCEPT ![r] = Append(@, m)]
      /\ pc' = [pc EXCEPT ![r] = x]
      /\ UNCHANGED <<total_size, space, min_max_rank, calls, posted, received, printed,
                     reductions, process>>
  BY DEF Send, end
<1>2. r = Lowest(y) /\ y \in Spaces /\ y \in Nat
  BY <1>1, AtSpace, Ranked DEF Agreed, Sending, AtEnd
<1>3. m \in Messages /\ m.rank = r /\ m.space = y /\ m.part = pc[r]
  BY <1>1, <1>2 DEF Messages
<1> HIDE DEF x
<1>4. pc'[r] = x /\ \A t \in Ranks : t # r => pc'[t] = pc[t] /\ SentTo(t)' = SentTo(t)
  BY <1>1, Others
<1>5. Code(m) = SentTo(r) /\ SentTo(r)' = SentTo(r) + 1 /\ SentTo(r) \in Int
  <2>1. space'[r] = y
    BY <1>1
  <2>2. CASE pc[r] = "send_size"
    <3>1. pc'[r] = "sent_size" /\ m.part = "send_size"
      BY <1>3, <1>4, <2>2 DEF x
    <3> QED BY <1>2, <1>3, <2>1, <2>2, <3>1 DEF SentTo, Code, AtEnd
  <2>3. CASE pc[r] = "send_text"
    <3>1. pc'[r] = "sent_text" /\ m.part = "send_text"
      BY <1>3, <1>4, <2>3 DEF x
    <3> QED BY <1>2, <1>3, <2>1, <2>3, <3>1 DEF SentTo, Code, AtEnd
  <2> QED BY <1>1, <2>2, <2>3
<1> HIDE DEF y, m
<1>6. ReceivedTo' = ReceivedTo /\ ReceivedTo \in Int
  <2>1. ReceivedTo' = ReceivedTo
    <3>1. CASE r # 0
      BY <1>1, <3>1, Others
    <3>2. CASE r = 0
      <4>1. posted' = posted /\ space'[0] = space[0]
        BY <1>1
      <4>2. ASSUME pc[0] = "send_size", pc'[0] = "sent_size" PROVE ReceivedTo' = ReceivedTo
        BY <4>1, <4>2 DEF ReceivedTo, AtEnd
      <4>3. ASSUME pc[0] = "send_text", pc'[0] = "sent_text" PROVE ReceivedTo' = ReceivedTo
        BY <4>1, <4>3 DEF ReceivedTo, AtEnd
      <4> QED BY <1>1, <1>4, <3>2, <4>2, <4>3 DEF x
    <3> QED BY <3>1, <3>2
  <2>2. space[0] \in Int
    BY Ranked DEF Types
  <2> QED BY <2>1, <2>2 DEF ReceivedTo
<1>7. ReceivedTo <= Code(m)
  <2>1. Code(m) < ReceivedTo => Code(m) < SentTo(r)
    BY <1>2, <1>3, Zenon DEF InOrder
  <2> QED BY <1>5, <1>6, <2>1
<1>8. /\ sent[r] \in Seq(Messages)
      /\ sent' \in [Ranks -> Seq(Messages)]
      /\ sent'[r] = Append(sent[r], m)
      /\ \A t \in Ranks : t # r => sent'[t] = sent[t]
  BY <1>1, <1>3 DEF Types
<1>9. \A s : Lowest(s)' = Lowest(s)
  BY <1>1, SameLowest
<1>10. \A t \in Ranks : t # r => UnderWay(t)' = UnderWay(t)
  BY <1>4, <1>6, <1>9 DEF UnderWay
<1>11. \A msg \in Messages : msg \in UnderWay(r)' <=> msg \in UnderWay(r) \/ msg = m
  <2> TAKE msg \in Messages
  <2>1. Code(msg) \in Int
    BY CodeIs
  <2>2. msg.rank = r /\ Code(msg) = Code(m) => msg = m
    BY <1>3, CodeIs
  <2>3. msg = m => msg.rank = r /\ r = Lowest(msg.space)
    BY <1>2, <1>3
  <2>4. Code(msg) < SentTo(r)' <=> Code(msg) < SentTo(r) \/ Code(msg) = Code(m)
    BY <1>5, <2>1
  <2> QED BY <1>5, <1>6, <1>7, <1>9, <2>2, <2>3, <2>4 DEF UnderWay
<1>12. InOrder'
  <2>1. ASSUME NEW t \in Ranks
        PROVE  /\ \A i \in DOMAIN sent'[t] : sent'[t][i] \in UnderWay(t)'
               /\ \A msg \in UnderWay(t)' : \E i \in DOMAIN sent'[t] : sent'[t][i] = msg
               /\ \A i, j \in DOMAIN sent'[t] : i < j => Code(sent'[t][i]) < Code(sent'[t][j])
               /\ \A msg \in Messages :
                    msg.rank = t /\ t = Lowest(msg.space)' /\ Code(msg) < ReceivedTo' =>
                      Code(msg) < SentTo(t)'
    <3>1. CASE t # r
      BY <1>4, <1>6, <1>8, <1>9, <1>10, <3>1 DEF InOrder
    <3>2. CASE t = r
      <4> DEFINE n == Len(sent[r])
      <4>1. /\ n \in Nat /\ DOMAIN sent[r] = 1 .. n /\ DOMAIN sent'[r] = 1 .. n + 1
            /\ sent'[r][n + 1] = m
            /\ \A i \in 1 .. n : sent'[r][i] = sent[r][i]
        BY <1>8
      <4> HIDE DEF n
      <4>2. \A i \in 1 .. n + 1 : i = n + 1 \/ i \in 1 .. n
        BY <4>1
      <4>3. UnderWay(r) \subseteq Messages /\ UnderWay(r)' \subseteq Messages
        BY DEF UnderWay
      <4>4. \A i \in DOMAIN sent'[r] : sent'[r][i] \in UnderWay(r)'
        <5> TAKE i \in DOMAIN sent'[r]
        <5>1. CASE i = n + 1
          BY <1>3, <1>11, <4>1, <5>1
        <5>2. CASE i \in 1 .. n
          <6>1. sent'[r][i] \in UnderWay(r)
            BY <4>1, <5>2 DEF InOrder
          <6> QED BY <1>11, <4>3, <6>1
        <5> QED BY <4>1, <4>2, <5>1, <5>2
      <4>5. \A msg \in UnderWay(r)' : \E i \in DOMAIN sent'[r] : sent'[r][i] = msg
        <5> TAKE msg \in UnderWay(r)'
        <5>1. CASE msg = m
          BY <4>1, <5>1
        <5>2. CASE msg \in UnderWay(r)
          <6>1. PICK i \in 1 .. n : sent[r][i] = msg
            BY <4>1, <5>2 DEF InOrder
          <6> QED BY <4>1, <6>1
        <5> QED BY <1>11, <4>3, <5>1, <5>2
      <4>6. \A i, j \in DOMAIN sent'[r] : i < j => Code(sent'[r][i]) < Code(sent'[r][j])
        <5> SUFFICES ASSUME NEW i \in 1 .. n + 1, NEW j \in 1 .. n + 1, i < j
                     PROVE  Code(sent'[r][i]) < Code(sent'[r][j])
          BY <4>1
        <5>1. i \in 1 .. n
          BY <4>1
        <5>2. CASE j = n + 1
          <6>1. sent[r][i] \in UnderWay(r)
            BY <4>1, <5>1 DEF InOrder
          <6>2. Code(sent[r][i]) < SentTo(r)
            BY <6>1 DEF UnderWay
          <6> QED BY <1>5, <4>1, <5>1, <5>2, <6>2
        <5>3. CASE j \in 1 .. n
          <6>1. Code(sent[r][i]) < Code(sent[r][j])
            BY <4>1, <5>1, <5>3 DEF InOrder
          <6> QED BY <4>1, <5>1, <5>3, <6>1
        <5> QED BY <4>2, <5>2, <5>3
      <4>7. ASSUME NEW msg \in Messages, msg.rank = r, r = Lowest(msg.space)', Code(msg) < ReceivedTo'
            PROVE  Code(msg) < SentTo(r)'
        <5>1. r = Lowest(msg.space) /\ Code(msg) < ReceivedTo
          BY <1>6, <1>9, <4>7
        <5>2. Code(msg) < SentTo(r)
          BY <4>7, <5>1, Zenon DEF InOrder
        <5>3. Code(msg) \in Int
          BY CodeIs
        <5> QED BY <1>5, <5>2, <5>3
      <4> QED BY <3>2, <4>4, <4>5, <4>6, <4>7
    <3> QED BY <3>1, <3>2
  <2> QED BY <2>1, Zenon DEF InOrder
<1>13. Printed'
  <2>1. CASE r # 0
    <3>1. pc'[0] = pc[0] /\ space'[0] = space[0]
      BY <1>1, <1>4, <2>1, Ranked
    <3> QED BY <1>1, <3>1, PrintedSame
  <2>2. CASE r = 0
    <3>1. \A s : Text(s)' = Text(s)
      BY <1>1, SameLowest DEF Text
    <3>2. \/ pc[0] = "send_size" /\ pc'[0] = "sent_size"
          \/ pc[0] = "send_text" /\ pc'[0] = "sent_text"
      BY <1>1, <1>4, <2>2 DEF x
    <3> QED BY <1>1, <3>1, <3>2 DEF Printed
  <2> QED BY <2>1, <2>2
<1>14. pc[r] \in Sending /\ x \in Sending /\ x \notin Receiving
  BY <1>1 DEF Sending, Receiving, x
<1> QED BY <1>1, <1>2, <1>8, <1>12, <1>13, <1>14, ExchangeStep DEF Types, y

\* Rank 0 gets the message it waits for.
LEMMA MatchHInv ==
  ASSUME HInv, Match
  PROVE  HInv'
<1> USE DEF HInv
<1>1. /\ posted = TRUE /\ posted' = FALSE
      /\ sent[min_max_rank[0]] # << >> /\ received' = Head(sent[min_max_rank[0]])
      /\ sent' = [sent EXCEPT ![min_max_rank[0]] = Tail(@)]
      /\ UNCHANGED <<total_size, pc, space, min_max_rank, calls, printed, reductions, process>>
  BY DEF Match, end, Types
<1>2. pc[0] \in {"send_size", "sent_size", "await_size", "send_text", "sent_text", "await_text"}
  BY <1>1 DEF Printed
<1>3. PICK q \in Ranks, y \in Spaces, p \in {"send_size", "send_text"} :
        /\ q = min_max_rank[0] /\ y = space[0] /\ q = Lowest(y) /\ y \in Nat
        /\ p = IF pc[0] \in {"send_size", "sent_size", "await_size"} THEN "send_size" ELSE "send_text"
  <2>1. pc[0] \notin AtEnd /\ pc[0] \in Receiving \cup Sending
    BY <1>2 DEF AtEnd, Receiving, Sending
  <2> QED BY <2>1, AtSpace, Ranked DEF Agreed
<1> DEFINE e == [part |-> p, rank |-> q, space |-> y]
<1>4. e \in Messages /\ e.rank = q /\ e.space = y /\ e.part = p
  BY <1>3 DEF Messages
<1>5. Code(e) = ReceivedTo /\ ReceivedTo' = ReceivedTo + 1 /\ ReceivedTo \in Int
  <2>1. posted' = FALSE /\ pc'[0] = pc[0] /\ space'[0] = y
    BY <1>1, <1>3
  <2>2. CASE pc[0] \in {"send_size", "sent_size", "await_size"}
    <3>1. e.part = "send_size"
      BY <1>3, <1>4, <2>2
    <3>2. Code(e) = 2 * y - 1
      BY <1>4, <3>1 DEF Code
    <3>3. ReceivedTo = 2 * y - 1 /\ ReceivedTo' = 2 * y
      BY <1>1, <1>3, <2>1, <2>2 DEF ReceivedTo, AtEnd
    <3> QED BY <1>3, <3>2, <3>3
  <2>3. CASE pc[0] \in {"send_text", "sent_text", "await_text"}
    <3>1. e.part = "send_text"
      BY <1>3, <1>4, <2>3
    <3>2. Code(e) = 2 * y
      BY <1>4, <3>1 DEF Code
    <3>3. ReceivedTo = 2 * y /\ ReceivedTo' = 2 * y + 1
      BY <1>1, <1>3, <2>1, <2>3 DEF ReceivedTo, AtEnd
    <3> QED BY <1>3, <3>2, <3>3
  <2> QED BY <1>2, <2>2, <2>3
<1>6. e.part = "send_text" <=> pc[0] \in {"send_text", "sent_text", "await_text"}
  BY <1>2, <1>3, <1>4
<1> HIDE DEF e
<1>7. \A t \in Ranks : SentTo(t)' = SentTo(t) /\ SentTo(t) \in Int
  <2>1. \A t \in Ranks : SentTo(t)' = SentTo(t)
    BY <1>1 DEF SentTo
  <2>2. \A t \in Ranks : space[t] \in Int
    BY Ranked DEF Types
  <2> QED BY <2>1, <2>2 DEF SentTo
<1>8. \A s : Lowest(s)' = Lowest(s)
  BY <1>1, SameLowest
<1> DEFINE n == Len(sent[q])
<1>9. /\ n \in Nat /\ n >= 1 /\ DOMAIN sent[q] = 1 .. n
      /\ sent[q] \in Seq(Messages)
      /\ Head(sent[q]) = sent[q][1]
      /\ sent' \in [Ranks -> Seq(Messages)]
      /\ sent'[q] = Tail(sent[q])
      /\ DOMAIN sent'[q] = 1 .. n - 1
      /\ \A i \in 1 .. n - 1 : sent'[q][i] = sent[q][i + 1]
      /\ \A t \in Ranks : t # q => sent'[t] = sent[t]
  <2>1. sent[q] \in Seq(Messages) /\ sent'[q] = Tail(sent[q]) /\ sent[q] # << >>
        /\ \A t \in Ranks : t # q => sent'[t] = sent[t]
    BY <1>1, <1>3 DEF Types
  <2>2. Tail(sent[q]) \in Seq(Messages) /\ Len(Tail(sent[q])) = n - 1 /\ n \in Nat /\ n >= 1
    BY <2>1
  <2>3. sent' \in [Ranks -> Seq(Messages)]
    BY <1>1, <1>3, <2>2 DEF Types
  <2>4. \A i \in 1 .. n - 1 : Tail(sent[q])[i] = sent[q][i + 1]
    BY <2>1, <2>2
  <2>5. DOMAIN sent[q] = 1 .. n /\ DOMAIN Tail(sent[q]) = 1 .. n - 1 /\ Head(sent[q]) = sent[q][1]
    BY <2>1, <2>2
  <2> QED BY <2>1, <2>2, <2>3, <2>4, <2>5
<1> HIDE DEF n
<1>10. \A t \in Ranks : UnderWay(t) \subseteq Messages
  BY DEF UnderWay
<1>11. Code(e) < SentTo(q)
  <2>1. sent[q][1] \in UnderWay(q)
    BY <1>3, <1>9 DEF InOrder
  <2>2. ReceivedTo <= Code(sent[q][1]) /\ Code(sent[q][1]) < SentTo(q) /\ sent[q][1] \in Messages
    BY <2>1 DEF UnderWay
  <2>3. Code(sent[q][1]) \in Int
    BY <2>2, CodeIs
  <2> QED BY <1>3, <1>5, <1>7, <2>2, <2>3
<1>12. sent[q][1] = e
  <2>1. e \in UnderWay(q)
    BY <1>3, <1>4, <1>5, <1>11 DEF UnderWay
  <2>2. PICK i \in 1 .. n : sent[q][i] = e
    BY <1>3, <1>9, <2>1 DEF InOrder
  <2>3. CASE i = 1
    BY <2>2, <2>3
  <2>4. CASE 1 < i
    <3>1. Code(sent[q][1]) < Code(e)
      BY <1>3, <1>9, <2>2, <2>4 DEF InOrder
    <3>2. sent[q][1] \in UnderWay(q)
      BY <1>3, <1>9 DEF InOrder
    <3>3. ReceivedTo <= Code(sent[q][1]) /\ sent[q][1] \in Messages
      BY <3>2 DEF UnderWay
    <3>4. Code(sent[q][1]) \in Int
      BY <3>3, CodeIs
    <3> QED BY <1>5, <3>1, <3>3, <3>4
  <2> QED BY <1>9, <2>3, <2>4
<1>13. \A t \in Ranks : \A msg \in Messages :
         msg.rank = t /\ t = Lowest(msg.space) /\ Code(msg) = ReceivedTo => t = q /\ msg = e
  <2> SUFFICES ASSUME NEW t \in Ranks, NEW msg \in Messages,
                      msg.rank = t, t = Lowest(msg.space), Code(msg) = ReceivedTo
               PROVE  t = q /\ msg = e
    OBVIOUS
  <2>1. /\ msg.space \in Nat
        /\ Code(msg) \in {2 * msg.space - 1, 2 * msg.space}
        /\ Code(e) \in {2 * e.space - 1, 2 * e.space}
    BY <1>4, CodeIs
  <2>2. msg.space = y
    BY <1>3, <1>4, <1>5, <2>1
  <2>3. t = q
    BY <1>3, <2>2
  <2> QED BY <1>4, <1>5, <2>3, CodeIs
<1>14. \A t \in Ranks : t # q => UnderWay(t)' = UnderWay(t)
  <2> SUFFICES ASSUME NEW t \in Ranks, t # q, NEW msg \in Messages, msg.rank = t, t = Lowest(msg.space)
               PROVE  ReceivedTo' <= Code(msg) <=> ReceivedTo <= Code(msg)
    BY <1>7, <1>8 DEF UnderWay
  <2>1. Code(msg) # ReceivedTo
    BY <1>13
  <2>2. Code(msg) \in Int
    BY CodeIs
  <2> QED BY <1>5, <2>1, <2>2
<1>15. \A msg \in Messages : msg \in UnderWay(q)' <=> msg \in UnderWay(q) /\ msg # e
  <2> TAKE msg \in Messages
  <2>1. Code(msg) \in Int
    BY CodeIs
  <2>2. msg = e => Code(msg) = ReceivedTo
    BY <1>5
  <2>3. msg.rank = q /\ q = Lowest(msg.space) /\ Code(msg) = ReceivedTo => msg = e
    BY <1>3, <1>13
  <2>4. ReceivedTo' <= Code(msg) <=> ReceivedTo <= Code(msg) /\ Code(msg) # ReceivedTo
    BY <1>5, <2>1
  <2> QED BY <1>3, <1>7, <1>8, <2>2, <2>3, <2>4 DEF UnderWay
<1>16. InOrder'
  <2>1. ASSUME NEW t \in Ranks
        PROVE  /\ \A i \in DOMAIN sent'[t] : sent'[t][i] \in UnderWay(t)'
               /\ \A msg \in UnderWay(t)' : \E i \in DOMAIN sent'[t] : sent'[t][i] = msg
               /\ \A i, j \in DOMAIN sent'[t] : i < j => Code(sent'[t][i]) < Code(sent'[t][j])
    <3>1. CASE t # q
      BY <1>9, <1>14, <3>1 DEF InOrder
    <3>2. CASE t = q
      <4>1. \A i \in 1 .. n - 1 : i + 1 \in 1 .. n /\ 1 < i + 1
        BY <1>9
      <4>2. \A i \in DOMAIN sent'[q] : sent'[q][i] \in UnderWay(q)'
        <5> SUFFICES ASSUME NEW i \in 1 .. n - 1 PROVE sent[q][i + 1] \in UnderWay(q)'
          BY <1>9
        <5>1. sent[q][i + 1] \in UnderWay(q)
          BY <1>3, <1>9, <4>1 DEF InOrder
        <5>2. Code(sent[q][1]) < Code(sent[q][i + 1])
          BY <1>3, <1>9, <4>1 DEF InOrder
        <5>3. sent[q][i + 1] # e
          BY <1>5, <1>12, <5>2
        <5> QED BY <1>3, <1>10, <1>15, <5>1, <5>3
      <4>3. \A msg \in UnderWay(q)' : \E i \in DOMAIN sent'[q] : sent'[q][i] = msg
        <5> TAKE msg \in UnderWay(q)'
        <5>1. msg \in Messages
          BY DEF UnderWay
        <5>2. msg \in UnderWay(q) /\ msg # e
          BY <1>15, <5>1
        <5>3. PICK k \in 1 .. n : sent[q][k] = msg
          BY <1>3, <1>9, <5>2 DEF InOrder
        <5>4. k # 1
          BY <1>12, <5>2, <5>3
        <5>5. k - 1 \in 1 .. n - 1 /\ (k - 1) + 1 = k
          BY <1>9, <5>4
        <5> QED BY <1>9, <5>3, <5>5
      <4>4. \A i, j \in DOMAIN sent'[q] : i < j => Code(sent'[q][i]) < Code(sent'[q][j])
        <5> SUFFICES ASSUME NEW i \in DOMAIN sent'[q], NEW j \in DOMAIN sent'[q], i < j
                     PROVE  Code(sent'[q][i]) < Code(sent'[q][j])
          OBVIOUS
        <5>1. i \in 1 .. n - 1 /\ j \in 1 .. n - 1
          BY <1>9
        <5>2. i + 1 \in DOMAIN sent[q] /\ j + 1 \in DOMAIN sent[q] /\ i + 1 < j + 1
          BY <1>9, <5>1
        <5>3. Code(sent[q][i + 1]) < Code(sent[q][j + 1])
          BY <1>3, <5>2 DEF InOrder
        <5> QED BY <1>9, <5>1, <5>3
      <4> QED BY <3>2, <4>2, <4>3, <4>4
    <3> QED BY <3>1, <3>2
  <2>2. ASSUME NEW t \in Ranks, NEW msg \in Messages, msg.rank = t, t = Lowest(msg.space)',
               Code(msg) < ReceivedTo'
        PROVE  Code(msg) < SentTo(t)'
    <3>1. t = Lowest(msg.space)
      BY <1>8, <2>2
    <3>2. Code(msg) \in Int
      BY CodeIs
    <3>3. CASE Code(msg) < ReceivedTo
      <4>1. Code(msg) < SentTo(t)
        BY <2>2, <3>1, <3>3, Zenon DEF InOrder
      <4> QED BY <1>7, <4>1
    <3>4. CASE Code(msg) = ReceivedTo
      <4>1. t = q /\ msg = e
        BY <1>13, <2>2, <3>1, <3>4
      <4> QED BY <1>7, <1>11, <4>1
    <3> QED BY <1>5, <2>2, <3>2, <3>3, <3>4
  <2> QED BY <2>1, <2>2, Zenon DEF InOrder
<1>17. Printed'
  <2>1. \A s : Text(s)' = Text(s)
    BY <1>1, SameLowest DEF Text
  <2>2. received' = e
    BY <1>1, <1>3, <1>9, <1>12
  <2>3. pc[0] \in {"send_text", "sent_text", "await_text"} => e = Text(y)
    BY <1>3, <1>6 DEF Text, e
  <2>4. pc'[0] = pc[0] /\ space'[0] = y /\ printed' = printed
    BY <1>1, <1>3
  <2> QED BY <1>1, <1>3, <2>1, <2>2, <2>3, <2>4 DEF Printed
<1>18. Types' /\ Counted' /\ Valued' /\ Agreed' /\ ProcessHwmIsTrue'
  <2>1. Types'
    BY <1>1, <1>9 DEF Types
  <2>2. Counted'
    BY <1>1 DEF Counted, Entered
  <2>3. Valued'
    BY <1>1, ValuedSame
  <2>4. Agreed'
    BY <1>1, <1>8 DEF Agreed
  <2>5. ProcessHwmIsTrue'
    BY <1>1 DEF ProcessHwmIsTrue
  <2> QED BY <2>1, <2>2, <2>3, <2>4, <2>5
<1> QED BY <1>16, <1>17, <1>18

-----------------------------------------------------------------------------
(* The collectives                                                         *)

\* A step of one rank that is not about the messages.
LEMMA QuietStep ==
  ASSUME HInv, NEW r \in Ranks, NEW x, NEW z,
         pc' = [pc EXCEPT ![r] = x], space' = [space EXCEPT ![r] = z],
         UNCHANGED <<total_size, sent, posted, received, printed>>,
         Passes(r, SentTo(r), SentTo(r)'),
         r = 0 => ReceivedTo' = ReceivedTo,
         r = 0 => Printed'
  PROVE  /\ InOrder' /\ Printed'
         /\ pc'[r] = x /\ space'[r] = z
         /\ \A t \in Ranks : t # r => pc'[t] = pc[t] /\ space'[t] = space[t]
<1> USE DEF HInv
<1>1. /\ pc'[r] = x /\ space'[r] = z
      /\ \A t \in Ranks : t # r => pc'[t] = pc[t] /\ space'[t] = space[t]
  BY DEF Types
<1>2. \A t \in Ranks : t # r => SentTo(t)' = SentTo(t)
  BY <1>1 DEF SentTo
<1>3. ReceivedTo' = ReceivedTo /\ Printed'
  <2>1. CASE r = 0
    BY <2>1
  <2>2. CASE r # 0
    <3>1. pc'[0] = pc[0] /\ space'[0] = space[0]
      BY <1>1, <2>2, Ranked
    <3>2. ReceivedTo' = ReceivedTo
      BY <3>1 DEF ReceivedTo
    <3>3. Printed'
      BY <3>1, PrintedSame
    <3> QED BY <3>2, <3>3
  <2> QED BY <2>1, <2>2
<1>4. InOrder'
  <2>1. \A t \in Ranks : Passes(t, SentTo(t), SentTo(t)')
    BY <1>2 DEF Passes
  <2> QED BY <1>3, <2>1, InOrderSame
<1> QED BY <1>1, <1>3, <1>4

\* A rank that waits in a collective has as many calls as its place says, and what
\* the others have given to the same collective is known.
LEMMA Given ==
  ASSUME HInv, NEW r \in Ranks, AllEntered(r)
  PROVE  /\ pc[r] = "max" =>
              Contributions(r) = {total_size[t][space[r]] : t \in Ranks}
         /\ pc[r] = "min" =>
              Contributions(r) = {Proposed(t, space[r]) : t \in Ranks}
<1> USE DEF HInv
<1>1. ASSUME pc[r] = "max"
      PROVE  Contributions(r) = {total_size[t][space[r]] : t \in Ranks}
  <2>1. space[r] \in Spaces
    BY <1>1, AtSpace DEF AtEnd
  <2>2. Len(calls[r]) = 2 * space[r] - 1
    BY <1>1 DEF Counted, Entered, AtEnd
  <2>3. \A t \in Ranks : calls[t][2 * space[r] - 1] = total_size[t][space[r]]
    <3> TAKE t \in Ranks
    <3>1. Len(calls[t]) >= 2 * space[r] - 1 /\ Len(calls[t]) \in Nat /\ space[r] \in Nat
      BY <2>1, <2>2, Ranked DEF AllEntered, Types
    <3>2. 2 * space[r] - 1 <= Len(calls[t])
      BY <3>1
    <3> QED BY <2>1, <3>2 DEF Valued
  <2> QED BY <2>2, <2>3 DEF Contributions
<1>2. ASSUME pc[r] = "min"
      PROVE  Contributions(r) = {Proposed(t, space[r]) : t \in Ranks}
  <2>1. space[r] \in Spaces
    BY <1>2, AtSpace DEF AtEnd
  <2>2. Len(calls[r]) = 2 * space[r]
    BY <1>2 DEF Counted, Entered, AtEnd
  <2>3. \A t \in Ranks : calls[t][2 * space[r]] = Proposed(t, space[r])
    <3> TAKE t \in Ranks
    <3>1. Len(calls[t]) >= 2 * space[r] /\ Len(calls[t]) \in Nat /\ space[r] \in Nat
      BY <2>1, <2>2, Ranked DEF AllEntered, Types
    <3>2. 2 * space[r] <= Len(calls[t])
      BY <3>1
    <3> QED BY <2>1, <3>2 DEF Valued
  <2> QED BY <2>2, <2>3 DEF Contributions
<1> QED BY <1>1, <1>2

\* The smallest proposal is that of the rank that prints.
LEMMA LowestProposed ==
  ASSUME Types, NEW s \in Spaces
  PROVE  Min({Proposed(t, s) : t \in Ranks}) = Lowest(s)
<1> DEFINE P == {Proposed(t, s) : t \in Ranks}
           q == Lowest(s)
<1>1. /\ q \in Ranks /\ q \in Largests(s) /\ \A r \in Largests(s) : q <= r
      /\ \A r \in Ranks : total_size[r][s] = Largest(s) <=> r \in Largests(s)
  BY LowestIs
<1> HIDE DEF q
<1>2. \A t \in Ranks : Proposed(t, s) \in Nat /\ q <= Proposed(t, s)
  <2> TAKE t \in Ranks
  <2>1. t \in Nat /\ q \in Nat /\ comm_size \in Nat /\ q < comm_size
    BY <1>1, Ranked
  <2> QED BY <1>1, <2>1 DEF Proposed
<1>3. Proposed(q, s) = q
  BY <1>1 DEF Proposed
<1>4. P \subseteq Nat /\ q \in P /\ \A v \in P : q <= v
  BY <1>1, <1>2, <1>3
<1> HIDE DEF P
<1>5. Min(P) \in P /\ \A v \in P : Min(P) <= v
  BY <1>4, MinIs
<1>6. Min(P) <= q /\ q <= Min(P) /\ Min(P) \in Nat /\ q \in Nat
  BY <1>4, <1>5
<1>7. Min(P) = q
  BY <1>6
<1> QED BY <1>7 DEF P, q

\* A rank learns the largest mark and proposes itself or nobody.
LEMMA FinishMaxHInv ==
  ASSUME HInv, NEW r \in Ranks, FinishMax(r)
  PROVE  HInv'
<1> USE DEF HInv
<1>1. PICK y \in Spaces : y = space[r] /\ y \in Nat /\ y >= 1
  BY AtSpace, Ranked DEF FinishMax, AtEnd
<1>2. /\ pc[r] = "max" /\ AllEntered(r)
      /\ pc' = [pc EXCEPT ![r] = "min"]
      /\ UNCHANGED <<total_size, space, min_max_rank, sent, posted, received, printed,
                     reductions, process>>
      /\ calls' = [calls EXCEPT ![r] = Append(@, Proposal(r, Max(Contributions(r))))]
  BY DEF FinishMax, end
<1>3. PICK v : v = Proposed(r, y) /\ v \in Nat
  <2>1. r \in Nat /\ comm_size \in Nat
    BY Ranked
  <2> QED BY <2>1 DEF Proposed
<1>4. Proposal(r, Max(Contributions(r))) = v
  <2>1. Contributions(r) = {total_size[t][y] : t \in Ranks}
    BY <1>1, <1>2, Given
  <2>2. Max(Contributions(r)) = Largest(y)
    BY <2>1, Zenon DEF Largest
  <2> QED BY <1>1, <1>3, <2>2, Zenon DEF Proposal, Proposed
<1>5. calls' = [calls EXCEPT ![r] = Append(@, v)]
  BY <1>2, <1>4, Zenon
<1>6. Len(calls[r]) = 2 * y - 1
  BY <1>1, <1>2 DEF Counted, Entered, AtEnd
<1>7. /\ Valued'
      /\ calls' \in [Ranks -> Seq(Nat)]
      /\ Len(calls'[r]) = 2 * y
      /\ \A t \in Ranks : t # r => calls'[t] = calls[t]
  <2>1. Len(calls[r]) + 1 = 2 * y
    BY <1>1, <1>6
  <2>2. \A s \in Spaces : s \in Nat /\ s <= NSPACES
    BY Ranked
  <2>3. NSPACES \in Nat
    BY Ranked
  <2>4. \A s \in Spaces : /\ Len(calls[r]) + 1 = 2 * s - 1 => v = total_size[r][s]
                          /\ Len(calls[r]) + 1 = 2 * s => v = Proposed(r, s)
    <3> TAKE s \in Spaces
    <3>1. s \in Nat
      BY <2>2
    <3>2. 2 * y # 2 * s - 1 /\ (2 * y = 2 * s => s = y)
      BY <1>1, <3>1
    <3> QED BY <1>3, <2>1, <3>2
  <2>5. \A i \in 1 .. 3 : Len(calls[r]) + 1 # 2 * NSPACES + i
    <3>1. y <= NSPACES
      BY <2>2
    <3> QED BY <1>1, <2>1, <2>3, <3>1
  <2>6. Valued' /\ calls' \in [Ranks -> Seq(Nat)] /\ Len(calls'[r]) = Len(calls[r]) + 1
        /\ \A t \in Ranks : t # r => calls'[t] = calls[t]
    BY <1>2, <1>3, <1>5, <2>4, <2>5, ValuedAppend
  <2> QED BY <2>1, <2>6
<1>8. /\ InOrder' /\ Printed' /\ pc'[r] = "min"
      /\ \A t \in Ranks : t # r => pc'[t] = pc[t]
  <2>1. pc'[r] = "min" /\ space' = [space EXCEPT ![r] = y] /\ space'[r] = y
    BY <1>1, <1>2 DEF Types
  <2>2. SentTo(r)' = SentTo(r)
    BY <1>1, <1>2, <2>1 DEF SentTo, AtEnd
  <2>3. Passes(r, SentTo(r), SentTo(r)')
    BY <2>2 DEF Passes
  <2>4. r = 0 => ReceivedTo' = ReceivedTo
    BY <1>1, <1>2, <2>1 DEF ReceivedTo, AtEnd
  <2>5. ASSUME r = 0 PROVE Printed'
    <3>1. \A s : Text(s)' = Text(s)
      BY <1>2, SameLowest DEF Text
    <3> QED BY <1>1, <1>2, <2>1, <2>5, <3>1 DEF Printed
  <2> QED BY <1>2, <2>1, <2>3, <2>4, <2>5, QuietStep
<1>9. Types'
  BY <1>2, <1>7 DEF Types, Places
<1>10. Counted'
  <2>1. ASSUME NEW t \in Ranks
        PROVE  /\ pc'[t] \in AtEnd <=> space'[t] = NSPACES + 1
               /\ pc'[t] \notin AtEnd => reductions'[t] = 0
               /\ pc'[t] = "done" => reductions'[t] = 3
               /\ Len(calls'[t]) = Entered(t)'
    <3>1. CASE t # r
      <4>1. Entered(t)' = Entered(t)
        BY <1>2, <1>8, <3>1 DEF Entered
      <4> QED BY <1>2, <1>7, <1>8, <3>1, <4>1 DEF Counted
    <3>2. CASE t = r
      <4>1. Entered(r)' = 2 * y
        BY <1>1, <1>2, <1>8 DEF Entered, AtEnd
      <4>2. pc[r] \notin AtEnd /\ pc'[r] \notin AtEnd /\ pc'[r] # "done"
        BY <1>2, <1>8 DEF AtEnd
      <4> QED BY <1>2, <1>7, <3>2, <4>1, <4>2 DEF Counted
    <3> QED BY <3>1, <3>2
  <2> QED BY <2>1, Zenon DEF Counted
<1>11. Agreed'
  <2>1. \A t \in Ranks : Lowest(space[t])' = Lowest(space[t])
    BY <1>2, SameLowest
  <2>2. ASSUME NEW t \in Ranks
        PROVE  /\ pc'[t] \in Receiving \cup Sending => min_max_rank'[t] = Lowest(space[t])'
               /\ pc'[t] \in Receiving => t = 0
               /\ pc'[t] \in Sending => t = Lowest(space[t])'
    <3>1. CASE t # r
      BY <1>2, <1>8, <2>1, <3>1 DEF Agreed
    <3>2. CASE t = r
      BY <1>8, <3>2 DEF Receiving, Sending
    <3> QED BY <3>1, <3>2
  <2> QED BY <2>2, Zenon DEF Agreed
<1>12. ProcessHwmIsTrue'
  BY <1>2 DEF ProcessHwmIsTrue
<1> QED BY <1>7, <1>8, <1>9, <1>10, <1>11, <1>12

\* A rank learns who prints, and starts on its part of the exchange or goes on.
LEMMA FinishMinHInv ==
  ASSUME HInv, NEW r \in Ranks, FinishMin(r)
  PROVE  HInv'
<1> USE DEF HInv
<1>1. PICK y \in Spaces, q \in Ranks : y = space[r] /\ y \in Nat /\ y >= 1 /\ q = Lowest(y)
  <2>1. space[r] \in Spaces /\ Lowest(space[r]) \in Ranks
    BY AtSpace DEF FinishMin, AtEnd
  <2> QED BY <2>1, Ranked
<1>2. pc[r] = "min" /\ AllEntered(r)
  BY DEF FinishMin
<1>3. Min(Contributions(r)) = q
  <2>1. Contributions(r) = {Proposed(t, y) : t \in Ranks}
    BY <1>1, <1>2, Given
  <2> QED BY <1>1, <2>1, LowestProposed
<1>4. PICK x : x = StepFrom(1, r, q)
  OBVIOUS
<1>5. /\ pc' = [pc EXCEPT ![r] = x]
      /\ min_max_rank' = [min_max_rank EXCEPT ![r] = q]
      /\ UNCHANGED <<total_size, space, calls, sent, posted, received, printed,
                     reductions, process>>
  BY <1>3, <1>4, Zenon DEF FinishMin, end
<1>6. x = IF r = 0 THEN "irecv_size" ELSE IF r = q THEN "send_size" ELSE "next"
  BY <1>4, NextStep DEF Follows
<1>7. /\ InOrder' /\ Printed' /\ pc'[r] = x
      /\ \A t \in Ranks : t # r => pc'[t] = pc[t]
  <2>1. pc'[r] = x /\ space' = [space EXCEPT ![r] = y] /\ space'[r] = y
    BY <1>1, <1>5 DEF Types
  <2>2. Passes(r, SentTo(r), SentTo(r)')
    <3>1. SentTo(r) = 2 * y - 1
      BY <1>1, <1>2 DEF SentTo
    <3>2. CASE x = "irecv_size" \/ x = "send_size"
      <4>1. SentTo(r)' = 2 * y - 1
        BY <2>1, <3>2 DEF SentTo
      <4> QED BY <3>1, <4>1 DEF Passes
    <3>3. CASE x = "next" /\ r # q
      <4>1. SentTo(r)' = 2 * y + 1
        BY <2>1, <3>3 DEF SentTo, AtEnd
      <4>2. SentTo(r) \in 2 * y - 1 .. 2 * y + 1 /\ SentTo(r)' \in 2 * y - 1 .. 2 * y + 1
        BY <1>1, <3>1, <4>1
      <4> QED BY <1>1, <3>3, <4>2 DEF Passes
    <3> QED BY <1>6, <3>2, <3>3
  <2>3. r = 0 => ReceivedTo' = ReceivedTo
    BY <1>1, <1>2, <1>6, <2>1 DEF ReceivedTo
  <2>4. ASSUME r = 0 PROVE Printed'
    <3>1. \A s : Text(s)' = Text(s)
      BY <1>5, SameLowest DEF Text
    <3> QED BY <1>1, <1>2, <1>5, <1>6, <2>1, <2>4, <3>1 DEF Printed
  <2> QED BY <1>5, <2>1, <2>2, <2>3, <2>4, QuietStep
<1>8. Types'
  <2>1. x \in Places
    BY <1>6 DEF Places, Receiving, Sending
  <2>2. q \in 0 .. comm_size
    BY Ranked DEF Ranks
  <2> QED BY <1>5, <2>1, <2>2 DEF Types
<1>9. Counted'
  <2>1. ASSUME NEW t \in Ranks
        PROVE  /\ pc'[t] \in AtEnd <=> space'[t] = NSPACES + 1
               /\ pc'[t] \notin AtEnd => reductions'[t] = 0
               /\ pc'[t] = "done" => reductions'[t] = 3
               /\ Len(calls'[t]) = Entered(t)'
    <3>1. CASE t # r
      <4>1. Entered(t)' = Entered(t)
        BY <1>5, <1>7, <3>1 DEF Entered
      <4> QED BY <1>5, <1>7, <3>1, <4>1 DEF Counted
    <3>2. CASE t = r
      <4>1. Entered(r)' = Entered(r)
        BY <1>2, <1>5, <1>6, <1>7 DEF Entered, AtEnd
      <4>2. pc[r] \notin AtEnd /\ pc'[r] \notin AtEnd /\ pc'[r] # "done"
        BY <1>2, <1>6, <1>7 DEF AtEnd
      <4> QED BY <1>5, <3>2, <4>1, <4>2 DEF Counted
    <3> QED BY <3>1, <3>2
  <2> QED BY <2>1, Zenon DEF Counted
<1>10. Valued'
  BY <1>5, ValuedSame
<1>11. Agreed'
  <2>1. \A t \in Ranks : Lowest(space[t])' = Lowest(space[t])
    BY <1>5, SameLowest
  <2>2. min_max_rank'[r] = q /\ \A t \in Ranks : t # r => min_max_rank'[t] = min_max_rank[t]
    BY <1>5 DEF Types
  <2>3. ASSUME NEW t \in Ranks
        PROVE  /\ pc'[t] \in Receiving \cup Sending => min_max_rank'[t] = Lowest(space[t])'
               /\ pc'[t] \in Receiving => t = 0
               /\ pc'[t] \in Sending => t = Lowest(space[t])'
    <3>1. CASE t # r
      BY <1>7, <2>1, <2>2, <3>1 DEF Agreed
    <3>2. CASE t = r
      BY <1>1, <1>6, <1>7, <2>1, <2>2, <3>2 DEF Receiving, Sending
    <3> QED BY <3>1, <3>2
  <2> QED BY <2>3, Zenon DEF Agreed
<1>12. ProcessHwmIsTrue'
  BY <1>5 DEF ProcessHwmIsTrue
<1> QED BY <1>7, <1>8, <1>9, <1>10, <1>11, <1>12

\* A rank goes on to the next space, or has been at all of them.
LEMMA NextSpaceHInv ==
  ASSUME HInv, NEW r \in Ranks, NextSpace(r)
  PROVE  HInv'
<1> USE DEF HInv
<1>1. PICK y \in Spaces : y = space[r] /\ y \in Nat /\ y >= 1 /\ y <= NSPACES /\ NSPACES \in Nat
  BY AtSpace, Ranked DEF NextSpace, AtEnd
<1>2. PICK x : x = IF y < NSPACES THEN "max" ELSE "process"
  OBVIOUS
<1>3. /\ pc[r] = "next"
      /\ pc' = [pc EXCEPT ![r] = x]
      /\ space' = [space EXCEPT ![r] = y + 1]
      /\ UNCHANGED <<total_size, min_max_rank, sent, posted, received, printed, reductions, process>>
      /\ IF y < NSPACES THEN calls' = [calls EXCEPT ![r] = Append(@, total_size[r][y + 1])]
         ELSE calls' = calls
  BY <1>1, <1>2 DEF NextSpace, end
<1>4. Len(calls[r]) = 2 * y
  BY <1>1, <1>3 DEF Counted, Entered, AtEnd
<1>5. /\ InOrder' /\ Printed'
      /\ pc'[r] = x /\ space'[r] = y + 1
      /\ \A t \in Ranks : t # r => pc'[t] = pc[t] /\ space'[t] = space[t]
  <2>1. pc'[r] = x /\ space'[r] = y + 1
    BY <1>3 DEF Types
  <2>2. Passes(r, SentTo(r), SentTo(r)')
    <3>1. SentTo(r) = 2 * y + 1 /\ SentTo(r)' = 2 * (y + 1) - 1
      BY <1>1, <1>2, <1>3, <2>1 DEF SentTo, AtEnd
    <3> QED BY <1>1, <3>1 DEF Passes
  <2>3. ASSUME r = 0 PROVE ReceivedTo' = ReceivedTo
    <3>1. ReceivedTo = 2 * y + 1 /\ ReceivedTo' = 2 * (y + 1) - 1
      BY <1>1, <1>2, <1>3, <2>1, <2>3 DEF ReceivedTo, AtEnd
    <3> QED BY <1>1, <3>1
  <2>4. ASSUME r = 0 PROVE Printed'
    <3>1. \A s : Text(s)' = Text(s)
      BY <1>3, SameLowest DEF Text
    <3>2. pc'[0] \in {"max", "process"} /\ pc[0] = "next" /\ space[0] = y /\ space'[0] = y + 1
      BY <1>1, <1>2, <1>3, <2>1, <2>4
    <3>3. Len(printed) = y /\ y = (y + 1) - 1
      BY <1>1, <3>2 DEF Printed
    <3> QED BY <1>3, <3>1, <3>2, <3>3 DEF Printed
  <2> QED BY <1>3, <2>2, <2>3, <2>4, QuietStep
<1>6. /\ Valued'
      /\ calls' \in [Ranks -> Seq(Nat)]
      /\ Len(calls'[r]) = IF y < NSPACES THEN 2 * y + 1 ELSE 2 * y
      /\ \A t \in Ranks : t # r => calls'[t] = calls[t]
  <2>1. CASE ~ (y < NSPACES)
    BY <1>3, <1>4, <2>1, ValuedSame DEF Types
  <2>2. CASE y < NSPACES
    <3>1. PICK v : v = total_size[r][y + 1]
      OBVIOUS
    <3>2. y + 1 \in Spaces
      BY <1>1, <2>2 DEF Spaces
    <3>3. v \in Nat
      BY <3>1, <3>2 DEF Types
    <3>4. calls' = [calls EXCEPT ![r] = Append(@, v)]
      BY <1>3, <2>2, <3>1, Zenon
    <3>5. Len(calls[r]) + 1 = 2 * (y + 1) - 1 /\ Len(calls[r]) + 1 = 2 * y + 1
      BY <1>1, <1>4
    <3>6. \A s \in Spaces : /\ Len(calls[r]) + 1 = 2 * s - 1 => v = total_size[r][s]
                            /\ Len(calls[r]) + 1 = 2 * s => v = Proposed(r, s)
      <4> TAKE s \in Spaces
      <4>1. s \in Nat
        BY Ranked
      <4>2. 2 * y + 1 # 2 * s /\ (2 * (y + 1) - 1 = 2 * s - 1 => s = y + 1)
        BY <1>1, <4>1
      <4> QED BY <3>1, <3>5, <4>2
    <3>7. \A i \in 1 .. 3 : Len(calls[r]) + 1 # 2 * NSPACES + i
      BY <1>1, <2>2, <3>5
    <3>8. Valued' /\ calls' \in [Ranks -> Seq(Nat)] /\ Len(calls'[r]) = Len(calls[r]) + 1
          /\ \A t \in Ranks : t # r => calls'[t] = calls[t]
      BY <1>3, <3>3, <3>4, <3>6, <3>7, ValuedAppend
    <3> QED BY <2>2, <3>5, <3>8
  <2> QED BY <2>1, <2>2
<1>7. Types'
  <2>1. x \in Places
    BY <1>2 DEF Places, AtEnd
  <2>2. y + 1 \in 1 .. NSPACES + 1
    BY <1>1
  <2> QED BY <1>3, <1>6, <2>1, <2>2 DEF Types
<1>8. Counted'
  <2>1. ASSUME NEW t \in Ranks
        PROVE  /\ pc'[t] \in AtEnd <=> space'[t] = NSPACES + 1
               /\ pc'[t] \notin AtEnd => reductions'[t] = 0
               /\ pc'[t] = "done" => reductions'[t] = 3
               /\ Len(calls'[t]) = Entered(t)'
    <3>1. CASE t # r
      <4>1. Entered(t)' = Entered(t)
        BY <1>3, <1>5, <3>1 DEF Entered
      <4> QED BY <1>3, <1>5, <1>6, <3>1, <4>1 DEF Counted
    <3>2. CASE t = r
      <4>1. reductions[r] = 0 /\ reductions'[r] = 0
        BY <1>3 DEF Counted, AtEnd
      <4>2. Entered(r)' = IF y < NSPACES THEN 2 * y + 1 ELSE 2 * y
        <5>1. CASE y < NSPACES
          <6>1. pc'[r] = "max"
            BY <1>2, <1>5, <5>1
          <6> QED BY <1>1, <1>5, <5>1, <6>1 DEF Entered, AtEnd
        <5>2. CASE ~ (y < NSPACES)
          <6>1. pc'[r] = "process" /\ y = NSPACES
            BY <1>1, <1>2, <1>5, <5>2
          <6> QED BY <1>1, <4>1, <5>2, <6>1 DEF Entered, AtEnd
        <5> QED BY <5>1, <5>2
      <4>3. pc'[r] \in AtEnd <=> space'[r] = NSPACES + 1
        BY <1>1, <1>2, <1>5 DEF AtEnd
      <4>4. pc'[r] # "done"
        BY <1>2, <1>5
      <4> QED BY <1>6, <3>2, <4>1, <4>2, <4>3, <4>4
    <3> QED BY <3>1, <3>2
  <2> QED BY <2>1, Zenon DEF Counted
<1>9. Agreed'
  <2>1. \A t \in Ranks : t # r => Lowest(space[t])' = Lowest(space[t])
    BY <1>3, <1>5, SameLowest
  <2>2. ASSUME NEW t \in Ranks
        PROVE  /\ pc'[t] \in Receiving \cup Sending => min_max_rank'[t] = Lowest(space[t])'
               /\ pc'[t] \in Receiving => t = 0
               /\ pc'[t] \in Sending => t = Lowest(space[t])'
    <3>1. CASE t # r
      BY <1>3, <1>5, <2>1, <3>1 DEF Agreed
    <3>2. CASE t = r
      BY <1>2, <1>5, <3>2 DEF Receiving, Sending
    <3> QED BY <3>1, <3>2
  <2> QED BY <2>2, Zenon DEF Agreed
<1>10. ProcessHwmIsTrue'
  BY <1>3 DEF ProcessHwmIsTrue
<1> QED BY <1>5, <1>6, <1>7, <1>8, <1>9, <1>10

\* A rank enters one of the last three reductions.
LEMMA ReduceHInv ==
  ASSUME HInv, NEW r \in Ranks, Reduce(r)
  PROVE  HInv'
<1> USE DEF HInv
<1>1. PICK v, k : v = hwm[r] /\ v \in Nat /\ k = reductions[r] /\ k \in 0 .. 2 /\ NSPACES \in Nat
  <2>1. hwm[r] \in Nat /\ NSPACES \in Nat
    BY HwmReportAssumption, Ranked
  <2>2. reductions[r] \in 0 .. 3 /\ reductions[r] < 3
    BY DEF Reduce, Types
  <2>3. reductions[r] \in 0 .. 2
    BY <2>2
  <2> QED BY <2>1, <2>3, Zenon
<1>2. /\ pc[r] = "process"
      /\ calls' = [calls EXCEPT ![r] = Append(@, v)]
      /\ reductions' = [reductions EXCEPT ![r] = k + 1]
      /\ UNCHANGED <<total_size, pc, space, min_max_rank, sent, posted, received, printed, process>>
  BY <1>1, Zenon DEF Reduce
<1>3. Len(calls[r]) = 2 * NSPACES + k
  BY <1>1, <1>2 DEF Counted, Entered, AtEnd
<1>4. /\ Valued'
      /\ calls' \in [Ranks -> Seq(Nat)]
      /\ Len(calls'[r]) = Len(calls[r]) + 1
      /\ \A t \in Ranks : t # r => calls'[t] = calls[t]
  <2>1. \A s \in Spaces : s \in Nat /\ s <= NSPACES
    BY Ranked
  <2>2. \A s \in Spaces : Len(calls[r]) + 1 # 2 * s - 1 /\ Len(calls[r]) + 1 # 2 * s
    BY <1>1, <1>3, <2>1
  <2>3. \A i \in 1 .. 3 : Len(calls[r]) + 1 = 2 * NSPACES + i => v = hwm[r]
    BY <1>1
  <2> QED BY <1>1, <1>2, <2>2, <2>3, ValuedAppend
<1>5. Types'
  <2>1. k + 1 \in 0 .. 3
    BY <1>1
  <2> QED BY <1>2, <1>4, <2>1 DEF Types
<1>6. Counted'
  <2>1. /\ reductions'[r] = k + 1
        /\ \A t \in Ranks : t # r => reductions'[t] = reductions[t]
    BY <1>2 DEF Types
  <2>2. ASSUME NEW t \in Ranks
        PROVE  /\ pc'[t] \in AtEnd <=> space'[t] = NSPACES + 1
               /\ pc'[t] \notin AtEnd => reductions'[t] = 0
               /\ pc'[t] = "done" => reductions'[t] = 3
               /\ Len(calls'[t]) = Entered(t)'
    <3>1. CASE t # r
      <4>1. Entered(t)' = Entered(t)
        BY <1>2, <2>1, <3>1 DEF Entered
      <4> QED BY <1>2, <1>4, <2>1, <3>1, <4>1 DEF Counted
    <3>2. CASE t = r
      <4>1. Entered(r)' = 2 * NSPACES + (k + 1)
        BY <1>2, <2>1 DEF Entered, AtEnd
      <4>2. Len(calls'[r]) = 2 * NSPACES + (k + 1)
        BY <1>1, <1>3, <1>4
      <4>3. pc'[r] = "process" /\ pc'[r] \in AtEnd
        BY <1>2 DEF AtEnd
      <4> QED BY <1>2, <3>2, <4>1, <4>2, <4>3 DEF Counted
    <3> QED BY <3>1, <3>2
  <2> QED BY <2>2, Zenon DEF Counted
<1>7. Agreed'
  <2>1. \A t \in Ranks : Lowest(space[t])' = Lowest(space[t])
    BY <1>2, SameLowest
  <2> QED BY <1>2, <2>1 DEF Agreed
<1>8. InOrder'
  <2>1. /\ ReceivedTo' = ReceivedTo
        /\ \A t \in Ranks : SentTo(t)' = SentTo(t)
    BY <1>2 DEF ReceivedTo, SentTo
  <2>2. \A t \in Ranks : Passes(t, SentTo(t), SentTo(t)')
    BY <2>1 DEF Passes
  <2> QED BY <1>2, <2>1, <2>2, InOrderSame
<1>9. Printed'
  BY <1>2, PrintedSame
<1>10. ProcessHwmIsTrue'
  BY <1>2 DEF ProcessHwmIsTrue
<1> QED BY <1>4, <1>5, <1>6, <1>7, <1>8, <1>9, <1>10

\* A rank leaves the reductions; rank 0 prints what they gave.
LEMMA PrintProcessHInv ==
  ASSUME HInv, NEW r \in Ranks, PrintProcess(r)
  PROVE  HInv'
<1> USE DEF HInv
<1>1. /\ pc[r] = "process" /\ reductions[r] = 3
      /\ pc' = [pc EXCEPT ![r] = "done"]
      /\ UNCHANGED <<total_size, space, min_max_rank, calls, sent, posted, received, printed,
                     reductions>>
  BY DEF PrintProcess
<1>2. PICK z : z = space[r]
  OBVIOUS
<1>3. /\ InOrder' /\ Printed' /\ pc'[r] = "done"
      /\ \A t \in Ranks : t # r => pc'[t] = pc[t]
  <2>1. pc'[r] = "done" /\ space' = [space EXCEPT ![r] = z] /\ space'[r] = space[r]
    BY <1>1, <1>2 DEF Types
  <2>2. SentTo(r)' = SentTo(r)
    BY <1>1, <2>1 DEF SentTo, AtEnd
  <2>3. Passes(r, SentTo(r), SentTo(r)')
    BY <2>2 DEF Passes
  <2>4. r = 0 => ReceivedTo' = ReceivedTo
    BY <1>1, <2>1 DEF ReceivedTo, AtEnd
  <2>5. ASSUME r = 0 PROVE Printed'
    <3>1. \A s : Text(s)' = Text(s)
      BY <1>1, SameLowest DEF Text
    <3> QED BY <1>1, <2>1, <2>5, <3>1 DEF Printed
  <2> QED BY <1>1, <2>1, <2>3, <2>4, <2>5, QuietStep
<1>4. Types'
  BY <1>1 DEF Types, Places, AtEnd
<1>5. Counted'
  <2>1. ASSUME NEW t \in Ranks
        PROVE  /\ pc'[t] \in AtEnd <=> space'[t] = NSPACES + 1
               /\ pc'[t] \notin AtEnd => reductions'[t] = 0
               /\ pc'[t] = "done" => reductions'[t] = 3
               /\ Len(calls'[t]) = Entered(t)'
    <3>1. CASE t # r
      <4>1. Entered(t)' = Entered(t)
        BY <1>1, <1>3, <3>1 DEF Entered
      <4> QED BY <1>1, <1>3, <3>1, <4>1 DEF Counted
    <3>2. CASE t = r
      <4>1. Entered(r)' = Entered(r) /\ pc[r] \in AtEnd /\ pc'[r] \in AtEnd
        BY <1>1, <1>3 DEF Entered, AtEnd
      <4> QED BY <1>1, <3>2, <4>1 DEF Counted
    <3> QED BY <3>1, <3>2
  <2> QED BY <2>1, Zenon DEF Counted
<1>6. Valued'
  BY <1>1, ValuedSame
<1>7. Agreed'
  <2>1. \A t \in Ranks : Lowest(space[t])' = Lowest(space[t])
    BY <1>1, SameLowest
  <2>2. ASSUME NEW t \in Ranks
        PROVE  /\ pc'[t] \in Receiving \cup Sending => min_max_rank'[t] = Lowest(space[t])'
               /\ pc'[t] \in Receiving => t = 0
               /\ pc'[t] \in Sending => t = Lowest(space[t])'
    <3>1. CASE t # r
      BY <1>1, <1>3, <2>1, <3>1 DEF Agreed
    <3>2. CASE t = r
      BY <1>3, <3>2 DEF Receiving, Sending
    <3> QED BY <3>1, <3>2
  <2> QED BY <2>2, Zenon DEF Agreed
<1>8. ProcessHwmIsTrue'
  <2>1. CASE r # 0
    <3>1. process' = process
      BY <2>1 DEF PrintProcess
    <3> QED BY <3>1 DEF ProcessHwmIsTrue
  <2>2. CASE r = 0
    <3>1. Len(calls[0]) = 2 * NSPACES + 3 /\ NSPACES \in Nat /\ 0 \in Ranks
      BY <1>1, <2>2, Ranked DEF Counted, Entered, AtEnd
    <3>2. \A t \in Ranks : 2 * NSPACES + 3 <= Len(calls[t]) /\ Len(calls[t]) \in Nat
      <4>1. \A t \in Ranks : Len(calls[t]) >= Len(calls[0]) /\ Len(calls[t]) \in Nat
        BY <2>2 DEF PrintProcess, AllEntered, Types
      <4> QED BY <3>1, <4>1
    <3>3. \A n \in 1 .. 3 : Reduced(n) = hwm
      <4> TAKE n \in 1 .. 3
      <4>1. Len(calls[0]) - 3 + n = 2 * NSPACES + n
        BY <3>1
      <4>2. \A t \in Ranks : calls[t][2 * NSPACES + n] = hwm[t]
        <5> TAKE t \in Ranks
        <5>1. 2 * NSPACES + n <= Len(calls[t])
          BY <3>1, <3>2
        <5> QED BY <5>1 DEF Valued
      <4>3. \A t \in Ranks : calls[t][Len(calls[0]) - 3 + n] = hwm[t]
        BY <4>1, <4>2
      <4> QED BY <4>3, HwmReportAssumption DEF Reduced
    <3>4. Reduced(1) = hwm /\ Reduced(2) = hwm /\ Reduced(3) = hwm
      BY <3>3
    <3>5. process' = [max |-> Max({hwm[s] : s \in Ranks}),
                      min |-> Min({hwm[s] : s \in Ranks}),
                      ave |-> SumOver(hwm, Ranks) \div comm_size]
      BY <2>2, <3>4, Zenon DEF PrintProcess, Average
    <3> QED BY <3>5, Zenon DEF ProcessHwmIsTrue
  <2> QED BY <2>1, <2>2
<1> QED BY <1>3, <1>4, <1>5, <1>6, <1>7, <1>8

\* Nothing changes.
LEMMA StutterHInv ==
  ASSUME HInv, UNCHANGED vars
  PROVE  HInv'
<1> USE DEF HInv
<1>1. UNCHANGED <<total_size, pc, space, min_max_rank, calls, sent, posted, received, printed,
                  reductions, process>>
  BY DEF vars
<1>2. /\ ReceivedTo' = ReceivedTo
      /\ \A t \in Ranks : SentTo(t)' = SentTo(t) /\ Entered(t)' = Entered(t)
  BY <1>1 DEF ReceivedTo, SentTo, Entered
<1>3. \A t \in Ranks : Lowest(space[t])' = Lowest(space[t])
  BY <1>1, SameLowest
<1>4. InOrder'
  <2>1. \A t \in Ranks : Passes(t, SentTo(t), SentTo(t)')
    BY <1>2 DEF Passes
  <2> QED BY <1>1, <1>2, <2>1, InOrderSame
<1>5. Types' /\ Valued' /\ Printed' /\ ProcessHwmIsTrue'
  BY <1>1, ValuedSame, PrintedSame DEF Types, ProcessHwmIsTrue
<1>6. Counted' /\ Agreed'
  BY <1>1, <1>2, <1>3 DEF Counted, Agreed
<1> QED BY <1>4, <1>5, <1>6

-----------------------------------------------------------------------------
(* Theorems                                                                *)

\* Every step keeps the invariant.
LEMMA HInvNext == HInv /\ [Next]_vars => HInv'
<1> SUFFICES ASSUME HInv, [Next]_vars PROVE HInv'
  OBVIOUS
<1>1. CASE Match
  BY <1>1, MatchHInv
<1>2. ASSUME NEW r \in Ranks, Step(r) PROVE HInv'
  <2>1. CASE FinishMax(r)
    BY <2>1, FinishMaxHInv
  <2>2. CASE FinishMin(r)
    BY <2>2, FinishMinHInv
  <2>3. CASE Irecv(r)
    BY <2>3, IrecvHInv
  <2>4. CASE Send(r)
    BY <2>4, SendHInv
  <2>5. CASE FinishSend(r)
    BY <2>5, SendReturnsHInv DEF FinishSend
  <2>6. CASE AwaitSize(r)
    BY <2>6, AwaitSizeHInv
  <2>7. CASE AwaitText(r)
    BY <2>7, AwaitTextHInv
  <2>8. CASE NextSpace(r)
    BY <2>8, NextSpaceHInv
  <2>9. CASE Reduce(r)
    BY <2>9, ReduceHInv
  <2>10. CASE PrintProcess(r)
    BY <2>10, PrintProcessHInv
  <2> QED BY <1>2, <2>1, <2>2, <2>3, <2>4, <2>5, <2>6, <2>7, <2>8, <2>9, <2>10 DEF Step
<1>3. ASSUME NEW r \in Ranks, FinishEagerSend(r) PROVE HInv'
  BY <1>3, SendReturnsHInv DEF FinishEagerSend
<1>4. CASE UNCHANGED vars
  BY <1>4, StutterHInv
<1> QED BY <1>1, <1>2, <1>3, <1>4 DEF Next

\* What rank 0 prints for a space is the text, never the length, of the lowest of the
\* ranks with the most memory, for any number of ranks and spaces and however far the
\* senders run ahead.
THEOREM ReportsLowest == Spec => []PrintsLowestMaximum
<1>1. HInv => PrintsLowestMaximum
  <2> SUFFICES ASSUME HInv, NEW s \in DOMAIN printed
               PROVE  /\ printed[s].part = "send_text" /\ printed[s].space = s
                      /\ printed[s].rank =
                           Min({r \in Ranks : \A t \in Ranks : total_size[r][s] >= total_size[t][s]})
    BY Zenon DEF PrintsLowestMaximum
  <2>1. printed[s] = [part |-> "send_text", rank |-> Lowest(s), space |-> s]
    BY DEF HInv, Printed, Text
  <2>2. printed[s].part = "send_text" /\ printed[s].space = s /\ printed[s].rank = Lowest(s)
    BY <2>1
  <2> QED BY <2>2, Zenon DEF Lowest, Largests
<1> QED BY InitHInv, HInvNext, <1>1, PTL DEF Spec

\* What rank 0 prints of the processes is the largest, the smallest and the average
\* memory of all ranks: contributions to the three reductions do not mix.
THEOREM ReportsProcesses == Spec => []ProcessHwmIsTrue
<1>1. HInv => ProcessHwmIsTrue
  BY DEF HInv
<1> QED BY InitHInv, HInvNext, <1>1, PTL DEF Spec

-----------------------------------------------------------------------------
(* The kernel timer: what a process has in its entries, and what it did    *)

KernelNames == {k.name : k \in Kernels}

KTypes == KernelTypes \cup {"REGION"}

Infos == [kType : KTypes, time : Nat, callCount : Nat, startTime : Nat]

Intervals == [name : Names, since : Nat]

Amounts == [time : Nat, calls : Nat]

\* What a map has for a name, which may have no entry.
TimeOf(m, n)  == IF n \in DOMAIN m THEN m[n].time ELSE 0
CallsOf(m, n) == IF n \in DOMAIN m THEN m[n].callCount ELSE 0

\* What was spent under a name, in kernels and in regions.
SpentTime(sp, n)  == sp["kernel"][n].time + sp["region"][n].time
SpentCalls(sp, n) == sp["kernel"][n].calls + sp["region"][n].calls

\* The map m has all calls; it has those of a name that is not tangled, and their
\* time, under that name.  Regions are never taken for something else.
Accounted(m, sp, mixed) ==
  /\ SumOver([n \in Names |-> CallsOf(m, n)], Names) =
     SumOver([n \in Names |-> SpentCalls(sp, n)], Names)
  /\ \A n \in Names \ KernelNames : CallsOf(m, n) = SpentCalls(sp, n)
  /\ \A n \in Names \ mixed : TimeOf(m, n) = SpentTime(sp, n) /\ CallsOf(m, n) = SpentCalls(sp, n)

\* No time without a call; what was called has an entry.
Listed(m, sp) ==
  \A n \in Names, u \in Uses :
    /\ sp[u][n].calls = 0 => sp[u][n].time = 0
    /\ sp[u][n].calls > 0 => n \in DOMAIN m

\* The type of an entry is of a kernel, or region, of that name.
Kinds(m, kernelNames, regionNames) ==
  \A n \in DOMAIN m : IF m[n].kType = "REGION" THEN n \in regionNames ELSE n \in kernelNames

\* The names that have ended kernels, or regions.
EndedAs(sp, use) == {n \in Names : sp[use][n].calls > 0}

KernelTime(sp) == SumOver([n \in Names |-> sp["kernel"][n].time], Names)

-----------------------------------------------------------------------------
(* The invariant of a process                                              *)

TimerTyped ==
  /\ clock \in Nat
  /\ count_map \in [DOMAIN count_map -> Infos]
  /\ DOMAIN count_map \subseteq Names
  /\ spent \in [Uses -> [Names -> Amounts]]
  /\ EndedAs(spent, "kernel") \subseteq KernelNames
  /\ tangled \subseteq Names

\* The intervals of the host began in the past; the kernels have entries, of which
\* the current is one.
RunningTyped ==
  /\ running \in Seq(Intervals)
  /\ \A i \in DOMAIN running :
       /\ running[i].since <= clock
       /\ running[i].name \in KernelNames \cap DOMAIN count_map
  /\ running # << >> => currentEntry \in KernelNames \cap DOMAIN count_map

\* The slots below the level point at the entries of the regions that are open.
PushedTyped ==
  /\ pushed \in Seq(Intervals)
  /\ DOMAIN regions = 0 .. RegionSlots - 1
  /\ current_region_level = Len(pushed)
  /\ Len(pushed) <= RegionSlots
  /\ phase = "loaded" => pushed = << >>
  /\ \A i \in DOMAIN pushed :
       /\ pushed[i].since <= clock
       /\ pushed[i].name \in DOMAIN count_map
       /\ regions[i - 1] = pushed[i].name

\* Timers were started in the past.
Started == \A n \in DOMAIN count_map : count_map[n].startTime <= clock

\* The kernels in flight are tangled, and so is the current entry; or there is
\* one, it is the current entry, and its timer runs since it began.
KernelAlone ==
  running # << >> =>
    \/ {currentEntry} \cup NamesIn(running) \subseteq tangled
    \/ running = <<[name |-> currentEntry, since |-> count_map[currentEntry].startTime]>>

\* A region that is not tangled is the only interval of its name, and its timer
\* runs since it was pushed.
RegionsApart ==
  \A i \in DOMAIN pushed : pushed[i].name \notin tangled =>
    /\ count_map[pushed[i].name].startTime = pushed[i].since
    /\ pushed[i].name \notin NamesIn(running)
    /\ \A j \in DOMAIN pushed : pushed[j].name = pushed[i].name => j = i

\* Kernels that do not overlap have not run longer than the process.
TimeWithin ==
  tangled = {} =>
    KernelTime(spent) <= (IF running = << >> THEN clock ELSE running[1].since)

TimerInv ==
  /\ TimerTyped /\ RunningTyped /\ PushedTyped /\ Started
  /\ KernelAlone /\ RegionsApart /\ TimeWithin
  /\ Accounted(count_map, spent, tangled)
  /\ Listed(count_map, spent)
  /\ Kinds(count_map, EndedAs(spent, "kernel") \cup NamesIn(running),
                      EndedAs(spent, "region") \cup NamesIn(pushed))
  /\ SummaryIsTrue

-----------------------------------------------------------------------------
(* The invariant of the files and the reader                               *)

Records == [kType : KTypes, time : Nat, callCount : Nat]

Files == [totalExecuteTime : Nat, records : UNION {[D -> Records] : D \in SUBSET Names}]

Truths == [spent : [Uses -> [Names -> Amounts]], tangled : SUBSET Names,
           regionNames : SUBSET Names]

\* A file has what its process did.
FileTrue(f, t) ==
  /\ Accounted(f.records, t.spent, t.tangled)
  /\ Listed(f.records, t.spent)
  /\ Kinds(f.records, EndedAs(t.spent, "kernel"), t.regionNames)
  /\ EndedAs(t.spent, "kernel") \subseteq KernelNames
  /\ EndedAs(t.spent, "region") \subseteq t.regionNames
  /\ t.tangled = {} => KernelTime(t.spent) <= f.totalExecuteTime

FilesTrue ==
  /\ files \in Seq(Files) /\ truths \in Seq(Truths) /\ Len(files) = Len(truths)
  /\ \A i \in 1 .. Len(files) : FileTrue(files[i], truths[i])

\* The records that are read: the file, and the name there.
ReadOf(fs, no, left) ==
  {p \in (1 .. no) \X Names : p[2] \in DOMAIN fs[p[1]].records /\ ~ (p[1] = no /\ p[2] \in left)}

TimeAt(fs, R)  == [p \in R |-> fs[p[1]].records[p[2]].time]
CountAt(fs, R) == [p \in R |-> fs[p[1]].records[p[2]].callCount]

As(R, d) == {p \in R : Demangled[p[2]] = d}

\* The map info is what the records R of the files fs are merged to.
Merges(info, fs, R) ==
  /\ DOMAIN info = {Demangled[p[2]] : p \in R} \ {Empty}
  /\ info \in [DOMAIN info -> Records]
  /\ \A d \in DOMAIN info :
       /\ info[d].time = SumOver(TimeAt(fs, R), As(R, d))
       /\ info[d].callCount = SumOver(CountAt(fs, R), As(R, d))
       /\ \E p \in As(R, d) : info[d].kType = fs[p[1]].records[p[2]].kType

ReaderTyped ==
  /\ fileNo \in 0 .. Len(files)
  /\ unread \subseteq (IF fileNo = 0 THEN {} ELSE DOMAIN files[fileNo].records)
  /\ readerPhase = "idle" => fileNo = 0 /\ kernelInfo = EmptyMap

ReaderInv ==
  /\ FilesTrue
  /\ ReaderTyped
  /\ Merges(kernelInfo, files, ReadOf(files, fileNo, unread))
  /\ totalExecuteTime =
       SumOver([i \in 1 .. fileNo |-> files[i].totalExecuteTime], 1 .. fileNo)
  /\ readerPhase = "done" =>
       /\ fileNo = Len(files) /\ unread = {}
       /\ report.form \in {"ascii", "json"}
       /\ report.totals = KernelTotals(kernelInfo, report.form)

-----------------------------------------------------------------------------
(* Entries: a timer that starts, and one that is added to its entry         *)

\* k is the map m in which the timer of n was started.
StartsIn(m, k, n, kType, now) ==
  /\ DOMAIN k = DOMAIN m \cup {n}
  /\ k \in [DOMAIN k -> Infos]
  /\ k[n].startTime = now
  /\ IF n \in DOMAIN m
     THEN k[n].kType = m[n].kType /\ k[n].time = m[n].time /\ k[n].callCount = m[n].callCount
     ELSE k[n].kType = kType /\ k[n].time = 0 /\ k[n].callCount = 0
  /\ \A a \in DOMAIN m \ {n} : k[a] = m[a]

\* k is the map m in which x, and a call, was added to the entry e.
AddsTo(m, k, e, x) ==
  /\ DOMAIN k = DOMAIN m
  /\ k \in [DOMAIN k -> Infos]
  /\ k[e].time = m[e].time + x /\ k[e].callCount = m[e].callCount + 1
  /\ \A n \in DOMAIN m : k[n].kType = m[n].kType /\ k[n].startTime = m[n].startTime
  /\ \A n \in DOMAIN m \ {e} : k[n] = m[n]

\* q is what was spent, sp, and y, and a call, in a use under the name n.
SpendsIn(sp, q, use, n, y) ==
  /\ q \in [Uses -> [Names -> Amounts]]
  /\ q[use][n].time = sp[use][n].time + y /\ q[use][n].calls = sp[use][n].calls + 1
  /\ \A u \in Uses, a \in Names : u # use \/ a # n => q[u][a] = sp[u][a]

\* There are finitely many names.
LEMMA NamesFinite == IsFiniteSet(Names) /\ KernelNames \subseteq Names
<1> DEFINE f == [k \in Kernels |-> k.name]
<1>1. IsFiniteSet({f[k] : k \in Kernels})
  BY KernelTimerAssumption, ValuesFinite
<1>2. Names = {f[k] : k \in Kernels} \cup RegionNames
  BY DEF Names
<1>3. IsFiniteSet(Names)
  BY <1>1, <1>2, KernelTimerAssumption, FS_Union
<1> QED BY <1>3 DEF Names, KernelNames

\* A timer that starts changes no time and no count.
LEMMA StartsKeeps ==
  ASSUME NEW m, m \in [DOMAIN m -> Infos], NEW k, NEW n, NEW kType, NEW now,
         StartsIn(m, k, n, kType, now)
  PROVE  \A a : TimeOf(k, a) = TimeOf(m, a) /\ CallsOf(k, a) = CallsOf(m, a)
BY DEF StartsIn, TimeOf, CallsOf

\* Starting a timer leaves what is accounted, and more names may be tangled.
LEMMA StartsAccounts ==
  ASSUME NEW m, m \in [DOMAIN m -> Infos], NEW k, NEW n, NEW kType, NEW now,
         StartsIn(m, k, n, kType, now),
         NEW sp, NEW mixed, NEW more, mixed \subseteq more, Accounted(m, sp, mixed), Listed(m, sp)
  PROVE  Accounted(k, sp, more) /\ Listed(k, sp)
<1>1. \A a : TimeOf(k, a) = TimeOf(m, a) /\ CallsOf(k, a) = CallsOf(m, a)
  BY StartsKeeps
<1>2. [a \in Names |-> CallsOf(k, a)] = [a \in Names |-> CallsOf(m, a)]
  BY <1>1, Zenon
<1>3. Accounted(k, sp, more)
  <2>1. \A a \in Names \ more : a \in Names \ mixed
    OBVIOUS
  <2>2. SumOver([a \in Names |-> CallsOf(k, a)], Names) =
        SumOver([a \in Names |-> SpentCalls(sp, a)], Names)
    BY <1>2, Zenon DEF Accounted
  <2>3. \A a \in Names \ KernelNames : CallsOf(k, a) = SpentCalls(sp, a)
    BY <1>1, Zenon DEF Accounted
  <2>4. \A a \in Names \ more : TimeOf(k, a) = SpentTime(sp, a) /\ CallsOf(k, a) = SpentCalls(sp, a)
    BY <1>1, <2>1, Zenon DEF Accounted
  <2> QED BY <2>2, <2>3, <2>4, Zenon DEF Accounted
<1>4. Listed(k, sp)
  BY DEF Listed, StartsIn
<1> QED BY <1>3, <1>4

\* What is spent under a name is natural.
LEMMA SpentTyped ==
  ASSUME NEW sp \in [Uses -> [Names -> Amounts]]
  PROVE  \A n \in Names : /\ SpentTime(sp, n) \in Nat /\ SpentCalls(sp, n) \in Nat
                          /\ sp["kernel"][n] \in Amounts /\ sp["region"][n] \in Amounts
BY DEF SpentTime, SpentCalls, Uses, Amounts

\* What a map has for a name is a number, entry or none.
LEMMA EntriesTyped ==
  ASSUME NEW m, m \in [DOMAIN m -> Infos]
  PROVE  \A n : TimeOf(m, n) \in Nat /\ CallsOf(m, n) \in Nat
BY DEF TimeOf, CallsOf, Infos

\* An interval of the name n that ends is accounted, if it is added to the entry of
\* that name, and its time is right or the name tangled, or if it is a kernel's
\* and both names are tangled.
LEMMA EndsAccounted ==
  ASSUME NEW m, m \in [DOMAIN m -> Infos], DOMAIN m \subseteq Names, NEW k,
         NEW sp \in [Uses -> [Names -> Amounts]], NEW q,
         NEW e \in DOMAIN m, NEW n \in DOMAIN m, NEW x \in Nat, NEW y \in Nat, NEW use \in Uses,
         AddsTo(m, k, e, x), SpendsIn(sp, q, use, n, y),
         NEW mixed, Accounted(m, sp, mixed), Listed(m, sp),
         \/ e = n /\ (n \in mixed \/ x = y)
         \/ e \in mixed \cap KernelNames /\ n \in mixed \cap KernelNames
  PROVE  Accounted(k, q, mixed) /\ Listed(k, q)
<1>1. e \in Names /\ n \in Names /\ IsFiniteSet(Names)
  BY NamesFinite
<1>2. \A a \in Names : /\ TimeOf(k, a) = TimeOf(m, a) + (IF a = e THEN x ELSE 0)
                       /\ CallsOf(k, a) = CallsOf(m, a) + (IF a = e THEN 1 ELSE 0)
  BY DEF AddsTo, TimeOf, CallsOf, Infos
<1>3. \A a \in Names : /\ SpentTime(q, a) = SpentTime(sp, a) + (IF a = n THEN y ELSE 0)
                       /\ SpentCalls(q, a) = SpentCalls(sp, a) + (IF a = n THEN 1 ELSE 0)
  <2> SUFFICES ASSUME NEW a \in Names
               PROVE  /\ SpentTime(q, a) = SpentTime(sp, a) + (IF a = n THEN y ELSE 0)
                      /\ SpentCalls(q, a) = SpentCalls(sp, a) + (IF a = n THEN 1 ELSE 0)
    OBVIOUS
  <2>1. \A u \in Uses : sp[u][a].time \in Nat /\ sp[u][a].calls \in Nat
    BY DEF Amounts
  <2>2. \A u \in Uses :
          /\ q[u][a].time = sp[u][a].time + (IF u = use /\ a = n THEN y ELSE 0)
          /\ q[u][a].calls = sp[u][a].calls + (IF u = use /\ a = n THEN 1 ELSE 0)
    BY <2>1 DEF SpendsIn
  <2> QED BY <2>1, <2>2 DEF SpentTime, SpentCalls, Uses
<1>4. /\ \A a : TimeOf(m, a) \in Nat /\ CallsOf(m, a) \in Nat
      /\ \A a \in Names : SpentTime(sp, a) \in Nat /\ SpentCalls(sp, a) \in Nat
  BY EntriesTyped, SpentTyped
<1>5. SumOver([a \in Names |-> CallsOf(k, a)], Names) =
      SumOver([a \in Names |-> SpentCalls(q, a)], Names)
  <2> DEFINE f == [a \in Names |-> CallsOf(m, a)]
             g == [a \in Names |-> CallsOf(k, a)]
             h == [a \in Names |-> SpentCalls(sp, a)]
             i == [a \in Names |-> SpentCalls(q, a)]
  <2>1. /\ \A a \in Names : f[a] \in Int /\ g[a] \in Int /\ h[a] \in Int /\ i[a] \in Int
        /\ \A a \in Names \ {e} : f[a] = g[a]
        /\ \A a \in Names \ {n} : h[a] = i[a]
        /\ g[e] - f[e] = 1 /\ i[n] - h[n] = 1
    BY <1>1, <1>2, <1>3, <1>4
  <2>2. SumOver(f, Names) = SumOver(h, Names)
    BY DEF Accounted
  <2> HIDE DEF f, g, h, i
  <2>3. SumOver(g, Names) = SumOver(f, Names) + (g[e] - f[e])
    BY <1>1, <2>1, SumChange
  <2>4. SumOver(i, Names) = SumOver(h, Names) + (i[n] - h[n])
    BY <1>1, <2>1, SumChange
  <2>5. SumOver(g, Names) = SumOver(i, Names)
    BY <2>1, <2>2, <2>3, <2>4
  <2> QED BY <2>5 DEF g, i
<1>6. \A a \in Names \ KernelNames : CallsOf(k, a) = SpentCalls(q, a)
  BY <1>2, <1>3, <1>4 DEF Accounted
<1>7. \A a \in Names \ mixed : TimeOf(k, a) = SpentTime(q, a) /\ CallsOf(k, a) = SpentCalls(q, a)
  BY <1>2, <1>3, <1>4 DEF Accounted
<1>8. Listed(k, q)
  <2> SUFFICES ASSUME NEW a \in Names, NEW u \in Uses
               PROVE  /\ q[u][a].calls = 0 => q[u][a].time = 0
                      /\ q[u][a].calls > 0 => a \in DOMAIN k
    BY DEF Listed
  <2>1. CASE u = use /\ a = n
    BY <1>1, <2>1 DEF SpendsIn, AddsTo, Amounts, Uses
  <2>2. CASE u # use \/ a # n
    BY <2>2 DEF SpendsIn, AddsTo, Listed
  <2> QED BY <2>1, <2>2
<1> QED BY <1>5, <1>6, <1>7, <1>8, Zenon DEF Accounted

\* Where nothing was spent nothing is accounted.
LEMMA NothingAccounted ==
  ASSUME NEW sp, sp = [u \in Uses |-> [n \in Names |-> Nothing]]
  PROVE  /\ Accounted(EmptyMap, sp, {}) /\ Listed(EmptyMap, sp)
         /\ sp \in [Uses -> [Names -> Amounts]] /\ KernelTime(sp) = 0
         /\ EndedAs(sp, "kernel") = {}
<1>1. \A n \in Names, u \in Uses : sp[u][n].time = 0 /\ sp[u][n].calls = 0
  BY DEF Nothing
<1>2. \A n \in Names : SpentTime(sp, n) = 0 /\ SpentCalls(sp, n) = 0
  BY <1>1 DEF SpentTime, SpentCalls, Uses
<1>3. \A n : TimeOf(EmptyMap, n) = 0 /\ CallsOf(EmptyMap, n) = 0
  BY DEF TimeOf, CallsOf, EmptyMap
<1>4. SumOver([n \in Names |-> CallsOf(EmptyMap, n)], Names) =
      SumOver([n \in Names |-> SpentCalls(sp, n)], Names)
  BY <1>2, <1>3, NamesFinite, SumAgree
<1>5. KernelTime(sp) = 0
  BY <1>1, NamesFinite, SumZero DEF KernelTime, Uses
<1>6. sp \in [Uses -> [Names -> Amounts]]
  BY DEF Nothing, Amounts
<1>7. Listed(EmptyMap, sp)
  BY <1>1 DEF Listed
<1>8. EndedAs(sp, "kernel") = {}
  BY <1>1 DEF EndedAs, Uses
<1> QED BY <1>2, <1>3, <1>4, <1>5, <1>6, <1>7, <1>8 DEF Accounted

-----------------------------------------------------------------------------
(* The callbacks keep the invariant of the process                         *)

\* All of the invariant but the summary.
Accounts ==
  /\ TimerTyped /\ RunningTyped /\ PushedTyped /\ Started
  /\ KernelAlone /\ RegionsApart /\ TimeWithin
  /\ Accounted(count_map, spent, tangled)
  /\ Listed(count_map, spent)
  /\ Kinds(count_map, EndedAs(spent, "kernel") \cup NamesIn(running),
                      EndedAs(spent, "region") \cup NamesIn(pushed))

\* The invariant is what the callbacks keep, and the summary.
LEMMA InvIs == TimerInv <=> Accounts /\ SummaryIsTrue
BY DEF TimerInv, Accounts

\* increment_counter finds or makes the entry, and starts its timer.
LEMMA StartedIs ==
  ASSUME TimerTyped, NEW n \in Names, NEW kType \in KTypes
  PROVE  StartsIn(count_map, StartedEntry(n, kType), n, kType, clock)
<1> DEFINE found == Insert(count_map, n, NewInfo(kType))
           k == [found EXCEPT ![n] = startTimer(@)]
<1>1. found \in [DOMAIN count_map \cup {n} -> Infos] /\ DOMAIN found = DOMAIN count_map \cup {n}
  BY DEF TimerTyped, Insert, NewInfo, Infos
<1>2. /\ found[n] = IF n \in DOMAIN count_map THEN count_map[n] ELSE NewInfo(kType)
      /\ \A a \in DOMAIN count_map : found[a] = count_map[a]
  BY DEF Insert
<1>3. \A i \in Infos : /\ startTimer(i) \in Infos /\ startTimer(i).startTime = clock
                       /\ startTimer(i).kType = i.kType /\ startTimer(i).time = i.time
                       /\ startTimer(i).callCount = i.callCount
  BY DEF startTimer, Infos, TimerTyped
<1>4. NewInfo(kType).kType = kType /\ NewInfo(kType).time = 0 /\ NewInfo(kType).callCount = 0
  BY DEF NewInfo
<1> HIDE DEF found
<1>5. /\ DOMAIN k = DOMAIN count_map \cup {n} /\ k[n] = startTimer(found[n])
      /\ \A a \in DOMAIN k \ {n} : k[a] = found[a]
  BY <1>1
<1>6. k \in [DOMAIN k -> Infos]
  <2>1. k = [a \in DOMAIN k |-> k[a]]
    OBVIOUS
  <2> HIDE DEF k
  <2> QED BY <1>1, <1>3, <1>5, <2>1
<1> HIDE DEF k
<1>7. StartsIn(count_map, k, n, kType, clock)
  <2>1. found[n] \in Infos
    BY <1>1
  <2>2. k[n].startTime = clock
    BY <1>3, <1>5, <2>1
  <2>3. CASE n \in DOMAIN count_map
    BY <1>1, <1>2, <1>3, <1>5, <1>6, <2>1, <2>2, <2>3 DEF StartsIn
  <2>4. CASE n \notin DOMAIN count_map
    <3>1. k[n].kType = kType /\ k[n].time = 0 /\ k[n].callCount = 0
      BY <1>2, <1>3, <1>4, <1>5, <2>1, <2>4
    <3> QED BY <1>1, <1>2, <1>5, <1>6, <2>2, <2>4, <3>1 DEF StartsIn
  <2> QED BY <2>3, <2>4
<1> QED BY <1>7 DEF k, found, StartedEntry

\* addFromTimer adds the time since the timer was started, and a call.
LEMMA AddedIs ==
  ASSUME TimerTyped, Started, NEW e \in DOMAIN count_map
  PROVE  /\ AddsTo(count_map, [count_map EXCEPT ![e] = addFromTimer(@)], e,
                   clock - count_map[e].startTime)
         /\ clock - count_map[e].startTime \in Nat
<1> DEFINE i == count_map[e]
           j == addFromTimer(i)
           k == [count_map EXCEPT ![e] = addFromTimer(@)]
<1>1. i \in Infos /\ clock - i.startTime \in Nat
  BY DEF TimerTyped, Started, Infos
<1>2. /\ j \in Infos /\ j.time = i.time + (clock - i.startTime)
      /\ j.callCount = i.callCount + 1 /\ j.kType = i.kType /\ j.startTime = i.startTime
  <2>1. ASSUME NEW h \in Infos, NEW z \in Nat, z = clock - h.startTime, NEW r, r = addFromTimer(h)
        PROVE  /\ r \in Infos /\ r.time = h.time + z /\ r.callCount = h.callCount + 1
               /\ r.kType = h.kType /\ r.startTime = h.startTime
    <3> DEFINE t == h.time + z
               c == h.callCount + 1
    <3>1. t \in Nat /\ c \in Nat
      BY <2>1 DEF Infos
    <3>2. r = [h EXCEPT !.time = t, !.callCount = c]
      BY <2>1 DEF addFromTimer
    <3> HIDE DEF t, c
    <3>3. r = [kType |-> h.kType, time |-> t, callCount |-> c, startTime |-> h.startTime]
      BY <3>2 DEF Infos
    <3>4. h.kType \in KTypes /\ h.startTime \in Nat
      BY DEF Infos
    <3>5. r \in Infos /\ r.time = t /\ r.callCount = c
      BY <3>1, <3>3, <3>4 DEF Infos
    <3>6. r.kType = h.kType /\ r.startTime = h.startTime
      BY <3>3
    <3> QED BY <3>5, <3>6 DEF t, c
  <2> HIDE DEF i
  <2> QED BY <1>1, <2>1
<1>3. /\ DOMAIN k = DOMAIN count_map /\ k[e] = j /\ k = [a \in DOMAIN count_map |-> k[a]]
      /\ \A a \in DOMAIN count_map \ {e} : k[a] = count_map[a]
  BY DEF TimerTyped
<1> HIDE DEF j, k
<1>4. k \in [DOMAIN k -> Infos]
  BY <1>2, <1>3 DEF TimerTyped
<1>5. AddsTo(count_map, k, e, clock - i.startTime)
  BY <1>2, <1>3, <1>4 DEF AddsTo
<1> QED BY <1>1, <1>5 DEF k, i

\* The end of an interval of the host is spent under its name.
LEMMA SpendsIs ==
  ASSUME TimerTyped, NEW use \in Uses, NEW interval \in Intervals, interval.since <= clock,
         HostEnds(use, interval)
  PROVE  /\ SpendsIn(spent, spent', use, interval.name, clock - interval.since)
         /\ clock - interval.since \in Nat /\ interval.name \in Names
<1> DEFINE n == interval.name
           y == clock - interval.since
           old == spent[use][n]
           new == Spend(old, interval.since)
<1>1. y \in Nat /\ n \in Names
  BY DEF Intervals, TimerTyped
<1>2. old \in Amounts
  BY <1>1 DEF TimerTyped
<1>3. new \in Amounts /\ new.time = old.time + y /\ new.calls = old.calls + 1
  BY <1>1, <1>2 DEF Spend, Amounts
<1>4. PICK q : q = spent'
  OBVIOUS
<1>5. q = [spent EXCEPT ![use][n] = new]
  BY <1>4 DEF HostEnds
<1> HIDE DEF new, y, n
<1>6. /\ q = [u \in Uses |-> q[u]] /\ \A u \in Uses : q[u] = [a \in Names |-> q[u][a]]
      /\ q[use][n] = new
      /\ \A u \in Uses, a \in Names : u # use \/ a # n => q[u][a] = spent[u][a]
  BY <1>1, <1>5 DEF TimerTyped
<1>7. q \in [Uses -> [Names -> Amounts]]
  <2>1. \A u \in Uses, a \in Names : q[u][a] \in Amounts
    BY <1>3, <1>6 DEF TimerTyped
  <2>2. \A u \in Uses : q[u] \in [Names -> Amounts]
    BY <1>6, <2>1
  <2> QED BY <1>6, <2>2
<1>8. SpendsIn(spent, q, use, n, y)
  BY <1>3, <1>6, <1>7 DEF SpendsIn
<1> QED BY <1>1, <1>4, <1>8 DEF n, y

\* The elements of a sequence are of its set.
LEMMA SeqElements ==
  ASSUME NEW S, NEW s \in Seq(S)
  PROVE  \A i \in DOMAIN s : s[i] \in S
BY SeqDomain

\* The time of kernels is natural.
LEMMA KernelTimeNat ==
  ASSUME NEW sp \in [Uses -> [Names -> Amounts]]
  PROVE  KernelTime(sp) \in Nat
<1> DEFINE g == [n \in Names |-> sp["kernel"][n].time]
<1>1. \A n \in Names : g[n] \in Nat
  BY SpentTyped DEF Amounts
<1> HIDE DEF g
<1>2. SumOver(g, Names) \in Nat
  BY <1>1, NamesFinite, SumNat
<1> QED BY <1>2 DEF g, KernelTime

\* What the invariant is about.
account == <<clock, count_map, currentEntry, regions, current_region_level, running, pushed,
             spent, tangled>>

\* A step that leaves all that alone, of a tool that is up.
LEMMA AccountStays ==
  ASSUME Accounts, phase # "loaded" => phase' # "loaded", UNCHANGED account
  PROVE  Accounts'
<1> USE DEF account, Accounts
<1>1. TimerTyped' /\ RunningTyped' /\ Started'
  BY DEF TimerTyped, RunningTyped, Started
<1>2. PushedTyped'
  BY DEF PushedTyped
<1>3. KernelAlone' /\ RegionsApart' /\ TimeWithin'
  BY DEF KernelAlone, RegionsApart, TimeWithin, NamesIn
<1>4. Accounted(count_map, spent, tangled)' /\ Listed(count_map, spent)'
  OBVIOUS
<1>5. Kinds(count_map, EndedAs(spent, "kernel") \cup NamesIn(running),
                       EndedAs(spent, "region") \cup NamesIn(pushed))'
  BY DEF NamesIn
<1> QED BY <1>1, <1>2, <1>3, <1>4, <1>5

\* Nothing is pushed when the tool is loaded, so that the level is right at 0.
LEMMA InitLibraryKeeps ==
  ASSUME Accounts, InitLibrary
  PROVE  Accounts'
<1> USE DEF Accounts, InitLibrary, host
<1>1. pushed = << >> /\ pushed' = << >>
  BY DEF PushedTyped
<1>2. TimerTyped' /\ RunningTyped' /\ Started'
  BY DEF TimerTyped, RunningTyped, Started
<1>3. PushedTyped'
  BY <1>1 DEF PushedTyped
<1>4. KernelAlone' /\ RegionsApart' /\ TimeWithin'
  BY DEF KernelAlone, RegionsApart, TimeWithin, NamesIn
<1>5. Accounted(count_map, spent, tangled)' /\ Listed(count_map, spent)'
  OBVIOUS
<1>6. Kinds(count_map, EndedAs(spent, "kernel") \cup NamesIn(running),
                       EndedAs(spent, "region") \cup NamesIn(pushed))'
  BY DEF NamesIn
<1> QED BY <1>2, <1>3, <1>4, <1>5, <1>6

\* Time that passes leaves what has begun in the past.
LEMMA TickKeeps ==
  ASSUME Accounts, Tick
  PROVE  Accounts'
<1> USE DEF Accounts, Tick, tool, host
<1>1. clock \in Nat /\ clock' = clock + 1
  BY DEF TimerTyped
<1>2. TimerTyped'
  BY <1>1 DEF TimerTyped
<1>3. RunningTyped'
  <2>1. \A i \in DOMAIN running : running[i] \in Intervals
    BY SeqElements DEF RunningTyped
  <2> QED BY <1>1, <2>1 DEF RunningTyped, Intervals
<1>4. PushedTyped'
  <2>1. \A i \in DOMAIN pushed : pushed[i] \in Intervals
    BY SeqElements DEF PushedTyped
  <2> QED BY <1>1, <2>1 DEF PushedTyped, Intervals
<1>5. Started'
  <2>1. \A n \in DOMAIN count_map : count_map[n].startTime \in Nat
    BY DEF TimerTyped, Infos
  <2> QED BY <1>1, <2>1 DEF Started
<1>6. KernelAlone' /\ RegionsApart'
  BY DEF KernelAlone, RegionsApart, NamesIn
<1>7. TimeWithin'
  <2>1. KernelTime(spent) \in Nat
    BY KernelTimeNat DEF TimerTyped
  <2>2. KernelTime(spent') = KernelTime(spent)
    OBVIOUS
  <2> QED BY <1>1, <2>1, <2>2 DEF TimeWithin
<1>8. Accounted(count_map, spent, tangled)' /\ Listed(count_map, spent)'
  OBVIOUS
<1>9. Kinds(count_map, EndedAs(spent, "kernel") \cup NamesIn(running),
                       EndedAs(spent, "region") \cup NamesIn(pushed))'
  BY DEF NamesIn
<1> QED BY <1>2, <1>3, <1>4, <1>5, <1>6, <1>7, <1>8, <1>9

\* A kernel without a name leaves everything of the tool as it is.
LEMMA BeginUnnamedKeeps ==
  ASSUME Accounts, BeginUnnamed
  PROVE  Accounts'
BY AccountStays DEF BeginUnnamed, account, host

\* A push beyond the slots leaves what was accounted before it.
LEMMA PushOverrunKeeps ==
  ASSUME Accounts, PushOverrun
  PROVE  Accounts'
BY AccountStays DEF PushOverrun, account, host

\* A pop outside of any region finds the level at 0.
LEMMA PopOutsideKeeps ==
  ASSUME Accounts, PopOutside
  PROVE  Accounts'
<1>1. current_region_level \in Nat
  BY DEF Accounts, PushedTyped
<1>2. current_region_level' = current_region_level
  BY <1>1 DEF PopOutside, InnermostRegion, LevelAfterWarning
<1> QED BY <1>2, AccountStays DEF PopOutside, account, host

\* The names of a sequence of intervals with one more.
LEMMA NamesAppend ==
  ASSUME NEW s \in Seq(Intervals), NEW x \in Intervals
  PROVE  /\ NamesIn(Append(s, x)) = NamesIn(s) \cup {x.name}
         /\ Append(s, x) \in Seq(Intervals) /\ Append(s, x) # << >>
         /\ DOMAIN Append(s, x) = DOMAIN s \cup {Len(s) + 1} /\ Len(s) + 1 \notin DOMAIN s
         /\ \A i \in DOMAIN s : Append(s, x)[i] = s[i]
         /\ Append(s, x)[Len(s) + 1] = x
         /\ Len(Append(s, x)) = Len(s) + 1 /\ Len(s) \in Nat
<1>1. PICK t : t = Append(s, x)
  OBVIOUS
<1>2. /\ t \in Seq(Intervals) /\ Len(t) = Len(s) + 1 /\ Len(s) \in Nat
      /\ DOMAIN t = 1 .. Len(s) + 1 /\ DOMAIN s = 1 .. Len(s)
      /\ t[Len(s) + 1] = x /\ \A i \in 1 .. Len(s) : t[i] = s[i]
  BY <1>1
<1>3. DOMAIN t = DOMAIN s \cup {Len(s) + 1} /\ Len(s) + 1 \notin DOMAIN s /\ t # << >>
  BY <1>2
<1>4. NamesIn(t) = NamesIn(s) \cup {x.name}
  <2>1. \A a : a \in NamesIn(t) <=> \E i \in DOMAIN t : a = t[i].name
    BY DEF NamesIn
  <2>2. \A a : a \in NamesIn(s) <=> \E i \in DOMAIN s : a = s[i].name
    BY DEF NamesIn
  <2>3. \A i \in DOMAIN s : t[i] = s[i]
    BY <1>2
  <2>4. ASSUME NEW a \in NamesIn(t) PROVE a \in NamesIn(s) \cup {x.name}
    <3>1. PICK i \in DOMAIN t : a = t[i].name
      BY <2>1
    <3>2. CASE i \in DOMAIN s
      BY <2>2, <2>3, <3>1, <3>2
    <3>3. CASE i = Len(s) + 1
      BY <1>2, <3>1, <3>3
    <3> QED BY <1>3, <3>2, <3>3
  <2>5. ASSUME NEW a \in NamesIn(s) PROVE a \in NamesIn(t)
    <3>1. PICK i \in DOMAIN s : a = s[i].name
      BY <2>2
    <3> QED BY <1>3, <2>1, <2>3, <3>1
  <2>6. x.name \in NamesIn(t)
    BY <1>2, <1>3, <2>1
  <2> QED BY <2>4, <2>5, <2>6
<1> QED BY <1>1, <1>2, <1>3, <1>4

\* The names of a sequence are what its elements are of.
LEMMA NamesTyped ==
  ASSUME NEW s \in Seq(Intervals)
  PROVE  /\ NamesIn(s) \subseteq Names
         /\ \A i \in DOMAIN s : s[i] \in Intervals /\ s[i].name \in NamesIn(s)
<1>1. \A i \in DOMAIN s : s[i] \in Intervals
  BY SeqElements
<1> QED BY <1>1 DEF NamesIn, Intervals

\* The type of an entry stays right when a timer starts.
LEMMA StartsKinds ==
  ASSUME NEW m, NEW k, NEW n, NEW kType, NEW now, StartsIn(m, k, n, kType, now),
         NEW K, NEW R, NEW L, NEW Q, Kinds(m, K, R), K \subseteq L, R \subseteq Q,
         IF kType = "REGION" THEN n \in Q ELSE n \in L
  PROVE  Kinds(k, L, Q)
<1> SUFFICES ASSUME NEW a \in DOMAIN k
             PROVE  IF k[a].kType = "REGION" THEN a \in Q ELSE a \in L
  BY DEF Kinds
<1>1. CASE a \in DOMAIN m
  <2>1. k[a].kType = m[a].kType
    BY <1>1 DEF StartsIn
  <2> QED BY <1>1, <2>1 DEF Kinds
<1>2. CASE a \notin DOMAIN m
  <2>1. a = n /\ k[a].kType = kType
    BY <1>2 DEF StartsIn
  <2> QED BY <2>1
<1> QED BY <1>1, <1>2

\* A kernel that begins is alone, or it and those in flight become tangled.
LEMMA BeginParallelKeeps ==
  ASSUME Accounts, NEW kernel \in Kernels, BeginParallel(kernel)
  PROVE  Accounts'
<1> DEFINE n == kernel.name
           x == Open(n)
<1>1. /\ TimerTyped /\ RunningTyped /\ PushedTyped /\ Started
      /\ KernelAlone /\ RegionsApart /\ TimeWithin
      /\ Accounted(count_map, spent, tangled) /\ Listed(count_map, spent)
  BY DEF Accounts
<1>2. n \in Names /\ n \in KernelNames /\ kernel.kType \in KernelTypes /\ kernel.kType \in KTypes
  BY KernelTimerAssumption DEF Names, KernelNames, KTypes
<1>3. x \in Intervals /\ x.name = n /\ x.since = clock
  BY <1>1, <1>2 DEF Open, Intervals, TimerTyped
<1>4. PICK k : k = count_map'
  OBVIOUS
<1>5. StartsIn(count_map, k, n, kernel.kType, clock)
  BY <1>1, <1>2, <1>4, StartedIs DEF BeginParallel
<1>6. PICK r, t : r = running' /\ t = tangled'
  OBVIOUS
<1>7. /\ currentEntry' = n /\ r = Append(running, x)
      /\ tangled \subseteq t /\ (running # << >> => NamesIn(running) \cup {n} \subseteq t)
      /\ t \subseteq tangled \cup NamesIn(running) \cup {n}
      /\ (n \in NamesIn(pushed) => n \in t)
      /\ UNCHANGED <<phase, clock, regions, current_region_level, pushed, spent>>
  BY <1>6 DEF BeginParallel
<1>8. running \in Seq(Intervals) /\ pushed \in Seq(Intervals)
  BY <1>1 DEF RunningTyped, PushedTyped
<1> HIDE DEF n, x
<1>9. /\ NamesIn(r) = NamesIn(running) \cup {n} /\ r \in Seq(Intervals) /\ r # << >>
      /\ DOMAIN r = DOMAIN running \cup {Len(running) + 1}
      /\ \A i \in DOMAIN running : r[i] = running[i]
      /\ r[Len(running) + 1] = x
  BY <1>3, <1>7, <1>8, NamesAppend
<1>10. DOMAIN k = DOMAIN count_map \cup {n}
  BY <1>5 DEF StartsIn
<1>11. TimerTyped'
  <2>1. k \in [DOMAIN k -> Infos] /\ DOMAIN k \subseteq Names /\ t \subseteq Names
    BY <1>1, <1>2, <1>5, <1>7, <1>8, NamesTyped DEF StartsIn, TimerTyped
  <2> QED BY <1>1, <1>4, <1>6, <1>7, <2>1 DEF TimerTyped
<1>12. RunningTyped'
  <2>1. clock <= clock
    BY <1>1 DEF TimerTyped
  <2>2. \A i \in DOMAIN r : r[i].since <= clock /\ r[i].name \in KernelNames \cap DOMAIN k
    BY <1>1, <1>2, <1>3, <1>9, <1>10, <2>1 DEF RunningTyped
  <2> QED BY <1>2, <1>4, <1>6, <1>7, <1>9, <1>10, <2>2 DEF RunningTyped
<1>13. PushedTyped'
  <2>1. \A i \in DOMAIN pushed : pushed[i].name \in DOMAIN k
    BY <1>1, <1>10 DEF PushedTyped
  <2> QED BY <1>1, <1>4, <1>7, <2>1 DEF PushedTyped
<1>14. Started'
  <2>1. \A a \in DOMAIN k : k[a].startTime <= clock
    BY <1>1, <1>5 DEF Started, StartsIn, TimerTyped
  <2> QED BY <1>4, <1>7, <2>1 DEF Started
<1>15. KernelAlone'
  <2>1. CASE running # << >>
    <3>1. {n} \cup NamesIn(r) \subseteq t
      BY <1>7, <1>9, <2>1
    <3>2. NamesIn(r) = NamesIn(running')
      BY <1>6
    <3>3. {currentEntry'} \cup NamesIn(running') \subseteq tangled'
      BY <1>6, <1>7, <3>1, <3>2
    <3> QED BY <3>3 DEF KernelAlone, NamesIn
  <2>2. CASE running = << >>
    <3>1. r = << [name |-> n, since |-> clock] >>
      BY <1>7, <2>2 DEF x, Open
    <3>2. k[n].startTime = clock
      BY <1>5 DEF StartsIn
    <3>3. running' = <<[name |-> currentEntry', since |-> count_map'[currentEntry'].startTime]>>
      BY <1>4, <1>6, <1>7, <3>1, <3>2
    <3> QED BY <3>3 DEF KernelAlone
  <2> QED BY <2>1, <2>2
<1>16. RegionsApart'
  <2>1. ASSUME NEW i \in DOMAIN pushed, pushed[i].name \notin t
        PROVE  /\ k[pushed[i].name].startTime = pushed[i].since
               /\ pushed[i].name \notin NamesIn(r)
               /\ \A j \in DOMAIN pushed : pushed[j].name = pushed[i].name => j = i
    <3>1. pushed[i].name \in NamesIn(pushed) /\ pushed[i].name \in DOMAIN count_map
      BY <1>1 DEF NamesIn, PushedTyped
    <3>2. pushed[i].name # n /\ pushed[i].name \notin tangled
      BY <1>7, <2>1, <3>1
    <3>3. k[pushed[i].name] = count_map[pushed[i].name]
      BY <1>5, <3>1, <3>2 DEF StartsIn
    <3> QED BY <1>1, <1>9, <3>2, <3>3 DEF RegionsApart
  <2>2. NamesIn(r) = NamesIn(running')
    BY <1>6
  <2> QED BY <1>4, <1>6, <1>7, <2>1, <2>2 DEF RegionsApart, NamesIn
<1>17. TimeWithin'
  <2>1. ASSUME t = {} PROVE KernelTime(spent) <= r[1].since /\ r # << >>
    <3>1. tangled = {} /\ running = << >>
      BY <1>7, <2>1
    <3>2. r = << x >>
      BY <1>7, <3>1
    <3> QED BY <1>1, <1>3, <3>1, <3>2 DEF TimeWithin
  <2>2. KernelTime(spent') = KernelTime(spent)
    BY <1>7
  <2> QED BY <1>6, <2>1, <2>2 DEF TimeWithin
<1>18. Accounted(count_map, spent, tangled)' /\ Listed(count_map, spent)'
  <2>1. Accounted(k, spent, t) /\ Listed(k, spent)
    <3>1. count_map \in [DOMAIN count_map -> Infos] /\ tangled \subseteq t
      BY <1>1, <1>7 DEF TimerTyped
    <3> QED BY <1>1, <1>5, <3>1, StartsAccounts
  <2>2. spent' = spent
    BY <1>7
  <2> QED BY <1>4, <1>6, <2>1, <2>2
<1>19. Kinds(count_map, EndedAs(spent, "kernel") \cup NamesIn(running),
                        EndedAs(spent, "region") \cup NamesIn(pushed))'
  <2> DEFINE K == EndedAs(spent, "kernel") \cup NamesIn(running)
             R == EndedAs(spent, "region") \cup NamesIn(pushed)
             L == EndedAs(spent, "kernel") \cup NamesIn(r)
  <2>1. Kinds(count_map, K, R)
    BY DEF Accounts
  <2>2. K \subseteq L /\ n \in L /\ kernel.kType # "REGION"
    BY <1>2, <1>9 DEF KernelTypes
  <2>3. Kinds(k, L, R)
    <3> HIDE DEF K, R, L
    <3> QED BY <1>5, <2>1, <2>2, StartsKinds
  <2> QED BY <1>4, <1>6, <1>7, <2>3
<1> QED BY <1>11, <1>12, <1>13, <1>14, <1>15, <1>16, <1>17, <1>18, <1>19 DEF Accounts

\* A region that is pushed is alone with its name, or the name becomes tangled.
LEMMA PushRegionKeeps ==
  ASSUME Accounts, NEW n \in RegionNames, PushRegion(n)
  PROVE  Accounts'
<1> DEFINE x == Open(n)
           level == Len(pushed)
<1>1. /\ TimerTyped /\ RunningTyped /\ PushedTyped /\ Started
      /\ KernelAlone /\ RegionsApart /\ TimeWithin
      /\ Accounted(count_map, spent, tangled) /\ Listed(count_map, spent)
  BY DEF Accounts
<1>2. n \in Names /\ "REGION" \in KTypes
  BY DEF Names, KTypes
<1>3. x \in Intervals /\ x.name = n /\ x.since = clock
  BY <1>1, <1>2 DEF Open, Intervals, TimerTyped
<1>4. PICK k : k = count_map'
  OBVIOUS
<1>5. StartsIn(count_map, k, n, "REGION", clock)
  BY <1>1, <1>2, <1>4, StartedIs DEF PushRegion
<1>6. PICK p, t, g : p = pushed' /\ t = tangled' /\ g = regions'
  OBVIOUS
<1>7. /\ p = Append(pushed, x) /\ tangled \subseteq t /\ t \subseteq tangled \cup {n}
      /\ (n \in NamesIn(pushed) \cup NamesIn(running) => n \in t)
      /\ g = [regions EXCEPT ![level] = n] /\ level < RegionSlots
      /\ current_region_level' = level + 1 /\ phase = "up"
      /\ UNCHANGED <<phase, clock, currentEntry, running, spent>>
  BY <1>1, <1>6 DEF PushRegion, PushedTyped
<1>8. running \in Seq(Intervals) /\ pushed \in Seq(Intervals)
  BY <1>1 DEF RunningTyped, PushedTyped
<1> HIDE DEF x
<1>9. /\ NamesIn(p) = NamesIn(pushed) \cup {n} /\ p \in Seq(Intervals) /\ p # << >>
      /\ DOMAIN p = DOMAIN pushed \cup {level + 1} /\ level + 1 \notin DOMAIN pushed
      /\ \A i \in DOMAIN pushed : p[i] = pushed[i]
      /\ p[level + 1] = x /\ Len(p) = level + 1 /\ level \in Nat
  BY <1>3, <1>7, <1>8, NamesAppend
<1>10. DOMAIN k = DOMAIN count_map \cup {n}
  BY <1>5 DEF StartsIn
<1>11. TimerTyped'
  <2>1. k \in [DOMAIN k -> Infos] /\ DOMAIN k \subseteq Names /\ t \subseteq Names
    BY <1>1, <1>2, <1>5, <1>7 DEF StartsIn, TimerTyped
  <2> QED BY <1>1, <1>4, <1>6, <1>7, <2>1 DEF TimerTyped
<1>12. RunningTyped'
  BY <1>1, <1>4, <1>7, <1>10 DEF RunningTyped
<1>13. PushedTyped'
  <2>1. DOMAIN g = 0 .. RegionSlots - 1 /\ DOMAIN pushed = 1 .. level
    BY <1>1, <1>7, <1>8, SeqDomain DEF PushedTyped
  <2>2. g[level] = n /\ \A i \in DOMAIN pushed : g[i - 1] = regions[i - 1]
    BY <1>1, <1>7, <1>9, <2>1, KernelTimerAssumption DEF PushedTyped
  <2>3. \A i \in DOMAIN p : /\ p[i].since <= clock /\ p[i].name \in DOMAIN k
                            /\ g[i - 1] = p[i].name
    <3>1. (level + 1) - 1 = level /\ clock <= clock
      BY <1>1, <1>9 DEF TimerTyped
    <3>2. \A i \in DOMAIN pushed : /\ p[i].since <= clock /\ p[i].name \in DOMAIN k
                                   /\ g[i - 1] = p[i].name
      BY <1>1, <1>9, <1>10, <2>2 DEF PushedTyped
    <3>3. /\ p[level + 1].since <= clock /\ p[level + 1].name \in DOMAIN k
          /\ g[(level + 1) - 1] = p[level + 1].name
      BY <1>3, <1>9, <1>10, <2>2, <3>1
    <3> QED BY <1>9, <3>2, <3>3
  <2>4. Len(p) <= RegionSlots
    BY <1>7, <1>9, KernelTimerAssumption
  <2> QED BY <1>4, <1>6, <1>7, <1>9, <2>1, <2>3, <2>4 DEF PushedTyped
<1>14. Started'
  <2>1. \A a \in DOMAIN k : k[a].startTime <= clock
    BY <1>1, <1>5 DEF Started, StartsIn, TimerTyped
  <2> QED BY <1>4, <1>7, <2>1 DEF Started
<1>15. KernelAlone'
  <2>1. ASSUME running # << >>, ~ {currentEntry} \cup NamesIn(running) \subseteq t
        PROVE  running = <<[name |-> currentEntry, since |-> k[currentEntry].startTime]>>
    <3>1. running = <<[name |-> currentEntry, since |-> count_map[currentEntry].startTime]>>
      BY <1>1, <1>7, <2>1 DEF KernelAlone
    <3>2. NamesIn(running) = {currentEntry}
      <4>1. PICK y : y = count_map[currentEntry].startTime
        OBVIOUS
      <4>2. PICK s : s = <<[name |-> currentEntry, since |-> y]>>
        OBVIOUS
      <4>3. DOMAIN s = {1} /\ s[1].name = currentEntry
        BY <4>2
      <4>4. NamesIn(s) = {currentEntry}
        BY <4>3 DEF NamesIn
      <4> QED BY <3>1, <4>1, <4>2, <4>4
    <3>3. currentEntry # n
      BY <1>7, <2>1, <3>2
    <3>4. k[currentEntry] = count_map[currentEntry]
      BY <1>1, <1>5, <2>1, <3>3 DEF RunningTyped, StartsIn
    <3> QED BY <3>1, <3>4
  <2>2. NamesIn(running') = NamesIn(running)
    BY <1>7
  <2> QED BY <1>4, <1>6, <1>7, <2>1, <2>2 DEF KernelAlone, NamesIn
<1>16. RegionsApart'
  <2>1. ASSUME NEW i \in DOMAIN p, p[i].name \notin t
        PROVE  /\ k[p[i].name].startTime = p[i].since
               /\ p[i].name \notin NamesIn(running)
               /\ \A j \in DOMAIN p : p[j].name = p[i].name => j = i
    <3>1. \A j \in DOMAIN pushed : pushed[j].name \in NamesIn(pushed)
      BY DEF NamesIn
    <3>2. CASE i \in DOMAIN pushed
      <4>1. p[i] = pushed[i] /\ pushed[i].name \notin tangled
        BY <1>7, <1>9, <2>1, <3>2
      <4>2. p[i].name # n
        BY <1>7, <2>1, <3>1, <3>2, <4>1
      <4>3. k[p[i].name] = count_map[p[i].name]
        BY <1>1, <1>5, <3>2, <4>1, <4>2 DEF PushedTyped, StartsIn
      <4>4. /\ count_map[p[i].name].startTime = p[i].since
            /\ p[i].name \notin NamesIn(running)
            /\ \A j \in DOMAIN pushed : pushed[j].name = p[i].name => j = i
        BY <1>1, <3>2, <4>1 DEF RegionsApart
      <4> QED BY <1>3, <1>9, <4>2, <4>3, <4>4
    <3>3. CASE i = level + 1
      <4>1. p[i].name = n /\ p[i].since = clock
        BY <1>3, <1>9, <3>3
      <4>2. n \notin NamesIn(pushed) /\ n \notin NamesIn(running)
        BY <1>7, <2>1, <4>1
      <4>3. k[n].startTime = clock
        BY <1>5 DEF StartsIn
      <4>4. \A j \in DOMAIN pushed : p[j].name # n
        BY <1>9, <3>1, <4>2
      <4> QED BY <1>9, <3>3, <4>1, <4>2, <4>3, <4>4
    <3> QED BY <1>9, <3>2, <3>3
  <2>2. NamesIn(running) = NamesIn(running')
    BY <1>7
  <2> QED BY <1>4, <1>6, <1>7, <2>1, <2>2 DEF RegionsApart, NamesIn
<1>17. TimeWithin'
  <2>1. t = {} => tangled = {}
    BY <1>7
  <2>2. KernelTime(spent') = KernelTime(spent)
    BY <1>7
  <2> QED BY <1>1, <1>6, <1>7, <2>1, <2>2 DEF TimeWithin
<1>18. Accounted(count_map, spent, tangled)' /\ Listed(count_map, spent)'
  <2>1. Accounted(k, spent, t) /\ Listed(k, spent)
    <3>1. count_map \in [DOMAIN count_map -> Infos] /\ tangled \subseteq t
      BY <1>1, <1>7 DEF TimerTyped
    <3> QED BY <1>1, <1>5, <3>1, StartsAccounts
  <2>2. spent' = spent
    BY <1>7
  <2> QED BY <1>4, <1>6, <2>1, <2>2
<1>19. Kinds(count_map, EndedAs(spent, "kernel") \cup NamesIn(running),
                        EndedAs(spent, "region") \cup NamesIn(pushed))'
  <2> DEFINE K == EndedAs(spent, "kernel") \cup NamesIn(running)
             R == EndedAs(spent, "region") \cup NamesIn(pushed)
             Q == EndedAs(spent, "region") \cup NamesIn(p)
  <2>1. Kinds(count_map, K, R)
    BY DEF Accounts
  <2>2. R \subseteq Q /\ n \in Q
    BY <1>9
  <2>3. Kinds(k, K, Q)
    <3> HIDE DEF K, R, Q
    <3> QED BY <1>5, <2>1, <2>2, StartsKinds
  <2> QED BY <1>4, <1>6, <1>7, <2>3
<1> QED BY <1>11, <1>12, <1>13, <1>14, <1>15, <1>16, <1>17, <1>18, <1>19 DEF Accounts

\* The sequence r is s, of intervals, without its element i.
RemovedFrom(s, i, r) ==
  /\ r \in Seq(Intervals)
  /\ \A j \in DOMAIN r : \E h \in DOMAIN s : r[j] = s[h]
  /\ \A h \in DOMAIN s : h = i \/ \E j \in DOMAIN r : r[j] = s[h]
  /\ NamesIn(r) \subseteq NamesIn(s) /\ NamesIn(s) \subseteq NamesIn(r) \cup {s[i].name}
  /\ Len(s) = 1 => r = << >>

\* The names without an element are those of the others.
LEMMA NamesRemove ==
  ASSUME NEW s \in Seq(Intervals), NEW i \in DOMAIN s,
         NEW r, r = SubSeq(s, 1, i - 1) \o SubSeq(s, i + 1, Len(s))
  PROVE  RemovedFrom(s, i, r)
<1>1. i \in 1 .. Len(s) /\ DOMAIN s = 1 .. Len(s) /\ Len(s) \in Nat
  BY SeqDomain
<1>2. /\ r \in Seq(Intervals) /\ Len(r) = Len(s) - 1
      /\ \A k \in 1 .. Len(s) - 1 : r[k] = IF k < i THEN s[k] ELSE s[k + 1]
  BY <1>1, RemoveAtIs DEF RemoveAt
<1>3. DOMAIN r = 1 .. Len(s) - 1
  BY <1>2, SeqDomain
<1>4. ASSUME NEW j \in DOMAIN r PROVE \E h \in DOMAIN s : r[j] = s[h]
  <2>1. CASE j < i
    BY <1>1, <1>2, <1>3, <2>1
  <2>2. CASE ~ j < i
    <3>1. j \in 1 .. Len(s) - 1
      BY <1>3
    <3>2. r[j] = s[j + 1]
      BY <1>2, <2>2, <3>1
    <3>3. j + 1 \in DOMAIN s
      BY <1>1, <3>1
    <3> QED BY <3>2, <3>3
  <2> QED BY <2>1, <2>2
<1>5. ASSUME NEW h \in DOMAIN s, h # i PROVE \E j \in DOMAIN r : r[j] = s[h]
  <2>1. CASE h < i
    <3>1. r[h] = s[h] /\ h \in DOMAIN r
      BY <1>1, <1>2, <1>3, <2>1
    <3> QED BY <3>1
  <2>2. CASE ~ h < i
    <3>1. h - 1 \in DOMAIN r /\ ~ (h - 1 < i) /\ (h - 1) + 1 = h
      BY <1>1, <1>3, <1>5, <2>2
    <3>2. r[h - 1] = s[h]
      BY <1>2, <1>3, <3>1
    <3> QED BY <3>1, <3>2
  <2> QED BY <2>1, <2>2
<1>6. NamesIn(r) \subseteq NamesIn(s)
  BY <1>4 DEF NamesIn
<1>7. ASSUME NEW a \in NamesIn(s) PROVE a \in NamesIn(r) \cup {s[i].name}
  <2>1. PICK h \in DOMAIN s : a = s[h].name
    BY DEF NamesIn
  <2>2. CASE h # i
    <3>1. PICK j \in DOMAIN r : r[j] = s[h]
      BY <1>5, <2>2
    <3> QED BY <2>1, <3>1 DEF NamesIn
  <2> QED BY <2>1, <2>2
<1>8. Len(s) = 1 => r = << >>
  BY <1>2
<1> QED BY <1>2, <1>4, <1>5, <1>6, <1>7, <1>8 DEF RemovedFrom

\* The type of an entry stays right when an interval ends.
LEMMA EndsKinds ==
  ASSUME NEW m, NEW k, NEW e, NEW x, AddsTo(m, k, e, x),
         NEW K, NEW R, NEW L, NEW Q, Kinds(m, K, R), K \subseteq L, R \subseteq Q
  PROVE  Kinds(k, L, Q)
<1> SUFFICES ASSUME NEW a \in DOMAIN k
             PROVE  IF k[a].kType = "REGION" THEN a \in Q ELSE a \in L
  BY DEF Kinds
<1>1. k[a].kType = m[a].kType /\ a \in DOMAIN m
  BY DEF AddsTo
<1> QED BY <1>1 DEF Kinds

\* The names that have ended are those of before and the one that ends.
EndedMore(sp, q, use, n) ==
  /\ n \in EndedAs(q, use)
  /\ \A u \in Uses : /\ EndedAs(sp, u) \subseteq EndedAs(q, u)
                      /\ EndedAs(q, u) \subseteq EndedAs(sp, u) \cup {n}
  /\ use = "region" => EndedAs(q, "kernel") = EndedAs(sp, "kernel")

\* An interval that is spent adds its name to those that have ended, and no other.
LEMMA EndedGrows ==
  ASSUME NEW sp \in [Uses -> [Names -> Amounts]], NEW q, NEW use \in Uses, NEW n \in Names, NEW y,
         SpendsIn(sp, q, use, n, y)
  PROVE  EndedMore(sp, q, use, n)
<1>1. \A u \in Uses, a \in Names : sp[u][a].calls \in Nat
  BY DEF Amounts
<1>2. q[use][n].calls > 0
  BY <1>1 DEF SpendsIn
<1>3. ASSUME NEW u \in Uses, NEW a \in EndedAs(sp, u) PROVE a \in EndedAs(q, u)
  <2>1. CASE u = use /\ a = n
    BY <1>2, <2>1 DEF EndedAs
  <2>2. CASE u # use \/ a # n
    BY <2>2 DEF EndedAs, SpendsIn
  <2> QED BY <2>1, <2>2
<1>4. ASSUME NEW u \in Uses, NEW a \in EndedAs(q, u), u # use \/ a # n PROVE a \in EndedAs(sp, u)
  BY <1>4 DEF EndedAs, SpendsIn
<1>5. n \in EndedAs(q, use)
  BY <1>2 DEF EndedAs
<1>6. \A u \in Uses : EndedAs(q, u) \subseteq EndedAs(sp, u) \cup {n}
  BY <1>4
<1>7. use = "region" => EndedAs(q, "kernel") = EndedAs(sp, "kernel")
  <2>1. "kernel" \in Uses /\ (use = "region" => "kernel" # use)
    BY DEF Uses
  <2> QED BY <1>3, <1>4, <2>1
<1> QED BY <1>3, <1>5, <1>6, <1>7 DEF EndedMore

\* The time of kernels grows by that of a kernel that ends.
LEMMA KernelTimeGrows ==
  ASSUME NEW sp \in [Uses -> [Names -> Amounts]], NEW q, NEW use \in Uses, NEW n \in Names,
         NEW y \in Nat, SpendsIn(sp, q, use, n, y)
  PROVE  /\ use = "kernel" => KernelTime(q) = KernelTime(sp) + y
         /\ use = "region" => KernelTime(q) = KernelTime(sp)
<1> DEFINE f == [a \in Names |-> sp["kernel"][a].time]
           g == [a \in Names |-> q["kernel"][a].time]
<1>1. "kernel" \in Uses /\ \A a \in Names : sp["kernel"][a].time \in Nat
  BY DEF Uses, Amounts
<1>2. \A a \in Names : q["kernel"][a].time \in Nat
  BY <1>1 DEF SpendsIn, Amounts
<1>3. \A a \in Names : f[a] \in Nat /\ g[a] \in Nat /\ f[a] \in Int /\ g[a] \in Int
  BY <1>1, <1>2
<1>4. CASE use = "kernel"
  <2>1. g[n] = f[n] + y /\ \A a \in Names \ {n} : f[a] = g[a]
    BY <1>1, <1>4 DEF SpendsIn
  <2> HIDE DEF f, g
  <2>2. SumOver(g, Names) = SumOver(f, Names) + (g[n] - f[n]) /\ SumOver(f, Names) \in Nat
    BY <1>3, <2>1, NamesFinite, SumChange, SumNat
  <2>3. SumOver(g, Names) = SumOver(f, Names) + y
    BY <1>3, <2>1, <2>2
  <2> QED BY <1>4, <2>3 DEF f, g, KernelTime
<1>5. CASE use = "region"
  <2>1. \A a \in Names : f[a] = g[a]
    BY <1>1, <1>5 DEF SpendsIn
  <2> HIDE DEF f, g
  <2>2. SumOver(f, Names) = SumOver(g, Names)
    BY <2>1, NamesFinite, SumAgree
  <2> QED BY <1>5, <2>2 DEF f, g, KernelTime
<1> QED BY <1>4, <1>5 DEF Uses

\* A kernel that ends is added to the current entry, which is its own or tangled
\* with it.
LEMMA EndParallelKeeps ==
  ASSUME Accounts, NEW i \in DOMAIN running, EndParallel(i)
  PROVE  Accounts'
<1> DEFINE v == running[i]
           n == v.name
           e == currentEntry
           x == clock - count_map[e].startTime
           y == clock - v.since
<1>1. /\ TimerTyped /\ RunningTyped /\ PushedTyped /\ Started
      /\ KernelAlone /\ RegionsApart /\ TimeWithin
      /\ Accounted(count_map, spent, tangled) /\ Listed(count_map, spent)
  BY DEF Accounts
<1>2. running \in Seq(Intervals) /\ running # << >>
  BY <1>1 DEF RunningTyped
<1>3. /\ v \in Intervals /\ v.since <= clock /\ v.since \in Nat /\ clock \in Nat
      /\ n \in KernelNames \cap DOMAIN count_map
      /\ e \in KernelNames \cap DOMAIN count_map /\ n \in NamesIn(running) /\ n \in Names
      /\ "kernel" \in Uses
  BY <1>1, <1>2, NamesTyped DEF RunningTyped, TimerTyped, Intervals, Uses
<1>4. PICK k, q, r : k = count_map' /\ q = spent' /\ r = running'
  OBVIOUS
<1>5. /\ r = SubSeq(running, 1, i - 1) \o SubSeq(running, i + 1, Len(running))
      /\ UNCHANGED <<phase, clock, currentEntry, regions, current_region_level, pushed, tangled>>
  BY <1>4 DEF EndParallel
<1>6. AddsTo(count_map, k, e, x) /\ x \in Nat
  BY <1>1, <1>3, <1>4, AddedIs DEF EndParallel
<1>7. SpendsIn(spent, q, "kernel", n, y) /\ y \in Nat
  BY <1>1, <1>3, <1>4, SpendsIs DEF EndParallel
<1>8. /\ r \in Seq(Intervals)
      /\ \A j \in DOMAIN r : \E h \in DOMAIN running : r[j] = running[h]
      /\ NamesIn(r) \subseteq NamesIn(running) /\ NamesIn(running) \subseteq NamesIn(r) \cup {n}
      /\ Len(running) = 1 => r = << >>
  <2>1. PICK s : s = running
    OBVIOUS
  <2>2. s \in Seq(Intervals) /\ i \in DOMAIN s
    BY <1>2, <2>1
  <2>3. r = SubSeq(s, 1, i - 1) \o SubSeq(s, i + 1, Len(s))
    BY <1>5, <2>1
  <2>4. RemovedFrom(s, i, r)
    BY <2>2, <2>3, NamesRemove
  <2>5. NamesIn(s) = NamesIn(running)
    BY <2>1
  <2> QED BY <2>1, <2>4, <2>5 DEF RemovedFrom
<1>9. \/ {e} \cup NamesIn(running) \subseteq tangled
      \/ v = [name |-> e, since |-> count_map[e].startTime] /\ Len(running) = 1 /\ i = 1
  <2>1. ASSUME running = <<[name |-> e, since |-> count_map[e].startTime]>>
        PROVE  v = [name |-> e, since |-> count_map[e].startTime] /\ Len(running) = 1 /\ i = 1
    <3>1. PICK z : z = [name |-> e, since |-> count_map[e].startTime]
      OBVIOUS
    <3>2. running = <<z>>
      BY <2>1, <3>1
    <3>3. DOMAIN running = {1} /\ Len(running) = 1 /\ running[1] = z
      BY <3>2
    <3> QED BY <3>1, <3>3
  <2> QED BY <1>1, <1>2, <2>1 DEF KernelAlone
<1>10. DOMAIN k = DOMAIN count_map
  BY <1>6 DEF AddsTo
<1>11. v.name = e /\ v.since = count_map[e].startTime => n = e /\ x = y
  OBVIOUS
<1> HIDE DEF v, n, e, x, y
<1>0. EndedMore(spent, q, "kernel", n)
  <2>1. spent \in [Uses -> [Names -> Amounts]]
    BY <1>1 DEF TimerTyped
  <2> QED BY <1>3, <1>7, <2>1, EndedGrows
<1>12. \/ e = n /\ x = y /\ r = << >> /\ i = 1
       \/ e \in tangled \cap KernelNames /\ n \in tangled \cap KernelNames /\ NamesIn(r) \subseteq tangled
  <2>1. CASE {e} \cup NamesIn(running) \subseteq tangled
    BY <1>3, <1>8, <2>1
  <2>2. CASE v = [name |-> e, since |-> count_map[e].startTime] /\ Len(running) = 1 /\ i = 1
    <3>1. v.name = e /\ v.since = count_map[e].startTime
      BY <2>2
    <3> QED BY <1>8, <1>11, <2>2, <3>1
  <2> QED BY <1>9, <2>1, <2>2
<1>13. TimerTyped'
  <2>1. k \in [DOMAIN k -> Infos] /\ q \in [Uses -> [Names -> Amounts]]
    BY <1>6, <1>7 DEF AddsTo, SpendsIn
  <2>2. EndedAs(q, "kernel") \subseteq KernelNames
    BY <1>0, <1>1, <1>3 DEF TimerTyped, EndedMore, Uses
  <2> QED BY <1>1, <1>4, <1>5, <1>10, <2>1, <2>2 DEF TimerTyped
<1>14. RunningTyped'
  <2>1. \A j \in DOMAIN r : r[j].since <= clock /\ r[j].name \in KernelNames \cap DOMAIN k
    <3> SUFFICES ASSUME NEW j \in DOMAIN r
                 PROVE  r[j].since <= clock /\ r[j].name \in KernelNames \cap DOMAIN k
      OBVIOUS
    <3>1. PICK h \in DOMAIN running : r[j] = running[h]
      BY <1>8
    <3> QED BY <1>1, <1>10, <3>1 DEF RunningTyped
  <2>2. currentEntry' \in KernelNames \cap DOMAIN k
    BY <1>3, <1>5, <1>10 DEF e
  <2> QED BY <1>4, <1>5, <1>8, <2>1, <2>2 DEF RunningTyped
<1>15. PushedTyped'
  BY <1>1, <1>4, <1>5, <1>10 DEF PushedTyped
<1>16. /\ \A a \in DOMAIN count_map : k[a].startTime = count_map[a].startTime
       /\ Started'
  <2>1. \A a \in DOMAIN count_map : k[a].startTime = count_map[a].startTime
    BY <1>6 DEF AddsTo
  <2> QED BY <1>1, <1>4, <1>5, <1>10, <2>1 DEF Started
<1>17. KernelAlone'
  <2>1. CASE r = << >>
    BY <1>4, <2>1 DEF KernelAlone
  <2>2. CASE {e} \cup NamesIn(r) \subseteq tangled
    <3>1. NamesIn(r) = NamesIn(running')
      BY <1>4
    <3>2. {currentEntry'} \cup NamesIn(running') \subseteq tangled'
      BY <1>5, <2>2, <3>1 DEF e
    <3> QED BY <3>2 DEF KernelAlone, NamesIn
  <2> QED BY <1>12, <2>1, <2>2
<1>18. RegionsApart'
  <2>1. \A j \in DOMAIN pushed : pushed[j].name \in DOMAIN count_map
    BY <1>1 DEF PushedTyped
  <2>2. NamesIn(r) = NamesIn(running')
    BY <1>4
  <2>3. \A j \in DOMAIN pushed : pushed[j].name \notin tangled =>
          /\ k[pushed[j].name].startTime = pushed[j].since
          /\ pushed[j].name \notin NamesIn(r)
          /\ \A h \in DOMAIN pushed : pushed[h].name = pushed[j].name => h = j
    BY <1>1, <1>8, <1>16, <2>1 DEF RegionsApart
  <2> QED BY <1>4, <1>5, <2>2, <2>3 DEF RegionsApart, NamesIn
<1>19. TimeWithin'
  <2>1. ASSUME tangled = {} PROVE r = << >> /\ KernelTime(q) <= clock
    <3>1. r = << >> /\ i = 1
      BY <1>12, <2>1
    <3>2. KernelTime(spent) <= v.since /\ KernelTime(spent) \in Nat
      BY <1>1, <1>2, <2>1, <3>1, KernelTimeNat DEF TimeWithin, TimerTyped, v
    <3>3. KernelTime(q) = KernelTime(spent) + y
      BY <1>1, <1>3, <1>7, KernelTimeGrows DEF TimerTyped
    <3>4. y = clock - v.since
      BY DEF y
    <3> QED BY <1>3, <3>1, <3>2, <3>3, <3>4
  <2> QED BY <1>4, <1>5, <2>1 DEF TimeWithin
<1>20. Accounted(count_map, spent, tangled)' /\ Listed(count_map, spent)'
  <2>1. Accounted(k, q, tangled) /\ Listed(k, q)
    <3>1. /\ count_map \in [DOMAIN count_map -> Infos] /\ DOMAIN count_map \subseteq Names
          /\ spent \in [Uses -> [Names -> Amounts]]
      BY <1>1 DEF TimerTyped
    <3> QED BY <1>1, <1>3, <1>6, <1>7, <1>12, <3>1, EndsAccounted
  <2> QED BY <1>4, <1>5, <2>1
<1>21. Kinds(count_map, EndedAs(spent, "kernel") \cup NamesIn(running),
                        EndedAs(spent, "region") \cup NamesIn(pushed))'
  <2> DEFINE K == EndedAs(spent, "kernel") \cup NamesIn(running)
             R == EndedAs(spent, "region") \cup NamesIn(pushed)
             L == EndedAs(q, "kernel") \cup NamesIn(r)
             Q == EndedAs(q, "region") \cup NamesIn(pushed)
  <2>1. Kinds(count_map, K, R)
    BY DEF Accounts
  <2>2. K \subseteq L /\ R \subseteq Q
    <3>1. /\ n \in EndedAs(q, "kernel")
          /\ EndedAs(spent, "kernel") \subseteq EndedAs(q, "kernel")
          /\ EndedAs(spent, "region") \subseteq EndedAs(q, "region")
      BY <1>0 DEF EndedMore, Uses
    <3> QED BY <1>8, <3>1
  <2>3. Kinds(k, L, Q)
    <3> HIDE DEF K, R, L, Q
    <3> QED BY <1>6, <2>1, <2>2, EndsKinds
  <2> QED BY <1>4, <1>5, <2>3
<1> QED BY <1>13, <1>14, <1>15, <1>16, <1>17, <1>18, <1>19, <1>20, <1>21 DEF Accounts

\* The sequence p is s, of intervals, without its last element.
FrontOf(s, p) ==
  /\ p \in Seq(Intervals) /\ Len(p) = Len(s) - 1 /\ Len(s) \in DOMAIN s
  /\ DOMAIN p = 1 .. Len(s) - 1 /\ DOMAIN p \subseteq DOMAIN s
  /\ \A i \in DOMAIN p : p[i] = s[i]
  /\ NamesIn(s) \subseteq NamesIn(p) \cup {s[Len(s)].name}

\* The names without the last element are those of the others.
LEMMA NamesFront ==
  ASSUME NEW s \in Seq(Intervals), s # << >>, NEW p, p = SubSeq(s, 1, Len(s) - 1)
  PROVE  FrontOf(s, p)
<1>1. p = Front(s)
  BY DEF Front
<1>2. p \in Seq(Intervals) /\ Len(p) = Len(s) - 1
  BY <1>1, FrontTyped
<1>3. \A i \in 1 .. Len(s) - 1 : p[i] = s[i]
  BY <1>1, FrontElements
<1>4. DOMAIN s = 1 .. Len(s) /\ Len(s) \in Nat /\ Len(s) # 0
  OBVIOUS
<1>5. DOMAIN p = 1 .. Len(s) - 1
  BY <1>2, SeqDomain
<1>6. /\ Len(s) \in DOMAIN s /\ DOMAIN p \subseteq DOMAIN s
      /\ \A i \in DOMAIN s : i = Len(s) \/ i \in DOMAIN p
  BY <1>4, <1>5
<1>7. ASSUME NEW a \in NamesIn(s) PROVE a \in NamesIn(p) \cup {s[Len(s)].name}
  <2>1. PICK h \in DOMAIN s : a = s[h].name
    BY DEF NamesIn
  <2>2. CASE h \in DOMAIN p
    BY <1>3, <1>5, <2>1, <2>2 DEF NamesIn
  <2> QED BY <1>6, <2>1, <2>2
<1> QED BY <1>2, <1>3, <1>5, <1>6, <1>7 DEF FrontOf

\* The region that is popped is the one that the innermost slot points at.
LEMMA PopRegionKeeps ==
  ASSUME Accounts, PopRegion
  PROVE  Accounts'
<1> DEFINE l == Len(pushed)
           v == pushed[l]
           n == v.name
           x == clock - count_map[n].startTime
           y == clock - v.since
<1>1. /\ TimerTyped /\ RunningTyped /\ PushedTyped /\ Started
      /\ KernelAlone /\ RegionsApart /\ TimeWithin
      /\ Accounted(count_map, spent, tangled) /\ Listed(count_map, spent)
  BY DEF Accounts
<1>2. /\ pushed \in Seq(Intervals) /\ pushed # << >> /\ l \in Nat /\ l > 0
      /\ current_region_level = l /\ running \in Seq(Intervals)
  BY <1>1 DEF PushedTyped, RunningTyped, PopRegion, InnermostRegion
<1>3. PICK k, q, p : k = count_map' /\ q = spent' /\ p = pushed'
  OBVIOUS
<1>4. /\ p = SubSeq(pushed, 1, l - 1) /\ current_region_level' = l - 1 /\ phase = "up"
      /\ UNCHANGED <<phase, clock, currentEntry, regions, running, tangled>>
  BY <1>2, <1>3 DEF PopRegion, InnermostRegion
<1>5. /\ p \in Seq(Intervals) /\ Len(p) = l - 1 /\ l \in DOMAIN pushed
      /\ DOMAIN p = 1 .. l - 1 /\ DOMAIN p \subseteq DOMAIN pushed
      /\ \A i \in DOMAIN p : p[i] = pushed[i]
      /\ NamesIn(pushed) \subseteq NamesIn(p) \cup {n}
  <2>1. PICK s : s = pushed
    OBVIOUS
  <2>2. s \in Seq(Intervals) /\ s # << >> /\ p = SubSeq(s, 1, Len(s) - 1)
    BY <1>2, <1>4, <2>1
  <2>3. FrontOf(s, p)
    BY <2>2, NamesFront
  <2>4. NamesIn(s) = NamesIn(pushed)
    BY <2>1
  <2> QED BY <2>1, <2>3, <2>4 DEF FrontOf
<1>6. /\ v \in Intervals /\ v.since <= clock /\ n \in DOMAIN count_map /\ n \in Names
      /\ regions[l - 1] = n /\ "region" \in Uses
  BY <1>1, <1>2, <1>5, NamesTyped DEF PushedTyped, TimerTyped, Uses
<1>7. AddsTo(count_map, k, n, x) /\ x \in Nat
  <2>1. k = [count_map EXCEPT ![n] = addFromTimer(@)]
    BY <1>2, <1>3, <1>6 DEF PopRegion, InnermostRegion
  <2> HIDE DEF n
  <2> QED BY <1>1, <1>6, <2>1, AddedIs
<1>8. SpendsIn(spent, q, "region", n, y) /\ y \in Nat
  BY <1>1, <1>3, <1>6, SpendsIs DEF PopRegion
<1>9. n \in tangled \/ x = y
  BY <1>1, <1>5 DEF RegionsApart
<1>10. DOMAIN k = DOMAIN count_map
  BY <1>7 DEF AddsTo
<1> HIDE DEF v, n, x, y
<1>0. EndedMore(spent, q, "region", n)
  <2>1. spent \in [Uses -> [Names -> Amounts]]
    BY <1>1 DEF TimerTyped
  <2> QED BY <1>6, <1>8, <2>1, EndedGrows
<1>11. \A a \in DOMAIN count_map : k[a].startTime = count_map[a].startTime
  BY <1>7 DEF AddsTo
<1>12. TimerTyped'
  <2>1. k \in [DOMAIN k -> Infos] /\ q \in [Uses -> [Names -> Amounts]]
    BY <1>7, <1>8 DEF AddsTo, SpendsIn
  <2>2. EndedAs(q, "kernel") = EndedAs(spent, "kernel")
    BY <1>0 DEF EndedMore, Uses
  <2> QED BY <1>1, <1>3, <1>4, <1>10, <2>1, <2>2 DEF TimerTyped
<1>13. RunningTyped'
  BY <1>1, <1>3, <1>4, <1>10 DEF RunningTyped
<1>14. PushedTyped'
  <2>1. \A i \in DOMAIN p : /\ p[i].since <= clock /\ p[i].name \in DOMAIN k
                            /\ regions[i - 1] = p[i].name
    BY <1>1, <1>5, <1>10 DEF PushedTyped
  <2>2. Len(p) <= RegionSlots /\ DOMAIN regions = 0 .. RegionSlots - 1
    BY <1>1, <1>2, <1>5, KernelTimerAssumption DEF PushedTyped
  <2> QED BY <1>3, <1>4, <1>5, <2>1, <2>2 DEF PushedTyped
<1>15. Started'
  BY <1>1, <1>3, <1>4, <1>10, <1>11 DEF Started
<1>16. KernelAlone'
  <2>1. NamesIn(running) = NamesIn(running')
    BY <1>4
  <2>2. running # << >> => k[currentEntry].startTime = count_map[currentEntry].startTime
    BY <1>1, <1>11 DEF RunningTyped
  <2> QED BY <1>1, <1>3, <1>4, <2>1, <2>2 DEF KernelAlone, NamesIn
<1>17. RegionsApart'
  <2>1. \A j \in DOMAIN pushed : pushed[j].name \in DOMAIN count_map
    BY <1>1 DEF PushedTyped
  <2>2. NamesIn(running) = NamesIn(running')
    BY <1>4
  <2>3. \A j \in DOMAIN p : p[j].name \notin tangled =>
          /\ k[p[j].name].startTime = p[j].since
          /\ p[j].name \notin NamesIn(running)
          /\ \A h \in DOMAIN p : p[h].name = p[j].name => h = j
    BY <1>1, <1>5, <1>11, <2>1 DEF RegionsApart
  <2> QED BY <1>3, <1>4, <2>2, <2>3 DEF RegionsApart, NamesIn
<1>18. TimeWithin'
  <2>1. KernelTime(q) = KernelTime(spent)
    BY <1>1, <1>6, <1>8, KernelTimeGrows DEF TimerTyped
  <2> QED BY <1>1, <1>3, <1>4, <2>1 DEF TimeWithin
<1>19. Accounted(count_map, spent, tangled)' /\ Listed(count_map, spent)'
  <2>1. Accounted(k, q, tangled) /\ Listed(k, q)
    <3>1. /\ count_map \in [DOMAIN count_map -> Infos] /\ DOMAIN count_map \subseteq Names
          /\ spent \in [Uses -> [Names -> Amounts]]
      BY <1>1 DEF TimerTyped
    <3> QED BY <1>1, <1>6, <1>7, <1>8, <1>9, <3>1, EndsAccounted
  <2> QED BY <1>3, <1>4, <2>1
<1>20. Kinds(count_map, EndedAs(spent, "kernel") \cup NamesIn(running),
                        EndedAs(spent, "region") \cup NamesIn(pushed))'
  <2> DEFINE K == EndedAs(spent, "kernel") \cup NamesIn(running)
             R == EndedAs(spent, "region") \cup NamesIn(pushed)
             L == EndedAs(q, "kernel") \cup NamesIn(running)
             Q == EndedAs(q, "region") \cup NamesIn(p)
  <2>1. Kinds(count_map, K, R)
    BY DEF Accounts
  <2>2. K \subseteq L /\ R \subseteq Q
    <3>1. /\ n \in EndedAs(q, "region")
          /\ EndedAs(spent, "kernel") \subseteq EndedAs(q, "kernel")
          /\ EndedAs(spent, "region") \subseteq EndedAs(q, "region")
      BY <1>0 DEF EndedMore, Uses
    <3> QED BY <1>5, <3>1
  <2>3. Kinds(k, L, Q)
    <3> HIDE DEF K, R, L, Q
    <3> QED BY <1>7, <2>1, <2>2, EndsKinds
  <2>4. NamesIn(running) = NamesIn(running')
    BY <1>4
  <2> QED BY <1>3, <1>4, <2>3, <2>4
<1> QED BY <1>12, <1>13, <1>14, <1>15, <1>16, <1>17, <1>18, <1>19, <1>20 DEF Accounts

\* Where no name is both of a kernel and a region, the entries of kernels have what
\* the kernels have spent.
LEMMA KernelEntriesTrue ==
  ASSUME NEW m, m \in [DOMAIN m -> Infos], DOMAIN m \subseteq Names,
         NEW sp \in [Uses -> [Names -> Amounts]], NEW R,
         Accounted(m, sp, {}), Listed(m, sp), Kinds(m, EndedAs(sp, "kernel"), R),
         EndedAs(sp, "region") \subseteq R, EndedAs(sp, "kernel") \cap R = {}
  PROVE  /\ KernelEntries(m) = EndedAs(sp, "kernel")
         /\ TotalTime(m, KernelEntries(m)) = KernelTime(sp)
         /\ TotalCalls(m, KernelEntries(m)) = SumOver([n \in Names |-> sp["kernel"][n].calls], Names)
<1> DEFINE K == EndedAs(sp, "kernel")
           T == [n \in Names |-> sp["kernel"][n].time]
           C == [n \in Names |-> sp["kernel"][n].calls]
<1>1. \A n \in Names : /\ sp["kernel"][n] \in Amounts /\ sp["region"][n] \in Amounts
                       /\ sp["kernel"][n].time \in Nat /\ sp["kernel"][n].calls \in Nat
                       /\ sp["region"][n].time \in Nat /\ sp["region"][n].calls \in Nat
  BY SpentTyped DEF Amounts
<1>2. K \subseteq Names /\ IsFiniteSet(Names) /\ IsFiniteSet(K)
  <2>1. K \subseteq Names
    BY DEF EndedAs
  <2> QED BY <2>1, NamesFinite, FS_Subset
<1>3. KernelEntries(m) = K
  <2>1. ASSUME NEW n \in KernelEntries(m) PROVE n \in K
    BY DEF KernelEntries, Kinds
  <2>2. ASSUME NEW n \in K PROVE n \in KernelEntries(m)
    <3>1. n \in DOMAIN m
      BY <1>2 DEF EndedAs, Listed, Uses
    <3> QED BY <3>1 DEF KernelEntries, Kinds
  <2> QED BY <2>1, <2>2
<1>4. ASSUME NEW n \in K
      PROVE  m[n].time = sp["kernel"][n].time /\ m[n].callCount = sp["kernel"][n].calls
  <2>1. n \in DOMAIN m /\ n \in Names /\ n \notin EndedAs(sp, "region")
    BY <1>2, <1>3 DEF KernelEntries
  <2>2. sp["region"][n].calls = 0
    BY <1>1, <2>1 DEF EndedAs
  <2>3. sp["region"][n].time = 0
    BY <2>1, <2>2 DEF Listed, Uses
  <2>4. m[n].time = SpentTime(sp, n) /\ m[n].callCount = SpentCalls(sp, n)
    BY <2>1 DEF Accounted, TimeOf, CallsOf
  <2> QED BY <1>1, <2>1, <2>2, <2>3, <2>4 DEF SpentTime, SpentCalls
<1>5. ASSUME NEW n \in Names \ K PROVE sp["kernel"][n].time = 0 /\ sp["kernel"][n].calls = 0
  <2>1. sp["kernel"][n].calls = 0
    BY <1>1 DEF EndedAs
  <2> QED BY <2>1 DEF Listed, Uses
<1>6. TotalTime(m, K) = KernelTime(sp)
  <2> DEFINE f == [n \in K |-> m[n].time]
  <2>1. /\ \A n \in K : f[n] = T[n]
        /\ \A n \in Names : T[n] \in Int
        /\ \A n \in Names \ K : T[n] = 0
    BY <1>1, <1>2, <1>4, <1>5
  <2> HIDE DEF f, T, K
  <2>2. SumOver(f, K) = SumOver(T, K)
    BY <1>2, <2>1, SumAgree
  <2>3. SumOver(T, K) = SumOver(T, Names)
    BY <1>2, <2>1, SumWithin
  <2> QED BY <2>2, <2>3 DEF f, T, TotalTime, KernelTime
<1>7. TotalCalls(m, K) = SumOver(C, Names)
  <2> DEFINE f == [n \in K |-> m[n].callCount]
  <2>1. /\ \A n \in K : f[n] = C[n]
        /\ \A n \in Names : C[n] \in Int
        /\ \A n \in Names \ K : C[n] = 0
    BY <1>1, <1>2, <1>4, <1>5
  <2> HIDE DEF f, C, K
  <2>2. SumOver(f, K) = SumOver(C, K)
    BY <1>2, <2>1, SumAgree
  <2>3. SumOver(C, K) = SumOver(C, Names)
    BY <1>2, <2>1, SumWithin
  <2> QED BY <2>2, <2>3 DEF f, TotalCalls
<1> QED BY <1>3, <1>6, <1>7

\* What is known of a process that is finalised.
FinalTrue(m, sp, mixed, now, R) ==
  /\ m \in [DOMAIN m -> Infos] /\ DOMAIN m \subseteq Names
  /\ sp \in [Uses -> [Names -> Amounts]] /\ mixed \subseteq Names /\ now \in Nat
  /\ Accounted(m, sp, mixed) /\ Listed(m, sp)
  /\ Kinds(m, EndedAs(sp, "kernel"), R)
  /\ EndedAs(sp, "kernel") \subseteq KernelNames
  /\ R \subseteq Names /\ EndedAs(sp, "region") \subseteq R
  /\ mixed = {} => KernelTime(sp) <= now

\* All kernels have ended when a process is finalised.
LEMMA FinalisedTrue ==
  ASSUME Accounts, running = << >>
  PROVE  FinalTrue(count_map, spent, tangled, clock, RegionsRun)
<1>1. NamesIn(running) = {}
  BY DEF NamesIn
<1>2. EndedAs(spent, "kernel") \cup NamesIn(running) = EndedAs(spent, "kernel")
  BY <1>1
<1>3. EndedAs(spent, "region") \cup NamesIn(pushed) = RegionsRun
  BY DEF RegionsRun, EndedAs
<1>4. RegionsRun \subseteq Names
  <2>1. NamesIn(pushed) \subseteq Names
    BY NamesTyped DEF Accounts, PushedTyped
  <2> QED BY <2>1 DEF RegionsRun
<1>5. Kinds(count_map, EndedAs(spent, "kernel"), RegionsRun)
  BY <1>2, <1>3 DEF Accounts
<1> QED BY <1>3, <1>4, <1>5 DEF FinalTrue, Accounts, TimerTyped, TimeWithin

\* The summary that is printed is that of the entries, and so of the kernels.
LEMMA FinalizeSummary ==
  ASSUME Accounts, NEW json \in BOOLEAN, NEW binary \in BOOLEAN, FinalizeLibrary(json, binary)
  PROVE  SummaryIsTrue'
<1>1. /\ UNCHANGED <<clock, count_map, spent, tangled, pushed>> /\ running = << >>
      /\ output'.form = Form(json, binary) /\ output'.totalExecuteTime = clock
      /\ Form(json, binary) # "binary" =>
           output'.totals = KernelTotals(count_map, Form(json, binary))
  BY DEF FinalizeLibrary, host
<1>2. FinalTrue(count_map, spent, tangled, clock, RegionsRun)
  BY <1>1, FinalisedTrue
<1>3. ASSUME output'.form # "binary", tangled = {}, KernelsRun \cap RegionsRun = {}
      PROVE  /\ output'.totals.time = TotalSpent("kernel").time
             /\ output'.totals.calls = IF output'.form = "json" THEN Cardinality(KernelsRun)
                                       ELSE TotalSpent("kernel").calls
             /\ output'.totals.time <= output'.totalExecuteTime
  <2>1. KernelsRun = EndedAs(spent, "kernel")
    BY DEF KernelsRun, EndedAs
  <2>2. /\ KernelEntries(count_map) = KernelsRun
        /\ TotalTime(count_map, KernelEntries(count_map)) = KernelTime(spent)
        /\ TotalCalls(count_map, KernelEntries(count_map)) =
             SumOver([n \in Names |-> spent["kernel"][n].calls], Names)
    BY <1>2, <1>3, <2>1, KernelEntriesTrue DEF FinalTrue
  <2>3. KernelTime(spent) <= clock
    BY <1>2, <1>3 DEF FinalTrue
  <2>4. /\ TotalSpent("kernel").time = KernelTime(spent)
        /\ TotalSpent("kernel").calls = SumOver([n \in Names |-> spent["kernel"][n].calls], Names)
    BY DEF TotalSpent, KernelTime
  <2>5. PICK T : T = output'.totals
    OBVIOUS
  <2>6. /\ T.time = TotalTime(count_map, KernelEntries(count_map))
        /\ T.calls = IF output'.form = "json" THEN Cardinality(KernelEntries(count_map))
                     ELSE TotalCalls(count_map, KernelEntries(count_map))
    BY <1>1, <1>3, <2>5 DEF KernelTotals
  <2>7. T.time = TotalSpent("kernel").time /\ T.time <= output'.totalExecuteTime
    BY <1>1, <2>2, <2>3, <2>4, <2>6
  <2>8. T.calls = IF output'.form = "json" THEN Cardinality(KernelsRun)
                  ELSE TotalSpent("kernel").calls
    BY <2>2, <2>4, <2>6
  <2> QED BY <2>5, <2>7, <2>8
<1>4. /\ KernelsRun' = KernelsRun /\ RegionsRun' = RegionsRun /\ tangled' = tangled
      /\ TotalSpent("kernel")' = TotalSpent("kernel")
  BY <1>1 DEF KernelsRun, RegionsRun, TotalSpent, NamesIn
<1> QED BY <1>3, <1>4 DEF SummaryIsTrue

\* Finalisation keeps the invariant of the process.
LEMMA FinalizeKeeps ==
  ASSUME TimerInv, NEW json \in BOOLEAN, NEW binary \in BOOLEAN, FinalizeLibrary(json, binary)
  PROVE  TimerInv'
<1>1. Accounts
  BY InvIs
<1>2. Accounts'
  BY <1>1, AccountStays DEF FinalizeLibrary, host, account
<1>3. SummaryIsTrue'
  BY <1>1, FinalizeSummary
<1> QED BY <1>2, <1>3 DEF TimerInv, Accounts

\* Nothing is claimed of a summary that is not written.
LEMMA CallbackKeeps ==
  ASSUME TimerInv, Callback
  PROVE  TimerInv'
<1>1. Accounts
  BY InvIs
<1>2. Accounts'
  BY <1>1, InitLibraryKeeps, TickKeeps, BeginParallelKeeps, BeginUnnamedKeeps,
     EndParallelKeeps, PushRegionKeeps, PushOverrunKeeps, PopRegionKeeps, PopOutsideKeeps
     DEF Callback
<1>3. phase' # "finalized"
  BY DEF Callback, InitLibrary, Tick, BeginParallel, BeginUnnamed, EndParallel, PushRegion,
         PushOverrun, PopRegion, PopOutside, tool
<1>4. SummaryIsTrue'
  BY <1>3 DEF SummaryIsTrue
<1> QED BY <1>2, <1>4 DEF TimerInv, Accounts

\* A process that is new has done nothing.
NewProcess ==
  /\ phase = "loaded" /\ clock = 0 /\ count_map = EmptyMap
  /\ regions = [i \in 0 .. RegionSlots - 1 |-> NoEntry] /\ current_region_level = 0
  /\ running = << >> /\ pushed = << >>
  /\ spent = [u \in Uses |-> [n \in Names |-> Nothing]] /\ tangled = {}

\* A process starts with the invariant.
LEMMA NewProcessInv == NewProcess => TimerInv
<1> SUFFICES ASSUME NewProcess PROVE TimerInv
  OBVIOUS
<1> USE DEF NewProcess
<1>1. /\ Accounted(EmptyMap, spent, {}) /\ Listed(EmptyMap, spent)
      /\ spent \in [Uses -> [Names -> Amounts]] /\ KernelTime(spent) = 0
      /\ EndedAs(spent, "kernel") = {}
  BY NothingAccounted
<1>2. DOMAIN count_map = {}
  BY DEF EmptyMap
<1>3. TimerTyped /\ Started
  BY <1>1, <1>2 DEF TimerTyped, Started
<1>4. RunningTyped /\ PushedTyped
  BY <1>2, KernelTimerAssumption DEF RunningTyped, PushedTyped
<1>5. KernelAlone /\ RegionsApart /\ TimeWithin
  BY <1>1 DEF KernelAlone, RegionsApart, TimeWithin
<1>6. \A L, Q : Kinds(count_map, L, Q)
  BY <1>2 DEF Kinds
<1>7. SummaryIsTrue
  BY DEF SummaryIsTrue
<1> QED BY <1>1, <1>3, <1>4, <1>5, <1>6, <1>7 DEF TimerInv

\* What is left after a process is what the next one starts with.
LEMMA ProcessGoneKeeps ==
  ASSUME ProcessGone
  PROVE  TimerInv'
<1>1. NewProcess'
  BY DEF ProcessGone, NewProcess
<1>2. NewProcess' => TimerInv'
  BY NewProcessInv, PTL
<1> QED BY <1>1, <1>2

\* The first process starts with the invariant.
LEMMA InitTimerInv == InitTimer => TimerInv
BY NewProcessInv DEF InitTimer, NewProcess

-----------------------------------------------------------------------------
(* The files                                                               *)

\* The file of a process has what the process did.
LEMMA RecordsTrue ==
  ASSUME NEW m, NEW sp, NEW mixed, NEW now, NEW R, FinalTrue(m, sp, mixed, now, R),
         NEW f, f = [totalExecuteTime |-> now, records |-> [n \in DOMAIN m |-> Record(m[n])]],
         NEW t, t = [spent |-> sp, tangled |-> mixed, regionNames |-> R]
  PROVE  f \in Files /\ t \in Truths /\ FileTrue(f, t)
<1> DEFINE r == [n \in DOMAIN m |-> Record(m[n])]
<1>1. f.records = r /\ f.totalExecuteTime = now /\ t.spent = sp /\ t.tangled = mixed /\ t.regionNames = R
  OBVIOUS
<1>2. DOMAIN r = DOMAIN m /\ DOMAIN m \subseteq Names
  BY DEF FinalTrue
<1>3. \A n \in DOMAIN m : /\ r[n] \in Records /\ r[n].time = m[n].time
                          /\ r[n].callCount = m[n].callCount /\ r[n].kType = m[n].kType
  BY DEF FinalTrue, Record, Records, Infos
<1>4. r \in [DOMAIN m -> Records]
  BY <1>3
<1>5. f \in Files
  <2>1. DOMAIN m \in SUBSET Names /\ now \in Nat
    BY <1>2 DEF FinalTrue
  <2>2. r \in UNION {[D -> Records] : D \in SUBSET Names}
    BY <1>4, <2>1
  <2> QED BY <2>1, <2>2 DEF Files
<1>6. t \in Truths
  BY DEF FinalTrue, Truths
<1> HIDE DEF r
<1>7. \A n : TimeOf(r, n) = TimeOf(m, n) /\ CallsOf(r, n) = CallsOf(m, n)
  BY <1>2, <1>3 DEF TimeOf, CallsOf
<1>8. Accounted(r, sp, mixed)
  <2>1. [n \in Names |-> CallsOf(r, n)] = [n \in Names |-> CallsOf(m, n)]
    BY <1>7, Zenon
  <2>2. Accounted(m, sp, mixed)
    BY DEF FinalTrue
  <2> QED BY <1>7, <2>1, <2>2, Zenon DEF Accounted
<1>9. Listed(r, sp)
  BY <1>2 DEF FinalTrue, Listed
<1>10. Kinds(r, EndedAs(sp, "kernel"), R)
  BY <1>2, <1>3 DEF FinalTrue, Kinds
<1>11. FileTrue(f, t)
  BY <1>1, <1>8, <1>9, <1>10 DEF FileTrue, FinalTrue
<1> QED BY <1>5, <1>6, <1>11

\* One more true file.
LEMMA FilesMore ==
  ASSUME FilesTrue, NEW f \in Files, NEW t \in Truths, FileTrue(f, t),
         files' = Append(files, f), truths' = Append(truths, t)
  PROVE  FilesTrue'
<1>1. files \in Seq(Files) /\ truths \in Seq(Truths) /\ Len(files) = Len(truths) /\ Len(files) \in Nat
  BY DEF FilesTrue
<1>2. PICK g, u : g = files' /\ u = truths'
  OBVIOUS
<1>3. /\ g \in Seq(Files) /\ u \in Seq(Truths)
      /\ Len(g) = Len(files) + 1 /\ Len(u) = Len(files) + 1
  BY <1>1, <1>2
<1>4. ASSUME NEW i \in 1 .. Len(g) PROVE FileTrue(g[i], u[i])
  <2>1. CASE i \in 1 .. Len(files)
    <3>1. g[i] = files[i] /\ u[i] = truths[i]
      BY <1>1, <1>2, <2>1
    <3> QED BY <2>1, <3>1 DEF FilesTrue
  <2>2. CASE i = Len(files) + 1
    <3>1. g[i] = f /\ u[i] = t
      BY <1>1, <1>2, <2>2
    <3> QED BY <3>1
  <2> QED BY <1>1, <1>3, <2>1, <2>2
<1> QED BY <1>2, <1>3, <1>4 DEF FilesTrue

\* A process that is finalised leaves a true file, or none.
LEMMA FinalizeFiles ==
  ASSUME Accounts, FilesTrue, NEW json \in BOOLEAN, NEW binary \in BOOLEAN, Finalize(json, binary)
  PROVE  FilesTrue'
<1>1. CASE UNCHANGED written
  BY <1>1 DEF written, FilesTrue
<1>2. CASE files' = Append(files, File(output')) /\ truths' = Append(truths, Truth)
  <2>1. /\ running = << >> /\ output'.totalExecuteTime = clock /\ output'.entries = count_map
    BY DEF Finalize, FinalizeLibrary
  <2>2. FinalTrue(count_map, spent, tangled, clock, RegionsRun)
    BY <2>1, FinalisedTrue
  <2>3. PICK f, t : f = File(output') /\ t = Truth
    OBVIOUS
  <2>4. f = [totalExecuteTime |-> clock,
             records |-> [n \in DOMAIN count_map |-> Record(count_map[n])]]
    BY <2>1, <2>3 DEF File
  <2>5. t = [spent |-> spent, tangled |-> tangled, regionNames |-> RegionsRun]
    <3>1. NamesIn(pushed) \cup {n \in Names : spent["region"][n].calls > 0} = RegionsRun
      BY DEF RegionsRun
    <3> QED BY <2>3, <3>1 DEF Truth
  <2>6. f \in Files /\ t \in Truths /\ FileTrue(f, t)
    BY <2>2, <2>4, <2>5, RecordsTrue
  <2> QED BY <1>2, <2>3, <2>6, FilesMore
<1> QED BY <1>1, <1>2 DEF Finalize

-----------------------------------------------------------------------------
(* The reader                                                              *)

\* The record at a pair of a file and a name.
RecordAt(fs, p) == fs[p[1]].records[p[2]]

\* The pairs R are of records.
Readable(fs, R) ==
  IsFiniteSet(R) /\ \A p \in R : RecordAt(fs, p) \in Records

\* What is read of the files are records.
LEMMA ReadIsReadable ==
  ASSUME NEW fs \in Seq(Files), NEW no \in 0 .. Len(fs), NEW left
  PROVE  Readable(fs, ReadOf(fs, no, left))
<1>1. no \in Nat /\ Len(fs) \in Nat /\ DOMAIN fs = 1 .. Len(fs)
  OBVIOUS
<1>2. IsFiniteSet((1 .. no) \X Names)
  <2>1. IsFiniteSet(1 .. no)
    BY <1>1, FS_Interval
  <2> QED BY <2>1, NamesFinite, FS_Product
<1>3. ReadOf(fs, no, left) \subseteq (1 .. no) \X Names
  BY DEF ReadOf
<1>4. ASSUME NEW p \in ReadOf(fs, no, left) PROVE RecordAt(fs, p) \in Records
  <2>1. p[1] \in 1 .. no /\ p[2] \in DOMAIN fs[p[1]].records
    BY DEF ReadOf
  <2>2. fs[p[1]] \in Files
    BY <1>1, <2>1, SeqElements
  <2>3. PICK D \in SUBSET Names : fs[p[1]].records \in [D -> Records]
    BY <2>2 DEF Files
  <2> QED BY <2>1, <2>3 DEF RecordAt
<1> QED BY <1>2, <1>3, <1>4, FS_Subset DEF Readable

\* A sum over the pairs of a name does not change with the record of another, and
\* grows by the record of its own.
GrowsBy(R, S, x, h, g) ==
  \A e : SumOver(g, As(S, e)) = SumOver(h, As(R, e)) + (IF e = Demangled[x[2]] THEN g[x] ELSE 0)

\* One more pair adds to the sum of its own name only.
LEMMA AsGrows ==
  ASSUME NEW R, IsFiniteSet(R), NEW x, x \notin R, NEW S, S = R \cup {x},
         NEW h, NEW g, \A p \in R : g[p] = h[p], \A p \in S : g[p] \in Int
  PROVE  GrowsBy(R, S, x, h, g)
<1> SUFFICES ASSUME NEW e
             PROVE  SumOver(g, As(S, e)) =
                    SumOver(h, As(R, e)) + (IF e = Demangled[x[2]] THEN g[x] ELSE 0)
  BY DEF GrowsBy
<1> DEFINE A == As(R, e)
<1>1. /\ A \subseteq R /\ IsFiniteSet(A) /\ x \notin A
      /\ \A p \in A : g[p] = h[p] /\ g[p] \in Int
  <2>1. A \subseteq R
    BY DEF As
  <2> QED BY <2>1, FS_Subset
<1>2. As(S, e) = IF e = Demangled[x[2]] THEN A \cup {x} ELSE A
  BY DEF As
<1> HIDE DEF A
<1>3. SumOver(g, A) = SumOver(h, A) /\ SumOver(g, A) \in Int
  BY <1>1, SumAgree, SumInt
<1>4. SumOver(g, A \cup {x}) = SumOver(g, A) + g[x]
  <2>1. \A p \in A \cup {x} : g[p] \in Int
    BY <1>1
  <2> QED BY <1>1, <2>1, SumAdd
<1> QED BY <1>2, <1>3, <1>4 DEF A

\* A record added to an entry.
LEMMA AddRecordIs ==
  ASSUME NEW to \in Records, NEW record \in Records, NEW r, r = AddRecord(to, record)
  PROVE  /\ r \in Records /\ r.kType = to.kType
         /\ r.time = to.time + record.time /\ r.callCount = to.callCount + record.callCount
<1> DEFINE t == to.time + record.time
           c == to.callCount + record.callCount
<1>1. t \in Nat /\ c \in Nat /\ to.kType \in KTypes
  BY DEF Records
<1>2. r = [to EXCEPT !.time = t, !.callCount = c]
  BY DEF AddRecord
<1> HIDE DEF t, c
<1>3. r = [kType |-> to.kType, time |-> t, callCount |-> c]
  BY <1>2 DEF Records
<1>4. r \in Records /\ r.kType = to.kType /\ r.time = t /\ r.callCount = c
  BY <1>1, <1>3 DEF Records
<1> QED BY <1>4 DEF t, c

\* The map after is info with the record of the name d merged into it.
MergesInto(info, after, d, record) ==
  after = IF d = Empty THEN info
          ELSE IF d \in DOMAIN info
               THEN [info EXCEPT ![d] = AddRecord(@, record)]
               ELSE Assign(info, d, record)

\* The reader's step: the record adds to the entry of its demangled name, or makes
\* it; a record whose name demangles to nothing is dropped.
LEMMA MergeOne ==
  ASSUME NEW fs, NEW R, NEW x, x \notin R, NEW S, S = R \cup {x},
         Readable(fs, S), NEW info, Merges(info, fs, R), NEW after,
         MergesInto(info, after, Demangled[x[2]], RecordAt(fs, x))
  PROVE  Merges(after, fs, S)
<1> DEFINE d == Demangled[x[2]]
           rec == RecordAt(fs, x)
           ht == TimeAt(fs, R)
           gt == TimeAt(fs, S)
           hc == CountAt(fs, R)
           gc == CountAt(fs, S)
<1>1. rec \in Records /\ IsFiniteSet(R) /\ \A p \in S : RecordAt(fs, p) \in Records
  <2>1. R \subseteq S /\ IsFiniteSet(S)
    BY DEF Readable
  <2> QED BY <2>1, FS_Subset DEF Readable
<1>2. GrowsBy(R, S, x, ht, gt) /\ gt[x] = rec.time
  <2>1. /\ \A p \in R : gt[p] = ht[p]
        /\ \A p \in S : gt[p] \in Int
        /\ gt[x] = rec.time
    BY <1>1 DEF TimeAt, RecordAt, Records
  <2> HIDE DEF ht, gt
  <2> QED BY <1>1, <2>1, AsGrows
<1>3. GrowsBy(R, S, x, hc, gc) /\ gc[x] = rec.callCount
  <2>1. /\ \A p \in R : gc[p] = hc[p]
        /\ \A p \in S : gc[p] \in Int
        /\ gc[x] = rec.callCount
    BY <1>1 DEF CountAt, RecordAt, Records
  <2> HIDE DEF hc, gc
  <2> QED BY <1>1, <2>1, AsGrows
<1>4. \A e : /\ SumOver(gt, As(S, e)) = SumOver(ht, As(R, e)) + (IF e = d THEN rec.time ELSE 0)
             /\ SumOver(gc, As(S, e)) = SumOver(hc, As(R, e)) + (IF e = d THEN rec.callCount ELSE 0)
  BY <1>2, <1>3 DEF GrowsBy
<1>5. \A e \in DOMAIN info : /\ info[e] \in Records
                             /\ info[e].time = SumOver(ht, As(R, e))
                             /\ info[e].callCount = SumOver(hc, As(R, e))
                             /\ \E p \in As(R, e) : info[e].kType = RecordAt(fs, p).kType
  BY DEF Merges, RecordAt
<1>6. /\ DOMAIN info = {Demangled[p[2]] : p \in R} \ {Empty}
      /\ {Demangled[p[2]] : p \in S} = {Demangled[p[2]] : p \in R} \cup {d}
      /\ info \in [DOMAIN info -> Records]
  BY DEF Merges
<1>7. x \in As(S, d) /\ \A e : As(R, e) \subseteq As(S, e)
  BY DEF As
<1>8. \A e \in DOMAIN info : info[e].time \in Nat /\ info[e].callCount \in Nat
  BY <1>5 DEF Records
<1> HIDE DEF d, rec, ht, gt, hc, gc
<1>9. \A e \in DOMAIN info \ {d} : /\ info[e].time = SumOver(gt, As(S, e))
                                   /\ info[e].callCount = SumOver(gc, As(S, e))
                                   /\ \E p \in As(S, e) : info[e].kType = RecordAt(fs, p).kType
  <2> SUFFICES ASSUME NEW e \in DOMAIN info, e # d
               PROVE  /\ info[e].time = SumOver(gt, As(S, e))
                      /\ info[e].callCount = SumOver(gc, As(S, e))
                      /\ \E p \in As(S, e) : info[e].kType = RecordAt(fs, p).kType
    OBVIOUS
  <2>1. info[e].time = SumOver(ht, As(R, e)) /\ info[e].callCount = SumOver(hc, As(R, e))
    BY <1>5
  <2>2. SumOver(gt, As(S, e)) = info[e].time + 0 /\ SumOver(gc, As(S, e)) = info[e].callCount + 0
    BY <1>4, <2>1
  <2>3. info[e].time \in Nat /\ info[e].callCount \in Nat
    BY <1>8
  <2>4. PICK p \in As(R, e) : info[e].kType = RecordAt(fs, p).kType
    BY <1>5
  <2>5. p \in As(S, e)
    BY <1>7
  <2>6. \A z \in Nat : z + 0 = z
    OBVIOUS
  <2>7. info[e].time = SumOver(gt, As(S, e)) /\ info[e].callCount = SumOver(gc, As(S, e))
    BY <2>2, <2>3, <2>6, Zenon
  <2> QED BY <2>4, <2>5, <2>7, Zenon
<1>10. SUFFICES /\ DOMAIN after = {Demangled[p[2]] : p \in S} \ {Empty}
                /\ after \in [DOMAIN after -> Records]
                /\ \A e \in DOMAIN after : /\ after[e].time = SumOver(gt, As(S, e))
                                           /\ after[e].callCount = SumOver(gc, As(S, e))
                                           /\ \E p \in As(S, e) : after[e].kType = RecordAt(fs, p).kType
  BY DEF Merges, RecordAt, gt, gc
<1>11. CASE d = Empty
  <2>1. after = info /\ d \notin DOMAIN info
    BY <1>6, <1>11 DEF MergesInto, d
  <2> QED BY <1>6, <1>9, <1>11, <2>1
<1>12. CASE d # Empty /\ d \in DOMAIN info
  <2>1. after = [info EXCEPT ![d] = AddRecord(info[d], rec)]
    BY <1>12 DEF MergesInto, d, rec
  <2>2. PICK r : r = AddRecord(info[d], rec)
    OBVIOUS
  <2>3. /\ r \in Records /\ r.kType = info[d].kType
        /\ r.time = info[d].time + rec.time /\ r.callCount = info[d].callCount + rec.callCount
    BY <1>1, <1>5, <1>12, <2>2, AddRecordIs DEF rec
  <2>4. /\ DOMAIN after = DOMAIN info /\ after[d] = r
        /\ \A e \in DOMAIN info \ {d} : after[e] = info[e]
        /\ after = [e \in DOMAIN info |-> after[e]]
    BY <1>6, <1>12, <2>1, <2>2
  <2>5. /\ after[d].time = SumOver(gt, As(S, d)) /\ after[d].callCount = SumOver(gc, As(S, d))
        /\ \E p \in As(S, d) : after[d].kType = RecordAt(fs, p).kType
    <3>1. info[d].time = SumOver(ht, As(R, d)) /\ info[d].callCount = SumOver(hc, As(R, d))
      BY <1>5, <1>12
    <3>2. /\ SumOver(gt, As(S, d)) = SumOver(ht, As(R, d)) + rec.time
          /\ SumOver(gc, As(S, d)) = SumOver(hc, As(R, d)) + rec.callCount
      BY <1>4
    <3>3. PICK p \in As(R, d) : info[d].kType = RecordAt(fs, p).kType
      BY <1>5, <1>12
    <3> QED BY <1>7, <2>3, <2>4, <3>1, <3>2, <3>3
  <2>6. after \in [DOMAIN after -> Records]
    BY <1>5, <2>3, <2>4
  <2>7. DOMAIN after = {Demangled[p[2]] : p \in S} \ {Empty}
    BY <1>6, <1>12, <2>4
  <2>8. \A e \in DOMAIN after : /\ after[e].time = SumOver(gt, As(S, e))
                               /\ after[e].callCount = SumOver(gc, As(S, e))
                               /\ \E p \in As(S, e) : after[e].kType = RecordAt(fs, p).kType
    <3> SUFFICES ASSUME NEW e \in DOMAIN after
                 PROVE  /\ after[e].time = SumOver(gt, As(S, e))
                        /\ after[e].callCount = SumOver(gc, As(S, e))
                        /\ \E p \in As(S, e) : after[e].kType = RecordAt(fs, p).kType
      OBVIOUS
    <3>1. CASE e = d
      BY <2>5, <3>1
    <3>2. CASE e # d
      <4>1. e \in DOMAIN info \ {d} /\ after[e] = info[e]
        BY <2>4, <3>2
      <4> QED BY <1>9, <4>1
    <3> QED BY <3>1, <3>2
  <2> QED BY <2>6, <2>7, <2>8
<1>13. CASE d # Empty /\ d \notin DOMAIN info
  <2>1. after = Assign(info, d, rec)
    BY <1>13 DEF MergesInto, d, rec
  <2>2. /\ DOMAIN after = DOMAIN info \cup {d} /\ after[d] = rec
        /\ \A e \in DOMAIN info : after[e] = info[e]
        /\ after = [e \in DOMAIN info \cup {d} |-> after[e]]
    BY <1>13, <2>1 DEF Assign
  <2>3. As(R, d) = {}
    BY <1>6, <1>13 DEF As
  <2>4. SumOver(ht, As(R, d)) = 0 /\ SumOver(hc, As(R, d)) = 0
    BY <2>3, SumEmpty
  <2>5. rec.time \in Nat /\ rec.callCount \in Nat
    BY <1>1 DEF Records
  <2>6. after[d].time = SumOver(gt, As(S, d)) /\ after[d].callCount = SumOver(gc, As(S, d))
    <3>1. /\ SumOver(gt, As(S, d)) = SumOver(ht, As(R, d)) + rec.time
          /\ SumOver(gc, As(S, d)) = SumOver(hc, As(R, d)) + rec.callCount
      BY <1>4
    <3> QED BY <2>2, <2>4, <2>5, <3>1
  <2>7. \E p \in As(S, d) : after[d].kType = RecordAt(fs, p).kType
    BY <1>7, <2>2 DEF rec
  <2>8. after \in [DOMAIN after -> Records]
    BY <1>1, <1>5, <2>2
  <2>9. DOMAIN after = {Demangled[p[2]] : p \in S} \ {Empty}
    BY <1>6, <1>13, <2>2
  <2>10. \A e \in DOMAIN after : /\ after[e].time = SumOver(gt, As(S, e))
                               /\ after[e].callCount = SumOver(gc, As(S, e))
                               /\ \E p \in As(S, e) : after[e].kType = RecordAt(fs, p).kType
    <3> SUFFICES ASSUME NEW e \in DOMAIN after
                 PROVE  /\ after[e].time = SumOver(gt, As(S, e))
                        /\ after[e].callCount = SumOver(gc, As(S, e))
                        /\ \E p \in As(S, e) : after[e].kType = RecordAt(fs, p).kType
      OBVIOUS
    <3>1. CASE e = d
      BY <2>6, <2>7, <3>1
    <3>2. CASE e # d
      <4>1. e \in DOMAIN info \ {d} /\ after[e] = info[e]
        BY <2>2, <3>2
      <4> QED BY <1>9, <4>1
    <3> QED BY <3>1, <3>2
  <2> QED BY <2>8, <2>9, <2>10
<1> QED BY <1>11, <1>12, <1>13

\* Where nothing is read nothing is merged.
LEMMA NothingRead ==
  ASSUME NEW fs, NEW left
  PROVE  ReadOf(fs, 0, left) = {} /\ Merges(EmptyMap, fs, {})
<1>1. 1 .. 0 = {}
  OBVIOUS
<1>2. ReadOf(fs, 0, left) = {}
  BY <1>1 DEF ReadOf
<1>3. DOMAIN EmptyMap = {} /\ EmptyMap = [d \in {} |-> EmptyMap[d]]
  BY DEF EmptyMap
<1>4. EmptyMap \in [DOMAIN EmptyMap -> Records]
  BY <1>3
<1> QED BY <1>2, <1>3, <1>4 DEF Merges

\* A file that is opened is all unread.
LEMMA OpenReadsNothing ==
  ASSUME NEW fs, NEW no \in Nat
  PROVE  ReadOf(fs, no + 1, DOMAIN fs[no + 1].records) = ReadOf(fs, no, {})
<1>1. \A i : i \in 1 .. no <=> i \in 1 .. no + 1 /\ i # no + 1
  OBVIOUS
<1>2. ASSUME NEW p
      PROVE  p \in ReadOf(fs, no + 1, DOMAIN fs[no + 1].records) <=> p \in ReadOf(fs, no, {})
  <2>1. p \in (1 .. no) \X Names <=> p \in (1 .. no + 1) \X Names /\ p[1] # no + 1
    BY <1>1
  <2> QED BY <2>1 DEF ReadOf
<1> QED BY <1>2

\* A record that is read is one pair more.
LEMMA ReadOneMore ==
  ASSUME NEW fs, NEW no \in Nat, no > 0, NEW left, NEW n \in left, n \in Names,
         n \in DOMAIN fs[no].records
  PROVE  /\ ReadOf(fs, no, left \ {n}) = ReadOf(fs, no, left) \cup {<<no, n>>}
         /\ <<no, n>> \notin ReadOf(fs, no, left)
<1>1. no \in 1 .. no
  OBVIOUS
<1>2. <<no, n>> \in (1 .. no) \X Names
  BY <1>1
<1>3. ASSUME NEW p
      PROVE  p \in ReadOf(fs, no, left \ {n}) <=> p \in ReadOf(fs, no, left) \cup {<<no, n>>}
  <2>1. CASE p = <<no, n>>
    BY <1>2, <2>1 DEF ReadOf
  <2>2. CASE p # <<no, n>>
    <3>1. p \in (1 .. no) \X Names => ~ (p[1] = no /\ p[2] = n)
      BY <2>2
    <3> QED BY <2>2, <3>1 DEF ReadOf
  <2> QED BY <2>1, <2>2
<1> QED BY <1>3 DEF ReadOf

\* Steps of the processes leave the reader as it is, and so does its start.
LEMMA ReaderStays ==
  ASSUME ReaderInv,
         UNCHANGED <<files, truths, fileNo, unread, kernelInfo, totalExecuteTime, report>>,
         readerPhase' = readerPhase \/ readerPhase' \in {"usage", "reading"}
  PROVE  ReaderInv'
<1>1. FilesTrue' /\ ReaderTyped'
  BY DEF ReaderInv, FilesTrue, ReaderTyped
<1>2. readerPhase' = "done" => readerPhase = "done"
  OBVIOUS
<1> QED BY <1>1, <1>2 DEF ReaderInv

\* A file that a process writes is true, and the reader has not begun.
LEMMA FinalizeKeepsReader ==
  ASSUME Accounts, ReaderInv, NEW json \in BOOLEAN, NEW binary \in BOOLEAN, Finalize(json, binary)
  PROVE  ReaderInv'
<1>1. FilesTrue'
  BY FinalizeFiles DEF ReaderInv
<1>2. /\ fileNo = 0 /\ unread = {} /\ kernelInfo = EmptyMap /\ readerPhase = "idle"
      /\ UNCHANGED reader
  BY DEF Finalize, ReaderInv, ReaderTyped
<1>3. Len(files') \in Nat
  BY <1>1 DEF FilesTrue
<1>4. ReaderTyped'
  <2>1. 0 \in 0 .. Len(files')
    BY <1>3
  <2> QED BY <1>2, <2>1 DEF ReaderTyped, reader
<1>5. Merges(kernelInfo, files, ReadOf(files, fileNo, unread))'
  <2>1. PICK fs : fs = files'
    OBVIOUS
  <2>2. Merges(EmptyMap, fs, ReadOf(fs, 0, {}))
    BY NothingRead
  <2> QED BY <1>2, <2>1, <2>2 DEF reader
<1>6. (totalExecuteTime = SumOver([i \in 1 .. fileNo |-> files[i].totalExecuteTime], 1 .. fileNo))'
  <2>1. 1 .. 0 = {}
    OBVIOUS
  <2>2. \A g : SumOver(g, {}) = 0
    BY SumEmpty
  <2>3. totalExecuteTime = 0
    BY <1>2, <2>1, <2>2 DEF ReaderInv
  <2> QED BY <1>2, <2>1, <2>2, <2>3 DEF reader
<1>7. readerPhase' # "done"
  BY <1>2 DEF reader
<1> QED BY <1>1, <1>4, <1>5, <1>6, <1>7 DEF ReaderInv

\* A file that was opened is all unread, and its process's time is counted.
LEMMA OpenFileKeeps ==
  ASSUME ReaderInv, OpenFile
  PROVE  ReaderInv'
<1>1. /\ UNCHANGED <<files, truths, readerPhase, kernelInfo, report>> /\ readerPhase = "reading"
      /\ unread = {} /\ fileNo < Len(files) /\ fileNo' = fileNo + 1
      /\ unread' = DOMAIN files[fileNo + 1].records
      /\ totalExecuteTime' = totalExecuteTime + files[fileNo + 1].totalExecuteTime
  BY DEF OpenFile, written
<1>2. fileNo \in Nat /\ Len(files) \in Nat /\ files \in Seq(Files)
  BY DEF ReaderInv, ReaderTyped, FilesTrue
<1>3. FilesTrue'
  BY <1>1 DEF ReaderInv, FilesTrue
<1>4. ReaderTyped'
  BY <1>1, <1>2 DEF ReaderTyped
<1>5. Merges(kernelInfo, files, ReadOf(files, fileNo, unread))'
  <2>1. ReadOf(files, fileNo + 1, DOMAIN files[fileNo + 1].records) = ReadOf(files, fileNo, {})
    <3>1. PICK fs, no : fs = files /\ no = fileNo
      OBVIOUS
    <3> QED BY <1>2, <3>1, OpenReadsNothing
  <2>2. Merges(kernelInfo, files, ReadOf(files, fileNo, {}))
    BY <1>1 DEF ReaderInv
  <2> QED BY <1>1, <2>1, <2>2
<1>6. (totalExecuteTime = SumOver([i \in 1 .. fileNo |-> files[i].totalExecuteTime], 1 .. fileNo))'
  <2>1. PICK no : no = fileNo
    OBVIOUS
  <2>2. PICK fs : fs = files
    OBVIOUS
  <2> DEFINE f == [i \in 1 .. no |-> fs[i].totalExecuteTime]
             g == [i \in 1 .. no + 1 |-> fs[i].totalExecuteTime]
  <2>3. /\ no \in Nat /\ IsFiniteSet(1 .. no) /\ no + 1 \notin 1 .. no
        /\ 1 .. no + 1 = (1 .. no) \cup {no + 1}
    <3>1. no \in Nat
      BY <1>2, <2>1
    <3>2. IsFiniteSet(1 .. no)
      BY <3>1, FS_Interval
    <3> QED BY <3>1, <3>2
  <2>4. \A i \in 1 .. no + 1 : fs[i].totalExecuteTime \in Nat
    <3>1. \A i \in 1 .. no + 1 : i \in DOMAIN files
      BY <1>1, <1>2, <2>1
    <3>2. \A i \in DOMAIN files : files[i] \in Files
      BY <1>2, SeqElements
    <3> QED BY <2>2, <3>1, <3>2 DEF Files
  <2>5. /\ \A i \in 1 .. no : f[i] = g[i]
        /\ \A i \in 1 .. no : f[i] \in Int
        /\ \A i \in (1 .. no) \cup {no + 1} : g[i] \in Int
        /\ g[no + 1] = fs[no + 1].totalExecuteTime
    BY <2>3, <2>4
  <2>6. totalExecuteTime = SumOver(f, 1 .. no)
    BY <2>1, <2>2 DEF ReaderInv
  <2>7. fileNo' = no + 1 /\ files' = fs
    BY <1>1, <2>1, <2>2
  <2>8. totalExecuteTime' = totalExecuteTime + fs[no + 1].totalExecuteTime
    BY <1>1, <2>1, <2>2
  <2> HIDE DEF f, g
  <2>9. SumOver(f, 1 .. no) = SumOver(g, 1 .. no)
    BY <2>3, <2>5, SumAgree
  <2>10. SumOver(g, (1 .. no) \cup {no + 1}) = SumOver(g, 1 .. no) + g[no + 1]
    BY <2>3, <2>5, SumAdd
  <2>11. totalExecuteTime' = SumOver(g, 1 .. no + 1)
    BY <2>3, <2>5, <2>6, <2>8, <2>9, <2>10
  <2> QED BY <2>7, <2>11 DEF g
<1>7. readerPhase' # "done"
  BY <1>1
<1> QED BY <1>3, <1>4, <1>5, <1>6, <1>7 DEF ReaderInv

\* A record that is read is merged, once.
LEMMA ReadRecordKeeps ==
  ASSUME ReaderInv, NEW n \in Names, ReadRecord(n)
  PROVE  ReaderInv'
<1>1. /\ UNCHANGED <<files, truths, readerPhase, fileNo, totalExecuteTime, report>>
      /\ n \in unread /\ unread' = unread \ {n}
      /\ kernelInfo' = Merged(Demangled[n], files[fileNo].records[n])
  BY DEF ReadRecord, written
<1>2. /\ fileNo \in Nat /\ fileNo \in 0 .. Len(files) /\ fileNo > 0 /\ files \in Seq(Files)
      /\ n \in DOMAIN files[fileNo].records
  BY <1>1 DEF ReaderInv, ReaderTyped, FilesTrue
<1>3. FilesTrue'
  BY <1>1 DEF ReaderInv, FilesTrue
<1>4. ReaderTyped' /\ readerPhase # "idle"
  BY <1>1, <1>2 DEF ReaderInv, ReaderTyped
<1>5. Merges(kernelInfo, files, ReadOf(files, fileNo, unread))'
  <2>1. PICK fs, no, left, info, after :
          /\ fs = files /\ no = fileNo /\ left = unread /\ info = kernelInfo /\ after = kernelInfo'
    OBVIOUS
  <2> DEFINE R == ReadOf(fs, no, left)
             S == ReadOf(fs, no, left \ {n})
             x == <<no, n>>
  <2>2. S = R \cup {x} /\ x \notin R
    BY <1>1, <1>2, <2>1, ReadOneMore
  <2>3. Readable(fs, S)
    BY <1>2, <2>1, ReadIsReadable
  <2>4. Merges(info, fs, R)
    BY <2>1 DEF ReaderInv
  <2>5. x[2] = n /\ RecordAt(fs, x) = fs[no].records[n]
    BY DEF RecordAt
  <2>6. MergesInto(info, after, Demangled[x[2]], RecordAt(fs, x))
    BY <1>1, <2>1, <2>5 DEF Merged, MergesInto
  <2> HIDE DEF R, S, x
  <2>7. Merges(after, fs, S)
    BY <2>2, <2>3, <2>4, <2>6, MergeOne
  <2>8. files' = fs /\ fileNo' = no /\ unread' = left \ {n} /\ kernelInfo' = after
    BY <1>1, <2>1
  <2> QED BY <2>7, <2>8 DEF S
<1>6. readerPhase' # "done"
  <2>1. readerPhase # "done"
    BY <1>1 DEF ReaderInv
  <2> QED BY <1>1, <2>1
<1> QED BY <1>1, <1>3, <1>4, <1>5, <1>6 DEF ReaderInv

\* The report has the totals of all that was merged.
LEMMA PrintReportKeeps ==
  ASSUME ReaderInv, NEW form \in {"ascii", "json"}, PrintReport(form)
  PROVE  ReaderInv'
<1>1. /\ UNCHANGED <<files, truths, fileNo, unread, kernelInfo, totalExecuteTime>>
      /\ readerPhase' = "done" /\ unread = {} /\ fileNo = Len(files)
      /\ report' = [form |-> form, totals |-> KernelTotals(kernelInfo, form)]
  BY DEF PrintReport, AllRead, written
<1>2. FilesTrue' /\ ReaderTyped'
  BY <1>1 DEF ReaderInv, FilesTrue, ReaderTyped
<1>3. report'.form = form /\ report'.totals = KernelTotals(kernelInfo, form)
  BY <1>1
<1>4. KernelTotals(kernelInfo, form) = KernelTotals(kernelInfo', form)
  BY <1>1
<1> QED BY <1>1, <1>2, <1>3, <1>4 DEF ReaderInv

\* A step of the reader leaves the invariant of the process alone.
LEMMA TimerStays ==
  ASSUME TimerInv, UNCHANGED timer
  PROVE  TimerInv'
<1>1. Accounts /\ SummaryIsTrue
  BY InvIs
<1>2. Accounts'
  BY <1>1, AccountStays DEF timer, account
<1>3. SummaryIsTrue'
  BY <1>1 DEF timer, SummaryIsTrue, KernelsRun, RegionsRun, TotalSpent, NamesIn
<1> QED BY <1>2, <1>3 DEF TimerInv, Accounts

\* All processes, and the reader of their files.
ProcessesInv == TimerInv /\ ReaderInv

\* The invariant holds before the first process.
LEMMA ProcessesInit == ReaderInit => ProcessesInv
<1> SUFFICES ASSUME ReaderInit PROVE ProcessesInv
  OBVIOUS
<1>1. TimerInv
  BY InitTimerInv DEF ReaderInit
<1>2. /\ files = << >> /\ truths = << >> /\ readerPhase = "idle" /\ fileNo = 0 /\ unread = {}
      /\ kernelInfo = EmptyMap /\ totalExecuteTime = 0
  BY DEF ReaderInit
<1>3. FilesTrue /\ ReaderTyped
  BY <1>2 DEF FilesTrue, ReaderTyped
<1>4. Merges(kernelInfo, files, ReadOf(files, fileNo, unread))
  <2>1. PICK fs : fs = files
    OBVIOUS
  <2>2. Merges(EmptyMap, fs, ReadOf(fs, 0, {}))
    BY NothingRead
  <2> QED BY <1>2, <2>1, <2>2
<1>5. totalExecuteTime = SumOver([i \in 1 .. fileNo |-> files[i].totalExecuteTime], 1 .. fileNo)
  <2>1. 1 .. 0 = {}
    OBVIOUS
  <2>2. \A g : SumOver(g, {}) = 0
    BY SumEmpty
  <2> QED BY <1>2, <2>1, <2>2
<1> QED BY <1>1, <1>2, <1>3, <1>4, <1>5 DEF ProcessesInv, ReaderInv

\* Every step of a process and of the reader keeps it.
LEMMA ProcessesStep == ProcessesInv /\ [ReaderNext]_allVars => ProcessesInv'
<1> SUFFICES ASSUME TimerInv, ReaderInv, [ReaderNext]_allVars PROVE ProcessesInv'
  BY DEF ProcessesInv
<1> USE DEF ProcessesInv
<1>0. Accounts
  BY InvIs
<1>1. CASE RunTimer
  <2>1. TimerInv'
    BY <1>1, CallbackKeeps DEF RunTimer
  <2>2. ReaderInv'
    BY <1>1, ReaderStays DEF RunTimer, written, reader
  <2> QED BY <2>1, <2>2
<1>2. ASSUME NEW json \in BOOLEAN, NEW binary \in BOOLEAN, Finalize(json, binary)
      PROVE  ProcessesInv'
  <2>1. TimerInv'
    BY <1>2, FinalizeKeeps DEF Finalize
  <2>2. ReaderInv'
    BY <1>0, <1>2, FinalizeKeepsReader
  <2> QED BY <2>1, <2>2
<1>3. CASE NextProcess
  <2>1. TimerInv'
    BY <1>3, ProcessGoneKeeps DEF NextProcess
  <2>2. ReaderInv'
    BY <1>3, ReaderStays DEF NextProcess, written, reader
  <2> QED BY <2>1, <2>2
<1>4. CASE StartReader
  <2>1. TimerInv'
    BY <1>4, ProcessGoneKeeps DEF StartReader
  <2>2. ReaderInv'
    <3>1. report' = report /\ readerPhase' \in {"usage", "reading"}
      BY <1>4 DEF StartReader
    <3> QED BY <1>4, <3>1, ReaderStays DEF StartReader, written
  <2> QED BY <2>1, <2>2
<1>5. CASE OpenFile
  BY <1>5, TimerStays, OpenFileKeeps DEF OpenFile
<1>6. ASSUME NEW n \in Names, ReadRecord(n) PROVE ProcessesInv'
  BY <1>6, TimerStays, ReadRecordKeeps DEF ReadRecord
<1>7. ASSUME NEW form \in {"ascii", "json"}, PrintReport(form) PROVE ProcessesInv'
  BY <1>7, TimerStays, PrintReportKeeps DEF PrintReport
<1>8. CASE UNCHANGED allVars
  <2>1. TimerInv'
    BY <1>8, TimerStays DEF allVars
  <2>2. ReaderInv'
    BY <1>8, ReaderStays DEF allVars, written, reader
  <2> QED BY <2>1, <2>2
<1>9. CASE AllTerminated
  BY <1>8, <1>9 DEF AllTerminated
<1> QED BY <1>1, <1>2, <1>3, <1>4, <1>5, <1>6, <1>7, <1>8, <1>9 DEF ReaderNext

-----------------------------------------------------------------------------
(* What the reader has is what the processes did                           *)

\* What the files fs and the processes ts are known to agree on.
ReadTrue(fs, ts, no) ==
  /\ no \in Nat
  /\ \A i \in 1 .. no : fs[i] \in Files /\ ts[i] \in Truths /\ FileTrue(fs[i], ts[i])

\* The files that were opened are true.
LEMMA FilesRead ==
  ASSUME ReaderInv
  PROVE  ReadTrue(files, truths, fileNo)
<1>1. /\ files \in Seq(Files) /\ truths \in Seq(Truths) /\ Len(files) = Len(truths)
      /\ fileNo \in Nat /\ fileNo \in 0 .. Len(files) /\ Len(files) \in Nat
  BY DEF ReaderInv, FilesTrue, ReaderTyped
<1>2. \A i \in 1 .. fileNo : i \in DOMAIN files /\ i \in DOMAIN truths /\ i \in 1 .. Len(files)
  BY <1>1
<1>3. (\A i \in DOMAIN files : files[i] \in Files) /\ (\A i \in DOMAIN truths : truths[i] \in Truths)
  BY <1>1, SeqElements
<1> QED BY <1>1, <1>2, <1>3 DEF ReadTrue, ReaderInv, FilesTrue

\* All pairs of a file that is read and a name of a set.
Pairs(no, names) == (1 .. no) \X names

\* What the files have, and what was spent, at a pair.
FileTime(fs, P)  == [p \in P |-> TimeOf(fs[p[1]].records, p[2])]
FileCalls(fs, P) == [p \in P |-> CallsOf(fs[p[1]].records, p[2])]
UseTime(ts, use, P)  == [p \in P |-> ts[p[1]].spent[use][p[2]].time]
UseCalls(ts, use, P) == [p \in P |-> ts[p[1]].spent[use][p[2]].calls]

PairFacts(fs, ts, P) ==
  /\ IsFiniteSet(P)
  /\ \A p \in P :
       /\ ts[p[1]].spent["kernel"][p[2]].time \in Nat /\ ts[p[1]].spent["region"][p[2]].time \in Nat
       /\ ts[p[1]].spent["kernel"][p[2]].calls \in Nat /\ ts[p[1]].spent["region"][p[2]].calls \in Nat
       /\ TimeOf(fs[p[1]].records, p[2]) \in Nat /\ CallsOf(fs[p[1]].records, p[2]) \in Nat

\* The sums over files and names are finite, and of numbers.
LEMMA PairsTyped ==
  ASSUME NEW fs, NEW ts, NEW no, ReadTrue(fs, ts, no), NEW names \in SUBSET Names
  PROVE  PairFacts(fs, ts, Pairs(no, names))
<1>1. IsFiniteSet(1 .. no) /\ IsFiniteSet(names)
  <2>1. no \in Nat
    BY DEF ReadTrue
  <2>2. IsFiniteSet(1 .. no)
    BY <2>1, FS_Interval
  <2> QED BY <2>2, NamesFinite, FS_Subset
<1>2. IsFiniteSet(Pairs(no, names))
  BY <1>1, FS_Product DEF Pairs
<1>3. ASSUME NEW p \in Pairs(no, names)
      PROVE  /\ ts[p[1]].spent["kernel"][p[2]] \in Amounts
             /\ ts[p[1]].spent["region"][p[2]] \in Amounts
             /\ TimeOf(fs[p[1]].records, p[2]) \in Nat /\ CallsOf(fs[p[1]].records, p[2]) \in Nat
  <2>1. p[1] \in 1 .. no /\ p[2] \in Names
    BY DEF Pairs
  <2>2. fs[p[1]] \in Files /\ ts[p[1]] \in Truths
    BY <2>1 DEF ReadTrue
  <2>3. ts[p[1]].spent \in [Uses -> [Names -> Amounts]]
    BY <2>2 DEF Truths
  <2>4. ts[p[1]].spent["kernel"][p[2]] \in Amounts /\ ts[p[1]].spent["region"][p[2]] \in Amounts
    BY <2>1, <2>3, SpentTyped
  <2>5. PICK D \in SUBSET Names : fs[p[1]].records \in [D -> Records]
    BY <2>2 DEF Files
  <2>6. TimeOf(fs[p[1]].records, p[2]) \in Nat /\ CallsOf(fs[p[1]].records, p[2]) \in Nat
    BY <2>5 DEF TimeOf, CallsOf, Records
  <2> QED BY <2>4, <2>6
<1> QED BY <1>2, <1>3 DEF PairFacts, Amounts

\* An entry of the reader has what the files have under the names that demangle to its own.
LEMMA EntryIs ==
  ASSUME NEW fs, NEW ts, NEW no, ReadTrue(fs, ts, no), NEW info,
         Merges(info, fs, ReadOf(fs, no, {})), NEW d \in DOMAIN info
  PROVE  /\ info[d].time = SumOver(FileTime(fs, Pairs(no, Mangled(d))), Pairs(no, Mangled(d)))
         /\ info[d].callCount = SumOver(FileCalls(fs, Pairs(no, Mangled(d))), Pairs(no, Mangled(d)))
<1> DEFINE P == Pairs(no, Mangled(d))
           R == ReadOf(fs, no, {})
           A == As(R, d)
           ft == FileTime(fs, P)
           fc == FileCalls(fs, P)
           at == TimeAt(fs, R)
           ac == CountAt(fs, R)
<1>1. PairFacts(fs, ts, P)
  <2>1. Mangled(d) \in SUBSET Names
    BY DEF Mangled
  <2> HIDE DEF P
  <2> QED BY <2>1, PairsTyped DEF P
<1>2. A \subseteq P /\ IsFiniteSet(P) /\ IsFiniteSet(A)
  <2>1. A \subseteq P
    BY DEF As, ReadOf, Pairs, Mangled
  <2> QED BY <1>1, <2>1, FS_Subset DEF PairFacts
<1>3. \A p \in P : ft[p] \in Int /\ fc[p] \in Int
  BY <1>1 DEF PairFacts, FileTime, FileCalls
<1>4. \A p \in A : at[p] = ft[p] /\ ac[p] = fc[p]
  <2> SUFFICES ASSUME NEW p \in A PROVE at[p] = ft[p] /\ ac[p] = fc[p]
    OBVIOUS
  <2>1. p \in R /\ p \in P /\ p[2] \in DOMAIN fs[p[1]].records
    BY <1>2 DEF As, ReadOf
  <2> QED BY <2>1 DEF TimeAt, CountAt, FileTime, FileCalls, TimeOf, CallsOf
<1>5. \A p \in P \ A : ft[p] = 0 /\ fc[p] = 0
  <2> SUFFICES ASSUME NEW p \in P \ A PROVE ft[p] = 0 /\ fc[p] = 0
    OBVIOUS
  <2>1. p \in (1 .. no) \X Names /\ Demangled[p[2]] = d
    BY DEF Pairs, Mangled
  <2>2. p[2] \notin DOMAIN fs[p[1]].records
    BY <2>1 DEF As, ReadOf
  <2> QED BY <2>2 DEF FileTime, FileCalls, TimeOf, CallsOf
<1>6. info[d].time = SumOver(at, A) /\ info[d].callCount = SumOver(ac, A)
  BY DEF Merges
<1> HIDE DEF P, R, A, ft, fc, at, ac
<1>7. SumOver(at, A) = SumOver(ft, A) /\ SumOver(ac, A) = SumOver(fc, A)
  BY <1>2, <1>4, SumAgree
<1>8. SumOver(ft, A) = SumOver(ft, P) /\ SumOver(fc, A) = SumOver(fc, P)
  BY <1>2, <1>3, <1>5, SumWithin
<1> QED BY <1>6, <1>7, <1>8 DEF ft, fc, P

\* An entry of which no name is tangled has what was spent under its names.
LEMMA EntryTrue ==
  ASSUME NEW fs, NEW ts, NEW no, ReadTrue(fs, ts, no), NEW info,
         Merges(info, fs, ReadOf(fs, no, {})), NEW d \in DOMAIN info,
         \A i \in 1 .. no : Mangled(d) \cap ts[i].tangled = {},
         NEW P, P = Pairs(no, Mangled(d))
  PROVE  /\ info[d].time =
              SumOver(UseTime(ts, "kernel", P), P) + SumOver(UseTime(ts, "region", P), P)
         /\ info[d].callCount =
              SumOver(UseCalls(ts, "kernel", P), P) + SumOver(UseCalls(ts, "region", P), P)
<1> DEFINE ft == FileTime(fs, P)
           fc == FileCalls(fs, P)
           kt == UseTime(ts, "kernel", P)
           rt == UseTime(ts, "region", P)
           kc == UseCalls(ts, "kernel", P)
           rc == UseCalls(ts, "region", P)
<1>1. PairFacts(fs, ts, P)
  <2>1. Mangled(d) \in SUBSET Names
    BY DEF Mangled
  <2> QED BY <2>1, PairsTyped
<1>2. info[d].time = SumOver(ft, P) /\ info[d].callCount = SumOver(fc, P)
  BY EntryIs
<1>3. ASSUME NEW p \in P
      PROVE  /\ kt[p] \in Int /\ rt[p] \in Int /\ kc[p] \in Int /\ rc[p] \in Int
             /\ ft[p] = kt[p] + rt[p] /\ fc[p] = kc[p] + rc[p]
  <2>1. p[1] \in 1 .. no /\ p[2] \in Mangled(d) /\ p[2] \in Names
    BY DEF Pairs, Mangled
  <2>2. FileTrue(fs[p[1]], ts[p[1]]) /\ p[2] \in Names \ ts[p[1]].tangled
    BY <2>1 DEF ReadTrue
  <2>3. /\ TimeOf(fs[p[1]].records, p[2]) = SpentTime(ts[p[1]].spent, p[2])
        /\ CallsOf(fs[p[1]].records, p[2]) = SpentCalls(ts[p[1]].spent, p[2])
    BY <2>2 DEF FileTrue, Accounted
  <2>4. /\ kt[p] = ts[p[1]].spent["kernel"][p[2]].time /\ rt[p] = ts[p[1]].spent["region"][p[2]].time
        /\ kc[p] = ts[p[1]].spent["kernel"][p[2]].calls /\ rc[p] = ts[p[1]].spent["region"][p[2]].calls
        /\ ft[p] = TimeOf(fs[p[1]].records, p[2]) /\ fc[p] = CallsOf(fs[p[1]].records, p[2])
    BY DEF UseTime, UseCalls, FileTime, FileCalls
  <2>5. /\ ts[p[1]].spent["kernel"][p[2]].time \in Nat /\ ts[p[1]].spent["region"][p[2]].time \in Nat
        /\ ts[p[1]].spent["kernel"][p[2]].calls \in Nat /\ ts[p[1]].spent["region"][p[2]].calls \in Nat
    BY <1>1, Zenon DEF PairFacts
  <2> HIDE DEF ft, fc, kt, rt, kc, rc
  <2>6. ft[p] = kt[p] + rt[p] /\ fc[p] = kc[p] + rc[p]
    BY <2>3, <2>4, Zenon DEF SpentTime, SpentCalls
  <2>7. kt[p] \in Nat /\ rt[p] \in Nat /\ kc[p] \in Nat /\ rc[p] \in Nat
    BY <2>4, <2>5, Zenon
  <2> QED BY <2>6, <2>7
<1>4. IsFiniteSet(P)
  BY <1>1 DEF PairFacts
<1> HIDE DEF ft, fc, kt, rt, kc, rc
<1>5. SumOver(ft, P) = SumOver(kt, P) + SumOver(rt, P)
  BY <1>3, <1>4, SumPlus
<1>6. SumOver(fc, P) = SumOver(kc, P) + SumOver(rc, P)
  BY <1>3, <1>4, SumPlus
<1> QED BY <1>2, <1>5, <1>6 DEF kt, rt, kc, rc

\* What SpentOn gives.
LEMMA SpentOnIs ==
  ASSUME NEW use, NEW names, NEW ts, ts = truths, NEW P, P = Pairs(fileNo, names)
  PROVE  /\ SpentOn(use, names).time = SumOver(UseTime(ts, use, P), P)
         /\ SpentOn(use, names).calls = SumOver(UseCalls(ts, use, P), P)
BY DEF SpentOn, UseTime, UseCalls, Pairs

\* An entry sums the records under its names, and each is what its process spent
\* there; processes without a record have spent nothing there.
LEMMA MergedExactHolds ==
  ASSUME ReaderInv
  PROVE  MergedExact
<1> SUFFICES ASSUME unread = {}, NEW d \in DOMAIN kernelInfo, Mangled(d) \cap Tangled = {}
             PROVE  /\ kernelInfo[d].time =
                         SpentOn("kernel", Mangled(d)).time + SpentOn("region", Mangled(d)).time
                    /\ kernelInfo[d].callCount =
                         SpentOn("kernel", Mangled(d)).calls + SpentOn("region", Mangled(d)).calls
  BY DEF MergedExact
<1>1. PICK fs, ts, no, info : fs = files /\ ts = truths /\ no = fileNo /\ info = kernelInfo
  OBVIOUS
<1>2. ReadTrue(fs, ts, no) /\ Merges(info, fs, ReadOf(fs, no, {})) /\ d \in DOMAIN info
  BY <1>1, FilesRead DEF ReaderInv
<1>3. \A i \in 1 .. no : Mangled(d) \cap ts[i].tangled = {}
  BY <1>1 DEF Tangled
<1>4. PICK P : P = Pairs(no, Mangled(d))
  OBVIOUS
<1>5. /\ info[d].time = SumOver(UseTime(ts, "kernel", P), P) + SumOver(UseTime(ts, "region", P), P)
      /\ info[d].callCount = SumOver(UseCalls(ts, "kernel", P), P) + SumOver(UseCalls(ts, "region", P), P)
  BY <1>2, <1>3, <1>4, EntryTrue
<1>6. \A use : /\ SpentOn(use, Mangled(d)).time = SumOver(UseTime(ts, use, P), P)
               /\ SpentOn(use, Mangled(d)).calls = SumOver(UseCalls(ts, use, P), P)
  BY <1>1, <1>4, SpentOnIs
<1> QED BY <1>1, <1>5, <1>6

\* The calls of the entries are the calls of the files under the names that are not
\* demangled to nothing.
LEMMA CallsAre ==
  ASSUME NEW fs, NEW ts, NEW no, ReadTrue(fs, ts, no), NEW info,
         Merges(info, fs, ReadOf(fs, no, {})), NEW Q, Q = Pairs(no, Names \ Mangled(Empty))
  PROVE  TotalCalls(info, DOMAIN info) = SumOver(FileCalls(fs, Q), Q)
<1> DEFINE R == ReadOf(fs, no, {})
           A == {p \in R : Demangled[p[2]] # Empty}
           C == DOMAIN info
           key == [p \in A |-> Demangled[p[2]]]
           G == [d \in C |-> info[d].callCount]
           ac == CountAt(fs, R)
           fc == FileCalls(fs, Q)
<1>1. PairFacts(fs, ts, Q)
  <2>1. Names \ Mangled(Empty) \in SUBSET Names
    OBVIOUS
  <2> QED BY <2>1, PairsTyped
<1>2. A \subseteq Q /\ A \subseteq R /\ IsFiniteSet(Q) /\ IsFiniteSet(A)
  <2>1. A \subseteq Q
    BY DEF ReadOf, Pairs, Mangled
  <2> QED BY <1>1, <2>1, FS_Subset DEF PairFacts
<1>3. \A p \in Q : fc[p] \in Int
  <2>1. \A p \in Q : CallsOf(fs[p[1]].records, p[2]) \in Nat
    BY <1>1, Zenon DEF PairFacts
  <2>2. \A p \in Q : fc[p] = CallsOf(fs[p[1]].records, p[2])
    BY DEF FileCalls
  <2> HIDE DEF fc
  <2>3. \A p \in Q : fc[p] \in Nat
    BY <2>1, <2>2, Zenon
  <2> QED BY <2>3
<1>4. ASSUME NEW p \in A PROVE ac[p] = fc[p]
  <2>1. p \in R /\ p \in Q /\ p[2] \in DOMAIN fs[p[1]].records
    BY <1>2 DEF ReadOf
  <2> QED BY <2>1 DEF CountAt, FileCalls, CallsOf
<1>5. ASSUME NEW p \in Q \ A PROVE fc[p] = 0
  <2>1. p \in (1 .. no) \X Names /\ Demangled[p[2]] # Empty
    BY DEF Pairs, Mangled
  <2>2. p[2] \notin DOMAIN fs[p[1]].records
    BY <2>1 DEF ReadOf
  <2> QED BY <2>2 DEF FileCalls, CallsOf
<1>6. C = {Demangled[p[2]] : p \in R} \ {Empty}
  BY DEF Merges
<1>7. IsFiniteSet(C) /\ \A p \in A : key[p] \in C
  <2>1. C = {Demangled[p[2]] : p \in A}
    BY <1>6
  <2>2. IsFiniteSet({Demangled[p[2]] : p \in A})
    <3> DEFINE f == [p \in A |-> Demangled[p[2]]]
    <3>1. IsFiniteSet({f[p] : p \in A})
      <4> HIDE DEF f, A
      <4> QED BY <1>2, ValuesFinite
    <3>2. {f[p] : p \in A} = {Demangled[p[2]] : p \in A}
      OBVIOUS
    <3> QED BY <3>1, <3>2
  <2> QED BY <2>1, <2>2
<1>8. ASSUME NEW d \in C PROVE G[d] = SumOver(ac, Keyed(A, key, {d}))
  <2>1. Keyed(A, key, {d}) = As(R, d)
    BY <1>6 DEF Keyed, As
  <2>2. info[d].callCount = SumOver(ac, As(R, d))
    BY DEF Merges
  <2> QED BY <2>1, <2>2
<1>9. TotalCalls(info, DOMAIN info) = SumOver(G, C)
  BY DEF TotalCalls
<1> HIDE DEF R, A, C, key, G, ac, fc
<1>10. \A p \in A : ac[p] \in Int
  BY <1>2, <1>3, <1>4
<1>11. SumOver(G, C) = SumOver(ac, A)
  <2>1. SumsByKey(ac, A, key, G, C)
    BY <1>2, <1>7, <1>8, <1>10 DEF SumsByKey
  <2> QED BY <2>1, SumByKey
<1>12. SumOver(ac, A) = SumOver(fc, A) /\ SumOver(fc, A) = SumOver(fc, Q)
  <2>1. SumOver(ac, A) = SumOver(fc, A)
    BY <1>2, <1>4, SumAgree
  <2>2. SumOver(fc, A) = SumOver(fc, Q)
    BY <1>2, <1>3, <1>5, SumWithin
  <2> QED BY <2>1, <2>2
<1> QED BY <1>9, <1>11, <1>12 DEF fc

\* The calls of one file under the names that are not demangled to nothing are those
\* of its process: the other names are not of kernels.
LEMMA FileConserves ==
  ASSUME NEW m, NEW sp \in [Uses -> [Names -> Amounts]], NEW mixed, Accounted(m, sp, mixed),
         \A n \in Names : CallsOf(m, n) \in Nat,
         NEW named, named = Names \ Mangled(Empty)
  PROVE  SumOver([n \in named |-> CallsOf(m, n)], named) =
         SumOver([n \in named |-> SpentCalls(sp, n)], named)
<1> DEFINE other == Mangled(Empty)
           f == [n \in Names |-> CallsOf(m, n)]
           g == [n \in Names |-> SpentCalls(sp, n)]
           h == [n \in named |-> CallsOf(m, n)]
           i == [n \in named |-> SpentCalls(sp, n)]
<1>1. /\ other \subseteq Names \ KernelNames /\ Names = named \cup other /\ named \cap other = {}
      /\ IsFiniteSet(Names) /\ named \subseteq Names
  BY KernelReaderAssumption, NamesFinite DEF Mangled, KernelNames
<1>2. /\ \A n \in Names : f[n] \in Nat /\ g[n] \in Nat /\ f[n] \in Int /\ g[n] \in Int
      /\ \A n \in named : h[n] = f[n] /\ i[n] = g[n]
      /\ \A n \in other : f[n] = g[n]
      /\ SumOver(f, Names) = SumOver(g, Names)
  <2>1. \A n \in Names : SpentCalls(sp, n) \in Nat
    BY SpentTyped
  <2>2. \A n \in other : n \in Names /\ CallsOf(m, n) = SpentCalls(sp, n)
    BY <1>1 DEF Accounted
  <2>3. SumOver(f, Names) = SumOver(g, Names)
    BY DEF Accounted
  <2> QED BY <1>1, <2>1, <2>2, <2>3
<1> HIDE DEF f, g, h, i, other
<1>3. IsFiniteSet(named) /\ IsFiniteSet(other)
  BY <1>1, FS_Subset
<1>4. /\ SumOver(f, Names) = SumOver(f, named) + SumOver(f, other)
      /\ SumOver(g, Names) = SumOver(g, named) + SumOver(g, other)
  BY <1>1, <1>2, <1>3, SumTogether
<1>5. SumOver(f, other) = SumOver(g, other)
  BY <1>2, <1>3, SumAgree
<1>6. SumOver(h, named) = SumOver(f, named) /\ SumOver(i, named) = SumOver(g, named)
  BY <1>2, <1>3, SumAgree
<1>7. /\ SumOver(f, named) \in Int /\ SumOver(g, named) \in Int
      /\ SumOver(f, other) \in Int /\ SumOver(g, other) \in Int
  <2>1. (\A n \in named : f[n] \in Int /\ g[n] \in Int) /\ (\A n \in other : f[n] \in Int /\ g[n] \in Int)
    BY <1>1, <1>2
  <2> QED BY <1>3, <2>1, SumInt
<1>8. SumOver(f, named) = SumOver(g, named)
  <2>1. \A a, b, c \in Int : a + c = b + c => a = b
    OBVIOUS
  <2>2. SumOver(f, named) + SumOver(f, other) = SumOver(g, named) + SumOver(f, other)
    BY <1>2, <1>4, <1>5, Zenon
  <2> QED BY <1>7, <2>1, <2>2, Zenon
<1> QED BY <1>6, <1>8 DEF h, i

\* All entries together sum all records, and those all that was spent.
LEMMA MergedConservesHolds ==
  ASSUME ReaderInv
  PROVE  MergedConserves
<1> DEFINE named == Names \ Mangled(Empty)
<1> SUFFICES ASSUME unread = {}
             PROVE  TotalCalls(kernelInfo, DOMAIN kernelInfo) =
                    SpentOn("kernel", named).calls + SpentOn("region", named).calls
  BY DEF MergedConserves
<1>1. PICK fs, ts, no, info : fs = files /\ ts = truths /\ no = fileNo /\ info = kernelInfo
  OBVIOUS
<1>2. ReadTrue(fs, ts, no) /\ Merges(info, fs, ReadOf(fs, no, {}))
  BY <1>1, FilesRead DEF ReaderInv
<1>3. PICK Q : Q = Pairs(no, named)
  OBVIOUS
<1>4. PairFacts(fs, ts, Q)
  <2>1. named \in SUBSET Names
    OBVIOUS
  <2> QED BY <1>2, <1>3, <2>1, PairsTyped
<1> DEFINE fc == FileCalls(fs, Q)
           kc == UseCalls(ts, "kernel", Q)
           rc == UseCalls(ts, "region", Q)
           sc == [p \in Q |-> SpentCalls(ts[p[1]].spent, p[2])]
<1>5. TotalCalls(info, DOMAIN info) = SumOver(fc, Q)
  BY <1>2, <1>3, CallsAre
<1>6. SumOver(fc, Q) = SumOver(sc, Q)
  <2> DEFINE N == 1 .. no
             F == [i \in N |-> [n \in named |-> CallsOf(fs[i].records, n)]]
             S == [i \in N |-> [n \in named |-> SpentCalls(ts[i].spent, n)]]
             sumF == [i \in N |-> SumOver(F[i], named)]
             sumS == [i \in N |-> SumOver(S[i], named)]
  <2>1. IsFiniteSet(N) /\ IsFiniteSet(named) /\ Q = N \X named
    <3>1. no \in Nat
      BY <1>2 DEF ReadTrue
    <3>2. IsFiniteSet(N)
      BY <3>1, FS_Interval
    <3>3. IsFiniteSet(named)
      BY NamesFinite, FS_Subset
    <3> QED BY <1>3, <3>2, <3>3 DEF Pairs
  <2>2. ASSUME NEW i \in N, NEW n \in named
        PROVE  /\ fc[<<i, n>>] \in Int /\ F[i][n] = fc[<<i, n>>]
               /\ sc[<<i, n>>] \in Int /\ S[i][n] = sc[<<i, n>>]
    <3>1. <<i, n>> \in Q
      BY <2>1
    <3>2. CallsOf(fs[i].records, n) \in Nat
      BY <1>4, <3>1 DEF PairFacts
    <3>3. SpentCalls(ts[i].spent, n) \in Nat
      BY <1>4, <3>1 DEF PairFacts, SpentCalls
    <3> QED BY <3>1, <3>2, <3>3 DEF FileCalls
  <2>3. ASSUME NEW i \in N PROVE SumOver(F[i], named) = SumOver(S[i], named)
    <3>1. PICK m, sp, mixed : m = fs[i].records /\ sp = ts[i].spent /\ mixed = ts[i].tangled
      OBVIOUS
    <3>2. fs[i] \in Files /\ ts[i] \in Truths /\ FileTrue(fs[i], ts[i])
      BY <1>2 DEF ReadTrue
    <3>3. sp \in [Uses -> [Names -> Amounts]] /\ Accounted(m, sp, mixed)
      BY <3>1, <3>2 DEF Truths, FileTrue
    <3>4. PICK D \in SUBSET Names : m \in [D -> Records]
      BY <3>1, <3>2 DEF Files
    <3>5. \A n \in Names : CallsOf(m, n) \in Nat
      BY <3>4 DEF CallsOf, Records
    <3>6. SumOver([n \in named |-> CallsOf(m, n)], named) =
          SumOver([n \in named |-> SpentCalls(sp, n)], named)
      <4>1. PICK these : these = named
        OBVIOUS
      <4>2. SumOver([n \in these |-> CallsOf(m, n)], these) =
            SumOver([n \in these |-> SpentCalls(sp, n)], these)
        BY <3>3, <3>5, <4>1, FileConserves
      <4> QED BY <4>1, <4>2
    <3> QED BY <3>1, <3>6
  <2>4. \A i \in N : sumF[i] = SumOver(F[i], named) /\ sumS[i] = SumOver(S[i], named)
    OBVIOUS
  <2> HIDE DEF N, F, S, sumF, sumS, fc, sc, named
  <2>5. SumOver(fc, N \X named) = SumOver(sumF, N)
    <3>1. \A i \in N, n \in named : fc[<<i, n>>] \in Int /\ F[i][n] = fc[<<i, n>>]
      BY <2>2
    <3>2. RowSums(fc, F, sumF, N, named)
      BY <2>1, <2>4, <3>1 DEF RowSums
    <3> QED BY <3>2, SumPairs
  <2>6. SumOver(sc, N \X named) = SumOver(sumS, N)
    <3>1. \A i \in N, n \in named : sc[<<i, n>>] \in Int /\ S[i][n] = sc[<<i, n>>]
      BY <2>2
    <3>2. RowSums(sc, S, sumS, N, named)
      BY <2>1, <2>4, <3>1 DEF RowSums
    <3> QED BY <3>2, SumPairs
  <2>7. SumOver(sumF, N) = SumOver(sumS, N)
    BY <2>1, <2>3, <2>4, SumAgree
  <2> QED BY <2>1, <2>5, <2>6, <2>7
<1>7. SumOver(sc, Q) = SumOver(kc, Q) + SumOver(rc, Q)
  <2>1. \A p \in Q : kc[p] \in Int /\ rc[p] \in Int /\ sc[p] = kc[p] + rc[p]
    BY <1>4 DEF PairFacts, UseCalls, SpentCalls
  <2>2. IsFiniteSet(Q)
    BY <1>4 DEF PairFacts
  <2> HIDE DEF sc, kc, rc
  <2> QED BY <2>1, <2>2, SumPlus
<1>8. SpentOn("kernel", named).calls = SumOver(kc, Q) /\ SpentOn("region", named).calls = SumOver(rc, Q)
  BY <1>1, <1>3, SpentOnIs
<1> HIDE DEF fc, kc, rc, sc
<1> QED BY <1>1, <1>5, <1>6, <1>7, <1>8

\* The names, demangled, of the kernels of the processes ts, and of their regions.
KernelsOf(ts, no) ==
  {Demangled[n] : n \in {m \in Names : \E i \in 1 .. no : ts[i].spent["kernel"][m].calls > 0}}

RegionsOf(ts, no) == {Demangled[n] : n \in UNION {ts[i].regionNames : i \in 1 .. no}}

\* Where no name is tangled, or of both a kernel and a region.
Apart(fs, ts, no, info) ==
  /\ ReadTrue(fs, ts, no) /\ Merges(info, fs, ReadOf(fs, no, {}))
  /\ \A i \in 1 .. no : ts[i].tangled = {}
  /\ KernelsOf(ts, no) \cap RegionsOf(ts, no) = {}

\* The entries of kernels are of the names of kernels: the type of an entry is that
\* of one of its records.
LEMMA KernelsMerged ==
  ASSUME NEW fs, NEW ts, NEW no, NEW info, Apart(fs, ts, no, info)
  PROVE  KernelEntries(info) = KernelsOf(ts, no) /\ IsFiniteSet(KernelEntries(info))
<1> USE DEF Apart
<1> DEFINE R == ReadOf(fs, no, {})
<1>1. ASSUME NEW d \in DOMAIN info
      PROVE  IF info[d].kType = "REGION" THEN d \in RegionsOf(ts, no) ELSE d \in KernelsOf(ts, no)
  <2>1. PICK p \in As(R, d) : info[d].kType = fs[p[1]].records[p[2]].kType
    BY DEF Merges
  <2>2. p[1] \in 1 .. no /\ p[2] \in Names /\ p[2] \in DOMAIN fs[p[1]].records /\ Demangled[p[2]] = d
    BY DEF As, ReadOf
  <2>3. FileTrue(fs[p[1]], ts[p[1]])
    BY <2>2 DEF ReadTrue
  <2>4. IF info[d].kType = "REGION" THEN p[2] \in ts[p[1]].regionNames
        ELSE p[2] \in EndedAs(ts[p[1]].spent, "kernel")
    BY <2>1, <2>2, <2>3 DEF FileTrue, Kinds
  <2>5. CASE info[d].kType = "REGION"
    <3>1. p[2] \in ts[p[1]].regionNames
      BY <2>4, <2>5
    <3> QED BY <2>2, <2>5, <3>1 DEF RegionsOf
  <2>6. CASE info[d].kType # "REGION"
    <3>1. p[2] \in EndedAs(ts[p[1]].spent, "kernel")
      BY <2>4, <2>6
    <3> QED BY <2>2, <2>6, <3>1 DEF KernelsOf, EndedAs
  <2> QED BY <2>5, <2>6
<1>2. KernelEntries(info) \subseteq KernelsOf(ts, no)
  BY <1>1 DEF KernelEntries
<1>3. ASSUME NEW d \in KernelsOf(ts, no) PROVE d \in KernelEntries(info)
  <2>1. PICK n \in Names, i \in 1 .. no : d = Demangled[n] /\ ts[i].spent["kernel"][n].calls > 0
    BY DEF KernelsOf
  <2>2. FileTrue(fs[i], ts[i])
    BY DEF ReadTrue
  <2>3. n \in DOMAIN fs[i].records /\ n \in KernelNames
    BY <2>1, <2>2 DEF FileTrue, Listed, EndedAs, Uses
  <2>4. d # Empty
    BY <2>1, <2>3, KernelReaderAssumption DEF KernelNames
  <2>5. <<i, n>> \in R
    BY <2>3 DEF ReadOf
  <2>6. d \in DOMAIN info
    <3>1. DOMAIN info = {Demangled[p[2]] : p \in R} \ {Empty}
      BY DEF Merges
    <3>2. <<i, n>>[2] = n
      OBVIOUS
    <3> QED BY <2>1, <2>4, <2>5, <3>1, <3>2
  <2> QED BY <1>1, <2>6 DEF KernelEntries
<1>4. IsFiniteSet(KernelsOf(ts, no))
  <2> DEFINE M == {m \in Names : \E i \in 1 .. no : ts[i].spent["kernel"][m].calls > 0}
             f == [n \in M |-> Demangled[n]]
  <2>1. IsFiniteSet(M)
    BY NamesFinite, FS_Subset
  <2>2. IsFiniteSet({f[n] : n \in M})
    <3> HIDE DEF M, f
    <3> QED BY <2>1, ValuesFinite
  <2>3. {f[n] : n \in M} = KernelsOf(ts, no)
    BY DEF KernelsOf
  <2> QED BY <2>2, <2>3
<1> QED BY <1>2, <1>3, <1>4

\* An entry of a kernel has what kernels have spent.
LEMMA KernelEntryTrue ==
  ASSUME NEW fs, NEW ts, NEW no, NEW info, Apart(fs, ts, no, info),
         NEW d \in KernelEntries(info), NEW P, P = Pairs(no, Mangled(d))
  PROVE  /\ info[d].time = SumOver(UseTime(ts, "kernel", P), P)
         /\ info[d].callCount = SumOver(UseCalls(ts, "kernel", P), P)
<1> DEFINE kt == UseTime(ts, "kernel", P)
           rt == UseTime(ts, "region", P)
           kc == UseCalls(ts, "kernel", P)
           rc == UseCalls(ts, "region", P)
<1>1. ReadTrue(fs, ts, no) /\ Merges(info, fs, ReadOf(fs, no, {})) /\ d \in DOMAIN info
  BY DEF Apart, KernelEntries
<1>2. d \notin RegionsOf(ts, no)
  BY KernelsMerged DEF Apart
<1>3. /\ info[d].time = SumOver(kt, P) + SumOver(rt, P)
      /\ info[d].callCount = SumOver(kc, P) + SumOver(rc, P)
  <2>1. \A i \in 1 .. no : Mangled(d) \cap ts[i].tangled = {}
    BY DEF Apart
  <2> QED BY <1>1, <2>1, EntryTrue
<1>4. PairFacts(fs, ts, P)
  <2>1. Mangled(d) \in SUBSET Names
    BY DEF Mangled
  <2> QED BY <1>1, <2>1, PairsTyped
<1>5. ASSUME NEW p \in P PROVE rt[p] = 0 /\ rc[p] = 0
  <2>1. p[1] \in 1 .. no /\ p[2] \in Names /\ Demangled[p[2]] = d
    BY DEF Pairs, Mangled
  <2>2. FileTrue(fs[p[1]], ts[p[1]])
    BY <1>1, <2>1 DEF ReadTrue
  <2>3. p[2] \notin ts[p[1]].regionNames
    BY <1>2, <2>1 DEF RegionsOf
  <2>4. p[2] \notin EndedAs(ts[p[1]].spent, "region")
    BY <2>2, <2>3 DEF FileTrue
  <2>5. ts[p[1]].spent["region"][p[2]].calls \in Nat
    BY <1>4, Zenon DEF PairFacts
  <2>6. ts[p[1]].spent["region"][p[2]].calls = 0
    BY <2>1, <2>4, <2>5 DEF EndedAs
  <2>7. ts[p[1]].spent["region"][p[2]].time = 0
    BY <2>1, <2>2, <2>6 DEF FileTrue, Listed, Uses
  <2> QED BY <2>6, <2>7 DEF UseTime, UseCalls
<1>6. IsFiniteSet(P) /\ (\A p \in P : kt[p] \in Int) /\ (\A p \in P : kc[p] \in Int)
  <2>1. /\ \A p \in P : ts[p[1]].spent["kernel"][p[2]].time \in Nat
        /\ \A p \in P : ts[p[1]].spent["kernel"][p[2]].calls \in Nat
    BY <1>4, Zenon DEF PairFacts
  <2> QED BY <1>4, <2>1 DEF PairFacts, UseTime, UseCalls
<1> HIDE DEF kt, rt, kc, rc
<1>7. SumOver(rt, P) = 0 /\ SumOver(rc, P) = 0
  BY <1>5, <1>6, SumZero
<1>8. SumOver(kt, P) \in Int /\ SumOver(kc, P) \in Int
  BY <1>6, SumInt
<1>9. \A z \in Int : z + 0 = z
  OBVIOUS
<1>10. info[d].time = SumOver(kt, P) /\ info[d].callCount = SumOver(kc, P)
  BY <1>3, <1>7, <1>8, <1>9, Zenon
<1> QED BY <1>10 DEF kt, kc

\* What the entries of kernels add up to, by time or by calls, is what the kernels of
\* all processes add up to: g has the values of the entries, and a those of the pairs.
LEMMA KernelsTotal ==
  ASSUME NEW fs, NEW ts, NEW no, NEW info, Apart(fs, ts, no, info),
         NEW K, K = KernelEntries(info), NEW D, D = Pairs(no, Names),
         NEW G, NEW a, \A p \in D : a[p] \in Int,
         \A d \in K : G[d] = SumOver(a, Pairs(no, Mangled(d))),
         \A p \in D : ts[p[1]].spent["kernel"][p[2]].calls = 0 => a[p] = 0
  PROVE  SumOver(G, K) = SumOver(a, D)
<1> DEFINE E == {p \in D : Demangled[p[2]] \in K}
           key == [p \in E |-> Demangled[p[2]]]
<1>1. K = KernelsOf(ts, no) /\ IsFiniteSet(K)
  BY KernelsMerged
<1>2. PairFacts(fs, ts, D)
  BY PairsTyped DEF Apart
<1>3. IsFiniteSet(D) /\ IsFiniteSet(E) /\ E \subseteq D
  <2>1. E \subseteq D
    OBVIOUS
  <2>2. IsFiniteSet(D)
    BY <1>2 DEF PairFacts
  <2> HIDE DEF E
  <2> QED BY <2>1, <2>2, FS_Subset
<1>4. ASSUME NEW d \in K PROVE Keyed(E, key, {d}) = Pairs(no, Mangled(d))
  <2>1. Pairs(no, Mangled(d)) = {p \in D : Demangled[p[2]] = d}
    BY DEF Pairs, Mangled
  <2>2. Keyed(E, key, {d}) = {p \in D : Demangled[p[2]] = d}
    BY DEF Keyed
  <2> QED BY <2>1, <2>2
<1>5. \A p \in E : a[p] \in Int /\ key[p] \in K
  OBVIOUS
<1>6. ASSUME NEW p \in D \ E PROVE a[p] = 0
  <2>1. p[1] \in 1 .. no /\ p[2] \in Names /\ Demangled[p[2]] \notin K
    BY DEF Pairs
  <2>2. ~ ts[p[1]].spent["kernel"][p[2]].calls > 0
    BY <1>1, <2>1 DEF KernelsOf
  <2>3. ts[p[1]].spent["kernel"][p[2]].calls \in Nat
    BY <1>2, Zenon DEF PairFacts
  <2> QED BY <2>2, <2>3
<1> HIDE DEF E, key
<1>7. SumOver(G, K) = SumOver(a, E)
  <2>1. \A d \in K : G[d] = SumOver(a, Keyed(E, key, {d}))
    BY <1>4
  <2>2. SumsByKey(a, E, key, G, K)
    BY <1>1, <1>3, <1>5, <2>1 DEF SumsByKey
  <2> QED BY <2>2, SumByKey
<1>8. SumOver(a, E) = SumOver(a, D)
  BY <1>3, <1>6, SumWithin
<1> QED BY <1>7, <1>8

\* The kernels of all processes have not run longer than the processes.
LEMMA KernelsWithin ==
  ASSUME NEW fs, NEW ts, NEW no, ReadTrue(fs, ts, no), \A i \in 1 .. no : ts[i].tangled = {},
         NEW D, D = Pairs(no, Names)
  PROVE  SumOver(UseTime(ts, "kernel", D), D) <=
         SumOver([i \in 1 .. no |-> fs[i].totalExecuteTime], 1 .. no)
<1> DEFINE N == 1 .. no
           g == UseTime(ts, "kernel", D)
           h == [i \in N |-> [n \in Names |-> ts[i].spent["kernel"][n].time]]
           G == [i \in N |-> SumOver(h[i], Names)]
           T == [i \in N |-> fs[i].totalExecuteTime]
<1>1. IsFiniteSet(N) /\ IsFiniteSet(Names) /\ D = N \X Names
  <2>1. no \in Nat
    BY DEF ReadTrue
  <2>2. IsFiniteSet(N)
    BY <2>1, FS_Interval
  <2> QED BY <2>2, NamesFinite DEF Pairs
<1>2. PairFacts(fs, ts, D)
  BY PairsTyped
<1>3. ASSUME NEW i \in N, NEW n \in Names PROVE g[<<i, n>>] \in Int /\ h[i][n] = g[<<i, n>>]
  <2>1. <<i, n>> \in D
    BY <1>1
  <2>2. ts[i].spent["kernel"][n].time \in Nat
    BY <1>2, <2>1 DEF PairFacts
  <2> QED BY <2>1, <2>2 DEF UseTime
<1>4. ASSUME NEW i \in N PROVE G[i] \in Nat /\ T[i] \in Nat /\ G[i] <= T[i]
  <2>1. fs[i] \in Files /\ ts[i] \in Truths /\ FileTrue(fs[i], ts[i]) /\ ts[i].tangled = {}
    BY DEF ReadTrue
  <2>2. ts[i].spent \in [Uses -> [Names -> Amounts]]
    BY <2>1 DEF Truths
  <2>3. KernelTime(ts[i].spent) \in Nat /\ KernelTime(ts[i].spent) <= fs[i].totalExecuteTime
    BY <2>1, <2>2, KernelTimeNat DEF FileTrue
  <2>4. fs[i].totalExecuteTime \in Nat
    BY <2>1 DEF Files
  <2>5. G[i] = KernelTime(ts[i].spent)
    BY DEF KernelTime
  <2> HIDE DEF G
  <2> QED BY <2>3, <2>4, <2>5
<1>5. \A i \in N : G[i] = SumOver(h[i], Names)
  OBVIOUS
<1> HIDE DEF N, g, h, G, T
<1>6. SumOver(g, N \X Names) = SumOver(G, N)
  <2>1. \A i \in N, n \in Names : g[<<i, n>>] \in Int /\ h[i][n] = g[<<i, n>>]
    BY <1>3
  <2>2. RowSums(g, h, G, N, Names)
    BY <1>1, <1>5, <2>1 DEF RowSums
  <2> QED BY <2>2, SumPairs
<1>7. SumOver(G, N) <= SumOver(T, N)
  <2>1. \A i \in N : G[i] \in Int /\ T[i] \in Int /\ G[i] <= T[i]
    BY <1>4
  <2> QED BY <1>1, <2>1, SumLess
<1>8. SumOver(g, D) <= SumOver(T, N)
  BY <1>1, <1>6, <1>7
<1> QED BY <1>8 DEF g, T, N

\* The entries of kernels are those that kernels have spent in, while no name is of
\* both, so that the totals are theirs; each process's are within its time.
LEMMA ReaderSummaryHolds ==
  ASSUME ReaderInv
  PROVE  ReaderSummaryIsTrue
<1> SUFFICES ASSUME readerPhase = "done", Tangled = {}, KernelsReported \cap RegionsReported = {}
             PROVE  /\ report.totals.time = SpentOn("kernel", Names).time
                    /\ report.totals.calls = IF report.form = "json"
                                             THEN Cardinality(KernelsReported)
                                             ELSE SpentOn("kernel", Names).calls
                    /\ report.totals.time <= totalExecuteTime
  BY DEF ReaderSummaryIsTrue
<1>1. PICK fs, ts, no, info : fs = files /\ ts = truths /\ no = fileNo /\ info = kernelInfo
  OBVIOUS
<1>2. KernelsReported = KernelsOf(ts, no) /\ RegionsReported = RegionsOf(ts, no)
  BY <1>1 DEF KernelsReported, RegionsReported, KernelsOf, RegionsOf
<1>3. Apart(fs, ts, no, info)
  <2>1. \A i \in 1 .. no : ts[i].tangled = {}
    BY <1>1 DEF Tangled
  <2>2. Merges(info, fs, ReadOf(fs, no, {}))
    BY <1>1 DEF ReaderInv
  <2> QED BY <1>1, <1>2, <2>1, <2>2, FilesRead DEF Apart
<1>4. PICK K, D : K = KernelEntries(info) /\ D = Pairs(no, Names)
  OBVIOUS
<1>5. K = KernelsReported
  BY <1>2, <1>3, <1>4, KernelsMerged
<1>6. ReadTrue(fs, ts, no) /\ PairFacts(fs, ts, D)
  BY <1>3, <1>4, PairsTyped DEF Apart
<1>7. /\ \A p \in D : ts[p[1]].spent["kernel"][p[2]].time \in Nat
      /\ \A p \in D : ts[p[1]].spent["kernel"][p[2]].calls \in Nat
  BY <1>6, Zenon DEF PairFacts
<1> DEFINE kt == UseTime(ts, "kernel", D)
           kc == UseCalls(ts, "kernel", D)
           T == [d \in K |-> info[d].time]
           C == [d \in K |-> info[d].callCount]
<1>8. ASSUME NEW d \in K
      PROVE  /\ T[d] = SumOver(kt, Pairs(no, Mangled(d)))
             /\ C[d] = SumOver(kc, Pairs(no, Mangled(d)))
  <2>1. PICK P : P = Pairs(no, Mangled(d))
    OBVIOUS
  <2>2. /\ info[d].time = SumOver(UseTime(ts, "kernel", P), P)
        /\ info[d].callCount = SumOver(UseCalls(ts, "kernel", P), P)
    BY <1>3, <1>4, <2>1, KernelEntryTrue
  <2>3. IsFiniteSet(P) /\ P \subseteq D
    <3>1. P \subseteq D
      BY <1>4, <2>1 DEF Pairs, Mangled
    <3> QED BY <1>6, <3>1, FS_Subset DEF PairFacts
  <2> DEFINE pt == UseTime(ts, "kernel", P)
             qc == UseCalls(ts, "kernel", P)
  <2>4. \A p \in P : pt[p] = kt[p] /\ qc[p] = kc[p]
    BY <2>3 DEF UseTime, UseCalls
  <2>5. SumOver(pt, P) = SumOver(kt, P) /\ SumOver(qc, P) = SumOver(kc, P)
    <3> HIDE DEF pt, qc, kt, kc
    <3> QED BY <2>3, <2>4, SumAgree
  <2> QED BY <2>1, <2>2, <2>5
<1>9. ASSUME NEW p \in D
      PROVE  /\ kt[p] \in Int /\ kc[p] \in Int
             /\ ts[p[1]].spent["kernel"][p[2]].calls = 0 => kt[p] = 0 /\ kc[p] = 0
  <2>1. p[1] \in 1 .. no /\ p[2] \in Names
    BY <1>4 DEF Pairs
  <2>2. FileTrue(fs[p[1]], ts[p[1]])
    BY <1>6, <2>1 DEF ReadTrue
  <2>3. ts[p[1]].spent["kernel"][p[2]].calls = 0 => ts[p[1]].spent["kernel"][p[2]].time = 0
    BY <2>1, <2>2 DEF FileTrue, Listed, Uses
  <2> QED BY <1>7, <2>3 DEF UseTime, UseCalls
<1>10. SumOver(T, K) = SumOver(kt, D) /\ SumOver(C, K) = SumOver(kc, D)
  <2> HIDE DEF kt, kc, T, C
  <2>1. SumOver(T, K) = SumOver(kt, D)
    BY <1>3, <1>4, <1>8, <1>9, KernelsTotal
  <2>2. SumOver(C, K) = SumOver(kc, D)
    BY <1>3, <1>4, <1>8, <1>9, KernelsTotal
  <2> QED BY <2>1, <2>2
<1>11. TotalTime(info, K) = SumOver(T, K) /\ TotalCalls(info, K) = SumOver(C, K)
  BY DEF TotalTime, TotalCalls
<1>12. SpentOn("kernel", Names).time = SumOver(kt, D) /\ SpentOn("kernel", Names).calls = SumOver(kc, D)
  BY <1>1, <1>4, SpentOnIs
<1>13. SumOver(kt, D) <= totalExecuteTime
  <2>1. totalExecuteTime = SumOver([i \in 1 .. no |-> fs[i].totalExecuteTime], 1 .. no)
    BY <1>1 DEF ReaderInv
  <2>2. \A i \in 1 .. no : ts[i].tangled = {}
    BY <1>3 DEF Apart
  <2> QED BY <1>4, <1>6, <2>1, <2>2, KernelsWithin
<1>14. /\ report.totals.time = TotalTime(info, K)
       /\ report.totals.calls = IF report.form = "json" THEN Cardinality(K) ELSE TotalCalls(info, K)
  <2>1. PICK f, t : f = report.form /\ t = report.totals
    OBVIOUS
  <2>2. t = KernelTotals(info, f)
    BY <1>1, <2>1 DEF ReaderInv
  <2>3. /\ t.time = TotalTime(info, K)
        /\ t.calls = IF f = "json" THEN Cardinality(K) ELSE TotalCalls(info, K)
    BY <1>4, <2>2 DEF KernelTotals
  <2> QED BY <2>1, <2>3
<1> HIDE DEF kt, kc, T, C
<1>15. report.totals.time = SumOver(kt, D)
  BY <1>10, <1>11, <1>14
<1>16. report.totals.calls = IF report.form = "json" THEN Cardinality(K) ELSE SumOver(kc, D)
  BY <1>10, <1>11, <1>14
<1> QED BY <1>5, <1>12, <1>13, <1>15, <1>16

\* The processes and the reader keep the invariant.
LEMMA ProcessesAlways == ReaderSpec => []ProcessesInv
<1>1. ReaderInit => ProcessesInv
  BY ProcessesInit
<1>2. ProcessesInv /\ [ReaderNext]_allVars => ProcessesInv'
  BY ProcessesStep
<1> QED BY <1>1, <1>2, PTL DEF ReaderSpec

\* Whatever processes run under the timer and in whatever order a reader merges the
\* records of their files, an entry has the time and the calls that the processes so
\* far have spent under its names, unless one of them is tangled (kp_reader.cpp:56-63,
\* kp_json_writer.cpp:20-27).
THEOREM MergesExactly == ReaderSpec => []MergedExact
<1>1. ProcessesInv => MergedExact
  BY MergedExactHolds DEF ProcessesInv
<1> QED BY <1>1, ProcessesAlways, PTL

\* From the callbacks, which end the timer of the kernel begun last, to the records
\* and the reader's map, no call of a kernel or a region with a name is lost or
\* counted twice, tangled or not (kp_kernel_info.h:67-148).
THEOREM LosesNoCall == ReaderSpec => []MergedConserves
<1>1. ProcessesInv => MergedConserves
  BY MergedConservesHolds DEF ProcessesInv
<1> QED BY <1>1, ProcessesAlways, PTL

\* The summary of a process, and that of several, is of their kernels and not of
\* their regions, and within the time they ran, as long as no two kernels overlap, no
\* two intervals of one name do, and no name is of both a kernel and a region
\* (kp_kernel_timer.cpp:16-50, kp_shared.cpp:20-51, kp_reader.cpp:73-78).
THEOREM SummariesOfKernels == ReaderSpec => []SummariesTrue
<1>1. ProcessesInv => SummariesTrue
  BY InvIs, ReaderSummaryHolds DEF ProcessesInv, SummariesTrue
<1> QED BY <1>1, ProcessesAlways, PTL

=============================================================================
