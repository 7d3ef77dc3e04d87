------------------------------- MODULE Wrapper -------------------------------
(***************************************************************************)
(* What a tool that wraps another one promises, whatever it selects the    *)
(* kernels by: the wrapped tool hears of some of the kernels of the host,  *)
(* of each at its begin, and of the end of exactly these when they end.    *)
(* The sampler and the kernel filter implement this specification.         *)
(*                                                                         *)
(* A kernel is identified, not numbered: numbers are what the two          *)
(* implementations translate, and may confuse.                             *)
(***************************************************************************)
VARIABLES
  up,       (* the process has not crashed                                  *)
  begun,    (* the kernels the host has begun so far                        *)
  inFlight, (* those it has not ended                                       *)
  told,     (* those the wrapped tool has open                              *)
  deaf      (* those whose end the wrapped tool has no function for         *)

Init ==
  /\ up = TRUE
  /\ begun = {}
  /\ inFlight = {}
  /\ told = {}

\* A new kernel begins, and the wrapped tool hears of it now or never.
BeginKernel(k) ==
  /\ k \notin begun
  /\ begun' = begun \cup {k}
  /\ inFlight' = inFlight \cup {k}
  /\ told' \in {told, told \cup {k}}
  /\ up' = up

\* A kernel ends, and the wrapped tool hears of it if it heard of the begin.
EndKernel(k) ==
  /\ inFlight' = inFlight \ {k}
  /\ told' = IF k \in deaf THEN told ELSE told \ {k}
  /\ UNCHANGED <<up, begun>>

\* The process ends instead of a call of the wrapped tool.
Crash ==
  /\ up /\ ~ up'
  /\ told' = told

Next ==
  \/ \E k \in begun' \ begun : BeginKernel(k)
  \/ \E k \in inFlight : EndKernel(k)
  \/ Crash

Spec == Init /\ [][Next]_<<up, begun, inFlight, told>>

=============================================================================
