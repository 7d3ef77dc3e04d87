---------------------------- MODULE MCHwmReport -----------------------------
(***************************************************************************)
(* Small instances of the memory report for TLC: every way the marks of    *)
(* the ranks can be ordered and tied, and no memory at all.                *)
(***************************************************************************)
EXTENDS HwmReport

MCTotals == 0 .. comm_size - 1

\* No two processes the same, and an average that is not whole.
MChwm == [r \in 0 .. comm_size - 1 |-> IF r = 1 THEN 1 ELSE 2 * r + 4]

=============================================================================
