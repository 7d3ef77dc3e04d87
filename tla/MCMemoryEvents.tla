--------------------------- MODULE MCMemoryEvents ---------------------------
(***************************************************************************)
(* A small instance of the memory tools for TLC: two threads, two spaces,  *)
(* addresses that are used again.                                          *)
(***************************************************************************)
EXTENDS MemoryEvents

CONSTANTS t1, t2, a1, a2

MCThreads    == {t1, t2}
MCSpaceNames == {"Host", "Cuda"}
MCAddresses  == {a1, a2}
MCSizes      == {1, 2}

=============================================================================
