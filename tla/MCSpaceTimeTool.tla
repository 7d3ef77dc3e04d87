--------------------------- MODULE MCSpaceTimeTool --------------------------
(***************************************************************************)
(* A small instance of the whole space-time stack for TLC.                 *)
(***************************************************************************)
EXTENDS SpaceTimeTool

CONSTANTS a1, a2, a3

MCAddresses == {a1, a2, a3}

\* Addresses are compared with each other only.
MCSymmetry == Permutations(MCAddresses)

\* One name for a kernel, a region and a copy: nodes are told apart by kind.
MCFrames == {[name |-> "a", kind |-> k] : k \in {"for", "region", "copy"}}

MCRootFrame == [name |-> "", kind |-> "region"]

MCSpaces  == {"HOST", "CUDA"}
MCHandles == {"Host", "Cuda", "CudaUVM", "HBW"}

\* get_space compares a prefix: CudaUVM is counted as CUDA, HBW is unknown.
MCSpaceOf == [h \in {"Host", "Cuda", "CudaUVM"} |-> IF h = "Host" THEN "HOST" ELSE "CUDA"]

=============================================================================
