---------------------------- MODULE MCKernelTimer ---------------------------
(***************************************************************************)
(* Small instances of the simple kernel timer and its readers for TLC.     *)
(***************************************************************************)
EXTENDS KernelReader

\* A kernel by its mangled and by its plain name.
MCKernels == {[name |-> "4axpy", kType |-> "PARALLEL_FOR"],
              [name |-> "axpy", kType |-> "PARALLEL_REDUCE"]}

\* A region with the name of a kernel, and one without a name.
MCRegions == {"axpy", ""}

MCDemangled == [n \in {"4axpy", "axpy", ""} |-> IF n = "" THEN "" ELSE "axpy"]

=============================================================================
