-------------------------- MODULE MCSpaceTimeStack --------------------------
(***************************************************************************)
(* A small instance of the frames of the space-time stack for TLC.         *)
(***************************************************************************)
EXTENDS SpaceTimeStack

\* One name for a kernel, a region and a copy: nodes are told apart by kind.
MCFrames == {[name |-> "a", kind |-> k] : k \in {"for", "region", "copy"}}

MCRootFrame == [name |-> "", kind |-> "region"]

=============================================================================
