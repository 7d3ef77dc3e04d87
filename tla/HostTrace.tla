----------------------------- MODULE HostTrace ------------------------------
(***************************************************************************)
(* The program a tool watches, as the callbacks of one host thread show    *)
(* it: blocks (kernels, regions, copies, fences, sections) that begin and  *)
(* end.  Shared by the connectors, which are told of a begin with a name   *)
(* and of most ends without one.                                           *)
(*                                                                         *)
(* The Kokkos runtime is not part of the repository.  Blocks mostly nest;  *)
(* sections need not, and a program that pops regions by hand can end a    *)
(* region under a kernel or pop once too often.                            *)
(***************************************************************************)
EXTENDS Integers, SequencesExt

CONSTANTS
  KernelKinds, (* "for", "scan", "reduce", or some of them             *)
  Names,     (* names of kernels, regions, fences and sections            *)
  ToolFence, (* a name of a fence with "Kokkos Profile Tool Fence" in it  *)
  MaxBegins  (* Bound of the model: blocks and sections                   *)

ASSUME HostTraceAssumption ==
  /\ KernelKinds \subseteq {"for", "scan", "reduce"}
  /\ MaxBegins \in Nat

\* Blocks that are meant to nest.
NestedKinds == KernelKinds \cup {"region", "copy"}

VARIABLES
  open,    (* the blocks in flight, in the order of their begins: what     *)
           (* they are, their name, the number the tool gave them, when    *)
  created, (* the sections: their name and the number the tool gave them   *)
  slips,   (* what the host did that is not plain nesting                  *)
  begun    (* how much it has begun or created                             *)

trace == <<open, created, slips, begun>>

InitTrace ==
  /\ open = << >>
  /\ created = << >>
  /\ slips = {}
  /\ begun = 0

HostBegins == begun < MaxBegins /\ begun' = begun + 1

Block(what, name, num) == [what |-> what, name |-> name, num |-> num, at |-> begun]

Slips(slip, condition) == slips' = IF condition THEN slips \cup {slip} ELSE slips

Begins(what, name, num) ==
  /\ HostBegins
  /\ open' = Append(open, Block(what, name, num))
  /\ Slips("kernels", what \in KernelKinds /\ \E b \in ToSet(open) : b.what \in KernelKinds)
  /\ UNCHANGED created

\* Of kernels of one kind, regions and copies the last one ends first.
MayEnd(i) ==
  open[i].what \in NestedKinds =>
    \A j \in i + 1 .. Len(open) : open[j].what # open[i].what

Ends(i) ==
  /\ MayEnd(i)
  /\ open' = RemoveAt(open, i)
  /\ Slips("overlap", /\ open[i].what \in NestedKinds
                      /\ \E j \in i + 1 .. Len(open) : open[j].what \in NestedKinds)
  /\ UNCHANGED <<created, begun>>

\* A pop while the host has no region open.
PopsTooOften ==
  /\ \A b \in ToSet(open) : b.what # "region"
  /\ slips' = slips \cup {"pop"}
  /\ UNCHANGED <<open, created, begun>>

Creates(name, num) ==
  /\ HostBegins
  /\ created' = Append(created, [name |-> name, num |-> num])
  /\ UNCHANGED <<open, slips>>

Running(section) ==
  \E b \in ToSet(open) : b.what = "section" /\ <<b.name, b.num>> = <<section.name, section.num>>

Destroys(k) ==
  /\ ~ Running(created[k])
  /\ created' = RemoveAt(created, k)
  /\ UNCHANGED <<open, slips, begun>>

\* A section that runs may be started again.
Starts(section) ==
  /\ HostBegins
  /\ open' = Append(open, Block("section", section.name, section.num))
  /\ slips' = slips \cup {"section"} \cup (IF Running(section) THEN {"restart"} ELSE {})
  /\ UNCHANGED created

\* The blocks of some kinds, in their order.
Among(blocks, kinds) ==
  LET upTo[n \in 0 .. Len(blocks)] ==
        IF n = 0 THEN << >>
        ELSE IF blocks[n].what \in kinds THEN Append(upTo[n - 1], blocks[n])
        ELSE upTo[n - 1]
  IN upTo[Len(blocks)]

OpenKinds(kinds) == Among(open, kinds)

=============================================================================
