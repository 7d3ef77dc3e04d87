--------------------------- MODULE MCToolRegistry ---------------------------
(***************************************************************************)
(* Small instances of a host with one connector for TLC: names that        *)
(* kernels, regions and sections share, numbers that sections may share,   *)
(* and a device that may be idle.                                          *)
(***************************************************************************)
EXTENDS ToolRegistry

CONSTANTS a, b

MCNames   == {a, b}
MCOneName == {a}
MCIds     == {1, 2}
MCOneId   == {1}
MCPowers  == {0, 1}
MCSymmetry == Permutations(MCNames)
MCKinds == {"for", "reduce"}
MCTools   == KnownTools \cup {""}
MCPapi    == {"papi-connector"}

\* The host of PapiSections: each section has a number of its own, and sections end
\* innermost first, like regions.
SectionsApart ==
  Len(created') > Len(created) => Last(created').num \notin {c.num : c \in ToSet(created)}

InnermostEnds == Len(open') < Len(open) => open' = Front(open)

NestingNext == NextRegistry /\ SectionsApart /\ InnermostEnds

NestingSpec == InitRegistry /\ [][NestingNext]_vars

=============================================================================
