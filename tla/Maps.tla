-------------------------------- MODULE Maps --------------------------------
(***************************************************************************)
(* Finite maps as functions, with the operations of std::map and           *)
(* std::unordered_map that the tools use.                                  *)
(***************************************************************************)
EXTENDS FiniteSetsExt

EmptyMap == [x \in {} |-> x]

\* insert: a key that is present keeps its value.
Insert(m, key, value) ==
  [x \in DOMAIN m \cup {key} |-> IF x \in DOMAIN m THEN m[x] ELSE value]

\* operator[] on the left of an assignment: a key that is present is replaced.
Assign(m, key, value) ==
  [x \in DOMAIN m \cup {key} |-> IF x = key THEN value ELSE m[x]]

\* erase: nothing happens for an absent key.
Erase(m, key) == [x \in DOMAIN m \ {key} |-> m[x]]

\* The sum of the values of some of the keys.
SumOver(m, keys) == MapThenSumSet(LAMBDA x : m[x], keys)

=============================================================================
