--------------------------- MODULE MCKeywordTable ---------------------------
(* Instances of KeywordTable for TLC. *)
EXTENDS KeywordTable, TLC

CONSTANTS n1, n2, k1, k2, w1, w2

OneNode == {n1}
TwoNodes == {n1, n2}
TwoKeywords == {k1, k2}
OneWriter == {w1}
TwoWriters == {w1, w2}

SomeWords == {{k1}, {k2}}

Symmetry == Permutations(Nodes) \cup Permutations(Keywords) \cup Permutations(Writers)
=============================================================================
