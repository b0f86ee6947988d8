------------------------ MODULE MCDocumentIndexing ------------------------
(* Instances of DocumentIndexing for TLC. *)
EXTENDS DocumentIndexing, TLC

CONSTANTS w1, w2, c1, c2, d1, d2

OneClient == {c1}
TwoClients == {c1, c2}
OneWorker == {w1}
TwoWorkers == {w1, w2}
OneDocument == {d1}
TwoDocuments == {d1, d2}

OnePiece == 1..1
TwoPieces == 1..2

ActorSymmetry == Permutations(Workers) \cup Permutations(Clients) \cup Permutations(Documents)
=============================================================================
