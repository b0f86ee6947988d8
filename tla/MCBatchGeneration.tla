-------------------------- MODULE MCBatchGeneration --------------------------
(* Instances of BatchGeneration for TLC. *)
EXTENDS BatchGeneration

\* Two groups; a file with one empty line; files that are refused: a row that lacks a
\* variable, an empty line at either end, nothing but an empty line.
Files == {<<"good", "good", "good", "good">>, <<"good", "empty", "good">>,
          <<"good", "bad">>, <<"empty", "good", "empty">>, <<"empty">>}
=============================================================================
