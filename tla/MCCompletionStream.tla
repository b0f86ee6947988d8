------------------------- MODULE MCCompletionStream -------------------------
(***************************************************************************)
(* The instance of CompletionStream that TLC checks: the second token is   *)
(* white space, the first and the preset response hold a variable.         *)
(***************************************************************************)
EXTENDS CompletionStream

SomeBlank == {2}
SomeVariables == {1, Preset}
=============================================================================
