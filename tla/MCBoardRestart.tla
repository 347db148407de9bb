--------------------------- MODULE MCBoardRestart ---------------------------
(***************************************************************************)
(* TLC instance of BoardRestart: two lines to choose from, and two kills.  *)
(***************************************************************************)
EXTENDS BoardRestart

CONSTANTS a, b

Lines == {a, b}
=============================================================================
