--------------------------- MODULE MCMessageBoard ---------------------------
(***************************************************************************)
(* TLC instance of MessageBoard: two lines to choose from, so that a text  *)
(* may be repeated, and a queue that a slow reader fills.                  *)
(***************************************************************************)
EXTENDS MessageBoard

CONSTANTS a, b

Lines == {a, b}
=============================================================================
