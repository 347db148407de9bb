------------------------- MODULE MCThreadScheduler -------------------------
(***************************************************************************)
(* TLC instance of ThreadScheduler.  Three threads are the fewest of which *)
(* one has to wait.                                                        *)
(***************************************************************************)
EXTENDS ThreadScheduler
=============================================================================
