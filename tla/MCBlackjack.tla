----------------------------- MODULE MCBlackjack -----------------------------
(***************************************************************************)
(* TLC instance of Blackjack: three ranks, so that messages of all lengths *)
(* come, player and dealer may be bust, stand on a low score, or tie.      *)
(***************************************************************************)
EXTENDS Blackjack

ThreeRanks == {2, 7, 12}
=============================================================================
