---------------------------- MODULE RelayRegister ----------------------------
(***************************************************************************)
(* What the segment and the go-between of exercises/v6 promise together:   *)
(* an atomic register that is given 1..N and then Empty, and a relay that   *)
(* takes what it finds there, never the same value twice running.  Values  *)
(* may be missed; nothing else may happen to them.                         *)
(***************************************************************************)
EXTENDS Integers, Sequences

CONSTANT N

Empty == 0

VARIABLES
    next,    \* the next value the source writes; N + 1 is the clearing write
    cell,    \* the register
    relayed  \* everything taken from it

vars == <<next, cell, relayed>>

Init == next = 1 /\ cell = Empty /\ relayed = <<>>

LastOf(seq) == IF seq = <<>> THEN Empty ELSE seq[Len(seq)]

Write ==
    /\ next <= N + 1
    /\ cell' = IF next = N + 1 THEN Empty ELSE next
    /\ next' = next + 1
    /\ UNCHANGED relayed

Relay ==
    /\ cell # LastOf(relayed)
    /\ relayed' = Append(relayed, cell)
    /\ UNCHANGED <<next, cell>>

Next == Write \/ Relay

Spec == Init /\ [][Next]_vars
=============================================================================
