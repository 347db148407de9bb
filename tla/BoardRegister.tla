---------------------------- MODULE BoardRegister ----------------------------
(***************************************************************************)
(* What the shared board of examples/message_writer.c and message_reader.c *)
(* promises: the posts are numbered, and a reader that looks at the board   *)
(* sees the number and the text of the latest post together, each post at   *)
(* most once.  A post may be overwritten before anybody has looked.         *)
(***************************************************************************)
EXTENDS Integers, Sequences

CONSTANT Texts

VARIABLES
    posted,  \* the texts posted, in order
    shown    \* the <<number, text>> pairs shown, in order

vars == <<posted, shown>>

Init == posted = <<>> /\ shown = <<>>

LastShown == IF shown = <<>> THEN 0 ELSE shown[Len(shown)][1]

Post == \E text \in Texts : posted' = Append(posted, text) /\ UNCHANGED shown

Show ==
    /\ LastShown < Len(posted)
    /\ shown' = Append(shown, <<Len(posted), posted[Len(posted)]>>)
    /\ UNCHANGED posted

Next == Post \/ Show

Spec == Init /\ [][Next]_vars
=============================================================================
