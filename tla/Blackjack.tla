------------------------------ MODULE Blackjack ------------------------------
(***************************************************************************)
(* src/src/exercises/v8: bj_server.c plays Blackjack with one client after *)
(* the other, bj_client.c is the player's side; here, one connection.  The *)
(* messages are plain text with neither length nor end: a read returns all *)
(* that has come, as many messages as that may be, and only the usleep     *)
(* calls of the server give the client the time to read them one by one.   *)
(* Client and server are on one machine (127.0.0.1), so each end learns at *)
(* once what the other does to the connection.                             *)
(***************************************************************************)
EXTENDS Integers, SequencesExt

CONSTANT Ranks  \* the ranks in the deck, four cards of each; 1..13 in the code

ASSUME RanksAssumption == Ranks \subseteq 1..13

Results == {"WIN", "LOSE", "TIE"}

\* A message: its kind, the score it ends with, and its length in characters.
Message(kind, score, len) == [kind |-> kind, score |-> score, len |-> len]

Digits(n) == IF n < 10 THEN 1 ELSE 2

Limit == 21
Garbled == -1  \* a number the client makes of two messages, or of none

\* The bytes of recvline that can follow the text of a final result.
Ends == 8..10

VARIABLES
    srv, cli,   \* the next call of server and client
    deck,       \* cards of each rank left
    player,     \* player_score
    dealer,     \* dealer_score
    hand,       \* dealer_card1, dealer_card2
    toServer,   \* the choice on its way to the server
    toClient,   \* messages sent and not yet read
    conn,       \* the connection, as the server finds it
    text,       \* client: the messages its last read returned
    tail,       \* client: what is in recvline there
    view,       \* client: the scores it has printed
    announced,  \* client: the result it has printed
    first,      \* history: the length of the first message
    joined,     \* history: a read returned several messages
    left,       \* history: the player left with Ctrl-C or Ctrl-D
    leftEarly   \* history: the client closed before the server wrote END

cards == <<deck, player, dealer, hand, first>>
client == <<text, tail, view, announced, joined>>
exits == <<left, leftEarly>>
vars == <<srv, cli, cards, toServer, toClient, conn, client, exits>>

Init ==
    /\ srv = "accept" /\ cli = "connect"
    /\ deck = [r \in Ranks |-> 4] /\ player = 0 /\ dealer = 0 /\ hand = <<>> /\ first = 0
    /\ toServer = "none" /\ toClient = <<>> /\ conn = "open"
    /\ text = <<>> /\ tail = [b \in Ends |-> "junk"]
    /\ view = [player |-> 0, dealer |-> 0] /\ announced = "nothing" /\ joined = FALSE
    /\ left = FALSE /\ leftEarly = FALSE

-----------------------------------------------------------------------------
(***************************************************************************)
(* bj_server.c.  Definitions named ..._Slip are mistakes one could make in *)
(* the action that follows; no specification uses them.                    *)
(***************************************************************************)

\* get_score: aces count one.
Score(card) == IF card > 10 THEN 10 ELSE card

\* write() of m.  The client's kernel answers what comes after its close with a
\* reset; a write after a reset fails once (and goes to `onError'), or raises
\* SIGPIPE if the connection had been closed, or reset and used, before.
Write(m, next, onError) ==
    /\ toClient' = IF conn = "open" THEN Append(toClient, m) ELSE toClient
    /\ conn' = IF conn = "open" THEN "open" ELSE "broken"
    /\ srv' = CASE conn \in {"open", "closed"} -> next
                [] conn = "reset" -> onError
                [] conn = "broken" -> "killed"
    /\ UNCHANGED <<cli, client, exits>>

SAccept ==
    /\ srv = "accept" /\ cli # "connect"
    /\ srv' = "deal"
    /\ UNCHANGED <<cli, cards, toServer, toClient, conn, client, exits>>

\* The shuffled deck gives any cards it has.
SDeal ==
    /\ srv = "deal"
    /\ \E c \in [1..4 -> Ranks] :
         /\ deck' = [r \in Ranks |-> deck[r] - Cardinality({n \in 1..4 : c[n] = r})]
         /\ player' = Score(c[1]) + Score(c[2])
         /\ dealer' = Score(c[3]) + Score(c[4])
         /\ hand' = <<c[3], c[4]>>
         /\ first' = Digits(c[1]) + Digits(c[2]) + Digits(player') + Digits(c[3]) + 3
    /\ Write(Message("cards", player', first'), "read", "exited")
    /\ UNCHANGED toServer

SRead ==
    /\ srv = "read" /\ toServer # "none"
    /\ srv' = IF toServer = "h" THEN "hit" ELSE "stand"
    /\ toServer' = "none"
    /\ UNCHANGED <<cli, cards, toClient, conn, client, exits>>

\* read returns 0 or an error: the game counts as finished.
SReadEnd ==
    /\ srv = "read" /\ toServer = "none" /\ conn # "open"
    /\ srv' = "end"
    /\ conn' = IF conn = "reset" THEN "broken" ELSE conn
    /\ UNCHANGED <<cli, cards, toServer, toClient, client, exits>>

Draw_Slip(r) ==  \* one card too many
    deck[r] >= 0 /\ deck' = [deck EXCEPT ![r] = @ - 1]

\* draw, from a deck that a game cannot use up.
Draw(r) == deck[r] > 0 /\ deck' = [deck EXCEPT ![r] = @ - 1]

SHit_Slip ==  \* the score is sent before the card is counted
    /\ srv = "hit"
    /\ \E r \in Ranks :
         /\ Draw(r) /\ player' = player + Score(r)
         /\ LET m == Message("hit", player, Digits(r) + Digits(player) + 1)
            IN  Write(m, IF player' > Limit THEN "end" ELSE "read", "read")
    /\ UNCHANGED <<dealer, hand, first, toServer>>

SHit ==
    /\ srv = "hit"
    /\ \E r \in Ranks :
         /\ Draw(r) /\ player' = player + Score(r)
         /\ LET m == Message("hit", player', Digits(r) + Digits(player') + 1)
                next == IF player' > Limit THEN "end" ELSE "read"
            IN  Write(m, next, next)
    /\ UNCHANGED <<dealer, hand, first, toServer>>

SStand ==
    /\ srv = "stand"
    /\ Write(Message("dealer", dealer, Digits(hand[1]) + Digits(hand[2]) + Digits(dealer) + 2),
             "draws", "exited")
    /\ UNCHANGED <<cards, toServer>>

SDraw ==
    /\ srv = "draws" /\ dealer < 17
    /\ \E r \in Ranks :
         /\ Draw(r) /\ dealer' = dealer + Score(r)
         /\ Write(Message("draw", dealer', Digits(r) + Digits(dealer') + 1), "draws", "exited")
    /\ UNCHANGED <<player, hand, first, toServer>>

SStop_Slip ==  \* the break at the end of the branch is missing
    /\ srv = "draws" /\ dealer >= 17
    /\ srv' = "read"
    /\ UNCHANGED <<cli, cards, toServer, toClient, conn, client, exits>>

SStop ==
    /\ srv = "draws" /\ dealer >= 17
    /\ srv' = "end"
    /\ UNCHANGED <<cli, cards, toServer, toClient, conn, client, exits>>

SEnd == srv = "end" /\ Write(Message("END", 0, 3), "result", "result") /\ UNCHANGED <<cards, toServer>>

Outcome_Slip ==  \* the dealer's bust is not looked at first
    CASE player > Limit \/ dealer > player -> "LOSE"
      [] dealer < player /\ player <= Limit -> "WIN"
      [] OTHER -> "TIE"

Outcome ==
    CASE player > Limit \/ (dealer <= Limit /\ dealer > player) -> "LOSE"
      [] player <= Limit /\ (dealer > Limit \/ dealer < player) -> "WIN"
      [] OTHER -> "TIE"

Final == Message(Outcome, dealer,
                 Digits(player) + Digits(dealer) + 2 + IF Outcome = "LOSE" THEN 4 ELSE 3)

SResult_Slip ==  \* a failing write is treated as elsewhere
    srv = "result" /\ Write(Final, "close", "exited") /\ UNCHANGED <<cards, toServer>>

SResult == srv = "result" /\ Write(Final, "close", "close") /\ UNCHANGED <<cards, toServer>>

SClose ==
    /\ srv = "close"
    /\ srv' = "served"
    /\ UNCHANGED <<cli, cards, toServer, toClient, conn, client, exits>>

Server ==
    \/ SAccept \/ SDeal \/ SRead \/ SReadEnd \/ SHit \/ SStand \/ SDraw \/ SStop
    \/ SEnd \/ SResult \/ SClose

-----------------------------------------------------------------------------
(* bj_client.c *)

Length(messages) == FoldSeq(LAMBDA m, n : m.len + n, 0, messages)

\* read() into recvline, and the zero stored behind what was read, or not.
Read(terminated) ==
    \E n \in 1..Len(toClient) :
        /\ text' = SubSeq(toClient, 1, n)
        /\ toClient' = SubSeq(toClient, n + 1, Len(toClient))
        /\ joined' = (joined \/ n > 1)
        /\ tail' = [b \in Ends |-> IF b < Length(text') THEN "char"
                                   ELSE IF b = Length(text') /\ terminated THEN "nul"
                                   ELSE tail[b]]

\* The score sscanf finds: digits that follow at once are read as part of it.
Parsed(messages) ==
    IF messages[1].kind = "END" \/ (Len(messages) > 1 /\ messages[2].kind # "END")
    THEN Garbled ELSE messages[1].score

CConnect ==
    /\ cli = "connect" /\ cli' = "cards"
    /\ UNCHANGED <<srv, cards, toServer, toClient, conn, client, exits>>

CCards ==
    /\ cli = "cards" /\ cli' = "fgets"
    /\ Read(TRUE) /\ view' = [view EXCEPT !.player = Parsed(text')]
    /\ UNCHANGED <<srv, cards, toServer, conn, announced, exits>>

\* Other input than h and s is asked for again.
CChoose(choice) ==
    /\ cli = "fgets" /\ cli' = IF choice = "h" THEN "hit" ELSE "stand"
    /\ toServer' = choice
    /\ UNCHANGED <<srv, cards, toClient, conn, client, exits>>

CHit ==
    /\ cli = "hit" /\ Read(TRUE)
    /\ view' = [view EXCEPT !.player = Parsed(text')]
    /\ cli' = IF view'.player > Limit THEN "close" ELSE "fgets"
    /\ UNCHANGED <<srv, cards, toServer, conn, announced, exits>>

CStand ==
    /\ cli = "stand" /\ cli' = "draws"
    /\ Read(TRUE) /\ view' = [view EXCEPT !.dealer = Parsed(text')]
    /\ UNCHANGED <<srv, cards, toServer, conn, announced, exits>>

\* END ends the loop if it is all that was read; anything else is a card.
CDraws ==
    /\ cli = "draws" /\ Read(TRUE)
    /\ LET isEnd == Len(text') = 1 /\ text'[1].kind = "END"
       IN  /\ cli' = IF isEnd THEN "final" ELSE cli
           /\ view' = IF isEnd THEN view ELSE [view EXCEPT !.dealer = Parsed(text')]
    /\ UNCHANGED <<srv, cards, toServer, conn, announced, exits>>

AtEof == toClient = <<>> /\ srv = "served"

CDrawsEof ==
    /\ cli = "draws" /\ AtEof /\ cli' = "final"
    /\ UNCHANGED <<srv, cards, toServer, toClient, conn, client, exits>>

\* What sscanf and strcmp make of recvline: the result only if it stands there
\* alone and ends where it should, for this read stores no zero.
Understood(messages, bytes) ==
    IF Len(messages) = 1 /\ messages[1].kind \in Results
    THEN CASE bytes[messages[1].len] = "nul" -> {messages[1].kind}
           [] bytes[messages[1].len] = "char" -> {"nothing"}
           [] bytes[messages[1].len] = "junk" -> {messages[1].kind, "nothing"}
    ELSE {"nothing"}

CFinal_Slip ==  \* there is no branch for a tie
    /\ cli = "final" /\ cli' = "close"
    /\ Read(FALSE) \/ (AtEof /\ UNCHANGED <<toClient, text, tail, joined>>)
    /\ announced' \in {IF u = "TIE" THEN "nothing" ELSE u : u \in Understood(text', tail')}
    /\ UNCHANGED <<srv, cards, toServer, conn, view, exits>>

\* At the end of the input recvline keeps what the read before has left.
CFinal ==
    /\ cli = "final" /\ cli' = "close"
    /\ Read(FALSE) \/ (AtEof /\ UNCHANGED <<toClient, text, tail, joined>>)
    /\ announced' \in Understood(text', tail')
    /\ UNCHANGED <<srv, cards, toServer, conn, view, exits>>

\* A socket closed with messages unread resets the connection.
Close ==
    /\ cli' = "done"
    /\ conn' = CASE srv = "served" -> conn
                 [] srv # "served" /\ toClient # <<>> -> "reset"
                 [] srv # "served" /\ toClient = <<>> -> "closed"
    /\ toClient' = <<>>
    /\ leftEarly' = (srv \notin {"result", "close", "served"})
    /\ UNCHANGED <<srv, cards, toServer, client>>

CClose == cli = "close" /\ Close /\ UNCHANGED left

\* Ctrl-D at the prompt, or Ctrl-C at any time.
CLeave == cli \notin {"connect", "done"} /\ Close /\ left' = TRUE

Client == CConnect \/ CCards \/ CHit \/ CStand \/ CDraws \/ CDrawsEof \/ CFinal \/ CClose

Player == CLeave \/ \E choice \in {"h", "s"} : CChoose(choice)

-----------------------------------------------------------------------------
Next == Server \/ Client \/ Player

Spec == Init /\ [][Next]_vars

\* Both programs run; the player may think for ever.
FairSpec == Spec /\ WF_vars(Server) /\ WF_vars(Client)
-----------------------------------------------------------------------------
Messages == [kind : {"cards", "hit", "dealer", "draw", "END"} \cup Results, score : Nat, len : Nat]

TypeOK ==
    /\ srv \in {"accept", "deal", "read", "hit", "stand", "draws", "end", "result", "close",
                "served", "exited", "killed"}
    /\ cli \in {"connect", "cards", "fgets", "hit", "stand", "draws", "final", "close", "done"}
    /\ deck \in [Ranks -> 0..4] /\ player \in Nat /\ dealer \in Nat
    /\ hand = <<>> \/ hand \in Ranks \X Ranks
    /\ first \in Nat /\ toServer \in {"none", "h", "s"} /\ toClient \in Seq(Messages)
    /\ conn \in {"open", "closed", "reset", "broken"}
    /\ text \in Seq(Messages) /\ tail \in [Ends -> {"junk", "char", "nul"}]
    /\ view \in [player : Nat \cup {Garbled}, dealer : Nat \cup {Garbled}]
    /\ announced \in Results \cup {"nothing"}
    /\ joined \in BOOLEAN /\ left \in BOOLEAN /\ leftEarly \in BOOLEAN

\* The player decides by the true score: when asked, the score on the screen is
\* the server's, and the game is not lost; it stays so to the end, and the
\* dealer's does too, unless messages were read together (bj_client.c:52-102).
ViewAgrees ==
    /\ cli = "fgets" => view.player = player /\ player <= Limit
    /\ cli = "final" /\ ~joined => view = [player |-> player, dealer |-> dealer]

\* The score a hand is worth in the comparison.
Worth(score) == IF score <= Limit THEN score ELSE 0

\* However messages are joined, cut, or parsed from what an earlier read left
\* behind, the client announces the result of the game or none at all.
NeverWrongResult ==
    announced # "nothing" =>
        /\ player <= Limit
        /\ announced = CASE Worth(dealer) > player -> "LOSE"
                         [] Worth(dealer) < player -> "WIN"
                         [] Worth(dealer) = player -> "TIE"

\* A game played to its end with every message read alone is announced, if the
\* final message ends where the zero behind the first one is; otherwise it is up
\* to what recvline held there (bj_client.c:42, 108-109).
AnnouncedIfTailClear ==
    cli = "done" /\ view.dealer # 0 /\ ~left /\ ~joined /\ first = Final.len =>
        announced = Outcome

\* The result the player is told (bj_client.c:108-122): never a wrong one, and one at
\* all whenever recvline allows it.
ResultRight == NeverWrongResult /\ AnnouncedIfTailClear

\* The server is lost, by SIGPIPE or by err(), only to a client that closed the
\* connection before END was written: the player left, or was bust and quick.
LostOnlyToEarlyLeave == srv \in {"killed", "exited"} => leftEarly

\* "Game finished", "Calculate result and send final message", "Send end signal before
\* final result" (bj_server.c:124-125, 143): once a game is finished, the server
\* goes on to send END and the result, and does not end with it.
GameEndsWithResult == [][(srv \in {"end", "result"}) => srv' # "killed"]_vars

\* A player who stands gets to the end of the game and the server to its next
\* client, however the messages come: no read waits for one that was already
\* read as part of another (bj_client.c:94-108).
StandEndsGame ==
    (cli = "stand") ~> (cli = "done" /\ srv \in {"served", "exited", "killed"})
=============================================================================
