--------------------------- MODULE Blackjack_proofs ---------------------------
(***************************************************************************)
(* Theorems about Blackjack, for every deck of ranks up to 13: whatever    *)
(* cards are drawn, however the messages are joined by the reads, whenever *)
(* the player leaves.  The invariant is built up from the connection, the  *)
(* course of the game, the messages on their way (the dealer's cards, END, *)
(* the result), what the client shows, and the bytes of recvline.          *)
(***************************************************************************)
EXTENDS Blackjack, FiniteSetTheorems, SequenceTheorems, TLAPS

(***************************************************************************)
(* The connection: it is open until the client is done, and a client that  *)
(* closes it after END leaves the server two calls that it survives.       *)
(***************************************************************************)
ConnInv ==
    /\ cli # "done" => conn = "open" /\ ~leftEarly /\ srv \notin {"killed", "exited"}
    /\ cli = "done" => toClient = <<>> /\ (conn = "open" => srv = "served")
    /\ cli = "done" /\ ~leftEarly =>
         \/ srv = "result" /\ conn \in {"closed", "reset"}
         \/ srv \in {"close", "served"}

(***************************************************************************)
(* The game: whose turn it is, and what is on its way.                     *)
(***************************************************************************)
Over == {"end", "result", "close", "served"}
Card(m) == m.kind \in {"dealer", "draw"}
Quiet == toServer = "none" /\ toClient = <<>>
Alone(kind) ==
    /\ toServer = "none" /\ Len(toClient) = 1
    /\ toClient[1].kind = kind /\ toClient[1].score = player

TurnInv ==
    /\ srv \in {"accept", "deal"} => player = 0 /\ deck = [r \in Ranks |-> 4]
    /\ srv \notin {"accept", "deal"} => player >= 1
    /\ cli = "connect" => srv = "accept" /\ Quiet
    /\ cli = "cards" => \/ srv \in {"accept", "deal"} /\ Quiet
                        \/ srv = "read" /\ player <= Limit
                           /\ Alone("cards") /\ toClient[1].len = first
    /\ cli = "fgets" => srv = "read" /\ Quiet /\ player <= Limit
    /\ cli = "hit" =>
         \/ srv = "read" /\ toServer = "h" /\ toClient = <<>> /\ player <= Limit
         \/ srv = "hit" /\ Quiet /\ player <= Limit
         \/ srv = "read" /\ Alone("hit") /\ player <= Limit
         \/ srv = "end" /\ Alone("hit") /\ player > Limit
         \/ /\ srv \in {"result", "close", "served"} /\ toServer = "none" /\ player > Limit
            /\ Len(toClient) >= 2 /\ toClient[1].kind = "hit" /\ toClient[1].score = player
            /\ toClient[2].kind = "END"
    /\ cli \in {"stand", "draws", "final"} => player <= Limit
    /\ cli = "stand" => \/ srv = "read" /\ toServer = "s" /\ toClient = <<>>
                        \/ srv = "stand" /\ Quiet
                        \/ srv \in {"draws"} \cup Over /\ toServer = "none"
                           /\ toClient # <<>> /\ Card(toClient[1])
    /\ cli \in {"draws", "final"} => srv \in {"draws"} \cup Over /\ toServer = "none"

Standing == cli \in {"stand", "draws", "final"} /\ srv \in {"draws"} \cup Over

\* The dealer's cards come before END and the last of them carries his score.
DealerInv ==
    /\ Standing => \A k \in DOMAIN toClient :
          toClient[k].kind \in {"dealer", "draw", "END"} \cup Results
    /\ Standing /\ srv # "draws" => dealer >= 17
    /\ Standing /\ srv \in {"draws", "end"} => \A k \in DOMAIN toClient : Card(toClient[k])
    /\ Standing => \A k \in DOMAIN toClient : Card(toClient[k]) =>
          /\ toClient[k].score = dealer \/ (k < Len(toClient) /\ Card(toClient[k + 1]))
          /\ \A j \in 1..k : Card(toClient[j])

\* A result is the result of the game, and the last message.
ResultInv ==
    /\ \A k \in DOMAIN toClient : toClient[k].kind \in Results =>
          srv \in {"close", "served"} /\ k = Len(toClient) /\ toClient[k] = Final
    /\ \A k \in DOMAIN text : text[k].kind \in Results =>
          srv \in {"close", "served"} /\ text[k] = Final

\* END is the last message but for the result, and while the messages are read
\* one by one it is waiting until it is read alone.
EndInv ==
    /\ Standing => \A k \in DOMAIN toClient : toClient[k].kind = "END" =>
          \/ srv = "result" /\ k = Len(toClient)
          \/ srv \in {"close", "served"} /\ k = Len(toClient) - 1
    /\ Standing /\ srv \in {"close", "served"} /\ toClient # <<>> =>
          toClient[Len(toClient)] = Final
    /\ Standing /\ ~joined /\ cli # "final" /\ srv \in {"result", "close", "served"} =>
          \E k \in DOMAIN toClient : toClient[k].kind = "END"
    /\ cli = "final" /\ ~joined =>
          \/ srv = "result" /\ toClient = <<>>
          \/ srv \in {"close", "served"} /\ Len(toClient) = 1 /\ toClient[1] = Final

\* What the client has understood of the scores and of the result.
ScreenInv ==
    /\ cli \in {"fgets", "stand", "draws", "final"} => view.player = player
    /\ cli \in {"connect", "cards", "fgets", "hit", "stand"} => view.dealer = 0
    /\ cli = "draws" /\ ~joined /\ (\A k \in DOMAIN toClient : ~Card(toClient[k])) =>
          view.dealer = dealer
    /\ cli = "final" /\ ~joined => view.dealer = dealer
    /\ announced # "nothing" =>
          srv \in {"close", "served"} /\ player <= Limit /\ announced = Outcome

\* recvline: the zero behind the first message outlives the shorter ones.
TailInv ==
    /\ \A k \in DOMAIN toClient : toClient[k].kind \notin Results \cup {"cards"} =>
          toClient[k].len <= 8
    /\ cli \in {"fgets", "hit", "stand", "draws", "final"} /\ ~joined /\ first \in Ends =>
          tail[first] = "nul"
    /\ cli \in {"close", "done"} /\ view.dealer # 0 /\ ~left /\ ~joined =>
          srv \in {"close", "served"} /\ (first = Final.len => announced = Outcome)

-----------------------------------------------------------------------------
(* What writing and reading do to the messages on their way. *)

LEMMA WriteFacts ==
    ASSUME toClient \in Seq(Messages), NEW m \in Messages, NEW next, NEW onError,
           Write(m, next, onError)
    PROVE  /\ toClient' \in Seq(Messages)
           /\ conn = "open" => /\ Len(toClient') = Len(toClient) + 1
                               /\ \A k \in 1..Len(toClient) : toClient'[k] = toClient[k]
                               /\ toClient'[Len(toClient) + 1] = m
                               /\ srv' = next /\ conn' = "open"
           /\ conn # "open" => toClient' = toClient /\ conn' = "broken"
           /\ conn \in {"closed", "reset", "broken"} => srv' \in {next, onError, "killed"}
           /\ conn = "closed" => srv' = next
           /\ conn = "reset" => srv' = onError
BY AppendProperties DEF Write

\* A read of n messages.
Reads(n, terminated) ==
    /\ text' \in Seq(Messages) /\ Len(text') = n
    /\ \A k \in 1..n : text'[k] = toClient[k]
    /\ toClient' \in Seq(Messages) /\ Len(toClient') = Len(toClient) - n
    /\ \A k \in 1..(Len(toClient) - n) : toClient'[k] = toClient[k + n]
    /\ (joined \/ n > 1) => joined'
    /\ tail' = [b \in Ends |-> IF b < Length(text') THEN "char"
                               ELSE IF b = Length(text') /\ terminated THEN "nul"
                               ELSE tail[b]]

LEMMA ReadFacts ==
    ASSUME toClient \in Seq(Messages), NEW terminated, Read(terminated)
    PROVE  \E n \in 1..Len(toClient) : Reads(n, terminated)
<1>1. PICK n \in 1..Len(toClient) :
         /\ text' = SubSeq(toClient, 1, n)
         /\ toClient' = SubSeq(toClient, n + 1, Len(toClient))
         /\ joined' = (joined \/ n > 1)
         /\ tail' = [b \in Ends |-> IF b < Length(text') THEN "char"
                                    ELSE IF b = Length(text') /\ terminated THEN "nul"
                                    ELSE tail[b]]
    BY DEF Read
<1>2. Len(toClient) \in Nat /\ \A k \in 1..Len(toClient) : toClient[k] \in Messages
    BY LenProperties
<1>3. /\ text' \in Seq(Messages) /\ Len(text') = n
      /\ \A k \in 1..n : text'[k] = toClient[k]
  <2>1. \A k \in 1..n : toClient[k] \in Messages
      BY <1>2
  <2>2. /\ SubSeq(toClient, 1, n) \in Seq(Messages)
        /\ Len(SubSeq(toClient, 1, n)) = IF 1 <= n THEN n - 1 + 1 ELSE 0
        /\ \A k \in 1..(n - 1 + 1) : SubSeq(toClient, 1, n)[k] = toClient[1 + k - 1]
      BY <2>1, SubSeqProperties
  <2> QED
      BY <1>1, <2>2
<1>4. /\ toClient' \in Seq(Messages) /\ Len(toClient') = Len(toClient) - n
      /\ \A k \in 1..(Len(toClient) - n) : toClient'[k] = toClient[k + n]
  <2> DEFINE l == Len(toClient)
  <2>1. l \in Nat /\ n \in 1..l /\ \A k \in (n + 1)..l : toClient[k] \in Messages
      BY <1>2
  <2>2. /\ SubSeq(toClient, n + 1, l) \in Seq(Messages)
        /\ Len(SubSeq(toClient, n + 1, l)) = IF n + 1 <= l THEN l - (n + 1) + 1 ELSE 0
        /\ \A k \in 1..(l - (n + 1) + 1) :
              SubSeq(toClient, n + 1, l)[k] = toClient[(n + 1) + k - 1]
    <3>1. n + 1 \in Int /\ l \in Int
        BY <2>1
    <3> HIDE DEF l
    <3> QED
        BY <2>1, <3>1, SubSeqProperties
  <2>3. toClient' = SubSeq(toClient, n + 1, l)
      BY <1>1
  <2> HIDE DEF l
  <2>4. Len(toClient') = l - n
      BY <2>1, <2>2, <2>3
  <2>5. \A k \in 1..(l - n) : toClient'[k] = toClient[k + n]
    <3> SUFFICES ASSUME NEW k \in 1..(l - n) PROVE toClient'[k] = toClient[k + n]
        OBVIOUS
    <3>1. k \in 1..(l - (n + 1) + 1) /\ (n + 1) + k - 1 = k + n
        BY <2>1
    <3> QED
        BY <2>2, <2>3, <3>1
  <2> QED
      BY <2>2, <2>3, <2>4, <2>5 DEF l
<1> QED
    BY <1>1, <1>3, <1>4 DEF Reads

\* The length of a message that stands alone.
LEMMA LengthOfOne == ASSUME NEW m, m.len \in Int PROVE Length(<<m>>) = m.len
<1> DEFINE Fold(f) == [s \in SUBSET DOMAIN <<m>> |->
                         IF s = {} THEN 0
                         ELSE <<m>>[CHOOSE x \in s : TRUE].len + f[s \ {CHOOSE x \in s : TRUE}]]
           g == [s \in SUBSET {1} |-> IF s = {} THEN 0 ELSE m.len]
           fold == CHOOSE f : f = Fold(f)
<1>1. Length(<<m>>) = fold[DOMAIN <<m>>]
    BY Zenon DEF Length, FoldSeq, FoldFunction, FoldFunctionOnSet, MapThenFoldSet
<1>2. DOMAIN <<m>> = {1} /\ <<m>>[1] = m
    OBVIOUS
<1>3. (CHOOSE x \in {1} : TRUE) = 1 /\ {1} \ {1} = {}
    OBVIOUS
<1>4. g = Fold(g)
  <2>1. SUBSET {1} = {{}, {1}}
      OBVIOUS
  <2>2. Fold(g)[{}] = 0 /\ g[{}] = 0
      BY <1>2
  <2>3. Fold(g)[{1}] = m.len + g[{}]
      BY <1>2, <1>3, {1} # {}
  <2>4. Fold(g)[{1}] = m.len /\ g[{1}] = m.len
      BY <2>2, <2>3
  <2>5. \A s \in SUBSET {1} : Fold(g)[s] = g[s]
      BY <2>1, <2>2, <2>4
  <2> QED
      BY <1>2, <2>5
<1>5. fold = Fold(fold)
    BY <1>4, Zenon
<1>6. fold[{1}] = m.len
  <2> HIDE DEF fold
  <2>1. {} \in SUBSET DOMAIN <<m>> /\ {1} \in SUBSET DOMAIN <<m>> /\ {1} # {}
      BY <1>2
  <2>2. fold[{}] = 0
      BY <1>5, <2>1
  <2>3. fold[{1}] = <<m>>[1].len + fold[{}]
      BY <1>3, <1>5, <2>1
  <2> QED
      BY <1>2, <2>2, <2>3
<1> QED
    BY <1>1, <1>2, <1>6

-----------------------------------------------------------------------------
(* The cards *)

\* Four cards are dealt from a deck that is whole.
LEMMA DealtDeck ==
    ASSUME NEW c \in [1..4 -> Ranks], NEW r
    PROVE  Cardinality({n \in 1..4 : c[n] = r}) \in 0..4
<1>1. IsFiniteSet(1..4) /\ Cardinality(1..4) = 4
  <2>1. 1 \in Int /\ 4 \in Int /\ ~(1 > 4) /\ 4 - 1 + 1 = 4
      OBVIOUS
  <2>2. IsFiniteSet(1..4) /\ Cardinality(1..4) = IF 1 > 4 THEN 0 ELSE 4 - 1 + 1
      BY <2>1, FS_Interval
  <2> QED
      BY <2>1, <2>2
<1>2. {n \in 1..4 : c[n] = r} \in SUBSET (1..4)
    OBVIOUS
<1>3. IsFiniteSet({n \in 1..4 : c[n] = r}) /\ Cardinality({n \in 1..4 : c[n] = r}) <= 4
    BY <1>1, <1>2, FS_Subset
<1> QED
    BY <1>3, FS_CardinalityType

-----------------------------------------------------------------------------
(* What each step of the server sends. *)

Kinds == {"cards", "hit", "dealer", "draw", "END"} \cup Results

LEMMA Made ==
    ASSUME NEW kind \in Kinds, NEW score \in Nat, NEW len \in Nat
    PROVE  /\ Message(kind, score, len) \in Messages
           /\ Message(kind, score, len).kind = kind
           /\ Message(kind, score, len).score = score
           /\ Message(kind, score, len).len = len
BY DEF Message, Messages, Kinds

LEMMA ScoreRange == \A r \in Ranks : Score(r) \in 1..10
BY RanksAssumption DEF Score

LEMMA DigitsRange == \A n : Digits(n) \in 1..2
BY DEF Digits

\* m has been appended to what is on its way.
Sent(m, next) ==
    /\ Len(toClient') = Len(toClient) + 1
    /\ \A k \in 1..Len(toClient) : toClient'[k] = toClient[k]
    /\ toClient'[Len(toClient) + 1] = m
    /\ srv' = next

\* While the client lives a message is sent; after that nothing is.
LEMMA SentOrNot ==
    ASSUME TypeOK, ConnInv, srv # "served", NEW m \in Messages, NEW next, NEW onError,
           Write(m, next, onError)
    PROVE  /\ UNCHANGED <<cli, client, exits>>
           /\ toClient' \in Seq(Messages)
           /\ cli # "done" => Sent(m, next) /\ conn' = "open"
           /\ cli = "done" => /\ toClient' = <<>> /\ conn' = "broken"
                              /\ srv' \in {next, onError, "killed"}
           /\ conn = "closed" => srv' = next
           /\ conn = "reset" => srv' = onError
<1>1. toClient \in Seq(Messages) /\ conn \in {"open", "closed", "reset", "broken"}
    BY DEF TypeOK
<1>2. cli # "done" => conn = "open"
    BY DEF ConnInv
<1>3. cli = "done" => conn # "open" /\ toClient = <<>>
    BY DEF ConnInv
<1>4. UNCHANGED <<cli, client, exits>>
    BY DEF Write
<1> QED
    BY <1>1, <1>2, <1>3, <1>4, WriteFacts DEF Sent

LEMMA DealFacts ==
    ASSUME TypeOK, TurnInv, SDeal
    PROVE  /\ srv = "deal" /\ deck' \in [Ranks -> 0..4] /\ hand' \in Ranks \X Ranks
           /\ player' \in 2..20 /\ dealer' \in 2..20 /\ first' \in Nat
           /\ toServer' = toServer
           /\ Message("cards", player', first') \in Messages
           /\ Write(Message("cards", player', first'), "read", "exited")
<1>1. PICK c \in [1..4 -> Ranks] :
         /\ deck' = [r \in Ranks |-> deck[r] - Cardinality({n \in 1..4 : c[n] = r})]
         /\ player' = Score(c[1]) + Score(c[2])
         /\ dealer' = Score(c[3]) + Score(c[4])
         /\ hand' = <<c[3], c[4]>>
         /\ first' = Digits(c[1]) + Digits(c[2]) + Digits(player') + Digits(c[3]) + 3
    BY DEF SDeal
<1>2. /\ srv = "deal" /\ toServer' = toServer
      /\ Write(Message("cards", player', first'), "read", "exited")
    BY DEF SDeal
<1>3. deck' \in [Ranks -> 0..4]
  <2>1. \A r \in Ranks : deck[r] = 4
      BY <1>2 DEF TurnInv
  <2>2. ASSUME NEW r \in Ranks
        PROVE  deck[r] - Cardinality({n \in 1..4 : c[n] = r}) \in 0..4
    <3> DEFINE dealt == Cardinality({n \in 1..4 : c[n] = r})
    <3>1. dealt \in 0..4 /\ deck[r] = 4
        BY <2>1, DealtDeck
    <3> HIDE DEF dealt
    <3>2. deck[r] - dealt \in 0..4
        BY <3>1
    <3> QED
        BY <3>2 DEF dealt
  <2> QED
      BY <1>1, <2>2
<1>4. c[1] \in Ranks /\ c[2] \in Ranks /\ c[3] \in Ranks /\ c[4] \in Ranks
    OBVIOUS
<1>5. player' \in 2..20 /\ dealer' \in 2..20
  <2> DEFINE s(n) == Score(c[n])
  <2>1. player' = s(1) + s(2) /\ dealer' = s(3) + s(4)
      BY <1>1, Zenon
  <2>2. s(1) \in 1..10 /\ s(2) \in 1..10 /\ s(3) \in 1..10 /\ s(4) \in 1..10
      BY <1>4, ScoreRange
  <2> HIDE DEF s
  <2> QED
      BY <2>1, <2>2
<1>6. first' \in Nat
  <2> DEFINE d(x) == Digits(x)
  <2>1. first' = d(c[1]) + d(c[2]) + d(player') + d(c[3]) + 3
      BY <1>1, Zenon
  <2>2. d(c[1]) \in 1..2 /\ d(c[2]) \in 1..2 /\ d(player') \in 1..2 /\ d(c[3]) \in 1..2
      BY DigitsRange
  <2> HIDE DEF d
  <2> QED
      BY <2>1, <2>2
<1>7. hand' \in Ranks \X Ranks
    BY <1>1, <1>4
<1>8. Message("cards", player', first') \in Messages
  <2>1. "cards" \in Kinds /\ player' \in Nat
      BY <1>5 DEF Kinds
  <2> QED
      BY <1>6, <2>1, Made
<1> QED
    BY <1>2, <1>3, <1>5, <1>6, <1>7, <1>8

\* The message of a step, and the write of it.
Shown(kind, score, len, next, onError) ==
    /\ Message(kind, score, len) \in Messages
    /\ Message(kind, score, len).kind = kind /\ Message(kind, score, len).score = score
    /\ Message(kind, score, len).len = len
    /\ Write(Message(kind, score, len), next, onError)

LEMMA HitFacts ==
    ASSUME TypeOK, SHit
    PROVE  /\ srv = "hit" /\ deck' \in [Ranks -> 0..4]
           /\ player' \in Nat /\ player' > player
           /\ UNCHANGED <<dealer, hand, first, toServer>>
           /\ \E len \in 0..8, next \in {"end", "read"} :
                /\ next = IF player' > Limit THEN "end" ELSE "read"
                /\ Shown("hit", player', len, next, next)
<1> DEFINE next == IF player' > Limit THEN "end" ELSE "read"
<1>1. PICK r \in Ranks :
         /\ Draw(r) /\ player' = player + Score(r)
         /\ Write(Message("hit", player', Digits(r) + Digits(player') + 1), next, next)
    BY DEF SHit
<1>2. srv = "hit" /\ UNCHANGED <<dealer, hand, first, toServer>>
    BY DEF SHit
<1>3. deck' \in [Ranks -> 0..4]
  <2>1. deck \in [Ranks -> 0..4] /\ deck[r] > 0 /\ deck' = [deck EXCEPT ![r] = deck[r] - 1]
      BY <1>1 DEF Draw, TypeOK
  <2> QED
      BY <2>1
<1>4. player' \in Nat /\ player' > player
  <2>1. player \in Nat /\ player' = player + Score(r) /\ Score(r) \in 1..10
      BY <1>1, ScoreRange DEF TypeOK
  <2> QED
      BY <2>1
<1> DEFINE len == Digits(r) + Digits(player') + 1
<1>5. len \in 0..8
  <2>1. Digits(r) \in 1..2 /\ Digits(player') \in 1..2
      BY DigitsRange
  <2> QED
      BY <2>1
<1>6. Write(Message("hit", player', len), next, next)
    BY <1>1, Zenon
<1>7. next \in {"end", "read"}
    OBVIOUS
<1> HIDE DEF len
<1>8. "hit" \in Kinds /\ len \in Nat
    BY <1>5 DEF Kinds
<1>9. Shown("hit", player', len, next, next)
    BY <1>4, <1>6, <1>8, Made DEF Shown
<1> QED
    BY <1>2, <1>3, <1>4, <1>5, <1>7, <1>9

LEMMA StandFacts ==
    ASSUME TypeOK, SStand
    PROVE  /\ srv = "stand" /\ UNCHANGED <<cards, toServer>>
           /\ \E len \in 0..8 : Shown("dealer", dealer, len, "draws", "exited")
<1> DEFINE len == Digits(hand[1]) + Digits(hand[2]) + Digits(dealer) + 2
<1>1. srv = "stand" /\ UNCHANGED <<cards, toServer>>
    BY DEF SStand
<1>2. Write(Message("dealer", dealer, len), "draws", "exited")
    BY DEF SStand
<1>3. len \in 0..8
  <2>1. Digits(hand[1]) \in 1..2 /\ Digits(hand[2]) \in 1..2 /\ Digits(dealer) \in 1..2
      BY DigitsRange
  <2> QED
      BY <2>1
<1> HIDE DEF len
<1>4. "dealer" \in Kinds /\ dealer \in Nat /\ len \in Nat
    BY <1>3 DEF Kinds, TypeOK
<1>5. Shown("dealer", dealer, len, "draws", "exited")
    BY <1>2, <1>4, Made DEF Shown
<1> QED
    BY <1>1, <1>3, <1>5

LEMMA DrawFacts ==
    ASSUME TypeOK, SDraw
    PROVE  /\ srv = "draws" /\ deck' \in [Ranks -> 0..4]
           /\ dealer' \in Nat
           /\ UNCHANGED <<player, hand, first, toServer>>
           /\ \E len \in 0..8 : Shown("draw", dealer', len, "draws", "exited")
<1>1. PICK r \in Ranks :
         /\ Draw(r) /\ dealer' = dealer + Score(r)
         /\ Write(Message("draw", dealer', Digits(r) + Digits(dealer') + 1), "draws", "exited")
    BY DEF SDraw
<1>2. srv = "draws" /\ UNCHANGED <<player, hand, first, toServer>>
    BY DEF SDraw
<1>3. deck' \in [Ranks -> 0..4]
  <2>1. deck \in [Ranks -> 0..4] /\ deck[r] > 0 /\ deck' = [deck EXCEPT ![r] = deck[r] - 1]
      BY <1>1 DEF Draw, TypeOK
  <2> QED
      BY <2>1
<1>4. dealer' \in Nat
  <2>1. dealer \in Nat /\ dealer' = dealer + Score(r) /\ Score(r) \in 1..10
      BY <1>1, ScoreRange DEF TypeOK
  <2> QED
      BY <2>1
<1> DEFINE len == Digits(r) + Digits(dealer') + 1
<1>5. len \in 0..8
  <2>1. Digits(r) \in 1..2 /\ Digits(dealer') \in 1..2
      BY DigitsRange
  <2> QED
      BY <2>1
<1>6. Write(Message("draw", dealer', len), "draws", "exited")
    BY <1>1, Zenon
<1> HIDE DEF len
<1>8. "draw" \in Kinds /\ len \in Nat
    BY <1>5 DEF Kinds
<1>9. Shown("draw", dealer', len, "draws", "exited")
    BY <1>4, <1>6, <1>8, Made DEF Shown
<1> QED
    BY <1>2, <1>3, <1>4, <1>5, <1>9

LEMMA EndFacts ==
    ASSUME SEnd
    PROVE  srv = "end" /\ UNCHANGED <<cards, toServer>> /\ Shown("END", 0, 3, "result", "result")
<1>1. "END" \in Kinds
    BY DEF Kinds
<1> QED
    BY <1>1, Made DEF Shown, SEnd

\* The final message, once the dealer has stopped, ends where recvline is watched.
LEMMA FinalFacts ==
    ASSUME TypeOK
    PROVE  /\ Outcome \in Results /\ Final \in Messages /\ Final.kind = Outcome
           /\ dealer >= 17 => Final.len \in Ends
<1>1. player \in Nat /\ dealer \in Nat
    BY DEF TypeOK
<1>2. Outcome \in Results
    BY DEF Outcome, Results
<1> DEFINE len == Digits(player) + Digits(dealer) + 2 + IF Outcome = "LOSE" THEN 4 ELSE 3
<1>3. len \in Nat /\ (dealer >= 17 => len \in 8..10)
  <2>1. Digits(player) \in 1..2 /\ Digits(dealer) \in 1..2 /\ (dealer >= 17 => Digits(dealer) = 2)
      BY <1>1 DEF Digits
  <2> QED
      BY <2>1
<1>4. Final = Message(Outcome, dealer, len)
    BY Zenon DEF Final
<1> HIDE DEF len
<1>5. Outcome \in Kinds
    BY <1>2 DEF Kinds
<1> QED
    BY <1>1, <1>2, <1>3, <1>4, <1>5, Made DEF Ends

LEMMA ResultFacts ==
    ASSUME TypeOK, SResult
    PROVE  /\ srv = "result" /\ UNCHANGED <<cards, toServer>>
           /\ Final \in Messages /\ Write(Final, "close", "close")
BY FinalFacts DEF SResult

-----------------------------------------------------------------------------
(* Type correctness *)

LEMMA ReadType ==
    ASSUME TypeOK, NEW terminated, Read(terminated)
    PROVE  /\ text' \in Seq(Messages) /\ text' # <<>> /\ toClient' \in Seq(Messages)
           /\ Parsed(text') \in Nat \cup {Garbled}
           /\ tail' \in [Ends -> {"junk", "char", "nul"}]
<1>1. toClient \in Seq(Messages)
    BY DEF TypeOK
<1>2. PICK n \in 1..Len(toClient) : Reads(n, terminated)
    BY <1>1, ReadFacts
<1>3. text'[1] \in Messages /\ text' # <<>>
    BY <1>1, <1>2 DEF Reads
<1>4. Parsed(text') \in Nat \cup {Garbled}
    BY <1>3 DEF Parsed, Messages
<1>5. tail' \in [Ends -> {"junk", "char", "nul"}]
    BY <1>2 DEF TypeOK, Reads
<1> QED
    BY <1>2, <1>3, <1>4, <1>5 DEF Reads

Servers == {"accept", "deal", "read", "hit", "stand", "draws", "end", "result", "close",
            "served", "exited", "killed"}
Clients == {"connect", "cards", "fgets", "hit", "stand", "draws", "final", "close", "done"}

\* The server changes nothing of the client's.
LEMMA ServerKeeps == Server => UNCHANGED <<cli, client, exits>>
BY DEF Server, SAccept, SDeal, SRead, SReadEnd, SHit, SStand, SDraw, SStop, SEnd, SResult,
   SClose, Write

\* A step of the client that reads.
LEMMA ClientReads ==
    ASSUME TypeOK, CCards \/ CHit \/ CStand \/ CDraws
    PROVE  /\ \E n \in 1..Len(toClient) : Reads(n, TRUE)
           /\ UNCHANGED <<srv, cards, toServer, conn, announced, exits>>
BY ReadFacts DEF TypeOK, CCards, CHit, CStand, CDraws

LEMMA ReadFlag == ASSUME NEW terminated, Read(terminated) PROVE joined' \in BOOLEAN
<1>1. PICK n \in 1..Len(toClient) : joined' = (joined \/ n > 1)
    BY DEF Read
<1> QED
    BY <1>1, Zenon

LEMMA FlagsStep ==
    ASSUME TypeOK, [Next]_vars
    PROVE  joined' \in BOOLEAN /\ left' \in BOOLEAN /\ leftEarly' \in BOOLEAN
<1>0. joined \in BOOLEAN /\ left \in BOOLEAN /\ leftEarly \in BOOLEAN
    BY Zenon DEF TypeOK
<1>1. CASE Server \/ UNCHANGED vars
  <2>1. joined' = joined /\ left' = left /\ leftEarly' = leftEarly
      BY <1>1, ServerKeeps DEF vars, client, exits
  <2> QED
      BY <1>0, <2>1, Zenon
<1>2. CASE CConnect \/ CDrawsEof \/ \E choice \in {"h", "s"} : CChoose(choice)
  <2>1. joined' = joined /\ left' = left /\ leftEarly' = leftEarly
      BY <1>2 DEF CConnect, CDrawsEof, CChoose, client, exits
  <2> QED
      BY <1>0, <2>1, Zenon
<1>3. CASE CCards \/ CHit \/ CStand \/ CDraws
  <2>1. Read(TRUE) /\ left' = left /\ leftEarly' = leftEarly
      BY <1>3 DEF CCards, CHit, CStand, CDraws, exits
  <2>2. joined' \in BOOLEAN
      BY <2>1, ReadFlag
  <2> QED
      BY <1>0, <2>1, <2>2, Zenon
<1>4. CASE CFinal
  <2>1. left' = left /\ leftEarly' = leftEarly /\ (Read(FALSE) \/ joined' = joined)
      BY <1>4 DEF CFinal, exits
  <2>2. joined' \in BOOLEAN
      BY <1>0, <2>1, ReadFlag, Zenon
  <2> QED
      BY <1>0, <2>1, <2>2, Zenon
<1>5. CASE CClose \/ CLeave
  <2>1. joined' = joined /\ (left' = left \/ left' = TRUE)
      BY <1>5 DEF CClose, CLeave, Close, client
  <2>2. leftEarly' = (srv \notin {"result", "close", "served"})
      BY <1>5, Zenon DEF CClose, CLeave, Close
  <2> QED
      BY <1>0, <2>1, <2>2, Zenon
<1> QED
    BY <1>1, <1>2, <1>3, <1>4, <1>5 DEF Next, Client, Player

\* What the client understands is the result it was sent, or nothing.
LEMMA UnderstoodFacts ==
    ASSUME NEW messages, NEW bytes \in [Ends -> {"junk", "char", "nul"}],
           Len(messages) = 1 /\ messages[1].kind \in Results => messages[1].len \in Ends
    PROVE  /\ \A u \in Understood(messages, bytes) :
                u = "nothing" \/ (u = messages[1].kind /\ u \in Results /\ Len(messages) = 1)
           /\ Len(messages) = 1 /\ messages[1].kind \in Results
                /\ bytes[messages[1].len] = "nul"
              => Understood(messages, bytes) = {messages[1].kind}
<1>1. CASE Len(messages) = 1 /\ messages[1].kind \in Results
  <2> DEFINE b == bytes[messages[1].len]
             U == CASE b = "nul" -> {messages[1].kind}
                    [] b = "char" -> {"nothing"}
                    [] b = "junk" -> {messages[1].kind, "nothing"}
  <2>1. Understood(messages, bytes) = U
      BY <1>1, Zenon DEF Understood
  <2>2. b \in {"junk", "char", "nul"}
      BY <1>1
  <2> HIDE DEF b
  <2>3. CASE b = "nul"
    <3>1. U = {messages[1].kind}
        BY <2>3
    <3> HIDE DEF U
    <3> QED
        BY <1>1, <2>1, <3>1
  <2>4. CASE b = "char"
    <3>1. U = {"nothing"}
        BY <2>4
    <3> HIDE DEF U
    <3> QED
        BY <1>1, <2>1, <3>1, <2>4 DEF b
  <2>5. CASE b = "junk"
    <3>1. U = {messages[1].kind, "nothing"}
        BY <2>5
    <3> HIDE DEF U
    <3> QED
        BY <1>1, <2>1, <3>1, <2>5 DEF b
  <2> QED
      BY <2>2, <2>3, <2>4, <2>5
<1>2. CASE ~(Len(messages) = 1 /\ messages[1].kind \in Results)
    BY <1>2 DEF Understood
<1> QED
    BY <1>1, <1>2

\* The last read of the client: what it announces is the result of the game.
LEMMA FinalRead ==
    ASSUME TypeOK, TurnInv, DealerInv, ResultInv, CFinal
    PROVE  /\ text' \in Seq(Messages) /\ toClient' \in Seq(Messages)
           /\ tail' \in [Ends -> {"junk", "char", "nul"}]
           /\ announced' # "nothing" =>
                 announced' = Outcome /\ srv \in {"close", "served"}
           /\ Len(text') = 1 /\ text'[1] = Final /\ tail'[Final.len] = "nul" =>
                 announced' = Outcome
           /\ srv \in {"close", "served"} => Final.len \in Ends
<1>1. cli = "final" /\ announced' \in Understood(text', tail')
      /\ (Read(FALSE) \/ (AtEof /\ UNCHANGED <<toClient, text, tail, joined>>))
    BY DEF CFinal
<1>2. /\ text' \in Seq(Messages) /\ toClient' \in Seq(Messages)
      /\ tail' \in [Ends -> {"junk", "char", "nul"}]
    BY <1>1, ReadType DEF TypeOK
<1>3. srv \in {"close", "served"} => Final.len \in Ends
  <2>1. srv \in {"close", "served"} => dealer >= 17
      BY <1>1 DEF DealerInv, Standing, Over
  <2> QED
      BY <2>1, FinalFacts
<1>4. Len(text') = 1 /\ text'[1].kind \in Results =>
         srv \in {"close", "served"} /\ text'[1] = Final
  <2>1. CASE Read(FALSE)
    <3>1. PICK n \in 1..Len(toClient) : Reads(n, FALSE)
        BY <2>1, ReadFacts DEF TypeOK
    <3>2. text'[1] = toClient[1] /\ 1 \in DOMAIN toClient
        BY <3>1 DEF Reads, TypeOK
    <3> QED
        BY <3>2 DEF ResultInv
  <2>2. CASE AtEof /\ UNCHANGED <<toClient, text, tail, joined>>
    <3>1. Len(text') = 1 => 1 \in DOMAIN text
        BY <2>2 DEF TypeOK
    <3> QED
        BY <2>2, <3>1 DEF ResultInv
  <2> QED
      BY <1>1, <2>1, <2>2
<1>5. Final.kind = Outcome /\ Outcome \in Results
    BY FinalFacts
<1>6. Len(text') = 1 /\ text'[1].kind \in Results => text'[1].len \in Ends
    BY <1>3, <1>4
<1>7. /\ announced' = "nothing" \/ /\ announced' = text'[1].kind
                                   /\ announced' \in Results /\ Len(text') = 1
      /\ Len(text') = 1 /\ text'[1].kind \in Results /\ tail'[text'[1].len] = "nul" =>
            announced' \in {text'[1].kind}
    BY <1>1, <1>2, <1>6, UnderstoodFacts
<1> QED
    BY <1>2, <1>3, <1>4, <1>5, <1>7

GameType ==
    /\ srv \in Servers /\ deck \in [Ranks -> 0..4] /\ player \in Nat /\ dealer \in Nat
    /\ hand = <<>> \/ hand \in Ranks \X Ranks
    /\ first \in Nat

WireType ==
    /\ toServer \in {"none", "h", "s"} /\ toClient \in Seq(Messages)
    /\ conn \in {"open", "closed", "reset", "broken"}

ClientType ==
    /\ cli \in Clients
    /\ text \in Seq(Messages) /\ tail \in [Ends -> {"junk", "char", "nul"}]
    /\ view \in [player : Nat \cup {Garbled}, dealer : Nat \cup {Garbled}]
    /\ announced \in Results \cup {"nothing"}

LEMMA TypeParts ==
    TypeOK <=> /\ GameType /\ WireType /\ ClientType
               /\ joined \in BOOLEAN /\ left \in BOOLEAN /\ leftEarly \in BOOLEAN
BY Zenon DEF TypeOK, GameType, WireType, ClientType, Servers, Clients

LEMMA TypeStep ==
    ASSUME TypeOK, ConnInv, TurnInv, DealerInv, ResultInv, [Next]_vars
    PROVE  TypeOK'
<1>0. joined' \in BOOLEAN /\ left' \in BOOLEAN /\ leftEarly' \in BOOLEAN
    BY FlagsStep
<1>t. GameType /\ WireType /\ ClientType
    BY TypeParts
<1> SUFFICES GameType' /\ WireType' /\ ClientType'
    BY <1>0, Zenon DEF TypeOK, GameType, WireType, ClientType, Servers, Clients
<1>g. UNCHANGED <<srv, cards>> => GameType'
    BY <1>t DEF GameType, cards
<1>c. UNCHANGED <<cli, client>> => ClientType'
    BY <1>t DEF ClientType, client
<1>w. ASSUME NEW m \in Messages, NEW next \in Servers, NEW onError \in Servers,
             Write(m, next, onError), toServer' = toServer
      PROVE  srv' \in Servers /\ WireType' /\ ClientType'
  <2>1. UNCHANGED <<cli, client>>
      BY <1>w DEF Write
  <2>2. toClient' \in Seq(Messages)
      BY <1>t, <1>w, WriteFacts DEF WireType
  <2>3. srv' \in {next, onError, "killed"} /\ conn' \in {"open", "broken"}
      BY <1>t, <1>w DEF Write, WireType
  <2> QED
      BY <1>c, <1>t, <1>w, <2>1, <2>2, <2>3 DEF WireType, Servers
<1>1. CASE SAccept \/ SRead \/ SReadEnd \/ SStop \/ SClose
  <2>1. UNCHANGED <<cli, client>>
      BY <1>1, ServerKeeps DEF Server
  <2>2. UNCHANGED <<cards, toClient>> /\ srv' \in Servers
      BY <1>1 DEF SAccept, SRead, SReadEnd, SStop, SClose, Servers
  <2>3. toServer' \in {toServer, "none"} /\ conn' \in {conn, "broken"}
      BY <1>1 DEF SAccept, SRead, SReadEnd, SStop, SClose
  <2> QED
      BY <1>c, <1>t, <2>1, <2>2, <2>3 DEF GameType, WireType, cards
<1>2. CASE SDeal
  <2> DEFINE m == Message("cards", player', first')
  <2>1. /\ m \in Messages /\ Write(m, "read", "exited") /\ toServer' = toServer
        /\ deck' \in [Ranks -> 0..4] /\ hand' \in Ranks \X Ranks /\ first' \in Nat
        /\ player' \in 2..20 /\ dealer' \in 2..20
      BY <1>2, DealFacts
  <2>2. player' \in Nat /\ dealer' \in Nat
      BY <2>1
  <2> HIDE DEF m
  <2>3. srv' \in Servers /\ WireType' /\ ClientType'
      BY <1>w, <2>1 DEF Servers
  <2> QED
      BY <2>1, <2>2, <2>3 DEF GameType
<1>3. CASE SHit
  <2>1. PICK len \in 0..8, next \in {"end", "read"} : Shown("hit", player', len, next, next)
      BY <1>3, HitFacts
  <2>2. srv' \in Servers /\ WireType' /\ ClientType'
      BY <1>3, <1>w, <2>1, HitFacts DEF Shown, Servers
  <2> QED
      BY <1>3, <1>t, <2>2, HitFacts DEF GameType
<1>4. CASE SStand
  <2>1. PICK len \in 0..8 : Shown("dealer", dealer, len, "draws", "exited")
      BY <1>4, StandFacts
  <2>2. srv' \in Servers /\ WireType' /\ ClientType'
      BY <1>4, <1>w, <2>1, StandFacts DEF Shown, Servers
  <2> QED
      BY <1>4, <1>t, <2>2, StandFacts DEF GameType, cards
<1>5. CASE SDraw
  <2>1. PICK len \in 0..8 : Shown("draw", dealer', len, "draws", "exited")
      BY <1>5, DrawFacts
  <2>2. srv' \in Servers /\ WireType' /\ ClientType'
      BY <1>5, <1>w, <2>1, DrawFacts DEF Shown, Servers
  <2> QED
      BY <1>5, <1>t, <2>2, DrawFacts DEF GameType
<1>6. CASE SEnd
  <2>1. srv' \in Servers /\ WireType' /\ ClientType'
      BY <1>6, <1>w, EndFacts DEF Shown, Servers
  <2> QED
      BY <1>6, <1>t, <2>1, EndFacts DEF GameType, cards
<1>7. CASE SResult
  <2>1. srv' \in Servers /\ WireType' /\ ClientType'
      BY <1>7, <1>w, ResultFacts DEF Servers
  <2> QED
      BY <1>7, <1>t, <2>1, ResultFacts DEF GameType, cards
<1>8. CASE CCards \/ CHit \/ CStand \/ CDraws
  <2> DEFINE p == Parsed(text')
  <2>1. /\ text' \in Seq(Messages) /\ toClient' \in Seq(Messages)
        /\ p \in Nat \cup {Garbled} /\ tail' \in [Ends -> {"junk", "char", "nul"}]
      BY <1>8, ReadType DEF CCards, CHit, CStand, CDraws
  <2>2. /\ UNCHANGED <<srv, cards, toServer, conn, announced>>
        /\ cli' \in {"fgets", "close", "draws", "final"}
        /\ view' \in {view, [view EXCEPT !.player = p], [view EXCEPT !.dealer = p]}
    <3>1. UNCHANGED <<srv, cards, toServer, conn, announced>>
        BY <1>8, ClientReads DEF exits
    <3>2. CASE CCards  BY <3>1, <3>2, Zenon DEF CCards
    <3>3. CASE CHit  BY <3>1, <3>3, Zenon DEF CHit
    <3>4. CASE CStand  BY <3>1, <3>4, Zenon DEF CStand
    <3>5. CASE CDraws
      <4>1. cli' \in {"final", "draws"}
          BY <3>5 DEF CDraws
      <4>2. view' = view \/ view' = [view EXCEPT !.dealer = p]
          BY <3>5, Zenon DEF CDraws
      <4> QED
          BY <3>1, <4>1, <4>2, Zenon
    <3> QED
        BY <1>8, <3>2, <3>3, <3>4, <3>5
  <2> HIDE DEF p
  <2>3. view' \in [player : Nat \cup {Garbled}, dealer : Nat \cup {Garbled}]
      BY <1>t, <2>1, <2>2 DEF ClientType
  <2>4. ClientType'
      BY <1>t, <2>1, <2>2, <2>3 DEF ClientType, Clients
  <2> QED
      BY <1>g, <1>t, <2>1, <2>2, <2>4 DEF WireType
<1>9. CASE CFinal
  <2>1. announced' \in Results \cup {"nothing"}
      BY <1>9, FinalRead, FinalFacts
  <2>2. /\ text' \in Seq(Messages) /\ toClient' \in Seq(Messages)
        /\ tail' \in [Ends -> {"junk", "char", "nul"}]
      BY <1>9, FinalRead
  <2>3. UNCHANGED <<srv, cards, toServer, conn, view>> /\ cli' = "close"
      BY <1>9 DEF CFinal
  <2>4. ClientType'
      BY <1>t, <2>1, <2>2, <2>3 DEF ClientType, Clients
  <2> QED
      BY <1>g, <1>t, <2>2, <2>3, <2>4 DEF WireType
<1>10. CASE CConnect \/ CDrawsEof \/ (\E choice \in {"h", "s"} : CChoose(choice))
  <2>1. /\ UNCHANGED <<srv, cards, toClient, conn, client>>
        /\ toServer' \in {toServer, "h", "s"} /\ cli' \in Clients
      BY <1>10 DEF CConnect, CDrawsEof, CChoose, Clients
  <2> QED
      BY <1>g, <1>t, <2>1 DEF WireType, ClientType, client
<1>11. CASE CClose \/ CLeave
  <2>1. /\ UNCHANGED <<srv, cards, toServer, client>> /\ cli' \in Clients
        /\ toClient' = <<>> /\ conn' \in {conn, "reset", "closed"}
      BY <1>11 DEF CClose, CLeave, Close, Clients
  <2>2. toClient' \in Seq(Messages)
      BY <2>1, EmptySeq
  <2> QED
      BY <1>g, <1>t, <2>1, <2>2 DEF WireType, ClientType, client
<1>12. CASE UNCHANGED vars
    BY <1>12, <1>c, <1>g, <1>t DEF vars, WireType
<1> QED
    BY <1>1, <1>2, <1>3, <1>4, <1>5, <1>6, <1>7, <1>8, <1>9, <1>10, <1>11, <1>12
       DEF Next, Server, Client, Player

-----------------------------------------------------------------------------
(* The connection *)

LEMMA ConnStep == ASSUME TypeOK, ConnInv, TurnInv, [Next]_vars PROVE ConnInv'
<1>1. CASE SAccept \/ SRead \/ SStop
    BY <1>1 DEF ConnInv, SAccept, SRead, SStop, client, exits, cards
<1>2. CASE SDeal
  <2>1. srv = "deal" /\ Message("cards", player', first') \in Messages
        /\ Write(Message("cards", player', first'), "read", "exited")
      BY <1>2, DealFacts
  <2>2. UNCHANGED <<cli, client, exits>>
      BY <2>1, SentOrNot
  <2> QED
      BY <2>1, <2>2, SentOrNot DEF ConnInv, Sent, exits
<1>3. CASE SReadEnd  BY <1>3 DEF SReadEnd, ConnInv, exits
<1>4. CASE SHit
  <2>1. PICK len \in 0..8, next \in {"end", "read"} : Shown("hit", player', len, next, next)
      BY <1>4, HitFacts
  <2>2. srv = "hit"
      BY <1>4, HitFacts
  <2> QED
      BY <2>1, <2>2, SentOrNot DEF ConnInv, Sent, exits, Shown
<1>5. CASE SStand
  <2>1. PICK len \in 0..8 : Shown("dealer", dealer, len, "draws", "exited")
      BY <1>5, StandFacts
  <2>2. srv = "stand"
      BY <1>5, StandFacts
  <2> QED
      BY <2>1, <2>2, SentOrNot DEF ConnInv, Sent, exits, Shown
<1>6. CASE SDraw
  <2>1. PICK len \in 0..8 : Shown("draw", dealer', len, "draws", "exited")
      BY <1>6, DrawFacts
  <2>2. srv = "draws"
      BY <1>6, DrawFacts
  <2> QED
      BY <2>1, <2>2, SentOrNot DEF ConnInv, Sent, exits, Shown
<1>7. CASE SEnd
  <2>1. srv = "end" /\ Shown("END", 0, 3, "result", "result")
      BY <1>7, EndFacts
  <2> QED
      BY <2>1, SentOrNot DEF ConnInv, Sent, exits, Shown
<1>8. CASE SResult
  <2>1. srv = "result" /\ Final \in Messages /\ Write(Final, "close", "close")
      BY <1>8, ResultFacts
  <2> QED
      BY <2>1, SentOrNot DEF ConnInv, Sent, exits
<1>9. CASE SClose  BY <1>9 DEF SClose, ConnInv, exits
<1>10. CASE CConnect \/ CDrawsEof \/ CCards \/ CHit \/ CStand \/ CDraws \/ CFinal
  <2>1. cli # "done" /\ cli' # "done" /\ UNCHANGED <<srv, conn, leftEarly>>
      BY <1>10 DEF CConnect, CDrawsEof, CCards, CHit, CStand, CDraws, CFinal, exits
  <2> QED
      BY <2>1 DEF ConnInv
<1>11. CASE CClose \/ CLeave
  <2>1. /\ cli # "done" /\ cli' = "done" /\ toClient' = <<>> /\ srv' = srv
        /\ leftEarly' = (srv \notin {"result", "close", "served"})
        /\ srv # "served" => conn' \in {"reset", "closed"}
      BY <1>11 DEF CClose, CLeave, Close
  <2>2. srv \notin {"killed", "exited"}
      BY <2>1 DEF ConnInv
  <2> QED
      BY <2>1, <2>2 DEF ConnInv
<1>12. CASE \E choice \in {"h", "s"} : CChoose(choice)
  <2>1. cli # "done" /\ cli' # "done" /\ UNCHANGED <<srv, conn, leftEarly>>
      BY <1>12 DEF CChoose, exits
  <2> QED
      BY <2>1 DEF ConnInv
<1>13. CASE UNCHANGED vars  BY <1>13 DEF vars, cards, client, exits, ConnInv
<1> QED
    BY <1>1, <1>2, <1>3, <1>4, <1>5, <1>6, <1>7, <1>8, <1>9, <1>10, <1>11, <1>12, <1>13
       DEF Next, Server, Client, Player

-----------------------------------------------------------------------------
(* The course of the game *)

\* What the player sees of a hit is the score, whether END came with it or not.
LEMMA HitRead ==
    ASSUME TypeOK, TurnInv, CHit
    PROVE  /\ cli = "hit" /\ UNCHANGED <<srv, cards, toServer, conn, announced, exits>>
           /\ \E n \in 1..Len(toClient) : Reads(n, TRUE)
           /\ view' = [view EXCEPT !.player = player]
           /\ \/ cli' = "close" /\ player > Limit
              \/ cli' = "fgets" /\ player <= Limit /\ srv = "read" /\ toServer = "none"
                 /\ Len(toClient) = 1
<1>1. /\ cli = "hit" /\ Read(TRUE) /\ view' = [view EXCEPT !.player = Parsed(text')]
      /\ cli' = IF view'.player > Limit THEN "close" ELSE "fgets"
      /\ UNCHANGED <<srv, cards, toServer, conn, announced, exits>>
    BY DEF CHit
<1>2. PICK n \in 1..Len(toClient) : Reads(n, TRUE)
    BY <1>1, ReadFacts DEF TypeOK
<1>3. /\ toClient # <<>> /\ toClient[1].kind = "hit" /\ toClient[1].score = player
      /\ Len(toClient) >= 2 => toClient[2].kind = "END"
      /\ player <= Limit => srv = "read" /\ toServer = "none" /\ Len(toClient) = 1
  <2>1. Len(toClient) >= 1 /\ player \in Nat
      BY <1>2 DEF TypeOK
  <2>2. toClient # <<>>
      BY <2>1
  <2> QED
      BY <1>1, <2>1, <2>2 DEF TurnInv, Quiet, Alone, Limit
<1>4. Parsed(text') = player
  <2>1. text'[1].kind = "hit" /\ text'[1].score = player
      BY <1>2, <1>3 DEF Reads
  <2>2. Len(text') > 1 => text'[2].kind = "END"
      BY <1>2, <1>3 DEF Reads, TypeOK
  <2> QED
      BY <2>1, <2>2 DEF Parsed
<1>5. view' = [view EXCEPT !.player = player] /\ view'.player = player
    BY <1>1, <1>4 DEF TypeOK
<1>6. \/ cli' = "close" /\ player > Limit
      \/ cli' = "fgets" /\ player <= Limit
  <2>1. cli' = IF player > Limit THEN "close" ELSE "fgets"
      BY <1>1, <1>5, Zenon
  <2> QED
      BY <2>1 DEF TypeOK, Limit
<1> QED
    BY <1>1, <1>2, <1>3, <1>5, <1>6, Zenon

LEMMA TurnStep == ASSUME TypeOK, ConnInv, TurnInv, [Next]_vars PROVE TurnInv'
<1>t. player \in Nat /\ toClient \in Seq(Messages)
    BY DEF TypeOK
<1>1. CASE SAccept  BY <1>1 DEF SAccept, TurnInv, Quiet, Alone, Over, cards
<1>2. CASE SDeal
  <2> DEFINE m == Message("cards", player', first')
  <2>1. /\ srv = "deal" /\ player' \in 2..20 /\ first' \in Nat /\ toServer' = toServer
        /\ m \in Messages /\ Write(m, "read", "exited")
      BY <1>2, DealFacts
  <2>2. m.kind = "cards" /\ m.score = player' /\ m.len = first'
      BY <2>1 DEF Message
  <2> HIDE DEF m
  <2>3. /\ cli' = cli /\ (cli # "done" => Sent(m, "read"))
        /\ cli = "done" => srv' \in {"read", "exited", "killed"}
      BY <2>1, SentOrNot
  <2>4. cli \in {"cards", "close", "done"} \/ cli \notin Clients
      BY <2>1 DEF TurnInv, Over, Clients
  <2>5. cli \in Clients
      BY DEF TypeOK, Clients
  <2>6. cli = "cards" => Quiet
      BY <2>1 DEF TurnInv
  <2>7. cli = "cards" => /\ Len(toClient') = 1 /\ toClient'[1] = m
                         /\ srv' = "read" /\ toServer' = "none"
      BY <2>1, <2>3, <2>6 DEF Sent, Quiet
  <2> QED
      BY <2>1, <2>2, <2>3, <2>4, <2>5, <2>7 DEF TurnInv, Alone, Limit, Sent
<1>3. CASE SRead  BY <1>3 DEF SRead, TurnInv, Quiet, Alone, Over, cards
<1>4. CASE SReadEnd
  <2>1. cli = "done" /\ cli' = "done" /\ srv = "read" /\ srv' = "end" /\ player' = player
      BY <1>4 DEF SReadEnd, ConnInv, cards
  <2> QED
      BY <2>1 DEF TurnInv
<1>5. CASE SHit
  <2>1. PICK len \in 0..8, next \in {"end", "read"} :
            /\ next = IF player' > Limit THEN "end" ELSE "read"
            /\ Shown("hit", player', len, next, next)
      BY <1>5, HitFacts
  <2>2. srv = "hit" /\ player' \in Nat /\ player' > player /\ toServer' = toServer
      BY <1>5, HitFacts
  <2> DEFINE m == Message("hit", player', len)
  <2>3. m.kind = "hit" /\ m.score = player' /\ m \in Messages /\ Write(m, next, next)
      BY <2>1 DEF Shown
  <2> HIDE DEF m
  <2>4. /\ cli' = cli /\ (cli # "done" => Sent(m, next))
        /\ cli = "done" => srv' \in {next, "killed"}
      BY <2>2, <2>3, SentOrNot
  <2>5. cli \in {"hit", "close", "done"}
      BY <2>2 DEF TurnInv, Over, TypeOK
  <2>6. cli = "hit" => /\ Len(toClient') = 1 /\ toClient'[1] = m
                       /\ srv' = next /\ toServer' = "none"
      BY <2>2, <2>4 DEF Sent, Quiet, TurnInv
  <2>7. srv' \notin {"accept", "deal"} /\ player' >= 1
      BY <1>t, <2>1, <2>2, <2>4 DEF Sent, TurnInv
  <2> QED
      BY <2>1, <2>2, <2>3, <2>4, <2>5, <2>6, <2>7 DEF TurnInv, Alone, Limit
<1>6. CASE SStand
  <2>1. PICK len \in 0..8 : Shown("dealer", dealer, len, "draws", "exited")
      BY <1>6, StandFacts
  <2>2. srv = "stand" /\ UNCHANGED <<cards, toServer>>
      BY <1>6, StandFacts
  <2> DEFINE m == Message("dealer", dealer, len)
  <2>3. m.kind = "dealer" /\ m \in Messages /\ Write(m, "draws", "exited")
      BY <2>1 DEF Shown
  <2> HIDE DEF m
  <2>4. /\ cli' = cli /\ (cli # "done" => Sent(m, "draws"))
        /\ cli = "done" => srv' \in {"draws", "exited", "killed"}
      BY <2>2, <2>3, SentOrNot
  <2>5. cli \in {"stand", "close", "done"}
      BY <2>2 DEF TurnInv, Over, TypeOK
  <2>6. cli = "stand" => /\ Len(toClient') = 1 /\ toClient'[1] = m
                         /\ srv' = "draws" /\ toServer' = "none"
      BY <2>2, <2>4 DEF Sent, Quiet, TurnInv, Over
  <2>7. srv' \notin {"accept", "deal"}
      BY <2>4 DEF Sent
  <2> QED
      BY <1>t, <2>2, <2>3, <2>4, <2>5, <2>6, <2>7 DEF TurnInv, Card, cards
<1>7. CASE SDraw
  <2>1. PICK len \in 0..8 : Shown("draw", dealer', len, "draws", "exited")
      BY <1>7, DrawFacts
  <2>2. srv = "draws" /\ UNCHANGED <<player, hand, first, toServer>>
      BY <1>7, DrawFacts
  <2> DEFINE m == Message("draw", dealer', len)
  <2>3. m.kind = "draw" /\ m \in Messages /\ Write(m, "draws", "exited")
      BY <2>1 DEF Shown
  <2> HIDE DEF m
  <2>4. /\ cli' = cli /\ (cli # "done" => Sent(m, "draws"))
        /\ cli = "done" => srv' \in {"draws", "exited", "killed"}
      BY <2>2, <2>3, SentOrNot
  <2>5. cli \in {"stand", "draws", "final", "close", "done"}
      BY <2>2 DEF TurnInv, Over, TypeOK
  <2>6. cli = "stand" => toClient' # <<>> /\ Card(toClient'[1])
      BY <1>t, <2>2, <2>4 DEF Sent, TurnInv
  <2>7. srv' \notin {"accept", "deal"} /\ (cli # "done" => srv' = "draws")
      BY <2>4 DEF Sent
  <2> QED
      BY <1>t, <2>2, <2>4, <2>5, <2>6, <2>7 DEF TurnInv
<1>8. CASE SStop  BY <1>8 DEF SStop, TurnInv, Quiet, Alone, Over, cards
<1>9. CASE SEnd
  <2> DEFINE m == Message("END", 0, 3)
  <2>1. srv = "end" /\ UNCHANGED <<cards, toServer>> /\ m.kind = "END" /\ m \in Messages
        /\ Write(m, "result", "result")
      BY <1>9, EndFacts DEF Shown
  <2> HIDE DEF m
  <2>2. /\ cli' = cli /\ (cli # "done" => Sent(m, "result"))
        /\ cli = "done" => srv' \in {"result", "killed"}
      BY <2>1, SentOrNot
  <2>3. cli \in {"hit", "stand", "draws", "final", "close", "done"}
      BY <2>1 DEF TurnInv, Over, TypeOK
  <2>4. cli = "stand" => toClient' # <<>> /\ Card(toClient'[1])
      BY <1>t, <2>1, <2>2 DEF Sent, TurnInv
  <2>5. cli = "hit" => /\ Len(toClient') >= 2 /\ toClient'[1].kind = "hit"
                       /\ toClient'[1].score = player /\ toClient'[2].kind = "END"
                       /\ player > Limit /\ toServer = "none"
    <3> SUFFICES ASSUME cli = "hit"
                 PROVE  /\ Len(toClient') >= 2 /\ toClient'[1].kind = "hit"
                        /\ toClient'[1].score = player /\ toClient'[2].kind = "END"
                        /\ player > Limit /\ toServer = "none"
        OBVIOUS
    <3>1. Alone("hit") /\ player > Limit
        BY <2>1 DEF TurnInv
    <3>2. Len(toClient) = 1
        BY <3>1 DEF Alone
    <3>3. Len(toClient') = 2 /\ toClient'[1] = toClient[1] /\ toClient'[2] = m
        BY <2>2, <3>2 DEF Sent
    <3> QED
        BY <2>1, <3>1, <3>3 DEF Alone
  <2>6. srv' \notin {"accept", "deal"} /\ (cli # "done" => srv' = "result")
      BY <2>2 DEF Sent
  <2> QED
      BY <1>t, <2>1, <2>2, <2>3, <2>4, <2>5, <2>6 DEF TurnInv, Over, cards
<1>10. CASE SResult
  <2>1. srv = "result" /\ UNCHANGED <<cards, toServer>> /\ Final \in Messages
        /\ Write(Final, "close", "close")
      BY <1>10, ResultFacts
  <2>2. /\ cli' = cli /\ (cli # "done" => Sent(Final, "close"))
        /\ cli = "done" => srv' \in {"close", "killed"}
      BY <2>1, SentOrNot
  <2>3. cli \in {"hit", "stand", "draws", "final", "close", "done"}
      BY <2>1 DEF TurnInv, Over, TypeOK
  <2>4. cli = "stand" => toClient' # <<>> /\ Card(toClient'[1])
      BY <1>t, <2>1, <2>2 DEF Sent, TurnInv
  <2>5. cli = "hit" => /\ Len(toClient') >= 2 /\ toClient'[1].kind = "hit"
                       /\ toClient'[1].score = player /\ toClient'[2].kind = "END"
                       /\ player > Limit /\ toServer = "none"
      BY <1>t, <2>1, <2>2 DEF Sent, TurnInv, Alone, Quiet
  <2>6. srv' \notin {"accept", "deal"} /\ (cli # "done" => srv' = "close")
      BY <2>2 DEF Sent
  <2> QED
      BY <1>t, <2>1, <2>2, <2>3, <2>4, <2>5, <2>6 DEF TurnInv, Over, cards
<1>11. CASE SClose  BY <1>11 DEF SClose, TurnInv, Quiet, Alone, Over, cards
<1>12. CASE CConnect  BY <1>12 DEF CConnect, TurnInv, Quiet, Alone, Over, cards
<1>13. CASE CCards
  <2>1. Read(TRUE) /\ cli = "cards" /\ cli' = "fgets" /\ UNCHANGED <<srv, cards, toServer>>
      BY <1>13 DEF CCards
  <2>2. PICK n \in 1..Len(toClient) : Reads(n, TRUE)
      BY <1>t, <2>1, ReadFacts
  <2>3. Len(toClient) >= 1
      BY <1>t, <2>2
  <2>4. srv = "read" /\ player <= Limit /\ toServer = "none" /\ Len(toClient) = 1
      BY <1>t, <2>1, <2>3 DEF TurnInv, Quiet, Alone
  <2>5. toClient' = <<>>
      BY <2>2, <2>4 DEF Reads
  <2> QED
      BY <2>1, <2>4, <2>5 DEF TurnInv, Quiet, cards
<1>14. CASE CHit
  <2>1. PICK n \in 1..Len(toClient) : Reads(n, TRUE)
      BY <1>14, HitRead
  <2>2. /\ cli = "hit" /\ UNCHANGED <<srv, cards, toServer>>
        /\ \/ cli' = "close" /\ player > Limit
           \/ cli' = "fgets" /\ player <= Limit /\ srv = "read" /\ toServer = "none"
              /\ Len(toClient) = 1
      BY <1>14, HitRead
  <2>3. cli' = "fgets" => toClient' = <<>>
      BY <1>t, <2>1, <2>2 DEF Reads
  <2> QED
      BY <2>2, <2>3 DEF TurnInv, Quiet, cards
<1>15. CASE CStand
  <2>1. Read(TRUE) /\ cli = "stand" /\ cli' = "draws" /\ UNCHANGED <<srv, cards, toServer>>
      BY <1>15 DEF CStand
  <2>2. PICK n \in 1..Len(toClient) : Reads(n, TRUE)
      BY <1>t, <2>1, ReadFacts
  <2>3. toClient # <<>>
      BY <1>t, <2>2
  <2> QED
      BY <2>1, <2>3 DEF TurnInv, Quiet, cards
<1>16. CASE CDraws \/ CDrawsEof
    BY <1>16 DEF CDraws, CDrawsEof, TurnInv, cards
<1>17. CASE CFinal  BY <1>17 DEF CFinal, TurnInv, cards
<1>18. CASE CClose \/ CLeave  BY <1>18 DEF CClose, CLeave, Close, TurnInv, cards
<1>19. CASE \E choice \in {"h", "s"} : CChoose(choice)
    BY <1>19 DEF CChoose, TurnInv, Quiet, Alone, cards
<1>20. CASE UNCHANGED vars  BY <1>20 DEF vars, cards, TurnInv, Quiet, Alone
<1> QED
    BY <1>1, <1>2, <1>3, <1>4, <1>5, <1>6, <1>7, <1>8, <1>9, <1>10, <1>11, <1>12, <1>13, <1>14,
       <1>15, <1>16, <1>17, <1>18, <1>19, <1>20 DEF Next, Server, Client, Player

-----------------------------------------------------------------------------
(* The steps of the server, by what they send. *)

\* Steps that send nothing.
Silent ==
    /\ UNCHANGED <<toClient, player, dealer, first>>
    /\ \/ srv = "accept" /\ srv' = "deal"
       \/ srv = "read" /\ srv' \in {"hit", "stand"}
       \/ srv = "read" /\ srv' = "end" /\ cli = "done"
       \/ srv = "draws" /\ srv' = "end" /\ dealer >= 17
       \/ srv = "close" /\ srv' = "served"

\* Steps that send m.
Sending(m) ==
    \/ /\ srv = "deal" /\ srv' = "read" /\ m.kind = "cards"
    \/ /\ srv = "hit" /\ srv' \in {"end", "read"} /\ m.kind = "hit" /\ m.len <= 8
       /\ first' = first
    \/ /\ srv = "stand" /\ srv' = "draws" /\ m.kind = "dealer" /\ m.len <= 8
       /\ m.score = dealer /\ UNCHANGED <<player, dealer, first>>
    \/ /\ srv = "draws" /\ srv' = "draws" /\ m.kind = "draw" /\ m.len <= 8
       /\ m.score = dealer' /\ UNCHANGED <<player, first>>
    \/ /\ srv = "end" /\ srv' = "result" /\ m.kind = "END" /\ m.len <= 8
       /\ UNCHANGED <<player, dealer, first>>
    \/ /\ srv = "result" /\ srv' = "close" /\ m = Final
       /\ UNCHANGED <<player, dealer, first>>

LEMMA ServerSteps ==
    ASSUME TypeOK, ConnInv, TurnInv, Server
    PROVE  /\ UNCHANGED <<cli, client, exits>>
           /\ \/ Silent
              \/ cli = "done" /\ toClient' = <<>> /\ srv \notin {"close", "served"}
              \/ cli # "done" /\ \E m \in Messages : Sent(m, srv') /\ Sending(m)
<1>0. UNCHANGED <<cli, client, exits>>
    BY ServerKeeps
<1>1. ASSUME NEW m \in Messages, NEW next, NEW onError, Write(m, next, onError),
             srv \notin {"close", "served"}, srv' = next => Sending(m)
      PROVE  \/ cli = "done" /\ toClient' = <<>> /\ srv \notin {"close", "served"}
             \/ cli # "done" /\ \E e \in Messages : Sent(e, srv') /\ Sending(e)
  <2>1. CASE cli = "done"  BY <1>1, <2>1, SentOrNot
  <2>2. CASE cli # "done"
    <3>1. Sent(m, next)
        BY <1>1, <2>2, SentOrNot
    <3>2. srv' = next /\ Sent(m, srv')
        BY <3>1 DEF Sent
    <3> QED
        BY <1>1, <2>2, <3>2
  <2> QED
      BY <2>1, <2>2
<1>2. CASE SAccept \/ SRead \/ SStop \/ SClose
    BY <1>0, <1>2 DEF SAccept, SRead, SStop, SClose, Silent, cards
<1>3. CASE SReadEnd
    BY <1>0, <1>3 DEF SReadEnd, Silent, cards, ConnInv
<1>4. CASE SDeal
  <2> DEFINE m == Message("cards", player', first')
  <2>1. m \in Messages /\ Write(m, "read", "exited") /\ srv = "deal" /\ m.kind = "cards"
      BY <1>4, DealFacts DEF Message
  <2> HIDE DEF m
  <2>2. srv' = "read" => Sending(m)
      BY <2>1 DEF Sending
  <2> QED
      BY <1>0, <1>1, <2>1, <2>2
<1>5. CASE SHit
  <2>1. PICK len \in 0..8, next \in {"end", "read"} : Shown("hit", player', len, next, next)
      BY <1>5, HitFacts
  <2> DEFINE m == Message("hit", player', len)
  <2>2. /\ m \in Messages /\ Write(m, next, next) /\ srv = "hit" /\ m.kind = "hit" /\ m.len <= 8
        /\ first' = first
      BY <1>5, <2>1, HitFacts DEF Shown
  <2> HIDE DEF m
  <2>3. srv' = next => Sending(m)
      BY <2>2 DEF Sending
  <2> QED
      BY <1>0, <1>1, <2>2, <2>3
<1>6. CASE SStand
  <2>1. PICK len \in 0..8 : Shown("dealer", dealer, len, "draws", "exited")
      BY <1>6, StandFacts
  <2> DEFINE m == Message("dealer", dealer, len)
  <2>2. /\ m \in Messages /\ Write(m, "draws", "exited") /\ srv = "stand" /\ m.kind = "dealer"
        /\ m.len <= 8 /\ m.score = dealer /\ UNCHANGED <<player, dealer, first>>
      BY <1>6, <2>1, StandFacts DEF Shown, cards
  <2> HIDE DEF m
  <2>3. srv' = "draws" => Sending(m)
      BY <2>2 DEF Sending
  <2> QED
      BY <1>0, <1>1, <2>2, <2>3
<1>7. CASE SDraw
  <2>1. PICK len \in 0..8 : Shown("draw", dealer', len, "draws", "exited")
      BY <1>7, DrawFacts
  <2> DEFINE m == Message("draw", dealer', len)
  <2>2. /\ m \in Messages /\ Write(m, "draws", "exited") /\ srv = "draws" /\ m.kind = "draw"
        /\ m.len <= 8 /\ m.score = dealer' /\ UNCHANGED <<player, first>>
      BY <1>7, <2>1, DrawFacts DEF Shown
  <2> HIDE DEF m
  <2>3. srv' = "draws" => Sending(m)
      BY <2>2 DEF Sending
  <2> QED
      BY <1>0, <1>1, <2>2, <2>3
<1>8. CASE SEnd
  <2> DEFINE m == Message("END", 0, 3)
  <2>1. /\ m \in Messages /\ Write(m, "result", "result") /\ srv = "end" /\ m.kind = "END"
        /\ m.len <= 8 /\ UNCHANGED <<player, dealer, first>>
      BY <1>8, EndFacts DEF Shown, cards
  <2> HIDE DEF m
  <2>2. srv' = "result" => Sending(m)
      BY <2>1 DEF Sending
  <2> QED
      BY <1>0, <1>1, <2>1, <2>2
<1>9. CASE SResult
  <2>1. /\ Final \in Messages /\ Write(Final, "close", "close") /\ srv = "result"
        /\ UNCHANGED <<player, dealer, first>>
      BY <1>9, ResultFacts DEF cards
  <2>2. srv' = "close" => Sending(Final)
      BY <2>1 DEF Sending
  <2> QED
      BY <1>0, <1>1, <2>1, <2>2
<1> QED
    BY <1>2, <1>3, <1>4, <1>5, <1>6, <1>7, <1>8, <1>9 DEF Server

\* The result depends on the two scores only.
LEMMA FinalKept == UNCHANGED <<player, dealer>> => Final' = Final /\ Outcome' = Outcome
BY DEF Final, Outcome, Message

-----------------------------------------------------------------------------
(* The dealer's cards, END and the result *)

\* Who is standing after a step was standing before it or has just been shown
\* the dealer's first card.
LEMMA StandingStep ==
    ASSUME TypeOK, ConnInv, TurnInv, [Next]_vars, Standing'
    PROVE  \/ cli # "done" /\ cli' = cli /\ Server
           \/ Standing /\ (CStand \/ CDraws \/ CDrawsEof \/ UNCHANGED vars)
<1>1. CASE Server
    BY <1>1, ServerKeeps DEF Standing
<1>2. CASE CStand \/ CDraws \/ CDrawsEof
  <2>1. cli \in {"stand", "draws"} /\ srv' = srv
      BY <1>2 DEF CStand, CDraws, CDrawsEof
  <2> QED
      BY <1>2, <2>1 DEF Standing
<1>3. CASE CConnect \/ CCards \/ CHit \/ CFinal \/ CClose \/ CLeave
    BY <1>3 DEF CConnect, CCards, CHit, CFinal, CClose, CLeave, Close, Standing
<1>4. CASE \E choice \in {"h", "s"} : CChoose(choice)
  <2>1. srv = "read" /\ srv' = srv
      BY <1>4 DEF CChoose, TurnInv
  <2> QED
      BY <2>1 DEF Standing, Over
<1>5. CASE UNCHANGED vars
    BY <1>5 DEF vars, Standing
<1> QED
    BY <1>1, <1>2, <1>3, <1>4, <1>5 DEF Next, Client, Player

\* What the server does while the player stands.
LEMMA StandingServer ==
    ASSUME TypeOK, ConnInv, TurnInv, Server, cli # "done", Standing'
    PROVE  \/ Standing /\ Silent /\ srv \in {"draws", "close"}
           \/ /\ Standing \/ (toClient = <<>> /\ srv = "stand")
              /\ \E m \in Messages : Sent(m, srv') /\ Sending(m)
              /\ srv \notin {"deal", "hit"}
<1>1. UNCHANGED <<cli, client, exits>>
    BY ServerSteps
<1>2. cli \in {"stand", "draws", "final"} /\ srv' \in {"draws"} \cup Over
    BY <1>1 DEF Standing
<1>3. CASE Silent
  <2>1. srv \in {"draws", "close"}
      BY <1>2, <1>3 DEF Silent, Over
  <2> QED
      BY <1>2, <1>3, <2>1 DEF Standing, Over
<1>4. CASE \E m \in Messages : Sent(m, srv') /\ Sending(m)
  <2>1. srv \in {"deal", "hit", "stand", "draws", "end", "result"}
      BY <1>4 DEF Sending
  <2>2. srv = "stand" => toClient = <<>>
      BY <1>2 DEF TurnInv, Over, Quiet
  <2>3. srv \notin {"deal", "hit"}
      BY <1>2 DEF TurnInv, Over, Quiet
  <2> QED
      BY <1>2, <1>4, <2>1, <2>2, <2>3 DEF Standing, Over
<1> QED
    BY <1>3, <1>4, ServerSteps

LEMMA DealerStep ==
    ASSUME TypeOK, TypeOK', ConnInv, TurnInv, DealerInv, ResultInv, [Next]_vars
    PROVE  DealerInv'
<1>t. toClient \in Seq(Messages) /\ toClient' \in Seq(Messages)
    BY DEF TypeOK
<1> SUFFICES ASSUME Standing'
             PROVE  /\ \A k \in 1..Len(toClient') :
                         toClient'[k].kind \in {"dealer", "draw", "END"} \cup Results
                    /\ srv' # "draws" => dealer' >= 17
                    /\ srv' \in {"draws", "end"} =>
                         \A k \in 1..Len(toClient') : Card(toClient'[k])
                    /\ \A k \in 1..Len(toClient') : Card(toClient'[k]) =>
                         /\ \/ toClient'[k].score = dealer'
                            \/ k < Len(toClient') /\ Card(toClient'[k + 1])
                         /\ \A j \in 1..k : Card(toClient'[j])
    BY <1>t DEF DealerInv, Card
<1>i. Standing =>
        /\ \A k \in 1..Len(toClient) :
             toClient[k].kind \in {"dealer", "draw", "END"} \cup Results
        /\ srv # "draws" => dealer >= 17
        /\ srv \in {"draws", "end"} => \A k \in 1..Len(toClient) : Card(toClient[k])
        /\ \A k \in 1..Len(toClient) : Card(toClient[k]) =>
             /\ \/ toClient[k].score = dealer
                \/ k < Len(toClient) /\ Card(toClient[k + 1])
             /\ \A j \in 1..k : Card(toClient[j])
    BY <1>t DEF DealerInv
<1>1. CASE cli # "done" /\ Server
  <2>1. CASE Standing /\ Silent /\ srv \in {"draws", "close"}
      BY <1>i, <2>1 DEF Silent
  <2>2. CASE /\ Standing \/ (toClient = <<>> /\ srv = "stand")
             /\ \E m \in Messages : Sent(m, srv') /\ Sending(m)
             /\ srv \notin {"deal", "hit"}
    <3>1. PICK m \in Messages : Sent(m, srv') /\ Sending(m)
        BY <2>2
    <3> DEFINE l == Len(toClient)
    <3>2. /\ l \in Nat /\ Len(toClient') = l + 1 /\ toClient'[l + 1] = m
          /\ \A k \in 1..l : toClient'[k] = toClient[k]
        BY <1>t, <3>1 DEF Sent
    <3>3. CASE srv \in {"stand", "draws"}
      <4>1. srv' = "draws" /\ Card(m) /\ m.score = dealer'
          BY <3>1, <3>3 DEF Sending, Card
      <4>2. \A k \in 1..l : Card(toClient[k])
        <5>1. CASE Standing /\ srv = "draws"
            BY <1>i, <5>1
        <5>2. CASE toClient = <<>> /\ srv = "stand"
            BY <5>2
        <5> QED
            BY <2>2, <3>3, <5>1, <5>2 DEF Standing, Over
      <4> HIDE DEF l
      <4>3. \A k \in 1..(l + 1) : Card(toClient'[k])
          BY <3>2, <4>1, <4>2
      <4> QED
          BY <3>2, <4>1, <4>3 DEF Card
    <3>4. CASE srv \in {"end", "result"}
      <4>1. /\ Standing /\ srv' \in {"result", "close"} /\ dealer' = dealer
            /\ m.kind \in {"END"} \cup Results /\ ~Card(m)
          BY <2>2, <3>1, <3>4, FinalFacts DEF Sending, Card, Results
      <4> HIDE DEF l
      <4>2. ASSUME NEW k \in 1..(l + 1)
            PROVE  toClient'[k].kind \in {"dealer", "draw", "END"} \cup Results
        <5>1. CASE k = l + 1  BY <3>2, <4>1, <5>1
        <5>2. CASE k \in 1..l  BY <1>i, <3>2, <4>1, <5>2 DEF l
        <5> QED
            BY <3>2, <5>1, <5>2
      <4>3. ASSUME NEW k \in 1..(l + 1), Card(toClient'[k])
            PROVE  /\ toClient'[k].score = dealer' \/ (k < l + 1 /\ Card(toClient'[k + 1]))
                   /\ \A j \in 1..k : Card(toClient'[j])
        <5>1. k \in 1..l /\ Card(toClient[k]) /\ toClient'[k] = toClient[k]
          <6>1. k # l + 1
              BY <3>2, <4>1, <4>3
          <6>2. k \in 1..l
              BY <3>2, <6>1
          <6> QED
              BY <3>2, <4>3, <6>2
        <5>2. /\ toClient[k].score = dealer \/ (k < l /\ Card(toClient[k + 1]))
              /\ \A j \in 1..k : Card(toClient[j])
            BY <1>i, <4>1, <5>1 DEF l
        <5>3. k < l => k + 1 \in 1..l
            BY <3>2, <5>1
        <5>4. \A j \in 1..k : j \in 1..l
            BY <3>2, <5>1
        <5> QED
            BY <3>2, <4>1, <5>1, <5>2, <5>3, <5>4
      <4> QED
          BY <1>i, <3>2, <3>4, <4>1, <4>2, <4>3 DEF l
    <3> QED
        BY <2>2, <3>1, <3>3, <3>4 DEF Sending
  <2> QED
      BY <1>1, <2>1, <2>2, StandingServer
<1>2. CASE Standing /\ (CStand \/ CDraws)
  <2>1. PICK n \in 1..Len(toClient) : Reads(n, TRUE)
      BY <1>2, ClientReads
  <2>2. srv' = srv /\ dealer' = dealer
      BY <1>2, ClientReads DEF cards
  <2> DEFINE l == Len(toClient)
  <2>3. /\ l \in Nat /\ n \in 1..l /\ Len(toClient') = l - n
        /\ \A k \in 1..(l - n) : k + n \in 1..l /\ toClient'[k] = toClient[k + n]
      BY <1>t, <2>1 DEF Reads
  <2>4. ASSUME NEW k \in 1..(l - n), Card(toClient'[k])
        PROVE  /\ \/ toClient'[k].score = dealer'
                  \/ k < l - n /\ Card(toClient'[k + 1])
               /\ \A j \in 1..k : Card(toClient'[j])
    <3>1. k + n \in 1..l /\ Card(toClient[k + n])
        BY <2>3, <2>4
    <3>2. /\ toClient[k + n].score = dealer \/ (k + n < l /\ Card(toClient[(k + n) + 1]))
          /\ \A j \in 1..(k + n) : Card(toClient[j])
        BY <1>i, <1>2, <3>1
    <3> HIDE DEF l
    <3>3. k + n < l => k + 1 \in 1..(l - n) /\ (k + 1) + n = (k + n) + 1
        BY <2>3
    <3>4. \A j \in 1..k : j + n \in 1..(k + n) /\ j \in 1..(l - n)
        BY <2>3
    <3>5. toClient'[k].score = dealer' \/ (k < l - n /\ Card(toClient'[k + 1]))
      <4>1. CASE toClient[k + n].score = dealer
          BY <2>2, <2>3, <4>1
      <4>2. CASE k + n < l /\ Card(toClient[(k + n) + 1])
        <5>1. k + 1 \in 1..(l - n) /\ toClient'[k + 1] = toClient[(k + n) + 1]
            BY <2>3, <3>3, <4>2
        <5>2. k < l - n
            BY <2>3, <4>2
        <5> QED
            BY <4>2, <5>1, <5>2
      <4> QED
          BY <3>2, <4>1, <4>2
    <3>6. \A j \in 1..k : Card(toClient'[j])
        BY <2>3, <3>2, <3>4
    <3> QED
        BY <3>5, <3>6
  <2> HIDE DEF l
  <2> QED
      BY <1>i, <1>2, <2>2, <2>3, <2>4 DEF l
<1>3. CASE Standing /\ (CDrawsEof \/ UNCHANGED vars)
  <2>1. UNCHANGED <<srv, toClient, dealer>>
      BY <1>3 DEF CDrawsEof, vars, cards
  <2> QED
      BY <1>i, <1>3, <2>1
<1> QED
    BY <1>1, <1>2, <1>3, StandingStep

\* A client that is done, or still in the game, has no result on its way.
LEMMA NoResultYet ==
    ASSUME TypeOK, ResultInv, srv \notin {"close", "served"}
    PROVE  /\ \A k \in 1..Len(toClient) : toClient[k].kind \notin Results
           /\ \A k \in 1..Len(text) : text[k].kind \notin Results
BY DEF ResultInv, TypeOK

LEMMA ResultStep ==
    ASSUME TypeOK, TypeOK', ConnInv, TurnInv, DealerInv, ResultInv, [Next]_vars
    PROVE  ResultInv'
<1>t. /\ toClient \in Seq(Messages) /\ toClient' \in Seq(Messages)
      /\ text \in Seq(Messages) /\ text' \in Seq(Messages)
    BY DEF TypeOK
<1>d. /\ DOMAIN toClient = 1..Len(toClient) /\ DOMAIN toClient' = 1..Len(toClient')
      /\ DOMAIN text = 1..Len(text) /\ DOMAIN text' = 1..Len(text')
    BY <1>t
<1> DEFINE Goal ==
      /\ \A k \in 1..Len(toClient') : toClient'[k].kind \in Results =>
           srv' \in {"close", "served"} /\ k = Len(toClient') /\ toClient'[k] = Final'
      /\ \A k \in 1..Len(text') : text'[k].kind \in Results =>
           srv' \in {"close", "served"} /\ text'[k] = Final'
<1> SUFFICES Goal
    BY <1>d DEF ResultInv
<1>i. /\ \A k \in 1..Len(toClient) : toClient[k].kind \in Results =>
           srv \in {"close", "served"} /\ k = Len(toClient) /\ toClient[k] = Final
      /\ \A k \in 1..Len(text) : text[k].kind \in Results =>
           srv \in {"close", "served"} /\ text[k] = Final
    BY <1>d DEF ResultInv
<1>1. CASE Server
  <2>1. text' = text
      BY <1>1, ServerSteps DEF client
  <2>2. CASE Silent
    <3>1. toClient' = toClient /\ Final' = Final
        BY <2>2, FinalKept DEF Silent
    <3>2. srv \in {"close", "served"} => srv' \in {"close", "served"}
        BY <2>2 DEF Silent
    <3> QED
        BY <1>i, <2>1, <3>1, <3>2
  <2>3. CASE cli = "done" /\ toClient' = <<>> /\ srv \notin {"close", "served"}
      BY <1>t, <2>1, <2>3, NoResultYet
  <2>4. CASE cli # "done" /\ \E m \in Messages : Sent(m, srv') /\ Sending(m)
    <3>1. PICK m \in Messages : Sent(m, srv') /\ Sending(m)
        BY <2>4
    <3>2. /\ Len(toClient') = Len(toClient) + 1 /\ toClient'[Len(toClient) + 1] = m
          /\ \A k \in 1..Len(toClient) : toClient'[k] = toClient[k]
        BY <3>1 DEF Sent
    <3>3. srv \notin {"close", "served"}
        BY <3>1 DEF Sending
    <3>4. /\ \A k \in 1..Len(toClient) : toClient[k].kind \notin Results
          /\ \A k \in 1..Len(text) : text[k].kind \notin Results
        BY <3>3, NoResultYet
    <3>5. m.kind \in Results => srv' = "close" /\ m = Final /\ UNCHANGED <<player, dealer>>
        BY <3>1 DEF Sending, Results
    <3>6. m.kind \in Results => srv' = "close" /\ m = Final'
        BY <3>5, FinalKept
    <3>7. \A k \in 1..Len(toClient') : k \in 1..Len(toClient) \/ k = Len(toClient')
        BY <1>t, <3>2
    <3> QED
        BY <1>t, <2>1, <3>2, <3>4, <3>6, <3>7
  <2> QED
      BY <1>1, <2>2, <2>3, <2>4, ServerSteps
<1>2. ASSUME NEW terminated, NEW n \in 1..Len(toClient), Reads(n, terminated),
             UNCHANGED <<srv, player, dealer>>
      PROVE  Goal
  <2>1. Final' = Final
      BY <1>2, FinalKept
  <2>2. \A k \in 1..Len(toClient') :
          k + n \in 1..Len(toClient) /\ toClient'[k] = toClient[k + n]
      BY <1>t, <1>2 DEF Reads
  <2>3. \A k \in 1..Len(toClient') : k + n = Len(toClient) => k = Len(toClient')
    <3>1. Len(toClient') = Len(toClient) - n /\ Len(toClient) \in Nat
        BY <1>t, <1>2 DEF Reads
    <3> QED
        BY <3>1
  <2>4. \A k \in 1..Len(text') : k \in 1..Len(toClient) /\ text'[k] = toClient[k]
      BY <1>t, <1>2 DEF Reads
  <2> QED
      BY <1>i, <1>2, <2>1, <2>2, <2>3, <2>4
<1>3. CASE CCards \/ CHit \/ CStand \/ CDraws
  <2>1. /\ \E n \in 1..Len(toClient) : Reads(n, TRUE)
        /\ UNCHANGED <<srv, player, dealer>>
      BY <1>3, ClientReads DEF cards
  <2> QED
      BY <1>2, <2>1
<1>4. CASE CFinal /\ Read(FALSE)
  <2>1. /\ \E n \in 1..Len(toClient) : Reads(n, FALSE)
        /\ UNCHANGED <<srv, player, dealer>>
      BY <1>t, <1>4, ReadFacts DEF CFinal, cards
  <2> QED
      BY <1>2, <2>1
<1>5. CASE \/ CConnect \/ CDrawsEof \/ (\E choice \in {"h", "s"} : CChoose(choice))
           \/ UNCHANGED vars \/ (CFinal /\ ~Read(FALSE))
  <2>1. UNCHANGED <<srv, player, dealer, toClient, text>>
      BY <1>5 DEF CConnect, CDrawsEof, CChoose, CFinal, vars, cards, client
  <2>2. Final' = Final
      BY <2>1, FinalKept
  <2> QED
      BY <1>i, <2>1, <2>2
<1>6. CASE CClose \/ CLeave
  <2>1. UNCHANGED <<srv, player, dealer, text>> /\ toClient' = <<>>
      BY <1>6 DEF CClose, CLeave, Close, cards, client
  <2>2. Final' = Final
      BY <2>1, FinalKept
  <2> QED
      BY <1>i, <2>1, <2>2
<1> QED
    BY <1>1, <1>3, <1>4, <1>5, <1>6 DEF Next, Client, Player

LEMMA EndStep ==
    ASSUME TypeOK, TypeOK', ConnInv, TurnInv, TurnInv', DealerInv, ResultInv, EndInv, [Next]_vars
    PROVE  EndInv'
<1>t. toClient \in Seq(Messages) /\ toClient' \in Seq(Messages)
    BY DEF TypeOK
<1>d. DOMAIN toClient = 1..Len(toClient) /\ DOMAIN toClient' = 1..Len(toClient')
    BY <1>t
<1>f. cli' = "final" => Standing'
    BY DEF TurnInv, Standing
<1> SUFFICES ASSUME Standing'
             PROVE  /\ \A k \in 1..Len(toClient') : toClient'[k].kind = "END" =>
                         \/ srv' = "result" /\ k = Len(toClient')
                         \/ srv' \in {"close", "served"} /\ k = Len(toClient') - 1
                    /\ srv' \in {"close", "served"} /\ toClient' # <<>> =>
                         toClient'[Len(toClient')] = Final'
                    /\ ~joined' /\ cli' # "final" /\ srv' \in {"result", "close", "served"} =>
                         \E k \in 1..Len(toClient') : toClient'[k].kind = "END"
                    /\ cli' = "final" /\ ~joined' =>
                         \/ srv' = "result" /\ toClient' = <<>>
                         \/ /\ srv' \in {"close", "served"}
                            /\ Len(toClient') = 1 /\ toClient'[1] = Final'
    BY <1>d, <1>f DEF EndInv
<1>i. Standing =>
        /\ \A k \in 1..Len(toClient) : toClient[k].kind = "END" =>
             \/ srv = "result" /\ k = Len(toClient)
             \/ srv \in {"close", "served"} /\ k = Len(toClient) - 1
        /\ srv \in {"close", "served"} /\ toClient # <<>> => toClient[Len(toClient)] = Final
        /\ ~joined /\ cli # "final" /\ srv \in {"result", "close", "served"} =>
             \E k \in 1..Len(toClient) : toClient[k].kind = "END"
        /\ cli = "final" /\ ~joined =>
             \/ srv = "result" /\ toClient = <<>>
             \/ srv \in {"close", "served"} /\ Len(toClient) = 1 /\ toClient[1] = Final
    BY <1>d DEF EndInv
<1>1. CASE cli # "done" /\ Server
  <2>1. UNCHANGED <<cli, joined>>
      BY <1>1, ServerKeeps DEF client
  <2>2. CASE Standing /\ Silent /\ srv \in {"draws", "close"}
    <3>1. toClient' = toClient /\ Final' = Final
        BY <2>2, FinalKept DEF Silent
    <3>2. (srv = "draws" /\ srv' = "end") \/ (srv = "close" /\ srv' = "served")
        BY <2>2 DEF Silent
    <3> QED
        BY <1>i, <2>1, <2>2, <3>1, <3>2
  <2>3. CASE /\ Standing \/ (toClient = <<>> /\ srv = "stand")
             /\ \E m \in Messages : Sent(m, srv') /\ Sending(m)
             /\ srv \notin {"deal", "hit"}
    <3>1. PICK m \in Messages : Sent(m, srv') /\ Sending(m)
        BY <2>3
    <3> DEFINE l == Len(toClient)
    <3>2. /\ l \in Nat /\ Len(toClient') = l + 1 /\ toClient'[l + 1] = m
          /\ \A k \in 1..l : toClient'[k] = toClient[k]
        BY <1>t, <3>1 DEF Sent
    <3>3. \A k \in 1..(l + 1) : k \in 1..l \/ k = l + 1
        BY <3>2
    <3>4. CASE srv \in {"stand", "draws"}
      <4>1. srv' = "draws" /\ m.kind # "END"
          BY <3>1, <3>4 DEF Sending
      <4>2. \A k \in 1..l : toClient[k].kind # "END"
          BY <1>i, <2>3, <3>4
      <4>3. cli' = "final" => joined
          BY <1>i, <2>1, <2>3, <3>4 DEF TurnInv, Over
      <4> HIDE DEF l
      <4> QED
          BY <2>1, <3>2, <3>3, <4>1, <4>2, <4>3
    <3>5. CASE srv = "end"
      <4>1. Standing /\ srv' = "result" /\ m.kind = "END"
          BY <2>3, <3>1, <3>5 DEF Sending
      <4>2. \A k \in 1..l : toClient[k].kind # "END"
          BY <1>i, <3>5, <4>1
      <4>3. cli' = "final" => joined
          BY <1>i, <2>1, <3>5, <4>1
      <4>4. l + 1 \in 1..(l + 1)
          BY <3>2
      <4> HIDE DEF l
      <4> QED
          BY <2>1, <3>2, <3>3, <4>1, <4>2, <4>3, <4>4
    <3>6. CASE srv = "result"
      <4>1. Standing /\ srv' = "close" /\ m = Final /\ UNCHANGED <<player, dealer>>
          BY <2>3, <3>1, <3>6 DEF Sending
      <4>2. m = Final' /\ m.kind # "END"
          BY <4>1, FinalFacts, FinalKept DEF Results
      <4>3. \A k \in 1..l : toClient[k].kind = "END" => k = (l + 1) - 1
          BY <1>i, <3>2, <3>6, <4>1
      <4>4. \A k \in 1..l : k \in 1..(l + 1)
          BY <3>2
      <4>5. ~joined /\ cli # "final" => \E k \in 1..l : toClient[k].kind = "END"
          BY <1>i, <3>6, <4>1
      <4>6. cli = "final" /\ ~joined => l = 0
          BY <1>i, <3>6, <4>1
      <4>7. l = 0 => l + 1 = 1
          OBVIOUS
      <4> HIDE DEF l
      <4> QED
          BY <2>1, <3>2, <3>3, <4>1, <4>2, <4>3, <4>4, <4>5, <4>6, <4>7
    <3> QED
        BY <2>3, <3>1, <3>4, <3>5, <3>6 DEF Sending
  <2> QED
      BY <1>1, <2>2, <2>3, StandingServer
<1>2. CASE Standing /\ (CStand \/ CDraws)
  <2>1. PICK n \in 1..Len(toClient) : Reads(n, TRUE)
      BY <1>2, ClientReads
  <2>2. srv' = srv /\ Final' = Final
      BY <1>2, ClientReads, FinalKept DEF cards
  <2> DEFINE l == Len(toClient)
  <2>3. /\ l \in Nat /\ n \in 1..l /\ Len(toClient') = l - n
        /\ \A k \in 1..(l - n) : k + n \in 1..l /\ toClient'[k] = toClient[k + n]
        /\ ~joined' => ~joined /\ n = 1
      BY <1>t, <2>1 DEF Reads
  <2>4. \A k \in 1..(l - n) : (k + n = l => k = l - n) /\ (k + n = l - 1 => k = (l - n) - 1)
      BY <2>3
  <2>5. l - n # 0 => l - n \in 1..(l - n) /\ (l - n) + n = l
      BY <2>3
  <2>6. toClient' # <<>> => l - n # 0
      BY <1>t, <2>3
  <2>7. cli # "final" /\ toClient # <<>>
    <3>1. cli # "final"
        BY <1>2 DEF CStand, CDraws
    <3>2. Len(toClient) # 0
        BY <2>3
    <3> QED
        BY <3>1, <3>2
  <2>8. ASSUME ~joined', cli' # "final", srv' \in {"result", "close", "served"}
        PROVE  \E k \in 1..(l - n) : toClient'[k].kind = "END"
    <3>1. PICK e \in 1..l : toClient[e].kind = "END"
        BY <1>i, <1>2, <2>2, <2>3, <2>7, <2>8
    <3>2. n = 1 /\ text'[1] = toClient[1] /\ Len(text') = 1
        BY <2>1, <2>3, <2>8 DEF Reads
    <3>3. toClient[1].kind # "END"
      <4>1. CASE CStand
          BY <2>7, <4>1 DEF CStand, TurnInv, Card, Quiet
      <4>2. CASE CDraws
          BY <2>8, <3>2, <4>2 DEF CDraws
      <4> QED
          BY <1>2, <4>1, <4>2
    <3> HIDE DEF l
    <3>4. e # 1 /\ e - 1 \in 1..(l - n) /\ (e - 1) + n = e
        BY <2>3, <3>1, <3>2, <3>3
    <3> QED
        BY <2>3, <3>1, <3>4
  <2>9. ASSUME ~joined', cli' = "final"
        PROVE  \/ srv' = "result" /\ toClient' = <<>>
               \/ srv' \in {"close", "served"} /\ Len(toClient') = 1 /\ toClient'[1] = Final'
    <3>1. n = 1 /\ text'[1] = toClient[1] /\ Len(text') = 1 /\ 1 \in 1..l
        BY <2>1, <2>3, <2>9 DEF Reads
    <3>2. toClient[1].kind = "END"
        BY <1>2, <2>9, <3>1 DEF CDraws, CStand
    <3>3. \/ srv = "result" /\ 1 = l
          \/ srv \in {"close", "served"} /\ 1 = l - 1
        BY <1>i, <1>2, <3>1, <3>2
    <3>4. CASE srv = "result" /\ 1 = l
        BY <1>t, <2>2, <2>3, <3>1, <3>4
    <3>5. CASE srv \in {"close", "served"} /\ 1 = l - 1
      <4>1. l = 2 /\ Len(toClient') = 1 /\ toClient'[1] = toClient[l]
        <5> HIDE DEF l
        <5>1. l = 2 /\ l - n = 1 /\ 1 \in 1..(l - n) /\ 1 + n = l
            BY <2>3, <3>1, <3>5
        <5> QED
            BY <2>3, <5>1
      <4>2. toClient[l] = Final
          BY <1>i, <1>2, <2>7, <3>5
      <4> QED
          BY <2>2, <3>5, <4>1, <4>2
    <3> QED
        BY <3>3, <3>4, <3>5
  <2>10. /\ \A k \in 1..(l - n) : toClient'[k].kind = "END" =>
              \/ srv' = "result" /\ k = l - n
              \/ srv' \in {"close", "served"} /\ k = (l - n) - 1
      BY <1>i, <1>2, <2>2, <2>3, <2>4
  <2>11. srv' \in {"close", "served"} /\ toClient' # <<>> => toClient'[l - n] = Final'
      BY <1>i, <1>2, <2>2, <2>3, <2>5, <2>6, <2>7
  <2> HIDE DEF l
  <2> QED
      BY <2>3, <2>8, <2>9, <2>10, <2>11
<1>3. CASE Standing /\ CDrawsEof
  <2>1. /\ UNCHANGED <<srv, toClient, joined>> /\ toClient = <<>> /\ cli = "draws"
        /\ srv = "served" /\ cli' = "final"
      BY <1>3 DEF CDrawsEof, AtEof, client
  <2>2. joined
      BY <1>i, <1>3, <2>1
  <2> QED
      BY <1>i, <1>3, <2>1, <2>2
<1>4. CASE Standing /\ UNCHANGED vars
  <2>1. UNCHANGED <<srv, cli, toClient, joined>> /\ Final' = Final
      BY <1>4, FinalKept DEF vars, cards, client
  <2> QED
      BY <1>i, <1>4, <2>1
<1> QED
    BY <1>1, <1>2, <1>3, <1>4, StandingStep

-----------------------------------------------------------------------------
(* The screen of the client *)

LEMMA CardsRead ==
    ASSUME TypeOK, TurnInv, CCards
    PROVE  /\ cli = "cards" /\ cli' = "fgets" /\ srv = "read"
           /\ view'.player = player /\ view'.dealer = view.dealer
           /\ Len(text') = 1 /\ text'[1].len = first /\ text' \in Seq(Messages)
           /\ tail' = [b \in Ends |-> IF b < Length(text') THEN "char"
                                      ELSE IF b = Length(text') THEN "nul" ELSE tail[b]]
<1> DEFINE p == Parsed(text')
<1>1. cli = "cards" /\ cli' = "fgets" /\ Read(TRUE) /\ view' = [view EXCEPT !.player = p]
    BY Zenon DEF CCards
<1>2. PICK n \in 1..Len(toClient) : Reads(n, TRUE)
    BY <1>1, ReadFacts DEF TypeOK
<1>3. Len(toClient) # 0
    BY <1>2 DEF TypeOK
<1>4. srv = "read" /\ Len(toClient) = 1 /\ toClient[1].kind = "cards"
      /\ toClient[1].score = player /\ toClient[1].len = first
    BY <1>1, <1>3 DEF TurnInv, Quiet, Alone
<1>5. n = 1
    BY <1>2, <1>4
<1>6. /\ text' \in Seq(Messages) /\ Len(text') = 1 /\ text'[1] = toClient[1]
      /\ tail' = [b \in Ends |-> IF b < Length(text') THEN "char"
                                 ELSE IF b = Length(text') THEN "nul" ELSE tail[b]]
    BY <1>2, <1>5 DEF Reads
<1>7. p = player
    BY <1>4, <1>6 DEF Parsed
<1> HIDE DEF p
<1>8. view'.player = p /\ view'.dealer = view.dealer
    BY <1>1 DEF TypeOK
<1> QED
    BY <1>1, <1>4, <1>6, <1>7, <1>8

\* While END has not been read and the messages are read one by one, there is
\* something left to read.
LEMMA NoEofAlone ==
    ASSUME TypeOK, EndInv, Standing, cli # "final", toClient = <<>>,
           srv \in {"close", "served"}
    PROVE  joined
BY DEF EndInv, TypeOK

\* A message read alone in the dealer's turn is a card of his or END.
LEMMA ReadAlone ==
    ASSUME TypeOK, ConnInv, TurnInv, DealerInv, ResultInv, EndInv, CStand \/ CDraws, ~joined'
    PROVE  /\ Reads(1, TRUE) /\ Len(toClient) \in Nat \ {0} /\ ~joined
           /\ Card(toClient[1]) \/ (toClient[1].kind = "END" /\ CDraws)
           /\ cli \in {"stand", "draws"} /\ Standing
<1>1. PICK n \in 1..Len(toClient) : Reads(n, TRUE)
    BY ClientReads
<1>2. n = 1 /\ Len(toClient) \in Nat \ {0} /\ ~joined
    BY <1>1 DEF Reads, TypeOK
<1>3. cli \in {"stand", "draws"}
    BY DEF CStand, CDraws
<1>4. toClient # <<>> /\ 1 \in DOMAIN toClient /\ DOMAIN toClient = 1..Len(toClient)
    BY <1>2 DEF TypeOK
<1>5. Standing
    BY <1>3, <1>4 DEF Standing, TurnInv, Over, Quiet
<1>6. CASE CStand
  <2>1. Card(toClient[1])
      BY <1>4, <1>6 DEF CStand, TurnInv, Quiet
  <2> QED
      BY <1>1, <1>2, <1>3, <1>5, <2>1
<1>7. CASE CDraws
  <2>1. ASSUME toClient[1].kind \in Results PROVE FALSE
    <3>1. srv \in {"close", "served"} /\ Len(toClient) = 1
        BY <1>4, <2>1 DEF ResultInv
    <3>2. cli # "final"
        BY <1>3
    <3>3. PICK k \in 1..Len(toClient) : toClient[k].kind = "END"
        BY <1>2, <1>4, <1>5, <3>1, <3>2 DEF EndInv
    <3>4. k = 1
        BY <3>1, <3>3
    <3> QED
        BY <2>1, <3>3, <3>4 DEF Results
  <2>2. toClient[1].kind \in {"dealer", "draw", "END"} \cup Results
      BY <1>4, <1>5 DEF DealerInv
  <2> QED
      BY <1>1, <1>2, <1>3, <1>5, <1>7, <2>1, <2>2 DEF Card
<1> QED
    BY <1>6, <1>7

\* What the last of the dealer's cards says stays on the screen.
LEMMA DealerRead ==
    ASSUME TypeOK, ConnInv, TurnInv, DealerInv, ResultInv, EndInv, CStand \/ CDraws
    PROVE  /\ view'.player = view.player
           /\ cli' \in {"draws", "final"}
           /\ ~joined' /\ cli' = "final" => toClient[1].kind = "END" /\ view' = view
           /\ ~joined' /\ cli' = "draws" /\ (\A k \in DOMAIN toClient' : ~Card(toClient'[k])) =>
                 view'.dealer = dealer
<1> DEFINE p == Parsed(text')
           isEnd == Len(text') = 1 /\ text'[1].kind = "END"
<1>1. \/ CStand /\ cli' = "draws" /\ view' = [view EXCEPT !.dealer = p]
      \/ CDraws /\ isEnd /\ cli' = "final" /\ view' = view
      \/ CDraws /\ ~isEnd /\ cli' = "draws" /\ view' = [view EXCEPT !.dealer = p]
  <2>1. CASE CStand  BY <2>1, Zenon DEF CStand
  <2>2. CASE CDraws
    <3>1. /\ cli = "draws" /\ cli' = IF isEnd THEN "final" ELSE cli
          /\ view' = IF isEnd THEN view ELSE [view EXCEPT !.dealer = p]
        BY <2>2, Zenon DEF CDraws
    <3> HIDE DEF p, isEnd
    <3>2. CASE isEnd  BY <2>2, <3>1, <3>2
    <3>3. CASE ~isEnd  BY <2>2, <3>1, <3>3
    <3> QED
        BY <3>2, <3>3
  <2> QED
      BY <2>1, <2>2
<1>2. /\ view'.player = view.player /\ cli' \in {"draws", "final"}
      /\ cli' = "draws" => view'.dealer = p
  <2> HIDE DEF p, isEnd
  <2> QED
      BY <1>1 DEF TypeOK
<1>3. ASSUME ~joined' PROVE text'[1] = toClient[1] /\ Len(text') = 1
    BY <1>3, ReadAlone DEF Reads
<1>4. ASSUME ~joined', cli' = "final"
      PROVE  toClient[1].kind = "END" /\ view' = view
    BY <1>1, <1>3, <1>4
<1>5. ASSUME ~joined', cli' = "draws", \A k \in DOMAIN toClient' : ~Card(toClient'[k])
      PROVE  view'.dealer = dealer
  <2>1. /\ Reads(1, TRUE) /\ Len(toClient) \in Nat \ {0} /\ Standing
        /\ Card(toClient[1]) \/ (toClient[1].kind = "END" /\ CDraws)
      BY <1>5, ReadAlone
  <2>2. Card(toClient[1])
    <3>1. CASE CStand
      <4>1. cli = "stand"
          BY <3>1 DEF CStand
      <4>2. ~CDraws
          BY <4>1 DEF CDraws
      <4> QED
          BY <2>1, <4>2
    <3>2. CASE CDraws /\ ~isEnd
        BY <1>3, <1>5, <2>1, <3>2
    <3> QED
        BY <1>1, <1>5, <3>1, <3>2
  <2>3. 1 \in DOMAIN toClient /\ DOMAIN toClient' = 1..(Len(toClient) - 1)
        /\ \A k \in 1..(Len(toClient) - 1) : toClient'[k] = toClient[k + 1]
      BY <2>1 DEF Reads, TypeOK
  <2>4. toClient[1].score = dealer \/ (1 < Len(toClient) /\ Card(toClient[1 + 1]))
      BY <2>1, <2>2, <2>3 DEF DealerInv
  <2>5. 1 < Len(toClient) => ~Card(toClient[1 + 1])
    <3>1. 1 < Len(toClient) => 1 \in 1..(Len(toClient) - 1)
        BY <2>1
    <3> QED
        BY <1>5, <2>3, <3>1
  <2>6. toClient[1].score = dealer
      BY <2>4, <2>5
  <2>7. p = toClient[1].score
    <3>1. Len(text') = 1 /\ text'[1] = toClient[1] /\ text'[1].kind # "END"
        BY <1>3, <1>5, <2>2 DEF Card
    <3>2. p = text'[1].score
        BY <3>1 DEF Parsed
    <3> HIDE DEF p
    <3> QED
        BY <3>1, <3>2
  <2> HIDE DEF p
  <2> QED
      BY <1>2, <1>5, <2>6, <2>7
<1> QED
    BY <1>2, <1>4, <1>5

LEMMA ScreenStep ==
    ASSUME TypeOK, ConnInv, TurnInv, DealerInv, ResultInv, EndInv, ScreenInv, [Next]_vars
    PROVE  ScreenInv'
<1>t. toClient \in Seq(Messages) /\ player \in Nat /\ dealer \in Nat
    BY DEF TypeOK
<1>1. CASE Server
  <2>1. UNCHANGED <<cli, view, joined, announced>>
      BY <1>1, ServerSteps DEF client
  <2>2. CASE Silent
    <3>1. UNCHANGED <<toClient, player, dealer>> /\ Outcome' = Outcome
        BY <2>2, FinalKept DEF Silent
    <3>2. srv \in {"close", "served"} => srv' \in {"close", "served"}
        BY <2>2 DEF Silent
    <3> QED
        BY <2>1, <3>1, <3>2 DEF ScreenInv, Card
  <2>3. CASE cli = "done" /\ toClient' = <<>> /\ srv \notin {"close", "served"}
      BY <2>1, <2>3 DEF ScreenInv
  <2>4. CASE cli # "done" /\ \E m \in Messages : Sent(m, srv') /\ Sending(m)
    <3>1. PICK m \in Messages : Sent(m, srv') /\ Sending(m)
        BY <2>4
    <3>2. announced = "nothing"
        BY <3>1 DEF Sending, ScreenInv
    <3>3. cli \in {"fgets", "stand", "draws", "final"} => player' = player
      <4>1. cli \in {"fgets", "stand", "draws", "final"} => srv \notin {"deal", "hit"}
          BY DEF TurnInv, Quiet, Over
      <4> QED
          BY <3>1, <4>1 DEF Sending
    <3>4. cli = "final" /\ ~joined => dealer' = dealer
      <4>1. cli = "final" /\ ~joined => srv \in {"result", "close", "served"}
          BY DEF EndInv
      <4> QED
          BY <3>1, <4>1 DEF Sending
    <3>5. ASSUME cli = "draws", ~joined, \A k \in DOMAIN toClient' : ~Card(toClient'[k])
          PROVE  view.dealer = dealer'
      <4>1. /\ DOMAIN toClient' = 1..(Len(toClient) + 1) /\ DOMAIN toClient = 1..Len(toClient)
            /\ toClient'[Len(toClient) + 1] = m
            /\ \A k \in 1..Len(toClient) : toClient'[k] = toClient[k]
            /\ Len(toClient) + 1 \in 1..(Len(toClient) + 1)
            /\ \A k \in 1..Len(toClient) : k \in 1..(Len(toClient) + 1)
        <5>1. toClient' \in Seq(Messages)
            BY TypeStep DEF TypeOK
        <5> QED
            BY <1>t, <3>1, <5>1 DEF Sent
      <4>2. ~Card(m) /\ \A k \in DOMAIN toClient : ~Card(toClient[k])
          BY <3>5, <4>1
      <4>3. srv \notin {"deal", "hit"}
          BY <3>5 DEF TurnInv, Over
      <4>4. dealer' = dealer
          BY <3>1, <4>2, <4>3 DEF Sending, Card
      <4> QED
          BY <3>5, <4>2, <4>4 DEF ScreenInv
    <3> QED
        BY <2>1, <3>2, <3>3, <3>4, <3>5 DEF ScreenInv
  <2> QED
      BY <1>1, <2>2, <2>3, <2>4, ServerSteps
<1>2. CASE CCards
  <2>1. /\ cli = "cards" /\ cli' = "fgets"
        /\ view'.player = player /\ view'.dealer = view.dealer
      BY <1>2, CardsRead
  <2>2. UNCHANGED <<srv, player, dealer, announced>> /\ Outcome' = Outcome
      BY <1>2, ClientReads, FinalKept DEF cards
  <2> QED
      BY <2>1, <2>2 DEF ScreenInv
<1>3. CASE CHit
  <2>1. cli = "hit" /\ cli' \in {"close", "fgets"} /\ view' = [view EXCEPT !.player = player]
      BY <1>3, HitRead
  <2>2. view'.player = player /\ view'.dealer = view.dealer
      BY <2>1 DEF TypeOK
  <2>3. UNCHANGED <<srv, player, dealer, announced>> /\ Outcome' = Outcome
      BY <1>3, ClientReads, FinalKept DEF cards
  <2> QED
      BY <2>1, <2>2, <2>3 DEF ScreenInv
<1>4. CASE CStand \/ CDraws
  <2>1. UNCHANGED <<srv, player, dealer, announced>> /\ Outcome' = Outcome
      BY <1>4, ClientReads, FinalKept DEF cards
  <2>2. view'.player = player /\ cli' \in {"draws", "final"}
      BY <1>4, DealerRead DEF ScreenInv, CStand, CDraws
  <2>3. cli' = "draws" /\ ~joined' /\ (\A k \in DOMAIN toClient' : ~Card(toClient'[k])) =>
          view'.dealer = dealer
      BY <1>4, DealerRead
  <2>4. ASSUME cli' = "final", ~joined' PROVE view'.dealer = dealer
    <3>1. toClient[1].kind = "END" /\ view' = view
        BY <1>4, <2>4, DealerRead
    <3>2. Standing /\ ~joined /\ Len(toClient) \in Nat \ {0}
        BY <1>4, <2>4, ReadAlone
    <3>3. cli = "draws"
        BY <1>4, <2>4 DEF CStand, CDraws
    <3>4. \A k \in DOMAIN toClient : ~Card(toClient[k])
      <4> SUFFICES ASSUME NEW k \in DOMAIN toClient, Card(toClient[k]) PROVE FALSE
          OBVIOUS
      <4>1. 1 \in 1..k
          BY <1>t
      <4>2. Card(toClient[1])
          BY <3>2, <4>1 DEF DealerInv
      <4> QED
          BY <3>1, <4>2 DEF Card
    <3> QED
        BY <3>1, <3>2, <3>3, <3>4 DEF ScreenInv
  <2> QED
      BY <2>1, <2>2, <2>3, <2>4 DEF ScreenInv
<1>5. CASE CDrawsEof
  <2>1. /\ UNCHANGED <<srv, player, dealer, announced, view, joined>> /\ Outcome' = Outcome
        /\ cli = "draws" /\ cli' = "final" /\ toClient = <<>> /\ srv = "served"
      BY <1>5, FinalKept DEF CDrawsEof, AtEof, cards, client
  <2>2. joined
      BY <2>1, NoEofAlone DEF Standing, Over
  <2> QED
      BY <2>1, <2>2 DEF ScreenInv
<1>6. CASE CFinal
  <2>1. UNCHANGED <<srv, player, dealer, view>> /\ Outcome' = Outcome
        /\ cli = "final" /\ cli' = "close"
      BY <1>6, FinalKept DEF CFinal, cards
  <2>2. announced' # "nothing" => announced' = Outcome /\ srv \in {"close", "served"}
      BY <1>6, FinalRead
  <2>3. player <= Limit
      BY <2>1 DEF TurnInv
  <2> QED
      BY <2>1, <2>2, <2>3 DEF ScreenInv
<1>7. CASE CConnect \/ (\E choice \in {"h", "s"} : CChoose(choice))
  <2>1. /\ UNCHANGED <<srv, player, dealer, announced, view, joined>> /\ Outcome' = Outcome
        /\ \/ cli = "connect" /\ cli' = "cards"
           \/ cli = "fgets" /\ cli' \in {"hit", "stand"}
      BY <1>7, FinalKept DEF CConnect, CChoose, cards, client
  <2> QED
      BY <2>1 DEF ScreenInv
<1>8. CASE CClose \/ CLeave
  <2>1. UNCHANGED <<srv, player, dealer, announced>> /\ Outcome' = Outcome /\ cli' = "done"
      BY <1>8, FinalKept DEF CClose, CLeave, Close, cards, client
  <2> QED
      BY <2>1 DEF ScreenInv
<1>9. CASE UNCHANGED vars
  <2>1. UNCHANGED <<srv, cli, toClient, player, dealer, announced, view, joined>>
        /\ Outcome' = Outcome
      BY <1>9, FinalKept DEF vars, cards, client
  <2> QED
      BY <2>1 DEF ScreenInv
<1> QED
    BY <1>1, <1>2, <1>3, <1>4, <1>5, <1>6, <1>7, <1>8, <1>9 DEF Next, Client, Player

-----------------------------------------------------------------------------
(* The bytes of recvline behind the final message *)

LEMMA OneMessage ==
    ASSUME NEW s \in Seq(Messages), Len(s) = 1
    PROVE  s = <<s[1]>> /\ s[1].len \in Int
<1>1. s[1] \in Messages
    OBVIOUS
<1>2. <<s[1]>> \in Seq(Messages) /\ Len(<<s[1]>>) = 1 /\ \A k \in 1..1 : s[k] = <<s[1]>>[k]
    BY <1>1
<1>3. s = <<s[1]>>
    BY <1>2, SeqEqual
<1> QED
    BY <1>1, <1>3 DEF Messages

\* A read of one message leaves its zero, or nothing, where it ends.
LEMMA TailOfOne ==
    ASSUME NEW terminated, NEW b \in Ends, text' \in Seq(Messages), Len(text') = 1,
           tail' = [e \in Ends |-> IF e < Length(text') THEN "char"
                                   ELSE IF e = Length(text') /\ terminated THEN "nul"
                                   ELSE tail[e]]
    PROVE  tail'[b] = IF b < text'[1].len THEN "char"
                      ELSE IF b = text'[1].len /\ terminated THEN "nul" ELSE tail[b]
<1>1. text' = <<text'[1]>> /\ text'[1].len \in Int
    BY OneMessage
<1>2. Length(<<text'[1]>>) = text'[1].len
    BY <1>1, LengthOfOne
<1>3. Length(text') = text'[1].len
    BY <1>1, <1>2
<1> QED
    BY <1>3

LEMMA TailKept ==
    ASSUME TypeOK, ConnInv, TurnInv, DealerInv, ResultInv, EndInv, TailInv, ~joined',
           CHit \/ CStand \/ CDraws, first \in Ends
    PROVE  tail'[first] = "nul"
<1>1. Reads(1, TRUE) /\ Len(toClient) >= 1 /\ ~joined
  <2>1. PICK n \in 1..Len(toClient) : Reads(n, TRUE)
      BY ClientReads
  <2> QED
      BY <2>1 DEF Reads, TypeOK
<1>2. toClient[1].kind \notin Results \cup {"cards"}
  <2>1. CASE CHit
    <3>1. toClient # <<>> /\ cli = "hit"
        BY <1>1, <2>1 DEF CHit, TypeOK
    <3> QED
        BY <3>1 DEF TurnInv, Quiet, Alone, Results
  <2>2. CASE CStand \/ CDraws
      BY <2>2, ReadAlone DEF Card, Results
  <2> QED
      BY <2>1, <2>2
<1>3. toClient[1].len <= 8 /\ text'[1] = toClient[1] /\ toClient[1] \in Messages
    BY <1>1, <1>2 DEF TailInv, TypeOK, Reads
<1>4. tail[first] = "nul"
  <2>1. cli \in {"hit", "stand", "draws"}
      BY DEF CHit, CStand, CDraws
  <2> QED
      BY <1>1, <2>1 DEF TailInv
<1>5. tail'[first] = IF first < text'[1].len THEN "char"
                     ELSE IF first = text'[1].len THEN "nul" ELSE tail[first]
    BY <1>1, TailOfOne DEF Reads
<1>6. first \in 8..10 /\ text'[1].len \in Nat /\ text'[1].len <= 8
    BY <1>3 DEF Ends, Messages
<1> QED
    BY <1>4, <1>5, <1>6

\* The final message, read alone, is understood if recvline has its zero.
LEMMA FinalAlone ==
    ASSUME TypeOK, TurnInv, DealerInv, ResultInv, EndInv, TailInv, CFinal, ~joined'
    PROVE  srv \in {"close", "served"} /\ (first = Final.len => announced' = Outcome)
<1>1. /\ cli = "final"
      /\ Read(FALSE) \/ (AtEof /\ UNCHANGED <<toClient, text, tail, joined>>)
    BY DEF CFinal
<1>2. ~joined
  <2>1. CASE Read(FALSE)
    <3>1. PICK n \in 1..Len(toClient) : Reads(n, FALSE)
        BY <2>1, ReadFacts DEF TypeOK
    <3> QED
        BY <3>1 DEF Reads
  <2> QED
      BY <1>1, <2>1
<1>3. \/ srv = "result" /\ toClient = <<>>
      \/ srv \in {"close", "served"} /\ Len(toClient) = 1 /\ toClient[1] = Final
    BY <1>1, <1>2 DEF EndInv
<1>4. Read(FALSE)
  <2>1. ~AtEof
      BY <1>3 DEF AtEof
  <2> QED
      BY <1>1, <2>1, Zenon
<1>5. PICK n \in 1..Len(toClient) : Reads(n, FALSE)
    BY <1>4, ReadFacts DEF TypeOK
<1>6. srv \in {"close", "served"} /\ Len(toClient) = 1 /\ toClient[1] = Final
    BY <1>3, <1>5
<1>7. n = 1 /\ text' \in Seq(Messages) /\ Len(text') = 1 /\ text'[1] = Final
    BY <1>5, <1>6 DEF Reads
<1>8. ASSUME first = Final.len PROVE announced' = Outcome
  <2>1. Final.len \in Ends /\ Final.len \in Int
      BY <1>6, FinalRead DEF Ends
  <2>2. tail[Final.len] = "nul"
      BY <1>1, <1>2, <1>8, <2>1 DEF TailInv
  <2>3. tail'[Final.len] = IF Final.len < text'[1].len THEN "char"
                           ELSE IF Final.len = text'[1].len /\ FALSE THEN "nul"
                           ELSE tail[Final.len]
      BY <1>5, <1>7, <2>1, TailOfOne DEF Reads
  <2>4. tail'[Final.len] = "nul"
      BY <1>7, <2>1, <2>2, <2>3
  <2> QED
      BY <1>7, <2>4, FinalRead
<1> QED
    BY <1>6, <1>8

LEMMA TailStep ==
    ASSUME TypeOK, TypeOK', ConnInv, TurnInv, DealerInv, ResultInv, EndInv, ScreenInv, TailInv,
           [Next]_vars
    PROVE  TailInv'
<1>t. /\ toClient \in Seq(Messages) /\ toClient' \in Seq(Messages)
      /\ DOMAIN toClient = 1..Len(toClient) /\ DOMAIN toClient' = 1..Len(toClient')
    BY DEF TypeOK
<1>1. CASE Server
  <2>1. UNCHANGED <<cli, view, joined, announced, tail, left>>
      BY <1>1, ServerSteps DEF client, exits
  <2>2. CASE Silent
    <3>1. UNCHANGED <<toClient, first>> /\ Final' = Final /\ Outcome' = Outcome
        BY <2>2, FinalKept DEF Silent
    <3>2. srv \in {"close", "served"} => srv' \in {"close", "served"}
        BY <2>2 DEF Silent
    <3> QED
        BY <2>1, <3>1, <3>2 DEF TailInv
  <2>3. CASE cli = "done" /\ toClient' = <<>> /\ srv \notin {"close", "served"}
      BY <2>1, <2>3 DEF TailInv
  <2>4. CASE cli # "done" /\ \E m \in Messages : Sent(m, srv') /\ Sending(m)
    <3>1. PICK m \in Messages : Sent(m, srv') /\ Sending(m)
        BY <2>4
    <3>2. m.kind \notin Results \cup {"cards"} => m.len <= 8
        BY <3>1, FinalFacts DEF Sending
    <3>3. \A k \in DOMAIN toClient' : k \in DOMAIN toClient \/ k = Len(toClient) + 1
        BY <1>t, <3>1 DEF Sent
    <3>4. \A k \in DOMAIN toClient' : toClient'[k].kind \notin Results \cup {"cards"} =>
             toClient'[k].len <= 8
        BY <1>t, <3>1, <3>2, <3>3 DEF Sent, TailInv
    <3>5. cli \in {"fgets", "hit", "stand", "draws", "final"} => first' = first
      <4>1. cli \in {"fgets", "hit", "stand", "draws", "final"} => srv # "deal"
          BY DEF TurnInv, Over
      <4> QED
          BY <3>1, <4>1 DEF Sending
    <3>6. ~(cli \in {"close", "done"} /\ view.dealer # 0 /\ ~left /\ ~joined)
        BY <3>1 DEF TailInv, Sending
    <3> QED
        BY <2>1, <3>4, <3>5, <3>6 DEF TailInv
  <2> QED
      BY <1>1, <2>2, <2>3, <2>4, ServerSteps
<1>2. ASSUME CCards \/ CHit \/ CStand \/ CDraws \/ CFinal
      PROVE  /\ \A k \in DOMAIN toClient' : toClient'[k].kind \notin Results \cup {"cards"} =>
                   toClient'[k].len <= 8
             /\ UNCHANGED <<srv, first, left>> /\ Final' = Final /\ Outcome' = Outcome
  <2>1. UNCHANGED <<srv, first, left>> /\ Final' = Final /\ Outcome' = Outcome
      BY <1>2, FinalKept DEF CCards, CHit, CStand, CDraws, CFinal, cards, exits
  <2>2. ASSUME NEW terminated, NEW n \in 1..Len(toClient), Reads(n, terminated)
        PROVE  \A k \in DOMAIN toClient' : toClient'[k].kind \notin Results \cup {"cards"} =>
                   toClient'[k].len <= 8
    <3>1. \A k \in DOMAIN toClient' : k + n \in DOMAIN toClient /\ toClient'[k] = toClient[k + n]
        BY <1>t, <2>2 DEF Reads
    <3> QED
        BY <3>1 DEF TailInv
  <2>3. CASE CCards \/ CHit \/ CStand \/ CDraws
      BY <2>1, <2>2, <2>3, ClientReads
  <2>4. CASE CFinal /\ Read(FALSE)
      BY <1>t, <2>1, <2>2, <2>4, ReadFacts
  <2>5. CASE CFinal /\ ~Read(FALSE)
    <3>1. toClient' = toClient
        BY <2>5 DEF CFinal
    <3> QED
        BY <2>1, <3>1 DEF TailInv
  <2> QED
      BY <1>2, <2>3, <2>4, <2>5
<1>3. CASE CCards
  <2>1. first \in Ends => tail'[first] = "nul"
    <3>1. /\ Len(text') = 1 /\ text'[1].len = first /\ text' \in Seq(Messages)
          /\ tail' = [b \in Ends |-> IF b < Length(text') THEN "char"
                                     ELSE IF b = Length(text') THEN "nul" ELSE tail[b]]
        BY <1>3, CardsRead
    <3>2. first \in Ends => tail'[first] =
             IF first < text'[1].len THEN "char"
             ELSE IF first = text'[1].len /\ TRUE THEN "nul" ELSE tail[first]
        BY <3>1, TailOfOne
    <3> QED
        BY <3>1, <3>2 DEF Ends
  <2>2. cli' = "fgets"
      BY <1>3 DEF CCards
  <2> QED
      BY <1>2, <1>3, <2>1, <2>2 DEF TailInv
<1>4. CASE CHit
  <2>1. /\ cli = "hit" /\ cli' \in {"close", "fgets"}
        /\ view' = [view EXCEPT !.player = player]
      BY <1>4, HitRead
  <2>2. view'.dealer = 0
      BY <2>1 DEF TypeOK, ScreenInv
  <2>3. ~joined' /\ first \in Ends => tail'[first] = "nul"
      BY <1>4, TailKept
  <2> QED
      BY <1>2, <1>4, <2>1, <2>2, <2>3 DEF TailInv
<1>5. CASE CStand \/ CDraws
  <2>1. ~joined' /\ first \in Ends => tail'[first] = "nul"
      BY <1>5, TailKept
  <2>2. cli' \in {"draws", "final"}
      BY <1>5, DealerRead
  <2> QED
      BY <1>2, <1>5, <2>1, <2>2 DEF TailInv
<1>6. CASE CDrawsEof
  <2>1. /\ UNCHANGED <<srv, toClient, joined>> /\ cli = "draws" /\ cli' = "final"
        /\ toClient = <<>> /\ srv = "served"
      BY <1>6 DEF CDrawsEof, AtEof, client
  <2>2. joined
      BY <2>1, NoEofAlone DEF Standing, Over
  <2> QED
      BY <2>1, <2>2 DEF TailInv
<1>7. CASE CFinal
  <2>1. cli' = "close"
      BY <1>7 DEF CFinal
  <2>2. ~joined' => srv \in {"close", "served"} /\ (first = Final.len => announced' = Outcome)
      BY <1>7, FinalAlone
  <2> QED
      BY <1>2, <1>7, <2>1, <2>2 DEF TailInv
<1>8. CASE CConnect \/ (\E choice \in {"h", "s"} : CChoose(choice))
  <2>1. /\ UNCHANGED <<first, joined, tail, toClient>>
        /\ \/ cli = "connect" /\ cli' = "cards"
           \/ cli = "fgets" /\ cli' \in {"hit", "stand"}
      BY <1>8 DEF CConnect, CChoose, cards, client
  <2> QED
      BY <2>1 DEF TailInv
<1>9. CASE CClose
  <2>1. /\ UNCHANGED <<srv, first, joined, left, announced, view>> /\ Final' = Final
        /\ Outcome' = Outcome /\ cli = "close" /\ cli' = "done" /\ toClient' = <<>>
      BY <1>9, FinalKept DEF CClose, Close, cards, client
  <2> QED
      BY <2>1 DEF TailInv
<1>10. CASE CLeave
  <2>1. left' /\ cli' = "done" /\ toClient' = <<>>
      BY <1>10 DEF CLeave, Close
  <2> QED
      BY <2>1 DEF TailInv
<1>11. CASE UNCHANGED vars
  <2>1. UNCHANGED <<srv, cli, toClient, first, announced, view, joined, tail, left>>
        /\ Outcome' = Outcome /\ Final' = Final
      BY <1>11, FinalKept DEF vars, cards, client, exits
  <2> QED
      BY <2>1 DEF TailInv
<1> QED
    BY <1>1, <1>3, <1>4, <1>5, <1>6, <1>7, <1>8, <1>9, <1>10, <1>11 DEF Next, Client, Player

-----------------------------------------------------------------------------
(* The inductive invariant *)

Inv == /\ TypeOK /\ ConnInv /\ TurnInv /\ DealerInv /\ ResultInv /\ EndInv
       /\ ScreenInv /\ TailInv

LEMMA InitInv == Init => Inv
<1> SUFFICES ASSUME Init PROVE Inv
    OBVIOUS
<1>1. TypeOK
  <2>1. <<>> \in Seq(Messages)
      BY EmptySeq
  <2>2. toClient \in Seq(Messages) /\ text \in Seq(Messages)
      BY <2>1, Zenon DEF Init
  <2>3. joined \in BOOLEAN /\ left \in BOOLEAN /\ leftEarly \in BOOLEAN
      BY Zenon DEF Init
  <2>4. /\ deck \in [Ranks -> 0..4] /\ tail \in [Ends -> {"junk", "char", "nul"}]
        /\ view \in [player : Nat \cup {Garbled}, dealer : Nat \cup {Garbled}]
      BY DEF Init
  <2>5. /\ srv = "accept" /\ cli = "connect" /\ player = 0 /\ dealer = 0 /\ hand = <<>>
        /\ first = 0 /\ toServer = "none" /\ conn = "open" /\ announced = "nothing"
      BY DEF Init
  <2> QED
      BY <2>2, <2>3, <2>4, <2>5 DEF TypeOK
<1>2. ConnInv /\ TurnInv
    BY DEF Init, ConnInv, TurnInv, Quiet
<1>3. DealerInv /\ ResultInv /\ EndInv
    BY DEF Init, DealerInv, ResultInv, EndInv, Standing
<1>4. ScreenInv /\ TailInv
    BY DEF Init, ScreenInv, TailInv
<1> QED
    BY <1>1, <1>2, <1>3, <1>4 DEF Inv

LEMMA Invariant == Spec => []Inv
<1>1. Init => Inv
    BY InitInv
<1>2. Inv /\ [Next]_vars => Inv'
  <2> SUFFICES ASSUME Inv, [Next]_vars PROVE Inv'
      OBVIOUS
  <2>1. TypeOK' /\ ConnInv' /\ TurnInv'
      BY TypeStep, ConnStep, TurnStep DEF Inv
  <2>2. DealerInv' /\ ResultInv'
      BY <2>1, DealerStep, ResultStep DEF Inv
  <2>3. EndInv' /\ ScreenInv' /\ TailInv'
      BY <2>1, EndStep, ScreenStep, TailStep DEF Inv
  <2> QED
      BY <2>1, <2>2, <2>3 DEF Inv
<1> QED
    BY <1>1, <1>2, PTL DEF Spec

\* Type correctness: no score, message or byte of recvline leaves its range, and the
\* deck does not run out of a rank below zero (bj_server.c:57-140, bj_client.c:34-124).
THEOREM TypeCorrect == Spec => []TypeOK
<1>1. Inv => TypeOK
    BY DEF Inv
<1> QED
    BY <1>1, Invariant, PTL

\* The server is ended by SIGPIPE or err() only if its client had closed before END
\* was written (bj_server.c:67-128).
THEOREM OnlyEarlyLeavers == Spec => []LostOnlyToEarlyLeave
<1>1. Inv => LostOnlyToEarlyLeave
    BY DEF Inv, ConnInv, LostOnlyToEarlyLeave
<1> QED
    BY <1>1, Invariant, PTL

\* A player who is asked sees the true score and has not lost, and one who has come
\* to the end message by message sees both scores (bj_client.c:52-102).
THEOREM ScoresAreTrue == Spec => []ViewAgrees
<1>1. Inv => ViewAgrees
  <2> SUFFICES ASSUME Inv PROVE ViewAgrees
      OBVIOUS
  <2>1. cli = "fgets" => view.player = player /\ player <= Limit
      BY DEF Inv, ScreenInv, TurnInv
  <2>2. cli = "final" /\ ~joined => view = [player |-> player, dealer |-> dealer]
      BY DEF Inv, ScreenInv, TypeOK
  <2> QED
      BY <2>1, <2>2 DEF ViewAgrees
<1> QED
    BY <1>1, Invariant, PTL

\* The outcome the server computes by comparisons is the one of the two worths.
LEMMA OutcomeByWorth ==
    ASSUME player \in Nat, dealer \in Nat, player >= 1, player <= Limit
    PROVE  Outcome = CASE Worth(dealer) > player -> "LOSE"
                       [] Worth(dealer) < player -> "WIN"
                       [] Worth(dealer) = player -> "TIE"
BY DEF Outcome, Worth, Limit

\* Whatever the reads return together and whatever recvline held before, the client
\* announces the result of the game or none, and the result if the zero behind the
\* first message stands where the last one ends (bj_client.c:42, 108-122).
THEOREM ResultIsRight == Spec => []ResultRight
<1>1. Inv => ResultRight
  <2> SUFFICES ASSUME Inv PROVE ResultRight
      OBVIOUS
  <2>1. NeverWrongResult
    <3> SUFFICES ASSUME announced # "nothing"
                 PROVE  /\ player <= Limit
                        /\ announced = CASE Worth(dealer) > player -> "LOSE"
                                         [] Worth(dealer) < player -> "WIN"
                                         [] Worth(dealer) = player -> "TIE"
        BY Zenon DEF NeverWrongResult
    <3>1. srv \in {"close", "served"} /\ player <= Limit /\ announced = Outcome
        BY DEF Inv, ScreenInv
    <3>2. player \in Nat /\ dealer \in Nat /\ player >= 1
        BY <3>1 DEF Inv, TurnInv, TypeOK
    <3> QED
        BY <3>1, <3>2, OutcomeByWorth
  <2>2. AnnouncedIfTailClear
      BY DEF Inv, TailInv, AnnouncedIfTailClear
  <2> QED
      BY <2>1, <2>2 DEF ResultRight
<1> QED
    BY <1>1, Invariant, PTL

=============================================================================
