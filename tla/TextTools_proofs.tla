-------------------------- MODULE TextTools_proofs --------------------------
(***************************************************************************)
(* Proofs about TextTools, for any texts, lines, modes, entries, words,    *)
(* lengths and positions: an invariant of each of its programs, with what  *)
(* the program has counted so far, and what follows for what it writes.    *)
(***************************************************************************)
EXTENDS Programs, FiniteSetTheorems, SequenceTheorems, WellFoundedInduction, TLAPS

-----------------------------------------------------------------------------
(* Counting what a sequence holds *)

\* Where y is in s, from the l-th place to the m-th.
Places(y, s, l, m) == {q \in l..m : s[q] = y}
Count(y, s, l, m) == Cardinality(Places(y, s, l, m))

\* They are finitely many.
LEMMA PlacesFinite ==
    ASSUME NEW y, NEW s, NEW l \in Int, NEW m \in Int
    PROVE  IsFiniteSet(Places(y, s, l, m)) /\ Count(y, s, l, m) \in Nat
  <1>1. IsFiniteSet(l..m) /\ Places(y, s, l, m) \in SUBSET (l..m)
    BY FS_Interval DEF Places
  <1>2. IsFiniteSet(Places(y, s, l, m))
    BY <1>1, FS_Subset
  <1> QED BY <1>2, FS_CardinalityType DEF Count

\* One place more, at the end and at the beginning.
LEMMA CountUp ==
    ASSUME NEW y, NEW s, NEW l \in Int, NEW m \in Int, l <= m + 1
    PROVE  /\ s[m + 1] = y => Count(y, s, l, m + 1) = Count(y, s, l, m) + 1
           /\ s[m + 1] # y => Count(y, s, l, m + 1) = Count(y, s, l, m)
  <1>1. m + 1 \notin Places(y, s, l, m)
    BY DEF Places
  <1>2. s[m + 1] = y => Places(y, s, l, m + 1) = Places(y, s, l, m) \cup {m + 1}
    BY DEF Places
  <1>3. s[m + 1] # y => Places(y, s, l, m + 1) = Places(y, s, l, m)
    BY DEF Places
  <1>4. Cardinality(Places(y, s, l, m) \cup {m + 1}) = Cardinality(Places(y, s, l, m)) + 1
    BY <1>1, PlacesFinite, FS_AddElement
  <1> QED BY <1>2, <1>3, <1>4 DEF Count

LEMMA CountDown ==
    ASSUME NEW y, NEW s, NEW l \in Int, NEW m \in Int, l <= m
    PROVE  /\ s[l] = y => Count(y, s, l, m) = Count(y, s, l + 1, m) + 1
           /\ s[l] # y => Count(y, s, l, m) = Count(y, s, l + 1, m)
  <1>1. l \notin Places(y, s, l + 1, m) /\ l + 1 \in Int
    BY DEF Places
  <1>2. s[l] = y => Places(y, s, l, m) = Places(y, s, l + 1, m) \cup {l}
    BY DEF Places
  <1>3. s[l] # y => Places(y, s, l, m) = Places(y, s, l + 1, m)
    BY DEF Places
  <1>4. Cardinality(Places(y, s, l + 1, m) \cup {l}) = Cardinality(Places(y, s, l + 1, m)) + 1
    BY <1>1, PlacesFinite, FS_AddElement
  <1> QED BY <1>2, <1>3, <1>4 DEF Count

\* There is none if and only if each place holds something else.
LEMMA CountNone ==
    ASSUME NEW y, NEW s, NEW l \in Int, NEW m \in Int
    PROVE  /\ Count(y, s, l, m) = 0 <=> \A q \in l..m : s[q] # y
           /\ l > m => Count(y, s, l, m) = 0
  <1>1. Count(y, s, l, m) = 0 <=> Places(y, s, l, m) = {}
    BY PlacesFinite, FS_EmptySet DEF Count
  <1>2. Places(y, s, l, m) = {} <=> \A q \in l..m : s[q] # y
    BY DEF Places
  <1> QED BY <1>1, <1>2

\* A letter put in place of y leaves one y less, and as many of every other letter.
LEMMA CountStruck ==
    ASSUME NEW T, NEW s \in Seq(T), NEW h \in 1..Len(s), NEW y, NEW e, s[h] = y, e # y
    PROVE  LET u == Computing!ReplaceAt(s, h, e)
           IN  /\ Count(y, u, 1, Len(s)) = Count(y, s, 1, Len(s)) - 1
               /\ \A v : v # y /\ v # e => Count(v, u, 1, Len(s)) = Count(v, s, 1, Len(s))
               /\ Len(u) = Len(s) /\ u \in Seq(T \cup {e})
  <1> DEFINE u == Computing!ReplaceAt(s, h, e)
  <1>1. u = [s EXCEPT ![h] = e] /\ DOMAIN s = 1..Len(s) /\ Len(s) \in Nat
    BY DEF Computing!ReplaceAt
  <1> HIDE DEF u
  <1>2. /\ DOMAIN u = 1..Len(s) /\ u[h] = e
        /\ \A q \in 1..Len(s) : q # h => u[q] = s[q]
        /\ \A q \in 1..Len(s) : u[q] \in T \cup {e}
    BY <1>1
  <1>3. u \in Seq(T \cup {e}) /\ Len(u) = Len(s)
    BY <1>1, <1>2, LenProperties
  <1>4. Places(y, u, 1, Len(s)) = Places(y, s, 1, Len(s)) \ {h} /\ h \in Places(y, s, 1, Len(s))
    BY <1>2 DEF Places
  <1>5. ASSUME NEW v, v # y, v # e PROVE Places(v, u, 1, Len(s)) = Places(v, s, 1, Len(s))
    BY <1>5, <1>2 DEF Places
  <1>6. Cardinality(Places(y, u, 1, Len(s))) = Cardinality(Places(y, s, 1, Len(s))) - 1
    <2>1. IsFiniteSet(Places(y, s, 1, Len(s)))
      BY <1>1, PlacesFinite
    <2> QED BY <1>4, <2>1, FS_RemoveElement
  <1> QED BY <1>3, <1>5, <1>6 DEF Count, u

\* The place found is the first one, or 0.
LEMMA PlaceFound ==
    ASSUME NEW T, NEW s \in Seq(T), NEW y
    PROVE  LET h == Computing!SelectInSeq(s, LAMBDA e : e = y)
           IN  /\ h = 0 <=> Count(y, s, 1, Len(s)) = 0
               /\ h # 0 => h \in 1..Len(s) /\ s[h] = y
  <1> DEFINE h == Computing!SelectInSeq(s, LAMBDA e : e = y)
             I == {q \in 1..Len(s) : s[q] = y}
  <1>1. h = IF I # {} THEN Computing!Min(I) ELSE 0
    BY DEF Computing!SelectInSeq
  <1>2. ASSUME I # {} PROVE Computing!Min(I) \in I
    <2>1. I \subseteq Nat
      OBVIOUS
    <2> HIDE DEF I
    <2>2. PICK a \in I : \A b \in I : <<b, a>> \notin OpToRel(<, Nat)
      BY <1>2, <2>1, WFMin, NatLessThanWellFounded
    <2>3. a \in I /\ a \in Nat
      BY <2>1, <2>2
    <2>4. \A b \in I : b < a => <<b, a>> \in OpToRel(<, Nat)
      BY <2>1, <2>3, Zenon DEF OpToRel
    <2>5. \A b \in I : ~(b < a)
      BY <2>2, <2>4, Zenon
    <2>6. \A b \in I : a <= b
      BY <2>1, <2>3, <2>5
    <2> QED BY <2>3, <2>6, Zenon DEF Computing!Min
  <1>3. I = Places(y, s, 1, Len(s))
    BY DEF Places
  <1>4. Len(s) \in Nat /\ (I = {} <=> Count(y, s, 1, Len(s)) = 0)
    BY <1>3, CountNone DEF Places
  <1>5. I # {} => h \in I
    BY <1>1, <1>2
  <1>6. h = 0 <=> I = {}
    <2>1. 0 \notin I
      OBVIOUS
    <2> QED BY <1>1, <1>5, <2>1
  <1> HIDE DEF h
  <1>7. h # 0 => h \in 1..Len(s) /\ s[h] = y
    BY <1>5, <1>6
  <1> QED BY <1>4, <1>6, <1>7 DEF h

\* What a sequence holds from one place on is what the rest of it holds.
LEMMA CountOfRest ==
    ASSUME NEW T, NEW s \in Seq(T), NEW l \in 1..(Len(s) + 1), NEW y
    PROVE  /\ SubSeq(s, l, Len(s)) \in Seq(T) /\ Len(SubSeq(s, l, Len(s))) = Len(s) - l + 1
           /\ Cardinality({q \in DOMAIN SubSeq(s, l, Len(s)) : SubSeq(s, l, Len(s))[q] = y})
                = Count(y, s, l, Len(s))
  <1> DEFINE u == SubSeq(s, l, Len(s))
             A == {q \in DOMAIN u : u[q] = y}
             B == Places(y, s, l, Len(s))
             f == [q \in B |-> q - l + 1]
  <1>1. Len(s) \in Nat /\ l \in Nat /\ l >= 1 /\ l <= Len(s) + 1
    OBVIOUS
  <1>2. /\ u \in Seq(T) /\ Len(u) = Len(s) - l + 1 /\ DOMAIN u = 1..(Len(s) - l + 1)
        /\ \A q \in 1..(Len(s) - l + 1) : u[q] = s[l + q - 1]
    <2>1. \A q \in l..Len(s) : s[q] \in T
      BY <1>1, ElementOfSeq
    <2> QED BY <1>1, <2>1, SubSeqProperties
  <1> HIDE DEF u
  <1>3. \A q \in B : f[q] \in A
    BY <1>1, <1>2 DEF Places
  <1>4. \A a, b \in B : f[a] = f[b] => a = b
    BY <1>1 DEF Places
  <1>5. ASSUME NEW a \in A PROVE a + l - 1 \in B /\ f[a + l - 1] = a
    <2>1. a \in 1..(Len(s) - l + 1) /\ u[a] = y
      BY <1>2
    <2>2. a + l - 1 \in l..Len(s) /\ s[a + l - 1] = y
      <3>1. u[a] = s[l + a - 1] /\ l + a - 1 = a + l - 1 /\ a + l - 1 \in l..Len(s)
        BY <1>1, <1>2, <2>1
      <3> QED BY <2>1, <3>1
    <2>3. a + l - 1 \in B
      BY <2>2 DEF Places
    <2>4. (a + l - 1) - l + 1 = a
      BY <1>1, <2>1
    <2> QED BY <2>3, <2>4
  <1>6. f \in Bijection(B, A)
    <2> HIDE DEF A, B
    <2>1. f \in [B -> A]
      BY <1>3
    <2>2. \A a \in A : \E b \in B : f[b] = a
      BY <1>5
    <2> HIDE DEF f
    <2> QED BY <1>4, <2>1, <2>2 DEF Bijection, Injection, Surjection, IsInjective
  <1>7. IsFiniteSet(B)
    BY <1>1, PlacesFinite
  <1>8. Cardinality(A) = Cardinality(B)
    <2> HIDE DEF A, B, f
    <2> QED BY <1>6, <1>7, FS_Bijection DEF ExistsBijection
  <1> QED BY <1>2, <1>8 DEF Count, u

-----------------------------------------------------------------------------
(* rep.c, lsl.c, mojChmod.c and look_for_str *)

\* What the assumptions say of the inputs.
LEMMA TextsGiven ==
    /\ \A t \in Texts \cup Words : t \in Seq(Computing!Range(t)) /\ Len(t) \in Nat
    /\ Counts \subseteq Int /\ \A w \in Lengths : w \in Seq(Int) /\ Len(w) \in Nat
    /\ ListSize \in Nat \ {0} /\ FileSize \in Nat \ {0}
  <1>1. ASSUME NEW t \in Texts \cup Words PROVE t \in Seq(Computing!Range(t)) /\ Len(t) \in Nat
    BY TextsAssumption DEF Computing!Range
  <1> QED BY <1>1, TextsAssumption

\* rep.c has counted the newlines from where it is, and stops at the first one too many.
RepInv ==
    /\ in \in [text : Texts, n : Counts] /\ pos \in -1..(Len(in.text) - 1)
    /\ cnt = Count("newline", in.text, pos + 2, Len(in.text))
    /\ in.n >= 0 => cnt <= in.n
    /\ ~ended => out = <<>>
    /\ ended => /\ out = SubSeq(in.text, pos + 2, Len(in.text))
                /\ pos # -1 => in.text[pos + 1] = "newline" /\ cnt = in.n

\* lsl.c has listed the entries up to where it is.
LslInv ==
    /\ in \in [1..ListSize -> Entries] /\ buf \in Entries
    /\ pos \in 0..ListSize /\ (ended <=> pos = ListSize)
    /\ out \in Seq({e.type : e \in Entries} \X [1..9 -> Computing!Characters]) /\ Len(out) = pos
    /\ \A q \in 1..pos :
           in[q].found => out[q] = <<in[q].type, Computing!PrintMode(in[q].bits)>>

\* mojChmod.c has made its one change and shown the mode it gave.
MojInv ==
    /\ in \in [option : Computing!SetIdOptions, bits : Modes]
    /\ ended => /\ buf = Computing!NewMode(in.option, in.bits)
                /\ in.option # "bad" => out = Computing!ModeToStr(buf)

\* look_for_str has counted what it has read.
LookInv ==
    /\ in \in [1..FileSize -> Chunks] /\ pos \in 0..FileSize /\ cnt = pos
    /\ ended <=> pos = FileSize
    /\ out \in Seq(1..FileSize) /\ \A q \in 1..Len(out) : in[out[q]].hit

LEMMA RepBegins == Computing!Init /\ tool = "rep" => RepInv
  <1> SUFFICES ASSUME Computing!Init, tool = "rep" PROVE RepInv
    OBVIOUS
  <1>1. /\ in \in [text : Texts, n : Counts] /\ pos = Len(in.text) - 1
        /\ cnt = 0 /\ out = <<>> /\ ended = FALSE
    BY DEF Computing!Init
  <1>2. Len(in.text) \in Nat /\ in.n \in Int
    BY <1>1, TextsGiven
  <1>3. Count("newline", in.text, pos + 2, Len(in.text)) = 0
    BY <1>1, <1>2, CountNone
  <1> QED BY <1>1, <1>2, <1>3 DEF RepInv

LEMMA RepStep == RepInv /\ Computing!Rep => RepInv'
  <1> SUFFICES ASSUME RepInv, Computing!Rep PROVE RepInv'
    OBVIOUS
  <1>1. /\ in \in [text : Texts, n : Counts] /\ in.n \in Int /\ Len(in.text) \in Nat
        /\ pos \in -1..(Len(in.text) - 1)
        /\ cnt = Count("newline", in.text, pos + 2, Len(in.text))
        /\ in.n >= 0 => cnt <= in.n
        /\ ~ended /\ out = <<>> /\ in' = in
    BY TextsGiven DEF RepInv, Computing!Rep
  <1>4. cnt \in Nat
    BY <1>1, PlacesFinite
  <1>2. CASE pos >= 0 /\ ~(in.text[pos + 1] = "newline" /\ cnt + 1 = in.n + 1)
    <2>1. /\ cnt' = IF in.text[pos + 1] = "newline" THEN cnt + 1 ELSE cnt
          /\ pos' = pos - 1 /\ out' = out /\ ended' = ended
      BY <1>2 DEF Computing!Rep, Computing!Newline
    <2>2. Count("newline", in.text, pos + 1, Len(in.text)) = cnt'
      <3>1. pos + 1 \in Int /\ (pos + 1) + 1 = pos + 2 /\ pos + 1 <= Len(in.text)
        BY <1>1
      <3> QED BY <1>1, <2>1, <3>1, CountDown
    <2>3. pos' + 2 = pos + 1 /\ pos' \in -1..(Len(in.text) - 1)
      BY <1>1, <1>2, <2>1
    <2>4. in.n >= 0 => cnt' <= in.n
      BY <1>1, <1>2, <1>4, <2>1
    <2> QED BY <1>1, <2>1, <2>2, <2>3, <2>4 DEF RepInv
  <1>3. CASE ~(pos >= 0 /\ ~(in.text[pos + 1] = "newline" /\ cnt + 1 = in.n + 1))
    <2>1. /\ out' = SubSeq(in.text, pos + 2, Len(in.text)) /\ ended' = TRUE
          /\ pos' = pos /\ cnt' = cnt
      BY <1>3 DEF Computing!Rep, Computing!Newline
    <2>2. pos # -1 => in.text[pos + 1] = "newline" /\ cnt = in.n
      BY <1>1, <1>3, <1>4
    <2> QED BY <1>1, <2>1, <2>2 DEF RepInv
  <1> QED BY <1>2, <1>3

\* Nine characters are a mode as it is written.
LEMMA Nine ==
    ASSUME NEW T, NEW a \in T, NEW b \in T, NEW c \in T, NEW d \in T, NEW e \in T,
           NEW f \in T, NEW g \in T, NEW h \in T, NEW l \in T
    PROVE  <<a, b, c, d, e, f, g, h, l>> \in [1..9 -> T]
  OBVIOUS

LEMMA PrintedMode ==
    ASSUME NEW b
    PROVE  Computing!PrintMode(b) \in [1..9 -> Computing!Characters]
  <1>1. ASSUME NEW c
        PROVE  /\ Computing!If(b, c, "r") \in Computing!Characters
               /\ Computing!If(b, c, "w") \in Computing!Characters
    BY DEF Computing!If, Computing!Characters
  <1>2. ASSUME NEW c, NEW d PROVE /\ Computing!Execute(b, c, d, "s", "S") \in Computing!Characters
                                  /\ Computing!Execute(b, c, d, "t", "T") \in Computing!Characters
    BY DEF Computing!Execute, Computing!Characters
  <1> QED BY <1>1, <1>2, Nine DEF Computing!PrintMode

LEMMA LslBegins == Computing!Init /\ tool = "lsl" => LslInv
  BY TextsGiven DEF Computing!Init, LslInv, Computing!Listings

LEMMA LslStep == LslInv /\ Computing!Lsl => LslInv'
  <1> SUFFICES ASSUME LslInv, Computing!Lsl PROVE LslInv'
    OBVIOUS
  <1> DEFINE Row == {e.type : e \in Entries} \X [1..9 -> Computing!Characters]
             row == <<buf'.type, Computing!PrintMode(buf'.bits)>>
  <1>1. /\ in \in [1..ListSize -> Entries] /\ buf \in Entries /\ in' = in
        /\ pos \in 0..ListSize /\ pos # ListSize /\ pos' = pos + 1 /\ ListSize \in Nat
        /\ out \in Seq(Row) /\ Len(out) = pos
        /\ buf' = IF in[pos'].found THEN in[pos'] ELSE buf
        /\ out' = Append(out, row)
    BY TextsGiven DEF LslInv, Computing!Lsl
  <1>7. ended' <=> pos' = ListSize
    BY DEF Computing!Lsl
  <1>2. buf' \in Entries
    BY <1>1
  <1>3. row \in Row
    BY <1>2, PrintedMode
  <1>4. /\ out' \in Seq(Row) /\ Len(out') = pos' /\ out'[pos'] = row
        /\ \A q \in 1..pos : out'[q] = out[q]
    <2> HIDE DEF Row, row
    <2> QED BY <1>1, <1>3
  <1>5. \A q \in 1..pos' :
            in[q].found => out'[q] = <<in[q].type, Computing!PrintMode(in[q].bits)>>
    <2> SUFFICES ASSUME NEW q \in 1..pos', in[q].found
                 PROVE  out'[q] = <<in[q].type, Computing!PrintMode(in[q].bits)>>
      OBVIOUS
    <2>1. CASE q = pos'
      BY <1>1, <1>4, <2>1
    <2>2. CASE q # pos'
      <3>1. q \in 1..pos
        BY <1>1, <2>2
      <3> QED BY <1>4, <3>1 DEF LslInv
    <2> QED BY <2>1, <2>2
  <1>6. pos' \in 0..ListSize
    BY <1>1
  <1> QED BY <1>1, <1>2, <1>4, <1>5, <1>6, <1>7 DEF LslInv

LEMMA MojBegins == Computing!Init /\ tool = "mojChmod" => MojInv
  BY DEF Computing!Init, MojInv

LEMMA MojStep == MojInv /\ Computing!MojChmod => MojInv'
  BY DEF MojInv, Computing!MojChmod

LEMMA LookBegins == Computing!Init /\ tool = "look_for_str" => LookInv
  BY TextsGiven DEF Computing!Init, LookInv, Computing!Configs

LEMMA LookStep == LookInv /\ Computing!LookForStr => LookInv'
  <1> SUFFICES ASSUME LookInv, Computing!LookForStr PROVE LookInv'
    OBVIOUS
  <1>4. ended' <=> pos' = FileSize
    BY DEF Computing!LookForStr
  <1>1. /\ in' = in /\ pos \in 0..FileSize /\ pos # FileSize /\ pos' = pos + 1 /\ cnt' = pos'
        /\ FileSize \in Nat
        /\ out \in Seq(1..FileSize) /\ \A q \in 1..Len(out) : in[out[q]].hit
        /\ IF in[pos'].hit THEN out' = Append(out, pos') ELSE out' = out
    BY TextsGiven DEF LookInv, Computing!LookForStr
  <1>2. pos' \in 1..FileSize
    BY <1>1
  <1>3. out' \in Seq(1..FileSize) /\ \A q \in 1..Len(out') : in[out'[q]].hit
    <2>1. CASE in[pos'].hit
      <3>1. out' = Append(out, pos')
        BY <1>1, <2>1
      <3>2. /\ out' \in Seq(1..FileSize) /\ Len(out') = Len(out) + 1 /\ out'[Len(out) + 1] = pos'
            /\ \A q \in 1..Len(out) : out'[q] = out[q]
        BY <1>1, <1>2, <3>1
      <3>3. ASSUME NEW q \in 1..Len(out') PROVE in[out'[q]].hit
        <4>1. q \in 1..Len(out) \/ q = Len(out) + 1
          BY <1>1, <3>2
        <4> QED BY <1>1, <2>1, <3>2, <4>1
      <3> QED BY <3>2, <3>3
    <2>2. CASE ~in[pos'].hit
      BY <1>1, <2>2
    <2> QED BY <2>1, <2>2
  <1> QED BY <1>1, <1>2, <1>3, <1>4 DEF LookInv

-----------------------------------------------------------------------------
(* word_matcher.sh *)

\* The line can be laid with the letters of the word.
Laid ==
    \A y \in Computing!Range(in.line) :
        Count(y, in.line, 1, Len(in.line)) <= Count(y, in.word, 1, Len(in.word))

\* No length that is the line's own has been passed.
Fresh == \A q \in 1..pos : in.stevila[q] # Len(in.line)

\* How many letters y the word has beyond those looked for so far.
Rest(y) == Count(y, in.word, 1, Len(in.word)) - Count(y, in.line, 1, letter)

\* The line is without the sign that strikes a letter.
Plain == "/" \notin Computing!Range(in.line)

MatchTypes ==
    /\ in \in [word : Words, line : Words, stevila : Lengths, wishes : Wishes]
    /\ pos \in 0..Len(in.stevila) /\ letter \in 0..Len(in.line) /\ cnt \in Nat
    /\ ended \in BOOLEAN
    /\ buf \in Seq(Computing!Range(in.word) \cup {"/"}) /\ Len(buf) = Len(in.word)
    /\ out \in Seq({in.line})

\* word_matcher.sh: the letters of the line so far are struck from beseda, as many as
\* there were of each, and counted; from the first length that is the line's on, the
\* line has been written if it can be laid, and not again if no length comes twice.
MatchInv ==
    /\ MatchTypes
    /\ ~Computing!Wished(in.line, in.wishes) => out = <<>>
    /\ ended /\ Computing!Wished(in.line, in.wishes) => pos = Len(in.stevila)
    /\ Fresh => out = <<>> /\ cnt <= letter
    /\ Plain /\ Fresh =>
         /\ \A y \in Computing!Range(in.line) :
                Count(y, buf, 1, Len(buf)) = IF Rest(y) > 0 THEN Rest(y) ELSE 0
         /\ cnt = letter <=> \A y \in Computing!Range(in.line) : Rest(y) >= 0
    /\ Plain /\ ~Fresh =>
         /\ Laid => out # <<>>
         /\ Computing!IsInjective(in.stevila) => Len(out) = IF Laid THEN 1 ELSE 0

LEMMA MatchGiven ==
    ASSUME MatchTypes
    PROVE  /\ in.word \in Seq(Computing!Range(in.word)) /\ Len(in.word) \in Nat
           /\ in.line \in Seq(Computing!Range(in.line)) /\ Len(in.line) \in Nat
           /\ in.stevila \in Seq(Int) /\ Len(in.stevila) \in Nat
           /\ pos \in Nat /\ letter \in Nat
           /\ \A y : Rest(y) \in Int
           /\ \A y : Count(y, buf, 1, Len(buf)) \in Nat /\ Count(y, in.line, 1, letter) \in Nat
  <1>1. in \in [word : Words, line : Words, stevila : Lengths, wishes : Wishes]
    BY DEF MatchTypes
  <1>2. in.word \in Words /\ in.line \in Words /\ in.stevila \in Lengths
    BY <1>1
  <1>3. /\ in.word \in Seq(Computing!Range(in.word)) /\ Len(in.word) \in Nat
        /\ in.line \in Seq(Computing!Range(in.line)) /\ Len(in.line) \in Nat
        /\ in.stevila \in Seq(Int) /\ Len(in.stevila) \in Nat
    BY <1>2, TextsGiven
  <1>4. pos \in Nat /\ letter \in Nat /\ Len(buf) \in Nat
    BY <1>3 DEF MatchTypes
  <1>5. \A y : /\ Count(y, in.word, 1, Len(in.word)) \in Nat /\ Count(y, in.line, 1, letter) \in Nat
               /\ Count(y, buf, 1, Len(buf)) \in Nat
    BY <1>3, <1>4, PlacesFinite
  <1> QED BY <1>3, <1>4, <1>5 DEF Rest

LEMMA MatchBegins == Computing!Init /\ tool = "word_matcher" => MatchInv
  <1> SUFFICES ASSUME Computing!Init, tool = "word_matcher" PROVE MatchInv
    OBVIOUS
  <1>1. /\ in \in [word : Words, line : Words, stevila : Lengths, wishes : Wishes]
        /\ pos = 0 /\ letter = 0 /\ cnt = 0 /\ out = <<>> /\ ended = FALSE /\ buf = in.word
    BY DEF Computing!Init
  <1>2. in.word \in Seq(Computing!Range(in.word) \cup {"/"})
    BY <1>1, TextsGiven
  <1>3. MatchTypes
    <2>1. Len(in.stevila) \in Nat /\ Len(in.line) \in Nat
      BY <1>1, TextsGiven
    <2>2. out \in Seq({in.line}) /\ pos \in 0..Len(in.stevila) /\ letter \in 0..Len(in.line)
      BY <1>1, <2>1
    <2>3. buf \in Seq(Computing!Range(in.word) \cup {"/"}) /\ Len(buf) = Len(in.word)
      BY <1>1, <1>2
    <2>4. cnt \in Nat /\ ended \in BOOLEAN
      BY <1>1
    <2> QED BY <1>1, <2>2, <2>3, <2>4 DEF MatchTypes
  <1>4. \A y : Count(y, in.line, 1, letter) = 0
    BY <1>1, CountNone
  <1>5. \A y : Rest(y) = Count(y, buf, 1, Len(buf)) /\ Rest(y) \in Nat
    BY <1>1, <1>3, <1>4, MatchGiven DEF Rest
  <1>6. Fresh
    BY <1>1 DEF Fresh
  <1> QED BY <1>1, <1>3, <1>5, <1>6 DEF MatchInv

LEMMA SkipStep == MatchInv /\ Computing!SkipLength => MatchInv'
  <1> SUFFICES ASSUME MatchInv, Computing!SkipLength PROVE MatchInv'
    OBVIOUS
  <1>1. /\ MatchTypes /\ ~ended /\ pos < Len(in.stevila) /\ in.stevila[pos + 1] # Len(in.line)
        /\ pos' = pos + 1 /\ in' = in /\ cnt' = cnt /\ letter' = letter /\ buf' = buf
        /\ out' = out /\ ended' = ended
    BY DEF MatchInv, Computing!SkipLength, Computing!MatchWord, Computing!OfRightLength
  <1>2. MatchTypes'
    BY <1>1, MatchGiven DEF MatchTypes
  <1>3. Fresh' <=> Fresh
    BY <1>1, MatchGiven DEF Fresh
  <1>4. (Plain' <=> Plain) /\ (Laid' <=> Laid) /\ \A y : Rest(y)' = Rest(y)
    BY <1>1 DEF Plain, Laid, Rest
  <1> QED BY <1>1, <1>2, <1>3, <1>4 DEF MatchInv

LEMMA StrikeStep == MatchInv /\ Computing!Strike => MatchInv'
  <1> SUFFICES ASSUME MatchInv, Computing!Strike PROVE MatchInv'
    OBVIOUS
  <1>0. PICK c : c = in.line[letter + 1]
    OBVIOUS
  <1> DEFINE h == Computing!SelectInSeq(buf, LAMBDA e : e = c)
             T == Computing!Range(in.word) \cup {"/"}
             G == Computing!Range(in.line)
  <1>1. /\ MatchTypes /\ ~ended /\ letter < Len(in.line) /\ letter' = letter + 1
        /\ Computing!Wished(in.line, in.wishes)
        /\ buf' = (IF h = 0 THEN buf ELSE Computing!ReplaceAt(buf, h, "/"))
        /\ cnt' = (IF h = 0 THEN cnt ELSE cnt + 1)
        /\ in' = in /\ pos' = pos /\ out' = out /\ ended' = ended
    BY <1>0 DEF MatchInv, Computing!Strike, Computing!MatchWord, Computing!Struck
  <1> HIDE DEF h
  <1>2. /\ buf \in Seq(T) /\ Len(buf) = Len(in.word) /\ Len(buf) \in Nat /\ cnt \in Nat
        /\ letter \in Nat
        /\ Len(in.line) \in Nat /\ letter + 1 \in 1..Len(in.line) /\ c \in G
    <2>1. in.line \in Seq(G)
      BY <1>1, MatchGiven
    <2>2. letter + 1 \in 1..Len(in.line)
      BY <1>1, MatchGiven
    <2>3. c \in G
      <3> HIDE DEF G
      <3> QED BY <1>0, <2>1, <2>2, ElementOfSeq
    <2> QED BY <1>1, <2>2, <2>3, MatchGiven DEF MatchTypes
  <1>3. /\ h = 0 <=> Count(c, buf, 1, Len(buf)) = 0
        /\ h # 0 => h \in 1..Len(buf) /\ buf[h] = c
    <2> HIDE DEF T
    <2> QED BY <1>2, PlaceFound DEF h
  <1>4. h # 0 /\ c # "/" =>
          /\ buf' \in Seq(T) /\ Len(buf') = Len(buf)
          /\ Count(c, buf', 1, Len(buf')) = Count(c, buf, 1, Len(buf)) - 1
          /\ \A v : v # c /\ v # "/" =>
                 Count(v, buf', 1, Len(buf')) = Count(v, buf, 1, Len(buf))
    <2> SUFFICES ASSUME h # 0, c # "/"
                 PROVE  /\ buf' \in Seq(T) /\ Len(buf') = Len(buf)
                        /\ Count(c, buf', 1, Len(buf')) = Count(c, buf, 1, Len(buf)) - 1
                        /\ \A v : v # c /\ v # "/" =>
                               Count(v, buf', 1, Len(buf')) = Count(v, buf, 1, Len(buf))
      OBVIOUS
    <2>1. buf' = Computing!ReplaceAt(buf, h, "/") /\ T \cup {"/"} = T
      BY <1>1
    <2> HIDE DEF T
    <2> QED BY <1>2, <1>3, <2>1, CountStruck
  <1>5. buf' \in Seq(T) /\ Len(buf') = Len(buf)
    <2>1. CASE h = 0
      BY <1>1, <1>2, <2>1
    <2>2. CASE h # 0
      <3>1. buf' = [buf EXCEPT ![h] = "/"] /\ h \in 1..Len(buf)
        BY <1>1, <1>3, <2>2 DEF Computing!ReplaceAt
      <3>2. "/" \in T
        OBVIOUS
      <3> HIDE DEF T
      <3> QED BY <1>2, <3>1, <3>2, ExceptSeq
    <2> QED BY <2>1, <2>2
  <1>6. MatchTypes'
    BY <1>1, <1>2, <1>5 DEF MatchTypes
  <1>7. /\ Count(c, in.line, 1, letter + 1) = Count(c, in.line, 1, letter) + 1
        /\ \A v : v # c => Count(v, in.line, 1, letter + 1) = Count(v, in.line, 1, letter)
    BY <1>0, <1>2, CountUp
  <1>8. /\ Rest(c)' = Rest(c) - 1 /\ \A v : v # c => Rest(v)' = Rest(v)
        /\ \A v : Rest(v) \in Int /\ Rest(v)' \in Int
    <2>1. \A v : Rest(v)' = Count(v, in.word, 1, Len(in.word)) - Count(v, in.line, 1, letter + 1)
      BY <1>1 DEF Rest
    <2>2. \A v : /\ Count(v, in.word, 1, Len(in.word)) \in Nat
                 /\ Count(v, in.line, 1, letter + 1) \in Nat
                 /\ Count(v, in.line, 1, letter) \in Nat
      BY <1>1, <1>2, MatchGiven, PlacesFinite
    <2>3. \A v : Rest(v) = Count(v, in.word, 1, Len(in.word)) - Count(v, in.line, 1, letter)
      BY DEF Rest
    <2>4. Rest(c)' = Count(c, in.word, 1, Len(in.word)) - Count(c, in.line, 1, letter + 1)
      BY <2>1
    <2> QED BY <1>7, <2>1, <2>2, <2>3, <2>4
  <1>9. (Fresh' <=> Fresh) /\ (Plain' <=> Plain) /\ (Laid' <=> Laid)
    BY <1>1 DEF Fresh, Plain, Laid
  <1>10. Fresh => cnt' <= letter'
    BY <1>1, <1>2 DEF MatchInv
  <1>11. ASSUME Plain, Fresh
         PROVE  /\ \A y \in G : Count(y, buf', 1, Len(buf')) = IF Rest(y)' > 0 THEN Rest(y)' ELSE 0
                /\ cnt' = letter' <=> \A y \in G : Rest(y)' >= 0
    <2>1. /\ \A y \in G : Count(y, buf, 1, Len(buf)) = IF Rest(y) > 0 THEN Rest(y) ELSE 0
          /\ cnt = letter <=> \A y \in G : Rest(y) >= 0
          /\ cnt <= letter
      BY <1>11 DEF MatchInv
    <2>2. \A y \in G : y # "/"
      BY <1>11 DEF Plain
    <2>3. CASE h = 0
      <3>1. buf' = buf /\ cnt' = cnt /\ Rest(c) <= 0 /\ Rest(c)' < 0
        BY <1>1, <1>2, <1>3, <1>8, <2>1, <2>3
      <3>2. \A y \in G : Count(y, buf', 1, Len(buf')) = IF Rest(y)' > 0 THEN Rest(y)' ELSE 0
        BY <1>2, <1>8, <2>1, <3>1
      <3> QED BY <1>1, <1>2, <2>1, <3>1, <3>2, <1>8
    <2>4. CASE h # 0
      <3>1. cnt' = cnt + 1 /\ Rest(c) > 0 /\ Rest(c)' >= 0
        BY <1>1, <1>2, <1>3, <1>8, <2>1, <2>4
      <3>2. \A y \in G : Count(y, buf', 1, Len(buf')) = IF Rest(y)' > 0 THEN Rest(y)' ELSE 0
        <4> SUFFICES ASSUME NEW y \in G
                     PROVE  Count(y, buf', 1, Len(buf')) = IF Rest(y)' > 0 THEN Rest(y)' ELSE 0
          OBVIOUS
        <4>1. CASE y = c
          <5>1. Count(y, buf', 1, Len(buf')) = Count(y, buf, 1, Len(buf)) - 1
            BY <1>4, <2>2, <2>4, <4>1
          <5>2. Rest(y) > 0 /\ Rest(y)' = Rest(y) - 1 /\ Rest(y) \in Int
            BY <1>8, <3>1, <4>1
          <5> QED BY <2>1, <5>1, <5>2
        <4>2. CASE y # c
          <5>1. Count(y, buf', 1, Len(buf')) = Count(y, buf, 1, Len(buf)) /\ Rest(y)' = Rest(y)
            BY <1>2, <1>4, <1>8, <2>2, <2>4, <4>2
          <5> QED BY <2>1, <5>1
        <4> QED BY <4>1, <4>2
      <3>3. (\A y \in G : Rest(y)' >= 0) <=> \A y \in G : Rest(y) >= 0
        <4>1. ASSUME NEW y \in G PROVE Rest(y)' >= 0 <=> Rest(y) >= 0
          BY <1>8, <3>1
        <4> HIDE DEF G
        <4> QED BY <4>1
      <3> QED BY <1>1, <1>2, <2>1, <3>1, <3>2, <3>3
    <2> QED BY <2>3, <2>4
  <1> QED BY <1>1, <1>6, <1>9, <1>10, <1>11 DEF MatchInv

LEMMA EchoStep == MatchInv /\ Computing!EchoLine => MatchInv'
  <1> SUFFICES ASSUME MatchInv, Computing!EchoLine PROVE MatchInv'
    OBVIOUS
  <1>1. /\ MatchTypes /\ ~ended /\ pos < Len(in.stevila) /\ in.stevila[pos + 1] = Len(in.line)
        /\ letter = Len(in.line) /\ Computing!Wished(in.line, in.wishes)
        /\ letter' = 0 /\ pos' = pos + 1
        /\ in' = in /\ cnt' = cnt /\ buf' = buf /\ ended' = ended
    BY DEF MatchInv, Computing!EchoLine, Computing!MatchWord, Computing!OfRightLength
  <1>2. /\ cnt = Len(in.line) => out' = Append(out, in.line)
        /\ cnt # Len(in.line) => out' = out
    BY DEF Computing!EchoLine
  <1>3. /\ pos \in Nat /\ Len(in.stevila) \in Nat /\ Len(in.line) \in Nat
        /\ in.stevila \in Seq(Int)
    BY <1>1, MatchGiven
  <1>4. out \in Seq({in.line})
    BY <1>1 DEF MatchTypes
  <1>5. out' \in Seq({in.line})
    BY <1>2, <1>4
  <1>6. MatchTypes'
    BY <1>1, <1>3, <1>5 DEF MatchTypes
  <1>7. ~Fresh'
    BY <1>1, <1>3 DEF Fresh
  <1>8. (Plain' <=> Plain) /\ (Laid' <=> Laid)
    BY <1>1 DEF Plain, Laid
  <1>9. ASSUME Plain
        PROVE  /\ Laid => out' # <<>>
               /\ Computing!IsInjective(in.stevila) => Len(out') = IF Laid THEN 1 ELSE 0
    <2>1. CASE Fresh
      <3>1. out = <<>> /\ (cnt = letter <=> \A y \in Computing!Range(in.line) : Rest(y) >= 0)
        BY <1>9, <2>1 DEF MatchInv
      <3>2. \A y : /\ Count(y, in.word, 1, Len(in.word)) \in Nat
                   /\ Count(y, in.line, 1, Len(in.line)) \in Nat
        BY <1>1, MatchGiven, PlacesFinite
      <3>3. Laid <=> cnt = Len(in.line)
        BY <1>1, <3>1, <3>2 DEF Laid, Rest
      <3>4. /\ cnt = Len(in.line) => out' = <<in.line>>
            /\ cnt # Len(in.line) => out' = <<>>
        BY <1>2, <3>1
      <3> QED BY <3>3, <3>4
    <2>2. CASE ~Fresh
      <3>1. Laid => out # <<>>
        BY <1>9, <2>2 DEF MatchInv
      <3>2. out # <<>> => out' # <<>>
        BY <1>2, <1>4
      <3>3. ~Computing!IsInjective(in.stevila)
        <4>1. PICK q \in 1..pos : in.stevila[q] = Len(in.line)
          BY <2>2 DEF Fresh
        <4>2. q \in DOMAIN in.stevila /\ pos + 1 \in DOMAIN in.stevila /\ q # pos + 1
          BY <1>1, <1>3
        <4> QED BY <1>1, <4>1, <4>2 DEF Computing!IsInjective
      <3> QED BY <3>1, <3>2, <3>3
    <2> QED BY <2>1, <2>2
  <1> QED BY <1>1, <1>6, <1>7, <1>8, <1>9 DEF MatchInv

LEMMA DoneStep == MatchInv /\ Computing!LineDone => MatchInv'
  <1> SUFFICES ASSUME MatchInv, Computing!LineDone PROVE MatchInv'
    OBVIOUS
  <1>1. /\ ended' = TRUE /\ (~Computing!Wished(in.line, in.wishes) \/ pos = Len(in.stevila))
        /\ in' = in /\ pos' = pos /\ letter' = letter /\ cnt' = cnt /\ buf' = buf /\ out' = out
    BY DEF Computing!LineDone
  <1>2. MatchTypes'
    BY <1>1 DEF MatchInv, MatchTypes
  <1>3. (Fresh' <=> Fresh) /\ (Plain' <=> Plain) /\ (Laid' <=> Laid) /\ \A y : Rest(y)' = Rest(y)
    BY <1>1 DEF Fresh, Plain, Laid, Rest
  <1> QED BY <1>1, <1>2, <1>3 DEF MatchInv

-----------------------------------------------------------------------------
(* Any of them *)

\* Each of the programs, where it is.
TextInv ==
    /\ tool \in {"rep", "lsl", "mojChmod", "look_for_str", "word_matcher"}
    /\ cnt \in Nat /\ letter \in Nat /\ ended \in BOOLEAN
    /\ tool = "rep" => RepInv
    /\ tool = "lsl" => LslInv
    /\ tool = "mojChmod" => MojInv
    /\ tool = "look_for_str" => LookInv
    /\ tool = "word_matcher" => MatchInv

LEMMA TextInit == Computing!Init => TextInv
  <1> SUFFICES ASSUME Computing!Init PROVE TextInv
    OBVIOUS
  <1>1. /\ tool \in {"rep", "lsl", "mojChmod", "look_for_str", "word_matcher"}
        /\ cnt = 0 /\ letter = 0 /\ ended = FALSE
    BY DEF Computing!Init
  <1> QED BY <1>1, RepBegins, LslBegins, MojBegins, LookBegins, MatchBegins DEF TextInv

LEMMA TextStep == TextInv /\ [Computing!Next]_Computing!vars => TextInv'
  <1> SUFFICES ASSUME TextInv, [Computing!Next]_Computing!vars PROVE TextInv'
    OBVIOUS
  <1>1. CASE Computing!Rep
    <2>1. /\ tool = "rep" /\ tool' = tool /\ letter' = letter /\ RepInv'
          /\ ended' = ended \/ ended' = TRUE
      BY <1>1, RepStep DEF TextInv, Computing!Rep
    <2>2. cnt' \in Nat
      BY <1>1 DEF TextInv, Computing!Rep
    <2> QED BY <2>1, <2>2 DEF TextInv
  <1>2. CASE Computing!Lsl
    <2>1. /\ tool = "lsl" /\ tool' = tool /\ letter' = letter /\ cnt' = cnt /\ LslInv'
          /\ ended' \in BOOLEAN
      BY <1>2, LslStep DEF TextInv, Computing!Lsl
    <2> QED BY <2>1 DEF TextInv
  <1>3. CASE Computing!MojChmod
    <2>1. /\ tool = "mojChmod" /\ tool' = tool /\ letter' = letter /\ cnt' = cnt /\ MojInv'
          /\ ended' = TRUE
      BY <1>3, MojStep DEF TextInv, Computing!MojChmod
    <2> QED BY <2>1 DEF TextInv
  <1>4. CASE Computing!LookForStr
    <2>1. /\ tool = "look_for_str" /\ tool' = tool /\ letter' = letter /\ cnt' = cnt + 1
          /\ LookInv' /\ ended' \in BOOLEAN
      BY <1>4, LookStep DEF TextInv, Computing!LookForStr
    <2> QED BY <2>1 DEF TextInv
  <1>5. CASE Computing!WordMatcher
    <2>1. tool = "word_matcher" /\ tool' = tool
      BY <1>5 DEF Computing!WordMatcher, Computing!SkipLength, Computing!Strike,
                  Computing!EchoLine, Computing!LineDone, Computing!MatchWord
    <2>2. MatchInv'
      BY <1>5, <2>1, SkipStep, StrikeStep, EchoStep, DoneStep DEF TextInv, Computing!WordMatcher
    <2>3. MatchTypes'
      BY <2>2 DEF MatchInv
    <2>4. cnt' \in Nat /\ letter' \in Nat /\ ended' \in BOOLEAN
      <3>1. Len(in'.line) \in Nat
        BY <2>3, TextsGiven DEF MatchTypes
      <3> QED BY <2>3, <3>1 DEF MatchTypes
    <2> QED BY <2>1, <2>2, <2>4 DEF TextInv
  <1>6. CASE UNCHANGED Computing!vars
    <2>1. /\ tool' = tool /\ in' = in /\ pos' = pos /\ letter' = letter /\ cnt' = cnt /\ buf' = buf
          /\ out' = out /\ ended' = ended
      BY <1>6 DEF Computing!vars
    <2>2. /\ RepInv' <=> RepInv
          /\ LslInv' <=> LslInv
          /\ MojInv' <=> MojInv
          /\ LookInv' <=> LookInv
      BY <2>1 DEF RepInv, LslInv, MojInv, LookInv
    <2>3. MatchInv' <=> MatchInv
      BY <2>1 DEF MatchInv, MatchTypes, Fresh, Plain, Laid, Rest
    <2> QED BY <2>1, <2>2, <2>3 DEF TextInv
  <1> QED BY <1>1, <1>2, <1>3, <1>4, <1>5, <1>6 DEF Computing!Next

\* Cardinality as TextTools has it is Cardinality.
LEMMA SameSize == \A S : Computing!Cardinality(S) = Cardinality(S)
  BY DEF Computing!Cardinality, Cardinality

\* TextTools counts as is counted here.
LEMMA OccurrencesOf ==
    ASSUME NEW T, NEW s \in Seq(T), NEW y
    PROVE  /\ Computing!Occurrences(y, s) = Count(y, s, 1, Len(s))
           /\ Computing!Newlines(s) = Count("newline", s, 1, Len(s))
  <1>1. DOMAIN s = 1..Len(s)
    OBVIOUS
  <1>2. \A e : {q \in DOMAIN s : s[q] = e} = Places(e, s, 1, Len(s))
    BY <1>1 DEF Places
  <1>3. Computing!Occurrences(y, s) = Cardinality({q \in DOMAIN s : s[q] = y})
    BY SameSize, Zenon DEF Computing!Occurrences
  <1>4. Computing!Newlines(s) = Cardinality({q \in DOMAIN s : s[q] = "newline"})
    BY SameSize, Zenon DEF Computing!Newlines, Computing!Newline
  <1> QED BY <1>2, <1>3, <1>4, Zenon DEF Count

LEMMA TextTypesOK == TextInv => Computing!TypeOK
  <1> SUFFICES ASSUME TextInv PROVE Computing!TypeOK
    OBVIOUS
  <1>1. ASSUME tool = "rep"
        PROVE  /\ in \in [text : Texts, n : Counts] /\ pos \in -1..(Len(in.text) - 1)
               /\ out \in Seq(Computing!Range(in.text))
    <2>1. RepInv
      BY <1>1 DEF TextInv
    <2>2. /\ in \in [text : Texts, n : Counts] /\ pos \in -1..(Len(in.text) - 1)
          /\ in.text \in Seq(Computing!Range(in.text)) /\ Len(in.text) \in Nat
      BY <2>1, TextsGiven DEF RepInv
    <2>3. pos + 2 \in 1..(Len(in.text) + 1)
      BY <2>2
    <2>4. SubSeq(in.text, pos + 2, Len(in.text)) \in Seq(Computing!Range(in.text))
      BY <2>2, <2>3, CountOfRest
    <2>5. out = <<>> \/ out = SubSeq(in.text, pos + 2, Len(in.text))
      BY <2>1 DEF RepInv
    <2>6. out \in Seq(Computing!Range(in.text))
      <3>1. CASE out = <<>>
        BY <3>1
      <3>2. CASE out # <<>>
        BY <2>4, <2>5, <3>2
      <3> QED BY <3>1, <3>2
    <2> QED BY <2>2, <2>6
  <1>2. tool = "lsl" =>
          /\ in \in Computing!Listings /\ buf \in Entries /\ pos \in 0..ListSize
          /\ out \in Seq({e.type : e \in Entries} \X [1..9 -> Computing!Characters])
    BY DEF TextInv, LslInv, Computing!Listings
  <1>3. tool = "mojChmod" => in \in [option : Computing!SetIdOptions, bits : Modes]
    BY DEF TextInv, MojInv
  <1>4. tool = "look_for_str" =>
          in \in Computing!Configs /\ pos \in 0..FileSize /\ out \in Seq(1..FileSize)
    BY DEF TextInv, LookInv, Computing!Configs
  <1>5. tool = "word_matcher" => MatchTypes
    BY DEF TextInv, MatchInv
  <1>6. /\ tool \in {"rep", "lsl", "mojChmod", "look_for_str", "word_matcher"}
        /\ cnt \in Nat /\ letter \in Nat /\ ended \in BOOLEAN
    BY DEF TextInv
  <1> QED BY <1>1, <1>2, <1>3, <1>4, <1>5, <1>6 DEF Computing!TypeOK, MatchTypes, Computing!Struck

LEMMA LastLinesOfInv == TextInv => Computing!LastLines
  <1> SUFFICES ASSUME TextInv, tool = "rep", ended, in.n >= 0
               PROVE  LET start == Len(in.text) - Len(out)
                      IN  /\ out = SubSeq(in.text, start + 1, Len(in.text))
                          /\ start > 0 => in.text[start] = "newline"
                          /\ Computing!Newlines(out) =
                               IF Computing!Newlines(in.text) < in.n
                               THEN Computing!Newlines(in.text) ELSE in.n
    BY DEF Computing!LastLines, Computing!Newline
  <1> DEFINE T == Computing!Range(in.text)
  <1>1. /\ in.text \in Seq(T) /\ Len(in.text) \in Nat /\ in.n \in Int
        /\ pos \in -1..(Len(in.text) - 1)
        /\ cnt = Count("newline", in.text, pos + 2, Len(in.text)) /\ cnt <= in.n
        /\ out = SubSeq(in.text, pos + 2, Len(in.text))
        /\ pos # -1 => in.text[pos + 1] = "newline" /\ cnt = in.n
    BY TextsGiven DEF TextInv, RepInv
  <1> HIDE DEF T
  <1>2. pos + 2 \in 1..(Len(in.text) + 1)
    BY <1>1
  <1>3. /\ Len(out) = Len(in.text) - (pos + 2) + 1
        /\ Cardinality({q \in DOMAIN out : out[q] = "newline"})
             = Count("newline", in.text, pos + 2, Len(in.text))
    BY <1>1, <1>2, CountOfRest
  <1>4. Computing!Newlines(out) = cnt
    <2>1. Computing!Newlines(out) = Cardinality({q \in DOMAIN out : out[q] = "newline"})
      BY SameSize, Zenon DEF Computing!Newlines, Computing!Newline
    <2> QED BY <1>1, <1>3, <2>1
  <1>5. Computing!Newlines(in.text) = Count("newline", in.text, 1, Len(in.text))
    BY <1>1, OccurrencesOf
  <1>6. /\ Count("newline", in.text, pos + 2, Len(in.text)) \in Nat
        /\ Count("newline", in.text, 1, Len(in.text)) \in Nat
    BY <1>1, PlacesFinite
  <1>7. Count("newline", in.text, pos + 2, Len(in.text)) <=
          Count("newline", in.text, 1, Len(in.text))
    <2>1. /\ Places("newline", in.text, pos + 2, Len(in.text)) \in
               SUBSET Places("newline", in.text, 1, Len(in.text))
      BY <1>1 DEF Places
    <2>2. IsFiniteSet(Places("newline", in.text, 1, Len(in.text)))
      BY <1>1, PlacesFinite
    <2> QED BY <2>1, <2>2, FS_Subset DEF Count
  <1>10. pos \in Int /\ Len(in.text) \in Int
    BY <1>1
  <1>8. Len(in.text) - Len(out) = pos + 1
    BY <1>3, <1>10
  <1>9. pos = -1 => cnt = Computing!Newlines(in.text)
    BY <1>1, <1>5
  <1>11. pos + 1 > 0 => in.text[pos + 1] = "newline" /\ cnt = in.n
    BY <1>1, <1>10
  <1>12. Computing!Newlines(out) =
           IF Computing!Newlines(in.text) < in.n THEN Computing!Newlines(in.text) ELSE in.n
    <2>1. CASE pos = -1
      BY <1>1, <1>4, <1>5, <1>6, <1>9, <2>1
    <2>2. CASE pos # -1
      BY <1>1, <1>4, <1>5, <1>6, <1>7, <2>2
    <2> QED BY <2>1, <2>2
  <1>13. out = SubSeq(in.text, (pos + 1) + 1, Len(in.text))
    <2>1. (pos + 1) + 1 = pos + 2
      BY <1>10
    <2> QED BY <1>1, <2>1
  <1> QED BY <1>8, <1>11, <1>12, <1>13

\* The two programs write a mode the same way.
LEMMA ModesAgree ==
    ASSUME NEW b
    PROVE  Computing!ModeToStr(b) = Computing!PrintMode(b)
  <1>1. /\ DOMAIN Computing!ModeToStr(b) = 1..9 /\ DOMAIN Computing!PrintMode(b) = 1..9
        /\ Computing!ModeToStr(b) = [q \in 1..9 |-> Computing!ModeToStr(b)[q]]
        /\ Computing!PrintMode(b) = [q \in 1..9 |-> Computing!PrintMode(b)[q]]
    BY PrintedMode DEF Computing!ModeToStr
  <1>2. ASSUME NEW q \in 1..9 PROVE Computing!ModeToStr(b)[q] = Computing!PrintMode(b)[q]
    <2> USE DEF Computing!ModeToStr, Computing!PrintMode, Computing!BitAt, Computing!If,
                Computing!Execute
    <2>1. CASE q = 1
      BY <2>1
    <2>2. CASE q = 2
      BY <2>2
    <2>3. CASE q = 3
      BY <2>3
    <2>4. CASE q = 4
      BY <2>4
    <2>5. CASE q = 5
      BY <2>5
    <2>6. CASE q = 6
      BY <2>6
    <2>7. CASE q = 7
      BY <2>7
    <2>8. CASE q = 8
      BY <2>8
    <2>9. CASE q = 9
      BY <2>9
    <2> QED BY <2>1, <2>2, <2>3, <2>4, <2>5, <2>6, <2>7, <2>8, <2>9
  <1> QED BY <1>1, <1>2

LEMMA ModesShownOfInv == TextInv => Computing!ModesShown
  <1> SUFFICES ASSUME TextInv PROVE Computing!ModesShown
    OBVIOUS
  <1>1. ASSUME tool = "mojChmod", ended, in.option # "bad"
        PROVE  /\ out = Computing!PrintMode(buf)
               /\ \A q \in {1, 2, 4, 5, 7, 8, 9} : out[q] = Computing!PrintMode(in.bits)[q]
    <2>1. /\ out = Computing!PrintMode(buf) /\ buf = Computing!NewMode(in.option, in.bits)
      BY <1>1, ModesAgree DEF TextInv, MojInv
    <2>2. \A y : y \notin {"suid", "sgid"} => (y \in buf <=> y \in in.bits)
      BY <2>1 DEF Computing!NewMode
    <2>3. ASSUME NEW q \in {1, 2, 4, 5, 7, 8, 9}
          PROVE  Computing!PrintMode(buf)[q] = Computing!PrintMode(in.bits)[q]
      BY <2>2 DEF Computing!PrintMode, Computing!If, Computing!Execute
    <2> QED BY <2>1, <2>3
  <1>2. ASSUME tool = "lsl", ended, NEW q \in 1..ListSize, in[q].found
        PROVE  out[q] = <<in[q].type, Computing!PrintMode(in[q].bits)>>
    BY <1>2 DEF TextInv, LslInv
  <1> QED BY <1>1, <1>2 DEF Computing!ModesShown

LEMMA NumbersOfInv == TextInv => Computing!NumbersOfLines
  <1> SUFFICES ASSUME TextInv, tool = "look_for_str", NEW q \in DOMAIN out
               PROVE  LET line == 1 + Cardinality({a \in 1..(out[q] - 1) : in[a].ends})
                      IN  /\ in[out[q]].hit
                          /\ out[q] >= line
                          /\ out[q] = line <=> \A a \in 1..(out[q] - 1) : in[a].ends
    BY SameSize DEF Computing!NumbersOfLines
  <1> DEFINE m == out[q]
             A == {a \in 1..(m - 1) : in[a].ends}
  <1>1. out \in Seq(1..FileSize) /\ q \in 1..Len(out) /\ in[m].hit /\ FileSize \in Nat
    BY TextsGiven DEF TextInv, LookInv
  <1>2. m \in Nat /\ m >= 1
    BY <1>1, ElementOfSeq
  <1> HIDE DEF m
  <1>3. IsFiniteSet(1..(m - 1)) /\ Cardinality(1..(m - 1)) = m - 1 /\ A \in SUBSET (1..(m - 1))
    BY <1>2, FS_Interval
  <1>4. /\ IsFiniteSet(A) /\ Cardinality(A) <= m - 1
        /\ Cardinality(A) = m - 1 => A = 1..(m - 1)
    <2> HIDE DEF A
    <2> QED BY <1>3, FS_Subset
  <1>5. Cardinality(A) \in Nat
    <2> HIDE DEF A
    <2> QED BY <1>4, FS_CardinalityType
  <1>6. A = 1..(m - 1) <=> \A a \in 1..(m - 1) : in[a].ends
    OBVIOUS
  <1>7. m >= 1 + Cardinality(A) /\ (m = 1 + Cardinality(A) <=> A = 1..(m - 1))
    <2> HIDE DEF A
    <2> QED BY <1>2, <1>3, <1>4, <1>5
  <1> QED BY <1>1, <1>6, <1>7 DEF m

LEMMA WordsFoundOfInv == TextInv => Computing!WordsFound
  <1> SUFFICES ASSUME TextInv, tool = "word_matcher", ended, "/" \notin Computing!Range(in.line)
               PROVE  Computing!WordsFound
    BY DEF Computing!WordsFound, Computing!Struck
  <1> DEFINE w == Computing!Wished(in.line, in.wishes)
             o == Computing!Occurrences(Len(in.line), in.stevila)
             due == IF Laid /\ w THEN o ELSE 0
  <1>1. /\ MatchTypes /\ MatchInv /\ Plain
    BY DEF TextInv, MatchInv, Plain
  <1>2. /\ in.word \in Seq(Computing!Range(in.word)) /\ Len(in.word) \in Nat
        /\ in.line \in Seq(Computing!Range(in.line)) /\ Len(in.line) \in Nat
        /\ in.stevila \in Seq(Int) /\ Len(in.stevila) \in Nat
    BY <1>1, MatchGiven
  <1>3. Laid <=> \A y \in Computing!Range(in.line) :
                     Computing!Occurrences(y, in.line) <= Computing!Occurrences(y, in.word)
    <2>1. \A y : /\ Computing!Occurrences(y, in.line) = Count(y, in.line, 1, Len(in.line))
                 /\ Computing!Occurrences(y, in.word) = Count(y, in.word, 1, Len(in.word))
      BY <1>2, OccurrencesOf
    <2> QED BY <2>1 DEF Laid
  <1>4. o = Count(Len(in.line), in.stevila, 1, Len(in.stevila))
    BY <1>2, OccurrencesOf
  <1>5. ~w => out = <<>>
    BY <1>1 DEF MatchInv
  <1>6. w => pos = Len(in.stevila)
    BY <1>1 DEF MatchInv
  <1>7. CASE w /\ Fresh
    <2>1. out = <<>> /\ o = 0
      BY <1>1, <1>2, <1>4, <1>6, <1>7, CountNone DEF MatchInv, Fresh
    <2>2. due = 0 /\ Len(out) = 0
      BY <2>1
    <2> QED BY <1>3, <2>2 DEF Computing!WordsFound
  <1>8. CASE w /\ ~Fresh
    <2>1. /\ Laid => out # <<>>
          /\ Computing!IsInjective(in.stevila) => Len(out) = IF Laid THEN 1 ELSE 0
      BY <1>1, <1>8 DEF MatchInv
    <2>2. Computing!IsInjective(in.stevila) => o = 1
      <3> SUFFICES ASSUME Computing!IsInjective(in.stevila) PROVE o = 1
        OBVIOUS
      <3>1. PICK q \in 1..Len(in.stevila) : in.stevila[q] = Len(in.line)
        BY <1>6, <1>8 DEF Fresh
      <3>2. Places(Len(in.line), in.stevila, 1, Len(in.stevila)) = {q}
        BY <1>2, <3>1 DEF Places, Computing!IsInjective
      <3> QED BY <1>4, <3>2, FS_Singleton DEF Count
    <2>3. /\ due > 0 => out # <<>>
          /\ Computing!IsInjective(in.stevila) => Len(out) = due
      <3>1. due = IF Laid THEN o ELSE 0
        BY <1>8
      <3> HIDE DEF due, o
      <3>2. CASE Laid
        BY <2>1, <2>2, <3>1, <3>2
      <3>3. CASE ~Laid
        BY <2>1, <3>1, <3>3
      <3> QED BY <3>2, <3>3
    <2> QED BY <1>3, <2>3 DEF Computing!WordsFound
  <1>9. CASE ~w
    <2>1. due = 0 /\ Len(out) = 0
      BY <1>5, <1>9
    <2> QED BY <1>3, <2>1 DEF Computing!WordsFound
  <1> QED BY <1>7, <1>8, <1>9
=============================================================================
