----------------------------- MODULE TextTools -----------------------------
(***************************************************************************)
(* Programs that compute something from a file: rep.c (exercises/v1), lsl.c*)
(* and mojChmod.c (exercises/v2), look_for_str of examples/server.c, and   *)
(* word_matcher.sh (bash/text_processing).  A behaviour is one run of one  *)
(* of them; a round of the program's loop is a step.                       *)
(***************************************************************************)
EXTENDS Integers, Sequences, SequencesExt, FiniteSets

CONSTANTS
    Texts,    \* rep.c: what a file may hold, sequences of characters and Newline
    Counts,   \* rep.c: how many lines are asked for
    Modes,    \* mojChmod.c: modes of a file, sets of bits
    Entries,  \* lsl.c: entries of a directory: what stat says of them, or that it fails
    ListSize, \* lsl.c: the entries of one directory
    Chunks,   \* look_for_str: what one fgets reads
    FileSize, \* look_for_str: how many times fgets reads
    Words,    \* word_matcher.sh: words, sequences of letters
    Lengths,  \* word_matcher.sh: the lengths given to -n
    Wishes    \* word_matcher.sh: the positions and letters given to -p

Newline == "newline"
Struck == "/"  \* what word_matcher.sh puts in place of a letter it has found
Bits == {"ur", "uw", "ux", "gr", "gw", "gx", "or", "ow", "ox", "suid", "sgid", "svtx"}
SetIdOptions == {"octal", "u+s", "u-s", "g+s", "g-s", "bad"}

Listings == [1..ListSize -> Entries]
Configs == [1..FileSize -> Chunks]

VARIABLES
    tool,  \* the program
    in,    \* its input
    pos,   \* how far it is
    letter, \* word_matcher.sh: letters of the line it has looked for
    cnt,   \* lines, or letters, it has counted
    buf,   \* lsl.c: statbuf; word_matcher.sh: beseda
    out,   \* its output
    ended

vars == <<tool, in, pos, letter, cnt, buf, out, ended>>

Init ==
    /\ \/ tool = "rep" /\ in \in [text : Texts, n : Counts] /\ pos = Len(in.text) - 1 /\ buf = {}
       \/ tool = "lsl" /\ in \in Listings /\ pos = 0 /\ buf \in Entries
       \/ tool = "mojChmod" /\ in \in [option : SetIdOptions, bits : Modes] /\ pos = 0 /\ buf = {}
       \/ tool = "look_for_str" /\ in \in Configs /\ pos = 0 /\ buf = {}
       \/ /\ tool = "word_matcher"
          /\ in \in [word : Words, line : Words, stevila : Lengths, wishes : Wishes]
          /\ pos = 0 /\ buf = in.word
    /\ letter = 0 /\ cnt = 0 /\ out = <<>> /\ ended = FALSE

-----------------------------------------------------------------------------
(***************************************************************************)
(* rep.c: from the end of the file towards its beginning.  Definitions     *)
(* named ..._Slip are mistakes; no specification uses them.                *)
(***************************************************************************)

Rep_Slip ==  \* cnt_new_line == n
    /\ tool = "rep" /\ ~ended
    /\ IF pos >= 0 /\ ~(in.text[pos + 1] = Newline /\ cnt + 1 = in.n)
       THEN /\ cnt' = IF in.text[pos + 1] = Newline THEN cnt + 1 ELSE cnt
            /\ pos' = pos - 1 /\ UNCHANGED <<out, ended>>
       ELSE out' = SubSeq(in.text, pos + 2, Len(in.text)) /\ ended' = TRUE /\ UNCHANGED <<pos, cnt>>
    /\ UNCHANGED <<tool, in, letter, buf>>

\* The newline before the last n lines, or the beginning; what follows is written.
Rep ==
    /\ tool = "rep" /\ ~ended
    /\ IF pos >= 0 /\ ~(in.text[pos + 1] = Newline /\ cnt + 1 = in.n + 1)
       THEN /\ cnt' = IF in.text[pos + 1] = Newline THEN cnt + 1 ELSE cnt
            /\ pos' = pos - 1 /\ UNCHANGED <<out, ended>>
       ELSE out' = SubSeq(in.text, pos + 2, Len(in.text)) /\ ended' = TRUE /\ UNCHANGED <<pos, cnt>>
    /\ UNCHANGED <<tool, in, letter, buf>>

-----------------------------------------------------------------------------
(* lsl.c and mojChmod.c: two ways to write a mode *)

\* x with the bit that is shown in its place: s or S, t or T.
Execute(bits, x, special, small, capital) ==
    IF special \in bits THEN (IF x \in bits THEN small ELSE capital)
    ELSE IF x \in bits THEN "x" ELSE "-"

If(bits, b, char) == IF b \in bits THEN char ELSE "-"

Characters == {"-", "r", "w", "x", "s", "S", "t", "T"}

\* print_mode
PrintMode(bits) ==
    <<If(bits, "ur", "r"), If(bits, "uw", "w"), Execute(bits, "ux", "suid", "s", "S"),
      If(bits, "gr", "r"), If(bits, "gw", "w"), Execute(bits, "gx", "sgid", "s", "S"),
      If(bits, "or", "r"), If(bits, "ow", "w"), Execute(bits, "ox", "svtx", "t", "T")>>

\* Bit b of a mode, counted from the lowest.
BitAt == <<"ox", "ow", "or", "gx", "gw", "gr", "ux", "uw", "ur", "svtx", "sgid", "suid">>

ModeToStr_Slip(bits) ==  \* without the special bits
    [k \in 1..9 |-> IF BitAt[10 - k] \in bits THEN <<"r", "w", "x">>[((k - 1) % 3) + 1] ELSE "-"]

\* mode_to_str: character 3 * i + j is bit 3 * (2 - i) + 2 - j.
ModeToStr(bits) ==
    [k \in 1..9 |->
        LET i == (k - 1) \div 3
            j == (k - 1) % 3
            bit == BitAt[3 * (2 - i) + 2 - j + 1] \in bits
        IN  IF j = 2 /\ <<"suid", "sgid", "svtx">>[i + 1] \in bits
            THEN (IF i = 2 THEN (IF bit THEN "t" ELSE "T") ELSE IF bit THEN "s" ELSE "S")
            ELSE IF bit THEN <<"r", "w", "x">>[j + 1] ELSE "-"]

\* The mode that mojChmod.c gives the file; "octal" stands for the mode itself.
NewMode(option, bits) ==
    CASE option = "u+s" -> bits \cup {"suid"}
      [] option = "u-s" -> bits \ {"suid"}
      [] option = "g+s" -> bits \cup {"sgid"}
      [] option = "g-s" -> bits \ {"sgid"}
      [] OTHER -> bits

MojChmod ==
    /\ tool = "mojChmod" /\ ~ended /\ ended' = TRUE
    /\ buf' = NewMode(in.option, in.bits)
    /\ out' = IF in.option = "bad" THEN <<>> ELSE ModeToStr(buf')
    /\ UNCHANGED <<tool, in, pos, letter, cnt>>

\* Where stat fails, statbuf is what it was, and is printed all the same.
Lsl ==
    /\ tool = "lsl" /\ ~ended
    /\ pos' = pos + 1 /\ ended' = (pos' = ListSize)
    /\ buf' = IF in[pos'].found THEN in[pos'] ELSE buf
    /\ out' = Append(out, <<buf'.type, PrintMode(buf'.bits)>>)
    /\ UNCHANGED <<tool, in, letter, cnt>>

-----------------------------------------------------------------------------
(* look_for_str: a line longer than the buffer is read, and counted, in parts *)

LookForStr ==
    /\ tool = "look_for_str" /\ ~ended
    /\ pos' = pos + 1 /\ ended' = (pos' = FileSize)
    /\ cnt' = cnt + 1
    /\ out' = IF in[pos'].hit THEN Append(out, cnt') ELSE out
    /\ UNCHANGED <<tool, in, letter, buf>>

-----------------------------------------------------------------------------
(***************************************************************************)
(* word_matcher.sh, one line of the file: for each length asked for that   *)
(* is the line's, its letters are looked for one after the other.          *)
(***************************************************************************)

\* -p: a letter at a position; with three or more of them nothing is found.
Wished(line, w) ==
    Len(w) <= 2 /\ \A k \in DOMAIN w : w[k].at <= Len(line) /\ line[w[k].at] = w[k].letter

MatchWord ==
    /\ tool = "word_matcher" /\ ~ended
    /\ Wished(in.line, in.wishes) /\ pos < Len(in.stevila)

OfRightLength == in.stevila[pos + 1] = Len(in.line)

SkipLength ==
    /\ MatchWord /\ ~OfRightLength
    /\ pos' = pos + 1
    /\ UNCHANGED <<tool, in, cnt, letter, buf, out, ended>>

Strike_Slip ==  \* the letter is not struck
    /\ MatchWord /\ OfRightLength /\ letter < Len(in.line)
    /\ letter' = letter + 1
    /\ cnt' = IF Contains(buf, in.line[letter + 1]) THEN cnt + 1 ELSE cnt
    /\ UNCHANGED <<tool, in, pos, buf, out, ended>>

\* One letter of the line: the first one like it is struck from beseda.
Strike ==
    /\ MatchWord /\ OfRightLength /\ letter < Len(in.line)
    /\ letter' = letter + 1
    /\ LET h == SelectInSeq(buf, LAMBDA y : y = in.line[letter + 1])
       IN  /\ buf' = IF h = 0 THEN buf ELSE ReplaceAt(buf, h, Struck)
           /\ cnt' = IF h = 0 THEN cnt ELSE cnt + 1
    /\ UNCHANGED <<tool, in, pos, out, ended>>

\* stevec and beseda are not reset from one length to the next.
EchoLine ==
    /\ MatchWord /\ OfRightLength /\ letter = Len(in.line)
    /\ out' = IF cnt = Len(in.line) THEN Append(out, in.line) ELSE out
    /\ letter' = 0 /\ pos' = pos + 1
    /\ UNCHANGED <<tool, in, cnt, buf, ended>>

LineDone ==
    /\ tool = "word_matcher" /\ ~ended
    /\ ~Wished(in.line, in.wishes) \/ pos = Len(in.stevila)
    /\ ended' = TRUE
    /\ UNCHANGED <<tool, in, pos, cnt, letter, buf, out>>

WordMatcher == SkipLength \/ Strike \/ EchoLine \/ LineDone

Next == Rep \/ Lsl \/ MojChmod \/ LookForStr \/ WordMatcher

Spec == Init /\ [][Next]_vars
-----------------------------------------------------------------------------
TypeOK ==
    /\ tool \in {"rep", "lsl", "mojChmod", "look_for_str", "word_matcher"}
    /\ cnt \in Nat /\ letter \in Nat /\ ended \in BOOLEAN
    /\ tool = "rep" =>
         /\ in \in [text : Texts, n : Counts]
         /\ pos \in -1..(Len(in.text) - 1) /\ out \in Seq(Range(in.text))
    /\ tool = "lsl" =>
         /\ in \in Listings /\ buf \in Entries
         /\ pos \in 0..ListSize /\ out \in Seq({e.type : e \in Entries} \X [1..9 -> Characters])
    /\ tool = "mojChmod" => in \in [option : SetIdOptions, bits : Modes]
    /\ tool = "look_for_str" =>
         in \in Configs /\ pos \in 0..FileSize /\ out \in Seq(1..FileSize)
    /\ tool = "word_matcher" =>
         /\ in \in [word : Words, line : Words, stevila : Lengths, wishes : Wishes]
         /\ pos \in 0..Len(in.stevila) /\ letter \in 0..Len(in.line)
         /\ buf \in Seq(Range(in.word) \cup {Struck}) /\ Len(buf) = Len(in.word)
         /\ out \in Seq({in.line})

Newlines(s) == Cardinality({i \in DOMAIN s : s[i] = Newline})
Ends(s) == s # <<>> /\ s[Len(s)] = Newline
Occurrences(x, s) == Cardinality({i \in DOMAIN s : s[i] = x})

\* rep.c writes an end of the file that begins where a line begins and has n lines,
\* or all the lines there are; where the last line has no newline, one line more
\* (rep.c:42-60).
LastLines ==
    tool = "rep" /\ ended /\ in.n >= 0 =>
        LET text == in.text
            start == Len(text) - Len(out)
        IN  /\ out = SubSeq(text, start + 1, Len(text))
            /\ start > 0 => text[start] = Newline
            /\ Newlines(out) = IF Newlines(text) < in.n THEN Newlines(text) ELSE in.n

\* The mode mojChmod.c shows is written as lsl.c will list it, and differs from the
\* old one in the bit asked for only (lsl.c:96-133, mojChmod.c:43-58, 74-118); every
\* entry that stat finds is listed as it is, even after one it did not find.
ModesShown ==
    /\ tool = "mojChmod" /\ ended /\ in.option # "bad" =>
         /\ out = PrintMode(buf)
         /\ \A k \in {1, 2, 4, 5, 7, 8, 9} : out[k] = PrintMode(in.bits)[k]
    /\ tool = "lsl" /\ ended =>
         \A k \in 1..ListSize : in[k].found => out[k] = <<in[k].type, PrintMode(in[k].bits)>>

\* look_for_str numbers the lines rightly up to the first one that is longer than
\* the buffer, and too high from there on (server.c:44-50).
NumbersOfLines ==
    tool = "look_for_str" =>
        \A k \in DOMAIN out :
            LET line == 1 + Cardinality({i \in 1..(out[k] - 1) : in[i].ends})
            IN  /\ in[out[k]].hit
                /\ out[k] >= line
                /\ out[k] = line <=> \A i \in 1..(out[k] - 1) : in[i].ends

\* A word is found, once, if it can be laid with the letters of the word given, each
\* used once, and has one of the lengths and the letters wished for.  Where a length
\* is given twice a word may be found that cannot be laid, as the count goes on
\* where it stopped, but none is missed.  Nothing is said of a line with the sign
\* that is put in place of a letter (word_matcher.sh:95-119).
WordsFound ==
    tool = "word_matcher" /\ ended /\ Struck \notin Range(in.line) =>
        LET laid == \A x \in Range(in.line) : Occurrences(x, in.line) <= Occurrences(x, in.word)
            due == IF laid /\ Wished(in.line, in.wishes)
                   THEN Occurrences(Len(in.line), in.stevila) ELSE 0
        IN  /\ due > 0 => out # <<>>
            /\ IsInjective(in.stevila) => Len(out) = due
=============================================================================
