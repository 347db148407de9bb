----------------------------- MODULE PipeShell -----------------------------
(***************************************************************************)
(* The shell of exercises/v5/lupina_cev.c; exercises/v4/lupina.c is the    *)
(* same shell without "=>".  For a line "left => right" the shell forks    *)
(* child 1, child 1 makes a pipe and forks child 2, and both close the     *)
(* ends they do not use before they run the programs.  The shell waits for *)
(* child 1 alone.  A step is a call that changes a process or one of its   *)
(* descriptors; a program is what it reads and writes.                     *)
(***************************************************************************)
EXTENDS Naturals, Sequences, SequencesExt

CONSTANTS
    Lines,       \* what may be entered: records of the words left and right and of sep
    MaxCommands, \* how many lines are entered
    Capacity     \* what a pipe holds

Commands == 1..MaxCommands
Arrow == "=>"

\* The programs: how much one writes, whether it reads all or stops after one
\* item.  A word of another name cannot be executed.
Programs == {"writer", "copier", "head"}
Output == 2

VARIABLES
    shell,     \* what the shell does
    commands,  \* how many lines it has read
    odd,       \* command_num % 2 = 1
    words,     \* the words of each line, as it was parsed
    left,      \* the next step of each child 1
    right,     \* the next step of each child 2
    fds,       \* the descriptors of each pipe: who has it, and as what
    pipe,      \* what is in each pipe
    wrote,     \* what each left side has written
    got        \* what each right side has read

shellVars == <<shell, commands, odd, words>>
vars == <<shellVars, left, right, fds, pipe, wrote, got>>

Init ==
    /\ shell = "read" /\ commands = 0 /\ odd = TRUE
    /\ words = [n \in Commands |-> <<>>]
    /\ left = [n \in Commands |-> "none"] /\ right = [n \in Commands |-> "none"]
    /\ fds = [n \in Commands |-> {}] /\ pipe = [n \in Commands |-> <<>>]
    /\ wrote = [n \in Commands |-> 0] /\ got = [n \in Commands |-> 0]

-----------------------------------------------------------------------------
(* Parsing.  Definitions named ..._Slip are mistakes; no specification uses them. *)

NonEmpty(w) == SelectSeq(w, LAMBDA x : x # "")

\* A line ends after left, or has the arrow, between separators, and right.
Text(line) == IF line.sep = "" THEN <<line.left>> ELSE <<line.left, Arrow, line.right>>

\* parse: words are separated by blanks and tabs.
Parse(line) == NonEmpty(Text(line))

\* parse_strtok: by blanks alone; a tab joins what is around it to one word.
ParseStrtok(line) == IF line.sep = "tab" THEN <<"joined">> ELSE NonEmpty(Text(line))

\* check_if_pipe: the words before the first arrow and after it.
ArrowAt(w) == SelectInSeq(w, LAMBDA x : x = Arrow)
Left(n) == IF ArrowAt(words[n]) = 0 THEN words[n] ELSE SubSeq(words[n], 1, ArrowAt(words[n]) - 1)
Right(n) == SubSeq(words[n], ArrowAt(words[n]) + 1, Len(words[n]))
Piped(n) == ArrowAt(words[n]) # 0

-----------------------------------------------------------------------------
(* The shell *)

ReadLine ==
    /\ shell = "read" /\ commands < MaxCommands
    /\ \E line \in Lines :
         words' = [words EXCEPT ![commands + 1] = IF odd THEN Parse(line) ELSE ParseStrtok(line)]
    /\ shell' = "fork" /\ commands' = commands + 1
    /\ UNCHANGED <<odd, left, right, fds, pipe, wrote, got>>

ForkLeft ==
    /\ shell = "fork" /\ shell' = "wait"
    /\ left' = [left EXCEPT ![commands] = IF Piped(commands) THEN "pipe" ELSE "exec"]
    /\ UNCHANGED <<commands, odd, words, right, fds, pipe, wrote, got>>

Waitpid ==
    /\ shell = "wait" /\ left[commands] = "ended" /\ shell' = "read"
    /\ odd' = ~odd
    /\ UNCHANGED <<commands, words, left, right, fds, pipe, wrote, got>>

\* The end of the input, SIGINT or SIGUSR1, or a fork that fails: the shell exits.
Exit ==
    /\ shell # "ended" /\ shell' = "ended"
    /\ UNCHANGED <<commands, odd, words, left, right, fds, pipe, wrote, got>>

-----------------------------------------------------------------------------
(* Child 1.  A descriptor is <<who, as what>>: pfd[0], pfd[1], stdin or stdout. *)

Goes(side, n, from, to) == side[n] = from /\ side' = [side EXCEPT ![n] = to]
Has(n, who, what) == <<who, what>> \in fds[n]
Opens(n, who, what) == fds' = [fds EXCEPT ![n] = @ \cup {<<who, what>>}]
Closes(n, who, what) == fds' = [fds EXCEPT ![n] = @ \ {<<who, what>>}]
Leaves(n, who) == fds' = [fds EXCEPT ![n] = {d \in @ : d[1] # who}]

Pipe(n) ==
    /\ Goes(left, n, "pipe", "fork")
    /\ fds' = [fds EXCEPT ![n] = {<<"left", "pfd0">>, <<"left", "pfd1">>}]
    /\ UNCHANGED <<shellVars, right, pipe, wrote, got>>

\* Child 2 gets a copy of every descriptor.
ForkRight(n) ==
    /\ Goes(left, n, "fork", "closeRead") /\ right' = [right EXCEPT ![n] = "closeWrite"]
    /\ fds' = [fds EXCEPT ![n] = @ \cup {<<"right", d[2]>> : d \in @}]
    /\ UNCHANGED <<shellVars, pipe, wrote, got>>

\* pipe, fork or dup2 fails: exit(1).
LeftFails(n) ==
    /\ left[n] \in {"pipe", "fork", "dup"} /\ left' = [left EXCEPT ![n] = "ended"]
    /\ Leaves(n, "left")
    /\ UNCHANGED <<shellVars, right, pipe, wrote, got>>

LeftCloseRead_Slip(n) ==  \* left out
    /\ Goes(left, n, "closeRead", "dup")
    /\ UNCHANGED <<shellVars, right, fds, pipe, wrote, got>>

LeftCloseRead(n) ==
    /\ Goes(left, n, "closeRead", "dup") /\ Closes(n, "left", "pfd0")
    /\ UNCHANGED <<shellVars, right, pipe, wrote, got>>

LeftDup_Slip(n) ==  \* left out
    /\ Goes(left, n, "dup", "closeWrite")
    /\ UNCHANGED <<shellVars, right, fds, pipe, wrote, got>>

LeftDup(n) ==
    /\ Goes(left, n, "dup", "closeWrite") /\ Opens(n, "left", "stdout")
    /\ UNCHANGED <<shellVars, right, pipe, wrote, got>>

LeftCloseWrite(n) ==
    /\ Goes(left, n, "closeWrite", "exec") /\ Closes(n, "left", "pfd1")
    /\ UNCHANGED <<shellVars, right, pipe, wrote, got>>

\* What cannot be executed says so on its standard output and exits.
Executable(w) == w # <<>> /\ Head(w) \in Programs

LeftExec(n) ==
    /\ Goes(left, n, "exec", IF Executable(Left(n)) THEN "run" ELSE "complain")
    /\ UNCHANGED <<shellVars, right, fds, pipe, wrote, got>>

Readers(n) == {d \in fds[n] : d[2] \in {"pfd0", "stdin"}}
Writers(n) == {d \in fds[n] : d[2] \in {"pfd1", "stdout"}}
ToWrite(n) == IF left[n] = "complain" THEN 1 ELSE Output

\* A write to a full pipe waits, one without a reader ends the process.
LeftWrites(n) ==
    /\ left[n] \in {"run", "complain"} /\ wrote[n] < ToWrite(n)
    /\ IF ~Piped(n) THEN UNCHANGED <<left, fds, pipe>> /\ wrote' = [wrote EXCEPT ![n] = @ + 1]
       ELSE IF ~Has(n, "left", "stdout")
       THEN UNCHANGED <<left, fds, pipe>> /\ wrote' = [wrote EXCEPT ![n] = @ + 1]
       ELSE IF Readers(n) = {}
       THEN left' = [left EXCEPT ![n] = "ended"] /\ Leaves(n, "left") /\ UNCHANGED <<pipe, wrote>>
       ELSE /\ Len(pipe[n]) < Capacity
            /\ wrote' = [wrote EXCEPT ![n] = @ + 1]
            /\ pipe' = [pipe EXCEPT ![n] = Append(@, wrote'[n])]
            /\ UNCHANGED <<left, fds>>
    /\ UNCHANGED <<shellVars, right, got>>

LeftEnds(n) ==
    /\ left[n] \in {"run", "complain"} /\ wrote[n] = ToWrite(n)
    /\ left' = [left EXCEPT ![n] = "ended"] /\ Leaves(n, "left")
    /\ UNCHANGED <<shellVars, right, pipe, wrote, got>>

-----------------------------------------------------------------------------
(* Child 2 *)

RightCloseWrite_Slip(n) ==  \* left out
    /\ Goes(right, n, "closeWrite", "dup")
    /\ UNCHANGED <<shellVars, left, fds, pipe, wrote, got>>

RightCloseWrite(n) ==
    /\ Goes(right, n, "closeWrite", "dup") /\ Closes(n, "right", "pfd1")
    /\ UNCHANGED <<shellVars, left, pipe, wrote, got>>

RightDup(n) ==
    /\ Goes(right, n, "dup", "closeRead") /\ Opens(n, "right", "stdin")
    /\ UNCHANGED <<shellVars, left, pipe, wrote, got>>

RightCloseRead(n) ==
    /\ Goes(right, n, "closeRead", "exec") /\ Closes(n, "right", "pfd0")
    /\ UNCHANGED <<shellVars, left, pipe, wrote, got>>

\* A copier reads to the end of the pipe, a head one item, a writer nothing; dup2 may fail.
RightExec(n) ==
    /\ right[n] \in {"dup", "exec"}
    /\ IF right[n] = "exec" /\ Executable(Right(n)) /\ Head(Right(n)) # "writer"
       THEN right' = [right EXCEPT ![n] = "run"] /\ UNCHANGED fds
       ELSE right' = [right EXCEPT ![n] = "ended"] /\ Leaves(n, "right")
    /\ UNCHANGED <<shellVars, left, pipe, wrote, got>>

RightReads(n) ==
    /\ right[n] = "run" /\ pipe[n] # <<>>
    /\ got' = [got EXCEPT ![n] = Head(pipe[n])] /\ pipe' = [pipe EXCEPT ![n] = Tail(@)]
    /\ IF Head(Right(n)) = "head"
       THEN right' = [right EXCEPT ![n] = "ended"] /\ Leaves(n, "right")
       ELSE UNCHANGED <<right, fds>>
    /\ UNCHANGED <<shellVars, left, wrote>>

RightAtEnd(n) ==
    /\ Goes(right, n, "run", "atEnd") /\ pipe[n] = <<>> /\ Writers(n) = {}
    /\ Leaves(n, "right")
    /\ UNCHANGED <<shellVars, left, pipe, wrote, got>>

-----------------------------------------------------------------------------
Shell == ReadLine \/ ForkLeft \/ Waitpid
LeftSide(n) ==
    \/ Pipe(n) \/ ForkRight(n) \/ LeftCloseRead(n) \/ LeftDup(n) \/ LeftCloseWrite(n)
    \/ LeftExec(n) \/ LeftWrites(n) \/ LeftEnds(n)
RightSide(n) ==
    \/ RightCloseWrite(n) \/ RightDup(n) \/ RightCloseRead(n) \/ RightExec(n)
    \/ RightReads(n) \/ RightAtEnd(n)

Next ==
    \/ Shell \/ Exit
    \/ \E n \in Commands : LeftSide(n) \/ LeftFails(n) \/ RightSide(n)

Spec == Init /\ [][Next]_vars

\* Processes run; nobody need enter a line or stop the shell.
Fairness ==
    /\ WF_vars(ForkLeft \/ Waitpid)
    /\ \A n \in Commands : WF_vars(LeftSide(n)) /\ WF_vars(RightSide(n))

FairSpec == Spec /\ Fairness
-----------------------------------------------------------------------------
TypeOK ==
    /\ shell \in {"read", "fork", "wait", "ended"}
    /\ commands \in 0..MaxCommands /\ odd \in BOOLEAN
    /\ left \in [Commands -> {"none", "pipe", "fork", "closeRead", "dup", "closeWrite", "exec",
                              "run", "complain", "ended"}]
    /\ right \in [Commands -> {"none", "closeWrite", "dup", "closeRead", "exec", "run", "ended",
                               "atEnd"}]
    /\ \A n \in Commands : Len(pipe[n]) <= Capacity /\ wrote[n] <= Output /\ got[n] <= wrote[n]
    /\ fds \in [Commands -> SUBSET ({"left", "right"} \X {"pfd0", "pfd1", "stdin", "stdout"})]

\* A right side that sees the end of its input has had everything the left side
\* wrote, whether that ran, could not be executed or failed before, and whichever
\* command the shell is at by then (lupina_cev.c:86-107).
RightGetsAll ==
    \A n \in Commands :
        right[n] = "atEnd" => left[n] = "ended" /\ pipe[n] = <<>> /\ got[n] = wrote[n]

\* Every command comes to its end: the shell can prompt again, a left side is not
\* left writing to nobody, nor a right side waiting for an end that one of the two
\* keeps open (lupina_cev.c:89, 102-107, 116-117).
CommandsEnd ==
    \A n \in Commands :
        left[n] # "none" ~> left[n] = "ended" /\ right[n] \in {"none", "ended", "atEnd"}
=============================================================================
