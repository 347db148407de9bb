------------------------------- MODULE Alarms -------------------------------
(***************************************************************************)
(* concepts/signal/sleep.c, a sleep made of alarm and pause, and           *)
(* exercises/v5/signal.c, whose SIGINT handler stops the alarm, shows the  *)
(* seconds it had left and sets it again.  Both come down to what alarm(2) *)
(* does with times between two seconds: a second is as many ticks of the   *)
(* clock as one likes.  A handler takes no time.                           *)
(***************************************************************************)
EXTENDS Integers

CONSTANTS
    Second,     \* the ticks of a second
    Seconds,    \* what sleep.c may be given
    MaxSignals  \* how many SIGUSR1 or SIGINT are sent

Five == 5 * Second

VARIABLES
    program,  \* sleep.c or signal.c
    step,     \* what it does next, or waits for
    nsecs,    \* sleep1's argument
    timer,    \* the ticks until SIGALRM, 0 if no alarm is set
    phase,    \* signal.c: alarms that have rung, and 1
    unslept,  \* signal.c: what alarm(0) returned
    result,   \* sleep.c: what sleep1 returns
    elapsed,  \* the ticks since the alarm was first set
    signals,  \* how many SIGUSR1 or SIGINT have been sent
    missed    \* history: the alarm rang while sleep1 was not in pause

vars == <<program, step, nsecs, timer, phase, unslept, result, elapsed, signals, missed>>

Init ==
    /\ program \in {"sleep", "signal"} /\ step = "alarm"
    /\ nsecs \in IF program = "sleep" THEN Seconds ELSE {5}
    /\ timer = 0 /\ phase = 1 /\ unslept = 0 /\ result = -1
    /\ elapsed = 0 /\ signals = 0 /\ missed = FALSE

-----------------------------------------------------------------------------
(* Definitions named ..._Slip are mistakes; no specification uses them. *)

\* alarm(0) returns whole seconds: the nearest, of two the larger, and 0 only if no
\* alarm is set.
Left(ticks) ==
    LET nearest == (2 * ticks + Second) \div (2 * Second)
    IN  IF ticks > 0 /\ nearest = 0 THEN 1 ELSE nearest

\* alarm(nsecs); no alarm is set for 0.
Alarm ==
    /\ step = "alarm" /\ step' = IF program = "sleep" THEN "beforePause" ELSE "loop"
    /\ timer' = nsecs * Second
    /\ UNCHANGED <<program, nsecs, phase, unslept, result, elapsed, signals, missed>>

\* Time passes; SIGALRM comes with the last tick.
Tick ==
    /\ timer > 0 /\ step \in {"beforePause", "pause", "loop"}
    /\ timer' = timer - 1 /\ elapsed' = elapsed + 1
    /\ step' = IF timer' > 0 THEN step ELSE IF step = "pause" THEN "cancel" ELSE
               IF step = "loop" THEN "SIGALRM" ELSE step
    /\ missed' = (missed \/ (timer' = 0 /\ step = "beforePause"))
    /\ UNCHANGED <<program, nsecs, phase, unslept, result, signals>>

-----------------------------------------------------------------------------
(* sleep.c *)

Pause ==
    /\ step = "beforePause" /\ step' = "pause"
    /\ UNCHANGED <<program, nsecs, timer, phase, unslept, result, elapsed, signals, missed>>

\* SIGUSR1: its handler does nothing more, and pause returns if it has begun.
Usr1 ==
    /\ step \in {"beforePause", "pause"} /\ signals < MaxSignals /\ program = "sleep"
    /\ signals' = signals + 1
    /\ step' = IF step = "pause" THEN "cancel" ELSE step
    /\ UNCHANGED <<program, nsecs, timer, phase, unslept, result, elapsed, missed>>

Cancel_Slip ==  \* what is returned is what was asked for
    /\ step = "cancel" /\ step' = "done"
    /\ result' = nsecs /\ timer' = 0
    /\ UNCHANGED <<program, nsecs, phase, unslept, elapsed, signals, missed>>

Cancel ==
    /\ step = "cancel" /\ step' = "done"
    /\ result' = Left(timer) /\ timer' = 0
    /\ UNCHANGED <<program, nsecs, phase, unslept, elapsed, signals, missed>>

-----------------------------------------------------------------------------
(* signal.c *)

\* SIGINT is shown in phase 1, ignored in phase 2 and ends the program in phase 3.
Sigint ==
    /\ step = "loop" /\ signals < MaxSignals
    /\ signals' = signals + 1
    /\ step' = IF phase = 1 THEN "handler" ELSE IF phase = 2 THEN step ELSE "done"
    /\ UNCHANGED <<program, nsecs, timer, phase, unslept, result, elapsed, missed>>

ShowUnslept ==
    /\ step = "handler" /\ step' = "again"
    /\ unslept' = Left(timer) /\ timer' = 0
    /\ UNCHANGED <<program, nsecs, phase, result, elapsed, signals, missed>>

AlarmAgain_Slip ==  \* the alarm is not set again
    /\ step = "again" /\ step' = "loop"
    /\ unslept' = 0
    /\ UNCHANGED <<program, nsecs, timer, phase, result, elapsed, signals, missed>>

AlarmAgain ==
    /\ step = "again" /\ step' = "loop"
    /\ timer' = unslept * Second /\ unslept' = 0
    /\ UNCHANGED <<program, nsecs, phase, result, elapsed, signals, missed>>

\* The alarm may ring while the handler of SIGINT runs; it then runs on, in phase 2.
AlarmHandler ==
    /\ step = "SIGALRM" \/ (step = "handler" /\ timer = 1)
    /\ phase' = phase + 1 /\ timer' = Five
    /\ elapsed' = IF step = "handler" THEN elapsed + 1 ELSE elapsed
    /\ step' = IF phase = 3 THEN "done" ELSE IF step = "handler" THEN step ELSE "loop"
    /\ UNCHANGED <<program, nsecs, unslept, result, signals, missed>>

Program == Alarm \/ Pause \/ Cancel \/ ShowUnslept \/ AlarmAgain \/ AlarmHandler

Next == Program \/ Tick \/ Usr1 \/ Sigint

Spec == Init /\ [][Next]_vars

\* The program runs and time passes; nobody need send a signal.
Fairness == WF_vars(Program) /\ WF_vars(Tick)

FairSpec == Spec /\ Fairness
-----------------------------------------------------------------------------
TypeOK ==
    /\ program \in {"sleep", "signal"}
    /\ step \in {"alarm", "beforePause", "pause", "cancel", "loop", "handler", "again", "SIGALRM", "done"}
    /\ nsecs \in Seconds \cup {5} /\ timer \in 0..nsecs*Second
    /\ unslept \in 0..nsecs /\ result \in -1..nsecs
    /\ phase \in 1..4 /\ elapsed \in Nat /\ signals \in 0..MaxSignals /\ missed \in BOOLEAN

\* The ticks by which what sleep1 returns is more than what was left of the time, and
\* by which the alarm of signal.c is to ring later than five seconds after the last.
Unreal == result * Second - (nsecs * Second - elapsed)
Late == elapsed + timer - phase * Five

\* sleep1 returns 0 when nothing was left of the time, and only then; otherwise what it
\* returns is less than half a second short and at most half a second too much, or it is
\* 1 (sleep.c:23-26).  The alarm of signal.c is never lost; but it is set anew to what
\* alarm(0) returned, so that every SIGINT that is answered may bring it forward by
\* half a second or put it off by up to one, and many put it off without end
\* (signal.c:12-19, 29-47).
TimeIsKept ==
    /\ step = "done" /\ program = "sleep" =>
         /\ result = 0 <=> elapsed = nsecs * Second
         /\ -Second < 2 * Unreal /\ Unreal < Second
         /\ 2 * Unreal > Second => result = 1
    /\ step = "loop" =>
         timer > 0 /\ -(signals * Second) <= 2 * Late /\ Late <= signals * Second

\* sleep1 returns unless there was no alarm to wait for or it rang before pause was
\* called (sleep.c:23-24); signal.c ends.
AllWakeUp == <>(step = "done" \/ (program = "sleep" /\ (nsecs = 0 \/ missed)))
=============================================================================
