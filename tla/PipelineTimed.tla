---------------------------- MODULE PipelineTimed ----------------------------
(***************************************************************************)
(* MessagePipeline with its clock.  Nothing tells the generator that a      *)
(* message has been taken; that none is overwritten unread rests on the    *)
(* lengths of the sleep() calls alone.  Here a program sleeps for a number *)
(* of seconds, every other call takes no time, and time passes only when   *)
(* no program that is awake can go on.                                     *)
(***************************************************************************)
EXTENDS MessagePipeline

CONSTANT MaxStart  \* the programs are started within this many seconds

ASSUME MaxStartAssumption == MaxStart \in Nat

VARIABLE asleep  \* the seconds each program still sleeps

timedVars == <<vars, asleep>>

\* The generator sleeps with the lock held, and once more after giving it back.
HoldPause == 2
GapPause == 2

PollPause_Slip == 5  \* longer than a message stays in the segment

PollPause == 1

\* What program p sleeps between its calls `from' and `to'.
Pause(p, from, to) ==
    CASE p = "generator" /\ from # "lock" /\ to = "unlock" -> HoldPause
      [] p = "generator" /\ from = "unlock" /\ to = "lock" -> GapPause
      [] p = "posrednik" /\ from = "check" /\ to = "lock" -> PollPause
      [] OTHER -> 0

StepOf(p) ==
    CASE p = "generator" -> Generator
      [] p = "posrednik" -> Posrednik
      [] p = "zapisovalec" -> Zapisovalec

Run(p) ==
    /\ asleep[p] = 0
    /\ StepOf(p)
    /\ asleep' = [asleep EXCEPT ![p] = Pause(p, pc[p], pc'[p])]

\* A program waits in semop, in msgsnd while the queue is full, and in msgrcv
\* while it is empty; all its other calls return at once.
Waits(p) ==
    \/ pc[p] = "done"
    \/ pc[p] = "lock" /\ ~CanDown(sem)
    \/ pc[p] = "msgsnd" /\ hasQueue /\ Len(queue) >= QueueCap
    \/ pc[p] = "msgrcv" /\ queue = <<>>

CanRun(p) == asleep[p] = 0 /\ ~Waits(p)

Tick ==
    /\ \A p \in Programs : ~CanRun(p)
    /\ \E p \in Programs : asleep[p] > 0
    /\ asleep' = [p \in Programs |-> IF asleep[p] > 0 THEN asleep[p] - 1 ELSE 0]
    /\ UNCHANGED vars

TimedInit == Init /\ asleep \in [Programs -> 0..MaxStart]

TimedNext == Tick \/ \E p \in Programs : Run(p)

TimedSpec == TimedInit /\ [][TimedNext]_timedVars /\ WF_timedVars(TimedNext)

-----------------------------------------------------------------------------
\* From the first message it relays the go-between misses none: it polls twice
\* as often as the generator can write, and is queued for the semaphore when
\* the write is done (generator.c:71-78, posrednik.c:111).
MissesNone ==
    \A a \in 1..(Len(sent) - 1) :
        sent[a + 1] = IF sent[a] = N THEN Empty ELSE sent[a] + 1

\* A message does not outlive its stay in the segment unread: when the generator
\* is about to write the next one, a go-between that has finished a poll has
\* relayed the current one.
RelayedBeforeOverwrite ==
    pc["generator"] = "sprintf" /\ i > 1 /\ asleep["posrednik"] > 0 /\ pc["posrednik"] = "lock"
        => LastSent = i - 1

\* A go-between that has relayed something and stops has relayed the empty
\* message too, unless the generator cleared the segment in the very instant
\* between its unlock and its test (posrednik.c:103-105).
MarkerMissedOnlyInTheInstant ==
    pc["posrednik"] = "shmctl" /\ sent # <<>> /\ LastSent # Empty =>
        i = N + 1 /\ pc["generator"] = "unlock" /\ asleep["generator"] = HoldPause

\* What the sleeps of the two programs are for (generator.c:71-88, posrednik.c:111).
SleepsSuffice == MissesNone /\ RelayedBeforeOverwrite /\ MarkerMissedOnlyInTheInstant
=============================================================================
