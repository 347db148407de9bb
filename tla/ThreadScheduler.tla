--------------------------- MODULE ThreadScheduler ---------------------------
(***************************************************************************)
(* src/src/examples/threadScheduler.c: NT threads share a semaphore that   *)
(* is to let two of them work at a time, and share as well the sembuf they *)
(* pass to semop.  A thread sets sem_op and then calls semop; another may  *)
(* have set it anew by then.  The kernel copies the sembuf when the call   *)
(* is made, so a call that blocks keeps the value it was made with.        *)
(***************************************************************************)
EXTENDS SysV, FiniteSets

CONSTANT NT  \* the number of threads, from the command line

ASSUME NTAssumption == NT \in Nat \ {0}

Threads == 1..NT

\* The value SETVAL gives the semaphore.
Permits == 2

VARIABLES
    main,      \* main's next call
    k,         \* main's loop counter: the thread it creates or joins next
    sem,       \* the semaphore
    op,        \* operation[0].sem_op, shared by all threads
    pc,        \* the next call of each thread
    arg,       \* the sem_op each thread's current semop was called with
    clobbered  \* history: some semop was called with a value another thread set

vars == <<main, k, sem, op, pc, arg, clobbered>>
mainVars == <<main, k>>
threadVars == <<op, pc, arg, clobbered>>

Init ==
    /\ main = "setval" /\ k = 1
    /\ sem = NoSem /\ op = 0
    /\ pc = [t \in Threads |-> "notCreated"]
    /\ arg = [t \in Threads |-> 0]
    /\ clobbered = FALSE

-----------------------------------------------------------------------------
(* main.  Definitions named ..._Slip are mistakes; no specification uses them. *)

Setval_Slip ==  \* one permit more
    /\ main = "setval" /\ main' = "create"
    /\ sem' = Permits + 1
    /\ UNCHANGED <<k, threadVars>>

\* semget finds or makes the semaphore, SETVAL sets it, whatever it was.
Setval ==
    /\ main = "setval" /\ main' = "create"
    /\ sem' = Permits
    /\ UNCHANGED <<k, threadVars>>

Create_Slip ==  \* i <= nt
    /\ main = "create"
    /\ pc' = [pc EXCEPT ![k] = "setLock"]
    /\ IF k > NT THEN main' = "join" /\ k' = 1 ELSE main' = main /\ k' = k + 1
    /\ UNCHANGED <<sem, op, arg, clobbered>>

Create ==
    /\ main = "create"
    /\ pc' = [pc EXCEPT ![k] = "setLock"]
    /\ IF k = NT THEN main' = "join" /\ k' = 1 ELSE main' = main /\ k' = k + 1
    /\ UNCHANGED <<sem, op, arg, clobbered>>

Join_Slip ==  \* the first thread is not joined
    /\ main = "join" /\ (pc[k] = "done" \/ k = 1)
    /\ IF k = NT THEN main' = "rmid" /\ k' = k ELSE main' = main /\ k' = k + 1
    /\ UNCHANGED <<sem, threadVars>>

Join ==
    /\ main = "join" /\ pc[k] = "done"
    /\ IF k = NT THEN main' = "rmid" /\ k' = k ELSE main' = main /\ k' = k + 1
    /\ UNCHANGED <<sem, threadVars>>

Rmid ==
    /\ main = "rmid" /\ main' = "done"
    /\ sem' = NoSem
    /\ UNCHANGED <<k, threadVars>>

Main == Setval \/ Create \/ Join \/ Rmid

-----------------------------------------------------------------------------
(* thread_function *)

\* operation[0].sem_op = value
SetOp(t, from, value, to) ==
    /\ pc[t] = from /\ pc' = [pc EXCEPT ![t] = to]
    /\ op' = value
    /\ UNCHANGED <<mainVars, sem, arg, clobbered>>

\* The kernel takes its copy of the operation.
Call(t, from, value, to) ==
    /\ pc[t] = from /\ pc' = [pc EXCEPT ![t] = to]
    /\ arg' = [arg EXCEPT ![t] = op]
    /\ clobbered' = (clobbered \/ op # value)
    /\ UNCHANGED <<mainVars, sem, op>>

\* The copy is carried out as soon as it can be.
Return(t, from, to) ==
    /\ pc[t] = from /\ pc' = [pc EXCEPT ![t] = to]
    /\ arg[t] < 0 => sem > 0
    /\ sem' = sem + arg[t]
    /\ UNCHANGED <<mainVars, op, arg, clobbered>>

SetLock(t) == SetOp(t, "setLock", -1, "callLock")
CallLock(t) == Call(t, "callLock", -1, "inLock")
EnterWork(t) == Return(t, "inLock", "work")
SetUnlock(t) == SetOp(t, "work", 1, "callUnlock")
CallUnlock(t) == Call(t, "callUnlock", 1, "inUnlock")

LeaveWork_Slip(t) ==  \* the unlock is left out
    /\ pc[t] = "inUnlock" /\ pc' = [pc EXCEPT ![t] = "done"]
    /\ UNCHANGED <<mainVars, sem, op, arg, clobbered>>

LeaveWork(t) == Return(t, "inUnlock", "done")

Thread(t) ==
    \/ SetLock(t) \/ CallLock(t) \/ EnterWork(t)
    \/ SetUnlock(t) \/ CallUnlock(t) \/ LeaveWork(t)

Next == Main \/ \E t \in Threads : Thread(t)

Spec == Init /\ [][Next]_vars

\* Threads and main are scheduled; the kernel serves a semaphore's waiters in order.
Fairness ==
    /\ WF_vars(Main)
    /\ \A t \in Threads : WF_vars(Thread(t)) /\ SF_vars(EnterWork(t))

FairSpec == Spec /\ Fairness

-----------------------------------------------------------------------------
ThreadCalls == {"notCreated", "setLock", "callLock", "inLock", "work", "callUnlock",
                "inUnlock", "done"}

TypeOK ==
    /\ main \in {"setval", "create", "join", "rmid", "done"}
    /\ k \in Threads
    /\ sem \in Nat \cup {NoSem}
    /\ op \in {-1, 0, 1}
    /\ pc \in [Threads -> ThreadCalls]
    /\ arg \in [Threads -> {-1, 0, 1}]
    /\ clobbered \in BOOLEAN

Inside == {t \in Threads : pc[t] \in {"work", "callUnlock", "inUnlock"}}

\* "This allows two threads to enter critical section simultaneously"
\* (threadScheduler.c:89-90), and no more than two.
AtMostTwo == Cardinality(Inside) <= Permits

\* As long as no thread has called semop with a value another one set, the
\* semaphore and the threads inside share the two permits, so at most two are
\* inside (threadScheduler.c:35-36, 52-53).
PermitsUnlessClobbered ==
    ~clobbered /\ main \in {"create", "join", "rmid"} => sem + Cardinality(Inside) = Permits

\* main removes the semaphore only when no thread will use it any more.
RemovedLast == main \in {"rmid", "done"} => \A t \in Threads : pc[t] = "done"

\* If the sembuf is never clobbered, all threads get through and main ends; it
\* is the shared sembuf alone that can leave threads waiting for ever.
EndsUnlessClobbered == []~clobbered => <>(main = "done")
=============================================================================
