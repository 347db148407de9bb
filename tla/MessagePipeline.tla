--------------------------- MODULE MessagePipeline ---------------------------
(***************************************************************************)
(* The three programs of src/src/exercises/v6.                             *)
(*                                                                         *)
(*   generator    writes the messages 1..N and then the empty message into *)
(*                a shared segment, one at a time, under a semaphore;      *)
(*   posrednik    ("go-between") polls the segment under the same          *)
(*                semaphore and puts every new message in a queue;         *)
(*   zapisovalec  ("recorder") writes the messages of the queue to a file. *)
(*                                                                         *)
(* They are started by hand, in any order, and share nothing but the IPC   *)
(* objects.  This module is untimed: sleep() is a step boundary.  Module   *)
(* PipelineTimed adds the clock and module PipelineRestart the kills and   *)
(* the restarts.                                                           *)
(***************************************************************************)
EXTENDS SysV, Sequences

CONSTANTS
    N,        \* messages the generator writes before the empty one; 4 in the code
    QueueCap  \* messages the queue holds before msgsnd blocks

ASSUME NAssumption == N \in Nat
ASSUME QueueCapAssumption == QueueCap \in Nat \ {0}

\* Message i is the text sprintf makes of i; 0 is the empty string, and Torn
\* is what a reader sees while sprintf is half way through the segment.
Empty == 0
Torn == -1
Contents == 0..N \cup {Torn}

VARIABLES
    pc,        \* the next call of each program, named after it
    shm,       \* the segment with key 'a'
    mem,       \* what the segment holds
    sem,       \* the semaphore with key 'b'
    hasQueue,  \* the queue with key 'c' exists
    queue,     \* the messages in it
    i,         \* generator: the message it writes next
    last,      \* posrednik: last_msg
    msgbuf,    \* posrednik: msgbuf.mtext
    outbuf,    \* zapisovalec: what stdio has not written to the file yet
    file,      \* the file
    sent       \* history: everything msgsnd has accepted

posted == <<last, msgbuf, sent>>
written == <<outbuf, file>>
locals == <<i, posted, written>>
board == <<shm, mem>>
queueVars == <<hasQueue, queue>>
vars == <<pc, board, sem, queueVars, locals>>

Programs == {"generator", "posrednik", "zapisovalec"}

\* Program p makes the call `from', and `to' is its next one.
Go(p, from, to) == pc[p] = from /\ pc' = [pc EXCEPT ![p] = to]

\* ... and the call it makes changes no state, the semaphore, or the text.
Silent(p, from, to) == Go(p, from, to) /\ UNCHANGED <<board, sem, queueVars, locals>>
SemStep(p, from, to, s) ==
    Go(p, from, to) /\ sem' = s /\ UNCHANGED <<board, queueVars, locals>>
MemStep(p, from, to, text) ==
    Go(p, from, to) /\ mem' = text /\ UNCHANGED <<shm, sem, queueVars, locals>>

Init ==
    /\ pc = [generator |-> "shmget", posrednik |-> "msgget", zapisovalec |-> "msgget"]
    /\ shm = "none" /\ mem = Empty
    /\ sem = NoSem
    /\ hasQueue = FALSE /\ queue = <<>>
    /\ i = 1
    /\ last = Empty /\ msgbuf = Empty /\ sent = <<>>
    /\ outbuf = <<>> /\ file = <<>>

-----------------------------------------------------------------------------
(***************************************************************************)
(* generator.c.  Definitions named ..._Slip are mistakes a programmer could *)
(* make in the action that follows them; no specification uses them.       *)
(***************************************************************************)

\* The segment is created zeroed, or found as it was left.
GShmget ==
    /\ Go("generator", "shmget", "semget")
    /\ shm' = "linked"
    /\ mem' = IF shm = "linked" THEN mem ELSE Empty
    /\ UNCHANGED <<sem, queueVars, locals>>

GSemget_Slip ==  \* the semaphore is taken to be created free
    SemStep("generator", "semget", "setval", 1)

GSemget == SemStep("generator", "semget", "setval", AfterSemget(sem))

\* SETVAL overwrites the value whoever holds the semaphore; it fails only if
\* the semaphore has been removed meanwhile.
GSetval ==
    IF sem = NoSem THEN Silent("generator", "setval", "exit")
                   ELSE SemStep("generator", "setval", "lock", 1)

Writing_Slip == i <= N + 1  \* the loop runs once too often

\* The loop goes on; after it comes the empty message, for which i is N + 1.
Writing == i <= N

GLocked == IF Writing THEN "sprintf" ELSE "clear"

GLock_Slip ==  \* the lock is forgotten
    Silent("generator", "lock", GLocked)

\* The result of semop is not looked at: with the semaphore gone, the
\* generator goes on without the lock.
GLock ==
    CanDown(sem) /\ SemStep("generator", "lock", GLocked, AfterDown(sem))

GWriteBegin == MemStep("generator", "sprintf", "written", Torn)

GWriteEnd == MemStep("generator", "written", "unlock", i)

GClear == MemStep("generator", "clear", "unlock", Empty)

GUnlock ==
    /\ Go("generator", "unlock", IF Writing THEN "lock" ELSE "exit")
    /\ sem' = AfterUp(sem)
    /\ i' = IF Writing THEN i + 1 ELSE i
    /\ UNCHANGED <<board, queueVars, posted, written>>

\* The end of the process detaches the segment.
GExit ==
    /\ Go("generator", "exit", "done")
    /\ shm' = AfterLastDetach(shm)
    /\ UNCHANGED <<mem, sem, queueVars, locals>>

Generator ==
    \/ GShmget \/ GSemget \/ GSetval \/ GLock
    \/ GWriteBegin \/ GWriteEnd \/ GClear \/ GUnlock \/ GExit

GeneratorAttached == pc["generator"] \notin {"shmget", "done"}

-----------------------------------------------------------------------------
(* posrednik.c *)

PMsgget ==
    /\ Go("posrednik", "msgget", "shmget")
    /\ hasQueue' = TRUE
    /\ UNCHANGED <<board, sem, queue, locals>>

\* Without IPC_CREAT: the program gives up unless the generator was first.
PShmget == Silent("posrednik", "shmget", IF shm = "linked" THEN "semget" ELSE "done")

PSemget == Silent("posrednik", "semget", IF sem # NoSem THEN "lock" ELSE "done")

PLock_Slip ==  \* the lock is forgotten
    Silent("posrednik", "lock", "strcmp")

PLock ==
    CanDown(sem) /\ SemStep("posrednik", "lock", "strcmp", AfterDown(sem))

PCompareNew_Slip ==  \* every poll counts as a new message
    Silent("posrednik", "strcmp", "strcpy")

PCompareNew == mem # last /\ Silent("posrednik", "strcmp", "strcpy")

PCompareOld_Slip ==  \* an empty segment counts as nothing new
    mem \in {last, Torn, Empty} /\ Silent("posrednik", "strcmp", "unlock")

PCompareOldLocked_Slip ==  \* the unlock is done only for a new message
    mem \in {last, Torn} /\ Silent("posrednik", "strcmp", "check")

\* Half-written text may compare either way.
PCompareOld == mem \in {last, Torn} /\ Silent("posrednik", "strcmp", "unlock")

PCopy ==
    /\ Go("posrednik", "strcpy", "msgsnd")
    /\ msgbuf' = mem
    /\ UNCHANGED <<board, sem, queueVars, i, last, sent, written>>

\* msgsnd blocks while the queue is full; the semaphore is held meanwhile.
PAccepted ==
    /\ hasQueue /\ Len(queue) < QueueCap
    /\ Go("posrednik", "msgsnd", "remember")
    /\ queue' = Append(queue, msgbuf)
    /\ sent' = Append(sent, msgbuf)
    /\ UNCHANGED <<board, sem, hasQueue, i, last, msgbuf, written>>

\* The queue has been removed: err() exits, with the semaphore still held.
PSendFails == ~hasQueue /\ Silent("posrednik", "msgsnd", "done")

PSend == IF hasQueue THEN PAccepted ELSE PSendFails

PRemember_Slip ==  \* strcpy(last_msg, addr) is left out
    Silent("posrednik", "remember", "unlock")

PRemember ==
    /\ Go("posrednik", "remember", "unlock")
    /\ last' = mem
    /\ UNCHANGED <<board, sem, queueVars, i, msgbuf, sent, written>>

PUnlock == SemStep("posrednik", "unlock", "check", AfterUp(sem))

\* The test for the empty message reads the segment after the unlock.
PCheck == Silent("posrednik", "check", IF mem = Empty THEN "shmctl" ELSE "lock")

PShmctl ==
    /\ Go("posrednik", "shmctl", "semctl")
    /\ shm' = AfterShmRmid(GeneratorAttached)
    /\ UNCHANGED <<mem, sem, queueVars, locals>>

\* Whoever waits in semop is woken and told so; the queue is left behind.
PSemctl == SemStep("posrednik", "semctl", "done", NoSem)

Posrednik ==
    \/ PMsgget \/ PShmget \/ PSemget \/ PLock \/ PCompareNew \/ PCompareOld
    \/ PCopy \/ PSend \/ PRemember \/ PUnlock \/ PCheck
    \/ PShmctl \/ PSemctl

-----------------------------------------------------------------------------
(* zapisovalec.c *)

\* msgget without IPC_CREAT, then fopen(..., "w").
ZMsgget ==
    /\ Go("zapisovalec", "msgget", IF hasQueue THEN "msgrcv" ELSE "done")
    /\ file' = IF hasQueue THEN <<>> ELSE file
    /\ UNCHANGED <<board, sem, queueVars, i, posted, outbuf>>

ZWrite_Slip ==  \* the message is read again instead of being removed
    /\ hasQueue /\ queue # <<>> /\ Head(queue) # Empty
    /\ Go("zapisovalec", "msgrcv", "msgrcv")
    /\ Len(outbuf) <= N
    /\ outbuf' = Append(outbuf, Head(queue))
    /\ UNCHANGED <<board, sem, queueVars, i, posted, file>>

ZWriteThrough_Slip ==  \* every line is flushed to the file
    /\ hasQueue /\ queue # <<>> /\ Head(queue) # Empty
    /\ Go("zapisovalec", "msgrcv", "msgrcv")
    /\ queue' = Tail(queue)
    /\ file' = Append(file, Head(queue))
    /\ UNCHANGED <<board, sem, hasQueue, i, posted, outbuf>>

\* The lines are far fewer than a stdio buffer: nothing reaches the file yet.
ZWrite ==
    /\ hasQueue /\ queue # <<>> /\ Head(queue) # Empty
    /\ Go("zapisovalec", "msgrcv", "msgrcv")
    /\ queue' = Tail(queue)
    /\ outbuf' = Append(outbuf, Head(queue))
    /\ UNCHANGED <<board, sem, hasQueue, i, posted, file>>

ZEnd_Slip ==  \* the empty message is skipped like a blank line
    /\ hasQueue /\ queue # <<>> /\ Head(queue) = Empty
    /\ Go("zapisovalec", "msgrcv", "msgrcv")
    /\ queue' = Tail(queue)
    /\ UNCHANGED <<board, sem, hasQueue, locals>>

ZEnd ==
    /\ hasQueue /\ queue # <<>> /\ Head(queue) = Empty
    /\ Go("zapisovalec", "msgrcv", "fclose")
    /\ queue' = Tail(queue)
    /\ UNCHANGED <<board, sem, hasQueue, locals>>

ZFclose ==
    /\ Go("zapisovalec", "fclose", "msgctl")
    /\ file' = file \o outbuf /\ outbuf' = <<>>
    /\ UNCHANGED <<board, sem, queueVars, i, posted>>

ZMsgctl ==
    /\ Go("zapisovalec", "msgctl", "done")
    /\ hasQueue' = FALSE /\ queue' = <<>>
    /\ UNCHANGED <<board, sem, locals>>

Zapisovalec == ZMsgget \/ ZWrite \/ ZEnd \/ ZFclose \/ ZMsgctl

-----------------------------------------------------------------------------
Next == Generator \/ Posrednik \/ Zapisovalec

Spec == Init /\ [][Next]_vars

(***************************************************************************)
(* A program that can make its next call makes it; a semaphore somebody     *)
(* keeps giving back is obtained at last (the kernel queues its waiters in  *)
(* order of arrival), so the two semop(-1) calls are strongly fair.        *)
(***************************************************************************)
Fairness ==
    /\ WF_vars(Generator) /\ WF_vars(Posrednik) /\ WF_vars(Zapisovalec)
    /\ SF_vars(GLock) /\ SF_vars(PLock)

FairSpec == Spec /\ Fairness
-----------------------------------------------------------------------------
(* Safety *)

GCalls == {"shmget", "semget", "setval", "lock", "sprintf", "written", "clear", "unlock",
           "exit", "done"}
PCalls == {"msgget", "shmget", "semget", "lock", "strcmp", "strcpy", "msgsnd", "remember",
           "unlock", "check", "shmctl", "semctl", "done"}
ZCalls == {"msgget", "msgrcv", "fclose", "msgctl", "done"}

TypeOK ==
    /\ pc \in [Programs -> GCalls \cup PCalls \cup ZCalls]
    /\ pc["generator"] \in GCalls /\ pc["posrednik"] \in PCalls /\ pc["zapisovalec"] \in ZCalls
    /\ shm \in ShmStates /\ mem \in Contents
    /\ sem \in {NoSem, 0, 1}
    /\ hasQueue \in BOOLEAN /\ queue \in Seq(Contents)
    /\ i \in 1..(N + 1)
    /\ last \in Contents /\ msgbuf \in Contents
    /\ sent \in Seq(Contents) /\ outbuf \in Seq(Contents) /\ file \in Seq(Contents)

GInside == pc["generator"] \in {"sprintf", "written", "clear", "unlock"}
PInside == pc["posrednik"] \in {"strcmp", "strcpy", "msgsnd", "remember", "unlock"}

\* The generator's write and the go-between's read of the segment exclude each
\* other: from the start-up, where the semaphore exists before SETVAL has given
\* it a value, to the end, where it is removed under the generator, whose semop
\* calls then fail without its noticing (generator.c:64-75, posrednik.c:77-103).
MutualExclusion == ~(GInside /\ PInside)

\* Only whole messages get into the queue, in the order they were written, none
\* of them twice, and the empty message only as the last (posrednik.c:85-95).
RelayedInOrder ==
    \A b \in DOMAIN sent :
        \/ sent[b] \in 1..N /\ \A a \in 1..(b - 1) : sent[a] < sent[b]
        \/ sent[b] = Empty /\ b = Len(sent) /\ b > 1

\* The file, stdio's buffer and the queue hold together what msgsnd accepted,
\* in order; when the recorder removes the queue nothing is lost with it.
NothingLostAfterSend ==
    \E marker \in {<<>>, <<Empty>>} :
        /\ sent = file \o outbuf \o marker \o queue
        /\ marker # <<>> => pc["zapisovalec"] \in {"fclose", "msgctl", "done"}

LastSent == IF sent = <<>> THEN Empty ELSE sent[Len(sent)]

\* last_msg, which decides what counts as new, is the last message that went to
\* the queue, although it is copied from the segment a second time, after
\* msgsnd may have blocked for long (posrednik.c:88-95).
LastAgreesWithQueue ==
    pc["posrednik"] \in {"lock", "strcmp", "strcpy", "msgsnd", "unlock", "check"}
        => last = LastSent

\* The relay as a whole: the lock is exclusive, the queue is given the messages in
\* order and once, and last_msg follows it (posrednik.c:75-103).
OrderlyRelay == MutualExclusion /\ RelayedInOrder /\ LastAgreesWithQueue

\* What the go-between prints when it stops polling, "Message 0 read, program
\* end!" (posrednik.c:107), is so: the generator has written message 0.
EndsAtMessage0 ==
    pc["posrednik"] \in {"shmctl", "semctl"} =>
        i = N + 1 /\ pc["generator"] \in {"unlock", "exit", "done"}

(* Liveness *)

\* The generator and the go-between come to their end, although one polls and the
\* other may wait for a semaphore that is removed; the one thing that can keep
\* them is a full queue whose recorder has gone, for the go-between holds the
\* semaphore while msgsnd waits for room (posrednik.c:92).
BothEndUnlessFull ==
    <>(\/ pc["generator"] = "done" /\ pc["posrednik"] = "done"
       \/ pc["posrednik"] = "msgsnd" /\ Len(queue) = QueueCap /\ pc["zapisovalec"] = "done")

\* Once the empty message is in the queue the recorder closes its file and
\* removes the queue, however it and the go-between were started.
MarkerEndsRecorder ==
    (sent # <<>> /\ LastSent = Empty) ~> (pc["zapisovalec"] = "done")

-----------------------------------------------------------------------------
(***************************************************************************)
(* Refinement: the segment is an atomic register.  A write takes effect     *)
(* when sprintf is through, a read when msgsnd has taken the message.       *)
(***************************************************************************)
nextWrite ==
    CASE pc["generator"] = "unlock" -> i + 1
      [] pc["generator"] \in {"exit", "done"} -> N + 2
      [] OTHER -> i

register == IF mem = Torn THEN i - 1 ELSE mem

Register == INSTANCE RelayRegister WITH next <- nextWrite, cell <- register, relayed <- sent

\* The go-between's critical section, with its three separate reads of the
\* segment and the msgsnd between them, is one atomic read of a register that
\* is never seen half-written.
ImplementsRegister == Register!Spec
=============================================================================
