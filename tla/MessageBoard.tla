---------------------------- MODULE MessageBoard ----------------------------
(***************************************************************************)
(* src/src/examples/message_writer.c and message_reader.c.  The writer     *)
(* posts lines from its standard input on a board in shared memory, under  *)
(* a semaphore, and sends a notice of every post through a message queue;  *)
(* the reader waits for notices and shows what is new on the board.        *)
(* Module BoardRestart adds kills and restarts.                            *)
(***************************************************************************)
EXTENDS SysV, Sequences

CONSTANTS
    Texts,     \* lines the user may enter, other than "exit"
    Junk,      \* what the input buffer holds before the first line
    NoticeCap, \* notices the queue holds before msgsnd blocks
    MaxPosts   \* bound of the exploration: lines the writer is given

ASSUME BoardAssumption ==
    /\ Junk \notin Texts
    /\ NoticeCap \in Nat \ {0}
    /\ MaxPosts \in Nat

\* The text of a fresh segment, and what strcpy shows half way through.
Blank == "blank"
Torn == "torn"
BoardTexts == Texts \cup {Junk, Blank, Torn}

VARIABLES
    pc,         \* the next call of the writer and of the reader
    shm, sem,   \* the segment and the semaphore
    message,    \* board->message
    count,      \* board->msg_count
    hasQueue,   \* the message queue exists
    notices,    \* notices in it
    input,      \* writer: the line buffer
    eof,        \* writer: its standard input has ended
    lines,      \* history: lines entered
    lastCount,  \* reader: last_count
    posted,     \* history: texts posted since msg_count was last zeroed
    shown       \* history: the <<msg_count, message>> pairs the reader has shown

board == <<message, count, posted>>
queueVars == <<hasQueue, notices>>
writerVars == <<input, eof, lines>>
readerVars == <<lastCount, shown>>
vars == <<pc, shm, sem, board, queueVars, writerVars, readerVars>>

Programs == {"writer", "reader"}

Go(p, from, to) == pc[p] = from /\ pc' = [pc EXCEPT ![p] = to]
Silent(p, from, to) ==
    Go(p, from, to) /\ UNCHANGED <<shm, sem, board, queueVars, writerVars, readerVars>>
SemStep(p, from, to, s) ==
    Go(p, from, to) /\ sem' = s /\ UNCHANGED <<shm, board, queueVars, writerVars, readerVars>>

Init ==
    /\ pc = [writer |-> "shmget", reader |-> "shmget"]
    /\ shm = "none" /\ sem = NoSem
    /\ message = Blank /\ count = 0 /\ posted = <<>>
    /\ hasQueue = FALSE /\ notices = 0
    /\ input = Junk /\ eof = FALSE /\ lines = 0
    /\ lastCount = 0 /\ shown = <<>>

-----------------------------------------------------------------------------
(***************************************************************************)
(* message_writer.c.  Definitions named ..._Slip are mistakes one could     *)
(* make in the action that follows; no specification uses them.            *)
(***************************************************************************)

WShmget ==
    /\ Go("writer", "shmget", "zero")
    /\ shm' = "linked"
    /\ message' = IF shm = "linked" THEN message ELSE Blank
    /\ count' = IF shm = "linked" THEN count ELSE 0
    /\ UNCHANGED <<sem, posted, queueVars, writerVars, readerVars>>

\* The counter starts anew, whatever the board held and whoever reads it.
WZero ==
    /\ Go("writer", "zero", "semget")
    /\ count' = 0 /\ posted' = <<>>
    /\ UNCHANGED <<shm, sem, message, queueVars, writerVars, readerVars>>

WSemget == SemStep("writer", "semget", "setval", AfterSemget(sem))

WSetval_Slip ==  \* the value of threadScheduler.c
    SemStep("writer", "setval", "msgget", 2)

WSetval == SemStep("writer", "setval", "msgget", 1)

WMsgget ==
    /\ Go("writer", "msgget", "fgets")
    /\ hasQueue' = TRUE
    /\ UNCHANGED <<shm, sem, board, notices, writerVars, readerVars>>

WReadLine ==
    /\ ~eof /\ lines < MaxPosts
    /\ Go("writer", "fgets", "lock")
    /\ input' \in Texts /\ lines' = lines + 1
    /\ UNCHANGED <<shm, sem, board, queueVars, eof, readerVars>>

WReadExit ==
    /\ ~eof
    /\ Silent("writer", "fgets", "shmctl")

\* At the end of the input fgets leaves the buffer alone, and its result is not
\* looked at: the line before is taken for a new one.
WReadEof ==
    /\ Len(posted) < MaxPosts
    /\ Go("writer", "fgets", "lock")
    /\ eof' = TRUE
    /\ UNCHANGED <<shm, sem, board, queueVars, input, lines, readerVars>>

WLock_Slip ==  \* the lock is forgotten
    Silent("writer", "lock", "strcpy")

WLock == CanDown(sem) /\ SemStep("writer", "lock", "strcpy", AfterDown(sem))

WCopyBegin ==
    /\ Go("writer", "strcpy", "copied")
    /\ message' = Torn
    /\ UNCHANGED <<shm, sem, count, posted, queueVars, writerVars, readerVars>>

WCopyEnd ==
    /\ Go("writer", "copied", "count")
    /\ message' = input
    /\ UNCHANGED <<shm, sem, count, posted, queueVars, writerVars, readerVars>>

WCount ==
    /\ Go("writer", "count", "unlock")
    /\ count' = count + 1 /\ posted' = Append(posted, message)
    /\ UNCHANGED <<shm, sem, message, queueVars, writerVars, readerVars>>

WUnlock == SemStep("writer", "unlock", "msgsnd", AfterUp(sem))

WNotify ==
    /\ notices < NoticeCap
    /\ Go("writer", "msgsnd", "fgets")
    /\ notices' = notices + 1
    /\ UNCHANGED <<shm, sem, board, hasQueue, writerVars, readerVars>>

ReaderAttached == pc["reader"] \notin {"shmget", "done"}

WShmctl ==
    /\ Go("writer", "shmctl", "semctl")
    /\ shm' = AfterShmRmid(ReaderAttached)
    /\ UNCHANGED <<sem, board, queueVars, writerVars, readerVars>>

WSemctl == SemStep("writer", "semctl", "msgctl", NoSem)

WMsgctl_Slip ==  \* the queue is left behind, as in posrednik.c:128-130
    Silent("writer", "msgctl", "done")

WMsgctl ==
    /\ Go("writer", "msgctl", "done")
    /\ hasQueue' = FALSE /\ notices' = 0
    /\ UNCHANGED <<shm, sem, board, writerVars, readerVars>>

WriterInput == WReadLine \/ WReadExit \/ WReadEof
WriterWork ==
    \/ WShmget \/ WZero \/ WSemget \/ WSetval \/ WMsgget \/ WLock \/ WCopyBegin \/ WCopyEnd
    \/ WCount \/ WUnlock \/ WNotify \/ WShmctl \/ WSemctl \/ WMsgctl

-----------------------------------------------------------------------------
(* message_reader.c *)

\* err(): the end of the process detaches the segment.
RGiveUp(from, when) ==
    /\ when
    /\ Go("reader", from, "done")
    /\ shm' = IF from = "shmget" THEN shm ELSE AfterLastDetach(shm)
    /\ UNCHANGED <<sem, board, queueVars, writerVars, readerVars>>

RShmget == shm = "linked" /\ Silent("reader", "shmget", "semget")
RSemget == sem # NoSem /\ Silent("reader", "semget", "msgget")
RMsgget == hasQueue /\ Silent("reader", "msgget", "msgrcv")

RReceive ==
    /\ hasQueue /\ notices > 0
    /\ Go("reader", "msgrcv", "lock")
    /\ notices' = notices - 1
    /\ UNCHANGED <<shm, sem, board, hasQueue, writerVars, readerVars>>

RLock_Slip ==  \* the lock is forgotten
    sem # NoSem /\ Silent("reader", "lock", "compare")

RLock == sem > 0 /\ SemStep("reader", "lock", "compare", AfterDown(sem))

RCompareOld_Slip ==  \* off by one: the counter must be two ahead
    count <= lastCount + 1 /\ Silent("reader", "compare", "unlock")

RCompareNew == count > lastCount /\ Silent("reader", "compare", "printf")
RCompareOld == count <= lastCount /\ Silent("reader", "compare", "unlock")

RShow ==
    /\ Go("reader", "printf", "remember")
    /\ shown' = Append(shown, <<count, message>>)
    /\ UNCHANGED <<shm, sem, board, queueVars, writerVars, lastCount>>

RememberAs(n) ==
    /\ Go("reader", "remember", "unlock")
    /\ lastCount' = n
    /\ UNCHANGED <<shm, sem, board, queueVars, writerVars, shown>>

RRemember_Slip == RememberAs(lastCount + 1)  \* last_count counts the messages shown

\* The counter is read a third time.
RRemember == RememberAs(count)

RUnlock == sem # NoSem /\ SemStep("reader", "unlock", "msgrcv", AfterUp(sem))

\* Every call on an object that is not there, or no longer, ends the reader.
RFails ==
    \/ RGiveUp("shmget", shm # "linked") \/ RGiveUp("semget", sem = NoSem)
    \/ RGiveUp("msgget", ~hasQueue) \/ RGiveUp("msgrcv", ~hasQueue)
    \/ RGiveUp("lock", sem = NoSem) \/ RGiveUp("unlock", sem = NoSem)

Reader ==
    \/ RShmget \/ RSemget \/ RMsgget \/ RReceive \/ RLock \/ RCompareNew \/ RCompareOld
    \/ RShow \/ RRemember \/ RUnlock \/ RFails

-----------------------------------------------------------------------------
Next == WriterInput \/ WriterWork \/ Reader

Spec == Init /\ [][Next]_vars

\* Both programs run; the user may stop typing.  The kernel serves the waiters
\* of a semaphore in order, hence the strong fairness of the two semop calls.
Fairness == WF_vars(WriterWork) /\ WF_vars(Reader) /\ SF_vars(WLock) /\ SF_vars(RLock)

FairSpec == Spec /\ Fairness
-----------------------------------------------------------------------------
(* Safety *)

WCalls == {"shmget", "zero", "semget", "setval", "msgget", "fgets", "lock", "strcpy", "copied",
           "count", "unlock", "msgsnd", "shmctl", "semctl", "msgctl", "done"}
RCalls == {"shmget", "semget", "msgget", "msgrcv", "lock", "compare", "printf", "remember",
           "unlock", "done"}

TypeOK ==
    /\ pc \in [Programs -> WCalls \cup RCalls]
    /\ pc["writer"] \in WCalls /\ pc["reader"] \in RCalls
    /\ shm \in ShmStates /\ sem \in {NoSem, 0, 1}
    /\ message \in BoardTexts /\ count \in Nat /\ posted \in Seq(BoardTexts)
    /\ hasQueue \in BOOLEAN /\ notices \in 0..NoticeCap
    /\ input \in Texts \cup {Junk} /\ eof \in BOOLEAN /\ lines \in Nat
    /\ lastCount \in Nat /\ shown \in Seq(Nat \X BoardTexts)

WInside == pc["writer"] \in {"strcpy", "copied", "count", "unlock"}
RInside == pc["reader"] \in {"compare", "printf", "remember", "unlock"}

\* "Ensures writer and reader don't conflict" (message_writer.c:21): the update of
\* message and counter and the read of both exclude each other, also while the
\* writer is starting up and while it takes the objects away.
MutualExclusion == ~(WInside /\ RInside)

\* What the reader shows is the latest post, whole, under its own number, and
\* the numbers it shows only go up (message_reader.c:72-75).
ShownAsPosted ==
    \A k \in DOMAIN shown :
        /\ shown[k][1] \in DOMAIN posted /\ shown[k][2] = posted[shown[k][1]]
        /\ k > 1 => shown[k - 1][1] < shown[k][1]
        /\ k = Len(shown) /\ pc["reader"] # "remember" => shown[k][1] = lastCount

\* When no notice is on its way the reader has shown the latest post, whatever
\* it skipped: a notice is sent after the unlock and taken before the lock, so
\* none can be used up before the post it announces (message_writer.c:120-124).
NothingUnseenAtRest ==
    /\ pc["reader"] = "msgrcv" /\ hasQueue /\ notices = 0
    /\ pc["writer"] \in {"fgets", "lock", "strcpy", "copied", "count"}
    => lastCount = count

\* The board as a whole: the lock is exclusive, what is shown was posted, and what was
\* posted is announced.
OrderlyBoard == MutualExclusion /\ ShownAsPosted /\ NothingUnseenAtRest

\* "User enters messages" (message_writer.c:32): every post was entered.
PostsWereEntered == Len(posted) <= lines

(* Liveness *)

\* A post is shown, or overtaken by a later one that is, unless the writer is
\* told to exit, taking the board away, or the reader was too early to start.
PostsGetShown ==
    \A n \in 1..MaxPosts :
        Len(posted) = n ~> (lastCount >= n \/ pc["writer"] = "done" \/ pc["reader"] = "done")

\* After "exit" the reader does not stay blocked: the removal of the semaphore
\* or of the queue wakes it, and it ends (message_reader.c:64-79).
ExitEndsReader == (pc["writer"] = "done") ~> (pc["reader"] = "done")

-----------------------------------------------------------------------------
\* Refinement: a post takes effect with the increment of msg_count, a reading
\* with the printf.
Register == INSTANCE BoardRegister WITH Texts <- BoardTexts

\* Number and text on the board change and are read as one.
ImplementsRegister == Register!Spec
=============================================================================
