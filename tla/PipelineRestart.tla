--------------------------- MODULE PipelineRestart ---------------------------
(***************************************************************************)
(* MessagePipeline with programs that are killed (Ctrl-C) at any call and   *)
(* started again.  The IPC objects survive: semop is used without SEM_UNDO *)
(* and the queue is removed only by a recorder that has seen the empty     *)
(* message.  At most one instance of each program runs at a time.          *)
(***************************************************************************)
EXTENDS MessagePipeline

CONSTANTS MaxKills, MaxReruns  \* bounds of the exploration

ASSUME RestartAssumption == MaxKills \in Nat /\ MaxReruns \in Nat

VARIABLES
    kills,       \* programs killed so far
    reruns,      \* programs started again so far
    setvalHeld,  \* history: SETVAL came while the go-between held the semaphore
    killedMidway \* history: a generator was killed inside its sprintf

restartVars == <<vars, kills, reruns, setvalHeld, killedMidway>>

RestartInit ==
    /\ Init
    /\ kills = 0 /\ reruns = 0
    /\ setvalHeld = FALSE /\ killedMidway = FALSE

\* A step of the programs, with the histories.
Work ==
    /\ Next
    /\ setvalHeld' = (setvalHeld \/ (pc["generator"] = "setval" /\ pc'["generator"] = "lock"
                                       /\ PInside))
    /\ UNCHANGED <<kills, reruns, killedMidway>>

\* The kernel detaches the segment; a semaphore held stays held; what the
\* recorder has not flushed is lost.
Kill(p) ==
    /\ kills < MaxKills /\ pc[p] # "done"
    /\ kills' = kills + 1
    /\ pc' = [pc EXCEPT ![p] = "done"]
    /\ shm' = IF p = "generator" THEN AfterLastDetach(shm) ELSE shm
    /\ outbuf' = IF p = "zapisovalec" THEN <<>> ELSE outbuf
    /\ killedMidway' = (killedMidway \/ (p = "generator" /\ mem = Torn))
    /\ UNCHANGED <<mem, sem, queueVars, i, posted, file, reruns, setvalHeld>>

\* A program starts with fresh local variables.
Rerun(p) ==
    /\ pc[p] = "done" /\ reruns < MaxReruns
    /\ reruns' = reruns + 1
    /\ pc' = [pc EXCEPT ![p] = IF p = "generator" THEN "shmget" ELSE "msgget"]
    /\ i' = IF p = "generator" THEN 1 ELSE i
    /\ last' = IF p = "posrednik" THEN Empty ELSE last
    /\ UNCHANGED <<board, sem, queueVars, msgbuf, sent, written, kills, setvalHeld, killedMidway>>

RestartNext == Work \/ \E p \in Programs : Kill(p) \/ Rerun(p)

RestartSpec == RestartInit /\ [][RestartNext]_restartVars

-----------------------------------------------------------------------------
\* Two programs are inside the critical section together only after a generator
\* has been started again while the go-between was in it: SETVAL then gives
\* away a lock that is held (generator.c:51-52).
ExclusionUntilSetval == setvalHeld \/ (MutualExclusion /\ sem <= 1)

\* Half-written text reaches the queue only by that, or from a generator that was
\* killed inside sprintf and left its text to the next one's SETVAL.
TornOnlyByRestart ==
    Torn \in {sent[k] : k \in DOMAIN sent} => setvalHeld \/ killedMidway

\* The file gets all the lines of a run at once or none: only a recorder that
\* has taken the empty message from the queue writes, and a killed one leaves
\* the file as it found it.
FileOnlyAtMarker ==
    [][file' # file => file' = <<>> \/ (pc["zapisovalec"] = "fclose" /\ file = <<>>)]_restartVars

\* A semaphore left at 0 by a killed holder is freed by nothing but the next
\* generator's SETVAL: neither a new go-between nor the old generator gets in.
LeakedUntilSetval ==
    [][sem = 0 /\ ~GInside /\ ~PInside /\ ~setvalHeld =>
          sem' = 0 \/ pc["generator"] = "setval" \/ pc["posrednik"] = "semctl"]_restartVars

\* What only a restart can cost: the lock, and the wholeness of the messages.
CostOfRestart == ExclusionUntilSetval /\ TornOnlyByRestart

\* What a kill leaves: a whole file or none, and a lock that only SETVAL frees.
LeftByKill == FileOnlyAtMarker /\ LeakedUntilSetval
=============================================================================
