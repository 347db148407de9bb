---------------------------- MODULE BoardRestart ----------------------------
(***************************************************************************)
(* MessageBoard with programs that are killed (Ctrl-C) at any call and     *)
(* started again.  A killed program releases nothing but its attachment of *)
(* the segment: semop is used without SEM_UNDO, and the clean-up at the    *)
(* end of message_writer.c is not reached.  At most one writer and one     *)
(* reader run at a time, and no writer is started again while a reader     *)
(* still has a removed segment: the two would have nothing in common.      *)
(***************************************************************************)
EXTENDS MessageBoard

CONSTANT MaxKills  \* bound of the exploration

ASSUME MaxKillsAssumption == MaxKills \in Nat

\* The two marks are no lines: an empty line that is entered is one of Texts.
ASSUME MarksAssumption == {Blank, Torn} \cap (Texts \cup {Junk}) = {}

VARIABLES
    killed,       \* the programs that were killed and not started again
    kills,        \* kills so far
    setvalHeld,   \* history: SETVAL came while the reader held the semaphore
    unannounced   \* history: there is a post with no notice for this reader to come

restartVars == <<vars, killed, kills, setvalHeld, unannounced>>

RestartInit ==
    Init /\ killed = {} /\ kills = 0 /\ setvalHeld = FALSE /\ unannounced = FALSE

\* An unannounced post is made up for by the reader's next look at the board, or
\* forgotten with msg_count = 0.
Work ==
    /\ Next
    /\ setvalHeld' = (setvalHeld \/ (pc["writer"] = "setval" /\ RInside
                                       /\ pc'["writer"] = "msgget"))
    /\ unannounced' =
         (/\ unannounced
          /\ ~(pc["writer"] = "zero" /\ pc'["writer"] = "semget")
          /\ ~(pc["reader"] \in {"compare", "remember"} /\ pc'["reader"] = "unlock"))
    /\ UNCHANGED <<killed, kills>>

Kill(p) ==
    /\ kills < MaxKills /\ p \notin killed /\ pc[p] # "done"
    /\ kills' = kills + 1 /\ killed' = killed \cup {p}
    /\ pc' = [pc EXCEPT ![p] = "done"]
    /\ shm' = IF p = "reader" THEN AfterLastDetach(shm) ELSE shm
    /\ unannounced' = (unannounced \/ (p = "writer" /\ pc[p] \in {"unlock", "msgsnd"}))
    /\ UNCHANGED <<sem, board, queueVars, writerVars, readerVars, setvalHeld>>

\* A writer starts with a fresh buffer and a terminal, a reader with last_count 0.
Rerun(p) ==
    /\ IF p = "writer" THEN p \in killed /\ shm # "orphan" ELSE pc[p] = "done"
    /\ kills > 0
    /\ killed' = killed \ {p} /\ pc' = [pc EXCEPT ![p] = "shmget"]
    /\ input' = IF p = "writer" THEN Junk ELSE input
    /\ eof' = IF p = "writer" THEN FALSE ELSE eof
    /\ lastCount' = IF p = "reader" THEN 0 ELSE lastCount
    /\ shown' = IF p = "reader" THEN <<>> ELSE shown
    /\ UNCHANGED <<shm, sem, board, queueVars, lines, kills, setvalHeld>>
    /\ unannounced' = (unannounced \/ (p = "reader" /\ notices = 0))

RestartNext == Work \/ \E p \in Programs : Kill(p) \/ Rerun(p)

RestartSpec == RestartInit /\ [][RestartNext]_restartVars

-----------------------------------------------------------------------------
\* The writer and the reader meet on the board only after a writer has been
\* started again while the reader was inside: its SETVAL gives away a semaphore
\* that is held, and the reader's unlock then raises it to 2
\* (message_writer.c:82-83, message_reader.c:78-79).
ExclusionUntilSetval == setvalHeld \/ (MutualExclusion /\ sem <= 1)

\* A reader at rest with no notice left has seen the latest post, or its own
\* last_count runs ahead of a counter that a new writer has zeroed, or the
\* notice was spent on a reader, or lost with a writer, that is gone.
UnseenOnlyAfterKill ==
    /\ pc["reader"] = "msgrcv" /\ hasQueue /\ notices = 0
    /\ pc["writer"] \in {"fgets", "lock", "strcpy", "copied", "count"} \/ "writer" \in killed
    => lastCount >= count \/ unannounced

\* What a reader shows is a text under the number it was posted with, unless
\* SETVAL let it in on a writer at work; only a reader caught by a new writer's
\* msg_count = 0 between its test and its printf shows an old text as number 0.
WholePairs ==
    [][shown' # shown /\ shown' # <<>> /\ ~setvalHeld =>
          \/ count = Len(posted) /\ count > 0 /\ message = posted[count]
          \/ count = 0 /\ message \notin {Blank, Torn}]_restartVars

\* What only a kill or a restart can cost: the lock, and a post that is not shown.
CostOfRestart == ExclusionUntilSetval /\ UnseenOnlyAfterKill
=============================================================================
