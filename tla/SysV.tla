-------------------------------- MODULE SysV --------------------------------
(***************************************************************************)
(* The System V IPC calls the programs of this repository share, as their  *)
(* C code uses them: sets of one semaphore, operated by one-element semop  *)
(* calls with sem_flg = 0, and segments addressed by a key.  This is       *)
(* external code; it is modelled from its use in exercises/v6 and          *)
(* examples/.                                                              *)
(***************************************************************************)
EXTENDS Integers

\* The value of a semaphore whose identifier has been removed (IPC_RMID).
NoSem == -1

\* semop with sem_op = -1 returns: the semaphore is positive, or it has been
\* removed, and then the call fails at once, waking whoever was blocked in it.
CanDown(s) == s # 0

\* What a returning semop leaves behind: a failed call changes nothing.
AfterDown(s) == IF s > 0 THEN s - 1 ELSE s
AfterUp(s) == IF s = NoSem THEN NoSem ELSE s + 1

\* semget with IPC_CREAT: Linux creates the semaphore with the value 0 and
\* leaves one that exists as it is.
AfterSemget(s) == IF s = NoSem THEN 0 ELSE s

\* A segment: no such key, found under its key, or removed by IPC_RMID while
\* somebody still has it attached.
ShmStates == {"none", "linked", "orphan"}

\* shmctl(IPC_RMID), when the caller has detached and others may have not.
AfterShmRmid(attached) == IF attached THEN "orphan" ELSE "none"

\* The last process attached to a segment is gone.
AfterLastDetach(seg) == IF seg = "orphan" THEN "none" ELSE seg
=============================================================================
