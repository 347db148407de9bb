------------------------------ MODULE Counter ------------------------------
(***************************************************************************)
(* concepts/threads/shared_res.c and shared_mutex.c: main adds 1 to a      *)
(* global K times while a thread subtracts 1 from it K times, without a    *)
(* lock in the one program, inside a mutex in the other.  A read and a     *)
(* write of the global are steps, those of main's globalna++ too.  Both    *)
(* sources say of what main prints "dobimo 11", one gets 11: without the   *)
(* mutex that is one of many results, and with it 0 is the only one.       *)
(***************************************************************************)
EXTENDS Integers

CONSTANT K  \* rounds of each loop

Both == {"main", "niti"}
Nobody == "nobody"

VARIABLES
    locked,    \* the program is shared_mutex.c
    globalna,
    mut,       \* who holds the mutex
    at,        \* the next step of main and of the thread
    i,         \* the rounds each has done
    j,         \* the value each has read
    printed    \* main has printed globalna

vars == <<locked, globalna, mut, at, i, j, printed>>

Init ==
    /\ locked \in BOOLEAN
    /\ globalna = 0 /\ mut = Nobody
    /\ at = [p \in Both |-> IF p = "main" THEN "create" ELSE "none"]
    /\ i = [p \in Both |-> 0] /\ j = [p \in Both |-> 0] /\ printed = FALSE

-----------------------------------------------------------------------------
(* Definitions named ..._Slip are mistakes; no specification uses them. *)

Goes(p, from, to) == at[p] = from /\ at' = [at EXCEPT ![p] = to]

Create ==
    /\ at["main"] = "create" /\ at' = [p \in Both |-> "test"]
    /\ UNCHANGED <<locked, globalna, mut, i, j, printed>>

Begin_Slip(p) ==  \* the mutex is not taken
    /\ i[p] < K /\ Goes(p, "test", "read")
    /\ UNCHANGED <<locked, globalna, mut, i, j, printed>>

\* The loop condition, and the lock.
Begin(p) ==
    /\ i[p] < K /\ Goes(p, "test", "read")
    /\ locked => mut = Nobody
    /\ mut' = IF locked THEN p ELSE mut
    /\ UNCHANGED <<locked, globalna, i, j, printed>>

Read(p) ==
    /\ Goes(p, "read", "write")
    /\ j' = [j EXCEPT ![p] = globalna]
    /\ UNCHANGED <<locked, globalna, mut, i, printed>>

\* globalna = j, with j one more or one less, and the unlock.
Write(p) ==
    /\ Goes(p, "write", "test")
    /\ globalna' = j[p] + (IF p = "main" THEN 1 ELSE -1)
    /\ i' = [i EXCEPT ![p] = @ + 1] /\ j' = [j EXCEPT ![p] = 0]
    /\ mut' = Nobody
    /\ UNCHANGED <<locked, printed>>

ThreadReturns ==
    /\ i["niti"] = K /\ Goes("niti", "test", "done")
    /\ UNCHANGED <<locked, globalna, mut, i, j, printed>>

\* pthread_join, and what main prints then.
Join ==
    /\ i["main"] = K /\ at["niti"] = "done" /\ Goes("main", "test", "done")
    /\ printed' = TRUE
    /\ UNCHANGED <<locked, globalna, mut, i, j>>

Step(p) == Begin(p) \/ Read(p) \/ Write(p)

Next == Create \/ (\E p \in Both : Step(p)) \/ ThreadReturns \/ Join

Spec == Init /\ [][Next]_vars
-----------------------------------------------------------------------------
TypeOK ==
    /\ locked \in BOOLEAN
    /\ globalna \in Int
    /\ mut \in Both \cup {Nobody}
    /\ at \in [Both -> {"create", "none", "test", "read", "write", "done"}]
    /\ i \in [Both -> 0..K] /\ j \in [Both -> Int]
    /\ printed \in BOOLEAN

\* main prints 0 if there is a mutex, for all the comment at shared_mutex.c:49 says
\* 11; without one it prints anything from -K to K, the 11 of shared_res.c:44 and much
\* else, for every update may be lost; in both programs the global was last written by
\* then (shared_res.c:20-27, 37-46; shared_mutex.c:22-29, 41-51).
PrintsBalance ==
    printed => /\ locked => globalna = 0
               /\ globalna \in (-K)..K
               /\ \A p \in Both : i[p] = K
=============================================================================
