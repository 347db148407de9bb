----------------------------- MODULE MonteCarlo -----------------------------
(***************************************************************************)
(* exercises/v7/mc_pi.c and mc_sin.c: threads shoot rounds of p points and *)
(* add what they have to two totals under a mutex, until the first total   *)
(* has reached P_MAX.  A round is a step, whatever number of its points    *)
(* hits; pthread_mutex_lock and the two additions are steps of their own.  *)
(***************************************************************************)
EXTENDS Naturals

CONSTANTS
    NT,    \* the number of threads, at least 1
    p,     \* the points of a round, at least 1
    P_MAX  \* the points after which no round is added

Threads == 1..NT
Nobody == 0

VARIABLES
    join,     \* main: the thread it creates or joins next
    mainStep, \* main creates, joins or has printed
    shooter,  \* the next step of each thread
    z,        \* the hits of the round it has shot
    ps, zs,   \* the totals
    mutex,    \* the thread that holds the mutex
    hits      \* history: the hits of the rounds let in

vars == <<join, mainStep, shooter, z, ps, zs, mutex, hits>>

Init ==
    /\ join = 1 /\ mainStep = "create"
    /\ shooter = [t \in Threads |-> "none"] /\ z = [t \in Threads |-> 0]
    /\ ps = 0 /\ zs = 0 /\ mutex = Nobody /\ hits = 0

-----------------------------------------------------------------------------
(* Definitions named ..._Slip are mistakes; no specification uses them. *)

Goes(t, from, to) == shooter[t] = from /\ shooter' = [shooter EXCEPT ![t] = to]

Shoot(t) ==
    /\ Goes(t, "shoot", "lock")
    /\ \E h \in 0..p : z' = [z EXCEPT ![t] = h]
    /\ UNCHANGED <<join, mainStep, ps, zs, mutex, hits>>

Lock(t) ==
    /\ mutex = Nobody /\ Goes(t, "lock", "test") /\ mutex' = t
    /\ UNCHANGED <<join, mainStep, z, ps, zs, hits>>

Test(t) ==
    /\ ps < P_MAX /\ Goes(t, "test", "addPoints")
    /\ hits' = hits + z[t]
    /\ UNCHANGED <<join, mainStep, z, ps, zs, mutex>>

\* A round that comes too late is dropped, and its thread returns.
TooLate(t) ==
    /\ ps >= P_MAX /\ Goes(t, "test", "done")
    /\ mutex' = Nobody /\ z' = [z EXCEPT ![t] = 0]
    /\ UNCHANGED <<join, mainStep, ps, zs, hits>>

AddPoints_Slip(t) ==  \* the mutex is given back between the additions
    /\ Goes(t, "addPoints", "addHits")
    /\ ps' = ps + p /\ mutex' = Nobody
    /\ UNCHANGED <<join, mainStep, z, zs, hits>>

AddPoints(t) ==
    /\ Goes(t, "addPoints", "addHits")
    /\ ps' = ps + p
    /\ UNCHANGED <<join, mainStep, z, zs, mutex, hits>>

AddHits(t) ==
    /\ Goes(t, "addHits", "shoot")
    /\ zs' = zs + z[t] /\ z' = [z EXCEPT ![t] = 0] /\ mutex' = Nobody
    /\ UNCHANGED <<join, mainStep, ps, hits>>

\* main creates the threads, then waits for one after the other and prints.
Create ==
    /\ mainStep = "create" /\ shooter' = [shooter EXCEPT ![join] = "shoot"]
    /\ IF join = NT THEN mainStep' = "join" /\ join' = 1 ELSE mainStep' = mainStep /\ join' = join + 1
    /\ UNCHANGED <<z, ps, zs, mutex, hits>>

Join ==
    /\ mainStep = "join" /\ shooter[join] = "done"
    /\ IF join = NT THEN mainStep' = "printed" /\ join' = join ELSE mainStep' = mainStep /\ join' = join + 1
    /\ UNCHANGED <<shooter, z, ps, zs, mutex, hits>>

Main == Create \/ Join
Thread(t) == Shoot(t) \/ Lock(t) \/ Test(t) \/ TooLate(t) \/ AddPoints(t) \/ AddHits(t)

Next == Main \/ \E t \in Threads : Thread(t)

Spec == Init /\ [][Next]_vars
-----------------------------------------------------------------------------
TypeOK ==
    /\ join \in Threads /\ mainStep \in {"create", "join", "printed"}
    /\ shooter \in [Threads -> {"none", "shoot", "lock", "test", "addPoints", "addHits", "done"}]
    /\ z \in [Threads -> 0..p]
    /\ ps \in Nat /\ zs \in Nat /\ hits \in Nat
    /\ mutex \in Threads \cup {Nobody}

\* Whatever the threads and their order, main prints the totals of whole rounds, as
\* many as it takes to reach P_MAX and no more, and outside the mutex the two totals
\* never disagree on which rounds they hold (mc_pi.c:51-70; mc_sin.c:55-79).
TotalsOfWholeRounds ==
    /\ mutex = Nobody => zs = hits
    /\ zs <= ps
    /\ ps < P_MAX + p
    /\ mainStep = "printed" => ps >= P_MAX /\ ps - P_MAX < p /\ ps % p = 0
=============================================================================
