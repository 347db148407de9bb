--------------------------- MODULE Programs_proofs ---------------------------
(***************************************************************************)
(* Proofs about ThreadScheduler, Counter, MonteCarlo, Alarms, Niceness,    *)
(* PipeShell and LineEditor, for any number of rounds, threads, points,    *)
(* seconds, signals, processes, commands, runs, files and inodes, any      *)
(* capacity of a pipe and any niceness: one invariant of each, that its    *)
(* steps keep, and then what Programs says of all its programs.            *)
(***************************************************************************)
EXTENDS TextTools_proofs, Servers_proofs, WellFoundedInduction

-----------------------------------------------------------------------------
(* ThreadScheduler *)

(***************************************************************************)
(* How far main has come says which threads exist and which have ended,    *)
(* and so whether anybody may still use the semaphore.                     *)
(***************************************************************************)
SchedulerInv ==
    /\ main = "setval" => k = 1 /\ \A t \in Threads : pc[t] = "notCreated"
    /\ main = "create" => \A t \in Threads : t >= k => pc[t] = "notCreated"
    /\ main = "join" => \A t \in Threads : t < k => pc[t] = "done"
    /\ RemovedLast
    /\ main \in {"setval", "done"} => sem = NoSem
    /\ main \notin {"setval", "done"} => sem \in Nat

LEMMA ThreadNumbers ==
    /\ NT \in Threads /\ 1 \in Threads
    /\ \A t \in Threads : t \in Nat /\ 1 <= t /\ t <= NT /\ (t # NT => t + 1 \in Threads)
BY NTAssumption DEF Threads

LEMMA SchedulerInit == Init => TypeOK /\ SchedulerInv
BY ThreadNumbers DEF Init, TypeOK, SchedulerInv, RemovedLast, ThreadCalls

\* A semop that returns finds a semaphore, and leaves a value semop allows.
LEMMA Returns ==
    ASSUME TypeOK, SchedulerInv, NEW t \in Threads, EnterWork(t) \/ LeaveWork(t)
    PROVE  main \in {"create", "join"} /\ sem \in Nat /\ sem' \in Nat /\ sem' = sem + arg[t]
<1>1. pc[t] \in {"inLock", "inUnlock"} /\ (arg[t] < 0 => sem > 0) /\ sem' = sem + arg[t]
    BY DEF EnterWork, LeaveWork, Return
<1>2. main \in {"create", "join"}
    BY <1>1 DEF SchedulerInv, RemovedLast, TypeOK
<1>3. sem \in Nat /\ arg[t] \in {-1, 0, 1}
    BY <1>2 DEF SchedulerInv, TypeOK
<1> QED
    BY <1>1, <1>2, <1>3

LEMMA SchedulerTypes == TypeOK /\ SchedulerInv /\ [Next]_vars => TypeOK'
<1> SUFFICES ASSUME TypeOK, SchedulerInv, [Next]_vars PROVE TypeOK'
    OBVIOUS
<1> USE DEF TypeOK, ThreadCalls, mainVars, threadVars
<1>1. CASE Setval  BY <1>1 DEF Setval, Permits
<1>2. CASE Create  BY <1>2, ThreadNumbers DEF Create
<1>3. CASE Join  BY <1>3, ThreadNumbers DEF Join
<1>4. CASE Rmid  BY <1>4 DEF Rmid
<1>5. ASSUME NEW t \in Threads, SetLock(t) PROVE TypeOK'
    BY <1>5 DEF SetLock, SetOp
<1>6. ASSUME NEW t \in Threads, CallLock(t) PROVE TypeOK'
    BY <1>6 DEF CallLock, Call
<1>7. ASSUME NEW t \in Threads, EnterWork(t) PROVE TypeOK'
    BY <1>7, Returns DEF EnterWork, Return
<1>8. ASSUME NEW t \in Threads, SetUnlock(t) PROVE TypeOK'
    BY <1>8 DEF SetUnlock, SetOp
<1>9. ASSUME NEW t \in Threads, CallUnlock(t) PROVE TypeOK'
    BY <1>9 DEF CallUnlock, Call
<1>10. ASSUME NEW t \in Threads, LeaveWork(t) PROVE TypeOK'
    BY <1>10, Returns DEF LeaveWork, Return
<1>11. CASE UNCHANGED vars  BY <1>11 DEF vars
<1> QED
    BY <1>1, <1>2, <1>3, <1>4, <1>5, <1>6, <1>7, <1>8, <1>9, <1>10, <1>11
       DEF Next, Main, Thread

LEMMA SchedulerStep == TypeOK /\ SchedulerInv /\ [Next]_vars => SchedulerInv'
<1> SUFFICES ASSUME TypeOK, SchedulerInv, [Next]_vars PROVE SchedulerInv'
    OBVIOUS
<1> USE DEF TypeOK, SchedulerInv, RemovedLast, mainVars, threadVars
<1>1. CASE Setval
  <2>1. main' = "create" /\ sem' \in Nat /\ \A t \in Threads : pc'[t] = "notCreated"
      BY <1>1 DEF Setval, Permits
  <2> QED
      BY <2>1
<1>2. CASE Create
  <2>1. ASSUME main' = "create", NEW t \in Threads, t >= k' PROVE pc'[t] = "notCreated"
    <3>1. t >= k /\ t # k
        BY <1>2, <2>1, ThreadNumbers DEF Create
    <3> QED
        BY <1>2, <3>1 DEF Create
  <2>2. ASSUME main' = "join", NEW t \in Threads PROVE ~(t < k')
    <3>1. k' = 1
        BY <1>2, <2>2 DEF Create
    <3> QED
        BY <3>1, ThreadNumbers
  <2>3. main' \in {"create", "join"} /\ sem' \in Nat /\ main = "create"
      BY <1>2 DEF Create
  <2> QED
      BY <2>1, <2>2, <2>3
<1>3. CASE Join
  <2>1. ASSUME NEW t \in Threads, t <= k PROVE pc[t] = "done"
    <3>1. t \in Nat /\ k \in Nat
        BY ThreadNumbers
    <3>2. t = k \/ t < k
        BY <2>1, <3>1
    <3> QED
        BY <1>3, <3>2 DEF Join
  <2>2. ASSUME main' = "join", NEW t \in Threads, t < k' PROVE t <= k
      BY <1>3, <2>2, ThreadNumbers DEF Join
  <2>3. ASSUME main' = "rmid", NEW t \in Threads PROVE t <= k
      BY <1>3, <2>3, ThreadNumbers DEF Join
  <2> QED
      BY <1>3, <2>1, <2>2, <2>3 DEF Join
<1>4. CASE Rmid  BY <1>4 DEF Rmid
<1>5. ASSUME NEW t \in Threads, SetLock(t) PROVE SchedulerInv'
    BY <1>5 DEF SetLock, SetOp
<1>6. ASSUME NEW t \in Threads, CallLock(t) PROVE SchedulerInv'
    BY <1>6 DEF CallLock, Call
<1>7. ASSUME NEW t \in Threads, EnterWork(t) PROVE SchedulerInv'
    BY <1>7, Returns DEF EnterWork, Return
<1>8. ASSUME NEW t \in Threads, SetUnlock(t) PROVE SchedulerInv'
    BY <1>8 DEF SetUnlock, SetOp
<1>9. ASSUME NEW t \in Threads, CallUnlock(t) PROVE SchedulerInv'
    BY <1>9 DEF CallUnlock, Call
<1>10. ASSUME NEW t \in Threads, LeaveWork(t) PROVE SchedulerInv'
    BY <1>10, Returns DEF LeaveWork, Return
<1>11. CASE UNCHANGED vars  BY <1>11 DEF vars
<1> QED
    BY <1>1, <1>2, <1>3, <1>4, <1>5, <1>6, <1>7, <1>8, <1>9, <1>10, <1>11
       DEF Next, Main, Thread

LEMMA SchedulerAlways == Spec => [](TypeOK /\ SchedulerInv)
<1>1. TypeOK /\ SchedulerInv /\ [Next]_vars => (TypeOK /\ SchedulerInv)'
    BY SchedulerTypes, SchedulerStep
<1> QED
    BY <1>1, SchedulerInit, PTL DEF Spec

\* Every variable keeps its range: in particular the semaphore exists, and is never
\* negative, whenever a thread calls semop, whatever sem_op holds by then.
THEOREM TypeCorrect == Spec => []TypeOK
BY SchedulerAlways, PTL

\* The semaphore is removed only when all threads have ended, whatever the
\* shared sembuf did to them (threadScheduler.c:110-117).
THEOREM RemovalIsLast == Spec => []RemovedLast
<1>1. SchedulerInv => RemovedLast
    BY DEF SchedulerInv
<1> QED
    BY <1>1, SchedulerAlways, PTL

(***************************************************************************)
(* The permits: while every semop was called with the value its own thread *)
(* had set, each thread inside stands for one permit taken.                *)
(***************************************************************************)
PermitInv ==
    ~clobbered =>
        /\ \A t \in Threads : /\ pc[t] = "inLock" => arg[t] = -1
                              /\ pc[t] = "inUnlock" => arg[t] = 1
        /\ main \in {"create", "join", "rmid"} => sem + Cardinality(Inside) = Permits

LEMMA InsideFinite == IsFiniteSet(Inside) /\ Cardinality(Inside) \in Nat
<1>1. IsFiniteSet(Threads)
    BY NTAssumption, FS_Interval DEF Threads
<1>2. Inside \subseteq Threads
    BY DEF Inside
<1> QED
    BY <1>1, <1>2, FS_Subset, FS_CardinalityType

LEMMA PermitStep == TypeOK /\ SchedulerInv /\ PermitInv /\ [Next]_vars => PermitInv'
<1> SUFFICES ASSUME TypeOK, SchedulerInv, PermitInv, [Next]_vars PROVE PermitInv'
    OBVIOUS
<1> USE DEF TypeOK, ThreadCalls, PermitInv, mainVars, threadVars
<1>1. CASE Setval
  <2>1. Inside = {} /\ Inside' = Inside
      BY <1>1 DEF Setval, SchedulerInv, Inside
  <2>2. Cardinality(Inside') = 0
      BY <2>1, FS_EmptySet
  <2> QED
      BY <1>1, <2>2, ThreadNumbers DEF Setval, Permits
<1>2. CASE Create
  <2>1. pc[k] = "notCreated"
      BY <1>2, ThreadNumbers DEF Create, SchedulerInv
  <2>2. Inside' = Inside
      BY <1>2, <2>1 DEF Create, Inside
  <2> QED
      BY <1>2, <2>2 DEF Create, SchedulerInv
<1>3. CASE Join
  <2>1. Inside' = Inside
      BY <1>3 DEF Join, Inside
  <2> QED
      BY <1>3, <2>1 DEF Join
<1>4. CASE Rmid  BY <1>4 DEF Rmid, SchedulerInv, RemovedLast
<1>5. ASSUME NEW t \in Threads, SetLock(t) PROVE PermitInv'
  <2>1. Inside' = Inside
      BY <1>5 DEF SetLock, SetOp, Inside
  <2> QED
      BY <1>5, <2>1 DEF SetLock, SetOp
<1>6. ASSUME NEW t \in Threads, CallLock(t) PROVE PermitInv'
  <2>1. Inside' = Inside
      BY <1>6 DEF CallLock, Call, Inside
  <2> QED
      BY <1>6, <2>1 DEF CallLock, Call
<1>7. ASSUME NEW t \in Threads, EnterWork(t) PROVE PermitInv'
  <2>1. Inside' = Inside \cup {t} /\ t \notin Inside
      BY <1>7 DEF EnterWork, Return, Inside
  <2>2. Cardinality(Inside') = Cardinality(Inside) + 1
      BY <2>1, InsideFinite, FS_AddElement
  <2>3. ~clobbered => arg[t] = -1
      BY <1>7 DEF EnterWork, Return
  <2>4. sem \in Nat /\ sem' = sem + arg[t] /\ main \in {"create", "join"}
      BY <1>7, Returns
  <2> QED
      BY <1>7, <2>2, <2>3, <2>4, InsideFinite DEF EnterWork, Return
<1>8. ASSUME NEW t \in Threads, SetUnlock(t) PROVE PermitInv'
  <2>1. Inside' = Inside
      BY <1>8 DEF SetUnlock, SetOp, Inside
  <2> QED
      BY <1>8, <2>1 DEF SetUnlock, SetOp
<1>9. ASSUME NEW t \in Threads, CallUnlock(t) PROVE PermitInv'
  <2>1. Inside' = Inside
      BY <1>9 DEF CallUnlock, Call, Inside
  <2> QED
      BY <1>9, <2>1 DEF CallUnlock, Call
<1>10. ASSUME NEW t \in Threads, LeaveWork(t) PROVE PermitInv'
  <2>1. Inside' = Inside \ {t} /\ t \in Inside
      BY <1>10 DEF LeaveWork, Return, Inside
  <2>2. Cardinality(Inside') = Cardinality(Inside) - 1
      BY <2>1, InsideFinite, FS_RemoveElement
  <2>3. ~clobbered => arg[t] = 1
      BY <1>10 DEF LeaveWork, Return
  <2>4. sem \in Nat /\ sem' = sem + arg[t] /\ main \in {"create", "join"}
      BY <1>10, Returns
  <2> QED
      BY <1>10, <2>2, <2>3, <2>4, InsideFinite DEF LeaveWork, Return
<1>11. CASE UNCHANGED vars  BY <1>11 DEF vars, Inside
<1> QED
    BY <1>1, <1>2, <1>3, <1>4, <1>5, <1>6, <1>7, <1>8, <1>9, <1>10, <1>11
       DEF Next, Main, Thread

LEMMA PermitInvariant == Spec => [](TypeOK /\ SchedulerInv /\ PermitInv)
<1>1. Init => PermitInv
    BY DEF Init, PermitInv
<1> QED
    BY <1>1, PermitStep, SchedulerAlways, PTL DEF Spec

\* The semaphore and the threads inside share the two permits as long as no thread
\* has called semop with another one's value: the shared sembuf is the only way
\* to lose or to gain a permit, however many threads there are.
THEOREM PermitsKept == Spec => []PermitsUnlessClobbered
<1>1. PermitInv => PermitsUnlessClobbered
    BY DEF PermitInv, PermitsUnlessClobbered
<1> QED
    BY <1>1, PermitInvariant, PTL

\* So at most two threads work at a time until the sembuf has been clobbered, as
\* threadScheduler.c:89-90 says of the semaphore's initial value.
THEOREM AtMostTwoUnlessClobbered == Spec => [](~clobbered => AtMostTwo)
<1>1. TypeOK /\ SchedulerInv /\ PermitInv => (~clobbered => AtMostTwo)
  <2> SUFFICES ASSUME TypeOK, SchedulerInv, PermitInv, ~clobbered PROVE AtMostTwo
      OBVIOUS
  <2>1. CASE main \in {"create", "join", "rmid"}
      BY <2>1, InsideFinite DEF TypeOK, SchedulerInv, PermitInv, AtMostTwo, Permits
  <2>2. CASE main \in {"setval", "done"}
    <3>1. Inside = {}
        BY <2>2 DEF SchedulerInv, RemovedLast, Inside
    <3> QED
        BY <3>1, FS_EmptySet DEF AtMostTwo, Permits
  <2> QED
      BY <2>1, <2>2 DEF TypeOK
<1> QED
    BY <1>1, PermitInvariant, PTL

-----------------------------------------------------------------------------
(* Counter *)

\* The thread does not run before it is created, a round begins only if there is one
\* left, and a loop that has ended has done all its rounds.
LoopInv ==
    /\ at["main"] = "create" => at["niti"] = "none"
    /\ \A p \in Counting!Both : at[p] \in {"read", "write"} => i[p] < K
    /\ \A p \in Counting!Both : at[p] = "done" => i[p] = K
    /\ printed => \A p \in Counting!Both : at[p] = "done"

\* Whatever updates are lost, main has pushed the global up at most as often as it
\* has gone round, and the thread down.
RangeInv ==
    /\ -i["niti"] <= globalna /\ globalna <= i["main"]
    /\ \A p \in Counting!Both : -i["niti"] <= j[p] /\ j[p] <= i["main"]

\* With the mutex the one that is inside has it, and what it has read still holds.
HeldInv ==
    locked =>
        /\ \A p \in Counting!Both : at[p] \in {"read", "write"} <=> mut = p
        /\ \A p \in Counting!Both : at[p] = "write" => j[p] = globalna
        /\ globalna = i["main"] - i["niti"]

CounterInv == Counting!TypeOK /\ LoopInv /\ RangeInv /\ HeldInv

LEMMA CounterInit == Counting!Init => CounterInv
  <1> USE TotalsAssumption
  <1> SUFFICES ASSUME Counting!Init PROVE CounterInv
    OBVIOUS
  <1>1. at["main"] = "create" /\ at["niti"] = "none" /\ at \in [Counting!Both -> {"create",
      "none"}]
    BY DEF Counting!Init, Counting!Both
  <1>2. i["main"] = 0 /\ i["niti"] = 0 /\ j["main"] = 0 /\ j["niti"] = 0
    BY DEF Counting!Init, Counting!Both
  <1>3. Counting!TypeOK
    <2>1. i \in [Counting!Both -> 0..K] /\ j \in [Counting!Both -> Int]
      BY DEF Counting!Init
    <2>2. globalna \in Int /\ mut = Counting!Nobody /\ printed = FALSE /\ locked \in BOOLEAN
      BY DEF Counting!Init
    <2> QED BY <1>1, <2>1, <2>2 DEF Counting!TypeOK
  <1>4. LoopInv
    BY <1>1 DEF Counting!Init, LoopInv, Counting!Both
  <1>5. RangeInv /\ HeldInv
    BY <1>1, <1>2 DEF Counting!Init, RangeInv, HeldInv, Counting!Both, Counting!Nobody
  <1> QED BY <1>3, <1>4, <1>5 DEF CounterInv

LEMMA CounterStep == CounterInv /\ [Counting!Next]_Counting!vars => CounterInv'
  <1> USE TotalsAssumption
  <1> SUFFICES ASSUME CounterInv, [Counting!Next]_Counting!vars PROVE CounterInv'
    OBVIOUS
  <1> USE DEF CounterInv, Counting!TypeOK, LoopInv, RangeInv, HeldInv, Counting!Both,
      Counting!Nobody, Counting!Goes
  <1>1. CASE Counting!Create
    <2>1. \A p \in Counting!Both : at'[p] = "test"
      BY <1>1 DEF Counting!Create
    <2>2. at' \in [Counting!Both -> {"test"}] /\ UNCHANGED <<locked, globalna, mut, i, j,
        printed>>
      BY <1>1 DEF Counting!Create
    <2>3. Counting!TypeOK' /\ RangeInv'
      BY <2>2
    <2>4. LoopInv'
      BY <1>1, <2>1, <2>2 DEF Counting!Create
    <2>5. HeldInv'
      BY <1>1, <2>1, <2>2 DEF Counting!Create
    <2> QED BY <2>3, <2>4, <2>5
  <1>2. ASSUME NEW p \in Counting!Both, Counting!Begin(p) PROVE CounterInv'
    BY <1>2 DEF Counting!Begin
  <1>3. ASSUME NEW p \in Counting!Both, Counting!Read(p) PROVE CounterInv'
    BY <1>3 DEF Counting!Read
  <1>4. ASSUME NEW p \in Counting!Both, Counting!Write(p) PROVE CounterInv'
    BY <1>4 DEF Counting!Write
  <1>5. CASE Counting!ThreadReturns
    BY <1>5 DEF Counting!ThreadReturns
  <1>6. CASE Counting!Join
    BY <1>6 DEF Counting!Join
  <1>7. CASE UNCHANGED Counting!vars
    BY <1>7 DEF Counting!vars
  <1> QED BY <1>1, <1>2, <1>3, <1>4, <1>5, <1>6, <1>7 DEF Counting!Next, Counting!Step

LEMMA BalanceOfInv == CounterInv => Counting!PrintsBalance
  BY TotalsAssumption DEF CounterInv, Counting!TypeOK, LoopInv, RangeInv, HeldInv,
     Counting!PrintsBalance, Counting!Both

\* main prints 0 if there is a mutex, and something from -K to K if there is none
\* (shared_res.c:20-27, 37-46; shared_mutex.c:22-29, 41-51).
THEOREM Balance == Counting!Spec => []Counting!PrintsBalance
  BY BalanceOfInv, CounterInit, CounterStep, PTL DEF Counting!Spec

-----------------------------------------------------------------------------
(* MonteCarlo *)

\* Multiples of b, one after the other.
LEMMA NextMultiple ==
  ASSUME NEW a \in Nat, NEW b \in Nat, b > 0, a % b = 0
  PROVE (a + b) % b = 0
  <1>1. a = (a \div b) * b /\ a \div b \in Nat
    BY SMT
  <1>2. a + b = ((a \div b) + 1) * b
    BY <1>1, SMT
  <1>3. \A c, d \in Nat : c = d * b => c % b = 0
    BY SMT
  <1>4. a + b \in Nat /\ (a \div b) + 1 \in Nat
    BY <1>1, SMT
  <1> QED BY <1>2, <1>3, <1>4, Zenon

HasMutex == {"test", "addPoints", "addHits"}

\* The thread that is between lock and unlock has the mutex, and a thread that main
\* has not created is not there.
MutexInv ==
    /\ \A t \in Shooting!Threads : shooter[t] \in HasMutex <=> mutex = t
    /\ mainStep = "create" => \A t \in Shooting!Threads : t >= join => shooter[t] = "none"

\* Outside, the totals agree; inside they lack what the thread has still to add.
TotalInv ==
    /\ mutex = Shooting!Nobody => zs = hits
    /\ \A t \in Shooting!Threads :
         /\ shooter[t] = "test" => zs = hits
         /\ shooter[t] = "addPoints" => hits = zs + z[t] /\ ps < P_MAX
         /\ shooter[t] = "addHits" => hits = zs + z[t] /\ zs + z[t] <= ps
    /\ zs <= ps /\ ps < P_MAX + RoundPoints /\ ps % RoundPoints = 0

\* A thread stops only at the limit, and main waits for one to stop.
LimitInv ==
    /\ \A t \in Shooting!Threads : shooter[t] = "done" => ps >= P_MAX
    /\ mainStep = "printed" => ps >= P_MAX

ShotsInv == Shooting!TypeOK /\ MutexInv /\ TotalInv /\ LimitInv

LEMMA ShotsInit == Shooting!Init => ShotsInv
  <1> SUFFICES ASSUME Shooting!Init PROVE ShotsInv
    OBVIOUS
  <1> USE TotalsAssumption
  <1>1. 1 \in Shooting!Threads /\ Shooting!Nobody \notin Shooting!Threads
    BY DEF Shooting!Threads, Shooting!Nobody
  <1>2. \A t \in Shooting!Threads : shooter[t] = "none"
    BY DEF Shooting!Init
  <1>3. Shooting!TypeOK
    BY <1>1 DEF Shooting!Init, Shooting!TypeOK
  <1>4. MutexInv /\ LimitInv
    BY <1>1, <1>2 DEF Shooting!Init, MutexInv, LimitInv, HasMutex
  <1>5. 0 % RoundPoints = 0
    BY SMT
  <1>6. TotalInv
    BY <1>2, <1>5 DEF Shooting!Init, TotalInv
  <1> QED BY <1>3, <1>4, <1>6 DEF ShotsInv

LEMMA ShotsTypeStep == Shooting!TypeOK /\ [Shooting!Next]_Shooting!vars => Shooting!TypeOK'
  <1> SUFFICES ASSUME Shooting!TypeOK, [Shooting!Next]_Shooting!vars PROVE Shooting!TypeOK'
    OBVIOUS
  <1> USE TotalsAssumption DEF Shooting!TypeOK, Shooting!Goes
  <1>1. 1 \in Shooting!Threads /\ \A t \in Shooting!Threads : t # Shooters => t + 1 \in
      Shooting!Threads
    BY DEF Shooting!Threads
  <1>2. CASE Shooting!Main
    BY <1>1, <1>2 DEF Shooting!Main, Shooting!Create, Shooting!Join
  <1>3. ASSUME NEW t \in Shooting!Threads, Shooting!Thread(t) PROVE Shooting!TypeOK'
    <2>1. CASE Shooting!Shoot(t)
      <3>1. PICK h \in 0..RoundPoints : z' = [z EXCEPT ![t] = h]
        BY <2>1 DEF Shooting!Shoot
      <3> QED BY <2>1, <3>1 DEF Shooting!Shoot
    <2>2. z[t] \in Nat
      OBVIOUS
    <2>3. CASE Shooting!Lock(t) \/ Shooting!Test(t) \/ Shooting!TooLate(t)
      BY <2>2, <2>3 DEF Shooting!Lock, Shooting!Test, Shooting!TooLate
    <2>4. CASE Shooting!AddPoints(t) \/ Shooting!AddHits(t)
      BY <2>2, <2>4 DEF Shooting!AddPoints, Shooting!AddHits
    <2> QED BY <1>3, <2>1, <2>3, <2>4 DEF Shooting!Thread
  <1>4. CASE UNCHANGED Shooting!vars
    BY <1>4 DEF Shooting!vars
  <1> QED BY <1>2, <1>3, <1>4 DEF Shooting!Next

LEMMA ShotsStep == ShotsInv /\ [Shooting!Next]_Shooting!vars => ShotsInv'
  <1> SUFFICES ASSUME ShotsInv, [Shooting!Next]_Shooting!vars PROVE MutexInv' /\ TotalInv' /\
      LimitInv'
    BY ShotsTypeStep DEF ShotsInv
  <1> USE TotalsAssumption DEF ShotsInv, Shooting!TypeOK, MutexInv, TotalInv, LimitInv, HasMutex,
      Shooting!Goes
  <1>1. \A t \in Shooting!Threads : t \in Nat /\ t # Shooting!Nobody
    BY DEF Shooting!Threads, Shooting!Nobody
  <1>2. CASE Shooting!Create
    BY <1>1, <1>2 DEF Shooting!Create
  <1>3. CASE Shooting!Join
    BY <1>1, <1>3 DEF Shooting!Join
  <1>4. ASSUME NEW t \in Shooting!Threads, Shooting!Shoot(t) PROVE MutexInv' /\ TotalInv' /\
      LimitInv'
    BY <1>1, <1>4 DEF Shooting!Shoot
  <1>5. ASSUME NEW t \in Shooting!Threads, Shooting!Lock(t) PROVE MutexInv' /\ TotalInv' /\
      LimitInv'
    BY <1>1, <1>5 DEF Shooting!Lock
  <1>6. ASSUME NEW t \in Shooting!Threads, Shooting!Test(t) PROVE MutexInv' /\ TotalInv' /\
      LimitInv'
    BY <1>1, <1>6 DEF Shooting!Test
  <1>7. ASSUME NEW t \in Shooting!Threads, Shooting!TooLate(t) PROVE MutexInv' /\ TotalInv' /\
      LimitInv'
    BY <1>1, <1>7 DEF Shooting!TooLate
  <1>8. ASSUME NEW t \in Shooting!Threads, Shooting!AddPoints(t) PROVE MutexInv' /\ TotalInv' /\
      LimitInv'
    <2>1. ps' = ps + RoundPoints /\ ps' % RoundPoints = 0
      <3>1. ps' = ps + RoundPoints /\ ps \in Nat /\ RoundPoints \in Nat /\ RoundPoints > 0 /\ ps
          % RoundPoints = 0
        BY <1>8 DEF Shooting!AddPoints
      <3> QED BY <3>1, NextMultiple, Zenon
    <2>2. z[t] \in 0..RoundPoints /\ shooter[t] = "addPoints" /\ ps < P_MAX /\ mutex = t
      BY <1>8 DEF Shooting!AddPoints
    <2>3. \A q \in Shooting!Threads : shooter'[q] = IF q = t THEN "addHits" ELSE shooter[q]
      BY <1>8 DEF Shooting!AddPoints
    <2>4. UNCHANGED <<join, mainStep, z, zs, mutex, hits>>
      BY <1>8 DEF Shooting!AddPoints
    <2>5. MutexInv'
      BY <1>1, <2>2, <2>3, <2>4
    <2>6. LimitInv'
      BY <1>1, <2>1, <2>2, <2>3, <2>4
    <2>7. TotalInv'
      <3>1. \A q \in Shooting!Threads : q # t => shooter[q] \notin HasMutex
        BY <2>2
      <3>2. zs' <= ps' /\ ps' < P_MAX + RoundPoints
        BY <2>1, <2>2, <2>4
      <3>3. hits = zs + z[t] /\ zs + z[t] <= ps'
        BY <2>1, <2>2
      <3> QED BY <1>1, <2>1, <2>2, <2>3, <2>4, <3>1, <3>2, <3>3
    <2> QED BY <2>5, <2>6, <2>7
  <1>9. ASSUME NEW t \in Shooting!Threads, Shooting!AddHits(t) PROVE MutexInv' /\ TotalInv' /\
      LimitInv'
    BY <1>1, <1>9 DEF Shooting!AddHits
  <1>10. CASE UNCHANGED Shooting!vars
    BY <1>10 DEF Shooting!vars
  <1> QED BY <1>2, <1>3, <1>4, <1>5, <1>6, <1>7, <1>8, <1>9, <1>10
      DEF Shooting!Next, Shooting!Main, Shooting!Thread

LEMMA RoundsOfInv == ShotsInv => Shooting!TotalsOfWholeRounds
  BY TotalsAssumption DEF ShotsInv, Shooting!TypeOK, TotalInv, LimitInv,
     Shooting!TotalsOfWholeRounds

\* main prints the totals of whole rounds, as many as it takes to reach the limit,
\* whatever the threads and their order (mc_pi.c:51-70; mc_sin.c:55-79).
THEOREM WholeRounds == Shooting!Spec => []Shooting!TotalsOfWholeRounds
  BY RoundsOfInv, ShotsInit, ShotsStep, PTL DEF Shooting!Spec

-----------------------------------------------------------------------------
(* Alarms *)

\* The time that has passed and the time that is left are together what was asked for:
\* of sleep1; of signal.c, which asks for five seconds in each phase, up to half a second
\* less and a second more for each SIGINT that it has answered.
IsLate(total, answered) ==
    LET late == total - phase * Alarming!Five
    IN  -(answered * Second) <= 2 * late /\ late <= answered * Second
Slept == elapsed + timer = nsecs * Second

TimeTypes ==
    /\ nsecs \in Nat /\ timer \in Nat /\ elapsed \in Nat /\ unslept \in Nat /\ result \in Int
    /\ phase \in 1..4 /\ signals \in Nat /\ program \in {"sleep", "signal"}
    /\ step = "alarm" => elapsed = 0 /\ timer = 0 /\ phase = 1 /\ signals = 0

SleepInv ==
    /\ step \in {"alarm", "beforePause", "pause", "cancel", "done"}
    /\ step \in {"beforePause", "pause", "cancel"} => Slept
    /\ step = "done" =>
         /\ result = 0 <=> elapsed = nsecs * Second
         /\ -Second < 2 * Alarming!Unreal /\ Alarming!Unreal < Second
         /\ 2 * Alarming!Unreal > Second => result = 1

AlarmInv ==
    /\ nsecs = 5 /\ (step # "done" => phase <= 3)
    /\ step \in {"alarm", "loop", "handler", "again", "SIGALRM", "done"}
    /\ step = "loop" => timer > 0 /\ IsLate(elapsed + timer, signals)
    /\ step = "handler" => timer > 0 /\ signals > 0 /\ IsLate(elapsed + timer, signals - 1)
    /\ step = "again" =>
         timer = 0 /\ unslept > 0 /\ IsLate(elapsed + unslept * Second, signals)
    /\ step = "SIGALRM" => timer = 0 /\ IsLate(elapsed + timer, signals)

TimeInv == TimeTypes /\ (program = "sleep" => SleepInv) /\ (program = "signal" => AlarmInv)

LEMMA Quotient ==
    ASSUME NEW a \in Nat, NEW b \in Nat \ {0}
    PROVE  a \div b \in Nat /\ (a \div b) * b <= a /\ a < (a \div b) * b + b
  BY SMT

LEMMA Nearest ==
    ASSUME NEW a \in Nat
    PROVE  LET q == (2 * a + Second) \div (2 * Second)
           IN  q \in Nat /\ 2 * (q * Second) <= 2 * a + Second /\ 2 * a < 2 * (q * Second) + Second
  <1>1. 2 * a + Second \in Nat /\ 2 * Second \in Nat \ {0} /\ Second \in Nat
    BY AlarmsAssumption
  <1> DEFINE q == (2 * a + Second) \div (2 * Second)
  <1>2. q \in Nat /\ q * (2 * Second) <= 2 * a + Second
        /\ 2 * a + Second < q * (2 * Second) + 2 * Second
    BY <1>1, Quotient
  <1> HIDE DEF q
  <1>3. q * (2 * Second) = 2 * (q * Second) /\ q * Second \in Nat
    BY <1>1, <1>2
  <1>4. q \in Nat /\ 2 * (q * Second) <= 2 * a + Second /\ 2 * a < 2 * (q * Second) + Second
    BY <1>1, <1>2, <1>3
  <1> QED BY <1>4 DEF q

\* alarm(0) returns the seconds that were left, to the nearest, but 1 for less than a
\* half (alarm(2)).
LEMMA LeftOf ==
    ASSUME NEW a \in Nat
    PROVE  /\ Alarming!Left(a) \in Nat
           /\ -Second < 2 * (Alarming!Left(a) * Second - a)
           /\ Alarming!Left(a) * Second - a < Second
           /\ 2 * (Alarming!Left(a) * Second - a) > Second => Alarming!Left(a) = 1
           /\ Alarming!Left(a) = 0 <=> a = 0
  <1> DEFINE q == (2 * a + Second) \div (2 * Second)
  <1>1. q \in Nat /\ 2 * (q * Second) <= 2 * a + Second /\ 2 * a < 2 * (q * Second) + Second
    BY Nearest
  <1>2. Alarming!Left(a) = IF a > 0 /\ q = 0 THEN 1 ELSE q
    BY DEF Alarming!Left
  <1> HIDE DEF q
  <1>3. Second \in Nat \ {0}
    BY AlarmsAssumption
  <1>4. CASE a > 0 /\ q = 0
    BY <1>1, <1>2, <1>3, <1>4
  <1>5. CASE a = 0
    <2>1. q = 0 \/ q * Second >= Second
      BY <1>1, <1>3
    <2> QED BY <1>1, <1>2, <1>3, <1>5, <2>1
  <1>6. CASE a > 0 /\ q > 0
    BY <1>1, <1>2, <1>3, <1>6
  <1> QED BY <1>1, <1>4, <1>5, <1>6

LEMMA TimeInit == Alarming!Init => TimeInv
  BY AlarmsAssumption DEF Alarming!Init, TimeInv, TimeTypes, SleepInv, AlarmInv

LEMMA TimeTypesStep ==
    ASSUME TimeInv, [Alarming!Next]_Alarming!vars
    PROVE  TimeTypes'
  <1> USE AlarmsAssumption DEF TimeInv, TimeTypes, SleepInv, AlarmInv, IsLate, Slept,
      Alarming!Unreal, Alarming!Five
  <1>1. CASE Alarming!Alarm
    BY <1>1 DEF Alarming!Alarm
  <1>2. CASE Alarming!Tick
    BY <1>2 DEF Alarming!Tick
  <1>3. CASE Alarming!Pause
    BY <1>3 DEF Alarming!Pause
  <1>4. CASE Alarming!Usr1
    BY <1>4 DEF Alarming!Usr1
  <1>5. CASE Alarming!Cancel
    BY <1>5, LeftOf DEF Alarming!Cancel
  <1>6. CASE Alarming!Sigint
    BY <1>6 DEF Alarming!Sigint
  <1>7. CASE Alarming!ShowUnslept
    BY <1>7, LeftOf DEF Alarming!ShowUnslept
  <1>8. CASE Alarming!AlarmAgain
    BY <1>8 DEF Alarming!AlarmAgain
  <1>9. CASE Alarming!AlarmHandler
    BY <1>9 DEF Alarming!AlarmHandler
  <1>10. CASE UNCHANGED Alarming!vars
    BY <1>10 DEF Alarming!vars
  <1> QED BY <1>1, <1>2, <1>3, <1>4, <1>5, <1>6, <1>7, <1>8, <1>9, <1>10 DEF Alarming!Next,
      Alarming!Program

LEMMA SleepStep ==
    ASSUME TimeTypes, program = "sleep", SleepInv, [Alarming!Next]_Alarming!vars
    PROVE  SleepInv' /\ program' = "sleep"
  <1> USE AlarmsAssumption DEF TimeTypes, SleepInv, AlarmInv, IsLate, Slept, Alarming!Unreal,
      Alarming!Five
  <1>1. CASE Alarming!Alarm
    BY <1>1 DEF Alarming!Alarm
  <1>2. CASE Alarming!Tick
    BY <1>2 DEF Alarming!Tick
  <1>3. CASE Alarming!Pause
    BY <1>3 DEF Alarming!Pause
  <1>4. CASE Alarming!Usr1
    BY <1>4 DEF Alarming!Usr1
  <1>5. CASE Alarming!Cancel
    <2> DEFINE l == Alarming!Left(timer)
    <2>1. /\ l \in Nat /\ -Second < 2 * (l * Second - timer) /\ l * Second - timer < Second
          /\ 2 * (l * Second - timer) > Second => l = 1
          /\ l = 0 <=> timer = 0
      BY LeftOf
    <2>2. /\ program' = program /\ step' = "done" /\ result' = l
          /\ nsecs' = nsecs /\ elapsed' = elapsed
      BY <1>5 DEF Alarming!Cancel
    <2> HIDE DEF l
    <2>3. timer = nsecs * Second - elapsed /\ nsecs * Second \in Int /\ l * Second \in Int
      BY <1>5, <2>1 DEF Alarming!Cancel
    <2> QED BY <2>1, <2>2, <2>3
  <1>6. CASE Alarming!Sigint
    BY <1>6 DEF Alarming!Sigint
  <1>7. CASE Alarming!ShowUnslept
    BY <1>7 DEF Alarming!ShowUnslept
  <1>8. CASE Alarming!AlarmAgain
    BY <1>8 DEF Alarming!AlarmAgain
  <1>9. CASE Alarming!AlarmHandler
    BY <1>9 DEF Alarming!AlarmHandler
  <1>10. CASE UNCHANGED Alarming!vars
    BY <1>10 DEF Alarming!vars
  <1> QED BY <1>1, <1>2, <1>3, <1>4, <1>5, <1>6, <1>7, <1>8, <1>9, <1>10 DEF Alarming!Next,
      Alarming!Program

LEMMA AlarmStep ==
    ASSUME TimeTypes, program = "signal", AlarmInv, [Alarming!Next]_Alarming!vars
    PROVE  AlarmInv' /\ program' = "signal"
  <1> USE AlarmsAssumption DEF TimeTypes, SleepInv, AlarmInv, IsLate, Slept, Alarming!Unreal,
      Alarming!Five
  <1>1. CASE Alarming!Alarm
    BY <1>1 DEF Alarming!Alarm
  <1>2. CASE Alarming!Tick
    BY <1>2 DEF Alarming!Tick
  <1>3. CASE Alarming!Pause
    BY <1>3 DEF Alarming!Pause
  <1>4. CASE Alarming!Usr1
    BY <1>4 DEF Alarming!Usr1
  <1>5. CASE Alarming!Cancel
    BY <1>5 DEF Alarming!Cancel
  <1>6. CASE Alarming!Sigint
    BY <1>6 DEF Alarming!Sigint
  <1>7. CASE Alarming!ShowUnslept
    <2> DEFINE l == Alarming!Left(timer)
    <2>1. /\ l \in Nat /\ -Second < 2 * (l * Second - timer) /\ l * Second - timer < Second
          /\ l = 0 <=> timer = 0
      BY LeftOf
    <2>2. /\ program' = program /\ step' = "again" /\ unslept' = l /\ nsecs' = nsecs
          /\ timer' = 0 /\ elapsed' = elapsed /\ signals' = signals /\ phase' = phase
      BY <1>7 DEF Alarming!ShowUnslept
    <2> HIDE DEF l
    <2>3. step = "handler" /\ timer > 0 /\ signals > 0 /\ IsLate(elapsed + timer, signals - 1)
      BY <1>7 DEF Alarming!ShowUnslept
    <2>4. (signals - 1) * Second = signals * Second - Second /\ signals * Second \in Int
          /\ l * Second \in Int /\ phase * Alarming!Five \in Int
      BY <2>1
    <2>5. l > 0 /\ IsLate(elapsed + l * Second, signals)
      BY <2>1, <2>3, <2>4
    <2> QED BY <2>2, <2>3, <2>5
  <1>8. CASE Alarming!AlarmAgain
    BY <1>8 DEF Alarming!AlarmAgain
  <1>9. CASE Alarming!AlarmHandler
    BY <1>9 DEF Alarming!AlarmHandler
  <1>10. CASE UNCHANGED Alarming!vars
    BY <1>10 DEF Alarming!vars
  <1> QED BY <1>1, <1>2, <1>3, <1>4, <1>5, <1>6, <1>7, <1>8, <1>9, <1>10 DEF Alarming!Next,
      Alarming!Program

LEMMA TimeStep == TimeInv /\ [Alarming!Next]_Alarming!vars => TimeInv'
  BY TimeTypesStep, SleepStep, AlarmStep DEF TimeInv, TimeTypes

\* What is set and returned is within what was asked for: the rounding of
\* alarm(0) never makes a second too many (sleep.c:23-26; signal.c:15-18).
RangesAt ==
    /\ nsecs \in Seconds \cup {5} /\ timer <= nsecs * Second
    /\ unslept <= nsecs /\ -1 <= result /\ result <= nsecs /\ signals <= MaxSignals

LEMMA LeftWithin ==
    ASSUME NEW a \in Nat, NEW b \in Nat, a <= b * Second
    PROVE  Alarming!Left(a) \in Nat /\ Alarming!Left(a) <= b
  <1> DEFINE l == Alarming!Left(a)
  <1> SUFFICES l \in Nat /\ l <= b
    OBVIOUS
  <1>1. /\ l \in Nat
        /\ 2 * (l * Second - a) > Second => l = 1
        /\ l = 0 <=> a = 0
    BY LeftOf
  <1> HIDE DEF l
  <1>2. Second \in Nat \ {0} /\ b * Second \in Nat
    BY AlarmsAssumption
  <1>3. CASE b = 0
    <2>1. a = 0
      BY <1>2, <1>3
    <2> QED BY <1>1, <1>3, <2>1
  <1>4. CASE b > 0 /\ l > b
    <2> DEFINE c == l - (b + 1)
    <2>1. c \in Nat /\ l = b + 1 + c
      BY <1>1, <1>4
    <2> HIDE DEF c
    <2>2. l * Second = b * Second + Second + c * Second /\ c * Second \in Nat
      BY <1>2, <2>1
    <2>3. 2 * (l * Second - a) > Second /\ l # 1
      BY <1>1, <1>2, <1>4, <2>1, <2>2
    <2> QED BY <1>1, <2>3
  <1> QED BY <1>1, <1>3, <1>4

LEMMA RangesAtStep ==
    ASSUME TimeInv, RangesAt, [Alarming!Next]_Alarming!vars
    PROVE  RangesAt'
  <1> USE AlarmsAssumption DEF TimeInv, TimeTypes, SleepInv, AlarmInv, RangesAt,
      Alarming!Five
  <1>1. CASE Alarming!Alarm
    BY <1>1 DEF Alarming!Alarm
  <1>2. CASE Alarming!Tick
    BY <1>2 DEF Alarming!Tick
  <1>3. CASE Alarming!Pause
    BY <1>3 DEF Alarming!Pause
  <1>4. CASE Alarming!Usr1
    BY <1>4 DEF Alarming!Usr1
  <1>5. CASE Alarming!Cancel
    BY <1>5, LeftWithin DEF Alarming!Cancel
  <1>6. CASE Alarming!Sigint
    BY <1>6 DEF Alarming!Sigint
  <1>7. CASE Alarming!ShowUnslept
    BY <1>7, LeftWithin DEF Alarming!ShowUnslept
  <1>8. CASE Alarming!AlarmAgain
    BY <1>8 DEF Alarming!AlarmAgain
  <1>9. CASE Alarming!AlarmHandler
    BY <1>9 DEF Alarming!AlarmHandler
  <1>10. CASE UNCHANGED Alarming!vars
    BY <1>10 DEF Alarming!vars
  <1> QED BY <1>1, <1>2, <1>3, <1>4, <1>5, <1>6, <1>7, <1>8, <1>9, <1>10 DEF Alarming!Next,
      Alarming!Program

\* Every step is one of the names, and the history is a Boolean.
StepNames ==
    step \in {"alarm", "beforePause", "pause", "cancel", "loop", "handler", "again", "SIGALRM",
              "done"}
MissedOK == missed \in BOOLEAN

LEMMA MissedStep == MissedOK /\ [Alarming!Next]_Alarming!vars => MissedOK'
  <1> SUFFICES ASSUME MissedOK, [Alarming!Next]_Alarming!vars PROVE MissedOK'
    OBVIOUS
  <1> USE DEF MissedOK
  <1>1. CASE Alarming!Tick
    <2>1. missed' = (missed \/ (timer' = 0 /\ step = "beforePause"))
      BY <1>1, Zenon DEF Alarming!Tick
    <2> QED BY <2>1, Zenon
  <1>2. CASE missed' = missed
    BY <1>2, Zenon
  <1>3. Alarming!Tick \/ missed' = missed
    BY Zenon DEF Alarming!Next, Alarming!Program, Alarming!Alarm, Alarming!Pause, Alarming!Usr1,
       Alarming!Cancel, Alarming!Sigint, Alarming!ShowUnslept, Alarming!AlarmAgain,
       Alarming!AlarmHandler, Alarming!vars
  <1> QED BY <1>1, <1>2, <1>3, Zenon

AlarmTypes == TimeInv /\ RangesAt /\ MissedOK

LEMMA AlarmTypesInit == Alarming!Init => AlarmTypes
  <1> SUFFICES ASSUME Alarming!Init PROVE AlarmTypes
    OBVIOUS
  <1>1. /\ nsecs \in Seconds \cup {5} /\ nsecs \in Nat /\ MaxSignals \in Nat
        /\ timer = 0 /\ unslept = 0 /\ result = -1 /\ signals = 0 /\ missed = FALSE
    BY AlarmsAssumption DEF Alarming!Init
  <1>2. RangesAt
    BY <1>1, AlarmsAssumption DEF RangesAt
  <1> QED BY <1>1, <1>2, TimeInit DEF AlarmTypes, MissedOK

LEMMA AlarmTypesStep == AlarmTypes /\ [Alarming!Next]_Alarming!vars => AlarmTypes'
  BY TimeStep, RangesAtStep, MissedStep DEF AlarmTypes

LEMMA AlarmTypesOK == AlarmTypes => Alarming!TypeOK
  <1> SUFFICES ASSUME AlarmTypes PROVE Alarming!TypeOK
    OBVIOUS
  <1>1. StepNames
    BY DEF AlarmTypes, TimeInv, TimeTypes, SleepInv, AlarmInv, StepNames
  <1>2. /\ program \in {"sleep", "signal"} /\ nsecs \in Seconds \cup {5}
        /\ timer \in 0..nsecs*Second /\ unslept \in 0..nsecs /\ result \in -1..nsecs
        /\ phase \in 1..4 /\ elapsed \in Nat /\ signals \in 0..MaxSignals
    BY AlarmsAssumption DEF AlarmTypes, TimeInv, TimeTypes, RangesAt
  <1>3. missed \in BOOLEAN
    BY DEF AlarmTypes, MissedOK
  <1> QED BY <1>1, <1>2, <1>3, Zenon DEF StepNames, Alarming!TypeOK

LEMMA TimeOfInv == TimeInv => Alarming!TimeIsKept
  BY AlarmsAssumption DEF TimeInv, TimeTypes, SleepInv, AlarmInv, IsLate, Alarming!TimeIsKept,
     Alarming!Unreal, Alarming!Late, Alarming!Five

-----------------------------------------------------------------------------
(* Niceness *)

NiceTypes ==
    /\ prog \in [Pids -> {"script", "bash", "target", "other", "free"}]
    /\ nice \in [Pids -> -20..19]
    /\ todo \subseteq Pids /\ pid \in Pids \cup {0} /\ x \in Pids \cup {0}
    /\ boss \in {"list", "raise", "help", "start", "done"}
    /\ ni \in Int /\ cnice \in Int /\ x1 \in Int
    /\ helped \subseteq Nicing!Live /\ touched \subseteq Pids
    /\ DOMAIN before \subseteq Nicing!Live /\ \A q \in DOMAIN before : before[q] \in -20..19

\* One process is the manager, to its end, and the monitor shows another.
ScriptInv ==
    /\ Nicing!Script \in Pids
    /\ \A q \in Pids : prog[q] = "script" <=> q = Nicing!Script
    /\ x # Nicing!Script

\* q's niceness is what the manager's pass over q leaves, before that, as it was.
RaisedAt(q) ==
    /\ boss = "list" => q \notin DOMAIN before
    /\ boss = "raise" /\ q \in DOMAIN before /\ q \notin touched =>
         /\ q \in todo \/ q = pid => nice[q] = before[q]
         /\ q = pid => ni = before[q]
         /\ q \notin todo /\ q # pid => nice[q] = Nicing!Clamp(before[q] + Times)
    /\ boss \in {"help", "start", "done"} /\ q \in DOMAIN before \ helped /\ q \notin touched =>
         nice[q] = Nicing!Clamp(before[q] + Times)
    /\ boss \in {"list", "raise"} => q \notin helped
    /\ q \in helped /\ q \notin touched =>
         \/ boss = "help" /\ nice[q] = Nicing!Clamp(Priority)
         \/ /\ boss \in {"start", "done"}
            /\ q \in DOMAIN before \/ x1 = nice[Nicing!Script] => nice[q] = Nicing!Clamp(Priority)
ManagerInv ==
    /\ pid # 0 => boss = "raise" /\ pid \notin todo
    /\ \A q \in Nicing!Live : RaisedAt(q)

NiceInv == NiceTypes /\ ScriptInv /\ ManagerInv

\* A set of process ids that has a member has a first.
LEMMA MinIsIn ==
    ASSUME NEW T \in SUBSET Pids, T # {}
    PROVE  Nicing!Min(T) \in T
  <1>1. T \subseteq Nat
    BY NicenessAssumption
  <1>2. PICK a \in T : \A b \in T : <<b, a>> \notin OpToRel(<, Nat)
    BY <1>1, WFMin, NatLessThanWellFounded
  <1>5. a \in T /\ a \in Nat
    BY <1>1
  <1>3. \A b \in T : b < a => <<b, a>> \in OpToRel(<, Nat)
    BY <1>1, <1>5, Zenon DEF OpToRel
  <1>4. \A b \in T : ~(b < a)
    BY <1>2, <1>3, Zenon
  <1>6. \A b \in T : a <= b
    BY <1>1, <1>4, <1>5
  <1> QED BY <1>5, <1>6, Zenon DEF Nicing!Min

LEMMA NiceTypesStep ==
    ASSUME NiceTypes, ScriptInv, [Nicing!Next]_Nicing!vars
    PROVE  NiceTypes'
  <1> USE DEF NiceTypes, Nicing!Live, Nicing!Nobody, Nicing!bossVars
  <1>0. Pids \subseteq Nat \ {0} /\ Priority \in Int /\ Times \in Int
    BY NicenessAssumption
  <1>1. CASE Nicing!List
    BY <1>1, <1>0 DEF Nicing!List
  <1>2. CASE Nicing!ReadNice
    <2>1. Nicing!Min(todo) \in Pids
      <3>1. todo \in SUBSET Pids /\ todo # {}
        BY <1>2 DEF Nicing!ReadNice
      <3> QED BY <3>1, MinIsIn
    <2>2. /\ pid' \in Pids /\ todo' \subseteq Pids
          /\ ni' = IF pid' \in Nicing!Live THEN nice[pid'] ELSE 0
          /\ UNCHANGED <<boss, st, x1, x, cnice, prog, nice, before, helped, touched>>
      BY <2>1, <1>2 DEF Nicing!ReadNice
    <2>3. ni' \in Int
      BY <2>2
    <2> QED BY <2>2, <2>3 DEF Nicing!Live
  <1>3. CASE Nicing!Raise
    BY <1>3, <1>0 DEF Nicing!Raise, Nicing!Renice, Nicing!Clamp
  <1>4. CASE Nicing!Pgrep
    BY <1>4, <1>0 DEF Nicing!Pgrep, Nicing!Targets
  <1>5. CASE Nicing!Help
    <2>1. Nicing!Min(todo) \in Pids
      <3>1. todo \in SUBSET Pids /\ todo # {}
        BY <1>5 DEF Nicing!Help
      <3> QED BY <3>1, MinIsIn
    <2>2. CASE Nicing!Min(todo) \in Nicing!Targets
      <3> DEFINE q == Nicing!Min(todo)
      <3>1. /\ q \in Pids /\ prog[q] = "target"
            /\ todo' = todo \ {q} /\ helped' = helped \cup {q} /\ touched' = touched \ {q}
            /\ nice' = [nice EXCEPT ![q] = Nicing!Clamp(Priority)]
            /\ UNCHANGED <<boss, pid, ni, x1, x, cnice, prog, before>>
        BY <2>1, <2>2, <1>5 DEF Nicing!Help, Nicing!Targets, Nicing!Renice, Nicing!Live
      <3> HIDE DEF q
      <3>2. Nicing!Clamp(Priority) \in -20..19
        BY <1>0 DEF Nicing!Clamp
      <3> QED BY <3>1, <3>2 DEF Nicing!Live
    <2>3. CASE Nicing!Min(todo) \notin Nicing!Targets
      BY <2>1, <2>3, <1>5 DEF Nicing!Help, Nicing!Live
    <2> QED BY <2>2, <2>3
  <1>6. CASE Nicing!Pidof
    BY <1>6, <1>0 DEF Nicing!Pidof, Nicing!Shells
  <1>7. CASE Nicing!Start
    <2>1. \A num \in Int : Nicing!Clamp(num) \in -20..19
      BY DEF Nicing!Clamp
    <2>2. \A q \in Pids : nice[q] + Priority - x1 \in Int
      BY <1>0
    <2> QED BY <1>7, <1>0, <2>1, <2>2 DEF ScriptInv, Nicing!Start
  <1>8. CASE Nicing!Finish
    BY <1>8, <1>0 DEF Nicing!Finish
  <1>9. CASE Nicing!Osvezi
    BY <1>9, <1>0 DEF Nicing!Osvezi
  <1>10. CASE Nicing!Key
    BY <1>10, <1>0 DEF Nicing!Key, Nicing!Renice, Nicing!Clamp
  <1>11. ASSUME NEW q \in Pids, Nicing!Ends(q) PROVE NiceTypes'
    BY <1>11, <1>0 DEF Nicing!Ends
  <1>12. ASSUME NEW q \in Pids, Nicing!Forks(q) PROVE NiceTypes'
    BY <1>12, <1>0 DEF Nicing!Forks
  <1>13. CASE UNCHANGED Nicing!vars
    BY <1>13, <1>0 DEF Nicing!vars
  <1> QED BY <1>1, <1>2, <1>3, <1>4, <1>5, <1>6, <1>7, <1>8, <1>9, <1>10, <1>11, <1>12, <1>13 DEF
      Nicing!Next

LEMMA ScriptStep ==
    ASSUME NiceTypes, ScriptInv, [Nicing!Next]_Nicing!vars
    PROVE  ScriptInv'
  <1> USE DEF NiceTypes, ScriptInv, Nicing!Live, Nicing!Nobody, Nicing!bossVars
  <1>0. Pids \subseteq Nat \ {0} /\ Nicing!Script' = CHOOSE q \in Pids : prog'[q] = "script"
    BY NicenessAssumption DEF Nicing!Script
  <1>1. CASE Nicing!List
    BY <1>1, <1>0 DEF Nicing!List
  <1>2. CASE Nicing!ReadNice
    BY <1>2, <1>0 DEF Nicing!ReadNice
  <1>3. CASE Nicing!Raise
    BY <1>3, <1>0 DEF Nicing!Raise, Nicing!Renice, Nicing!Clamp
  <1>4. CASE Nicing!Pgrep
    BY <1>4, <1>0 DEF Nicing!Pgrep, Nicing!Targets
  <1>5. CASE Nicing!Help
    BY <1>5, <1>0 DEF Nicing!Help, Nicing!Targets, Nicing!Renice, Nicing!Clamp
  <1>6. CASE Nicing!Pidof
    BY <1>6, <1>0 DEF Nicing!Pidof, Nicing!Shells
  <1>7. CASE Nicing!Start
    BY <1>7, <1>0 DEF Nicing!Start, Nicing!Clamp
  <1>8. CASE Nicing!Finish
    BY <1>8, <1>0 DEF Nicing!Finish
  <1>9. CASE Nicing!Osvezi
    BY <1>9, <1>0 DEF Nicing!Osvezi
  <1>10. CASE Nicing!Key
    BY <1>10, <1>0 DEF Nicing!Key, Nicing!Renice, Nicing!Clamp
  <1>11. ASSUME NEW q \in Pids, Nicing!Ends(q) PROVE ScriptInv'
    BY <1>11, <1>0 DEF Nicing!Ends
  <1>12. ASSUME NEW q \in Pids, Nicing!Forks(q) PROVE ScriptInv'
    BY <1>12, <1>0 DEF Nicing!Forks
  <1>13. CASE UNCHANGED Nicing!vars
    BY <1>13, <1>0 DEF Nicing!vars
  <1> QED BY <1>1, <1>2, <1>3, <1>4, <1>5, <1>6, <1>7, <1>8, <1>9, <1>10, <1>11, <1>12, <1>13 DEF
      Nicing!Next

LEMMA ScriptProg ==
    ASSUME NiceTypes, ScriptInv, [Nicing!Next]_Nicing!vars
    PROVE  prog'[Nicing!Script] = "script"
  <1> USE DEF NiceTypes, ScriptInv, Nicing!Live, Nicing!Nobody, Nicing!bossVars
  <1>0. Pids \subseteq Nat \ {0}
    BY NicenessAssumption
  <1>1. CASE Nicing!List
    BY <1>1, <1>0 DEF Nicing!List
  <1>2. CASE Nicing!ReadNice
    BY <1>2, <1>0 DEF Nicing!ReadNice
  <1>3. CASE Nicing!Raise
    BY <1>3, <1>0 DEF Nicing!Raise, Nicing!Renice, Nicing!Clamp
  <1>4. CASE Nicing!Pgrep
    BY <1>4, <1>0 DEF Nicing!Pgrep, Nicing!Targets
  <1>5. CASE Nicing!Help
    BY <1>5, <1>0 DEF Nicing!Help, Nicing!Targets, Nicing!Renice, Nicing!Clamp
  <1>6. CASE Nicing!Pidof
    BY <1>6, <1>0 DEF Nicing!Pidof, Nicing!Shells
  <1>7. CASE Nicing!Start
    BY <1>7, <1>0 DEF Nicing!Start, Nicing!Clamp
  <1>8. CASE Nicing!Finish
    BY <1>8, <1>0 DEF Nicing!Finish
  <1>9. CASE Nicing!Osvezi
    BY <1>9, <1>0 DEF Nicing!Osvezi
  <1>10. CASE Nicing!Key
    BY <1>10, <1>0 DEF Nicing!Key, Nicing!Renice, Nicing!Clamp
  <1>11. ASSUME NEW q \in Pids, Nicing!Ends(q) PROVE prog'[Nicing!Script] = "script"
    BY <1>11, <1>0 DEF Nicing!Ends
  <1>12. ASSUME NEW q \in Pids, Nicing!Forks(q) PROVE prog'[Nicing!Script] = "script"
    BY <1>12, <1>0 DEF Nicing!Forks
  <1>13. CASE UNCHANGED Nicing!vars
    BY <1>13, <1>0 DEF Nicing!vars
  <1> QED BY <1>1, <1>2, <1>3, <1>4, <1>5, <1>6, <1>7, <1>8, <1>9, <1>10, <1>11, <1>12, <1>13 DEF
      Nicing!Next

LEMMA ScriptSame ==
    ASSUME NiceTypes, ScriptInv, [Nicing!Next]_Nicing!vars
    PROVE  Nicing!Script' = Nicing!Script
  <1>1. ScriptInv' /\ prog'[Nicing!Script] = "script"
    BY ScriptStep, ScriptProg
  <1> QED BY <1>1 DEF ScriptInv

LEMMA PidStep ==
    ASSUME NiceTypes, ScriptInv, ManagerInv, [Nicing!Next]_Nicing!vars
    PROVE  pid' # 0 => boss' = "raise" /\ pid' \notin todo'
  <1> USE DEF NiceTypes, ManagerInv, Nicing!Live, Nicing!Nobody, Nicing!bossVars
  <1>0. /\ Pids \subseteq Nat \ {0} /\ Priority \in Int /\ Times \in Int
        /\ Nicing!Script \in Pids /\ Nicing!Script' = Nicing!Script /\ x # Nicing!Script
        /\ prog[Nicing!Script] = "script"
    BY NicenessAssumption, ScriptSame DEF ScriptInv
  <1>1. CASE Nicing!List
    BY <1>1, <1>0 DEF Nicing!List
  <1>2. CASE Nicing!ReadNice
    <2>1. Nicing!Min(todo) \in todo
      <3>1. todo \in SUBSET Pids /\ todo # {}
        BY <1>2 DEF Nicing!ReadNice, NiceTypes
      <3> QED BY <3>1, MinIsIn
    <2>2. /\ pid' \in todo /\ todo' = todo \ {pid'} /\ pid = 0 /\ boss = "raise"
          /\ ni' = IF pid' \in Nicing!Live THEN nice[pid'] ELSE 0
          /\ UNCHANGED <<boss, st, x1, x, cnice, prog, nice, before, helped, touched>>
      BY <2>1, <1>2 DEF Nicing!ReadNice, Nicing!Nobody
    <2> QED BY <2>2
  <1>3. CASE Nicing!Raise
    BY <1>3, <1>0 DEF Nicing!Raise, Nicing!Renice, Nicing!Clamp
  <1>4. CASE Nicing!Pgrep
    BY <1>4, <1>0 DEF Nicing!Pgrep, Nicing!Targets
  <1>5. CASE Nicing!Help
    BY <1>5, <1>0 DEF Nicing!Help, Nicing!Targets, Nicing!Renice, Nicing!Clamp
  <1>6. CASE Nicing!Pidof
    BY <1>6, <1>0 DEF Nicing!Pidof, Nicing!Shells
  <1>7. CASE Nicing!Start
    BY <1>7, <1>0 DEF Nicing!Start, Nicing!Clamp
  <1>8. CASE Nicing!Finish
    BY <1>8, <1>0 DEF Nicing!Finish
  <1>9. CASE Nicing!Osvezi
    BY <1>9, <1>0 DEF Nicing!Osvezi
  <1>10. CASE Nicing!Key
    BY <1>10, <1>0 DEF Nicing!Key, Nicing!Renice, Nicing!Clamp
  <1>11. ASSUME NEW q \in Pids, Nicing!Ends(q) PROVE pid' # 0 => boss' = "raise" /\ pid' \notin
      todo'
    BY <1>11, <1>0 DEF Nicing!Ends
  <1>12. ASSUME NEW q \in Pids, Nicing!Forks(q) PROVE pid' # 0 => boss' = "raise" /\ pid' \notin
      todo'
    BY <1>12, <1>0 DEF Nicing!Forks
  <1>13. CASE UNCHANGED Nicing!vars
    BY <1>13, <1>0 DEF Nicing!vars
  <1> QED BY <1>1, <1>2, <1>3, <1>4, <1>5, <1>6, <1>7, <1>8, <1>9, <1>10, <1>11, <1>12, <1>13 DEF
      Nicing!Next

LEMMA RaisedStep ==
    ASSUME NiceTypes, ScriptInv, ManagerInv, NEW r \in Nicing!Live', [Nicing!Next]_Nicing!vars
    PROVE  RaisedAt(r)'
  <1> USE DEF NiceTypes, RaisedAt, Nicing!Live, Nicing!Nobody, Nicing!bossVars
  <1>0. /\ Pids \subseteq Nat \ {0} /\ Priority \in Int /\ Times \in Int
        /\ Nicing!Script \in Pids /\ Nicing!Script' = Nicing!Script /\ x # Nicing!Script
        /\ prog[Nicing!Script] = "script"
    BY NicenessAssumption, ScriptSame DEF ScriptInv
  <1>a. /\ r \in Pids /\ (pid # 0 => boss = "raise" /\ pid \notin todo)
        /\ r \in Nicing!Live => RaisedAt(r)
        /\ r \notin Nicing!Live => r \notin DOMAIN before /\ r \notin helped
    BY DEF ManagerInv, Nicing!Live
  <1>1. CASE Nicing!List
    BY <1>1, <1>0, <1>a DEF Nicing!List
  <1>2. CASE Nicing!ReadNice
    <2>1. Nicing!Min(todo) \in todo
      <3>1. todo \in SUBSET Pids /\ todo # {}
        BY <1>2 DEF Nicing!ReadNice, NiceTypes
      <3> QED BY <3>1, MinIsIn
    <2>2. /\ pid' \in todo /\ todo' = todo \ {pid'} /\ pid = 0 /\ boss = "raise"
          /\ ni' = IF pid' \in Nicing!Live THEN nice[pid'] ELSE 0
          /\ UNCHANGED <<boss, st, x1, x, cnice, prog, nice, before, helped, touched>>
      BY <2>1, <1>2 DEF Nicing!ReadNice, Nicing!Nobody
    <2> QED BY <2>2, <1>0, <1>a DEF Nicing!Live
  <1>3. CASE Nicing!Raise
    BY <1>3, <1>0, <1>a DEF Nicing!Raise, Nicing!Renice, Nicing!Clamp
  <1>4. CASE Nicing!Pgrep
    BY <1>4, <1>0, <1>a DEF Nicing!Pgrep, Nicing!Targets
  <1>5. CASE Nicing!Help
    <2>1. Nicing!Min(todo) \in todo
      <3>1. todo \in SUBSET Pids /\ todo # {}
        BY <1>5 DEF Nicing!Help, NiceTypes
      <3> QED BY <3>1, MinIsIn
    <2>2. CASE Nicing!Min(todo) \in Nicing!Targets
      <3> DEFINE a == Nicing!Min(todo)
      <3>1. /\ a \in Pids /\ prog[a] = "target" /\ boss = "help"
            /\ todo' = todo \ {a} /\ helped' = helped \cup {a} /\ touched' = touched \ {a}
            /\ nice' = [nice EXCEPT ![a] = Nicing!Clamp(Priority)]
            /\ UNCHANGED <<boss, pid, ni, x1, x, cnice, prog, before>>
        BY <2>1, <2>2, <1>5 DEF Nicing!Help, Nicing!Targets, Nicing!Renice, Nicing!Live
      <3> HIDE DEF a
      <3> QED BY <3>1, <1>0, <1>a DEF Nicing!Live
    <2>3. CASE Nicing!Min(todo) \notin Nicing!Targets
      BY <2>1, <2>3, <1>5, <1>0, <1>a DEF Nicing!Help, Nicing!Live
    <2> QED BY <2>2, <2>3
  <1>6. CASE Nicing!Pidof
    BY <1>6, <1>0, <1>a DEF Nicing!Pidof, Nicing!Shells
  <1>7. CASE Nicing!Start
    BY <1>7, <1>0, <1>a DEF Nicing!Start, Nicing!Clamp
  <1>8. CASE Nicing!Finish
    BY <1>8, <1>0, <1>a DEF Nicing!Finish
  <1>9. CASE Nicing!Osvezi
    BY <1>9, <1>0, <1>a DEF Nicing!Osvezi
  <1>10. CASE Nicing!Key
    BY <1>10, <1>0, <1>a DEF Nicing!Key, Nicing!Renice, Nicing!Clamp
  <1>11. ASSUME NEW q \in Pids, Nicing!Ends(q) PROVE RaisedAt(r)'
    BY <1>11, <1>0, <1>a DEF Nicing!Ends
  <1>12. ASSUME NEW q \in Pids, Nicing!Forks(q) PROVE RaisedAt(r)'
    BY <1>12, <1>0, <1>a DEF Nicing!Forks
  <1>13. CASE UNCHANGED Nicing!vars
    BY <1>13, <1>0, <1>a DEF Nicing!vars
  <1> QED BY <1>1, <1>2, <1>3, <1>4, <1>5, <1>6, <1>7, <1>8, <1>9, <1>10, <1>11, <1>12, <1>13 DEF
      Nicing!Next

LEMMA NiceInit == Nicing!Init => NiceInv
  <1> SUFFICES ASSUME Nicing!Init PROVE NiceInv
    OBVIOUS
  <1>1. PICK f \in First : prog = f.prog /\ nice = f.nice
    BY DEF Nicing!Init
  <1>2. NiceTypes
    BY <1>1, NicenessAssumption DEF Nicing!Init, NiceTypes, Nicing!Nobody
  <1>3. PICK q \in Pids : \A r \in Pids : prog[r] = "script" <=> r = q
    BY <1>1, NicenessAssumption
  <1>4. ScriptInv
    BY <1>3, NicenessAssumption DEF Nicing!Init, Nicing!Script, Nicing!Nobody, ScriptInv
  <1>5. ManagerInv
    BY DEF Nicing!Init, ManagerInv, RaisedAt, Nicing!Nobody
  <1> QED BY <1>2, <1>4, <1>5 DEF NiceInv

LEMMA NiceStep == NiceInv /\ [Nicing!Next]_Nicing!vars => NiceInv'
  <1> SUFFICES ASSUME NiceInv, [Nicing!Next]_Nicing!vars PROVE NiceInv'
    OBVIOUS
  <1>1. ManagerInv'
    BY PidStep, RaisedStep DEF NiceInv, ManagerInv
  <1> QED BY <1>1, NiceTypesStep, ScriptStep DEF NiceInv

LEMMA HelpedOfInv == NiceInv => Nicing!Helped
  BY DEF NiceInv, NiceTypes, ManagerInv, RaisedAt, Nicing!Helped, Nicing!Live

-----------------------------------------------------------------------------
(* PipeShell *)

Ends == {"left", "right"} \X {"pfd0", "pfd1", "stdin", "stdout"}

PipeTypes ==
    /\ shell \in {"read", "fork", "wait", "ended"} /\ commands \in 0..MaxCommands
    /\ odd \in BOOLEAN
    /\ left \in [Piping!Commands -> {"none", "pipe", "fork", "closeRead", "dup", "closeWrite",
                                     "exec", "run", "complain", "ended"}]
    /\ right \in [Piping!Commands -> {"none", "closeWrite", "dup", "closeRead", "exec", "run",
                                      "ended", "atEnd"}]
    /\ fds \in [Piping!Commands -> SUBSET Ends]
    /\ pipe \in [Piping!Commands -> Seq(Nat)]
    /\ wrote \in [Piping!Commands -> 0..2] /\ got \in [Piping!Commands -> Nat]
    /\ DOMAIN words = Piping!Commands

\* A left side comes with its command, and a right side with its pipe.
CourseAt(b) ==
    /\ b > commands \/ (b = commands /\ shell = "fork") => left[b] = "none"
    /\ left[b] \in {"none", "pipe", "fork"} => right[b] = "none"
    /\ left[b] \in {"pipe", "fork", "closeRead", "dup", "closeWrite"} \/ right[b] # "none" =>
          Piping!Piped(b)
    /\ left[b] \in {"pipe", "fork", "closeRead", "dup", "closeWrite", "exec", "none"} => wrote[b]
        = 0
    /\ right[b] = "none" => got[b] = 0

\* As long as it may write to the pipe, the left side has an end open.
EndsAt(b) ==
    /\ left[b] \in {"fork", "closeRead", "dup", "closeWrite"} => <<"left", "pfd1">> \in fds[b]
    /\ left[b] \in {"closeWrite", "exec", "run", "complain"} /\ Piping!Piped(b) =>
          <<"left", "stdout">> \in fds[b]

\* What has been written and not read is in the pipe.
QueueAt(b) ==
    /\ got[b] <= wrote[b]
    /\ Piping!Piped(b) =>
         /\ Len(pipe[b]) = wrote[b] - got[b]
         /\ \A a \in 1..Len(pipe[b]) : pipe[b][a] = got[b] + a
    /\ ~Piping!Piped(b) => pipe[b] = <<>>
    /\ Len(pipe[b]) <= Capacity
    /\ right[b] = "atEnd" => left[b] = "ended" /\ pipe[b] = <<>> /\ got[b] = wrote[b]

PipeInv == PipeTypes /\ \A b \in Piping!Commands : CourseAt(b) /\ EndsAt(b) /\ QueueAt(b)

LEMMA PipeTypesStep ==
    ASSUME PipeTypes, [Piping!Next]_Piping!vars
    PROVE  PipeTypes'
  <1> USE DEF PipeTypes, Ends, Piping!Commands, Piping!Output
  <1>0. MaxCommands \in Nat
    BY PipesAssumption
  <1>1. CASE Piping!ReadLine
    BY <1>1, <1>0 DEF Piping!ReadLine
  <1>2. CASE Piping!ForkLeft
    BY <1>2, <1>0 DEF Piping!ForkLeft
  <1>3. CASE Piping!Waitpid
    BY <1>3, <1>0 DEF Piping!Waitpid
  <1>4. CASE Piping!Exit
    BY <1>4, <1>0 DEF Piping!Exit
  <1>5. ASSUME NEW c \in Piping!Commands, Piping!Pipe(c) PROVE PipeTypes'
    BY <1>5, <1>0 DEF Piping!Pipe, Piping!Goes, Piping!shellVars
  <1>6. ASSUME NEW c \in Piping!Commands, Piping!ForkRight(c) PROVE PipeTypes'
    BY <1>6, <1>0 DEF Piping!ForkRight, Piping!Goes, Piping!shellVars
  <1>7. ASSUME NEW c \in Piping!Commands, Piping!LeftCloseRead(c) PROVE PipeTypes'
    BY <1>7, <1>0 DEF Piping!LeftCloseRead, Piping!Closes, Piping!Goes, Piping!shellVars
  <1>8. ASSUME NEW c \in Piping!Commands, Piping!LeftDup(c) PROVE PipeTypes'
    BY <1>8, <1>0 DEF Piping!LeftDup, Piping!Opens, Piping!Goes, Piping!shellVars
  <1>9. ASSUME NEW c \in Piping!Commands, Piping!LeftCloseWrite(c) PROVE PipeTypes'
    BY <1>9, <1>0 DEF Piping!LeftCloseWrite, Piping!Closes, Piping!Goes, Piping!shellVars
  <1>10. ASSUME NEW c \in Piping!Commands, Piping!LeftExec(c) PROVE PipeTypes'
    BY <1>10, <1>0 DEF Piping!LeftExec, Piping!Goes, Piping!shellVars
  <1>11. ASSUME NEW c \in Piping!Commands, Piping!LeftWrites(c) PROVE PipeTypes'
    <2>0. /\ left[c] \in {"run", "complain"} /\ wrote[c] < 2 /\ wrote[c] + 1 \in 0..2
          /\ UNCHANGED <<shell, commands, odd, words, right, got>>
          /\ pipe[c] \in Seq(Nat) /\ Len(pipe[c]) \in Nat
      BY <1>11 DEF Piping!LeftWrites, Piping!ToWrite, Piping!Output, Piping!shellVars, PipeTypes,
         Piping!Commands
    <2>1. CASE /\ ~Piping!Piped(c) \/ <<"left", "stdout">> \notin fds[c]
               /\ UNCHANGED <<left, fds, pipe>> /\ wrote' = [wrote EXCEPT ![c] = @ + 1]
      BY <2>0, <2>1, <1>0
    <2>2. CASE /\ left' = [left EXCEPT ![c] = "ended"]
               /\ fds' = [fds EXCEPT ![c] = {d \in @ : d[1] # "left"}]
               /\ UNCHANGED <<pipe, wrote>>
      BY <2>0, <2>2, <1>0
    <2>3. CASE /\ Piping!Piped(c) /\ Len(pipe[c]) < Capacity
               /\ wrote' = [wrote EXCEPT ![c] = @ + 1]
               /\ pipe' = [pipe EXCEPT ![c] = Append(@, wrote'[c])]
               /\ UNCHANGED <<left, fds>>
      <3>1. wrote'[c] \in 0..2 /\ pipe'[c] = Append(pipe[c], wrote'[c])
        BY <2>0, <2>3
      <3>2. pipe'[c] \in Seq(Nat)
        BY <2>0, <3>1, AppendProperties
      <3>3. pipe' = [pipe EXCEPT ![c] = pipe'[c]] /\ wrote' = [wrote EXCEPT ![c] = wrote'[c]]
        BY <2>3, <3>1
      <3> QED BY <2>0, <2>3, <3>1, <3>2, <3>3, <1>0
    <2> QED
      <3>1. Piping!Has(c, "left", "stdout") <=> <<"left", "stdout">> \in fds[c]
        BY DEF Piping!Has
      <3> QED BY <1>11, <2>1, <2>2, <2>3, <3>1, Zenon DEF Piping!LeftWrites, Piping!Leaves
  <1>12. ASSUME NEW c \in Piping!Commands, Piping!LeftEnds(c) PROVE PipeTypes'
    BY <1>12, <1>0 DEF Piping!LeftEnds, Piping!Leaves, Piping!Goes, Piping!shellVars
  <1>13. ASSUME NEW c \in Piping!Commands, Piping!LeftFails(c) PROVE PipeTypes'
    BY <1>13, <1>0 DEF Piping!LeftFails, Piping!Leaves, Piping!Goes, Piping!shellVars
  <1>14. ASSUME NEW c \in Piping!Commands, Piping!RightCloseWrite(c) PROVE PipeTypes'
    BY <1>14, <1>0 DEF Piping!RightCloseWrite, Piping!Closes, Piping!Goes, Piping!shellVars
  <1>15. ASSUME NEW c \in Piping!Commands, Piping!RightDup(c) PROVE PipeTypes'
    BY <1>15, <1>0 DEF Piping!RightDup, Piping!Opens, Piping!Goes, Piping!shellVars
  <1>16. ASSUME NEW c \in Piping!Commands, Piping!RightCloseRead(c) PROVE PipeTypes'
    BY <1>16, <1>0 DEF Piping!RightCloseRead, Piping!Closes, Piping!Goes, Piping!shellVars
  <1>17. ASSUME NEW c \in Piping!Commands, Piping!RightExec(c) PROVE PipeTypes'
    <2>0. right[c] \in {"dup", "exec"} /\ UNCHANGED <<shell, commands, odd, words, left, pipe,
        wrote, got>>
      BY <1>17 DEF Piping!RightExec, Piping!shellVars
    <2>1. CASE right' = [right EXCEPT ![c] = "run"] /\ UNCHANGED fds
      BY <2>0, <2>1, <1>0
    <2>2. CASE /\ right' = [right EXCEPT ![c] = "ended"]
               /\ fds' = [fds EXCEPT ![c] = {d \in @ : d[1] # "right"}]
      BY <2>0, <2>2, <1>0
    <2> QED BY <1>17, <2>1, <2>2, Zenon DEF Piping!RightExec, Piping!Leaves
  <1>18. ASSUME NEW c \in Piping!Commands, Piping!RightReads(c) PROVE PipeTypes'
    <2>0. /\ right[c] = "run" /\ pipe[c] # <<>> /\ pipe[c] \in Seq(Nat)
          /\ Head(pipe[c]) \in Nat /\ Tail(pipe[c]) \in Seq(Nat)
          /\ got' = [got EXCEPT ![c] = Head(pipe[c])] /\ pipe' = [pipe EXCEPT ![c] = Tail(@)]
          /\ UNCHANGED <<shell, commands, odd, words, left, wrote>>
      BY <1>18, HeadTailProperties DEF Piping!RightReads, Piping!shellVars, PipeTypes
    <2>a. Head(pipe[c]) \in Nat
      BY <2>0
    <2>1. CASE UNCHANGED <<right, fds>>
      BY <2>0, <2>a, <2>1, <1>0
    <2>2. CASE /\ right' = [right EXCEPT ![c] = "ended"]
               /\ fds' = [fds EXCEPT ![c] = {d \in @ : d[1] # "right"}]
      BY <2>0, <2>a, <2>2, <1>0
    <2> QED BY <1>18, <2>1, <2>2, Zenon DEF Piping!RightReads, Piping!Leaves
  <1>19. ASSUME NEW c \in Piping!Commands, Piping!RightAtEnd(c) PROVE PipeTypes'
    BY <1>19, <1>0 DEF Piping!RightAtEnd, Piping!Leaves, Piping!Goes, Piping!shellVars
  <1>20. CASE UNCHANGED Piping!vars
    BY <1>20, <1>0 DEF Piping!vars, Piping!shellVars
  <1> QED BY <1>1, <1>2, <1>3, <1>4, <1>5, <1>6, <1>7, <1>8, <1>9, <1>10, <1>11, <1>12, <1>13,
      <1>14, <1>15, <1>16, <1>17, <1>18, <1>19, <1>20
     DEF Piping!Next, Piping!Shell, Piping!LeftSide, Piping!RightSide

\* The words of a line stay as they are once its left side is there.
LEMMA PipedStays ==
    ASSUME PipeTypes, NEW b \in Piping!Commands, CourseAt(b), left[b] # "none",
           [Piping!Next]_Piping!vars
    PROVE  Piping!Piped(b)' <=> Piping!Piped(b)
  <1>1. words'[b] = words[b]
    <2>0. commands \in Nat /\ b \in Nat /\ (b > commands => left[b] = "none") /\ DOMAIN words =
        Piping!Commands
      BY PipesAssumption DEF PipeTypes, CourseAt, Piping!Commands
    <2>1. CASE Piping!ReadLine
      <3>1. b # commands + 1
        BY <2>1, <2>0 DEF CourseAt
      <3> QED BY <2>1, <2>0, <3>1 DEF Piping!ReadLine
    <2>2. CASE Piping!ForkLeft
      BY <2>2, <2>0 DEF Piping!ForkLeft
    <2>3. CASE Piping!Waitpid
      BY <2>3, <2>0 DEF Piping!Waitpid
    <2>4. CASE Piping!Exit
      BY <2>4, <2>0 DEF Piping!Exit
    <2>5. ASSUME NEW c \in Piping!Commands, Piping!Pipe(c) PROVE words'[b] = words[b]
      BY <2>5, <2>0 DEF Piping!Pipe, Piping!Goes, Piping!shellVars
    <2>6. ASSUME NEW c \in Piping!Commands, Piping!ForkRight(c) PROVE words'[b] = words[b]
      BY <2>6, <2>0 DEF Piping!ForkRight, Piping!Goes, Piping!shellVars
    <2>7. ASSUME NEW c \in Piping!Commands, Piping!LeftCloseRead(c) PROVE words'[b] = words[b]
      BY <2>7, <2>0 DEF Piping!LeftCloseRead, Piping!Closes, Piping!Goes, Piping!shellVars
    <2>8. ASSUME NEW c \in Piping!Commands, Piping!LeftDup(c) PROVE words'[b] = words[b]
      BY <2>8, <2>0 DEF Piping!LeftDup, Piping!Opens, Piping!Goes, Piping!shellVars
    <2>9. ASSUME NEW c \in Piping!Commands, Piping!LeftCloseWrite(c) PROVE words'[b] = words[b]
      BY <2>9, <2>0 DEF Piping!LeftCloseWrite, Piping!Closes, Piping!Goes, Piping!shellVars
    <2>10. ASSUME NEW c \in Piping!Commands, Piping!LeftExec(c) PROVE words'[b] = words[b]
      BY <2>10, <2>0 DEF Piping!LeftExec, Piping!Goes, Piping!shellVars
    <2>11. ASSUME NEW c \in Piping!Commands, Piping!LeftWrites(c) PROVE words'[b] = words[b]
      BY <2>11, <2>0 DEF Piping!LeftWrites, Piping!Leaves, Piping!Goes, Piping!shellVars
    <2>12. ASSUME NEW c \in Piping!Commands, Piping!LeftEnds(c) PROVE words'[b] = words[b]
      BY <2>12, <2>0 DEF Piping!LeftEnds, Piping!Leaves, Piping!Goes, Piping!shellVars
    <2>13. ASSUME NEW c \in Piping!Commands, Piping!LeftFails(c) PROVE words'[b] = words[b]
      BY <2>13, <2>0 DEF Piping!LeftFails, Piping!Leaves, Piping!Goes, Piping!shellVars
    <2>14. ASSUME NEW c \in Piping!Commands, Piping!RightCloseWrite(c) PROVE words'[b] = words[b]
      BY <2>14, <2>0 DEF Piping!RightCloseWrite, Piping!Closes, Piping!Goes, Piping!shellVars
    <2>15. ASSUME NEW c \in Piping!Commands, Piping!RightDup(c) PROVE words'[b] = words[b]
      BY <2>15, <2>0 DEF Piping!RightDup, Piping!Opens, Piping!Goes, Piping!shellVars
    <2>16. ASSUME NEW c \in Piping!Commands, Piping!RightCloseRead(c) PROVE words'[b] = words[b]
      BY <2>16, <2>0 DEF Piping!RightCloseRead, Piping!Closes, Piping!Goes, Piping!shellVars
    <2>17. ASSUME NEW c \in Piping!Commands, Piping!RightExec(c) PROVE words'[b] = words[b]
      BY <2>17, <2>0 DEF Piping!RightExec, Piping!Leaves, Piping!Goes, Piping!shellVars
    <2>18. ASSUME NEW c \in Piping!Commands, Piping!RightReads(c) PROVE words'[b] = words[b]
      BY <2>18, <2>0 DEF Piping!RightReads, Piping!Leaves, Piping!Goes, Piping!shellVars
    <2>19. ASSUME NEW c \in Piping!Commands, Piping!RightAtEnd(c) PROVE words'[b] = words[b]
      BY <2>19, <2>0 DEF Piping!RightAtEnd, Piping!Leaves, Piping!Goes, Piping!shellVars
    <2>20. CASE UNCHANGED Piping!vars
      BY <2>20, <2>0 DEF Piping!vars, Piping!shellVars
    <2> QED BY <2>1, <2>2, <2>3, <2>4, <2>5, <2>6, <2>7, <2>8, <2>9, <2>10, <2>11, <2>12, <2>13,
        <2>14, <2>15, <2>16, <2>17, <2>18, <2>19, <2>20
       DEF Piping!Next, Piping!Shell, Piping!LeftSide, Piping!RightSide
  <1> QED BY <1>1 DEF Piping!Piped

LEMMA CourseStep ==
    ASSUME PipeInv, PipeTypes, NEW b \in Piping!Commands, [Piping!Next]_Piping!vars
    PROVE  CourseAt(b)'
  <1> USE DEF PipeTypes, CourseAt
  <1>0. /\ MaxCommands \in Nat /\ b \in Nat /\ commands \in Nat
        /\ CourseAt(b) /\ EndsAt(b) /\ QueueAt(b)
        /\ left[b] # "none" => (Piping!Piped(b)' <=> Piping!Piped(b))
    BY PipesAssumption, PipedStays DEF PipeInv, PipeTypes, Piping!Commands
  <1>1. CASE Piping!ReadLine
    BY <1>1, <1>0 DEF Piping!ReadLine
  <1>2. CASE Piping!ForkLeft
    <2>1. Piping!Piped(b)' <=> Piping!Piped(b)
      BY <1>2 DEF Piping!ForkLeft, Piping!Piped
    <2>2. CASE left' = [left EXCEPT ![commands] = "pipe"] /\ Piping!Piped(commands)
      BY <1>2, <1>0, <2>1, <2>2 DEF Piping!ForkLeft
    <2>3. CASE left' = [left EXCEPT ![commands] = "exec"] /\ ~Piping!Piped(commands)
      BY <1>2, <1>0, <2>1, <2>3 DEF Piping!ForkLeft
    <2> QED BY <1>2, <2>2, <2>3, Zenon DEF Piping!ForkLeft
  <1>3. CASE Piping!Waitpid
    BY <1>3, <1>0 DEF Piping!Waitpid
  <1>4. CASE Piping!Exit
    BY <1>4, <1>0 DEF Piping!Exit
  <1>5. ASSUME NEW c \in Piping!Commands, Piping!Pipe(c) PROVE CourseAt(b)'
    BY <1>5, <1>0 DEF Piping!Pipe, Piping!Goes, Piping!shellVars
  <1>6. ASSUME NEW c \in Piping!Commands, Piping!ForkRight(c) PROVE CourseAt(b)'
    BY <1>6, <1>0 DEF Piping!ForkRight, Piping!Goes, Piping!shellVars
  <1>7. ASSUME NEW c \in Piping!Commands, Piping!LeftCloseRead(c) PROVE CourseAt(b)'
    BY <1>7, <1>0 DEF Piping!LeftCloseRead, Piping!Closes, Piping!Goes, Piping!shellVars
  <1>8. ASSUME NEW c \in Piping!Commands, Piping!LeftDup(c) PROVE CourseAt(b)'
    BY <1>8, <1>0 DEF Piping!LeftDup, Piping!Opens, Piping!Goes, Piping!shellVars
  <1>9. ASSUME NEW c \in Piping!Commands, Piping!LeftCloseWrite(c) PROVE CourseAt(b)'
    BY <1>9, <1>0 DEF Piping!LeftCloseWrite, Piping!Closes, Piping!Goes, Piping!shellVars
  <1>10. ASSUME NEW c \in Piping!Commands, Piping!LeftExec(c) PROVE CourseAt(b)'
    BY <1>10, <1>0 DEF Piping!LeftExec, Piping!Goes, Piping!shellVars
  <1>11. ASSUME NEW c \in Piping!Commands, Piping!LeftWrites(c) PROVE CourseAt(b)'
    <2>0. /\ left[c] \in {"run", "complain"} /\ wrote[c] < 2 /\ wrote[c] + 1 \in 0..2
          /\ UNCHANGED <<shell, commands, odd, words, right, got>>
          /\ pipe[c] \in Seq(Nat) /\ Len(pipe[c]) \in Nat
      BY <1>11 DEF Piping!LeftWrites, Piping!ToWrite, Piping!Output, Piping!shellVars, PipeTypes,
         Piping!Commands
    <2>1. CASE /\ ~Piping!Piped(c) \/ <<"left", "stdout">> \notin fds[c]
               /\ UNCHANGED <<left, fds, pipe>> /\ wrote' = [wrote EXCEPT ![c] = @ + 1]
      BY <2>0, <2>1, <1>0
    <2>2. CASE /\ left' = [left EXCEPT ![c] = "ended"]
               /\ fds' = [fds EXCEPT ![c] = {d \in @ : d[1] # "left"}]
               /\ UNCHANGED <<pipe, wrote>>
      BY <2>0, <2>2, <1>0
    <2>3. CASE /\ Piping!Piped(c) /\ Len(pipe[c]) < Capacity
               /\ wrote' = [wrote EXCEPT ![c] = @ + 1]
               /\ pipe' = [pipe EXCEPT ![c] = Append(@, wrote'[c])]
               /\ UNCHANGED <<left, fds>>
      BY <2>0, <2>3, <1>0
    <2> QED
      <3>1. Piping!Has(c, "left", "stdout") <=> <<"left", "stdout">> \in fds[c]
        BY DEF Piping!Has
      <3> QED BY <1>11, <2>1, <2>2, <2>3, <3>1, Zenon DEF Piping!LeftWrites, Piping!Leaves
  <1>12. ASSUME NEW c \in Piping!Commands, Piping!LeftEnds(c) PROVE CourseAt(b)'
    BY <1>12, <1>0 DEF Piping!LeftEnds, Piping!Leaves, Piping!Goes, Piping!shellVars
  <1>13. ASSUME NEW c \in Piping!Commands, Piping!LeftFails(c) PROVE CourseAt(b)'
    BY <1>13, <1>0 DEF Piping!LeftFails, Piping!Leaves, Piping!Goes, Piping!shellVars
  <1>14. ASSUME NEW c \in Piping!Commands, Piping!RightCloseWrite(c) PROVE CourseAt(b)'
    BY <1>14, <1>0 DEF Piping!RightCloseWrite, Piping!Closes, Piping!Goes, Piping!shellVars
  <1>15. ASSUME NEW c \in Piping!Commands, Piping!RightDup(c) PROVE CourseAt(b)'
    BY <1>15, <1>0 DEF Piping!RightDup, Piping!Opens, Piping!Goes, Piping!shellVars
  <1>16. ASSUME NEW c \in Piping!Commands, Piping!RightCloseRead(c) PROVE CourseAt(b)'
    BY <1>16, <1>0 DEF Piping!RightCloseRead, Piping!Closes, Piping!Goes, Piping!shellVars
  <1>17. ASSUME NEW c \in Piping!Commands, Piping!RightExec(c) PROVE CourseAt(b)'
    <2>0. right[c] \in {"dup", "exec"} /\ UNCHANGED <<shell, commands, odd, words, left, pipe,
        wrote, got>>
      BY <1>17 DEF Piping!RightExec, Piping!shellVars
    <2>1. CASE right' = [right EXCEPT ![c] = "run"] /\ UNCHANGED fds
      BY <2>0, <2>1, <1>0
    <2>2. CASE /\ right' = [right EXCEPT ![c] = "ended"]
               /\ fds' = [fds EXCEPT ![c] = {d \in @ : d[1] # "right"}]
      BY <2>0, <2>2, <1>0
    <2> QED BY <1>17, <2>1, <2>2, Zenon DEF Piping!RightExec, Piping!Leaves
  <1>18. ASSUME NEW c \in Piping!Commands, Piping!RightReads(c) PROVE CourseAt(b)'
    <2>0. /\ right[c] = "run" /\ pipe[c] # <<>> /\ pipe[c] \in Seq(Nat)
          /\ Head(pipe[c]) \in Nat /\ Tail(pipe[c]) \in Seq(Nat)
          /\ got' = [got EXCEPT ![c] = Head(pipe[c])] /\ pipe' = [pipe EXCEPT ![c] = Tail(@)]
          /\ UNCHANGED <<shell, commands, odd, words, left, wrote>>
      BY <1>18, HeadTailProperties DEF Piping!RightReads, Piping!shellVars, PipeTypes
    <2>a. Head(pipe[c]) \in Nat
      BY <2>0
    <2>1. CASE UNCHANGED <<right, fds>>
      BY <2>0, <2>a, <2>1, <1>0
    <2>2. CASE /\ right' = [right EXCEPT ![c] = "ended"]
               /\ fds' = [fds EXCEPT ![c] = {d \in @ : d[1] # "right"}]
      BY <2>0, <2>a, <2>2, <1>0
    <2> QED BY <1>18, <2>1, <2>2, Zenon DEF Piping!RightReads, Piping!Leaves
  <1>19. ASSUME NEW c \in Piping!Commands, Piping!RightAtEnd(c) PROVE CourseAt(b)'
    BY <1>19, <1>0 DEF Piping!RightAtEnd, Piping!Leaves, Piping!Goes, Piping!shellVars
  <1>20. CASE UNCHANGED Piping!vars
    BY <1>20, <1>0 DEF Piping!vars, Piping!shellVars
  <1> QED BY <1>1, <1>2, <1>3, <1>4, <1>5, <1>6, <1>7, <1>8, <1>9, <1>10, <1>11, <1>12, <1>13,
      <1>14, <1>15, <1>16, <1>17, <1>18, <1>19, <1>20
     DEF Piping!Next, Piping!Shell, Piping!LeftSide, Piping!RightSide

LEMMA EndsStep ==
    ASSUME PipeInv, PipeTypes, NEW b \in Piping!Commands, [Piping!Next]_Piping!vars
    PROVE  EndsAt(b)'
  <1> USE DEF PipeTypes, CourseAt, EndsAt
  <1>0. /\ MaxCommands \in Nat /\ b \in Nat /\ commands \in Nat
        /\ CourseAt(b) /\ EndsAt(b) /\ QueueAt(b)
        /\ left[b] # "none" => (Piping!Piped(b)' <=> Piping!Piped(b))
    BY PipesAssumption, PipedStays DEF PipeInv, PipeTypes, Piping!Commands
  <1>1. CASE Piping!ReadLine
    BY <1>1, <1>0 DEF Piping!ReadLine
  <1>2. CASE Piping!ForkLeft
    <2>1. Piping!Piped(b)' <=> Piping!Piped(b)
      BY <1>2 DEF Piping!ForkLeft, Piping!Piped
    <2>2. CASE left' = [left EXCEPT ![commands] = "pipe"] /\ Piping!Piped(commands)
      BY <1>2, <1>0, <2>1, <2>2 DEF Piping!ForkLeft
    <2>3. CASE left' = [left EXCEPT ![commands] = "exec"] /\ ~Piping!Piped(commands)
      BY <1>2, <1>0, <2>1, <2>3 DEF Piping!ForkLeft
    <2> QED BY <1>2, <2>2, <2>3, Zenon DEF Piping!ForkLeft
  <1>3. CASE Piping!Waitpid
    BY <1>3, <1>0 DEF Piping!Waitpid
  <1>4. CASE Piping!Exit
    BY <1>4, <1>0 DEF Piping!Exit
  <1>5. ASSUME NEW c \in Piping!Commands, Piping!Pipe(c) PROVE EndsAt(b)'
    BY <1>5, <1>0 DEF Piping!Pipe, Piping!Goes, Piping!shellVars
  <1>6. ASSUME NEW c \in Piping!Commands, Piping!ForkRight(c) PROVE EndsAt(b)'
    BY <1>6, <1>0 DEF Piping!ForkRight, Piping!Goes, Piping!shellVars
  <1>7. ASSUME NEW c \in Piping!Commands, Piping!LeftCloseRead(c) PROVE EndsAt(b)'
    BY <1>7, <1>0 DEF Piping!LeftCloseRead, Piping!Closes, Piping!Goes, Piping!shellVars
  <1>8. ASSUME NEW c \in Piping!Commands, Piping!LeftDup(c) PROVE EndsAt(b)'
    BY <1>8, <1>0 DEF Piping!LeftDup, Piping!Opens, Piping!Goes, Piping!shellVars
  <1>9. ASSUME NEW c \in Piping!Commands, Piping!LeftCloseWrite(c) PROVE EndsAt(b)'
    BY <1>9, <1>0 DEF Piping!LeftCloseWrite, Piping!Closes, Piping!Goes, Piping!shellVars
  <1>10. ASSUME NEW c \in Piping!Commands, Piping!LeftExec(c) PROVE EndsAt(b)'
    BY <1>10, <1>0 DEF Piping!LeftExec, Piping!Goes, Piping!shellVars
  <1>11. ASSUME NEW c \in Piping!Commands, Piping!LeftWrites(c) PROVE EndsAt(b)'
    <2>0. /\ left[c] \in {"run", "complain"} /\ wrote[c] < 2 /\ wrote[c] + 1 \in 0..2
          /\ UNCHANGED <<shell, commands, odd, words, right, got>>
          /\ pipe[c] \in Seq(Nat) /\ Len(pipe[c]) \in Nat
      BY <1>11 DEF Piping!LeftWrites, Piping!ToWrite, Piping!Output, Piping!shellVars, PipeTypes,
         Piping!Commands
    <2>1. CASE /\ ~Piping!Piped(c) \/ <<"left", "stdout">> \notin fds[c]
               /\ UNCHANGED <<left, fds, pipe>> /\ wrote' = [wrote EXCEPT ![c] = @ + 1]
      BY <2>0, <2>1, <1>0
    <2>2. CASE /\ left' = [left EXCEPT ![c] = "ended"]
               /\ fds' = [fds EXCEPT ![c] = {d \in @ : d[1] # "left"}]
               /\ UNCHANGED <<pipe, wrote>>
      BY <2>0, <2>2, <1>0
    <2>3. CASE /\ Piping!Piped(c) /\ Len(pipe[c]) < Capacity
               /\ wrote' = [wrote EXCEPT ![c] = @ + 1]
               /\ pipe' = [pipe EXCEPT ![c] = Append(@, wrote'[c])]
               /\ UNCHANGED <<left, fds>>
      BY <2>0, <2>3, <1>0
    <2> QED
      <3>1. Piping!Has(c, "left", "stdout") <=> <<"left", "stdout">> \in fds[c]
        BY DEF Piping!Has
      <3> QED BY <1>11, <2>1, <2>2, <2>3, <3>1, Zenon DEF Piping!LeftWrites, Piping!Leaves
  <1>12. ASSUME NEW c \in Piping!Commands, Piping!LeftEnds(c) PROVE EndsAt(b)'
    BY <1>12, <1>0 DEF Piping!LeftEnds, Piping!Leaves, Piping!Goes, Piping!shellVars
  <1>13. ASSUME NEW c \in Piping!Commands, Piping!LeftFails(c) PROVE EndsAt(b)'
    BY <1>13, <1>0 DEF Piping!LeftFails, Piping!Leaves, Piping!Goes, Piping!shellVars
  <1>14. ASSUME NEW c \in Piping!Commands, Piping!RightCloseWrite(c) PROVE EndsAt(b)'
    BY <1>14, <1>0 DEF Piping!RightCloseWrite, Piping!Closes, Piping!Goes, Piping!shellVars
  <1>15. ASSUME NEW c \in Piping!Commands, Piping!RightDup(c) PROVE EndsAt(b)'
    BY <1>15, <1>0 DEF Piping!RightDup, Piping!Opens, Piping!Goes, Piping!shellVars
  <1>16. ASSUME NEW c \in Piping!Commands, Piping!RightCloseRead(c) PROVE EndsAt(b)'
    BY <1>16, <1>0 DEF Piping!RightCloseRead, Piping!Closes, Piping!Goes, Piping!shellVars
  <1>17. ASSUME NEW c \in Piping!Commands, Piping!RightExec(c) PROVE EndsAt(b)'
    <2>0. right[c] \in {"dup", "exec"} /\ UNCHANGED <<shell, commands, odd, words, left, pipe,
        wrote, got>>
      BY <1>17 DEF Piping!RightExec, Piping!shellVars
    <2>1. CASE right' = [right EXCEPT ![c] = "run"] /\ UNCHANGED fds
      BY <2>0, <2>1, <1>0
    <2>2. CASE /\ right' = [right EXCEPT ![c] = "ended"]
               /\ fds' = [fds EXCEPT ![c] = {d \in @ : d[1] # "right"}]
      BY <2>0, <2>2, <1>0
    <2> QED BY <1>17, <2>1, <2>2, Zenon DEF Piping!RightExec, Piping!Leaves
  <1>18. ASSUME NEW c \in Piping!Commands, Piping!RightReads(c) PROVE EndsAt(b)'
    <2>0. /\ right[c] = "run" /\ pipe[c] # <<>> /\ pipe[c] \in Seq(Nat)
          /\ Head(pipe[c]) \in Nat /\ Tail(pipe[c]) \in Seq(Nat)
          /\ got' = [got EXCEPT ![c] = Head(pipe[c])] /\ pipe' = [pipe EXCEPT ![c] = Tail(@)]
          /\ UNCHANGED <<shell, commands, odd, words, left, wrote>>
      BY <1>18, HeadTailProperties DEF Piping!RightReads, Piping!shellVars, PipeTypes
    <2>a. Head(pipe[c]) \in Nat
      BY <2>0
    <2>1. CASE UNCHANGED <<right, fds>>
      BY <2>0, <2>a, <2>1, <1>0
    <2>2. CASE /\ right' = [right EXCEPT ![c] = "ended"]
               /\ fds' = [fds EXCEPT ![c] = {d \in @ : d[1] # "right"}]
      BY <2>0, <2>a, <2>2, <1>0
    <2> QED BY <1>18, <2>1, <2>2, Zenon DEF Piping!RightReads, Piping!Leaves
  <1>19. ASSUME NEW c \in Piping!Commands, Piping!RightAtEnd(c) PROVE EndsAt(b)'
    BY <1>19, <1>0 DEF Piping!RightAtEnd, Piping!Leaves, Piping!Goes, Piping!shellVars
  <1>20. CASE UNCHANGED Piping!vars
    BY <1>20, <1>0 DEF Piping!vars, Piping!shellVars
  <1> QED BY <1>1, <1>2, <1>3, <1>4, <1>5, <1>6, <1>7, <1>8, <1>9, <1>10, <1>11, <1>12, <1>13,
      <1>14, <1>15, <1>16, <1>17, <1>18, <1>19, <1>20
     DEF Piping!Next, Piping!Shell, Piping!LeftSide, Piping!RightSide

LEMMA QueueStep ==
    ASSUME PipeInv, PipeTypes, NEW b \in Piping!Commands, [Piping!Next]_Piping!vars
    PROVE  QueueAt(b)'
  <1> USE DEF PipeTypes, CourseAt, EndsAt, QueueAt
  <1>z. CourseAt(b) /\ EndsAt(b) /\ QueueAt(b)
    BY DEF PipeInv
  <1>y. left[b] # "none" => (Piping!Piped(b)' <=> Piping!Piped(b))
    <2>1. PipeTypes
      OBVIOUS
    <2> QED BY <1>z, <2>1, PipedStays, Zenon
  <1>0. /\ MaxCommands \in Nat /\ b \in Nat /\ commands \in Nat
        /\ CourseAt(b) /\ EndsAt(b) /\ QueueAt(b)
        /\ left[b] # "none" => (Piping!Piped(b)' <=> Piping!Piped(b))
        /\ pipe[b] \in Seq(Nat) /\ Len(pipe[b]) \in Nat /\ got[b] \in Nat /\ wrote[b] \in 0..2
    <2>1. MaxCommands \in Nat /\ b \in Nat /\ commands \in Nat
      BY PipesAssumption DEF Piping!Commands
    <2>2. pipe[b] \in Seq(Nat) /\ got[b] \in Nat /\ wrote[b] \in 0..2
      OBVIOUS
    <2>3. Len(pipe[b]) \in Nat
      BY <2>2, LenProperties
    <2> QED BY <1>z, <1>y, <2>1, <2>2, <2>3, Zenon
  <1>a. left[b] = "none" => wrote[b] = 0 /\ got[b] = 0 /\ pipe[b] = <<>>
    <2>1. left[b] = "none" => wrote[b] = 0 /\ got[b] = 0 /\ right[b] = "none"
      BY <1>0
    <2>2. left[b] = "none" => Len(pipe[b]) = 0 \/ pipe[b] = <<>>
      BY <1>0, <2>1
    <2> QED BY <1>0, <2>1, <2>2, EmptySeq
  <1>1. CASE Piping!ReadLine
    <2>1. UNCHANGED <<left, right, fds, pipe, wrote, got>>
      BY <1>1 DEF Piping!ReadLine
    <2>2. CASE left[b] = "none"
      <3>1. right[b] = "none" /\ Len(<<>>) = 0
        BY <1>0, <2>2, EmptySeq
      <3> QED BY <1>0, <1>a, <2>1, <2>2, <3>1
    <2>3. CASE left[b] # "none"
      BY <1>0, <2>1, <2>3
    <2> QED BY <2>2, <2>3
  <1>2. CASE Piping!ForkLeft
    <2>1. words' = words /\ (Piping!Piped(b)' <=> Piping!Piped(b))
      BY <1>2 DEF Piping!ForkLeft, Piping!Piped, Piping!shellVars
    <2> QED BY <1>2, <1>0, <2>1 DEF Piping!ForkLeft
  <1>3. CASE Piping!Waitpid
    BY <1>3, <1>0, <1>a DEF Piping!Waitpid
  <1>4. CASE Piping!Exit
    BY <1>4, <1>0, <1>a DEF Piping!Exit
  <1>5. ASSUME NEW c \in Piping!Commands, Piping!Pipe(c) PROVE QueueAt(b)'
    BY <1>5, <1>0, <1>a DEF Piping!Pipe, Piping!Goes, Piping!shellVars
  <1>6. ASSUME NEW c \in Piping!Commands, Piping!ForkRight(c) PROVE QueueAt(b)'
    BY <1>6, <1>0, <1>a DEF Piping!ForkRight, Piping!Goes, Piping!shellVars
  <1>7. ASSUME NEW c \in Piping!Commands, Piping!LeftCloseRead(c) PROVE QueueAt(b)'
    BY <1>7, <1>0, <1>a DEF Piping!LeftCloseRead, Piping!Closes, Piping!Goes, Piping!shellVars
  <1>8. ASSUME NEW c \in Piping!Commands, Piping!LeftDup(c) PROVE QueueAt(b)'
    BY <1>8, <1>0, <1>a DEF Piping!LeftDup, Piping!Opens, Piping!Goes, Piping!shellVars
  <1>9. ASSUME NEW c \in Piping!Commands, Piping!LeftCloseWrite(c) PROVE QueueAt(b)'
    BY <1>9, <1>0, <1>a DEF Piping!LeftCloseWrite, Piping!Closes, Piping!Goes, Piping!shellVars
  <1>10. ASSUME NEW c \in Piping!Commands, Piping!LeftExec(c) PROVE QueueAt(b)'
    BY <1>10, <1>0, <1>a DEF Piping!LeftExec, Piping!Goes, Piping!shellVars
  <1>11. ASSUME NEW c \in Piping!Commands, Piping!LeftWrites(c) PROVE QueueAt(b)'
    <2>0. /\ left[c] \in {"run", "complain"} /\ wrote[c] < 2 /\ wrote[c] + 1 \in 0..2
          /\ UNCHANGED <<shell, commands, odd, words, right, got>>
          /\ pipe[c] \in Seq(Nat) /\ Len(pipe[c]) \in Nat
      BY <1>11 DEF Piping!LeftWrites, Piping!ToWrite, Piping!Output, Piping!shellVars, PipeTypes,
         Piping!Commands
    <2>1. CASE /\ ~Piping!Piped(c) \/ <<"left", "stdout">> \notin fds[c]
               /\ UNCHANGED <<left, fds, pipe>> /\ wrote' = [wrote EXCEPT ![c] = @ + 1]
      <3>1. c = b => ~Piping!Piped(b)
        BY <1>0, <2>0, <2>1
      <3> QED BY <2>0, <2>1, <3>1, <1>0
    <2>2. CASE /\ left' = [left EXCEPT ![c] = "ended"]
               /\ fds' = [fds EXCEPT ![c] = {d \in @ : d[1] # "left"}]
               /\ UNCHANGED <<pipe, wrote>>
      BY <2>0, <2>2, <1>0
    <2>3. CASE /\ Piping!Piped(c) /\ Len(pipe[c]) < Capacity
               /\ wrote' = [wrote EXCEPT ![c] = @ + 1]
               /\ pipe' = [pipe EXCEPT ![c] = Append(@, wrote'[c])]
               /\ UNCHANGED <<left, fds>>
      <3>0. wrote' = [wrote EXCEPT ![c] = wrote[c] + 1] /\ wrote'[c] = wrote[c] + 1
        BY <2>0, <2>3
      <3>1. /\ \A d \in Piping!Commands : d # c => pipe'[d] = pipe[d] /\ wrote'[d] = wrote[d]
            /\ pipe'[c] = Append(pipe[c], wrote[c] + 1)
        BY <2>0, <2>3, <3>0
      <3>2. CASE b = c
        <4>1. /\ Len(pipe'[b]) = Len(pipe[b]) + 1
              /\ \A a \in 1..Len(pipe[b]) : pipe'[b][a] = pipe[b][a]
              /\ pipe'[b][Len(pipe[b]) + 1] = wrote[b] + 1
          BY <1>0, <2>0, <3>1, <3>2, AppendProperties
        <4>2. right[b] # "atEnd"
          BY <1>0, <2>0, <3>2
        <4>3. got'[b] = got[b] /\ right'[b] = right[b] /\ wrote'[b] = wrote[b] + 1
          BY <2>0, <3>0, <3>2
        <4>4. Piping!Piped(b) /\ Piping!Piped(b)'
          BY <2>0, <2>3, <3>2, <1>0
        <4>5. Len(pipe'[b]) = wrote'[b] - got'[b] /\ Len(pipe'[b]) <= Capacity
          BY <1>0, <2>3, <3>2, <4>1, <4>3, <4>4, PipesAssumption
        <4>6. \A a \in 1..Len(pipe'[b]) : pipe'[b][a] = got'[b] + a
          <5> SUFFICES ASSUME NEW a \in 1..Len(pipe'[b]) PROVE pipe'[b][a] = got'[b] + a
            OBVIOUS
          <5>1. CASE a \in 1..Len(pipe[b])
            BY <1>0, <4>1, <4>3, <4>4, <5>1
          <5>2. CASE a = Len(pipe[b]) + 1
            <6>1. pipe'[b][a] = wrote[b] + 1
              BY <4>1, <5>2, Zenon
            <6>2. wrote[b] + 1 = got[b] + a
              <7>1. Len(pipe[b]) = wrote[b] - got[b] /\ wrote[b] \in Nat /\ got[b] \in Nat
                BY <1>0, <4>4
              <7> QED BY <5>2, <7>1
            <6> QED BY <4>3, <6>1, <6>2
          <5> QED BY <1>0, <4>1, <5>1, <5>2
        <4> QED BY <1>0, <4>2, <4>3, <4>4, <4>5, <4>6
      <3>3. CASE b # c
        BY <1>0, <2>0, <2>3, <3>1, <3>3
      <3> QED BY <3>2, <3>3
    <2> QED
      <3>1. Piping!Has(c, "left", "stdout") <=> <<"left", "stdout">> \in fds[c]
        BY DEF Piping!Has
      <3> QED BY <1>11, <2>1, <2>2, <2>3, <3>1, Zenon DEF Piping!LeftWrites, Piping!Leaves
  <1>12. ASSUME NEW c \in Piping!Commands, Piping!LeftEnds(c) PROVE QueueAt(b)'
    BY <1>12, <1>0, <1>a DEF Piping!LeftEnds, Piping!Leaves, Piping!Goes, Piping!shellVars
  <1>13. ASSUME NEW c \in Piping!Commands, Piping!LeftFails(c) PROVE QueueAt(b)'
    BY <1>13, <1>0, <1>a DEF Piping!LeftFails, Piping!Leaves, Piping!Goes, Piping!shellVars
  <1>14. ASSUME NEW c \in Piping!Commands, Piping!RightCloseWrite(c) PROVE QueueAt(b)'
    BY <1>14, <1>0, <1>a DEF Piping!RightCloseWrite, Piping!Closes, Piping!Goes, Piping!shellVars
  <1>15. ASSUME NEW c \in Piping!Commands, Piping!RightDup(c) PROVE QueueAt(b)'
    BY <1>15, <1>0, <1>a DEF Piping!RightDup, Piping!Opens, Piping!Goes, Piping!shellVars
  <1>16. ASSUME NEW c \in Piping!Commands, Piping!RightCloseRead(c) PROVE QueueAt(b)'
    BY <1>16, <1>0, <1>a DEF Piping!RightCloseRead, Piping!Closes, Piping!Goes, Piping!shellVars
  <1>17. ASSUME NEW c \in Piping!Commands, Piping!RightExec(c) PROVE QueueAt(b)'
    <2>0. right[c] \in {"dup", "exec"} /\ UNCHANGED <<shell, commands, odd, words, left, pipe,
        wrote, got>>
      BY <1>17 DEF Piping!RightExec, Piping!shellVars
    <2>1. CASE right' = [right EXCEPT ![c] = "run"] /\ UNCHANGED fds
      BY <2>0, <2>1, <1>0, <1>a
    <2>2. CASE /\ right' = [right EXCEPT ![c] = "ended"]
               /\ fds' = [fds EXCEPT ![c] = {d \in @ : d[1] # "right"}]
      BY <2>0, <2>2, <1>0, <1>a
    <2> QED BY <1>17, <2>1, <2>2, Zenon DEF Piping!RightExec, Piping!Leaves
  <1>18. ASSUME NEW c \in Piping!Commands, Piping!RightReads(c) PROVE QueueAt(b)'
    <2>0. /\ right[c] = "run" /\ pipe[c] # <<>> /\ pipe[c] \in Seq(Nat)
          /\ Head(pipe[c]) \in Nat /\ Tail(pipe[c]) \in Seq(Nat)
          /\ got' = [got EXCEPT ![c] = Head(pipe[c])] /\ pipe' = [pipe EXCEPT ![c] = Tail(@)]
          /\ UNCHANGED <<shell, commands, odd, words, left, wrote>>
      BY <1>18, HeadTailProperties DEF Piping!RightReads, Piping!shellVars, PipeTypes
    <2>a. /\ Len(Tail(pipe[c])) = Len(pipe[c]) - 1 /\ Len(pipe[c]) > 0
          /\ \A a \in 1..Len(Tail(pipe[c])) : Tail(pipe[c])[a] = pipe[c][a + 1]
          /\ Head(pipe[c]) = pipe[c][1]
      BY <2>0, HeadTailProperties
    <2>b. /\ \A d \in Piping!Commands : d # c => pipe'[d] = pipe[d] /\ got'[d] = got[d]
          /\ pipe'[c] = Tail(pipe[c]) /\ got'[c] = Head(pipe[c])
      BY <2>0
    <2>c. QueueAt(b)' \/ right'[b] = "atEnd"
      <3>1. CASE b = c
        <4>1. Piping!Piped(b) /\ Piping!Piped(b)' /\ wrote'[b] = wrote[b]
          BY <1>0, <2>0, <3>1
        <4>2. got'[b] = got[b] + 1
          BY <1>0, <2>a, <2>b, <3>1, <4>1
        <4>3. Len(pipe'[b]) = wrote'[b] - got'[b] /\ Len(pipe'[b]) <= Capacity
          <5>1. Len(pipe'[b]) = Len(pipe[b]) - 1
            BY <2>a, <2>b, <3>1
          <5>2. /\ Len(pipe[b]) = wrote[b] - got[b] /\ Len(pipe[b]) <= Capacity
                /\ wrote[b] \in Nat /\ got[b] \in Nat
            BY <1>0, <4>1
          <5> QED BY <4>1, <4>2, <5>1, <5>2, PipesAssumption
        <4>4. \A a \in 1..Len(pipe'[b]) : pipe'[b][a] = got'[b] + a
          <5> SUFFICES ASSUME NEW a \in 1..Len(pipe'[b]) PROVE pipe'[b][a] = got'[b] + a
            OBVIOUS
          <5>1. pipe'[b][a] = pipe[b][a + 1]
            BY <2>a, <2>b, <3>1
          <5>2. a + 1 \in 1..Len(pipe[b]) /\ a \in Nat
            BY <1>0, <2>a, <2>b, <3>1
          <5>3. pipe[b][a + 1] = got[b] + (a + 1)
            BY <1>0, <4>1, <5>2
          <5> QED BY <1>0, <4>2, <5>1, <5>2, <5>3
        <4>5. Len(pipe'[b]) \in Nat
          BY <1>0, <2>a, <2>b, <3>1
        <4> QED BY <1>0, <4>1, <4>2, <4>3, <4>4, <4>5
      <3>2. CASE b # c
        BY <1>0, <2>0, <2>b, <3>2
      <3> QED BY <3>1, <3>2
    <2>d. b = c => right[b] = "run"
      BY <2>0
    <2>1. CASE UNCHANGED <<right, fds>>
      BY <2>0, <2>b, <2>c, <2>d, <2>1, <1>0
    <2>2. CASE /\ right' = [right EXCEPT ![c] = "ended"]
               /\ fds' = [fds EXCEPT ![c] = {d \in @ : d[1] # "right"}]
      BY <2>0, <2>b, <2>c, <2>d, <2>2, <1>0
    <2> QED BY <1>18, <2>1, <2>2, Zenon DEF Piping!RightReads, Piping!Leaves
  <1>19. ASSUME NEW c \in Piping!Commands, Piping!RightAtEnd(c) PROVE QueueAt(b)'
    <2>1. /\ right[c] = "run" /\ right' = [right EXCEPT ![c] = "atEnd"] /\ pipe[c] = <<>>
          /\ UNCHANGED <<shell, commands, odd, words, left, pipe, wrote, got>>
      BY <1>19 DEF Piping!RightAtEnd, Piping!Goes, Piping!shellVars
    <2>2. CASE b = c
      <3>1. Piping!Piped(b) /\ Piping!Piped(b)'
        BY <1>0, <2>1, <2>2 DEF Piping!Piped
      <3>2. <<"left", "pfd1">> \notin fds[b] /\ <<"left", "stdout">> \notin fds[b]
        BY <1>19, <2>2 DEF Piping!RightAtEnd, Piping!Writers
      <3>3. left[b] = "ended"
        BY <1>0, <2>1, <2>2, <3>1, <3>2
      <3>4. got[b] = wrote[b]
        <4>1. Len(pipe[b]) = 0
          BY <2>1, <2>2, EmptySeq
        <4> QED BY <1>0, <3>1, <4>1
      <3> QED BY <1>0, <2>1, <2>2, <3>1, <3>3, <3>4
    <2>3. CASE b # c
      BY <1>0, <2>1, <2>3
    <2> QED BY <2>2, <2>3
  <1>20. CASE UNCHANGED Piping!vars
    BY <1>20, <1>0, <1>a DEF Piping!vars, Piping!shellVars
  <1> QED BY <1>1, <1>2, <1>3, <1>4, <1>5, <1>6, <1>7, <1>8, <1>9, <1>10, <1>11, <1>12, <1>13,
      <1>14, <1>15, <1>16, <1>17, <1>18, <1>19, <1>20
     DEF Piping!Next, Piping!Shell, Piping!LeftSide, Piping!RightSide

LEMMA PipeInit == Piping!Init => PipeInv
  <1> SUFFICES ASSUME Piping!Init PROVE PipeInv
    OBVIOUS
  <1>1. PipeTypes
    <2>1. <<>> \in Seq(Nat)
      BY EmptySeq
    <2> QED BY <2>1, PipesAssumption DEF Piping!Init, PipeTypes, Piping!Commands
  <1>2. ASSUME NEW b \in Piping!Commands PROVE CourseAt(b) /\ EndsAt(b) /\ QueueAt(b)
    <2>1. /\ left[b] = "none" /\ right[b] = "none" /\ pipe[b] = <<>>
          /\ wrote[b] = 0 /\ got[b] = 0 /\ Len(pipe[b]) = 0
      BY EmptySeq DEF Piping!Init
    <2> QED BY <2>1, PipesAssumption DEF CourseAt, EndsAt, QueueAt
  <1> QED BY <1>1, <1>2 DEF PipeInv

LEMMA PipeStep == PipeInv /\ [Piping!Next]_Piping!vars => PipeInv'
  <1> SUFFICES ASSUME PipeInv, [Piping!Next]_Piping!vars PROVE PipeInv'
    OBVIOUS
  <1>1. PipeTypes /\ Piping!Commands' = Piping!Commands
    BY DEF PipeInv, Piping!Commands
  <1>2. ASSUME NEW b \in Piping!Commands PROVE CourseAt(b)' /\ EndsAt(b)' /\ QueueAt(b)'
    BY <1>1, CourseStep, EndsStep, QueueStep
  <1> QED BY <1>1, <1>2, PipeTypesStep DEF PipeInv

LEMMA GetsAllOfInv == PipeInv => Piping!RightGetsAll
  BY DEF PipeInv, QueueAt, Piping!RightGetsAll

-----------------------------------------------------------------------------
(* LineEditor *)

Items == Runs \cup {FirstText[l] : l \in DOMAIN FirstText}

\* A run that is to read or append has a file open, and one that is to write temp.txt too.
EditTypes ==
    /\ directory \in [Editing!Names -> Inodes \cup {0}]
    /\ content \in [Inodes -> Seq(Items)]
    /\ call \in [Runs -> {"open", "append", "openTemp", "read", "closeTemp", "unlink", "rename",
                          "ended"}]
    /\ mode \in [Runs -> {"append", "delete", "insert"}]
    /\ name \in [Runs -> Files] /\ n \in [Runs -> Int]
    /\ source \in [Runs -> Inodes \cup {0}] /\ target \in [Runs -> Inodes \cup {0}]
    /\ text \in [Runs -> Seq(Items)] /\ wanted \in [Files -> Seq(Items)]
    /\ spoilt \in BOOLEAN
    /\ \A r \in Runs : call[r] \in {"append", "openTemp", "read"} => source[r] # 0
    /\ \A r \in Runs : call[r] \in {"read", "closeTemp"} => target[r] # 0

There(a) == directory[a] # 0
TextOf(a) == content[directory[a]]

\* A file has one name, and runs that are there together are not in each other's way.
ApartAt(a, b) == a # b /\ There(a) => directory[a] # directory[b]
PairAt(r, q) ==
    r # q /\ Editing!Active(r) /\ Editing!Active(q) /\ Editing!Edits(r) =>
        ~Editing!Edits(q) /\ name[q] # name[r]

\* What a run has open, and what it has made of temp.txt.
RunAt(r) ==
    /\ call[r] = "append" => ~Editing!Edits(r)
    /\ call[r] \in {"openTemp", "read", "closeTemp", "unlink", "rename"} => Editing!Edits(r)
    /\ call[r] \in {"append", "openTemp", "read", "closeTemp", "unlink"} =>
         There(name[r]) /\ source[r] = directory[name[r]]
    /\ call[r] \in {"read", "closeTemp", "unlink", "rename"} =>
         /\ There("temp.txt") /\ target[r] = directory["temp.txt"]
         /\ \A f \in Files : f # name[r] => There(f)
    /\ call[r] \in {"read", "closeTemp"} => TextOf("temp.txt") = <<>>
    /\ call[r] = "closeTemp" => text[r] = TextOf(name[r])
    /\ call[r] = "unlink" => TextOf("temp.txt") = Editing!After(r, wanted[name[r]])
    /\ call[r] = "rename" => ~There(name[r])

\* A file holds what it should, or temp.txt does, and then it is the only one.
FileAt(f) ==
    /\ There(f) => TextOf(f) = wanted[f]
    /\ ~There(f) => /\ There("temp.txt") /\ TextOf("temp.txt") = wanted[f]
                    /\ \A g \in Files : g # f => There(g)

Neat ==
    /\ \A a, b \in Editing!Names : ApartAt(a, b)
    /\ \A r, q \in Runs : PairAt(r, q)
    /\ \A r \in Runs : RunAt(r)
    /\ \A f \in Files : FileAt(f)

EditInv == EditTypes /\ (~spoilt => Neat)

LEMMA AtNext ==
    ASSUME NEW t, NEW a \in Nat, NEW e \in Runs
    PROVE  /\ Editing!RemoveAt(t, a + 1) = SubSeq(t, 1, a) \o SubSeq(t, a + 2, Len(t))
           /\ Editing!InsertAt(t, a + 1, e) = SubSeq(t, 1, a) \o <<e>> \o SubSeq(t, a + 1, Len(t))
  <1>1. (a + 1) - 1 = a /\ (a + 1) + 1 = a + 2
    OBVIOUS
  <1>2. /\ Editing!RemoveAt(t, a + 1) = SubSeq(t, 1, (a + 1) - 1) \o SubSeq(t, (a + 1) + 1, Len(t))
        /\ Editing!InsertAt(t, a + 1, e) =
               SubSeq(t, 1, (a + 1) - 1) \o <<e>> \o SubSeq(t, a + 1, Len(t))
    BY DEF Editing!RemoveAt, Editing!InsertAt
  <1> QED BY <1>1, <1>2

\* The program's way to the edited text comes to the manual's.
LEMMA EditedIsAfter ==
    ASSUME NEW r \in Runs, NEW t \in Seq(Items), n[r] \in Int
    PROVE  Editing!Edited(r, t) = Editing!After(r, t) /\ Editing!Edited(r, t) \in Seq(Items)
  <1>0. /\ r \in Items /\ Len(t) \in Nat /\ <<>> \in Seq(Items) /\ Len(<<>>) = 0
        /\ <<r>> \in Seq(Items)
    BY LenProperties, EmptySeq DEF Items
  <1> DEFINE h == IF n[r] < 0 THEN 0 ELSE IF n[r] < Len(t) THEN n[r] ELSE Len(t)
  <1>1. h \in 0..Len(t) /\ Editing!Copied(t, n[r]) = SubSeq(t, 1, h)
    BY <1>0 DEF Editing!Copied
  <1> HIDE DEF h
  <1>2. SubSeq(t, 1, h) \in Seq(Items) /\ Len(SubSeq(t, 1, h)) = h
    BY <1>0, <1>1, SubSeqProperties
  <1>3. /\ SubSeq(t, h + 1, Len(t)) \in Seq(Items)
        /\ SubSeq(t, h + 2, Len(t)) \in Seq(Items)
    BY <1>0, <1>1, SubSeqProperties
  <1>4. CASE mode[r] = "delete"
    <2>1. Editing!Edited(r, t) = SubSeq(t, 1, h) \o SubSeq(t, h + 2, Len(t))
      <3>1. h + 1 + 1 = h + 2
        BY <1>1
      <3> QED BY <1>1, <1>2, <1>4, <3>1 DEF Editing!Edited, Editing!Rest
    <2>2. CASE h < Len(t)
      <3>1. Editing!After(r, t) = Editing!RemoveAt(t, h + 1)
        BY <1>0, <1>4, <2>2 DEF Editing!After, h
      <3>3. Editing!After(r, t) = SubSeq(t, 1, h) \o SubSeq(t, h + 2, Len(t))
        <4>1. h \in Nat /\ r \in Runs
          BY <1>0, <1>1
        <4>2. Editing!RemoveAt(t, h + 1) = SubSeq(t, 1, h) \o SubSeq(t, h + 2, Len(t))
          BY <4>1, AtNext
        <4> QED BY <3>1, <4>2
      <3> QED BY <1>2, <1>3, <2>1, <3>3, ConcatProperties
    <2>3. CASE h = Len(t)
      <3>1. Editing!After(r, t) = t
        BY <1>0, <1>4, <2>3 DEF Editing!After, h
      <3>2. SubSeq(t, 1, h) = t
        BY <1>0, <2>3, SubSeqProperties
      <3>3. SubSeq(t, h + 2, Len(t)) = <<>>
        BY <1>0, <2>3, SubSeqProperties, EmptySeq
      <3>4. t \o <<>> = t
        BY <1>0, ConcatEmptySeq
      <3> QED BY <2>1, <3>1, <3>2, <3>3, <3>4
    <2> QED BY <1>1, <2>2, <2>3
  <1>5. CASE mode[r] # "delete"
    <2>1. Editing!Edited(r, t) = SubSeq(t, 1, h) \o <<r>> \o SubSeq(t, h + 1, Len(t))
      BY <1>1, <1>2, <1>5 DEF Editing!Edited, Editing!Rest
    <2>2. Editing!After(r, t) = Editing!InsertAt(t, h + 1, r)
      BY <1>0, <1>5 DEF Editing!After, h
    <2>4. Editing!After(r, t) = SubSeq(t, 1, h) \o <<r>> \o SubSeq(t, h + 1, Len(t))
      <3>1. h \in Nat
        BY <1>0, <1>1
      <3>2. Editing!InsertAt(t, h + 1, r) =
               SubSeq(t, 1, h) \o <<r>> \o SubSeq(t, h + 1, Len(t))
        BY <3>1, AtNext
      <3> QED BY <2>2, <3>2
    <2>5. SubSeq(t, 1, h) \o <<r>> \in Seq(Items)
      BY <1>0, <1>2, ConcatProperties
    <2> QED BY <1>3, <2>1, <2>4, <2>5, ConcatProperties
  <1> QED BY <1>4, <1>5

\* A stream that is closed leaves nothing behind its text in a file that was empty.
LEMMA NothingBeyond ==
    ASSUME NEW t \in Seq(Items)
    PROVE  t \o Editing!Rest(<<>>, Len(t)) = t
  <1>1. Len(t) \in Nat /\ <<>> \in Seq(Items) /\ Len(<<>>) = 0
    BY LenProperties, EmptySeq
  <1>2. SubSeq(<<>>, Len(t) + 1, 0) = <<>>
    BY <1>1, SubSeqProperties, EmptySeq
  <1> QED BY <1>1, <1>2, ConcatEmptySeq DEF Editing!Rest

LEMMA RestType ==
    ASSUME NEW t \in Seq(Items), NEW u \in Seq(Items)
    PROVE  t \o Editing!Rest(u, Len(t)) \in Seq(Items)
  <1>1. Len(t) \in Nat /\ Len(u) \in Nat
    BY LenProperties
  <1>2. SubSeq(u, Len(t) + 1, Len(u)) \in Seq(Items)
    BY <1>1, SubSeqProperties
  <1> QED BY <1>2, ConcatProperties DEF Editing!Rest

LEMMA EditInit == Editing!Init => EditInv
  <1> SUFFICES ASSUME Editing!Init PROVE EditInv
    OBVIOUS
  <1> DEFINE first == CHOOSE g \in [Files -> Inodes] : \A a, b \in Files : g[a] = g[b] => a = b
  <1>1. first \in [Files -> Inodes] /\ \A a, b \in Files : first[a] = first[b] => a = b
    BY EditorAssumption
  <1>2. directory = [a \in Editing!Names |-> IF a \in Files THEN first[a] ELSE 0]
    BY DEF Editing!Init, Editing!None
  <1> HIDE DEF first
  <1>3. Inodes \subseteq Nat \ {0} /\ "temp.txt" \notin Files /\ LineNumbers \subseteq Int
    BY EditorAssumption
  <1>4. FirstText \in Seq(Items) /\ <<>> \in Seq(Items)
    <2>1. {FirstText[l] : l \in DOMAIN FirstText} \subseteq Items
      BY DEF Items
    <2> QED BY <2>1, EditorAssumption, EmptySeq, SeqMonotonic
  <1>5. EditTypes
    <2>1. directory \in [Editing!Names -> Inodes \cup {0}]
      BY <1>1, <1>2
    <2>2. n \in [Runs -> Int]
      BY <1>3 DEF Editing!Init
    <2>3. /\ content \in [Inodes -> Seq(Items)] /\ wanted \in [Files -> Seq(Items)]
          /\ text \in [Runs -> Seq(Items)]
      BY <1>4 DEF Editing!Init
    <2>4. /\ source \in [Runs -> Inodes \cup {0}] /\ target \in [Runs -> Inodes \cup {0}]
          /\ name \in [Runs -> Files] /\ mode \in [Runs -> {"append", "delete", "insert"}]
          /\ \A r \in Runs : call[r] = "open"
          /\ call \in [Runs -> {"open"}] /\ spoilt \in BOOLEAN
      BY DEF Editing!Init, Editing!None
    <2> QED BY <2>1, <2>2, <2>3, <2>4 DEF EditTypes
  <1>6. /\ \A a \in Files : a \in Editing!Names /\ directory[a] = first[a] /\ There(a)
        /\ ~There("temp.txt")
        /\ \A a \in Editing!Names : There(a) => a \in Files
    BY <1>1, <1>2, <1>3 DEF Editing!Names, Editing!Temp, There
  <1>7. \A a, b \in Editing!Names : ApartAt(a, b)
    BY <1>1, <1>6, Zenon DEF ApartAt, There
  <1>8. \A r, q \in Runs : PairAt(r, q)
    BY DEF Editing!Init, PairAt, Editing!Active
  <1>9. \A r \in Runs : RunAt(r)
    BY DEF Editing!Init, RunAt
  <1>10. \A f \in Files : FileAt(f)
    <2>1. \A f \in Files : content[directory[f]] = FirstText /\ wanted[f] = FirstText
      BY <1>1, <1>6 DEF Editing!Init
    <2> QED BY <1>6, <2>1 DEF FileAt, TextOf
  <1> QED BY <1>5, <1>7, <1>8, <1>9, <1>10 DEF EditInv, Neat

\* What is free is a number that no name and no run has.
LEMMA FreeIsFree ==
    ASSUME Editing!FreeInodes # {}
    PROVE  /\ Editing!Free \in Inodes /\ Editing!Free # 0
           /\ \A a \in Editing!Names : directory[a] # Editing!Free
           /\ \A r \in Runs : source[r] # Editing!Free /\ target[r] # Editing!Free
  <1>1. Editing!Free \in Editing!FreeInodes
    BY DEF Editing!Free
  <1> QED BY <1>1, EditorAssumption DEF Editing!FreeInodes

LEMMA EditTypesStep ==
    ASSUME EditTypes, [Editing!Next]_Editing!vars
    PROVE  EditTypes'
  <1> USE DEF EditTypes
  <1>0. <<>> \in Seq(Items) /\ Editing!Temp \in Editing!Names /\ Files \subseteq Editing!Names
    BY EmptySeq DEF Editing!Names
  <1>1. ASSUME NEW r \in Runs,
           Editing!Open(r) PROVE EditTypes'
    <2>1. spoilt' \in BOOLEAN /\ UNCHANGED <<mode, name, n, target, text, wanted>>
      BY <1>1 DEF Editing!Open
    <2>2. CASE directory[name[r]] # 0
      <3>1. /\ call' = [call EXCEPT ![r] = IF Editing!Edits(r) THEN "openTemp" ELSE "append"]
            /\ source' = [source EXCEPT ![r] = directory[name[r]]]
            /\ UNCHANGED <<directory, content>>
        BY <1>1, <2>2 DEF Editing!Open, Editing!None
      <3>2. directory[name[r]] \in Inodes
        BY <1>0, <2>2
      <3> QED BY <2>1, <2>2, <3>1, <3>2
    <2>3. CASE Editing!FreeInodes # {} /\ call' = [call EXCEPT ![r] = "append"]
               /\ source' = [source EXCEPT ![r] = Editing!Free]
               /\ directory' = [directory EXCEPT ![name[r]] = Editing!Free]
               /\ content' = [content EXCEPT ![Editing!Free] = <<>>]
      BY <1>0, <2>1, <2>3, FreeIsFree
    <2>4. CASE call' = [call EXCEPT ![r] = "ended"] /\ UNCHANGED <<directory, content, source>>
      BY <2>1, <2>4
    <2> QED BY <1>1, <2>2, <2>3, <2>4 DEF Editing!Open, Editing!None
  <1>2. ASSUME NEW r \in Runs,
           Editing!AppendLine(r) PROVE EditTypes'
    <2>1. /\ source[r] \in Inodes /\ name[r] \in Files /\ r \in Items
      BY <1>2 DEF Editing!AppendLine, Editing!Goes, Items
    <2>2. Append(content[source[r]], r) \in Seq(Items) /\ Append(wanted[name[r]], r) \in Seq(Items)
      BY <2>1, AppendProperties
    <2> QED BY <1>0, <1>2, <2>1, <2>2
          DEF Editing!AppendLine, Editing!Goes, Editing!Quit, Editing!None
  <1>3. ASSUME NEW r \in Runs,
           Editing!OpenTemp(r) PROVE EditTypes'
    <2> DEFINE a == IF directory[Editing!Temp] = Editing!None THEN Editing!Free
                    ELSE directory[Editing!Temp]
    <2>1. a \in Inodes /\ a # 0
      BY <1>0, <1>3, FreeIsFree, EditorAssumption DEF Editing!OpenTemp, Editing!None
    <2>2. /\ call[r] = "openTemp" /\ call' = [call EXCEPT ![r] = "read"]
          /\ directory' = [directory EXCEPT ![Editing!Temp] = a]
          /\ content' = [content EXCEPT ![a] = <<>>]
          /\ target' = [target EXCEPT ![r] = a] /\ spoilt' \in BOOLEAN
          /\ UNCHANGED <<mode, name, n, source, text, wanted>>
      BY <1>3 DEF Editing!OpenTemp, Editing!Goes
    <2> HIDE DEF a
    <2> QED BY <1>0, <2>1, <2>2
  <1>4. ASSUME NEW r \in Runs,
           Editing!Read(r) PROVE EditTypes'
    <2>1. source[r] \in Inodes
      BY <1>4 DEF Editing!Read, Editing!Goes
    <2> QED BY <1>4, <2>1 DEF Editing!Read, Editing!Goes
  <1>5. ASSUME NEW r \in Runs,
           Editing!CloseTemp(r) PROVE EditTypes'
    <2> DEFINE t == Editing!Edited(r, text[r])
               u == t \o Editing!Rest(content[target[r]], Len(t))
    <2>1. target[r] \in Inodes
      BY <1>5 DEF Editing!CloseTemp, Editing!Goes
    <2>2. t \in Seq(Items)
      BY EditedIsAfter
    <2>3. u \in Seq(Items)
      BY <2>1, <2>2, RestType
    <2>4. /\ call[r] = "closeTemp" /\ call' = [call EXCEPT ![r] = "unlink"]
          /\ content' = [content EXCEPT ![target[r]] = u]
          /\ text' = [text EXCEPT ![r] = t]
          /\ UNCHANGED <<directory, mode, name, n, source, target, wanted, spoilt>>
      BY <1>5 DEF Editing!CloseTemp, Editing!Goes
    <2> HIDE DEF t, u
    <2> QED BY <2>1, <2>2, <2>3, <2>4
  <1>6. ASSUME NEW r \in Runs,
           Editing!Unlink(r) PROVE EditTypes'
    <2>1. Editing!After(r, wanted[name[r]]) \in Seq(Items)
      BY EditedIsAfter
    <2> QED BY <1>0, <1>6, <2>1 DEF Editing!Unlink, Editing!Goes, Editing!None
  <1>7. ASSUME NEW r \in Runs,
           Editing!Rename(r) PROVE EditTypes'
    <2>1. directory' \in [Editing!Names -> Inodes \cup {0}]
      BY <1>0, <1>7 DEF Editing!Rename, Editing!None
    <2> QED BY <1>0, <1>7, <2>1 DEF Editing!Rename, Editing!Goes, Editing!Quit, Editing!None
  <1>8. ASSUME NEW r \in Runs,
           Editing!Kill(r) PROVE EditTypes'
    BY <1>0, <1>8 DEF Editing!Kill, Editing!Quit, Editing!None
  <1>9. CASE UNCHANGED Editing!vars
    BY <1>9 DEF Editing!vars, Editing!runVars
  <1> QED BY <1>1, <1>2, <1>3, <1>4, <1>5, <1>6, <1>7, <1>8, <1>9 DEF Editing!Next, Editing!Edit

\* What a run was given stays, and with it what it makes of a text.
LEMMA GivenStays ==
    ASSUME [Editing!Next]_Editing!vars
    PROVE  /\ UNCHANGED <<mode, name, n>>
           /\ Editing!Names' = Editing!Names
           /\ \A r \in Runs : Editing!Edits(r)' <=> Editing!Edits(r)
           /\ \A r \in Runs : UNCHANGED wanted =>
                Editing!After(r, wanted[name[r]])' = Editing!After(r, wanted[name[r]])
  <1>1. UNCHANGED <<mode, name, n>>
    BY DEF Editing!Next, Editing!Edit, Editing!vars, Editing!runVars, Editing!Open,
           Editing!AppendLine, Editing!OpenTemp, Editing!Read, Editing!CloseTemp,
           Editing!Unlink, Editing!Rename, Editing!Kill
  <1> QED BY <1>1 DEF Editing!Edits, Editing!After, Editing!Names, Editing!Temp

LEMMA OpenStep ==
    ASSUME EditTypes, Neat, ~spoilt', [Editing!Next]_Editing!vars, NEW r \in Runs,
           Editing!Open(r)
    PROVE  Neat'
  <1> USE DEF EditTypes
  <1>0. /\ Editing!Temp = "temp.txt" /\ Editing!Temp \in Editing!Names /\ Editing!Temp \notin Files
        /\ Files \subseteq Editing!Names /\ Editing!Names = Files \cup {Editing!Temp}
    BY EditorAssumption DEF Editing!Names, Editing!Temp
  <1>a. /\ \A a, b \in Editing!Names : ApartAt(a, b)
        /\ \A p, q \in Runs : PairAt(p, q)
        /\ \A q \in Runs : RunAt(q)
        /\ \A f \in Files : FileAt(f)
    BY DEF Neat
  <1>b. /\ UNCHANGED <<mode, name, n>>
        /\ Editing!Names' = Editing!Names
        /\ \A q \in Runs : Editing!Edits(q)' <=> Editing!Edits(q)
        /\ \A q \in Runs : UNCHANGED wanted =>
             Editing!After(q, wanted[name[q]])' = Editing!After(q, wanted[name[q]])
    BY GivenStays
  <1>c. /\ call[r] = "open" /\ ~Editing!InTheWay(r)
        /\ UNCHANGED <<directory, content, target, text, wanted>>
        /\ source' = [source EXCEPT ![r] = source'[r]] /\ call' = [call EXCEPT ![r] = call'[r]]
        /\ call'[r] \in {"append", "openTemp"} => There(name[r]) /\ source'[r] = directory[name[r]]
        /\ call'[r] \in {"append", "openTemp", "ended"}
        /\ call'[r] = "append" <=> ~Editing!Edits(r)
        /\ call'[r] = "openTemp" => Editing!Edits(r)
    <2>1. call[r] = "open" /\ ~Editing!InTheWay(r) /\ (Editing!Edits(r) \/ directory[name[r]] # 0)
      BY DEF Editing!Open, Editing!None
    <2>2. CASE directory[name[r]] # 0
      BY <2>1, <2>2 DEF Editing!Open, Editing!None, There
    <2>3. CASE directory[name[r]] = 0
      BY <2>1, <2>3 DEF Editing!Open, Editing!None, There
    <2> QED BY <2>2, <2>3
  <1>1. \A a, b \in Editing!Names : ApartAt(a, b)'
    BY <1>a, <1>c DEF ApartAt, There
  <1>2. \A p, q \in Runs : PairAt(p, q)'
    <2>1. \A q \in Runs \ {r} :
             /\ Editing!Active(q)' <=> Editing!Active(q)
             /\ Editing!Active(q) /\ (Editing!Edits(q) \/ Editing!Edits(r)) =>
                  name[q] # name[r] /\ ~(Editing!Edits(q) /\ Editing!Edits(r))
      BY <1>c DEF Editing!Active, Editing!InTheWay
    <2>2. ASSUME NEW p \in Runs, NEW q \in Runs PROVE PairAt(p, q)'
      <3>1. CASE p = r \/ q = r
        BY <1>b, <2>1, <3>1 DEF PairAt
      <3>2. CASE p # r /\ q # r
        BY <1>a, <1>b, <2>1, <3>2 DEF PairAt
      <3> QED BY <3>1, <3>2
    <2> QED BY <2>2
  <1>3. \A q \in Runs : RunAt(q)'
    BY <1>a, <1>b, <1>c DEF RunAt, There, TextOf
  <1>4. \A f \in Files : FileAt(f)'
    BY <1>a, <1>b, <1>c DEF FileAt, There, TextOf
  <1> QED BY <1>1, <1>2, <1>3, <1>4, <1>b DEF Neat

LEMMA AppendStep ==
    ASSUME EditTypes, Neat, ~spoilt', [Editing!Next]_Editing!vars, NEW r \in Runs,
           Editing!AppendLine(r)
    PROVE  Neat'
  <1> USE DEF EditTypes
  <1>0. /\ Editing!Temp = "temp.txt" /\ Editing!Temp \in Editing!Names /\ Editing!Temp \notin Files
        /\ Files \subseteq Editing!Names /\ Editing!Names = Files \cup {Editing!Temp}
    BY EditorAssumption DEF Editing!Names, Editing!Temp
  <1>a. /\ \A a, b \in Editing!Names : ApartAt(a, b)
        /\ \A p, q \in Runs : PairAt(p, q)
        /\ \A q \in Runs : RunAt(q)
        /\ \A f \in Files : FileAt(f)
    BY DEF Neat
  <1>b. /\ UNCHANGED <<mode, name, n>>
        /\ Editing!Names' = Editing!Names
        /\ \A q \in Runs : Editing!Edits(q)' <=> Editing!Edits(q)
        /\ \A q \in Runs : UNCHANGED wanted =>
             Editing!After(q, wanted[name[q]])' = Editing!After(q, wanted[name[q]])
    BY GivenStays
  <1>c. /\ call[r] = "append" /\ call' = [call EXCEPT ![r] = "ended"]
        /\ source' = [source EXCEPT ![r] = 0] /\ target' = [target EXCEPT ![r] = 0]
        /\ text' = [text EXCEPT ![r] = <<>>]
        /\ content' = [content EXCEPT ![source[r]] = Append(@, r)]
        /\ wanted' = [wanted EXCEPT ![name[r]] = Append(@, r)]
        /\ UNCHANGED directory
    BY DEF Editing!AppendLine, Editing!Goes, Editing!Quit, Editing!None
  <1>d. /\ name[r] \in Files /\ source[r] = directory[name[r]] /\ source[r] \in Inodes
        /\ There(name[r]) /\ ~Editing!Edits(r)
        /\ TextOf(name[r]) = wanted[name[r]]
    BY <1>a, <1>c, EditorAssumption DEF RunAt, There, FileAt
  <1>e. /\ \A a \in Editing!Names : a # name[r] /\ There(a) => directory[a] # source[r]
        /\ \A a \in Editing!Names : a # name[r] /\ There(a) => TextOf(a)' = TextOf(a)
        /\ TextOf(name[r])' = wanted'[name[r]]
        /\ \A f \in Files : f # name[r] => wanted'[f] = wanted[f]
    <2>1. \A a \in Editing!Names : a # name[r] /\ There(a) =>
            directory[a] # source[r] /\ directory[a] \in Inodes
      BY <1>0, <1>a, <1>d DEF ApartAt, There
    <2>2. \A a \in Editing!Names : a # name[r] /\ There(a) => TextOf(a)' = TextOf(a)
      BY <1>c, <2>1 DEF TextOf
    <2>3. TextOf(name[r])' = Append(TextOf(name[r]), r)
      BY <1>b, <1>c, <1>d DEF TextOf
    <2>4. wanted'[name[r]] = Append(wanted[name[r]], r)
      BY <1>c, <1>d
    <2>5. \A f \in Files : f # name[r] => wanted'[f] = wanted[f]
      BY <1>c
    <2> QED BY <1>d, <2>1, <2>2, <2>3, <2>4, <2>5
  <1>f. \A q \in Runs :
          q # r /\ call[q] \in {"openTemp", "read", "closeTemp", "unlink", "rename"} =>
             /\ name[q] # name[r]
             /\ Editing!After(q, wanted[name[q]])' = Editing!After(q, wanted[name[q]])
    <2>1. \A q \in Runs :
            q # r /\ call[q] \in {"openTemp", "read", "closeTemp", "unlink", "rename"} =>
             name[q] # name[r]
      BY <1>a, <1>c DEF RunAt, PairAt, Editing!Active
    <2>2. ASSUME NEW q \in Runs, name[q] # name[r]
          PROVE  Editing!After(q, wanted[name[q]])' = Editing!After(q, wanted[name[q]])
      <3>1. wanted'[name[q]] = wanted[name[q]]
        BY <1>e, <2>2
      <3> QED BY <3>1, <1>b DEF Editing!After
    <2> QED BY <2>1, <2>2
  <1>1. \A a, b \in Editing!Names : ApartAt(a, b)'
    BY <1>a, <1>c DEF ApartAt, There
  <1>2. \A p, q \in Runs : PairAt(p, q)'
    BY <1>a, <1>b, <1>c DEF PairAt, Editing!Active
  <1>3. \A q \in Runs : RunAt(q)'
    <2>1. ASSUME NEW q \in Runs, q # r PROVE RunAt(q)'
      <3>1. /\ RunAt(q) /\ call'[q] = call[q] /\ source'[q] = source[q] /\ target'[q] = target[q]
            /\ text'[q] = text[q] /\ name'[q] = name[q] /\ (Editing!Edits(q)' <=> Editing!Edits(q))
            /\ \A a : There(a)' <=> There(a)
        BY <1>a, <1>b, <1>c, <2>1 DEF There
      <3>2. call[q] \in {"read", "closeTemp", "unlink"} =>
               /\ TextOf("temp.txt")' = TextOf("temp.txt")
               /\ TextOf(name[q])' = TextOf(name[q])
        <4>1. call[q] \in {"read", "closeTemp", "unlink"} => There("temp.txt") /\ There(name[q])
          BY <3>1 DEF RunAt
        <4> QED BY <1>0, <1>b, <1>d, <1>e, <1>f, <2>1, <4>1
      <3>3. UNCHANGED directory
        BY <1>c
      <3> QED BY <1>f, <2>1, <3>1, <3>2, <3>3 DEF RunAt
    <2>2. RunAt(r)'
      BY <1>c DEF RunAt
    <2> QED BY <2>1, <2>2
  <1>4. \A f \in Files : FileAt(f)'
    BY <1>0, <1>a, <1>b, <1>c, <1>d, <1>e DEF FileAt, There
  <1> QED BY <1>1, <1>2, <1>3, <1>4, <1>b DEF Neat

LEMMA OpenTempStep ==
    ASSUME EditTypes, Neat, ~spoilt', [Editing!Next]_Editing!vars, NEW r \in Runs,
           Editing!OpenTemp(r)
    PROVE  Neat'
  <1> USE DEF EditTypes
  <1>0. /\ Editing!Temp = "temp.txt" /\ Editing!Temp \in Editing!Names /\ Editing!Temp \notin Files
        /\ Files \subseteq Editing!Names /\ Editing!Names = Files \cup {Editing!Temp}
    BY EditorAssumption DEF Editing!Names, Editing!Temp
  <1>a. /\ \A a, b \in Editing!Names : ApartAt(a, b)
        /\ \A p, q \in Runs : PairAt(p, q)
        /\ \A q \in Runs : RunAt(q)
        /\ \A f \in Files : FileAt(f)
    BY DEF Neat
  <1>b. /\ UNCHANGED <<mode, name, n>>
        /\ Editing!Names' = Editing!Names
        /\ \A q \in Runs : Editing!Edits(q)' <=> Editing!Edits(q)
        /\ \A q \in Runs : UNCHANGED wanted =>
             Editing!After(q, wanted[name[q]])' = Editing!After(q, wanted[name[q]])
    BY GivenStays
  <1> DEFINE i0 == IF directory[Editing!Temp] = Editing!None THEN Editing!Free
                   ELSE directory[Editing!Temp]
  <1>c. /\ call[r] = "openTemp" /\ call' = [call EXCEPT ![r] = "read"]
        /\ directory' = [directory EXCEPT !["temp.txt"] = i0]
        /\ content' = [content EXCEPT ![i0] = <<>>]
        /\ target' = [target EXCEPT ![r] = i0]
        /\ \A f \in Files : There(f)
        /\ UNCHANGED <<source, text, wanted>>
    BY DEF Editing!OpenTemp, Editing!Goes, Editing!None, Editing!Temp, There
  <1>d. i0 \in Inodes /\ i0 # 0 /\ \A f \in Files : directory[f] # i0
    <2>1. CASE directory[Editing!Temp] = Editing!None
      <3>1. Editing!FreeInodes # {}
        BY <2>1 DEF Editing!OpenTemp
      <3> QED BY <1>0, <2>1, <3>1, FreeIsFree
    <2>2. CASE directory[Editing!Temp] # Editing!None
      BY <1>0, <1>a, <2>2, EditorAssumption DEF Editing!None, ApartAt, There
    <2> QED BY <2>1, <2>2
  <1> HIDE DEF i0
  <1>g. Editing!Active(r) /\ Editing!Edits(r)
    BY <1>a, <1>c DEF RunAt, Editing!Active
  <1>e. \A q \in Runs : q # r =>
            /\ call[q] \in {"open", "append", "ended"}
            /\ call[q] = "append" => name[q] # name[r]
    BY <1>a, <1>g DEF RunAt, PairAt, Editing!Active
  <1>f. /\ \A f \in Files : directory'[f] = directory[f] /\ TextOf(f)' = TextOf(f)
        /\ directory'["temp.txt"] = i0 /\ TextOf("temp.txt")' = <<>>
    BY <1>0, <1>c, <1>d DEF TextOf
  <1>1. \A a, b \in Editing!Names : ApartAt(a, b)'
    BY <1>0, <1>a, <1>b, <1>c, <1>d, <1>f DEF ApartAt, There
  <1>2. \A p, q \in Runs : PairAt(p, q)'
    BY <1>a, <1>b, <1>c DEF PairAt, Editing!Active
  <1>3. \A q \in Runs : RunAt(q)'
    <2>1. ASSUME NEW q \in Runs, q # r PROVE RunAt(q)'
      <3>1. /\ RunAt(q) /\ call'[q] = call[q] /\ source'[q] = source[q] /\ name'[q] = name[q]
            /\ name[q] \in Files /\ (Editing!Edits(q)' <=> Editing!Edits(q))
            /\ call[q] \in {"open", "append", "ended"} /\ (call[q] = "append" => name[q] # name[r])
        BY <1>a, <1>b, <1>c, <1>e, <2>1
      <3> QED BY <1>0, <1>f, <3>1 DEF RunAt, There
    <2>2. RunAt(r)'
      <3>1. /\ RunAt(r) /\ name'[r] = name[r] /\ name[r] \in Files
            /\ (Editing!Edits(r)' <=> Editing!Edits(r))
        BY <1>a, <1>b
      <3> QED BY <1>0, <1>c, <1>d, <1>f, <3>1 DEF RunAt, There
    <2> QED BY <2>1, <2>2
  <1>4. \A f \in Files : FileAt(f)'
    BY <1>0, <1>a, <1>c, <1>f DEF FileAt, There
  <1> QED BY <1>1, <1>2, <1>3, <1>4, <1>b DEF Neat

LEMMA ReadStep ==
    ASSUME EditTypes, Neat, ~spoilt', [Editing!Next]_Editing!vars, NEW r \in Runs,
           Editing!Read(r)
    PROVE  Neat'
  <1> USE DEF EditTypes
  <1>0. /\ Editing!Temp = "temp.txt" /\ Editing!Temp \in Editing!Names /\ Editing!Temp \notin Files
        /\ Files \subseteq Editing!Names /\ Editing!Names = Files \cup {Editing!Temp}
    BY EditorAssumption DEF Editing!Names, Editing!Temp
  <1>a. /\ \A a, b \in Editing!Names : ApartAt(a, b)
        /\ \A p, q \in Runs : PairAt(p, q)
        /\ \A q \in Runs : RunAt(q)
        /\ \A f \in Files : FileAt(f)
    BY DEF Neat
  <1>b. /\ UNCHANGED <<mode, name, n>>
        /\ Editing!Names' = Editing!Names
        /\ \A q \in Runs : Editing!Edits(q)' <=> Editing!Edits(q)
        /\ \A q \in Runs : UNCHANGED wanted =>
             Editing!After(q, wanted[name[q]])' = Editing!After(q, wanted[name[q]])
    BY GivenStays
  <1>c. /\ call[r] = "read" /\ call' = [call EXCEPT ![r] = "closeTemp"]
        /\ text' = [text EXCEPT ![r] = content[source[r]]]
        /\ UNCHANGED <<directory, content, source, target, wanted>>
    BY DEF Editing!Read, Editing!Goes
  <1>g. Editing!Active(r) /\ Editing!Edits(r)
    BY <1>a, <1>c DEF RunAt, Editing!Active
  <1>e. \A q \in Runs : q # r =>
            /\ call[q] \in {"open", "append", "ended"}
            /\ call[q] = "append" => name[q] # name[r]
    BY <1>a, <1>g DEF RunAt, PairAt, Editing!Active
  <1>1. \A a, b \in Editing!Names : ApartAt(a, b)'
    BY <1>a, <1>c DEF ApartAt, There
  <1>2. \A p, q \in Runs : PairAt(p, q)'
    BY <1>a, <1>b, <1>c DEF PairAt, Editing!Active
  <1>3. \A q \in Runs : RunAt(q)'
    <2>1. ASSUME NEW q \in Runs, q # r PROVE RunAt(q)'
      <3>1. /\ RunAt(q) /\ call'[q] = call[q] /\ source'[q] = source[q] /\ name'[q] = name[q]
            /\ name[q] \in Files /\ (Editing!Edits(q)' <=> Editing!Edits(q))
            /\ call[q] \in {"open", "append", "ended"} /\ (call[q] = "append" => name[q] # name[r])
        BY <1>a, <1>b, <1>c, <1>e, <2>1
      <3> QED BY <1>0, <1>c, <3>1 DEF RunAt, There
    <2>2. RunAt(r)'
      <3>1. /\ RunAt(r) /\ name'[r] = name[r] /\ name[r] \in Files
            /\ Editing!Edits(r)' <=> Editing!Edits(r)
        BY <1>a, <1>b
      <3> QED BY <1>c, <3>1 DEF RunAt, There, TextOf
    <2> QED BY <2>1, <2>2
  <1>4. \A f \in Files : FileAt(f)'
    BY <1>a, <1>c DEF FileAt, There, TextOf
  <1> QED BY <1>1, <1>2, <1>3, <1>4, <1>b DEF Neat

LEMMA CloseTempStep ==
    ASSUME EditTypes, Neat, ~spoilt', [Editing!Next]_Editing!vars, NEW r \in Runs,
           Editing!CloseTemp(r)
    PROVE  Neat'
  <1> USE DEF EditTypes
  <1>0. /\ Editing!Temp = "temp.txt" /\ Editing!Temp \in Editing!Names /\ Editing!Temp \notin Files
        /\ Files \subseteq Editing!Names /\ Editing!Names = Files \cup {Editing!Temp}
    BY EditorAssumption DEF Editing!Names, Editing!Temp
  <1>a. /\ \A a, b \in Editing!Names : ApartAt(a, b)
        /\ \A p, q \in Runs : PairAt(p, q)
        /\ \A q \in Runs : RunAt(q)
        /\ \A f \in Files : FileAt(f)
    BY DEF Neat
  <1>b. /\ UNCHANGED <<mode, name, n>>
        /\ Editing!Names' = Editing!Names
        /\ \A q \in Runs : Editing!Edits(q)' <=> Editing!Edits(q)
        /\ \A q \in Runs : UNCHANGED wanted =>
             Editing!After(q, wanted[name[q]])' = Editing!After(q, wanted[name[q]])
    BY GivenStays
  <1>c. /\ call[r] = "closeTemp" /\ call' = [call EXCEPT ![r] = "unlink"]
        /\ LET t == Editing!Edited(r, text[r])
           IN  content' = [content EXCEPT ![target[r]] = t \o Editing!Rest(@, Len(t))]
        /\ \A q \in Runs \ {r} : text'[q] = text[q]
        /\ UNCHANGED <<directory, source, target, wanted>>
    BY DEF Editing!CloseTemp, Editing!Goes
  <1>g. Editing!Active(r) /\ Editing!Edits(r)
    BY <1>a, <1>c DEF RunAt, Editing!Active
  <1>e. \A q \in Runs : q # r =>
            /\ call[q] \in {"open", "append", "ended"}
            /\ call[q] = "append" => name[q] # name[r]
    BY <1>a, <1>g DEF RunAt, PairAt, Editing!Active
  <1>d. /\ There("temp.txt") /\ target[r] = directory["temp.txt"] /\ target[r] \in Inodes
        /\ TextOf("temp.txt") = <<>> /\ text[r] = wanted[name[r]] /\ name[r] \in Files
    BY <1>0, <1>a, <1>c, EditorAssumption DEF RunAt, FileAt
  <1>f. /\ \A f \in Files : There(f) => TextOf(f)' = TextOf(f)
        /\ TextOf("temp.txt")' = Editing!After(r, wanted[name[r]])
    <2> DEFINE t == Editing!Edited(r, text[r])
    <2>1. t = Editing!After(r, wanted[name[r]]) /\ t \in Seq(Items)
      BY <1>d, EditedIsAfter
    <2>2. content' = [content EXCEPT ![target[r]] = t]
      <3>1. t \o Editing!Rest(content[target[r]], Len(t)) = t
        BY <1>d, <2>1, NothingBeyond DEF TextOf
      <3> QED BY <1>c, <3>1
    <2> HIDE DEF t
    <2>3. \A f \in Files : There(f) => directory[f] # target[r]
      BY <1>0, <1>a, <1>d DEF ApartAt, There
    <2>4. \A f \in Files : There(f) => TextOf(f)' = TextOf(f)
      BY <1>0, <1>c, <2>2, <2>3 DEF TextOf, There
    <2>5. TextOf("temp.txt")' = t
      BY <1>c, <1>d, <2>2 DEF TextOf
    <2> QED BY <2>1, <2>4, <2>5
  <1>1. \A a, b \in Editing!Names : ApartAt(a, b)'
    BY <1>a, <1>c DEF ApartAt, There
  <1>2. \A p, q \in Runs : PairAt(p, q)'
    BY <1>a, <1>b, <1>c DEF PairAt, Editing!Active
  <1>3. \A q \in Runs : RunAt(q)'
    <2>1. ASSUME NEW q \in Runs, q # r PROVE RunAt(q)'
      <3>1. /\ RunAt(q) /\ call'[q] = call[q] /\ source'[q] = source[q] /\ name'[q] = name[q]
            /\ name[q] \in Files /\ (Editing!Edits(q)' <=> Editing!Edits(q))
            /\ call[q] \in {"open", "append", "ended"} /\ (call[q] = "append" => name[q] # name[r])
        BY <1>a, <1>b, <1>c, <1>e, <2>1
      <3> QED BY <1>0, <1>c, <3>1 DEF RunAt, There
    <2>2. RunAt(r)'
      <3>1. /\ RunAt(r) /\ name'[r] = name[r] /\ name[r] \in Files
            /\ Editing!Edits(r)' <=> Editing!Edits(r)
            /\ Editing!After(r, wanted[name[r]])' = Editing!After(r, wanted[name[r]])
        BY <1>a, <1>b, <1>c
      <3> QED BY <1>c, <1>f, <3>1 DEF RunAt, There
    <2> QED BY <2>1, <2>2
  <1>4. \A f \in Files : FileAt(f)'
    <2>1. ASSUME NEW f \in Files PROVE FileAt(f)'
      <3>1. There(f) /\ FileAt(f)
        BY <1>a, <1>c, <1>d DEF RunAt, There
      <3> QED BY <1>c, <1>f, <3>1 DEF FileAt, There
    <2> QED BY <2>1
  <1> QED BY <1>1, <1>2, <1>3, <1>4, <1>b DEF Neat

LEMMA UnlinkStep ==
    ASSUME EditTypes, Neat, ~spoilt', [Editing!Next]_Editing!vars, NEW r \in Runs,
           Editing!Unlink(r)
    PROVE  Neat'
  <1> USE DEF EditTypes
  <1>0. /\ Editing!Temp = "temp.txt" /\ Editing!Temp \in Editing!Names /\ Editing!Temp \notin Files
        /\ Files \subseteq Editing!Names /\ Editing!Names = Files \cup {Editing!Temp}
    BY EditorAssumption DEF Editing!Names, Editing!Temp
  <1>a. /\ \A a, b \in Editing!Names : ApartAt(a, b)
        /\ \A p, q \in Runs : PairAt(p, q)
        /\ \A q \in Runs : RunAt(q)
        /\ \A f \in Files : FileAt(f)
    BY DEF Neat
  <1>b. /\ UNCHANGED <<mode, name, n>>
        /\ Editing!Names' = Editing!Names
        /\ \A q \in Runs : Editing!Edits(q)' <=> Editing!Edits(q)
        /\ \A q \in Runs : UNCHANGED wanted =>
             Editing!After(q, wanted[name[q]])' = Editing!After(q, wanted[name[q]])
    BY GivenStays
  <1>c. /\ call[r] = "unlink" /\ call' = [call EXCEPT ![r] = "rename"]
        /\ directory' = [directory EXCEPT ![name[r]] = 0]
        /\ wanted' = [wanted EXCEPT ![name[r]] = Editing!After(r, @)]
        /\ UNCHANGED <<content, source, target, text>>
    BY DEF Editing!Unlink, Editing!Goes, Editing!None
  <1>g. Editing!Active(r) /\ Editing!Edits(r)
    BY <1>a, <1>c DEF RunAt, Editing!Active
  <1>e. \A q \in Runs : q # r =>
            /\ call[q] \in {"open", "append", "ended"}
            /\ call[q] = "append" => name[q] # name[r]
    BY <1>a, <1>g DEF RunAt, PairAt, Editing!Active
  <1>d. /\ There("temp.txt") /\ target[r] = directory["temp.txt"] /\ name[r] \in Files
        /\ TextOf("temp.txt") = Editing!After(r, wanted[name[r]])
        /\ \A f \in Files : There(f)
    BY <1>a, <1>c DEF RunAt
  <1>f. /\ \A a \in Editing!Names : a # name[r] =>
             directory'[a] = directory[a] /\ TextOf(a)' = TextOf(a)
        /\ ~There(name[r])' /\ wanted'[name[r]] = Editing!After(r, wanted[name[r]])
        /\ \A f \in Files : f # name[r] => wanted'[f] = wanted[f]
    BY <1>0, <1>b, <1>c, <1>d DEF TextOf, There
  <1>1. \A a, b \in Editing!Names : ApartAt(a, b)'
    <2>1. /\ directory'[name[r]] = 0
          /\ \A a \in Editing!Names : a # name[r] => directory'[a] = directory[a]
      BY <1>0, <1>c, <1>d
    <2>2. ASSUME NEW a \in Editing!Names, NEW b \in Editing!Names, a # b, directory'[a] # 0
          PROVE  directory'[a] # directory'[b]
      <3>1. a # name[r] /\ directory'[a] = directory[a] /\ directory[a] # 0
        BY <2>1, <2>2
      <3>2. CASE b = name[r]
        BY <2>1, <2>2, <3>2
      <3>3. CASE b # name[r]
        <4>1. directory'[b] = directory[b]
          BY <2>1, <3>3
        <4>2. directory[a] # directory[b]
          BY <1>a, <2>2, <3>1 DEF ApartAt, There
        <4> QED BY <3>1, <4>1, <4>2
      <3> QED BY <3>2, <3>3
    <2> QED BY <1>b, <2>2 DEF ApartAt, There
  <1>2. \A p, q \in Runs : PairAt(p, q)'
    BY <1>a, <1>b, <1>c DEF PairAt, Editing!Active
  <1>3. \A q \in Runs : RunAt(q)'
    <2>1. ASSUME NEW q \in Runs, q # r PROVE RunAt(q)'
      <3>1. /\ RunAt(q) /\ call'[q] = call[q] /\ source'[q] = source[q] /\ name'[q] = name[q]
            /\ name[q] \in Files /\ (Editing!Edits(q)' <=> Editing!Edits(q))
            /\ call[q] \in {"open", "append", "ended"} /\ (call[q] = "append" => name[q] # name[r])
        BY <1>a, <1>b, <1>c, <1>e, <2>1
      <3>2. call[q] = "append" => There(name[q]) /\ source[q] = directory[name[q]]
        BY <3>1 DEF RunAt
      <3>3. call[q] = "append" => directory'[name[q]] = directory[name[q]]
        BY <1>0, <1>f, <3>1

      <3> QED BY <3>1, <3>2, <3>3 DEF RunAt, There
    <2>2. RunAt(r)'
      <3>1. /\ RunAt(r) /\ name'[r] = name[r] /\ name[r] \in Files
            /\ Editing!Edits(r)' <=> Editing!Edits(r)
        BY <1>a, <1>b
      <3> QED BY <1>0, <1>c, <1>d, <1>f, <3>1 DEF RunAt, There
    <2> QED BY <2>1, <2>2
  <1>4. \A f \in Files : FileAt(f)'
    <2>1. ASSUME NEW f \in Files PROVE FileAt(f)'
      <3>1. CASE f = name[r]
        BY <1>0, <1>b, <1>d, <1>f, <3>1 DEF FileAt, There
      <3>2. CASE f # name[r]
        BY <1>0, <1>a, <1>b, <1>d, <1>f, <3>2 DEF FileAt, There
      <3> QED BY <3>1, <3>2
    <2> QED BY <2>1
  <1> QED BY <1>1, <1>2, <1>3, <1>4, <1>b DEF Neat

LEMMA RenameStep ==
    ASSUME EditTypes, Neat, ~spoilt', [Editing!Next]_Editing!vars, NEW r \in Runs,
           Editing!Rename(r)
    PROVE  Neat'
  <1> USE DEF EditTypes
  <1>0. /\ Editing!Temp = "temp.txt" /\ Editing!Temp \in Editing!Names /\ Editing!Temp \notin Files
        /\ Files \subseteq Editing!Names /\ Editing!Names = Files \cup {Editing!Temp}
    BY EditorAssumption DEF Editing!Names, Editing!Temp
  <1>a. /\ \A a, b \in Editing!Names : ApartAt(a, b)
        /\ \A p, q \in Runs : PairAt(p, q)
        /\ \A q \in Runs : RunAt(q)
        /\ \A f \in Files : FileAt(f)
    BY DEF Neat
  <1>b. /\ UNCHANGED <<mode, name, n>>
        /\ Editing!Names' = Editing!Names
        /\ \A q \in Runs : Editing!Edits(q)' <=> Editing!Edits(q)
        /\ \A q \in Runs : UNCHANGED wanted =>
             Editing!After(q, wanted[name[q]])' = Editing!After(q, wanted[name[q]])
    BY GivenStays
  <1>d. /\ call[r] = "rename" /\ There("temp.txt") /\ ~There(name[r]) /\ name[r] \in Files
        /\ TextOf("temp.txt") = wanted[name[r]] /\ \A f \in Files : f # name[r] => There(f)
    BY <1>a DEF Editing!Rename, Editing!Goes, RunAt, FileAt
  <1>c. /\ call[r] = "rename" /\ call' = [call EXCEPT ![r] = "ended"]
        /\ directory' = [directory EXCEPT ![name[r]] = directory["temp.txt"], !["temp.txt"] = 0]
        /\ source' = [source EXCEPT ![r] = 0] /\ target' = [target EXCEPT ![r] = 0]
        /\ text' = [text EXCEPT ![r] = <<>>]
        /\ UNCHANGED <<content, wanted>>
    BY <1>d DEF Editing!Rename, Editing!Goes, Editing!Quit, Editing!None, Editing!Temp, There
  <1>g. Editing!Active(r) /\ Editing!Edits(r)
    BY <1>a, <1>c DEF RunAt, Editing!Active
  <1>e. \A q \in Runs : q # r =>
            /\ call[q] \in {"open", "append", "ended"}
            /\ call[q] = "append" => name[q] # name[r]
    BY <1>a, <1>g DEF RunAt, PairAt, Editing!Active
  <1>f. /\ \A f \in Files : f # name[r] => directory'[f] = directory[f] /\ TextOf(f)' = TextOf(f)
        /\ ~There("temp.txt")' /\ directory'[name[r]] = directory["temp.txt"]
        /\ There(name[r])' /\ TextOf(name[r])' = TextOf("temp.txt")
    BY <1>0, <1>b, <1>c, <1>d DEF TextOf, There
  <1>1. \A a, b \in Editing!Names : ApartAt(a, b)'
    <2>1. /\ directory'["temp.txt"] = 0 /\ directory'[name[r]] = directory["temp.txt"]
          /\ \A a \in Files : a # name[r] => directory'[a] = directory[a]
      BY <1>0, <1>c, <1>d
    <2>2. ASSUME NEW a \in Editing!Names, NEW b \in Editing!Names, a # b, directory'[a] # 0
          PROVE  directory'[a] # directory'[b]
      <3> DEFINE was(c) == IF c = name[r] THEN "temp.txt" ELSE c
      <3>1. a \in Files /\ directory'[a] = directory[was(a)]
        BY <1>0, <2>1, <2>2
      <3>2. CASE b = "temp.txt"
        BY <2>1, <2>2, <3>2
      <3>3. CASE b # "temp.txt"
        <4>1. b \in Files /\ directory'[b] = directory[was(b)]
          BY <1>0, <2>1, <3>3
        <4>2. was(a) \in Editing!Names /\ was(b) \in Editing!Names /\ was(a) # was(b)
          BY <1>0, <2>2, <3>1, <4>1
        <4> HIDE DEF was
        <4>3. directory[was(a)] # directory[was(b)]
          BY <1>a, <2>2, <3>1, <4>2 DEF ApartAt, There
        <4> QED BY <3>1, <4>1, <4>3
      <3> QED BY <3>2, <3>3
    <2> QED BY <1>b, <2>2 DEF ApartAt, There
  <1>2. \A p, q \in Runs : PairAt(p, q)'
    BY <1>a, <1>b, <1>c DEF PairAt, Editing!Active
  <1>3. \A q \in Runs : RunAt(q)'
    <2>1. ASSUME NEW q \in Runs, q # r PROVE RunAt(q)'
      <3>1. /\ RunAt(q) /\ call'[q] = call[q] /\ source'[q] = source[q] /\ name'[q] = name[q]
            /\ name[q] \in Files /\ (Editing!Edits(q)' <=> Editing!Edits(q))
            /\ call[q] \in {"open", "append", "ended"} /\ (call[q] = "append" => name[q] # name[r])
        BY <1>a, <1>b, <1>c, <1>e, <2>1
      <3>2. call[q] = "append" => There(name[q]) /\ source[q] = directory[name[q]]
        BY <3>1 DEF RunAt
      <3>3. call[q] = "append" => directory'[name[q]] = directory[name[q]]
        BY <1>0, <1>f, <3>1

      <3> QED BY <3>1, <3>2, <3>3 DEF RunAt, There
    <2>2. RunAt(r)'
      BY <1>c DEF RunAt
    <2> QED BY <2>1, <2>2
  <1>4. \A f \in Files : FileAt(f)'
    <2>1. ASSUME NEW f \in Files PROVE FileAt(f)'
      <3>1. CASE f = name[r]
        BY <1>b, <1>c, <1>d, <1>f, <3>1 DEF FileAt, There
      <3>2. CASE f # name[r]
        <4>1. directory[f] # 0 /\ directory'[f] = directory[f] /\ TextOf(f)' = TextOf(f)
          BY <1>d, <1>f, <3>2 DEF There
        <4>2. TextOf(f) = wanted[f] /\ wanted'[f] = wanted[f]
          BY <1>a, <1>c, <4>1 DEF FileAt, There
        <4> QED BY <4>1, <4>2 DEF FileAt, There
      <3> QED BY <3>1, <3>2
    <2> QED BY <2>1
  <1> QED BY <1>1, <1>2, <1>3, <1>4, <1>b DEF Neat

LEMMA KillStep ==
    ASSUME EditTypes, Neat, ~spoilt', [Editing!Next]_Editing!vars, NEW r \in Runs,
           Editing!Kill(r)
    PROVE  Neat'
  <1> USE DEF EditTypes
  <1>0. /\ Editing!Temp = "temp.txt" /\ Editing!Temp \in Editing!Names /\ Editing!Temp \notin Files
        /\ Files \subseteq Editing!Names /\ Editing!Names = Files \cup {Editing!Temp}
    BY EditorAssumption DEF Editing!Names, Editing!Temp
  <1>a. /\ \A a, b \in Editing!Names : ApartAt(a, b)
        /\ \A p, q \in Runs : PairAt(p, q)
        /\ \A q \in Runs : RunAt(q)
        /\ \A f \in Files : FileAt(f)
    BY DEF Neat
  <1>b. /\ UNCHANGED <<mode, name, n>>
        /\ Editing!Names' = Editing!Names
        /\ \A q \in Runs : Editing!Edits(q)' <=> Editing!Edits(q)
        /\ \A q \in Runs : UNCHANGED wanted =>
             Editing!After(q, wanted[name[q]])' = Editing!After(q, wanted[name[q]])
    BY GivenStays
  <1>c. /\ call' = [call EXCEPT ![r] = "ended"]
        /\ source' = [source EXCEPT ![r] = 0] /\ target' = [target EXCEPT ![r] = 0]
        /\ text' = [text EXCEPT ![r] = <<>>]
        /\ UNCHANGED <<directory, content, wanted>>
    BY DEF Editing!Kill, Editing!Quit, Editing!None
  <1>1. \A a, b \in Editing!Names : ApartAt(a, b)'
    BY <1>a, <1>c DEF ApartAt, There
  <1>2. \A p, q \in Runs : PairAt(p, q)'
    BY <1>a, <1>b, <1>c DEF PairAt, Editing!Active
  <1>3. \A q \in Runs : RunAt(q)'
    BY <1>a, <1>b, <1>c DEF RunAt, There, TextOf
  <1>4. \A f \in Files : FileAt(f)'
    BY <1>a, <1>c DEF FileAt, There, TextOf
  <1> QED BY <1>1, <1>2, <1>3, <1>4, <1>b DEF Neat

LEMMA EditStep == EditInv /\ [Editing!Next]_Editing!vars => EditInv'
  <1> SUFFICES ASSUME EditInv, [Editing!Next]_Editing!vars, ~spoilt' PROVE Neat'
    BY EditTypesStep DEF EditInv
  <1>1. EditTypes
    BY DEF EditInv
  <1>2. ~spoilt
    BY <1>1 DEF EditTypes, Editing!Next, Editing!Edit, Editing!vars, Editing!Open,
           Editing!AppendLine, Editing!OpenTemp, Editing!Read, Editing!CloseTemp,
           Editing!Unlink, Editing!Rename, Editing!Kill
  <1>3. Neat
    BY <1>2 DEF EditInv
  <1>4. ASSUME NEW r \in Runs,
           Editing!Edit(r) \/ Editing!Kill(r) PROVE Neat'
    BY <1>1, <1>3, <1>4, OpenStep, AppendStep, OpenTempStep, ReadStep, CloseTempStep,
       UnlinkStep, RenameStep, KillStep, Zenon DEF Editing!Edit
  <1>5. CASE UNCHANGED Editing!vars
    <2>1. /\ \A a, b \in Editing!Names : ApartAt(a, b)' <=> ApartAt(a, b)
          /\ \A p, q \in Runs : PairAt(p, q)' <=> PairAt(p, q)
          /\ \A q \in Runs : RunAt(q)' <=> RunAt(q)
          /\ \A f \in Files : FileAt(f)' <=> FileAt(f)
          /\ Editing!Names' = Editing!Names
      BY <1>5 DEF Editing!vars, Editing!runVars, ApartAt, PairAt, RunAt, FileAt, There, TextOf,
             Editing!Active, Editing!Edits, Editing!After, Editing!Names, Editing!Temp
    <2> QED BY <1>3, <2>1 DEF Neat
  <1> QED BY <1>4, <1>5 DEF Editing!Next

LEMMA NoLineLostOfInv == EditInv => Editing!NoLineLost
  <1> SUFFICES ASSUME EditInv, ~spoilt, NEW f \in Files
               PROVE  LET i0 == IF There(f) THEN directory[f] ELSE directory["temp.txt"]
                      IN  i0 # 0 /\ content[i0] = wanted[f]
    BY DEF Editing!NoLineLost, There, Editing!None, Editing!Temp
  <1>1. FileAt(f)
    BY DEF EditInv, Neat
  <1> QED BY <1>1 DEF FileAt, There, TextOf

-----------------------------------------------------------------------------
(* Among the programs *)

\* While another program runs the variables of these stay as they are.
LEMMA OneBegins ==
    ProgramsInit =>
        /\ Counting!Init /\ Shooting!Init /\ Alarming!Init /\ Nicing!Init /\ Piping!Init
        /\ Editing!Init /\ Computing!Init
  BY DEF ProgramsInit

LEMMA OneRuns ==
    [ProgramsNext]_programsVars =>
        /\ [Counting!Next]_Counting!vars /\ [Shooting!Next]_Shooting!vars
        /\ [Alarming!Next]_Alarming!vars /\ [Nicing!Next]_Nicing!vars
        /\ [Piping!Next]_Piping!vars /\ [Editing!Next]_Editing!vars
        /\ [Computing!Next]_Computing!vars
  BY DEF ProgramsNext, programsVars, countingVars, shootingVars, alarmingVars, nicingVars,
         pipingVars, editingVars, computingVars, Editing!vars, Editing!runVars, Counting!vars,
         Shooting!vars, Alarming!vars, Nicing!vars, Nicing!bossVars, Piping!vars,
         Piping!shellVars, Computing!vars

LEMMA SchedulerAlone == ProgramsSpec => Spec
  <1>1. ProgramsInit => Init
    BY DEF ProgramsInit
  <1>2. [ProgramsNext]_programsVars => [Next]_vars
    BY DEF ProgramsNext, programsVars
  <1> QED BY <1>1, <1>2, PTL DEF ProgramsSpec, Spec

\* What main prints is right in both Counter and MonteCarlo, whatever the sizes
\* (shared_mutex.c:22-29; mc_pi.c:51-70).
THEOREM TotalsAreRight == ProgramsSpec => []TotalsRight
  <1>1. CounterInv => Counting!PrintsBalance
    BY BalanceOfInv
  <1>2. ShotsInv => Shooting!TotalsOfWholeRounds
    BY RoundsOfInv
  <1>3. CounterInv /\ ShotsInv => TotalsRight
    BY <1>1, <1>2 DEF TotalsRight
  <1> QED BY <1>3, OneBegins, OneRuns, CounterInit, CounterStep, ShotsInit, ShotsStep, PTL
          DEF ProgramsSpec

\* sleep1 returns what was left of its time, at most half a second more; the alarm of
\* signal.c is never lost, and a SIGINT delays it by half a second at most
\* (sleep.c:23-26; signal.c:12-19, 29-47).
THEOREM TimeKept == ProgramsSpec => []TimeIsKept
  <1>1. TimeInv => TimeIsKept
    BY TimeOfInv DEF TimeIsKept
  <1> QED BY <1>1, OneBegins, OneRuns, TimeInit, TimeStep, PTL DEF ProgramsSpec

\* The manager makes every process nicer once and gives its copies their niceness,
\* whatever the monitor, and processes that end or fork, do meanwhile
\* (process_priority_manager.sh:32-48, process_monitor.sh:21, 86-94).
THEOREM AllHelped == ProgramsSpec => []Helped
  <1>1. NiceInv => Helped
    BY HelpedOfInv DEF Helped
  <1> QED BY <1>1, OneBegins, OneRuns, NiceInit, NiceStep, PTL DEF ProgramsSpec

\* A right side that sees the end of its input has had all that was written to it, for
\* any lines, words and capacity of the pipe (lupina_cev.c:86-107).
THEOREM RightSideGetsAll == ProgramsSpec => []RightGetsAll
  <1>1. PipeInv => RightGetsAll
    BY GetsAllOfInv DEF RightGetsAll
  <1> QED BY <1>1, OneBegins, OneRuns, PipeInit, PipeStep, PTL DEF ProgramsSpec

\* Runs of kamned that do not overlap on a file or on temp.txt cost no line, whole or
\* killed anywhere, for any files, texts and lines and any room for files
\* (kamned.c:73, 86-91, 97, 119-122).
THEOREM NoLineIsLost == ProgramsSpec => []NoLineLost
  <1>1. EditInv => NoLineLost
    BY NoLineLostOfInv DEF NoLineLost
  <1> QED BY <1>1, OneBegins, OneRuns, EditInit, EditStep, PTL DEF ProgramsSpec

\* What each of the programs that compute something from a file writes is what it is to
\* write, for any texts, lines, modes, entries, words, lengths and positions
\* (rep.c:42-60; mojChmod.c:74-118; server.c:44-50; word_matcher.sh:95-119).
THEOREM TextsAreRight == ProgramsSpec => []TextsRight
  <1>1. TextInv => TextsRight
    BY LastLinesOfInv, ModesShownOfInv, NumbersOfInv, WordsFoundOfInv DEF TextsRight
  <1> QED BY <1>1, OneBegins, OneRuns, TextInit, TextStep, PTL DEF ProgramsSpec

LEMMA PipeTypesOK == PipeInv => Piping!TypeOK
  BY DEF PipeInv, PipeTypes, QueueAt, Ends, Piping!TypeOK, Piping!Output

LEMMA EditTypesOK == EditInv => Editing!TypeOK
  <1> SUFFICES ASSUME EditInv PROVE Editing!TypeOK
    OBVIOUS
  <1>1. Runs \cup Editing!Range(FirstText) = Items
    BY DEF Items, Editing!Range
  <1> QED BY <1>1 DEF EditInv, EditTypes, Editing!TypeOK, Editing!None

LEMMA NiceTypesOK == NiceInv => Nicing!TypeOK
  BY DEF NiceInv, NiceTypes, Nicing!TypeOK, Nicing!Nobody, Nicing!Live

\* Every variable of the programs keeps its range, for any numbers of threads, clients,
\* commands, runs, rounds, seconds and processes (the globals and locals of the programs).
THEOREM TypesAreCorrect == ProgramsSpec => []TypesOK
  <1>1. ProgramsSpec => []TypeOK
    BY SchedulerAlone, TypeCorrect, PTL
  <1>2. ProgramsSpec => []Serving!TypeOK
    <2>1. Inv => Serving!TypeOK
      BY DEF Inv
    <2> QED BY <2>1, ServersAlone, PTL
  <1>3. ProgramsSpec => [](CounterInv /\ ShotsInv /\ NiceInv)
    BY OneBegins, OneRuns, CounterInit, CounterStep, ShotsInit, ShotsStep, NiceInit, NiceStep, PTL
    DEF ProgramsSpec
  <1>4. ProgramsSpec => [](PipeInv /\ EditInv /\ AlarmTypes /\ TextInv)
    BY OneBegins, OneRuns, PipeInit, PipeStep, EditInit, EditStep, AlarmTypesInit, AlarmTypesStep,
       TextInit, TextStep, PTL DEF ProgramsSpec
  <1>5. CounterInv /\ ShotsInv => Counting!TypeOK /\ Shooting!TypeOK
    BY DEF CounterInv, ShotsInv
  <1>6. TypeOK /\ Serving!TypeOK /\ CounterInv /\ ShotsInv /\ NiceInv /\ PipeInv /\ EditInv
          /\ AlarmTypes /\ TextInv => TypesOK
    BY <1>5, PipeTypesOK, EditTypesOK, NiceTypesOK, AlarmTypesOK, TextTypesOK DEF TypesOK
  <1> QED BY <1>1, <1>2, <1>3, <1>4, <1>6, PTL
=============================================================================
