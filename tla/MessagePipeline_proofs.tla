------------------------ MODULE MessagePipeline_proofs ------------------------
(***************************************************************************)
(* Theorems about MessagePipeline, PipelineRestart and PipelineTimed, for  *)
(* every number of messages, capacity of the queue, number of kills and    *)
(* restarts, and times at which the programs are started.                  *)
(***************************************************************************)
EXTENDS PipelineTimed, PipelineRestart, SequenceTheorems, TLAPS

(***************************************************************************)
(* The lock: until SETVAL nobody can pass it; from then on it is 1 only    *)
(* while nobody is inside, and it is removed only by a go-between that     *)
(* will not enter again.                                                   *)
(***************************************************************************)
LockInv ==
    /\ pc["generator"] \in {"shmget", "semget"} =>
         sem = NoSem /\ pc["posrednik"] \in {"msgget", "shmget", "semget", "done"}
    /\ pc["generator"] = "setval" =>
         sem = 0 /\ pc["posrednik"] \in {"msgget", "shmget", "semget", "lock", "done"}
    /\ pc["generator"] \notin {"shmget", "semget"} /\ sem = NoSem => pc["posrednik"] = "done"
    /\ PInside => sem = 0 /\ ~GInside
    /\ GInside => sem # 1

(***************************************************************************)
(* The generator: what the segment holds is given by where it stands.      *)
(***************************************************************************)
WriteInv ==
    /\ pc["generator"] \in {"shmget", "semget", "setval"} => i = 1 /\ mem = Empty
    /\ pc["generator"] = "lock" => mem = i - 1
    /\ pc["generator"] = "sprintf" => mem = i - 1 /\ i <= N
    /\ pc["generator"] = "written" => mem = Torn /\ i <= N
    /\ pc["generator"] = "clear" => mem = i - 1 /\ i = N + 1
    /\ pc["generator"] = "unlock" => mem = IF i <= N THEN i ELSE Empty
    /\ pc["generator"] \in {"exit", "done"} => i = N + 1 /\ mem = Empty

LEMMA InitInv == Init => TypeOK /\ LockInv /\ WriteInv
<1> SUFFICES ASSUME Init PROVE TypeOK /\ LockInv /\ WriteInv
    OBVIOUS
<1> USE DEF Init, Programs, GCalls, PCalls, ZCalls, NoSem, Empty, Torn
<1>1. <<>> \in Seq(Contents)
    BY EmptySeq
<1>2. Empty \in Contents /\ i \in 1..(N + 1)
    BY NAssumption DEF Contents
<1>3. pc \in [Programs -> GCalls \cup PCalls \cup ZCalls]
    OBVIOUS
<1>4. TypeOK
    BY <1>1, <1>2, <1>3 DEF TypeOK, ShmStates
<1>5. LockInv /\ WriteInv
    BY DEF LockInv, WriteInv, PInside, GInside
<1> QED
    BY <1>4, <1>5

LEMMA TypeStep == TypeOK /\ LockInv /\ WriteInv /\ [Next]_vars => TypeOK'
<1> SUFFICES ASSUME TypeOK, LockInv, WriteInv, [Next]_vars PROVE TypeOK'
    OBVIOUS
<1> USE NAssumption DEF TypeOK, Programs, GCalls, PCalls, ZCalls, Contents, ShmStates,
        NoSem, Empty, Torn, Go, Silent,
        SemStep, MemStep, board, queueVars, locals, posted, written, AfterUp, AfterDown,
        CanDown, AfterSemget
<1>1. CASE GShmget  BY <1>1 DEF GShmget
<1>2. CASE GSemget  BY <1>2 DEF GSemget
<1>3. CASE GSetval  BY <1>3 DEF GSetval
<1>4. CASE GLock  BY <1>4 DEF GLock, GLocked, Writing
<1>5. CASE GWriteBegin  BY <1>5 DEF GWriteBegin
<1>6. CASE GWriteEnd  BY <1>6 DEF GWriteEnd, WriteInv
<1>7. CASE GClear  BY <1>7 DEF GClear
<1>8. CASE GUnlock  BY <1>8 DEF GUnlock, Writing, LockInv, GInside
<1>9. CASE GExit  BY <1>9 DEF GExit, AfterLastDetach
<1>10. CASE PMsgget  BY <1>10 DEF PMsgget
<1>11. CASE PShmget  BY <1>11 DEF PShmget
<1>12. CASE PSemget  BY <1>12 DEF PSemget
<1>13. CASE PLock  BY <1>13 DEF PLock
<1>14. CASE PCompareNew  BY <1>14 DEF PCompareNew
<1>15. CASE PCompareOld  BY <1>15 DEF PCompareOld
<1>16. CASE PCopy  BY <1>16 DEF PCopy
<1>17. CASE PAccepted  BY <1>17 DEF PAccepted
<1>18. CASE PSendFails  BY <1>18 DEF PSendFails
<1>19. CASE PRemember  BY <1>19 DEF PRemember
<1>20. CASE PUnlock  BY <1>20 DEF PUnlock, LockInv, PInside
<1>21. CASE PCheck  BY <1>21 DEF PCheck
<1>22. CASE PShmctl  BY <1>22 DEF PShmctl, AfterShmRmid
<1>23. CASE PSemctl  BY <1>23 DEF PSemctl
<1>24. CASE ZMsgget  BY <1>24, EmptySeq DEF ZMsgget
<1>25. CASE ZWrite  BY <1>25 DEF ZWrite
<1>26. CASE ZEnd  BY <1>26 DEF ZEnd
<1>27. CASE ZFclose  BY <1>27, EmptySeq DEF ZFclose
<1>28. CASE ZMsgctl  BY <1>28, EmptySeq DEF ZMsgctl
<1>29. CASE UNCHANGED vars  BY <1>29 DEF vars
<1> QED
    BY <1>1, <1>2, <1>3, <1>4, <1>5, <1>6, <1>7, <1>8, <1>9, <1>10, <1>11, <1>12, <1>13,
       <1>14, <1>15, <1>16, <1>17, <1>18, <1>19, <1>20, <1>21, <1>22, <1>23, <1>24, <1>25,
       <1>26, <1>27, <1>28, <1>29 DEF Next, Generator, Posrednik, Zapisovalec, PSend

LEMMA LockStep == TypeOK /\ LockInv /\ [Next]_vars => LockInv'
<1> SUFFICES ASSUME TypeOK, LockInv, [Next]_vars PROVE LockInv'
    OBVIOUS
<1> USE DEF TypeOK, LockInv, Programs, GCalls, PCalls, ZCalls, GInside, PInside, NoSem, Go, Silent,
        SemStep, MemStep, board, queueVars, locals, AfterUp, AfterDown, CanDown, AfterSemget
<1>1. CASE GShmget  BY <1>1 DEF GShmget
<1>2. CASE GSemget  BY <1>2 DEF GSemget
<1>3. CASE GSetval  BY <1>3 DEF GSetval
<1>4. CASE GLock  BY <1>4 DEF GLock, GLocked, Writing
<1>5. CASE GWriteBegin  BY <1>5 DEF GWriteBegin
<1>6. CASE GWriteEnd  BY <1>6 DEF GWriteEnd
<1>7. CASE GClear  BY <1>7 DEF GClear
<1>8. CASE GUnlock  BY <1>8 DEF GUnlock, Writing
<1>9. CASE GExit  BY <1>9 DEF GExit
<1>10. CASE PMsgget  BY <1>10 DEF PMsgget
<1>11. CASE PShmget  BY <1>11 DEF PShmget
<1>12. CASE PSemget  BY <1>12 DEF PSemget
<1>13. CASE PLock  BY <1>13 DEF PLock
<1>14. CASE PCompareNew  BY <1>14 DEF PCompareNew
<1>15. CASE PCompareOld  BY <1>15 DEF PCompareOld
<1>16. CASE PCopy  BY <1>16 DEF PCopy
<1>17. CASE PAccepted  BY <1>17 DEF PAccepted
<1>18. CASE PSendFails  BY <1>18 DEF PSendFails
<1>19. CASE PRemember  BY <1>19 DEF PRemember
<1>20. CASE PUnlock  BY <1>20 DEF PUnlock
<1>21. CASE PCheck  BY <1>21 DEF PCheck
<1>22. CASE PShmctl  BY <1>22 DEF PShmctl
<1>23. CASE PSemctl  BY <1>23 DEF PSemctl
<1>24. CASE ZMsgget  BY <1>24 DEF ZMsgget
<1>25. CASE ZWrite  BY <1>25 DEF ZWrite
<1>26. CASE ZEnd  BY <1>26 DEF ZEnd
<1>27. CASE ZFclose  BY <1>27 DEF ZFclose
<1>28. CASE ZMsgctl  BY <1>28 DEF ZMsgctl
<1>29. CASE UNCHANGED vars  BY <1>29 DEF vars
<1> QED
    BY <1>1, <1>2, <1>3, <1>4, <1>5, <1>6, <1>7, <1>8, <1>9, <1>10, <1>11, <1>12, <1>13,
       <1>14, <1>15, <1>16, <1>17, <1>18, <1>19, <1>20, <1>21, <1>22, <1>23, <1>24, <1>25,
       <1>26, <1>27, <1>28, <1>29 DEF Next, Generator, Posrednik, Zapisovalec, PSend

LEMMA WriteStep == TypeOK /\ LockInv /\ WriteInv /\ [Next]_vars => WriteInv'
<1> SUFFICES ASSUME TypeOK, LockInv, WriteInv, [Next]_vars PROVE WriteInv'
    OBVIOUS
<1> USE NAssumption DEF TypeOK, WriteInv, Programs, GCalls, PCalls, ZCalls, Contents,
        Empty, Torn, Go,
        Silent, SemStep, MemStep, board, queueVars, locals, posted, written
<1>1. CASE GShmget  BY <1>1 DEF GShmget
<1>2. CASE GSemget  BY <1>2 DEF GSemget
<1>3. CASE GSetval  BY <1>3 DEF GSetval, LockInv, NoSem
<1>4. CASE GLock  BY <1>4 DEF GLock, GLocked, Writing
<1>5. CASE GWriteBegin  BY <1>5 DEF GWriteBegin
<1>6. CASE GWriteEnd  BY <1>6 DEF GWriteEnd
<1>7. CASE GClear  BY <1>7 DEF GClear
<1>8. CASE GUnlock  BY <1>8 DEF GUnlock, Writing
<1>9. CASE GExit  BY <1>9 DEF GExit
<1>10. CASE PMsgget  BY <1>10 DEF PMsgget
<1>11. CASE PShmget  BY <1>11 DEF PShmget
<1>12. CASE PSemget  BY <1>12 DEF PSemget
<1>13. CASE PLock  BY <1>13 DEF PLock
<1>14. CASE PCompareNew  BY <1>14 DEF PCompareNew
<1>15. CASE PCompareOld  BY <1>15 DEF PCompareOld
<1>16. CASE PCopy  BY <1>16 DEF PCopy
<1>17. CASE PAccepted  BY <1>17 DEF PAccepted
<1>18. CASE PSendFails  BY <1>18 DEF PSendFails
<1>19. CASE PRemember  BY <1>19 DEF PRemember
<1>20. CASE PUnlock  BY <1>20 DEF PUnlock
<1>21. CASE PCheck  BY <1>21 DEF PCheck
<1>22. CASE PShmctl  BY <1>22 DEF PShmctl
<1>23. CASE PSemctl  BY <1>23 DEF PSemctl
<1>24. CASE ZMsgget  BY <1>24 DEF ZMsgget
<1>25. CASE ZWrite  BY <1>25 DEF ZWrite
<1>26. CASE ZEnd  BY <1>26 DEF ZEnd
<1>27. CASE ZFclose  BY <1>27 DEF ZFclose
<1>28. CASE ZMsgctl  BY <1>28 DEF ZMsgctl
<1>29. CASE UNCHANGED vars  BY <1>29 DEF vars
<1> QED
    BY <1>1, <1>2, <1>3, <1>4, <1>5, <1>6, <1>7, <1>8, <1>9, <1>10, <1>11, <1>12, <1>13,
       <1>14, <1>15, <1>16, <1>17, <1>18, <1>19, <1>20, <1>21, <1>22, <1>23, <1>24, <1>25,
       <1>26, <1>27, <1>28, <1>29 DEF Next, Generator, Posrednik, Zapisovalec, PSend

LEMMA CoreInvariant == Spec => [](TypeOK /\ LockInv /\ WriteInv)
<1>1. Init => TypeOK /\ LockInv /\ WriteInv
    BY InitInv
<1>2. TypeOK /\ LockInv /\ WriteInv /\ [Next]_vars => (TypeOK /\ LockInv /\ WriteInv)'
    BY TypeStep, LockStep, WriteStep
<1> QED
    BY <1>1, <1>2, PTL DEF Spec

\* Every variable keeps its range: in particular the semaphore is never raised
\* above 1, and the generator writes no message after N (generator.c:60-75).
THEOREM TypeCorrect == Spec => []TypeOK
BY CoreInvariant, PTL

\* Generator and go-between are never both inside the critical section, from the
\* creation of the semaphore to its removal under the generator.
THEOREM Exclusion == Spec => []MutualExclusion
<1>1. TypeOK /\ LockInv /\ WriteInv => MutualExclusion
    BY DEF LockInv, MutualExclusion
<1> QED
    BY <1>1, CoreInvariant, PTL
(***************************************************************************)
(* The go-between: what it has decided about the segment stays true while  *)
(* it is inside, and what it has sent lies behind the generator.           *)
(***************************************************************************)
SentBehind ==
    \A b \in DOMAIN sent :
        /\ sent[b] <= i - 1
        /\ sent[b] = Empty => pc["generator"] \in {"exit", "done"}

RelayInv ==
    /\ LastAgreesWithQueue
    /\ pc["posrednik"] \in {"msgget", "shmget", "semget"} => last = LastSent
    /\ pc["posrednik"] \in {"strcpy", "msgsnd"} => mem # last
    /\ pc["posrednik"] = "msgsnd" => msgbuf = mem
    /\ pc["posrednik"] = "remember" => mem = LastSent
    /\ RelayedInOrder
    /\ SentBehind

\* While the go-between is inside, the generator is outside its own critical
\* section and past SETVAL, so the segment holds the last message or nothing.
LEMMA SegmentWhileInside ==
    TypeOK /\ LockInv /\ WriteInv /\ PInside =>
        \/ pc["generator"] = "lock" /\ mem = i - 1
        \/ pc["generator"] \in {"exit", "done"} /\ mem = Empty /\ i = N + 1
BY DEF TypeOK, LockInv, WriteInv, PInside, GInside, GCalls, NoSem

\* A send keeps the order: the message is neither the last one sent nor older.
LEMMA SendKeepsOrder ==
    ASSUME TypeOK, LockInv, WriteInv, RelayInv, PAccepted
    PROVE  RelayedInOrder' /\ SentBehind' /\ LastSent' = mem'
<1> USE DEF PAccepted, Go, board, Empty
<1>1. pc["posrednik"] = "msgsnd" /\ PInside
    BY DEF PInside
<1>2. msgbuf = mem /\ mem # LastSent
    BY <1>1 DEF RelayInv, LastAgreesWithQueue
<1>3. sent \in Seq(Contents) /\ mem \in Contents /\ sent' = Append(sent, mem)
    BY <1>2 DEF TypeOK
<1>4. /\ Len(sent) \in Nat /\ DOMAIN sent = 1..Len(sent)
      /\ Len(sent') = Len(sent) + 1 /\ DOMAIN sent' = 1..(Len(sent) + 1)
      /\ \A b \in 1..Len(sent) : sent'[b] = sent[b]
      /\ sent'[Len(sent) + 1] = mem /\ sent' # <<>>
    BY <1>3
<1>5. LastSent' = mem'
    BY <1>4 DEF LastSent
<1>6. i' = i /\ pc'["generator"] = pc["generator"] /\ i \in 1..(N + 1)
    BY DEF TypeOK, Programs
<1>7. CASE pc["generator"] = "lock" /\ mem = i - 1
  <2>1. \A b \in DOMAIN sent : sent[b] # Empty /\ sent[b] \in 1..N /\ sent[b] <= i - 1
      BY <1>7 DEF RelayInv, SentBehind, RelayedInOrder
  <2>2. \A b \in DOMAIN sent : sent[b] < mem
    <3> SUFFICES ASSUME NEW b \in DOMAIN sent PROVE sent[b] < mem
        OBVIOUS
    <3>1. Len(sent) \in DOMAIN sent /\ LastSent = sent[Len(sent)]
        BY <1>4 DEF LastSent
    <3>2. sent[b] <= sent[Len(sent)]
      <4>1. CASE b = Len(sent)  BY <4>1, <2>1, NAssumption
      <4>2. CASE b # Len(sent)
        <5>1. \A a \in 1..(Len(sent) - 1) : sent[a] < sent[Len(sent)]
            BY <2>1, <3>1 DEF RelayInv, RelayedInOrder
        <5>2. b \in 1..(Len(sent) - 1)
            BY <1>4, <4>2
        <5> QED
            BY <2>1, <3>1, <5>1, <5>2, NAssumption
      <4> QED  BY <4>1, <4>2
    <3>3. sent[Len(sent)] <= i - 1 /\ sent[Len(sent)] # i - 1
        BY <1>2, <1>7, <2>1, <3>1
    <3>4. sent[b] \in Int /\ sent[Len(sent)] \in Int /\ mem \in Int /\ i \in Int
        BY <1>6, <1>7, <2>1, <3>1, NAssumption
    <3> QED
        BY <1>7, <3>2, <3>3, <3>4
  <2>3. mem \in 1..N
    <3>1. mem # Empty
        BY <1>2, <1>4, <2>1, <2>2, <1>6, <1>7 DEF LastSent
    <3> QED
        BY <3>1, <1>6, <1>7, NAssumption
  <2>4. RelayedInOrder'
      BY <1>4, <2>1, <2>2, <2>3 DEF RelayInv, RelayedInOrder
  <2>5. SentBehind'
      BY <1>4, <1>6, <1>7, <2>1, <2>3, NAssumption DEF SentBehind
  <2> QED
      BY <1>5, <2>4, <2>5
<1>8. CASE pc["generator"] \in {"exit", "done"} /\ mem = Empty /\ i = N + 1
  <2>1. sent # <<>> /\ \A b \in DOMAIN sent : sent[b] # Empty
    <3>1. sent # <<>> /\ sent[Len(sent)] # Empty
        BY <1>2, <1>8 DEF LastSent
    <3> QED
        BY <1>4, <3>1 DEF RelayInv, RelayedInOrder
  <2>2. RelayedInOrder'
      BY <1>3, <1>4, <1>8, <2>1 DEF RelayInv, RelayedInOrder
  <2>3. SentBehind'
      BY <1>4, <1>6, <1>8, NAssumption DEF RelayInv, SentBehind
  <2> QED
      BY <1>5, <2>2, <2>3
<1> QED
    BY <1>1, <1>7, <1>8, SegmentWhileInside

LEMMA RelayStep ==
    TypeOK /\ LockInv /\ WriteInv /\ RelayInv /\ [Next]_vars => RelayInv'
<1> SUFFICES ASSUME TypeOK, LockInv, WriteInv, RelayInv, [Next]_vars PROVE RelayInv'
    OBVIOUS
<1>0. sent' = sent => RelayedInOrder' /\ LastSent' = LastSent
    BY DEF RelayInv, RelayedInOrder, LastSent
<1> USE NAssumption, <1>0 DEF TypeOK, RelayInv, LastAgreesWithQueue, SentBehind, Programs,
        GCalls, PCalls, ZCalls, Empty, Torn, Go, Silent, SemStep, MemStep, board,
        queueVars, locals, posted, written
<1>1. CASE GShmget  BY <1>1 DEF GShmget, LockInv, WriteInv
<1>2. CASE GSemget  BY <1>2 DEF GSemget
<1>3. CASE GSetval  BY <1>3 DEF GSetval, LockInv, NoSem
<1>4. CASE GLock  BY <1>4 DEF GLock, GLocked, Writing
<1>5. CASE GWriteBegin  BY <1>5 DEF GWriteBegin, LockInv, GInside, PInside
<1>6. CASE GWriteEnd  BY <1>6 DEF GWriteEnd, LockInv, GInside, PInside
<1>7. CASE GClear  BY <1>7 DEF GClear, LockInv, GInside, PInside
<1>8. CASE GUnlock
  <2>1. \A b \in DOMAIN sent : sent[b] \in Int
      BY DEF Contents
  <2>2. SentBehind'
      BY <1>8, <2>1 DEF GUnlock, Writing
  <2> QED
      BY <1>8, <2>2 DEF GUnlock, Writing, LockInv, GInside, PInside
<1>9. CASE GExit  BY <1>9 DEF GExit
<1>10. CASE PMsgget  BY <1>10 DEF PMsgget
<1>11. CASE PShmget  BY <1>11 DEF PShmget
<1>12. CASE PSemget  BY <1>12 DEF PSemget
<1>13. CASE PLock  BY <1>13 DEF PLock
<1>14. CASE PCompareNew  BY <1>14 DEF PCompareNew
<1>15. CASE PCompareOld  BY <1>15 DEF PCompareOld
<1>16. CASE PCopy  BY <1>16 DEF PCopy
<1>17. CASE PAccepted
    BY <1>17, SendKeepsOrder DEF PAccepted
<1>18. CASE PSendFails  BY <1>18 DEF PSendFails
<1>19. CASE PRemember  BY <1>19 DEF PRemember
<1>20. CASE PUnlock  BY <1>20 DEF PUnlock
<1>21. CASE PCheck  BY <1>21 DEF PCheck
<1>22. CASE PShmctl  BY <1>22 DEF PShmctl
<1>23. CASE PSemctl  BY <1>23 DEF PSemctl
<1>24. CASE ZMsgget  BY <1>24 DEF ZMsgget
<1>25. CASE ZWrite  BY <1>25 DEF ZWrite
<1>26. CASE ZEnd  BY <1>26 DEF ZEnd
<1>27. CASE ZFclose  BY <1>27 DEF ZFclose
<1>28. CASE ZMsgctl  BY <1>28 DEF ZMsgctl
<1>29. CASE UNCHANGED vars  BY <1>29 DEF vars
<1> QED
    BY <1>1, <1>2, <1>3, <1>4, <1>5, <1>6, <1>7, <1>8, <1>9, <1>10, <1>11, <1>12, <1>13,
       <1>14, <1>15, <1>16, <1>17, <1>18, <1>19, <1>20, <1>21, <1>22, <1>23, <1>24, <1>25,
       <1>26, <1>27, <1>28, <1>29 DEF Next, Generator, Posrednik, Zapisovalec, PSend

LEMMA FullInvariant == Spec => [](TypeOK /\ LockInv /\ WriteInv /\ RelayInv)
<1>1. Init => RelayInv
    BY DEF Init, RelayInv, LastAgreesWithQueue, LastSent, RelayedInOrder, SentBehind
<1>2. TypeOK /\ LockInv /\ WriteInv /\ RelayInv /\ [Next]_vars => RelayInv'
    BY RelayStep
<1> QED
    BY <1>1, <1>2, CoreInvariant, PTL DEF Spec

\* Every message in the queue is whole, in order and there once, the empty one
\* last, for any number of messages and any capacity of the queue.
THEOREM OrderKept == Spec => []RelayedInOrder
<1>1. RelayInv => RelayedInOrder
    BY DEF RelayInv
<1> QED
    BY <1>1, FullInvariant, PTL

\* last_msg is the last message that was sent whenever the go-between decides by it.
THEOREM LastAgrees == Spec => []LastAgreesWithQueue
<1>1. RelayInv => LastAgreesWithQueue
    BY DEF RelayInv
<1> QED
    BY <1>1, FullInvariant, PTL

\* The relay as a whole is orderly: lock, order and last_msg (posrednik.c:75-103).
THEOREM RelayIsOrderly == Spec => []OrderlyRelay
<1>1. MutualExclusion /\ RelayedInOrder /\ LastAgreesWithQueue => OrderlyRelay
    BY DEF OrderlyRelay
<1> QED
    BY <1>1, Exclusion, OrderKept, LastAgrees, PTL
(***************************************************************************)
(* Refinement: the end of sprintf and the clearing are the writes of the   *)
(* register, msgsnd is the read; every other call stutters.                *)
(***************************************************************************)
LEMMA RegisterStep ==
    TypeOK /\ LockInv /\ WriteInv /\ RelayInv /\ [Next]_vars => [Register!Next]_(Register!vars)
<1> SUFFICES ASSUME TypeOK, LockInv, WriteInv, RelayInv, [Next]_vars
             PROVE  [Register!Next]_(Register!vars)
    OBVIOUS
<1> USE NAssumption DEF TypeOK, WriteInv, Programs, GCalls, PCalls, ZCalls, Contents,
        Empty, Torn, Go, Silent,
        SemStep, MemStep, board, queueVars, locals, posted, written, Register!vars, nextWrite,
        register
<1>1. CASE GShmget  BY <1>1 DEF GShmget
<1>2. CASE GSemget  BY <1>2 DEF GSemget
<1>3. CASE GSetval  BY <1>3 DEF GSetval, LockInv, NoSem
<1>4. CASE GLock  BY <1>4 DEF GLock, GLocked, Writing
<1>5. CASE GWriteBegin  BY <1>5 DEF GWriteBegin
<1>6. CASE GWriteEnd  BY <1>6 DEF GWriteEnd, Register!Next, Register!Write, Register!Empty
<1>7. CASE GClear  BY <1>7 DEF GClear, Register!Next, Register!Write, Register!Empty
<1>8. CASE GUnlock  BY <1>8 DEF GUnlock, Writing
<1>9. CASE GExit  BY <1>9 DEF GExit
<1>10. CASE PMsgget  BY <1>10 DEF PMsgget
<1>11. CASE PShmget  BY <1>11 DEF PShmget
<1>12. CASE PSemget  BY <1>12 DEF PSemget
<1>13. CASE PLock  BY <1>13 DEF PLock
<1>14. CASE PCompareNew  BY <1>14 DEF PCompareNew
<1>15. CASE PCompareOld  BY <1>15 DEF PCompareOld
<1>16. CASE PCopy  BY <1>16 DEF PCopy
<1>17. CASE PAccepted
  <2>1. pc["posrednik"] = "msgsnd" /\ PInside
      BY <1>17 DEF PAccepted, PInside
  <2>2. msgbuf = mem /\ mem # LastSent /\ mem # Torn
      BY <2>1, SegmentWhileInside DEF RelayInv, LastAgreesWithQueue
  <2>3. Register!LastOf(sent) = LastSent
      BY DEF Register!LastOf, LastSent, Register!Empty
  <2>4. Register!Relay
      BY <1>17, <2>2, <2>3 DEF PAccepted, Register!Relay
  <2> QED
      BY <2>4 DEF Register!Next
<1>18. CASE PSendFails  BY <1>18 DEF PSendFails
<1>19. CASE PRemember  BY <1>19 DEF PRemember
<1>20. CASE PUnlock  BY <1>20 DEF PUnlock
<1>21. CASE PCheck  BY <1>21 DEF PCheck
<1>22. CASE PShmctl  BY <1>22 DEF PShmctl
<1>23. CASE PSemctl  BY <1>23 DEF PSemctl
<1>24. CASE ZMsgget  BY <1>24 DEF ZMsgget
<1>25. CASE ZWrite  BY <1>25 DEF ZWrite
<1>26. CASE ZEnd  BY <1>26 DEF ZEnd
<1>27. CASE ZFclose  BY <1>27 DEF ZFclose
<1>28. CASE ZMsgctl  BY <1>28 DEF ZMsgctl
<1>29. CASE UNCHANGED vars  BY <1>29 DEF vars
<1> QED
    BY <1>1, <1>2, <1>3, <1>4, <1>5, <1>6, <1>7, <1>8, <1>9, <1>10, <1>11, <1>12, <1>13,
       <1>14, <1>15, <1>16, <1>17, <1>18, <1>19, <1>20, <1>21, <1>22, <1>23, <1>24, <1>25,
       <1>26, <1>27, <1>28, <1>29 DEF Next, Generator, Posrednik, Zapisovalec, PSend

\* Segment, semaphore and go-between implement the register and its relay: the
\* three reads of a poll and the wait in msgsnd take effect at one instant.
THEOREM RefinesRegister == Spec => ImplementsRegister
<1>1. Init => Register!Init
    BY DEF Init, Register!Init, nextWrite, register, Empty, Torn, Register!Empty
<1>2. TypeOK /\ LockInv /\ WriteInv /\ RelayInv /\ [Next]_vars => [Register!Next]_(Register!vars)
    BY RegisterStep
<1> QED
    BY <1>1, <1>2, FullInvariant, PTL DEF Spec, ImplementsRegister, Register!Spec
(***************************************************************************)
(* The transfer: until the recorder takes the empty message, its buffer    *)
(* and the queue are what was sent; from then on its file and buffer are,  *)
(* and the queue is empty.                                                 *)
(***************************************************************************)
TransferInv ==
    \/ /\ pc["zapisovalec"] \in {"msgget", "msgrcv", "done"}
       /\ file = <<>> /\ sent = outbuf \o queue
    \/ /\ pc["zapisovalec"] \in {"fclose", "msgctl", "done"}
       /\ queue = <<>> /\ sent = (file \o outbuf) \o <<Empty>>

\* Moving the head of one sequence to the end of another keeps the two together.
LEMMA MoveHead ==
    ASSUME NEW S, NEW s \in Seq(S), NEW q \in Seq(S), q # <<>>
    PROVE  Append(s, Head(q)) \o Tail(q) = s \o q
<1>1. /\ Head(q) \in S /\ Head(q) = q[1] /\ Len(q) \in Nat \ {0} /\ Len(s) \in Nat
      /\ Tail(q) \in Seq(S) /\ Len(Tail(q)) = Len(q) - 1
      /\ \A k \in 1..Len(Tail(q)) : Tail(q)[k] = q[k + 1]
    BY HeadTailProperties, EmptySeq, LenProperties
<1>2. /\ Append(s, Head(q)) \in Seq(S) /\ Len(Append(s, Head(q))) = Len(s) + 1
      /\ \A k \in 1..Len(s) : Append(s, Head(q))[k] = s[k]
      /\ Append(s, Head(q))[Len(s) + 1] = q[1]
    BY <1>1, AppendProperties
<1> DEFINE l == Append(s, Head(q)) \o Tail(q)
           r == s \o q
<1>3. /\ l \in Seq(S) /\ Len(l) = Len(s) + Len(q)
      /\ \A k \in 1..(Len(s) + Len(q)) :
            l[k] = IF k <= Len(s) + 1 THEN Append(s, Head(q))[k] ELSE Tail(q)[k - (Len(s) + 1)]
  <2>1. /\ l \in Seq(S) /\ Len(l) = Len(Append(s, Head(q))) + Len(Tail(q))
        /\ \A k \in 1..(Len(Append(s, Head(q))) + Len(Tail(q))) :
              l[k] = IF k <= Len(Append(s, Head(q))) THEN Append(s, Head(q))[k]
                     ELSE Tail(q)[k - Len(Append(s, Head(q)))]
      BY <1>1, <1>2, ConcatProperties
  <2>2. Len(Append(s, Head(q))) + Len(Tail(q)) = Len(s) + Len(q)
      BY <1>1, <1>2
  <2> QED
      BY <1>2, <2>1, <2>2
<1>4. /\ r \in Seq(S) /\ Len(r) = Len(s) + Len(q)
      /\ \A k \in 1..(Len(s) + Len(q)) : r[k] = IF k <= Len(s) THEN s[k] ELSE q[k - Len(s)]
    BY ConcatProperties
<1>5. \A k \in 1..Len(l) : l[k] = r[k]
  <2> SUFFICES ASSUME NEW k \in 1..(Len(s) + Len(q)) PROVE l[k] = r[k]
      BY <1>3
  <2> HIDE DEF l, r
  <2>1. CASE k <= Len(s)
      BY <2>1, <1>1, <1>2, <1>3, <1>4
  <2>2. CASE k = Len(s) + 1
      BY <2>2, <1>1, <1>2, <1>3, <1>4
  <2>3. CASE k > Len(s) + 1
    <3>1. k - (Len(s) + 1) \in 1..Len(Tail(q)) /\ (k - (Len(s) + 1)) + 1 = k - Len(s)
        BY <2>3, <1>1
    <3>2. l[k] = Tail(q)[k - (Len(s) + 1)] /\ r[k] = q[k - Len(s)]
        BY <2>3, <1>1, <1>3, <1>4
    <3> QED
        BY <3>1, <3>2, <1>1
  <2> QED
      BY <2>1, <2>2, <2>3, <1>1
<1> QED
    BY <1>3, <1>4, <1>5, SeqEqual

LEMMA AppendToConcat ==
    ASSUME NEW s \in Seq(Contents), NEW q \in Seq(Contents), NEW e \in Contents
    PROVE  Append(s \o q, e) = s \o Append(q, e)
<1>1. <<e>> \in Seq(Contents) /\ s \o q \in Seq(Contents)
    BY ConcatProperties
<1>2. Append(s \o q, e) = (s \o q) \o <<e>>
    BY <1>1, AppendIsConcat
<1>3. Append(q, e) = q \o <<e>>
    BY AppendIsConcat
<1>4. (s \o q) \o <<e>> = s \o (q \o <<e>>)
    BY <1>1, ConcatAssociative
<1> QED
    BY <1>2, <1>3, <1>4, Zenon

LEMMA TransferStep ==
    ASSUME TypeOK, LockInv, WriteInv, RelayInv, TransferInv, [Next]_vars
    PROVE  TransferInv'
<1>0. /\ queue \in Seq(Contents) /\ outbuf \in Seq(Contents) /\ file \in Seq(Contents)
      /\ sent \in Seq(Contents) /\ msgbuf \in Contents /\ Empty \in Contents
    BY NAssumption DEF TypeOK, Contents, Empty
<1>1. CASE PAccepted
  <2>1. RelayedInOrder' /\ sent' = Append(sent, msgbuf) /\ queue' = Append(queue, msgbuf)
        /\ UNCHANGED <<file, outbuf>> /\ pc'["zapisovalec"] = pc["zapisovalec"]
      BY <1>1, SendKeepsOrder DEF PAccepted, Go, TypeOK, Programs, written
  <2>2. CASE file = <<>> /\ sent = outbuf \o queue /\ pc["zapisovalec"] \in {"msgget", "msgrcv",
      "done"}
    <3>0. Append(outbuf \o queue, msgbuf) = outbuf \o Append(queue, msgbuf)
        BY <1>0, AppendToConcat, Zenon
    <3>1. sent' = outbuf \o queue'
      <4>1. sent' = Append(outbuf \o queue, msgbuf) /\ queue' = Append(queue, msgbuf)
          BY <2>1, <2>2, Zenon
      <4>2. UNCHANGED outbuf
          BY <2>1, Zenon
      <4> QED
          BY <3>0, <4>1, <4>2, Zenon
    <3>2. file' = <<>> /\ pc'["zapisovalec"] \in {"msgget", "msgrcv", "done"}
      <4>1. UNCHANGED file /\ pc'["zapisovalec"] = pc["zapisovalec"]
          BY <2>1, Zenon
      <4> QED
          BY <2>2, <4>1, Zenon
    <3>3. UNCHANGED outbuf
        BY <2>1, Zenon
    <3> QED
        BY <3>1, <3>2, <3>3, Zenon DEF TransferInv
  <2>3. CASE sent = (file \o outbuf) \o <<Empty>>
    <3> DEFINE s == file \o outbuf
    <3>1. s \in Seq(Contents) /\ Empty \in Contents
        BY ConcatProperties, NAssumption DEF TypeOK, Contents, Empty
    <3>2. sent = Append(s, Empty)
        BY <2>3, <3>1, AppendIsConcat
    <3> HIDE DEF s
    <3>3. Len(sent) \in Nat \ {0} /\ sent[Len(sent)] = Empty /\ Len(s) \in Nat
        BY <3>1, <3>2, AppendProperties, LenProperties
    <3>4. /\ Len(sent') = Len(sent) + 1 /\ sent'[Len(sent)] = Empty
          /\ Len(sent) \in DOMAIN sent'
        BY <2>1, <3>3, AppendProperties DEF TypeOK
    <3> QED
        BY <2>1, <3>3, <3>4 DEF RelayedInOrder, Empty
  <2> QED
      BY <2>2, <2>3 DEF TransferInv
<1>2. CASE ZWrite
  <2>1. outbuf' \o queue' = outbuf \o queue
      BY <1>2, MoveHead DEF ZWrite, TypeOK
  <2> QED
      BY <1>2, <2>1 DEF ZWrite, TransferInv, Go, TypeOK, Programs, written, posted
<1>3. CASE ZEnd
  <2>1. sent = outbuf \o queue /\ queue # <<>> /\ Head(queue) = Empty /\ file = <<>>
      BY <1>3 DEF ZEnd, TransferInv
  <2>2. Len(queue) \in Nat \ {0} /\ Len(outbuf) \in Nat /\ queue[1] = Empty
      BY <2>1, EmptySeq DEF TypeOK
  <2>3. Len(sent) = Len(outbuf) + Len(queue) /\ Len(outbuf) + 1 \in DOMAIN sent
        /\ sent[Len(outbuf) + 1] = Empty
    <3>1. Len(outbuf) + 1 \in 1..(Len(outbuf) + Len(queue))
        BY <2>2
    <3>2. /\ Len(sent) = Len(outbuf) + Len(queue)
          /\ \A k \in 1..(Len(outbuf) + Len(queue)) :
                sent[k] = IF k <= Len(outbuf) THEN outbuf[k] ELSE queue[k - Len(outbuf)]
        BY <1>0, <2>1, ConcatProperties
    <3> QED
        BY <1>0, <2>2, <3>1, <3>2, LenProperties
  <2>4. Len(queue) = 1
    <3>1. sent[Len(outbuf) + 1] \notin 1..N
        BY <2>3, NAssumption DEF Empty
    <3>2. Len(outbuf) + 1 = Len(sent)
        BY <2>3, <3>1 DEF RelayInv, RelayedInOrder
    <3> QED
        BY <2>2, <2>3, <3>2
  <2>5. queue = <<Empty>>
      BY <2>2, <2>4 DEF TypeOK
  <2>6. queue' = <<>> /\ sent' = (file' \o outbuf') \o <<Empty>> /\ pc'["zapisovalec"] = "fclose"
    <3>1. <<>> \o outbuf = outbuf
        BY ConcatEmptySeq DEF TypeOK
    <3> QED
        BY <1>3, <2>1, <2>5, <3>1 DEF ZEnd, locals, posted, written, Go, TypeOK, Programs
  <2> QED
      BY <2>6 DEF TransferInv
<1>4. CASE ZFclose
  <2>1. file \o outbuf \in Seq(Contents) /\ queue = <<>> /\ sent = (file \o outbuf) \o <<Empty>>
      BY <1>4, ConcatProperties DEF ZFclose, Go, TypeOK, TransferInv
  <2>2. file' \o outbuf' = file \o outbuf
      BY <1>4, <2>1, ConcatEmptySeq DEF ZFclose
  <2> QED
      BY <1>4, <2>1, <2>2 DEF ZFclose, Go, TypeOK, Programs, queueVars, posted, TransferInv
<1>5. CASE ZMsgctl
    BY <1>5 DEF ZMsgctl, Go, TypeOK, Programs, locals, posted, written, TransferInv
<1>6. CASE ZMsgget
    BY <1>6 DEF ZMsgget, Go, TypeOK, Programs, queueVars, posted, TransferInv
<1>7. CASE ~Zapisovalec /\ ~PAccepted
  <2> SUFFICES UNCHANGED <<queue, outbuf, file, sent>> /\ pc'["zapisovalec"] = pc["zapisovalec"]
      BY DEF TransferInv
  <2> USE DEF TypeOK, Programs, Go, Silent, SemStep, MemStep, queueVars, locals, posted, written
  <2>1. CASE Generator
      BY <2>1 DEF Generator, GShmget, GSemget, GSetval, GLock, GWriteBegin, GWriteEnd,
         GClear, GUnlock, GExit
  <2>2. CASE Posrednik
      BY <1>7, <2>2 DEF Posrednik, PMsgget, PShmget, PSemget, PLock, PCompareNew,
         PCompareOld, PCopy, PSend, PSendFails, PRemember, PUnlock, PCheck, PShmctl, PSemctl
  <2>3. CASE UNCHANGED vars
      BY <2>3 DEF vars
  <2> QED
      BY <1>7, <2>1, <2>2, <2>3 DEF Next
<1> QED
    BY <1>1, <1>2, <1>3, <1>4, <1>5, <1>6, <1>7 DEF Zapisovalec

LEMMA TransferInit == Init => TransferInv
<1>1. <<>> \o <<>> = <<>>
    BY ConcatEmptySeq, EmptySeq
<1> QED
    BY <1>1 DEF Init, TransferInv

\* What msgsnd accepted is, at every moment, in the file, in stdio's buffer or in
\* the queue, in order; msgctl removes a queue that is empty (zapisovalec.c:42-63).
THEOREM NothingIsLost == Spec => []NothingLostAfterSend
<1>1. Init => TransferInv
    BY TransferInit
<1>2. TypeOK /\ LockInv /\ WriteInv /\ RelayInv /\ TransferInv /\ [Next]_vars => TransferInv'
    BY TransferStep
<1>3. TypeOK /\ TransferInv => NothingLostAfterSend
  <2> SUFFICES ASSUME TypeOK, TransferInv PROVE NothingLostAfterSend
      OBVIOUS
  <2>1. CASE file = <<>> /\ sent = outbuf \o queue
    <3>1. sent = file \o outbuf \o <<>> \o queue
        BY <2>1, ConcatEmptySeq DEF TypeOK
    <3> QED
        BY <3>1 DEF NothingLostAfterSend
  <2>2. CASE pc["zapisovalec"] \in {"fclose", "msgctl", "done"}
             /\ queue = <<>> /\ sent = (file \o outbuf) \o <<Empty>>
    <3>1. (file \o outbuf) \o <<Empty>> \in Seq(Contents)
        BY <2>2 DEF TypeOK
    <3>2. sent = file \o outbuf \o <<Empty>> \o queue
        BY <2>2, <3>1, ConcatEmptySeq
    <3> QED
        BY <2>2, <3>2 DEF NothingLostAfterSend
  <2> QED
      BY <2>1, <2>2 DEF TransferInv
<1> QED
    BY <1>1, <1>2, <1>3, FullInvariant, PTL DEF Spec
(***************************************************************************)
(* Kills and restarts.  What of the lock survives them while no SETVAL has *)
(* come upon a go-between that is inside.                                  *)
(***************************************************************************)
RestartRanges ==
    /\ pc \in [Programs -> GCalls \cup PCalls \cup ZCalls]
    /\ pc["generator"] \in GCalls /\ pc["posrednik"] \in PCalls /\ pc["zapisovalec"] \in ZCalls
    /\ sem \in Int /\ sem >= NoSem /\ i \in Nat \ {0}
    /\ mem \in Int /\ msgbuf \in Int /\ sent \in Seq(Int)

RestartLockInv ==
    /\ sem = NoSem => pc["posrednik"] \in {"msgget", "shmget", "semget", "done"}
    /\ ~setvalHeld => /\ sem <= 1
                      /\ PInside => sem = 0 /\ ~GInside
                      /\ GInside => sem # 1

\* Half-written text in the segment is being written, or was left by a kill.
RestartTextInv ==
    ~setvalHeld /\ ~killedMidway =>
        /\ mem = Torn => pc["generator"] = "written"
        /\ msgbuf # Torn
        /\ \A k \in DOMAIN sent : sent[k] # Torn

\* A recorder that has its file open has written nothing to it yet.
RestartFileInv == pc["zapisovalec"] \in {"msgrcv", "fclose"} => file = <<>>

RestartInv == RestartRanges /\ RestartLockInv /\ RestartTextInv /\ RestartFileInv

LEMMA RestartInitInv == RestartInit => RestartInv
<1> SUFFICES ASSUME RestartInit PROVE RestartInv
    OBVIOUS
<1> USE DEF RestartInit, Init, Programs, GCalls, PCalls, ZCalls, NoSem, Empty, Torn
<1>1. pc \in [Programs -> GCalls \cup PCalls \cup ZCalls]
    OBVIOUS
<1>2. RestartRanges
    BY <1>1 DEF RestartRanges
<1> QED
    BY <1>2 DEF RestartInv, RestartLockInv, RestartTextInv, RestartFileInv, PInside, GInside

LEMMA RestartRangesStep == RestartRanges /\ Next => RestartRanges'
<1> SUFFICES ASSUME RestartRanges, Next PROVE RestartRanges'
    OBVIOUS
<1> USE DEF RestartRanges, Programs, GCalls, PCalls, ZCalls, NoSem, Empty, Torn, Go, Silent,
    SemStep, MemStep,
        board, queueVars, locals, posted, written, AfterUp, AfterDown, CanDown, AfterSemget
<1>1. CASE GShmget  BY <1>1 DEF GShmget
<1>2. CASE GSemget  BY <1>2 DEF GSemget
<1>3. CASE GSetval  BY <1>3 DEF GSetval
<1>4. CASE GLock  BY <1>4 DEF GLock, GLocked, Writing
<1>5. CASE GWriteBegin  BY <1>5 DEF GWriteBegin
<1>6. CASE GWriteEnd  BY <1>6 DEF GWriteEnd
<1>7. CASE GClear  BY <1>7 DEF GClear
<1>8. CASE GUnlock  BY <1>8 DEF GUnlock, Writing
<1>9. CASE GExit  BY <1>9 DEF GExit, AfterLastDetach
<1>10. CASE PMsgget  BY <1>10 DEF PMsgget
<1>11. CASE PShmget  BY <1>11 DEF PShmget
<1>12. CASE PSemget  BY <1>12 DEF PSemget
<1>13. CASE PLock  BY <1>13 DEF PLock
<1>14. CASE PCompareNew  BY <1>14 DEF PCompareNew
<1>15. CASE PCompareOld  BY <1>15 DEF PCompareOld
<1>16. CASE PCopy  BY <1>16 DEF PCopy
<1>17. CASE PAccepted  BY <1>17 DEF PAccepted
<1>18. CASE PSendFails  BY <1>18 DEF PSendFails
<1>19. CASE PRemember  BY <1>19 DEF PRemember
<1>20. CASE PUnlock  BY <1>20 DEF PUnlock
<1>21. CASE PCheck  BY <1>21 DEF PCheck
<1>22. CASE PShmctl  BY <1>22 DEF PShmctl, AfterShmRmid
<1>23. CASE PSemctl  BY <1>23 DEF PSemctl
<1>24. CASE ZMsgget  BY <1>24 DEF ZMsgget
<1>25. CASE ZWrite  BY <1>25 DEF ZWrite
<1>26. CASE ZEnd  BY <1>26 DEF ZEnd
<1>27. CASE ZFclose  BY <1>27 DEF ZFclose
<1>28. CASE ZMsgctl  BY <1>28 DEF ZMsgctl
<1> QED
    BY <1>1, <1>2, <1>3, <1>4, <1>5, <1>6, <1>7, <1>8, <1>9, <1>10, <1>11, <1>12, <1>13,
       <1>14, <1>15, <1>16, <1>17, <1>18, <1>19, <1>20, <1>21, <1>22, <1>23, <1>24, <1>25,
       <1>26, <1>27, <1>28
       DEF Next, Generator, Posrednik, Zapisovalec, PSend

LEMMA RestartLockStep == RestartRanges /\ RestartLockInv /\ Work => RestartLockInv'
<1> SUFFICES ASSUME RestartRanges, RestartLockInv, Next,
                    setvalHeld => setvalHeld',
                    pc["generator"] = "setval" /\ pc'["generator"] = "lock" /\ PInside =>
                        setvalHeld'
             PROVE  RestartLockInv'
    BY DEF Work
<1> USE DEF RestartRanges, RestartLockInv, PInside, GInside, Programs, GCalls, PCalls, ZCalls,
        NoSem, Go, Silent, SemStep, MemStep,
        board, queueVars, locals, posted, written, AfterUp, AfterDown, CanDown, AfterSemget
<1>1. CASE GShmget  BY <1>1 DEF GShmget
<1>2. CASE GSemget  BY <1>2 DEF GSemget
<1>3. CASE GSetval  BY <1>3 DEF GSetval
<1>4. CASE GLock  BY <1>4 DEF GLock, GLocked, Writing
<1>5. CASE GWriteBegin  BY <1>5 DEF GWriteBegin
<1>6. CASE GWriteEnd  BY <1>6 DEF GWriteEnd
<1>7. CASE GClear  BY <1>7 DEF GClear
<1>8. CASE GUnlock  BY <1>8 DEF GUnlock, Writing
<1>9. CASE GExit  BY <1>9 DEF GExit, AfterLastDetach
<1>10. CASE PMsgget  BY <1>10 DEF PMsgget
<1>11. CASE PShmget  BY <1>11 DEF PShmget
<1>12. CASE PSemget  BY <1>12 DEF PSemget
<1>13. CASE PLock  BY <1>13 DEF PLock
<1>14. CASE PCompareNew  BY <1>14 DEF PCompareNew
<1>15. CASE PCompareOld  BY <1>15 DEF PCompareOld
<1>16. CASE PCopy  BY <1>16 DEF PCopy
<1>17. CASE PAccepted  BY <1>17 DEF PAccepted
<1>18. CASE PSendFails  BY <1>18 DEF PSendFails
<1>19. CASE PRemember  BY <1>19 DEF PRemember
<1>20. CASE PUnlock  BY <1>20 DEF PUnlock
<1>21. CASE PCheck  BY <1>21 DEF PCheck
<1>22. CASE PShmctl  BY <1>22 DEF PShmctl, AfterShmRmid
<1>23. CASE PSemctl  BY <1>23 DEF PSemctl
<1>24. CASE ZMsgget  BY <1>24 DEF ZMsgget
<1>25. CASE ZWrite  BY <1>25 DEF ZWrite
<1>26. CASE ZEnd  BY <1>26 DEF ZEnd
<1>27. CASE ZFclose  BY <1>27 DEF ZFclose
<1>28. CASE ZMsgctl  BY <1>28 DEF ZMsgctl
<1> QED
    BY <1>1, <1>2, <1>3, <1>4, <1>5, <1>6, <1>7, <1>8, <1>9, <1>10, <1>11, <1>12, <1>13,
       <1>14, <1>15, <1>16, <1>17, <1>18, <1>19, <1>20, <1>21, <1>22, <1>23, <1>24, <1>25,
       <1>26, <1>27, <1>28
       DEF Next, Generator, Posrednik, Zapisovalec, PSend

LEMMA RestartTextStep ==
    RestartRanges /\ RestartLockInv /\ RestartTextInv /\ Work => RestartTextInv'
<1> SUFFICES ASSUME RestartRanges, RestartLockInv, RestartTextInv, Next,
                    setvalHeld => setvalHeld', killedMidway' = killedMidway
             PROVE  RestartTextInv'
    BY DEF Work
<1> SUFFICES ASSUME ~setvalHeld, ~killedMidway
             PROVE  /\ mem' = Torn => pc'["generator"] = "written"
                    /\ msgbuf' # Torn
                    /\ \A k \in DOMAIN sent' : sent'[k] # Torn
    BY DEF RestartTextInv
<1>0. /\ mem = Torn => pc["generator"] = "written"
      /\ msgbuf # Torn
      /\ \A k \in DOMAIN sent : sent[k] # Torn
    BY DEF RestartTextInv
<1> USE <1>0 DEF RestartRanges, Programs, GCalls, PCalls, ZCalls, NoSem, Empty, Torn, Go, Silent,
        SemStep, MemStep, board, queueVars, locals, posted, written
<1>1. CASE GShmget  BY <1>1 DEF GShmget
<1>2. CASE GSemget  BY <1>2 DEF GSemget
<1>3. CASE GSetval  BY <1>3 DEF GSetval
<1>4. CASE GLock  BY <1>4 DEF GLock, GLocked, Writing
<1>5. CASE GWriteBegin  BY <1>5 DEF GWriteBegin
<1>6. CASE GWriteEnd  BY <1>6 DEF GWriteEnd
<1>7. CASE GClear  BY <1>7 DEF GClear
<1>8. CASE GUnlock  BY <1>8 DEF GUnlock, Writing
<1>9. CASE GExit  BY <1>9 DEF GExit, AfterLastDetach
<1>10. CASE PMsgget  BY <1>10 DEF PMsgget
<1>11. CASE PShmget  BY <1>11 DEF PShmget
<1>12. CASE PSemget  BY <1>12 DEF PSemget
<1>13. CASE PLock  BY <1>13 DEF PLock
<1>14. CASE PCompareNew  BY <1>14 DEF PCompareNew
<1>15. CASE PCompareOld  BY <1>15 DEF PCompareOld
<1>16. CASE PCopy  BY <1>16 DEF PCopy, RestartLockInv, PInside, GInside
<1>17. CASE PAccepted  BY <1>17 DEF PAccepted
<1>18. CASE PSendFails  BY <1>18 DEF PSendFails
<1>19. CASE PRemember  BY <1>19 DEF PRemember
<1>20. CASE PUnlock  BY <1>20 DEF PUnlock
<1>21. CASE PCheck  BY <1>21 DEF PCheck
<1>22. CASE PShmctl  BY <1>22 DEF PShmctl, AfterShmRmid
<1>23. CASE PSemctl  BY <1>23 DEF PSemctl
<1>24. CASE ZMsgget  BY <1>24 DEF ZMsgget
<1>25. CASE ZWrite  BY <1>25 DEF ZWrite
<1>26. CASE ZEnd  BY <1>26 DEF ZEnd
<1>27. CASE ZFclose  BY <1>27 DEF ZFclose
<1>28. CASE ZMsgctl  BY <1>28 DEF ZMsgctl
<1> QED
    BY <1>1, <1>2, <1>3, <1>4, <1>5, <1>6, <1>7, <1>8, <1>9, <1>10, <1>11, <1>12, <1>13,
       <1>14, <1>15, <1>16, <1>17, <1>18, <1>19, <1>20, <1>21, <1>22, <1>23, <1>24, <1>25,
       <1>26, <1>27, <1>28
       DEF Next, Generator, Posrednik, Zapisovalec, PSend

LEMMA RestartFileStep == RestartRanges /\ RestartFileInv /\ Next => RestartFileInv'
<1> SUFFICES ASSUME RestartRanges, RestartFileInv, Next PROVE RestartFileInv'
    OBVIOUS
<1> USE DEF RestartRanges, RestartFileInv, Programs, GCalls, PCalls, ZCalls, NoSem, Go, Silent,
        SemStep, MemStep, board, queueVars, locals, posted, written
<1>1. CASE GShmget  BY <1>1 DEF GShmget
<1>2. CASE GSemget  BY <1>2 DEF GSemget
<1>3. CASE GSetval  BY <1>3 DEF GSetval
<1>4. CASE GLock  BY <1>4 DEF GLock, GLocked, Writing
<1>5. CASE GWriteBegin  BY <1>5 DEF GWriteBegin
<1>6. CASE GWriteEnd  BY <1>6 DEF GWriteEnd
<1>7. CASE GClear  BY <1>7 DEF GClear
<1>8. CASE GUnlock  BY <1>8 DEF GUnlock, Writing
<1>9. CASE GExit  BY <1>9 DEF GExit, AfterLastDetach
<1>10. CASE PMsgget  BY <1>10 DEF PMsgget
<1>11. CASE PShmget  BY <1>11 DEF PShmget
<1>12. CASE PSemget  BY <1>12 DEF PSemget
<1>13. CASE PLock  BY <1>13 DEF PLock
<1>14. CASE PCompareNew  BY <1>14 DEF PCompareNew
<1>15. CASE PCompareOld  BY <1>15 DEF PCompareOld
<1>16. CASE PCopy  BY <1>16 DEF PCopy
<1>17. CASE PAccepted  BY <1>17 DEF PAccepted
<1>18. CASE PSendFails  BY <1>18 DEF PSendFails
<1>19. CASE PRemember  BY <1>19 DEF PRemember
<1>20. CASE PUnlock  BY <1>20 DEF PUnlock
<1>21. CASE PCheck  BY <1>21 DEF PCheck
<1>22. CASE PShmctl  BY <1>22 DEF PShmctl, AfterShmRmid
<1>23. CASE PSemctl  BY <1>23 DEF PSemctl
<1>24. CASE ZMsgget  BY <1>24 DEF ZMsgget
<1>25. CASE ZWrite  BY <1>25 DEF ZWrite
<1>26. CASE ZEnd  BY <1>26 DEF ZEnd
<1>27. CASE ZFclose  BY <1>27 DEF ZFclose
<1>28. CASE ZMsgctl  BY <1>28 DEF ZMsgctl
<1> QED
    BY <1>1, <1>2, <1>3, <1>4, <1>5, <1>6, <1>7, <1>8, <1>9, <1>10, <1>11, <1>12, <1>13,
       <1>14, <1>15, <1>16, <1>17, <1>18, <1>19, <1>20, <1>21, <1>22, <1>23, <1>24, <1>25,
       <1>26, <1>27, <1>28
       DEF Next, Generator, Posrednik, Zapisovalec, PSend

\* A kill leaves semaphore, segment and queue as they are; that it also leaves
\* half-written text is what killedMidway records.
LEMMA KillStep == ASSUME NEW p \in Programs, RestartInv, Kill(p) PROVE RestartInv'
<1> USE DEF RestartInv, RestartRanges, Kill, Programs, GCalls, PCalls, ZCalls, NoSem, Empty, Torn,
        queueVars, posted
<1>1. RestartRanges'
    OBVIOUS
<1>2. RestartLockInv'
    BY DEF RestartLockInv, PInside, GInside
<1>3. RestartTextInv'
    BY DEF RestartTextInv
<1>4. RestartFileInv'
    BY DEF RestartFileInv
<1> QED
    BY <1>1, <1>2, <1>3, <1>4

LEMMA RerunStep == ASSUME NEW p \in Programs, RestartInv, Rerun(p) PROVE RestartInv'
<1> USE DEF RestartInv, RestartRanges, Rerun, Programs, GCalls, PCalls, ZCalls, NoSem, Empty, Torn,
        board, queueVars, written
<1>1. RestartRanges'
    OBVIOUS
<1>2. RestartLockInv'
    BY DEF RestartLockInv, PInside, GInside
<1>3. RestartTextInv'
    BY DEF RestartTextInv
<1>4. RestartFileInv'
    BY DEF RestartFileInv
<1> QED
    BY <1>1, <1>2, <1>3, <1>4

LEMMA RestartInvariant == RestartSpec => []RestartInv
<1>1. RestartInv /\ [RestartNext]_restartVars => RestartInv'
  <2> SUFFICES ASSUME RestartInv, [RestartNext]_restartVars PROVE RestartInv'
      OBVIOUS
  <2>1. CASE Work
      BY <2>1, RestartRangesStep, RestartLockStep, RestartTextStep, RestartFileStep
      DEF RestartInv, Work
  <2>2. CASE \E p \in Programs : Kill(p) \/ Rerun(p)
      BY <2>2, KillStep, RerunStep
  <2>3. CASE UNCHANGED restartVars
      BY <2>3 DEF restartVars, vars, board, queueVars, locals, posted, written, RestartInv,
         RestartRanges, RestartLockInv, RestartTextInv, RestartFileInv, PInside, GInside
  <2> QED
      BY <2>1, <2>2, <2>3 DEF RestartNext
<1> QED
    BY <1>1, RestartInitInv, PTL DEF RestartSpec

\* However often the programs are killed and started again, the lock fails only
\* after a SETVAL that came upon a go-between inside it (generator.c:51-52), and
\* half-written text is queued only then or after a kill inside sprintf.
THEOREM RestartCosts == RestartSpec => []CostOfRestart
<1>1. RestartInv => CostOfRestart
    BY DEF RestartInv, RestartRanges, RestartLockInv, RestartTextInv, CostOfRestart,
       ExclusionUntilSetval, TornOnlyByRestart, MutualExclusion
<1> QED
    BY <1>1, RestartInvariant, PTL

\* The file changes only from empty to all that one recorder took, or back to
\* empty when the next one opens it (zapisovalec.c:36-58).
LEMMA FileStep ==
    ASSUME RestartInv, [RestartNext]_restartVars
    PROVE  file' # file => file' = <<>> \/ (pc["zapisovalec"] = "fclose" /\ file = <<>>)
<1> USE DEF Go, Silent, SemStep, MemStep, locals, posted, written
<1>1. CASE ZMsgget  BY <1>1 DEF ZMsgget
<1>2. CASE ZFclose  BY <1>2 DEF ZFclose, RestartInv, RestartFileInv
<1>3. CASE Next /\ ~ZMsgget /\ ~ZFclose
    BY <1>3 DEF Next, Generator, Posrednik, Zapisovalec, PSend, GShmget, GSemget, GSetval, GLock,
       GWriteBegin, GWriteEnd, GClear, GUnlock, GExit, PMsgget, PShmget, PSemget, PLock,
       PCompareNew, PCompareOld, PCopy, PAccepted, PSendFails, PRemember, PUnlock, PCheck,
       PShmctl, PSemctl, ZWrite, ZEnd, ZMsgctl
<1>4. CASE \E p \in Programs : Kill(p) \/ Rerun(p)
    BY <1>4 DEF Kill, Rerun
<1>5. CASE UNCHANGED restartVars
    BY <1>5 DEF restartVars, vars
<1> QED
    BY <1>1, <1>2, <1>3, <1>4, <1>5 DEF RestartNext, Work

LEMMA LeakStep ==
    ASSUME RestartInv, [RestartNext]_restartVars, sem = 0, ~GInside, ~PInside
    PROVE  sem' = 0 \/ pc["generator"] = "setval" \/ pc["posrednik"] = "semctl"
<1> USE DEF Go, Silent, SemStep, MemStep, GInside, PInside, CanDown, AfterSemget, NoSem
<1>1. CASE Next
    BY <1>1 DEF Next, Generator, Posrednik, Zapisovalec, PSend, GShmget, GSemget, GSetval, GLock,
       GWriteBegin, GWriteEnd, GClear, GUnlock, GExit, PMsgget, PShmget, PSemget, PLock,
       PCompareNew, PCompareOld, PCopy, PAccepted, PSendFails, PRemember, PUnlock, PCheck,
       PShmctl, PSemctl, ZMsgget, ZWrite, ZEnd, ZFclose, ZMsgctl
<1>2. CASE \E p \in Programs : Kill(p) \/ Rerun(p)
    BY <1>2 DEF Kill, Rerun
<1>3. CASE UNCHANGED restartVars
    BY <1>3 DEF restartVars, vars
<1> QED
    BY <1>1, <1>2, <1>3 DEF RestartNext, Work

\* What a kill leaves behind: a file that is whole or empty, and a semaphore that
\* nothing but SETVAL or its removal takes from 0 (semop without SEM_UNDO).
THEOREM KillLeaves == RestartSpec => LeftByKill
<1>1. RestartInv /\ [RestartNext]_restartVars =>
        [file' # file => file' = <<>> \/ (pc["zapisovalec"] = "fclose" /\ file = <<>>)]_restartVars
    BY FileStep
<1>2. RestartInv /\ [RestartNext]_restartVars =>
        [sem = 0 /\ ~GInside /\ ~PInside /\ ~setvalHeld =>
            sem' = 0 \/ pc["generator"] = "setval" \/ pc["posrednik"] = "semctl"]_restartVars
    BY LeakStep
<1>3. RestartSpec => FileOnlyAtMarker
    BY <1>1, RestartInvariant, PTL DEF RestartSpec, FileOnlyAtMarker
<1>4. RestartSpec => LeakedUntilSetval
    BY <1>2, RestartInvariant, PTL DEF RestartSpec, LeakedUntilSetval
<1> QED
    BY <1>3, <1>4 DEF LeftByKill
(***************************************************************************)
(* The clock.  Three facts that need no clock come first: the semaphore is *)
(* free when nobody is inside, the queue goes only with the empty message, *)
(* and a message is sent right behind the one before it.                   *)
(***************************************************************************)
FreeInv ==
    pc["generator"] \notin {"shmget", "semget", "setval"} /\ ~GInside /\ ~PInside =>
        sem # 0 \/ pc["posrednik"] = "done"

QueueInv ==
    ~hasQueue /\ pc["posrednik"] # "msgget" => sent # <<>> /\ LastSent = Empty

UntimedInv ==
    TypeOK /\ LockInv /\ WriteInv /\ RelayInv /\ TransferInv /\ FreeInv /\ QueueInv

\* What has been sent before the generator is through is not the empty message,
\* and is one of those it has written (generator.c:71-88).
LEMMA LastIsBehind ==
    ASSUME TypeOK, LockInv, WriteInv, RelayInv, sent # <<>>
    PROVE  /\ LastSent \in Int /\ LastSent <= i - 1
           /\ pc["generator"] \notin {"exit", "done"} => LastSent >= 1 /\ i > 1
<1>1. Len(sent) \in DOMAIN sent /\ LastSent = sent[Len(sent)] /\ sent[Len(sent)] \in Contents
    BY DEF TypeOK, LastSent
<1>2. LastSent \in Int /\ LastSent <= i - 1
    BY <1>1, NAssumption DEF RelayInv, SentBehind, Contents, Empty, Torn
<1>3. CASE pc["generator"] \notin {"exit", "done"}
  <2>1. sent[Len(sent)] # Empty
      BY <1>1, <1>3 DEF RelayInv, SentBehind
  <2>2. sent[Len(sent)] \in 1..N
      BY <1>1, <2>1 DEF RelayInv, RelayedInOrder
  <2> QED
      BY <1>1, <1>2, <2>2, NAssumption DEF TypeOK
<1> QED
    BY <1>2, <1>3

LEMMA FreeStep == ASSUME TypeOK, LockInv, FreeInv, [Next]_vars PROVE FreeInv'
<1> USE DEF TypeOK, FreeInv, Programs, GCalls, PCalls, GInside, PInside, NoSem, Go, Silent,
        SemStep, MemStep, AfterUp, AfterDown
<1>1. CASE Generator
    BY <1>1 DEF Generator, GShmget, GSemget, GSetval, GLock, GLocked, GWriteBegin, GWriteEnd,
       GClear, GUnlock, GExit, LockInv
<1>2. CASE Posrednik
    BY <1>2 DEF Posrednik, PMsgget, PShmget, PSemget, PLock, PCompareNew, PCompareOld, PCopy,
       PSend, PAccepted, PSendFails, PRemember, PUnlock, PCheck, PShmctl, PSemctl, LockInv
<1>3. CASE Zapisovalec
    BY <1>3 DEF Zapisovalec, ZMsgget, ZWrite, ZEnd, ZFclose, ZMsgctl
<1>4. CASE UNCHANGED vars
    BY <1>4 DEF vars
<1> QED
    BY <1>1, <1>2, <1>3, <1>4 DEF Next

LEMMA QueueStep ==
    ASSUME TypeOK, TransferInv, QueueInv, [Next]_vars
    PROVE  QueueInv'
<1> USE DEF TypeOK, QueueInv, Programs, GCalls, PCalls, Go, Silent, SemStep, MemStep, LastSent,
        queueVars, locals, posted, written
<1>1. CASE Generator
    BY <1>1 DEF Generator, GShmget, GSemget, GSetval, GLock, GWriteBegin, GWriteEnd,
       GClear, GUnlock, GExit
<1>2. CASE PAccepted
    BY <1>2 DEF PAccepted
<1>3. CASE Posrednik /\ ~PAccepted
    BY <1>3 DEF Posrednik, PMsgget, PShmget, PSemget, PLock, PCompareNew, PCompareOld, PCopy,
       PSend, PSendFails, PRemember, PUnlock, PCheck, PShmctl, PSemctl
<1>4. CASE ZMsgctl
  <2>1. sent = (file \o outbuf) \o <<Empty>>
      BY <1>4 DEF ZMsgctl, TransferInv
  <2>2. file \o outbuf \in Seq(Contents) /\ Empty \in Contents
      BY ConcatProperties, NAssumption DEF Contents, Empty
  <2>3. sent = Append(file \o outbuf, Empty)
      BY <2>1, <2>2, AppendIsConcat
  <2> DEFINE s == file \o outbuf
  <2>4. /\ Len(s) \in Nat /\ Len(Append(s, Empty)) = Len(s) + 1
        /\ Append(s, Empty)[Len(s) + 1] = Empty
      BY <2>2, AppendProperties, LenProperties
  <2>5. sent # <<>> /\ LastSent = Empty
    <3> HIDE DEF s
    <3>1. sent = Append(s, Empty) /\ Len(sent) = Len(s) + 1 /\ Len(<<>>) = 0
        BY <2>3, <2>4 DEF s
    <3> QED
        BY <2>4, <3>1
  <2> QED
      BY <1>4, <2>5 DEF ZMsgctl
<1>5. CASE Zapisovalec /\ ~ZMsgctl
    BY <1>5 DEF Zapisovalec, ZMsgget, ZWrite, ZEnd, ZFclose
<1>6. CASE UNCHANGED vars
    BY <1>6 DEF vars
<1> QED
    BY <1>1, <1>2, <1>3, <1>4, <1>5, <1>6 DEF Next

LEMMA UntimedInvariant == Spec => []UntimedInv
<1>1. Init => TransferInv
    BY TransferInit
<1>2. Init => FreeInv /\ QueueInv
    BY DEF Init, FreeInv, QueueInv
<1>3. (TypeOK /\ LockInv /\ WriteInv /\ RelayInv) /\ (TransferInv /\ FreeInv /\ QueueInv)
      /\ [Next]_vars => (TransferInv /\ FreeInv /\ QueueInv)'
    BY TransferStep, FreeStep, QueueStep
<1>4. (TypeOK /\ LockInv /\ WriteInv /\ RelayInv) /\ (TransferInv /\ FreeInv /\ QueueInv)
      => UntimedInv
    BY DEF UntimedInv
<1> QED
    BY <1>1, <1>2, <1>3, <1>4, FullInvariant, PTL DEF Spec

(***************************************************************************)
(* Who can be asleep where, and for how long.  A poll that overlaps with a *)
(* write ends in the instant in which the write does, and the pause after  *)
(* it is over before the generator gives the lock back.                    *)
(***************************************************************************)
ClockInv ==
    /\ asleep \in [Programs -> Nat]
    /\ pc["posrednik"] = "lock" => asleep["posrednik"] <= PollPause
    /\ pc["posrednik"] \notin {"msgget", "lock"} => asleep["posrednik"] = 0
    /\ pc["generator"] = "lock" => asleep["generator"] <= GapPause
    /\ pc["generator"] = "unlock" => asleep["generator"] <= HoldPause
    /\ pc["generator"] \notin {"shmget", "lock", "unlock"} => asleep["generator"] = 0
    /\ pc["generator"] = "unlock" /\ pc["posrednik"] = "lock" /\ asleep["posrednik"] > 0 =>
         asleep["generator"] = HoldPause
    /\ pc["generator"] = "unlock" /\ pc["posrednik"] = "check" => asleep["generator"] = HoldPause

(***************************************************************************)
(* What has been sent when the generator stands there.  Once the           *)
(* go-between has sent something, it sends every message in the pause that *)
(* follows it: in the first instant, or it still waits for room in the     *)
(* queue, with the lock held.                                              *)
(***************************************************************************)
Polling ==
    pc["posrednik"] \in {"lock", "strcmp", "strcpy", "msgsnd", "remember", "unlock", "check"}

AboutToSend ==
    \/ pc["posrednik"] \in {"strcmp", "strcpy", "msgsnd"}
    \/ /\ pc["posrednik"] = "lock" /\ asleep["posrednik"] = 0
       /\ asleep["generator"] = GapPause

MoreToCome ==
    \/ pc["generator"] \in {"lock", "sprintf", "written"}
    \/ pc["generator"] = "unlock" /\ i <= N

GapInv ==
    sent # <<>> /\ pc["generator"] = "lock" =>
        LastSent = i - 1 \/ (LastSent = i - 2 /\ AboutToSend)

HoldInv ==
    sent # <<>> /\ pc["generator"] \in {"sprintf", "written", "clear", "unlock"} =>
        LastSent = i - 1

EndInv ==
    /\ sent # <<>> /\ pc["generator"] \in {"exit", "done"} => LastSent \in {N, Empty}
    /\ pc["generator"] \in {"exit", "done"}
          /\ pc["posrednik"] \in {"remember", "unlock", "check"} => LastSent = Empty

StayInv == sent # <<>> /\ MoreToCome => Polling

\* A poll that has sent nothing found the segment as it was created.
FirstInv ==
    sent = <<>> =>
        /\ pc["posrednik"] \in {"unlock", "check"} => i = 1 \/ pc["generator"] \in {"exit", "done"}
        /\ pc["posrednik"] = "lock" /\ asleep["posrednik"] > 0 => i = 1

SeenInv == GapInv /\ HoldInv /\ EndInv /\ StayInv /\ FirstInv

TimedInv == ClockInv /\ SeenInv /\ MissesNone /\ MarkerMissedOnlyInTheInstant

LEMMA GeneratorRun ==
    ASSUME TypeOK, ClockInv, Run("generator")
    PROVE  /\ Generator /\ asleep["generator"] = 0
           /\ asleep' \in [Programs -> Nat] /\ asleep'["posrednik"] = asleep["posrednik"]
           /\ asleep'["generator"] =
                IF pc["generator"] # "lock" /\ pc'["generator"] = "unlock" THEN HoldPause
                ELSE IF pc["generator"] = "unlock" /\ pc'["generator"] = "lock" THEN GapPause
                ELSE 0
BY DEF TypeOK, ClockInv, Run, StepOf, Pause, Programs, HoldPause, GapPause

LEMMA PosrednikRun ==
    ASSUME TypeOK, ClockInv, Run("posrednik")
    PROVE  /\ Posrednik /\ asleep["posrednik"] = 0
           /\ asleep' \in [Programs -> Nat] /\ asleep'["generator"] = asleep["generator"]
           /\ asleep'["posrednik"] =
                IF pc["posrednik"] = "check" /\ pc'["posrednik"] = "lock" THEN PollPause ELSE 0
BY DEF TypeOK, ClockInv, Run, StepOf, Pause, Programs, PollPause

\* The recorder's steps touch nothing that these invariants are about.
LEMMA ZapisovalecRun ==
    ASSUME TypeOK, ClockInv, Run("zapisovalec")
    PROVE  /\ asleep' \in [Programs -> Nat] /\ asleep'["generator"] = asleep["generator"]
           /\ asleep'["posrednik"] = asleep["posrednik"]
           /\ pc'["generator"] = pc["generator"] /\ pc'["posrednik"] = pc["posrednik"]
           /\ UNCHANGED <<i, mem, last, sent>>
<1>1. /\ Zapisovalec
      /\ asleep' \in [Programs -> Nat] /\ asleep'["generator"] = asleep["generator"]
      /\ asleep'["posrednik"] = asleep["posrednik"]
    BY DEF TypeOK, ClockInv, Run, StepOf, Pause, Programs
<1> QED
    BY <1>1 DEF Zapisovalec, ZMsgget, ZWrite, ZEnd, ZFclose, ZMsgctl, TypeOK, Programs, Go,
       locals, board, posted

\* Time passes only when everybody who is awake waits, and then for all.
LEMMA TickStep ==
    ASSUME TypeOK, ClockInv, Tick
    PROVE  /\ UNCHANGED vars
           /\ \A p \in Programs : asleep[p] = 0 => Waits(p)
           /\ asleep' \in [Programs -> Nat]
           /\ \A p \in Programs : asleep'[p] = IF asleep[p] > 0 THEN asleep[p] - 1 ELSE 0
BY DEF TypeOK, ClockInv, Tick, CanRun, Programs

\* With its clock left out, every step is one of the programs' or a stutter.
LEMMA TimedIsNext == [TimedNext]_timedVars => [Next]_vars
BY DEF TimedNext, timedVars, Tick, Run, StepOf, Next, Programs

LEMMA ClockStep ==
    ASSUME UntimedInv, ClockInv, [TimedNext]_timedVars
    PROVE  ClockInv'
<1> USE DEF UntimedInv, PollPause, HoldPause, GapPause
<1>1. CASE Run("generator")
  <2> USE GeneratorRun, <1>1 DEF TypeOK, Programs, Go, Silent, SemStep, MemStep
  <2>1. CASE GLock  BY <2>1 DEF GLock, GLocked, ClockInv
  <2>2. CASE GWriteBegin  BY <2>2 DEF GWriteBegin, ClockInv
  <2>3. CASE GWriteEnd  BY <2>3 DEF GWriteEnd, ClockInv
  <2>4. CASE GClear  BY <2>4 DEF GClear, ClockInv
  <2>5. CASE GUnlock  BY <2>5 DEF GUnlock, ClockInv
  <2>6. CASE GShmget \/ GSemget \/ GSetval \/ GExit
      BY <2>6 DEF GShmget, GSemget, GSetval, GExit, ClockInv
  <2> QED
      BY <2>1, <2>2, <2>3, <2>4, <2>5, <2>6 DEF Generator
<1>2. CASE Run("posrednik")
  <2> USE PosrednikRun, <1>2 DEF TypeOK, Programs, Go, Silent, SemStep, MemStep, ClockInv
  <2>1. CASE PUnlock
      BY <2>1 DEF PUnlock, LockInv, GInside, PInside
  <2>2. CASE PCheck
      BY <2>2 DEF PCheck
  <2>3. CASE PMsgget \/ PShmget \/ PSemget \/ PLock
      BY <2>3 DEF PMsgget, PShmget, PSemget, PLock
  <2>4. CASE PCompareNew \/ PCompareOld \/ PCopy \/ PSend \/ PRemember
      BY <2>4 DEF PCompareNew, PCompareOld, PCopy, PSend, PAccepted, PSendFails, PRemember
  <2>5. CASE PShmctl \/ PSemctl
      BY <2>5 DEF PShmctl, PSemctl
  <2> QED
      BY <2>1, <2>2, <2>3, <2>4, <2>5 DEF Posrednik
<1>3. CASE Run("zapisovalec")
    BY <1>3, ZapisovalecRun DEF ClockInv
<1>4. CASE Tick
  <2>1. pc["posrednik"] = "check" => FALSE
      BY <1>4, TickStep DEF ClockInv, Waits, Programs
  <2> QED
      BY <1>4, <2>1, TickStep DEF ClockInv, vars, Programs
<1>5. CASE UNCHANGED timedVars
    BY <1>5 DEF timedVars, vars, ClockInv
<1> QED
    BY <1>1, <1>2, <1>3, <1>4, <1>5 DEF TimedNext, Programs

\* One action of the generator at a time: giving the lock back with the pause
\* over finds a go-between that has waited for it, if it has sent anything.
LEMMA SeenGenerator ==
    ASSUME UntimedInv, ClockInv, SeenInv, Run("generator")
    PROVE  SeenInv'
<1> USE GeneratorRun DEF UntimedInv, HoldPause, GapPause, TypeOK, Programs, GCalls, PCalls,
        Go, Silent, SemStep, MemStep, locals, posted, written
<1>0. UNCHANGED sent /\ LastSent' = LastSent /\ pc'["posrednik"] = pc["posrednik"]
    BY DEF Generator, GShmget, GSemget, GSetval, GLock, GWriteBegin, GWriteEnd, GClear, GUnlock,
       GExit, LastSent
<1> USE <1>0 DEF SeenInv, GapInv, HoldInv, EndInv, StayInv, FirstInv, Polling, MoreToCome
<1>1. CASE GShmget \/ GSemget \/ GSetval
  <2>1. pc["generator"] \in {"shmget", "semget", "setval"}
      BY <1>1 DEF GShmget, GSemget, GSetval
  <2>2. i = 1 /\ sent = <<>>
      BY <2>1, LastIsBehind DEF WriteInv
  <2>3. UNCHANGED i /\ pc'["generator"] \in {"semget", "setval", "lock", "exit"}
        /\ asleep'["posrednik"] = asleep["posrednik"]
      BY <1>1 DEF GShmget, GSemget, GSetval
  <2>4. LastSent' = Empty
      BY <2>2 DEF LastSent
  <2> QED
      BY <2>2, <2>3, <2>4
<1>2. CASE GLock
    BY <1>2 DEF GLock, GLocked, Writing, AboutToSend, LockInv, PInside, CanDown, ClockInv
<1>3. CASE GWriteBegin \/ GWriteEnd \/ GClear
    BY <1>3, NAssumption DEF GWriteBegin, GWriteEnd, GClear, WriteInv
<1>4. CASE GUnlock
  <2>1. pc["posrednik"] \notin {"strcmp", "strcpy", "msgsnd", "remember", "unlock", "check"}
      BY <1>4 DEF GUnlock, LockInv, PInside, GInside, ClockInv
  <2>2. pc["posrednik"] = "lock" => asleep["posrednik"] = 0
      BY <1>4 DEF GUnlock, ClockInv
  <2> QED
      BY <1>4, <2>1, <2>2, NAssumption DEF GUnlock, Writing, AboutToSend
<1>5. CASE GExit
    BY <1>5 DEF GExit
<1> QED
    BY <1>1, <1>2, <1>3, <1>4, <1>5 DEF Generator

\* One action of the go-between at a time: the message it sends is the one behind
\* the last it sent, and a poll that finds nothing new has sent it before.
LEMMA SeenPosrednik ==
    ASSUME UntimedInv, ClockInv, SeenInv, Run("posrednik")
    PROVE  SeenInv'
<1> USE PosrednikRun DEF UntimedInv, PollPause, TypeOK, Programs, GCalls, PCalls,
        Go, Silent, SemStep, MemStep, locals, posted, written, board
<1>0. pc'["generator"] = pc["generator"] /\ UNCHANGED i
      /\ (~PAccepted => UNCHANGED sent /\ LastSent' = LastSent)
    BY DEF Posrednik, PMsgget, PShmget, PSemget, PLock, PCompareNew, PCompareOld, PCopy, PSend,
       PAccepted, PSendFails, PRemember, PUnlock, PCheck, PShmctl, PSemctl, LastSent
<1> USE <1>0 DEF SeenInv, GapInv, HoldInv, EndInv, StayInv, FirstInv, Polling, MoreToCome,
        AboutToSend
<1>1. CASE PMsgget \/ PShmget \/ PSemget
    BY <1>1 DEF PMsgget, PShmget, PSemget, PAccepted
<1>2. CASE PLock
    BY <1>2 DEF PLock, PAccepted
<1>3. CASE PCompareNew \/ PCopy
    BY <1>3 DEF PCompareNew, PCopy, PAccepted
<1>4. CASE PCompareOld
  <2>1. PInside /\ last = LastSent /\ mem = last
      BY <1>4, SegmentWhileInside DEF PCompareOld, PInside, RelayInv, LastAgreesWithQueue, Torn,
         Empty
  <2>2. sent = <<>> => LastSent = 0
      BY DEF LastSent, Empty
  <2> QED
      BY <1>4, <2>1, <2>2, SegmentWhileInside DEF PCompareOld, PAccepted, Empty
<1>5. CASE PAccepted
  <2>1. PInside /\ LastSent' = mem /\ sent' # <<>>
      BY <1>5, SendKeepsOrder DEF PAccepted, PInside
  <2> QED
      BY <1>5, <2>1, SegmentWhileInside DEF PAccepted, Empty
<1>6. CASE PSendFails
  <2>1. ~hasQueue /\ pc["posrednik"] = "msgsnd" /\ pc'["posrednik"] = "done" /\ ~PAccepted
      BY <1>6 DEF PSendFails, PAccepted
  <2>2. sent # <<>> /\ LastSent = 0
      BY <2>1 DEF QueueInv, Empty
  <2>3. pc["generator"] \in {"exit", "done"}
      BY <2>2, LastIsBehind
  <2> QED
      BY <2>1, <2>2, <2>3
<1>7. CASE PRemember
  <2>1. PInside /\ mem = LastSent /\ (sent = <<>> => LastSent = 0)
      BY <1>7 DEF PRemember, PInside, RelayInv, LastSent, Empty
  <2> QED
      BY <1>7, <2>1, SegmentWhileInside DEF PRemember, PAccepted
<1>8. CASE PUnlock
    BY <1>8 DEF PUnlock, PAccepted
<1>9. CASE PCheck
  <2>1. /\ ~PAccepted /\ pc["posrednik"] = "check"
        /\ pc'["posrednik"] = IF mem = Empty THEN "shmctl" ELSE "lock"
      BY <1>9 DEF PCheck, PAccepted
  <2>2. sent # <<>> /\ MoreToCome => mem # Empty
      BY LastIsBehind, NAssumption DEF WriteInv, Empty, Torn
  <2>3. pc["generator"] \in {"exit", "done"} => mem = Empty
      BY DEF WriteInv
  <2> QED
      BY <2>1, <2>2, <2>3
<1>10. CASE PShmctl \/ PSemctl
    BY <1>10 DEF PShmctl, PSemctl, PAccepted
<1> QED
    BY <1>1, <1>2, <1>3, <1>4, <1>5, <1>6, <1>7, <1>8, <1>9, <1>10 DEF Posrednik, PSend

\* Time passes: a go-between at rest does not wait for a semaphore that is free,
\* so it has polled before the first second of the pause is over.
LEMMA SeenTick ==
    ASSUME UntimedInv, ClockInv, SeenInv, Tick
    PROVE  SeenInv'
<1>1. /\ UNCHANGED <<pc, mem, sem, i, sent>> /\ LastSent' = LastSent
      /\ "generator" \in Programs /\ "posrednik" \in Programs
      /\ asleep["posrednik"] \in Nat /\ asleep["generator"] \in Nat
      /\ asleep'["posrednik"] <= asleep["posrednik"]
      /\ asleep'["posrednik"] \in Nat
    BY TickStep DEF UntimedInv, vars, board, locals, posted, LastSent, Programs, ClockInv
<1>2. AboutToSend /\ pc["generator"] = "lock" => pc["posrednik"] = "msgsnd"
  <2>1. asleep["posrednik"] = 0 => Waits("posrednik")
      BY <1>1, TickStep DEF UntimedInv
  <2>2. pc["posrednik"] = "lock" /\ pc["generator"] = "lock" => sem # 0
      BY DEF UntimedInv, FreeInv, GInside, PInside
  <2> QED
      BY <2>1, <2>2 DEF AboutToSend, Waits, CanDown, ClockInv
<1> QED
    BY <1>1, <1>2 DEF SeenInv, GapInv, HoldInv, EndInv, StayInv, FirstInv, Polling, MoreToCome,
       AboutToSend

LEMMA SeenStep ==
    ASSUME UntimedInv, ClockInv, SeenInv, [TimedNext]_timedVars
    PROVE  SeenInv'
<1>1. CASE Run("zapisovalec")
    BY <1>1, ZapisovalecRun DEF UntimedInv, SeenInv, GapInv, HoldInv, EndInv, StayInv, FirstInv,
       Polling, MoreToCome, AboutToSend, LastSent
<1>2. CASE UNCHANGED timedVars
    BY <1>2 DEF timedVars, vars, locals, posted, SeenInv, GapInv, HoldInv, EndInv, StayInv,
       FirstInv, Polling, MoreToCome, AboutToSend, LastSent
<1> QED
    BY <1>1, <1>2, SeenGenerator, SeenPosrednik, SeenTick DEF TimedNext, Programs

\* A message that is sent is the one behind the last, or the empty one behind N.
LEMMA MissesNoneStep ==
    ASSUME UntimedInv, SeenInv, MissesNone, [TimedNext]_timedVars
    PROVE  MissesNone'
<1>1. CASE UNCHANGED sent
    BY <1>1 DEF MissesNone
<1>2. CASE PAccepted
  <2> USE <1>2 DEF UntimedInv
  <2>1. PInside /\ mem = msgbuf /\ mem # LastSent
      BY DEF PAccepted, Go, PInside, RelayInv, LastAgreesWithQueue
  <2>2. /\ sent \in Seq(Contents) /\ mem \in Contents /\ sent' = Append(sent, mem)
      BY <2>1 DEF PAccepted, TypeOK
  <2>3. /\ Len(sent) \in Nat /\ Len(sent') = Len(sent) + 1
        /\ \A a \in 1..Len(sent) : sent'[a] = sent[a]
        /\ sent'[Len(sent) + 1] = mem
      BY <2>2
  <2>4. sent # <<>> => /\ LastSent = sent[Len(sent)]
                       /\ mem = IF LastSent = N THEN Empty ELSE LastSent + 1
    <3> SUFFICES ASSUME sent # <<>>
                 PROVE  mem = IF LastSent = N THEN Empty ELSE LastSent + 1
        BY DEF LastSent
    <3>1. CASE pc["generator"] = "lock" /\ mem = i - 1
        BY <2>1, <3>1, LastIsBehind, NAssumption DEF SeenInv, GapInv, TypeOK
    <3>2. CASE pc["generator"] \in {"exit", "done"} /\ mem = Empty
        BY <2>1, <3>2 DEF SeenInv, EndInv
    <3> QED
        BY <2>1, <3>1, <3>2, SegmentWhileInside
  <2>5. SUFFICES ASSUME NEW a \in 1..(Len(sent') - 1)
                 PROVE  sent'[a + 1] = IF sent'[a] = N THEN Empty ELSE sent'[a] + 1
      BY DEF MissesNone
  <2>6. CASE a = Len(sent)
    <3>1. sent # <<>>
        BY <2>3, <2>6
    <3> QED
        BY <2>3, <2>4, <2>6, <3>1
  <2>7. CASE a < Len(sent)
      BY <2>3, <2>7 DEF MissesNone
  <2> QED
      BY <2>3, <2>6, <2>7
<1>3. UNCHANGED sent \/ PAccepted
  <2> USE DEF Go, Silent, SemStep, MemStep, locals, posted
  <2>1. CASE Next
      BY <2>1 DEF Next, Generator, Posrednik, Zapisovalec, PSend, GShmget, GSemget, GSetval, GLock,
         GWriteBegin, GWriteEnd, GClear, GUnlock, GExit, PMsgget, PShmget, PSemget, PLock,
         PCompareNew, PCompareOld, PCopy, PSendFails, PRemember, PUnlock, PCheck, PShmctl,
         PSemctl, ZMsgget, ZWrite, ZEnd, ZFclose, ZMsgctl
  <2>2. CASE UNCHANGED vars
      BY <2>2 DEF vars
  <2> QED
      BY <2>1, <2>2, TimedIsNext
<1> QED
    BY <1>1, <1>2, <1>3

\* A go-between that ends its polling does so before any time passes.
LEMMA MarkerStep ==
    ASSUME UntimedInv, ClockInv, SeenInv, MarkerMissedOnlyInTheInstant, [TimedNext]_timedVars
    PROVE  MarkerMissedOnlyInTheInstant'
<1> USE DEF UntimedInv, MarkerMissedOnlyInTheInstant, HoldPause, LastSent
<1>1. CASE Run("generator")
    BY <1>1, GeneratorRun DEF TypeOK, Programs, Go, Silent, SemStep, MemStep, locals, posted,
       Generator, GShmget, GSemget, GSetval, GLock, GWriteBegin, GWriteEnd, GClear, GUnlock, GExit
<1>2. CASE Run("posrednik")
  <2> USE PosrednikRun, <1>2 DEF TypeOK, Programs, Go, Silent, SemStep, MemStep, locals, posted,
          board
  <2>1. CASE PCheck
    <3> SUFFICES ASSUME mem = Empty, sent # <<>>, LastSent # Empty
                 PROVE  i = N + 1 /\ pc["generator"] = "unlock" /\ asleep["generator"] = 2
        BY <2>1 DEF PCheck
    <3>1. pc["posrednik"] = "check"
        BY <2>1 DEF PCheck
    <3>2. pc["generator"] \notin {"exit", "done"}
        BY <3>1 DEF SeenInv, EndInv
    <3>3. i > 1 /\ i \in Int
        BY <3>2, LastIsBehind
    <3>4. pc["generator"] = "unlock" /\ i = N + 1
        BY <3>2, <3>3, NAssumption DEF WriteInv, Empty, Torn, GCalls
    <3> QED
        BY <3>1, <3>4 DEF ClockInv, HoldPause
  <2>2. CASE Posrednik /\ ~PCheck
      BY <2>2 DEF Posrednik, PSend, PMsgget, PShmget, PSemget, PLock,
         PCompareNew, PCompareOld, PCopy, PAccepted, PSendFails, PRemember, PUnlock, PShmctl,
         PSemctl
  <2> QED
      BY <2>1, <2>2
<1>3. CASE Run("zapisovalec")
    BY <1>3, ZapisovalecRun
<1>4. CASE Tick
  <2>1. pc["posrednik"] # "shmctl"
      BY <1>4, TickStep DEF ClockInv, Waits, Programs
  <2> QED
      BY <1>4, <2>1, TickStep DEF vars
<1>5. CASE UNCHANGED timedVars
    BY <1>5 DEF timedVars, vars, locals, posted
<1> QED
    BY <1>1, <1>2, <1>3, <1>4, <1>5 DEF TimedNext, Programs

LEMMA TimedInvariant == TimedSpec => [](UntimedInv /\ TimedInv)
<1>1. TimedInit => Init /\ TimedInv
  <2> SUFFICES ASSUME TimedInit PROVE Init /\ TimedInv
      OBVIOUS
  <2>1. ClockInv
      BY MaxStartAssumption DEF TimedInit, Init, ClockInv, Programs
  <2>2. SeenInv /\ MissesNone /\ MarkerMissedOnlyInTheInstant
      BY DEF TimedInit, Init, SeenInv, GapInv, HoldInv, EndInv, StayInv, FirstInv, MissesNone,
         MarkerMissedOnlyInTheInstant, LastSent, Empty
  <2> QED
      BY <2>1, <2>2 DEF TimedInit, TimedInv
<1>2. [TimedNext]_timedVars => [Next]_vars
    BY TimedIsNext
<1>3. UntimedInv /\ TimedInv /\ [TimedNext]_timedVars => TimedInv'
    BY ClockStep, SeenStep, MissesNoneStep, MarkerStep DEF TimedInv
<1> QED
    BY <1>1, <1>2, <1>3, UntimedInvariant, PTL DEF TimedSpec, Spec

\* The lengths of the sleeps suffice, for every number of messages, capacity of
\* the queue and times at which the programs are started: once the go-between has
\* relayed something it misses no message, and only the empty one can be missed,
\* in the instant between unlock and test (generator.c:71-88, posrednik.c:103-111).
THEOREM SleepsAreEnough == TimedSpec => []SleepsSuffice
<1>1. UntimedInv /\ TimedInv => RelayedBeforeOverwrite
  <2> SUFFICES ASSUME UntimedInv, TimedInv, pc["generator"] = "sprintf", i > 1,
                      asleep["posrednik"] > 0, pc["posrednik"] = "lock"
               PROVE  LastSent = i - 1
      BY DEF RelayedBeforeOverwrite
  <2>1. sent # <<>>
      BY DEF TimedInv, SeenInv, FirstInv, UntimedInv, TypeOK
  <2> QED
      BY <2>1 DEF TimedInv, SeenInv, HoldInv
<1>2. UntimedInv /\ TimedInv => SleepsSuffice
    BY <1>1 DEF SleepsSuffice, TimedInv
<1> QED
    BY <1>2, TimedInvariant, PTL
=============================================================================
