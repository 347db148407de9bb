------------------------- MODULE MessageBoard_proofs -------------------------
(***************************************************************************)
(* Theorems about MessageBoard and about BoardRestart, for every set of    *)
(* texts, every capacity of the queue, and any number of posts and kills.  *)
(***************************************************************************)
EXTENDS BoardRestart, SequenceTheorems, TLAPS

(***************************************************************************)
(* The objects: the reader cannot pass its start-up before the writer has  *)
(* made all three, so it meets no semaphore that SETVAL is still to set.   *)
(***************************************************************************)
StartInv ==
    /\ pc["writer"] \in {"shmget", "zero", "semget"} =>
         /\ sem = NoSem /\ ~hasQueue /\ pc["reader"] \in {"shmget", "semget", "done"}
         /\ count = 0 /\ posted = <<>> /\ shown = <<>> /\ lastCount = 0
    /\ pc["writer"] = "setval" => sem = 0
    /\ pc["writer"] \in {"setval", "msgget"} =>
         /\ ~hasQueue /\ pc["reader"] \in {"shmget", "semget", "msgget", "done"}
         /\ count = 0 /\ posted = <<>> /\ shown = <<>> /\ lastCount = 0
    /\ pc["writer"] = "shmget" => shm = "none"
    /\ ~hasQueue =>
         /\ notices = 0
         /\ pc["writer"] \in {"shmget", "zero", "semget", "setval", "msgget", "done"}

(***************************************************************************)
(* The lock: from SETVAL to its removal the semaphore is 1 only while      *)
(* nobody is inside, and it is removed only when the writer is done with it. *)
(***************************************************************************)
LockInv ==
    /\ WInside => sem = 0 /\ ~RInside
    /\ RInside => sem \in {0, NoSem}
    /\ sem = NoSem => pc["writer"] \in {"shmget", "zero", "semget", "msgctl", "done"}

LEMMA InitInv == Init => TypeOK /\ StartInv /\ LockInv
<1> SUFFICES ASSUME Init PROVE TypeOK /\ StartInv /\ LockInv
    OBVIOUS
<1> USE DEF Init, Programs, WCalls, RCalls, NoSem
<1>1. <<>> \in Seq(BoardTexts) /\ <<>> \in Seq(Nat \X BoardTexts)
    BY EmptySeq
<1>2. pc \in [Programs -> WCalls \cup RCalls]
    OBVIOUS
<1>3. TypeOK
  <2>1. 0 \in 0..NoticeCap
      BY BoardAssumption
  <2> QED
      BY <1>1, <1>2, <2>1 DEF TypeOK, ShmStates, BoardTexts
<1>4. StartInv /\ LockInv
    BY DEF StartInv, LockInv, WInside, RInside
<1> QED
    BY <1>3, <1>4

LEMMA TypeStep == TypeOK /\ StartInv /\ LockInv /\ [Next]_vars => TypeOK'
<1> SUFFICES ASSUME TypeOK, StartInv, LockInv, [Next]_vars PROVE TypeOK'
    OBVIOUS
<1> USE BoardAssumption DEF TypeOK, BoardTexts, ShmStates, NoSem, Programs, WCalls, RCalls,
        Go, Silent, SemStep, board, queueVars, writerVars, readerVars, AfterUp, AfterDown,
        CanDown, AfterSemget
<1>1. CASE WShmget  BY <1>1 DEF WShmget
<1>2. CASE WZero  BY <1>2, EmptySeq DEF WZero
<1>3. CASE WSemget  BY <1>3 DEF WSemget
<1>4. CASE WSetval  BY <1>4 DEF WSetval
<1>5. CASE WMsgget  BY <1>5 DEF WMsgget
<1>6. CASE WReadLine  BY <1>6 DEF WReadLine
<1>7. CASE WReadExit  BY <1>7 DEF WReadExit
<1>8. CASE WReadEof  BY <1>8 DEF WReadEof
<1>9. CASE WLock  BY <1>9 DEF WLock
<1>10. CASE WCopyBegin  BY <1>10 DEF WCopyBegin
<1>11. CASE WCopyEnd  BY <1>11 DEF WCopyEnd
<1>12. CASE WCount  BY <1>12 DEF WCount
<1>13. CASE WUnlock  BY <1>13 DEF WUnlock, LockInv, WInside
<1>14. CASE WNotify  BY <1>14 DEF WNotify
<1>15. CASE WShmctl  BY <1>15 DEF WShmctl, AfterShmRmid
<1>16. CASE WSemctl  BY <1>16 DEF WSemctl
<1>17. CASE WMsgctl
  <2>1. 0 \in 0..NoticeCap
      OBVIOUS
  <2> QED
      BY <1>17, <2>1 DEF WMsgctl
<1>18. CASE RShmget  BY <1>18 DEF RShmget
<1>19. CASE RSemget  BY <1>19 DEF RSemget
<1>20. CASE RMsgget  BY <1>20 DEF RMsgget
<1>21. CASE RReceive  BY <1>21 DEF RReceive
<1>22. CASE RLock  BY <1>22 DEF RLock
<1>23. CASE RCompareNew  BY <1>23 DEF RCompareNew
<1>24. CASE RCompareOld  BY <1>24 DEF RCompareOld
<1>25. CASE RShow
  <2>1. <<count, message>> \in Nat \X BoardTexts
      OBVIOUS
  <2>2. shown' \in Seq(Nat \X BoardTexts)
      BY <1>25, <2>1, AppendProperties DEF RShow
  <2> QED
      BY <1>25, <2>2 DEF RShow
<1>26. CASE RRemember  BY <1>26 DEF RRemember, RememberAs
<1>27. CASE RUnlock  BY <1>27 DEF RUnlock, LockInv, RInside
<1>28. CASE RFails  BY <1>28 DEF RFails, RGiveUp, AfterLastDetach
<1>29. CASE UNCHANGED vars  BY <1>29 DEF vars
<1> QED
    BY <1>1, <1>2, <1>3, <1>4, <1>5, <1>6, <1>7, <1>8, <1>9, <1>10, <1>11, <1>12, <1>13,
       <1>14,
       <1>15, <1>16, <1>17, <1>18, <1>19, <1>20, <1>21, <1>22, <1>23, <1>24, <1>25, <1>26,
       <1>27, <1>28,
       <1>29 DEF Next, WriterInput, WriterWork, Reader

LEMMA StartStep == TypeOK /\ StartInv /\ [Next]_vars => StartInv'
<1> SUFFICES ASSUME TypeOK, StartInv, [Next]_vars PROVE StartInv'
    OBVIOUS
<1> USE DEF TypeOK, StartInv, NoSem, ShmStates, Programs, WCalls, RCalls, Go, Silent,
        SemStep, board, queueVars, writerVars, readerVars, AfterSemget, CanDown
<1>1. CASE WShmget  BY <1>1 DEF WShmget
<1>2. CASE WZero  BY <1>2 DEF WZero
<1>3. CASE WSemget  BY <1>3 DEF WSemget
<1>4. CASE WSetval  BY <1>4 DEF WSetval
<1>5. CASE WMsgget  BY <1>5 DEF WMsgget
<1>6. CASE WReadLine  BY <1>6 DEF WReadLine
<1>7. CASE WReadExit  BY <1>7 DEF WReadExit
<1>8. CASE WReadEof  BY <1>8 DEF WReadEof
<1>9. CASE WLock  BY <1>9 DEF WLock
<1>10. CASE WCopyBegin  BY <1>10 DEF WCopyBegin
<1>11. CASE WCopyEnd  BY <1>11 DEF WCopyEnd
<1>12. CASE WCount  BY <1>12 DEF WCount
<1>13. CASE WUnlock  BY <1>13 DEF WUnlock
<1>14. CASE WNotify  BY <1>14 DEF WNotify
<1>15. CASE WShmctl  BY <1>15 DEF WShmctl
<1>16. CASE WSemctl  BY <1>16 DEF WSemctl
<1>17. CASE WMsgctl  BY <1>17 DEF WMsgctl
<1>18. CASE RShmget  BY <1>18 DEF RShmget
<1>19. CASE RSemget  BY <1>19 DEF RSemget
<1>20. CASE RMsgget  BY <1>20 DEF RMsgget
<1>21. CASE RReceive  BY <1>21 DEF RReceive
<1>22. CASE RLock  BY <1>22 DEF RLock
<1>23. CASE RCompareNew  BY <1>23 DEF RCompareNew
<1>24. CASE RCompareOld  BY <1>24 DEF RCompareOld
<1>25. CASE RShow  BY <1>25 DEF RShow
<1>26. CASE RRemember  BY <1>26 DEF RRemember, RememberAs
<1>27. CASE RUnlock  BY <1>27 DEF RUnlock
<1>28. CASE RFails  BY <1>28 DEF RFails, RGiveUp, AfterLastDetach
<1>29. CASE UNCHANGED vars  BY <1>29 DEF vars
<1> QED
    BY <1>1, <1>2, <1>3, <1>4, <1>5, <1>6, <1>7, <1>8, <1>9, <1>10, <1>11, <1>12, <1>13,
       <1>14,
       <1>15, <1>16, <1>17, <1>18, <1>19, <1>20, <1>21, <1>22, <1>23, <1>24, <1>25, <1>26,
       <1>27, <1>28,
       <1>29 DEF Next, WriterInput, WriterWork, Reader

LEMMA LockStep == TypeOK /\ StartInv /\ LockInv /\ [Next]_vars => LockInv'
<1> SUFFICES ASSUME TypeOK, StartInv, LockInv, [Next]_vars PROVE LockInv'
    OBVIOUS
<1> USE DEF TypeOK, StartInv, LockInv, WInside, RInside, NoSem, Programs, WCalls, RCalls, Go,
        Silent, SemStep, board, queueVars, writerVars, readerVars, AfterUp, AfterDown,
        CanDown, AfterSemget
<1>1. CASE WShmget  BY <1>1 DEF WShmget
<1>2. CASE WZero  BY <1>2 DEF WZero
<1>3. CASE WSemget  BY <1>3 DEF WSemget
<1>4. CASE WSetval  BY <1>4 DEF WSetval
<1>5. CASE WMsgget  BY <1>5 DEF WMsgget
<1>6. CASE WReadLine  BY <1>6 DEF WReadLine
<1>7. CASE WReadExit  BY <1>7 DEF WReadExit
<1>8. CASE WReadEof  BY <1>8 DEF WReadEof
<1>9. CASE WLock  BY <1>9 DEF WLock
<1>10. CASE WCopyBegin  BY <1>10 DEF WCopyBegin
<1>11. CASE WCopyEnd  BY <1>11 DEF WCopyEnd
<1>12. CASE WCount  BY <1>12 DEF WCount
<1>13. CASE WUnlock  BY <1>13 DEF WUnlock
<1>14. CASE WNotify  BY <1>14 DEF WNotify
<1>15. CASE WShmctl  BY <1>15 DEF WShmctl
<1>16. CASE WSemctl  BY <1>16 DEF WSemctl
<1>17. CASE WMsgctl  BY <1>17 DEF WMsgctl
<1>18. CASE RShmget  BY <1>18 DEF RShmget
<1>19. CASE RSemget  BY <1>19 DEF RSemget
<1>20. CASE RMsgget  BY <1>20 DEF RMsgget
<1>21. CASE RReceive  BY <1>21 DEF RReceive
<1>22. CASE RLock  BY <1>22 DEF RLock
<1>23. CASE RCompareNew  BY <1>23 DEF RCompareNew
<1>24. CASE RCompareOld  BY <1>24 DEF RCompareOld
<1>25. CASE RShow  BY <1>25 DEF RShow
<1>26. CASE RRemember  BY <1>26 DEF RRemember, RememberAs
<1>27. CASE RUnlock  BY <1>27 DEF RUnlock
<1>28. CASE RFails  BY <1>28 DEF RFails, RGiveUp, AfterLastDetach
<1>29. CASE UNCHANGED vars  BY <1>29 DEF vars
<1> QED
    BY <1>1, <1>2, <1>3, <1>4, <1>5, <1>6, <1>7, <1>8, <1>9, <1>10, <1>11, <1>12, <1>13,
       <1>14,
       <1>15, <1>16, <1>17, <1>18, <1>19, <1>20, <1>21, <1>22, <1>23, <1>24, <1>25, <1>26,
       <1>27, <1>28,
       <1>29 DEF Next, WriterInput, WriterWork, Reader

LEMMA CoreInvariant == Spec => [](TypeOK /\ StartInv /\ LockInv)
<1>1. Init => TypeOK /\ StartInv /\ LockInv
    BY InitInv
<1>2. TypeOK /\ StartInv /\ LockInv /\ [Next]_vars => (TypeOK /\ StartInv /\ LockInv)'
    BY TypeStep, StartStep, LockStep
<1> QED
    BY <1>1, <1>2, PTL DEF Spec

\* Every variable keeps its range: the semaphore is never raised above 1 and the
\* queue never holds more notices than it has room for.
THEOREM TypeCorrect == Spec => []TypeOK
BY CoreInvariant, PTL

\* Writer and reader are never both inside, from the creation of the semaphore
\* to its removal under the reader (message_writer.c:111-121, 131).
THEOREM Exclusion == Spec => []MutualExclusion
<1>1. LockInv => MutualExclusion
    BY DEF LockInv, MutualExclusion
<1> QED
    BY <1>1, CoreInvariant, PTL

(***************************************************************************)
(* The board: the counter is the number of posts, the text beside it is    *)
(* the latest, and the reader's last_count is the number it showed last.   *)
(***************************************************************************)
LastShown == IF shown = <<>> THEN 0 ELSE shown[Len(shown)][1]

BoardInv ==
    /\ count = Len(posted)
    /\ count > 0 /\ pc["writer"] \notin {"copied", "count"} => message = posted[count]
    /\ lastCount <= count
    /\ pc["reader"] = "printf" => lastCount < count
    /\ IF pc["reader"] = "remember" THEN LastShown = count ELSE LastShown = lastCount

ShownInv ==
    \A k \in DOMAIN shown :
        /\ shown[k][1] \in DOMAIN posted /\ shown[k][2] = posted[shown[k][1]]
        /\ k > 1 => shown[k - 1][1] < shown[k][1]

LEMMA BoardStep ==
    TypeOK /\ StartInv /\ LockInv /\ BoardInv /\ [Next]_vars => BoardInv'
<1> SUFFICES ASSUME TypeOK, StartInv, LockInv, BoardInv, [Next]_vars PROVE BoardInv'
    OBVIOUS
<1>0. shown' = shown => LastShown' = LastShown
    BY DEF LastShown
<1> USE <1>0 DEF TypeOK, BoardInv, Programs, WCalls, RCalls, Go, Silent, SemStep, board,
        queueVars, writerVars, readerVars
<1>1. CASE WShmget  BY <1>1 DEF WShmget, StartInv
<1>2. CASE WZero  BY <1>2 DEF WZero, StartInv, LastShown
<1>3. CASE WSemget  BY <1>3 DEF WSemget
<1>4. CASE WSetval  BY <1>4 DEF WSetval
<1>5. CASE WMsgget  BY <1>5 DEF WMsgget
<1>6. CASE WReadLine  BY <1>6 DEF WReadLine
<1>7. CASE WReadExit  BY <1>7 DEF WReadExit
<1>8. CASE WReadEof  BY <1>8 DEF WReadEof
<1>9. CASE WLock  BY <1>9 DEF WLock
<1>10. CASE WCopyBegin  BY <1>10 DEF WCopyBegin, LockInv, WInside, RInside
<1>11. CASE WCopyEnd  BY <1>11 DEF WCopyEnd, LockInv, WInside, RInside
<1>12. CASE WCount
  <2>1. posted' = Append(posted, message) /\ count' = count + 1 /\ posted \in Seq(BoardTexts)
      BY <1>12 DEF WCount
  <2>2. Len(posted') = count' /\ posted'[count'] = message' /\ message' = message
      BY <1>12, <2>1 DEF WCount
  <2>3. pc["reader"] \notin {"printf", "remember"} /\ pc'["reader"] = pc["reader"]
      BY <1>12 DEF WCount, LockInv, WInside, RInside
  <2>4. LastShown' = LastShown /\ lastCount' = lastCount
      BY <1>12 DEF WCount
  <2> QED
      BY <2>1, <2>2, <2>3, <2>4
<1>13. CASE WUnlock  BY <1>13 DEF WUnlock
<1>14. CASE WNotify  BY <1>14 DEF WNotify
<1>15. CASE WShmctl  BY <1>15 DEF WShmctl
<1>16. CASE WSemctl  BY <1>16 DEF WSemctl
<1>17. CASE WMsgctl  BY <1>17 DEF WMsgctl
<1>18. CASE RShmget  BY <1>18 DEF RShmget
<1>19. CASE RSemget  BY <1>19 DEF RSemget
<1>20. CASE RMsgget  BY <1>20 DEF RMsgget
<1>21. CASE RReceive  BY <1>21 DEF RReceive
<1>22. CASE RLock  BY <1>22 DEF RLock
<1>23. CASE RCompareNew  BY <1>23 DEF RCompareNew
<1>24. CASE RCompareOld  BY <1>24 DEF RCompareOld
<1>25. CASE RShow
  <2>1. <<count, message>> \in Nat \X BoardTexts
      OBVIOUS
  <2>2. shown' # <<>> /\ shown'[Len(shown')] = <<count, message>>
    <3> DEFINE t == Append(shown, <<count, message>>)
    <3>1. /\ Len(t) = Len(shown) + 1 /\ t[Len(shown) + 1] = <<count, message>>
          /\ Len(shown) \in Nat /\ t # <<>>
      <4>1. t \in Seq(Nat \X BoardTexts) /\ Len(t) = Len(shown) + 1
            /\ t[Len(shown) + 1] = <<count, message>>
          BY <2>1, AppendProperties
      <4>2. Len(shown) \in Nat
          BY LenProperties
      <4> HIDE DEF t
      <4> QED
          BY <4>1, <4>2, EmptySeq
    <3>2. shown' = t
        BY <1>25 DEF RShow
    <3> HIDE DEF t
    <3> QED
        BY <3>1, <3>2
  <2>3. LastShown' = count
      BY <2>2 DEF LastShown
  <2> QED
      BY <1>25, <2>3 DEF RShow
<1>26. CASE RRemember  BY <1>26 DEF RRemember, RememberAs
<1>27. CASE RUnlock  BY <1>27 DEF RUnlock
<1>28. CASE RFails  BY <1>28 DEF RFails, RGiveUp, AfterLastDetach
<1>29. CASE UNCHANGED vars  BY <1>29 DEF vars
<1> QED
    BY <1>1, <1>2, <1>3, <1>4, <1>5, <1>6, <1>7, <1>8, <1>9, <1>10, <1>11, <1>12, <1>13,
       <1>14,
       <1>15, <1>16, <1>17, <1>18, <1>19, <1>20, <1>21, <1>22, <1>23, <1>24, <1>25, <1>26,
       <1>27, <1>28,
       <1>29 DEF Next, WriterInput, WriterWork, Reader

\* What the reader is about to show is the latest post.
LEMMA ShowsLatest ==
    TypeOK /\ LockInv /\ BoardInv /\ pc["reader"] = "printf" =>
        /\ count \in DOMAIN posted /\ message = posted[count]
        /\ LastShown < count
BY DEF TypeOK, LockInv, BoardInv, WInside, RInside

LEMMA ShownStep ==
    TypeOK /\ StartInv /\ LockInv /\ BoardInv /\ ShownInv /\ [Next]_vars => ShownInv'
<1> SUFFICES ASSUME TypeOK, StartInv, LockInv, BoardInv, ShownInv, [Next]_vars PROVE ShownInv'
    OBVIOUS
<1>0. shown' = shown /\ posted' = posted => ShownInv'
    BY DEF ShownInv
<1> USE <1>0 DEF Programs, WCalls, RCalls, Go, Silent, SemStep, board, queueVars, writerVars,
        readerVars
<1>1. CASE WShmget  BY <1>1 DEF WShmget
<1>2. CASE WZero  BY <1>2 DEF WZero, StartInv
<1>3. CASE WSemget  BY <1>3 DEF WSemget
<1>4. CASE WSetval  BY <1>4 DEF WSetval
<1>5. CASE WMsgget  BY <1>5 DEF WMsgget
<1>6. CASE WReadLine  BY <1>6 DEF WReadLine
<1>7. CASE WReadExit  BY <1>7 DEF WReadExit
<1>8. CASE WReadEof  BY <1>8 DEF WReadEof
<1>9. CASE WLock  BY <1>9 DEF WLock
<1>10. CASE WCopyBegin  BY <1>10 DEF WCopyBegin
<1>11. CASE WCopyEnd  BY <1>11 DEF WCopyEnd
<1>12. CASE WCount
  <2>1. posted \in Seq(BoardTexts) /\ message \in BoardTexts /\ shown' = shown
      BY <1>12 DEF WCount, TypeOK
  <2>2. \A n \in DOMAIN posted : n \in DOMAIN posted' /\ posted'[n] = posted[n]
      BY <1>12, <2>1, AppendProperties, LenProperties DEF WCount
  <2> QED
      BY <2>1, <2>2 DEF ShownInv
<1>13. CASE WUnlock  BY <1>13 DEF WUnlock
<1>14. CASE WNotify  BY <1>14 DEF WNotify
<1>15. CASE WShmctl  BY <1>15 DEF WShmctl
<1>16. CASE WSemctl  BY <1>16 DEF WSemctl
<1>17. CASE WMsgctl  BY <1>17 DEF WMsgctl
<1>18. CASE RShmget  BY <1>18 DEF RShmget
<1>19. CASE RSemget  BY <1>19 DEF RSemget
<1>20. CASE RMsgget  BY <1>20 DEF RMsgget
<1>21. CASE RReceive  BY <1>21 DEF RReceive
<1>22. CASE RLock  BY <1>22 DEF RLock
<1>23. CASE RCompareNew  BY <1>23 DEF RCompareNew
<1>24. CASE RCompareOld  BY <1>24 DEF RCompareOld
<1>25. CASE RShow
  <2>1. <<count, message>> \in Nat \X BoardTexts /\ shown \in Seq(Nat \X BoardTexts)
      BY DEF TypeOK
  <2>2. /\ posted' = posted /\ shown' = Append(shown, <<count, message>>)
        /\ count \in DOMAIN posted /\ message = posted[count] /\ LastShown < count
      BY <1>25, ShowsLatest DEF RShow
  <2>3. /\ Len(shown) \in Nat /\ DOMAIN shown = 1..Len(shown)
        /\ DOMAIN shown' = 1..(Len(shown) + 1)
        /\ \A k \in 1..Len(shown) : shown'[k] = shown[k]
        /\ shown'[Len(shown) + 1] = <<count, message>>
      BY <2>1, <2>2, AppendProperties, LenProperties
  <2>4. ASSUME NEW k \in DOMAIN shown'
        PROVE  /\ shown'[k][1] \in DOMAIN posted /\ shown'[k][2] = posted[shown'[k][1]]
               /\ k > 1 => shown'[k - 1][1] < shown'[k][1]
    <3>1. CASE k \in 1..Len(shown)
      <4>1. k > 1 => k - 1 \in 1..Len(shown)
          BY <2>3, <3>1
      <4> QED
          BY <2>3, <3>1, <4>1 DEF ShownInv
    <3>2. CASE k = Len(shown) + 1
      <4>1. k > 1 => shown # <<>> /\ k - 1 \in 1..Len(shown) /\ LastShown = shown[k - 1][1]
          BY <2>3, <3>2 DEF LastShown
      <4>2. shown'[k][1] = count /\ shown'[k][2] = message
          BY <2>3, <3>2
      <4>3. k > 1 => shown'[k - 1] = shown[k - 1]
          BY <2>3, <4>1
      <4> QED
          BY <2>2, <4>1, <4>2, <4>3
    <3> QED
        BY <2>3, <3>1, <3>2
  <2> QED
      BY <2>2, <2>4 DEF ShownInv
<1>26. CASE RRemember  BY <1>26 DEF RRemember, RememberAs
<1>27. CASE RUnlock  BY <1>27 DEF RUnlock
<1>28. CASE RFails  BY <1>28 DEF RFails, RGiveUp, AfterLastDetach
<1>29. CASE UNCHANGED vars  BY <1>29 DEF vars
<1> QED
    BY <1>1, <1>2, <1>3, <1>4, <1>5, <1>6, <1>7, <1>8, <1>9, <1>10, <1>11, <1>12, <1>13,
       <1>14,
       <1>15, <1>16, <1>17, <1>18, <1>19, <1>20, <1>21, <1>22, <1>23, <1>24, <1>25, <1>26,
       <1>27, <1>28,
       <1>29 DEF Next, WriterInput, WriterWork, Reader

LEMMA BoardInvariant == Spec => [](TypeOK /\ StartInv /\ LockInv /\ BoardInv /\ ShownInv)
<1>1. Init => BoardInv /\ ShownInv
    BY EmptySeq DEF Init, BoardInv, ShownInv, LastShown
<1>2. TypeOK /\ StartInv /\ LockInv /\ BoardInv /\ ShownInv /\ [Next]_vars
        => BoardInv' /\ ShownInv'
    BY BoardStep, ShownStep
<1> QED
    BY <1>1, <1>2, CoreInvariant, PTL DEF Spec

\* Whatever the reader shows is a post, whole and under its own number, and the
\* numbers go up, for any number of posts.
THEOREM ShownIsPosted == Spec => []ShownAsPosted
<1>1. TypeOK /\ BoardInv /\ ShownInv => ShownAsPosted
    BY DEF TypeOK, BoardInv, ShownInv, ShownAsPosted, LastShown
<1> QED
    BY <1>1, BoardInvariant, PTL

(***************************************************************************)
(* The notices: a post the reader has not shown is announced, or the       *)
(* writer is about to announce it, or the reader has taken a notice and    *)
(* has yet to look.                                                        *)
(***************************************************************************)
NoticeInv ==
    hasQueue /\ lastCount < count =>
        \/ notices > 0
        \/ pc["writer"] \in {"unlock", "msgsnd"}
        \/ pc["reader"] \in {"lock", "compare", "printf", "remember", "done"}

LEMMA NoticeStep ==
    TypeOK /\ StartInv /\ LockInv /\ BoardInv /\ NoticeInv /\ [Next]_vars => NoticeInv'
<1> SUFFICES ASSUME TypeOK, StartInv, LockInv, BoardInv, NoticeInv, [Next]_vars PROVE
       NoticeInv'
    OBVIOUS
<1> USE DEF TypeOK, NoticeInv, Programs, WCalls, RCalls, Go, Silent, SemStep, board,
        queueVars, writerVars, readerVars
<1>1. CASE WShmget  BY <1>1 DEF WShmget, StartInv
<1>2. CASE WZero  BY <1>2 DEF WZero, StartInv
<1>3. CASE WSemget  BY <1>3 DEF WSemget
<1>4. CASE WSetval  BY <1>4 DEF WSetval
<1>5. CASE WMsgget  BY <1>5 DEF WMsgget, StartInv
<1>6. CASE WReadLine  BY <1>6 DEF WReadLine
<1>7. CASE WReadExit  BY <1>7 DEF WReadExit
<1>8. CASE WReadEof  BY <1>8 DEF WReadEof
<1>9. CASE WLock  BY <1>9 DEF WLock
<1>10. CASE WCopyBegin  BY <1>10 DEF WCopyBegin
<1>11. CASE WCopyEnd  BY <1>11 DEF WCopyEnd
<1>12. CASE WCount  BY <1>12 DEF WCount
<1>13. CASE WUnlock  BY <1>13 DEF WUnlock
<1>14. CASE WNotify  BY <1>14 DEF WNotify
<1>15. CASE WShmctl  BY <1>15 DEF WShmctl
<1>16. CASE WSemctl  BY <1>16 DEF WSemctl
<1>17. CASE WMsgctl  BY <1>17 DEF WMsgctl
<1>18. CASE RShmget  BY <1>18 DEF RShmget
<1>19. CASE RSemget  BY <1>19 DEF RSemget
<1>20. CASE RMsgget  BY <1>20 DEF RMsgget
<1>21. CASE RReceive  BY <1>21 DEF RReceive
<1>22. CASE RLock  BY <1>22 DEF RLock
<1>23. CASE RCompareNew  BY <1>23 DEF RCompareNew
<1>24. CASE RCompareOld  BY <1>24 DEF RCompareOld
<1>25. CASE RShow  BY <1>25 DEF RShow
<1>26. CASE RRemember  BY <1>26 DEF RRemember, RememberAs
<1>27. CASE RUnlock  BY <1>27 DEF RUnlock
<1>28. CASE RFails  BY <1>28 DEF RFails, RGiveUp, AfterLastDetach
<1>29. CASE UNCHANGED vars  BY <1>29 DEF vars
<1> QED
    BY <1>1, <1>2, <1>3, <1>4, <1>5, <1>6, <1>7, <1>8, <1>9, <1>10, <1>11, <1>12, <1>13,
       <1>14,
       <1>15, <1>16, <1>17, <1>18, <1>19, <1>20, <1>21, <1>22, <1>23, <1>24, <1>25, <1>26,
       <1>27, <1>28,
       <1>29 DEF Next, WriterInput, WriterWork, Reader

\* With no notice on its way the reader has shown the latest post: no notice can
\* be used up before the post it announces is on the board.
THEOREM NothingUnseen == Spec => []NothingUnseenAtRest
<1>1. Init => NoticeInv
    BY DEF Init, NoticeInv
<1>2. TypeOK /\ StartInv /\ LockInv /\ BoardInv /\ NoticeInv /\ [Next]_vars => NoticeInv'
    BY NoticeStep
<1>3. TypeOK /\ BoardInv /\ NoticeInv => NothingUnseenAtRest
    BY DEF TypeOK, BoardInv, NoticeInv, NothingUnseenAtRest
<1> QED
    BY <1>1, <1>2, <1>3, BoardInvariant, PTL DEF Spec

\* The board as a whole is orderly: lock, pairs shown, and notices.
THEOREM BoardIsOrderly == Spec => []OrderlyBoard
<1>1. MutualExclusion /\ ShownAsPosted /\ NothingUnseenAtRest => OrderlyBoard
    BY DEF OrderlyBoard
<1> QED
    BY <1>1, Exclusion, ShownIsPosted, NothingUnseen, PTL

(***************************************************************************)
(* Refinement: msg_count++ is the post, printf the reading.                *)
(***************************************************************************)
LEMMA RegisterStep ==
    TypeOK /\ StartInv /\ LockInv /\ BoardInv /\ [Next]_vars =>
       [Register!Next]_(Register!vars)
<1> SUFFICES ASSUME TypeOK, StartInv, LockInv, BoardInv, [Next]_vars
             PROVE  [Register!Next]_(Register!vars)
    OBVIOUS
<1> USE DEF Register!vars, Programs, WCalls, RCalls, Go, Silent, SemStep, board, queueVars,
        writerVars, readerVars
<1>1. CASE WShmget  BY <1>1 DEF WShmget
<1>2. CASE WZero  BY <1>2 DEF WZero, StartInv
<1>3. CASE WSemget  BY <1>3 DEF WSemget
<1>4. CASE WSetval  BY <1>4 DEF WSetval
<1>5. CASE WMsgget  BY <1>5 DEF WMsgget
<1>6. CASE WReadLine  BY <1>6 DEF WReadLine
<1>7. CASE WReadExit  BY <1>7 DEF WReadExit
<1>8. CASE WReadEof  BY <1>8 DEF WReadEof
<1>9. CASE WLock  BY <1>9 DEF WLock
<1>10. CASE WCopyBegin  BY <1>10 DEF WCopyBegin
<1>11. CASE WCopyEnd  BY <1>11 DEF WCopyEnd
<1>12. CASE WCount  BY <1>12 DEF WCount, TypeOK, Register!Next, Register!Post
<1>13. CASE WUnlock  BY <1>13 DEF WUnlock
<1>14. CASE WNotify  BY <1>14 DEF WNotify
<1>15. CASE WShmctl  BY <1>15 DEF WShmctl
<1>16. CASE WSemctl  BY <1>16 DEF WSemctl
<1>17. CASE WMsgctl  BY <1>17 DEF WMsgctl
<1>18. CASE RShmget  BY <1>18 DEF RShmget
<1>19. CASE RSemget  BY <1>19 DEF RSemget
<1>20. CASE RMsgget  BY <1>20 DEF RMsgget
<1>21. CASE RReceive  BY <1>21 DEF RReceive
<1>22. CASE RLock  BY <1>22 DEF RLock
<1>23. CASE RCompareNew  BY <1>23 DEF RCompareNew
<1>24. CASE RCompareOld  BY <1>24 DEF RCompareOld
<1>25. CASE RShow
  <2>1. count = Len(posted) /\ message = posted[count] /\ LastShown < count
      BY <1>25, ShowsLatest DEF RShow, BoardInv
  <2>2. Register!LastShown = LastShown
      BY DEF Register!LastShown, LastShown
  <2> QED
      BY <1>25, <2>1, <2>2 DEF RShow, Register!Next, Register!Show
<1>26. CASE RRemember  BY <1>26 DEF RRemember, RememberAs
<1>27. CASE RUnlock  BY <1>27 DEF RUnlock
<1>28. CASE RFails  BY <1>28 DEF RFails, RGiveUp, AfterLastDetach
<1>29. CASE UNCHANGED vars  BY <1>29 DEF vars
<1> QED
    BY <1>1, <1>2, <1>3, <1>4, <1>5, <1>6, <1>7, <1>8, <1>9, <1>10, <1>11, <1>12, <1>13,
       <1>14,
       <1>15, <1>16, <1>17, <1>18, <1>19, <1>20, <1>21, <1>22, <1>23, <1>24, <1>25, <1>26,
       <1>27, <1>28,
       <1>29 DEF Next, WriterInput, WriterWork, Reader

\* Board, semaphore and reader implement the register of BoardRegister: number and
\* text are changed and read as one.
THEOREM RefinesRegister == Spec => ImplementsRegister
<1>1. Init => Register!Init
    BY DEF Init, Register!Init
<1>2. TypeOK /\ StartInv /\ LockInv /\ BoardInv /\ [Next]_vars =>
       [Register!Next]_(Register!vars)
    BY RegisterStep
<1> QED
    BY <1>1, <1>2, BoardInvariant, PTL DEF Spec, ImplementsRegister, Register!Spec

(***************************************************************************)
(* Kills and restarts.                                                     *)
(***************************************************************************)
RestartRanges ==
    /\ pc \in [Programs -> WCalls \cup RCalls]
    /\ pc["writer"] \in WCalls /\ pc["reader"] \in RCalls
    /\ shm \in ShmStates /\ sem \in Int /\ sem >= NoSem
    /\ count \in Nat /\ posted \in Seq(BoardTexts) /\ notices \in Nat
    /\ input \in Texts \cup {Junk} /\ lastCount \in Nat
    /\ message \in BoardTexts

\* What of the lock survives the kills while no SETVAL has come upon a reader
\* that is inside.
RestartLockInv ==
    /\ sem = NoSem => pc["writer"] \in {"shmget", "zero", "semget", "msgctl", "done"}
    /\ ~setvalHeld => /\ sem <= 1
                      /\ WInside => sem = 0 /\ ~RInside
                      /\ RInside => sem \in {NoSem, 0}

\* A segment that is gone has no reader, and no writer starts on a removed one.
RestartSegmentInv ==
    /\ shm = "none" => pc["reader"] \in {"shmget", "done"}
    /\ pc["writer"] = "shmget" => shm # "orphan"

\* A post that the reader has not seen will be announced, is announced, is about
\* to be looked at, or was lost with a program that was killed.
RestartNoticeInv ==
    /\ "writer" \in killed => pc["writer"] = "done"
    /\ \/ lastCount >= count
       \/ unannounced
       \/ notices > 0
       \/ pc["writer"] \in {"unlock", "msgsnd"}
       \/ pc["reader"] \in {"lock", "compare", "printf", "remember", "done"}
       \/ pc["writer"] = "done" /\ "writer" \notin killed

Whole == count = Len(posted) /\ message = posted[count] /\ message \notin {Blank, Torn}

\* What the board holds: the text of the last post whenever the lock could let the
\* reader in, and since SETVAL follows msg_count = 0, nothing after a writer that
\* was killed at work.
RestartBoardInv ==
    /\ pc["writer"] \in {"semget", "setval", "msgget"} => count = 0
    /\ pc["writer"] \notin {"shmget", "zero", "done"} => count = Len(posted)
    /\ pc["writer"] = "count" => message = input
    /\ pc["writer"] = "unlock" => Whole
    /\ ~setvalHeld =>
         /\ (sem > 0 \/ RInside) /\ count > 0 => Whole
         /\ pc["reader"] = "printf" => message \notin {Blank, Torn}

RestartInv ==
    RestartRanges /\ RestartLockInv /\ RestartSegmentInv /\ RestartNoticeInv /\ RestartBoardInv

LEMMA RestartInitInv == RestartInit => RestartInv
<1> SUFFICES ASSUME RestartInit PROVE RestartInv
    OBVIOUS
<1> USE DEF RestartInit, Init, Programs, WCalls, RCalls, NoSem
<1>1. <<>> \in Seq(BoardTexts)
    BY EmptySeq
<1>2. pc \in [Programs -> WCalls \cup RCalls]
    OBVIOUS
<1>3. RestartRanges
    BY <1>1, <1>2 DEF RestartRanges, ShmStates, BoardTexts
<1>4. RestartLockInv /\ RestartSegmentInv /\ RestartNoticeInv /\ RestartBoardInv
    BY DEF RestartLockInv, RestartSegmentInv, RestartNoticeInv, RestartBoardInv, WInside, RInside
<1> QED
    BY <1>3, <1>4 DEF RestartInv

LEMMA RestartRangesStep == RestartRanges /\ RestartLockInv /\ Next => RestartRanges'
<1> SUFFICES ASSUME RestartRanges, RestartLockInv, Next PROVE RestartRanges'
    OBVIOUS
<1> USE DEF RestartRanges, ShmStates, BoardTexts, AfterUp, AfterDown, CanDown, AfterSemget,
        Programs, WCalls, RCalls, NoSem, Go, Silent,
        SemStep, board, queueVars, writerVars, readerVars
<1>1. CASE WShmget  BY <1>1 DEF WShmget
<1>2. CASE WZero  BY <1>2, EmptySeq DEF WZero
<1>3. CASE WSemget  BY <1>3 DEF WSemget
<1>4. CASE WSetval  BY <1>4 DEF WSetval
<1>5. CASE WMsgget  BY <1>5 DEF WMsgget
<1>6. CASE WReadLine  BY <1>6 DEF WReadLine
<1>7. CASE WReadExit  BY <1>7 DEF WReadExit
<1>8. CASE WReadEof  BY <1>8 DEF WReadEof
<1>9. CASE WLock  BY <1>9 DEF WLock
<1>10. CASE WCopyBegin  BY <1>10 DEF WCopyBegin
<1>11. CASE WCopyEnd  BY <1>11 DEF WCopyEnd
<1>12. CASE WCount  BY <1>12, AppendProperties DEF WCount
<1>13. CASE WUnlock  BY <1>13 DEF WUnlock
<1>14. CASE WNotify  BY <1>14 DEF WNotify
<1>15. CASE WShmctl  BY <1>15 DEF WShmctl, AfterShmRmid
<1>16. CASE WSemctl  BY <1>16 DEF WSemctl
<1>17. CASE WMsgctl  BY <1>17 DEF WMsgctl
<1>18. CASE RShmget  BY <1>18 DEF RShmget
<1>19. CASE RSemget  BY <1>19 DEF RSemget
<1>20. CASE RMsgget  BY <1>20 DEF RMsgget
<1>21. CASE RReceive  BY <1>21 DEF RReceive
<1>22. CASE RLock  BY <1>22 DEF RLock
<1>23. CASE RCompareNew  BY <1>23 DEF RCompareNew
<1>24. CASE RCompareOld  BY <1>24 DEF RCompareOld
<1>25. CASE RShow  BY <1>25 DEF RShow
<1>26. CASE RRemember  BY <1>26 DEF RRemember, RememberAs
<1>27. CASE RUnlock  BY <1>27 DEF RUnlock
<1>28. CASE RFails  BY <1>28 DEF RFails, RGiveUp, AfterLastDetach
<1> QED
    BY <1>1, <1>2, <1>3, <1>4, <1>5, <1>6, <1>7, <1>8, <1>9, <1>10, <1>11, <1>12, <1>13,
       <1>14, <1>15, <1>16, <1>17, <1>18, <1>19, <1>20, <1>21, <1>22, <1>23, <1>24, <1>25,
       <1>26, <1>27, <1>28
       DEF Next, WriterInput, WriterWork, Reader

LEMMA RestartLockStep == RestartRanges /\ RestartLockInv /\ Work => RestartLockInv'
<1> SUFFICES ASSUME RestartRanges, RestartLockInv, Next,
                    setvalHeld => setvalHeld',
                    pc["writer"] = "setval" /\ RInside /\ pc'["writer"] = "msgget" => setvalHeld'
             PROVE  RestartLockInv'
    BY DEF Work
<1> USE DEF RestartRanges, RestartLockInv, WInside, RInside, AfterUp, AfterDown, CanDown,
        AfterSemget, Programs, WCalls, RCalls, NoSem, Go, Silent,
        SemStep, board, queueVars, writerVars, readerVars
<1>1. CASE WShmget  BY <1>1 DEF WShmget
<1>2. CASE WZero  BY <1>2 DEF WZero
<1>3. CASE WSemget  BY <1>3 DEF WSemget
<1>4. CASE WSetval  BY <1>4 DEF WSetval
<1>5. CASE WMsgget  BY <1>5 DEF WMsgget
<1>6. CASE WReadLine  BY <1>6 DEF WReadLine
<1>7. CASE WReadExit  BY <1>7 DEF WReadExit
<1>8. CASE WReadEof  BY <1>8 DEF WReadEof
<1>9. CASE WLock  BY <1>9 DEF WLock
<1>10. CASE WCopyBegin  BY <1>10 DEF WCopyBegin
<1>11. CASE WCopyEnd  BY <1>11 DEF WCopyEnd
<1>12. CASE WCount  BY <1>12 DEF WCount
<1>13. CASE WUnlock  BY <1>13 DEF WUnlock
<1>14. CASE WNotify  BY <1>14 DEF WNotify
<1>15. CASE WShmctl  BY <1>15 DEF WShmctl, AfterShmRmid
<1>16. CASE WSemctl  BY <1>16 DEF WSemctl
<1>17. CASE WMsgctl  BY <1>17 DEF WMsgctl
<1>18. CASE RShmget  BY <1>18 DEF RShmget
<1>19. CASE RSemget  BY <1>19 DEF RSemget
<1>20. CASE RMsgget  BY <1>20 DEF RMsgget
<1>21. CASE RReceive  BY <1>21 DEF RReceive
<1>22. CASE RLock  BY <1>22 DEF RLock
<1>23. CASE RCompareNew  BY <1>23 DEF RCompareNew
<1>24. CASE RCompareOld  BY <1>24 DEF RCompareOld
<1>25. CASE RShow  BY <1>25 DEF RShow
<1>26. CASE RRemember  BY <1>26 DEF RRemember, RememberAs
<1>27. CASE RUnlock  BY <1>27 DEF RUnlock
<1>28. CASE RFails  BY <1>28 DEF RFails, RGiveUp, AfterLastDetach
<1> QED
    BY <1>1, <1>2, <1>3, <1>4, <1>5, <1>6, <1>7, <1>8, <1>9, <1>10, <1>11, <1>12, <1>13,
       <1>14, <1>15, <1>16, <1>17, <1>18, <1>19, <1>20, <1>21, <1>22, <1>23, <1>24, <1>25,
       <1>26, <1>27, <1>28
       DEF Next, WriterInput, WriterWork, Reader

LEMMA RestartSegmentStep == RestartRanges /\ RestartSegmentInv /\ Next => RestartSegmentInv'
<1> SUFFICES ASSUME RestartRanges, RestartSegmentInv, Next PROVE RestartSegmentInv'
    OBVIOUS
<1> USE DEF RestartRanges, RestartSegmentInv, ShmStates, Programs, WCalls, RCalls, NoSem, Go,
    Silent,
        SemStep, board, queueVars, writerVars, readerVars
<1>1. CASE WShmget  BY <1>1 DEF WShmget
<1>2. CASE WZero  BY <1>2 DEF WZero
<1>3. CASE WSemget  BY <1>3 DEF WSemget
<1>4. CASE WSetval  BY <1>4 DEF WSetval
<1>5. CASE WMsgget  BY <1>5 DEF WMsgget
<1>6. CASE WReadLine  BY <1>6 DEF WReadLine
<1>7. CASE WReadExit  BY <1>7 DEF WReadExit
<1>8. CASE WReadEof  BY <1>8 DEF WReadEof
<1>9. CASE WLock  BY <1>9 DEF WLock
<1>10. CASE WCopyBegin  BY <1>10 DEF WCopyBegin
<1>11. CASE WCopyEnd  BY <1>11 DEF WCopyEnd
<1>12. CASE WCount  BY <1>12 DEF WCount
<1>13. CASE WUnlock  BY <1>13 DEF WUnlock
<1>14. CASE WNotify  BY <1>14 DEF WNotify
<1>15. CASE WShmctl  BY <1>15 DEF WShmctl, AfterShmRmid, ReaderAttached
<1>16. CASE WSemctl  BY <1>16 DEF WSemctl
<1>17. CASE WMsgctl  BY <1>17 DEF WMsgctl
<1>18. CASE RShmget  BY <1>18 DEF RShmget
<1>19. CASE RSemget  BY <1>19 DEF RSemget
<1>20. CASE RMsgget  BY <1>20 DEF RMsgget
<1>21. CASE RReceive  BY <1>21 DEF RReceive
<1>22. CASE RLock  BY <1>22 DEF RLock
<1>23. CASE RCompareNew  BY <1>23 DEF RCompareNew
<1>24. CASE RCompareOld  BY <1>24 DEF RCompareOld
<1>25. CASE RShow  BY <1>25 DEF RShow
<1>26. CASE RRemember  BY <1>26 DEF RRemember, RememberAs
<1>27. CASE RUnlock  BY <1>27 DEF RUnlock
<1>28. CASE RFails  BY <1>28 DEF RFails, RGiveUp, AfterLastDetach
<1> QED
    BY <1>1, <1>2, <1>3, <1>4, <1>5, <1>6, <1>7, <1>8, <1>9, <1>10, <1>11, <1>12, <1>13,
       <1>14, <1>15, <1>16, <1>17, <1>18, <1>19, <1>20, <1>21, <1>22, <1>23, <1>24, <1>25,
       <1>26, <1>27, <1>28
       DEF Next, WriterInput, WriterWork, Reader

LEMMA RestartNoticeStep == RestartRanges /\ RestartNoticeInv /\ Work => RestartNoticeInv'
<1> SUFFICES ASSUME RestartRanges, RestartNoticeInv, Next, killed' = killed,
                    unannounced =>
                      \/ unannounced'
                      \/ pc["writer"] = "zero" /\ pc'["writer"] = "semget"
                      \/ pc["reader"] \in {"compare", "remember"} /\ pc'["reader"] = "unlock"
             PROVE  RestartNoticeInv'
    BY DEF Work
<1> USE DEF RestartRanges, RestartNoticeInv, Programs, WCalls, RCalls, NoSem, Go, Silent,
        SemStep, board, queueVars, writerVars, readerVars
<1>1. CASE WShmget  BY <1>1 DEF WShmget
<1>2. CASE WZero  BY <1>2 DEF WZero
<1>3. CASE WSemget  BY <1>3 DEF WSemget
<1>4. CASE WSetval  BY <1>4 DEF WSetval
<1>5. CASE WMsgget  BY <1>5 DEF WMsgget
<1>6. CASE WReadLine  BY <1>6 DEF WReadLine
<1>7. CASE WReadExit  BY <1>7 DEF WReadExit
<1>8. CASE WReadEof  BY <1>8 DEF WReadEof
<1>9. CASE WLock  BY <1>9 DEF WLock
<1>10. CASE WCopyBegin  BY <1>10 DEF WCopyBegin
<1>11. CASE WCopyEnd  BY <1>11 DEF WCopyEnd
<1>12. CASE WCount  BY <1>12 DEF WCount
<1>13. CASE WUnlock  BY <1>13 DEF WUnlock
<1>14. CASE WNotify  BY <1>14 DEF WNotify
<1>15. CASE WShmctl  BY <1>15 DEF WShmctl, AfterShmRmid
<1>16. CASE WSemctl  BY <1>16 DEF WSemctl
<1>17. CASE WMsgctl  BY <1>17 DEF WMsgctl
<1>18. CASE RShmget  BY <1>18 DEF RShmget
<1>19. CASE RSemget  BY <1>19 DEF RSemget
<1>20. CASE RMsgget  BY <1>20 DEF RMsgget
<1>21. CASE RReceive  BY <1>21 DEF RReceive
<1>22. CASE RLock  BY <1>22 DEF RLock
<1>23. CASE RCompareNew  BY <1>23 DEF RCompareNew
<1>24. CASE RCompareOld  BY <1>24 DEF RCompareOld
<1>25. CASE RShow  BY <1>25 DEF RShow
<1>26. CASE RRemember  BY <1>26 DEF RRemember, RememberAs
<1>27. CASE RUnlock  BY <1>27 DEF RUnlock
<1>28. CASE RFails  BY <1>28 DEF RFails, RGiveUp, AfterLastDetach
<1> QED
    BY <1>1, <1>2, <1>3, <1>4, <1>5, <1>6, <1>7, <1>8, <1>9, <1>10, <1>11, <1>12, <1>13,
       <1>14, <1>15, <1>16, <1>17, <1>18, <1>19, <1>20, <1>21, <1>22, <1>23, <1>24, <1>25,
       <1>26, <1>27, <1>28
       DEF Next, WriterInput, WriterWork, Reader

LEMMA RestartBoardStep ==
    RestartRanges /\ RestartLockInv /\ RestartSegmentInv /\ RestartBoardInv /\ Work
        => RestartBoardInv'
<1> SUFFICES ASSUME RestartRanges, RestartLockInv, RestartSegmentInv, RestartBoardInv, Next,
                    setvalHeld => setvalHeld',
                    pc["writer"] = "setval" /\ RInside /\ pc'["writer"] = "msgget" => setvalHeld'
             PROVE  RestartBoardInv'
    BY DEF Work
<1> USE DEF RestartRanges, RestartLockInv, RestartBoardInv, Whole, WInside, RInside, AfterUp,
        AfterDown, CanDown, AfterSemget, ShmStates, Programs, WCalls, RCalls, NoSem, Go, Silent,
        SemStep, board, queueVars, writerVars, readerVars
<1>1. CASE WShmget  BY <1>1 DEF WShmget, RestartSegmentInv
<1>2. CASE WZero  BY <1>2 DEF WZero
<1>3. CASE WSemget  BY <1>3 DEF WSemget
<1>4. CASE WSetval  BY <1>4 DEF WSetval
<1>5. CASE WMsgget  BY <1>5 DEF WMsgget
<1>6. CASE WReadLine  BY <1>6 DEF WReadLine
<1>7. CASE WReadExit  BY <1>7 DEF WReadExit
<1>8. CASE WReadEof  BY <1>8 DEF WReadEof
<1>9. CASE WLock  BY <1>9 DEF WLock
<1>10. CASE WCopyBegin  BY <1>10 DEF WCopyBegin
<1>11. CASE WCopyEnd  BY <1>11 DEF WCopyEnd
<1>12. CASE WCount
  <2>1. message \notin {Blank, Torn}
      BY <1>12, MarksAssumption DEF WCount
  <2>2. /\ Len(posted') = Len(posted) + 1 /\ posted'[Len(posted) + 1] = message
        /\ count' = Len(posted')
      BY <1>12, AppendProperties DEF WCount
  <2> QED
      BY <1>12, <2>1, <2>2 DEF WCount
<1>13. CASE WUnlock  BY <1>13 DEF WUnlock
<1>14. CASE WNotify  BY <1>14 DEF WNotify
<1>15. CASE WShmctl  BY <1>15 DEF WShmctl, AfterShmRmid
<1>16. CASE WSemctl  BY <1>16 DEF WSemctl
<1>17. CASE WMsgctl  BY <1>17 DEF WMsgctl
<1>18. CASE RShmget  BY <1>18 DEF RShmget
<1>19. CASE RSemget  BY <1>19 DEF RSemget
<1>20. CASE RMsgget  BY <1>20 DEF RMsgget
<1>21. CASE RReceive  BY <1>21 DEF RReceive
<1>22. CASE RLock  BY <1>22 DEF RLock
<1>23. CASE RCompareNew  BY <1>23 DEF RCompareNew
<1>24. CASE RCompareOld  BY <1>24 DEF RCompareOld
<1>25. CASE RShow  BY <1>25 DEF RShow
<1>26. CASE RRemember  BY <1>26 DEF RRemember, RememberAs
<1>27. CASE RUnlock  BY <1>27 DEF RUnlock
<1>28. CASE RFails  BY <1>28 DEF RFails, RGiveUp, AfterLastDetach
<1> QED
    BY <1>1, <1>2, <1>3, <1>4, <1>5, <1>6, <1>7, <1>8, <1>9, <1>10, <1>11, <1>12, <1>13,
       <1>14, <1>15, <1>16, <1>17, <1>18, <1>19, <1>20, <1>21, <1>22, <1>23, <1>24, <1>25,
       <1>26, <1>27, <1>28
       DEF Next, WriterInput, WriterWork, Reader

\* A kill releases nothing: semaphore, board and notices stay as they are.
LEMMA KillStep == ASSUME NEW p \in Programs, RestartInv, Kill(p) PROVE RestartInv'
<1> USE DEF RestartInv, RestartRanges, Kill, Programs, WCalls, RCalls, board, queueVars,
        writerVars, readerVars, NoSem
<1>1. RestartRanges'
    BY DEF AfterLastDetach, ShmStates
<1>2. RestartLockInv'
    BY DEF RestartLockInv, WInside, RInside
<1>3. RestartSegmentInv'
    BY DEF RestartSegmentInv, AfterLastDetach, ShmStates
<1>4. RestartNoticeInv'
    BY DEF RestartNoticeInv
<1>5. RestartBoardInv'
    BY DEF RestartBoardInv, Whole, RInside
<1> QED
    BY <1>1, <1>2, <1>3, <1>4, <1>5

LEMMA RerunStep == ASSUME NEW p \in Programs, RestartInv, Rerun(p) PROVE RestartInv'
<1> USE DEF RestartInv, RestartRanges, Rerun, Programs, WCalls, RCalls, board, queueVars, NoSem
<1>1. RestartRanges'
    OBVIOUS
<1>2. RestartLockInv'
    BY DEF RestartLockInv, WInside, RInside, RestartNoticeInv
<1>3. RestartSegmentInv'
    BY DEF RestartSegmentInv
<1>4. RestartNoticeInv'
  <2>1. /\ unannounced => unannounced'
        /\ p = "reader" /\ notices = 0 => unannounced'
      OBVIOUS
  <2>2. CASE p = "reader"
      BY <2>1, <2>2 DEF RestartNoticeInv
  <2>3. CASE p = "writer"
      BY <2>1, <2>3 DEF RestartNoticeInv
  <2> QED
      BY <2>2, <2>3
<1>5. RestartBoardInv'
    BY DEF RestartBoardInv, Whole, RInside
<1> QED
    BY <1>1, <1>2, <1>3, <1>4, <1>5

LEMMA RestartInvariant == RestartSpec => []RestartInv
<1>1. RestartInv /\ [RestartNext]_restartVars => RestartInv'
  <2> SUFFICES ASSUME RestartInv, [RestartNext]_restartVars PROVE RestartInv'
      OBVIOUS
  <2>1. CASE Work
      BY <2>1, RestartRangesStep, RestartLockStep, RestartSegmentStep, RestartNoticeStep,
         RestartBoardStep DEF RestartInv, Work
  <2>2. CASE \E p \in Programs : Kill(p) \/ Rerun(p)
      BY <2>2, KillStep, RerunStep
  <2>3. CASE UNCHANGED restartVars
      BY <2>3 DEF restartVars, vars, board, queueVars, writerVars, readerVars, RestartInv,
         RestartRanges, RestartLockInv, RestartSegmentInv, RestartNoticeInv, RestartBoardInv,
         Whole, WInside, RInside
  <2> QED
      BY <2>1, <2>2, <2>3 DEF RestartNext
<1> QED
    BY <1>1, RestartInitInv, PTL DEF RestartSpec

\* However often the two are killed and started again, they meet on the board only
\* after a SETVAL that came upon a reader inside, and a post goes unseen by a
\* reader at rest only if its notice went to, or was lost with, one that is gone.
THEOREM RestartCosts == RestartSpec => []CostOfRestart
<1>1. RestartInv => CostOfRestart
  <2> SUFFICES ASSUME RestartInv PROVE CostOfRestart
      OBVIOUS
  <2>1. ExclusionUntilSetval
      BY DEF RestartInv, RestartLockInv, ExclusionUntilSetval, MutualExclusion, WInside
  <2>2. UnseenOnlyAfterKill
      BY DEF RestartInv, RestartRanges, RestartNoticeInv, UnseenOnlyAfterKill
  <2> QED
      BY <2>1, <2>2 DEF CostOfRestart
<1> QED
    BY <1>1, RestartInvariant, PTL

LEMMA ShowStep ==
    ASSUME RestartInv, [RestartNext]_restartVars, shown' # shown, shown' # <<>>, ~setvalHeld
    PROVE  \/ count = Len(posted) /\ count > 0 /\ message = posted[count]
           \/ count = 0 /\ message \notin {Blank, Torn}
<1>1. CASE RShow
  <2>1. pc["reader"] = "printf" /\ RInside
      BY <1>1 DEF RShow, Go, RInside
  <2> QED
      BY <2>1 DEF RestartInv, RestartRanges, RestartBoardInv, Whole
<1>2. CASE Next /\ ~RShow
    BY <1>2 DEF Next, WriterInput, WriterWork, Reader, Silent, SemStep, writerVars, readerVars,
       WShmget, WZero, WSemget, WSetval, WMsgget, WReadLine, WReadExit, WReadEof, WLock,
       WCopyBegin, WCopyEnd, WCount, WUnlock, WNotify, WShmctl, WSemctl, WMsgctl, RShmget,
       RSemget, RMsgget, RReceive, RLock, RCompareNew, RCompareOld, RRemember, RememberAs,
       RUnlock, RFails, RGiveUp
<1>3. CASE \E p \in Programs : Kill(p) \/ Rerun(p)
    BY <1>3 DEF Kill, Rerun, readerVars
<1>4. CASE UNCHANGED restartVars
    BY <1>4 DEF restartVars, vars, readerVars
<1> QED
    BY <1>1, <1>2, <1>3, <1>4 DEF RestartNext, Work

\* A reader shows a text under the number it was posted with, or an old text as
\* number 0 when a new writer's msg_count = 0 comes between its test and its
\* printf, for any number of kills (message_reader.c:72-75).
THEOREM PairsAreWhole == RestartSpec => WholePairs
<1>1. RestartInv /\ [RestartNext]_restartVars =>
        [shown' # shown /\ shown' # <<>> /\ ~setvalHeld =>
            \/ count = Len(posted) /\ count > 0 /\ message = posted[count]
            \/ count = 0 /\ message \notin {Blank, Torn}]_restartVars
    BY ShowStep
<1> QED
    BY <1>1, RestartInvariant, PTL DEF RestartSpec, WholePairs
=============================================================================
