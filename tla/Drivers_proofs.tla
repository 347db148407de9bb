--------------------------- MODULE Drivers_proofs ---------------------------
(***************************************************************************)
(* Proofs about QuantumRead and LedTimer in Drivers, for any number of     *)
(* processes and of writes and any sizes of the buffer and of the quantum: *)
(* where a call of qread may copy, and what a reader gets; what an LED at  *)
(* rest shows, and that no timer outlives its module; and the types of all *)
(* three drivers.                                                          *)
(***************************************************************************)
EXTENDS QuantumSet_proofs

-----------------------------------------------------------------------------
(* QuantumRead: the inductive invariant *)

\* A process is in a call that looks at the device.
Calling == {"limit", "lower", "copyOut", "copyIn"}

\* insmod has not stored the fields yet, and nobody has done anything to the device.
Loading == load \notin {"size", "loaded", "unregister", "gone"}

LoadInv ==
    /\ Loading =>
        /\ size = 0 /\ version = 0
        /\ \A r \in Users :
             /\ rpc[r] \notin Calling /\ writing[r] = 0
             /\ f_pos[r] = 0 /\ copied[r] = 0 /\ got[r] = <<>>
    /\ load = "fields" \/ Reads!Ready => Len(data) = mem_size
    /\ size <= mem_size
    /\ Loading \/ load = "size" => ~zeroed

\* A call is made through an open file; a closed one has been put back to its start.
FileInv ==
    \A r \in Users :
        /\ rpc[r] \in Calling => filp[r] = Reads!Dev
        /\ filp[r] = "closed" => rpc[r] = "idle" /\ f_pos[r] = 0 /\ got[r] = <<>>
        /\ rpc[r] \in {"idle", "limit", "lower"} => copied[r] = 0
        /\ rpc[r] = "copyOut" => copied[r] < count[r]
        /\ rpc[r] = "copyIn" => copied[r] <= count[r]

\* A write fits; and while the module is there, whoever has a write in progress is
\* copying it: none has crashed in the middle.
WriteInv ==
    \A r \in Users :
        /\ rpc[r] = "copyIn" => count[r] <= mem_size /\ writing[r] > 0
        /\ Reads!Ready /\ writing[r] > 0 => rpc[r] = "copyIn"

\* Between its looks at the size, a read still has something to read, unless the size
\* was lowered; and what it then copies is inside the buffer.
BoundInv ==
    \A r \in Users : ~shrunk[r] =>
        /\ Reads!Ready /\ rpc[r] \in {"limit", "lower"} => f_pos[r] < size
        /\ rpc[r] = "copyOut" => f_pos[r] + count[r] <= mem_size

Writer(w) == rpc[w] = "copyIn"

\* A reader that is calm has no writer beside it; and unless insmod has taken the size
\* back, its read ends below the size, and it has been given what is in the buffer up
\* to where it is.
CalmAt(r) ==
    Reads!Ready /\ calm[r] /\ filp[r] = Reads!Dev =>
        /\ \A w \in Users : ~Writer(w)
        /\ ~zeroed =>
             /\ rpc[r] \in {"limit", "lower"} => f_pos[r] < size
             /\ rpc[r] = "copyOut" => f_pos[r] + count[r] <= size
             /\ rpc[r] # "crashed" =>
                  /\ f_pos[r] + copied[r] <= size
                  /\ Len(got[r]) = f_pos[r] + copied[r]
                  /\ \A i \in 1..f_pos[r] + copied[r] : got[r][i] = data[i]
CalmInv == \A r \in Users : CalmAt(r)

\* If the last write began alone, it is the only one there can be, its bytes are in
\* the buffer as far as it has come, and when it is through they are all there is.
AloneInv ==
    Reads!Ready /\ alone /\ version > 0 =>
        /\ \A w \in Users : Writer(w) =>
             /\ writing[w] = version
             /\ \A i \in 1..copied[w] : data[i] = version
        /\ \A v, w \in Users : Writer(v) /\ Writer(w) => v = w
        /\ (\A w \in Users : ~Writer(w)) => \A i \in 1..size : data[i] = version

Inv == /\ Reads!TypeOK
       /\ LoadInv /\ FileInv /\ WriteInv /\ BoundInv /\ CalmInv /\ AloneInv

-----------------------------------------------------------------------------
(* Types *)

\* TypeOK in parts, for no prover is good at all of them.
NumbersOK ==
    /\ mem_size \in Nat /\ blk_size \in Nat /\ size \in Nat
    /\ version \in 0..MaxVersion /\ writing \in [Users -> 0..MaxVersion]
    /\ f_pos \in [Users -> Nat] /\ count \in [Users -> Nat] /\ copied \in [Users -> Nat]
NamesOK ==
    /\ load \in {"register", "validate", "kmalloc", "memset", "buffer", "fields", "size",
                "loaded", "unregister", "gone"}
    /\ rpc \in [Users -> {"idle", "limit", "lower", "copyOut", "copyIn", "crashed"}]
    /\ filp \in [Users -> {"closed", Reads!Null, Reads!Dev}]
HistoryOK ==
    /\ alone \in BOOLEAN /\ zeroed \in BOOLEAN
    /\ calm \in [Users -> BOOLEAN] /\ shrunk \in [Users -> BOOLEAN]
BytesOK == data \in Seq(0..MaxVersion) /\ got \in [Users -> Seq(0..MaxVersion)]

LEMMA TypeParts == Reads!TypeOK <=> NumbersOK /\ NamesOK /\ HistoryOK /\ BytesOK
  BY DEF Reads!TypeOK, NumbersOK, NamesOK, HistoryOK, BytesOK

LEMMA UpdateInSeq ==
    ASSUME NEW s \in Seq(0..MaxVersion), NEW i \in 1..Len(s), NEW e \in 0..MaxVersion
    PROVE  /\ [s EXCEPT ![i] = e] \in Seq(0..MaxVersion)
           /\ Len([s EXCEPT ![i] = e]) = Len(s)
  BY ReadsAssumption

LEMMA NumbersStep ==
    ASSUME NumbersOK, [Reads!Next]_Reads!vars
    PROVE  NumbersOK'
  <1> USE DEF NumbersOK, Reads!Ready, Reads!Cleared
  <1>1. CASE Reads!Register
    BY <1>1 DEF Reads!Register, Reads!Stage, Reads!SizeStays, Reads!fileVars
  <1>2. CASE Reads!Validate
    BY <1>2, ReadsAssumption DEF Reads!Validate, Reads!Stage, Reads!SizeStays, Reads!fileVars
  <1>3. CASE Reads!Kmalloc
    BY <1>3 DEF Reads!Kmalloc, Reads!Stage, Reads!SizeStays, Reads!fileVars
  <1>4. CASE Reads!Memset
    BY <1>4 DEF Reads!Memset, Reads!Stage, Reads!SizeStays, Reads!fileVars
  <1>5. CASE Reads!Buffer
    BY <1>5 DEF Reads!Buffer, Reads!Stage, Reads!SizeStays, Reads!fileVars
  <1>6. CASE Reads!Rmmod
    BY <1>6 DEF Reads!Rmmod, Reads!Stage, Reads!SizeStays, Reads!fileVars
  <1>7. CASE Reads!Unregister
    BY <1>7 DEF Reads!Unregister, Reads!Stage, Reads!SizeStays, Reads!fileVars
  <1>8. ASSUME NEW r \in Users, Reads!Crash(r) PROVE NumbersOK'
    BY <1>8 DEF Reads!Crash, Reads!Usable, Reads!deviceVars, Reads!bufferVars, Reads!historyVars
  <1>9. ASSUME NEW r \in Users, Reads!qread_open(r) PROVE NumbersOK'
    BY <1>9 DEF Reads!qread_open, Reads!deviceVars, Reads!bufferVars, Reads!Dev, Reads!Null
  <1>10. ASSUME NEW r \in Users, Reads!qread_release(r) PROVE NumbersOK'
    BY <1>10 DEF Reads!qread_release, Reads!Forget, Reads!deviceVars, Reads!bufferVars
  <1>11. ASSUME NEW r \in Users, NEW c \in Counts, Reads!TestPos(r, c) PROVE NumbersOK'
    BY <1>11, ReadsAssumption DEF Reads!TestPos, Reads!Usable, Reads!Step, Reads!deviceVars,
       Reads!bufferVars
  <1>12. ASSUME NEW r \in Users, Reads!TestLeft(r) PROVE NumbersOK'
    BY <1>12 DEF Reads!TestLeft, Reads!Usable, Reads!Step, Reads!ToCopy, Reads!AsSize,
       Reads!Huge, Reads!S, Reads!Q, Reads!Local, Reads!deviceVars, Reads!bufferVars,
       Reads!historyVars
  <1>13. ASSUME NEW r \in Users, Reads!LowerToLeft(r) PROVE NumbersOK'
    BY <1>13 DEF Reads!LowerToLeft, Reads!Usable, Reads!Step, Reads!ToCopy, Reads!AsSize,
       Reads!Huge, Reads!S, Reads!Q, Reads!Local, Reads!deviceVars, Reads!bufferVars,
       Reads!historyVars
  <1>14. ASSUME NEW r \in Users, Reads!CopyOut(r) PROVE NumbersOK'
    BY <1>14 DEF Reads!CopyOut, Reads!Usable, Reads!S, Reads!deviceVars, Reads!bufferVars
  <1>15. ASSUME NEW r \in Users, NEW c \in Counts, Reads!TestSpace(r, c) PROVE NumbersOK'
    BY <1>15, ReadsAssumption DEF Reads!TestSpace, Reads!Usable, Reads!Step, Reads!S,
       Reads!deviceVars
  <1>16. ASSUME NEW r \in Users, Reads!CopyIn(r) PROVE NumbersOK'
    BY <1>16 DEF Reads!CopyIn, Reads!Usable, Reads!S, Reads!deviceVars, Reads!historyVars
  <1>17. ASSUME NEW r \in Users, Reads!SetSize(r) PROVE NumbersOK'
    BY <1>17, ReadsAssumption DEF Reads!SetSize, Reads!Usable, Reads!Step, Reads!Forget,
       Reads!deviceVars
  <1>18. CASE UNCHANGED Reads!vars
    BY <1>18 DEF Reads!vars, Reads!deviceVars, Reads!bufferVars, Reads!fileVars, Reads!historyVars
  <1>19. CASE Reads!SetFields
    BY <1>19 DEF Reads!SetFields, Reads!Stage, Reads!SizeStays, Reads!fileVars
  <1>20. CASE Reads!ClearSize
    BY <1>20 DEF Reads!ClearSize, Reads!Stage, Reads!Shrunk, Reads!fileVars
  <1> QED
    BY <1>1, <1>2, <1>3, <1>4, <1>5, <1>6, <1>7, <1>8, <1>9,
       <1>10, <1>11, <1>12, <1>13, <1>14, <1>15, <1>16, <1>17, <1>18, <1>19, <1>20
    DEF Reads!Next, Reads!Module, Reads!Process, Reads!qread_read, Reads!qread_write

LEMMA NamesStep ==
    ASSUME NamesOK, [Reads!Next]_Reads!vars
    PROVE  NamesOK'
  <1> USE DEF NamesOK, Reads!Dev, Reads!Null, Reads!Ready, Reads!Cleared
  <1>1. CASE Reads!Register
    BY <1>1 DEF Reads!Register, Reads!Stage, Reads!SizeStays, Reads!fileVars
  <1>2. CASE Reads!Validate
    BY <1>2 DEF Reads!Validate, Reads!Stage, Reads!SizeStays, Reads!fileVars
  <1>3. CASE Reads!Kmalloc
    BY <1>3 DEF Reads!Kmalloc, Reads!Stage, Reads!SizeStays, Reads!fileVars
  <1>4. CASE Reads!Memset
    BY <1>4 DEF Reads!Memset, Reads!Stage, Reads!SizeStays, Reads!fileVars
  <1>5. CASE Reads!Buffer
    BY <1>5 DEF Reads!Buffer, Reads!Stage, Reads!SizeStays, Reads!fileVars
  <1>6. CASE Reads!Rmmod
    BY <1>6 DEF Reads!Rmmod, Reads!Stage, Reads!SizeStays, Reads!fileVars
  <1>7. CASE Reads!Unregister
    BY <1>7 DEF Reads!Unregister, Reads!Stage, Reads!SizeStays, Reads!fileVars
  <1>8. ASSUME NEW r \in Users, Reads!Crash(r) PROVE NamesOK'
    BY <1>8 DEF Reads!Crash, Reads!Usable, Reads!deviceVars, Reads!bufferVars, Reads!historyVars
  <1>9. ASSUME NEW r \in Users, Reads!qread_open(r) PROVE NamesOK'
    BY <1>9 DEF Reads!qread_open, Reads!deviceVars, Reads!bufferVars, Reads!Dev, Reads!Null
  <1>10. ASSUME NEW r \in Users, Reads!qread_release(r) PROVE NamesOK'
    BY <1>10 DEF Reads!qread_release, Reads!Forget, Reads!deviceVars, Reads!bufferVars
  <1>11. ASSUME NEW r \in Users, NEW c \in Counts, Reads!TestPos(r, c) PROVE NamesOK'
    BY <1>11 DEF Reads!TestPos, Reads!Usable, Reads!Step, Reads!deviceVars, Reads!bufferVars
  <1>12. ASSUME NEW r \in Users, Reads!TestLeft(r) PROVE NamesOK'
    BY <1>12 DEF Reads!TestLeft, Reads!Usable, Reads!Step, Reads!ToCopy, Reads!AsSize,
       Reads!Huge, Reads!S, Reads!Q, Reads!Local, Reads!deviceVars, Reads!bufferVars,
       Reads!historyVars
  <1>13. ASSUME NEW r \in Users, Reads!LowerToLeft(r) PROVE NamesOK'
    BY <1>13 DEF Reads!LowerToLeft, Reads!Usable, Reads!Step, Reads!ToCopy, Reads!AsSize,
       Reads!Huge, Reads!S, Reads!Q, Reads!Local, Reads!deviceVars, Reads!bufferVars,
       Reads!historyVars
  <1>14. ASSUME NEW r \in Users, Reads!CopyOut(r) PROVE NamesOK'
    BY <1>14 DEF Reads!CopyOut, Reads!Usable, Reads!S, Reads!deviceVars, Reads!bufferVars
  <1>15. ASSUME NEW r \in Users, NEW c \in Counts, Reads!TestSpace(r, c) PROVE NamesOK'
    BY <1>15 DEF Reads!TestSpace, Reads!Usable, Reads!Step, Reads!S, Reads!deviceVars
  <1>16. ASSUME NEW r \in Users, Reads!CopyIn(r) PROVE NamesOK'
    BY <1>16 DEF Reads!CopyIn, Reads!Usable, Reads!S, Reads!deviceVars, Reads!historyVars
  <1>17. ASSUME NEW r \in Users, Reads!SetSize(r) PROVE NamesOK'
    BY <1>17 DEF Reads!SetSize, Reads!Usable, Reads!Step, Reads!Forget, Reads!Shrunk,
       Reads!deviceVars
  <1>18. CASE UNCHANGED Reads!vars
    BY <1>18 DEF Reads!vars, Reads!deviceVars, Reads!bufferVars, Reads!fileVars, Reads!historyVars
  <1>19. CASE Reads!SetFields
    BY <1>19 DEF Reads!SetFields, Reads!Stage, Reads!SizeStays, Reads!fileVars
  <1>20. CASE Reads!ClearSize
    BY <1>20 DEF Reads!ClearSize, Reads!Stage, Reads!Shrunk, Reads!fileVars
  <1> QED
    BY <1>1, <1>2, <1>3, <1>4, <1>5, <1>6, <1>7, <1>8, <1>9,
       <1>10, <1>11, <1>12, <1>13, <1>14, <1>15, <1>16, <1>17, <1>18, <1>19, <1>20
    DEF Reads!Next, Reads!Module, Reads!Process, Reads!qread_read, Reads!qread_write

LEMMA HistoryStep ==
    ASSUME HistoryOK, [Reads!Next]_Reads!vars
    PROVE  HistoryOK'
  <1> USE DEF HistoryOK, Reads!Ready, Reads!Cleared
  <1>1. CASE Reads!Register
    BY <1>1 DEF Reads!Register, Reads!Stage, Reads!SizeStays, Reads!fileVars
  <1>2. CASE Reads!Validate
    BY <1>2 DEF Reads!Validate, Reads!Stage, Reads!SizeStays, Reads!fileVars
  <1>3. CASE Reads!Kmalloc
    BY <1>3 DEF Reads!Kmalloc, Reads!Stage, Reads!SizeStays, Reads!fileVars
  <1>4. CASE Reads!Memset
    BY <1>4 DEF Reads!Memset, Reads!Stage, Reads!SizeStays, Reads!fileVars
  <1>5. CASE Reads!Buffer
    BY <1>5 DEF Reads!Buffer, Reads!Stage, Reads!SizeStays, Reads!fileVars
  <1>6. CASE Reads!Rmmod
    BY <1>6 DEF Reads!Rmmod, Reads!Stage, Reads!SizeStays, Reads!fileVars
  <1>7. CASE Reads!Unregister
    BY <1>7 DEF Reads!Unregister, Reads!Stage, Reads!SizeStays, Reads!fileVars
  <1>8. ASSUME NEW r \in Users, Reads!Crash(r) PROVE HistoryOK'
    BY <1>8 DEF Reads!Crash, Reads!Usable, Reads!deviceVars, Reads!bufferVars, Reads!historyVars
  <1>9. ASSUME NEW r \in Users, Reads!qread_open(r) PROVE HistoryOK'
    BY <1>9 DEF Reads!qread_open, Reads!deviceVars, Reads!bufferVars, Reads!Dev, Reads!Null
  <1>10. ASSUME NEW r \in Users, Reads!qread_release(r) PROVE HistoryOK'
    BY <1>10 DEF Reads!qread_release, Reads!Forget, Reads!deviceVars, Reads!bufferVars
  <1>11. ASSUME NEW r \in Users, NEW c \in Counts, Reads!TestPos(r, c) PROVE HistoryOK'
    BY <1>11 DEF Reads!TestPos, Reads!Usable, Reads!Step, Reads!deviceVars, Reads!bufferVars
  <1>12. ASSUME NEW r \in Users, Reads!TestLeft(r) PROVE HistoryOK'
    BY <1>12 DEF Reads!TestLeft, Reads!Usable, Reads!Step, Reads!ToCopy, Reads!AsSize,
       Reads!Huge, Reads!S, Reads!Q, Reads!Local, Reads!deviceVars, Reads!bufferVars,
       Reads!historyVars
  <1>13. ASSUME NEW r \in Users, Reads!LowerToLeft(r) PROVE HistoryOK'
    BY <1>13 DEF Reads!LowerToLeft, Reads!Usable, Reads!Step, Reads!ToCopy, Reads!AsSize,
       Reads!Huge, Reads!S, Reads!Q, Reads!Local, Reads!deviceVars, Reads!bufferVars,
       Reads!historyVars
  <1>14. ASSUME NEW r \in Users, Reads!CopyOut(r) PROVE HistoryOK'
    BY <1>14 DEF Reads!CopyOut, Reads!Usable, Reads!S, Reads!deviceVars, Reads!bufferVars
  <1>15. ASSUME NEW r \in Users, NEW c \in Counts, Reads!TestSpace(r, c) PROVE HistoryOK'
    BY <1>15 DEF Reads!TestSpace, Reads!Usable, Reads!Step, Reads!S, Reads!deviceVars
  <1>16. ASSUME NEW r \in Users, Reads!CopyIn(r) PROVE HistoryOK'
    BY <1>16 DEF Reads!CopyIn, Reads!Usable, Reads!S, Reads!deviceVars, Reads!historyVars
  <1>17. ASSUME NEW r \in Users, Reads!SetSize(r) PROVE HistoryOK'
    BY <1>17 DEF Reads!SetSize, Reads!Usable, Reads!Step, Reads!Forget, Reads!Shrunk,
       Reads!deviceVars
  <1>18. CASE UNCHANGED Reads!vars
    BY <1>18 DEF Reads!vars, Reads!deviceVars, Reads!bufferVars, Reads!fileVars, Reads!historyVars
  <1>19. CASE Reads!SetFields
    BY <1>19 DEF Reads!SetFields, Reads!Stage, Reads!SizeStays, Reads!fileVars
  <1>20. CASE Reads!ClearSize
    BY <1>20 DEF Reads!ClearSize, Reads!Stage, Reads!Shrunk, Reads!fileVars
  <1> QED
    BY <1>1, <1>2, <1>3, <1>4, <1>5, <1>6, <1>7, <1>8, <1>9,
       <1>10, <1>11, <1>12, <1>13, <1>14, <1>15, <1>16, <1>17, <1>18, <1>19, <1>20
    DEF Reads!Next, Reads!Module, Reads!Process, Reads!qread_read, Reads!qread_write

\* Whoever is in a call, and can use the device, finds it set up.
LEMMA InCall ==
    ASSUME LoadInv, NEW r \in Users, Reads!Usable(r), rpc[r] \in Calling
    PROVE  Reads!Ready /\ Len(data) = mem_size
  BY DEF LoadInv, Loading, Reads!Usable, Reads!Ready, Reads!Cleared

LEMMA BytesStep ==
    ASSUME NumbersOK, HistoryOK, BytesOK, LoadInv, [Reads!Next]_Reads!vars
    PROVE  BytesOK'
  <1> USE DEF BytesOK, Reads!Ready, Reads!Cleared
  <1>1. CASE Reads!Register
    BY <1>1 DEF Reads!Register, Reads!Stage, Reads!SizeStays, Reads!fileVars
  <1>2. CASE Reads!Validate
    BY <1>2 DEF Reads!Validate, Reads!Stage, Reads!SizeStays, Reads!fileVars
  <1>3. CASE Reads!Kmalloc
    BY <1>3 DEF Reads!Kmalloc, Reads!Stage, Reads!SizeStays, Reads!fileVars
  <1>4. CASE Reads!Memset
    BY <1>4 DEF Reads!Memset, Reads!Stage, Reads!SizeStays, Reads!fileVars
  <1>5. CASE Reads!Buffer
    <2>1. data' \in Seq(0..MaxVersion)
      <3>1. CASE load' = "fields"
        <4>1. data' = [i \in 1..mem_size |-> 0] /\ mem_size \in Nat /\ 0 \in 0..MaxVersion
          BY <1>5, <3>1, ReadsAssumption DEF Reads!Buffer, Reads!S, NumbersOK
        <4> QED BY <4>1
      <3>2. CASE load' # "fields"
        BY <1>5, <3>2, EmptySeq DEF Reads!Buffer
      <3> QED BY <3>1, <3>2
    <2> QED BY <1>5, <2>1 DEF Reads!Buffer, Reads!Stage, Reads!SizeStays, Reads!fileVars
  <1>6. CASE Reads!Rmmod
    BY <1>6, EmptySeq DEF Reads!Rmmod, Reads!Stage, Reads!SizeStays, Reads!fileVars
  <1>7. CASE Reads!Unregister
    BY <1>7 DEF Reads!Unregister, Reads!Stage, Reads!SizeStays, Reads!fileVars
  <1>8. ASSUME NEW r \in Users, Reads!Crash(r) PROVE BytesOK'
    BY <1>8 DEF Reads!Crash, Reads!Usable, Reads!deviceVars, Reads!bufferVars, Reads!historyVars
  <1>9. ASSUME NEW r \in Users, Reads!qread_open(r) PROVE BytesOK'
    BY <1>9 DEF Reads!qread_open, Reads!deviceVars, Reads!bufferVars, Reads!Dev, Reads!Null
  <1>10. ASSUME NEW r \in Users, Reads!qread_release(r) PROVE BytesOK'
    BY <1>10, EmptySeq DEF Reads!qread_release, Reads!Forget, Reads!deviceVars, Reads!bufferVars
  <1>11. ASSUME NEW r \in Users, NEW c \in Counts, Reads!TestPos(r, c) PROVE BytesOK'
    BY <1>11 DEF Reads!TestPos, Reads!Usable, Reads!Step, Reads!deviceVars, Reads!bufferVars
  <1>12. ASSUME NEW r \in Users, Reads!TestLeft(r) PROVE BytesOK'
    BY <1>12 DEF Reads!TestLeft, Reads!Usable, Reads!Step, Reads!ToCopy, Reads!AsSize,
       Reads!Huge, Reads!S, Reads!Q, Reads!Local, Reads!deviceVars, Reads!bufferVars,
       Reads!historyVars
  <1>13. ASSUME NEW r \in Users, Reads!LowerToLeft(r) PROVE BytesOK'
    BY <1>13 DEF Reads!LowerToLeft, Reads!Usable, Reads!Step, Reads!ToCopy, Reads!AsSize,
       Reads!Huge, Reads!S, Reads!Q, Reads!Local, Reads!deviceVars, Reads!bufferVars,
       Reads!historyVars
  <1>14. ASSUME NEW r \in Users, Reads!CopyOut(r) PROVE BytesOK'
    <2>1. UNCHANGED data
      BY <1>14 DEF Reads!CopyOut, Reads!bufferVars
    <2>2. CASE UNCHANGED got
      BY <2>1, <2>2
    <2>3. CASE ~UNCHANGED got
      <3> DEFINE i == f_pos[r] + copied[r] + 1
      <3>1. i <= mem_size /\ got' = [got EXCEPT ![r] = Append(got[r], data[i])]
        BY <1>14, <2>3 DEF Reads!CopyOut, Reads!S
      <3>2. Len(data) = mem_size
        BY <1>14, InCall DEF Reads!CopyOut, Calling
      <3>3. i \in 1..Len(data)
        BY <3>1, <3>2 DEF NumbersOK
      <3> HIDE DEF i
      <3>4. data[i] \in 0..MaxVersion
        BY <3>3, ElementOfSeq
      <3>5. Append(got[r], data[i]) \in Seq(0..MaxVersion)
        BY <3>4, AppendProperties
      <3> QED BY <2>1, <3>1, <3>5
    <2> QED BY <2>2, <2>3
  <1>15. ASSUME NEW r \in Users, NEW c \in Counts, Reads!TestSpace(r, c) PROVE BytesOK'
    BY <1>15, EmptySeq DEF Reads!TestSpace, Reads!Usable, Reads!Step, Reads!S, Reads!deviceVars
  <1>16. ASSUME NEW r \in Users, Reads!CopyIn(r) PROVE BytesOK'
    <2>1. UNCHANGED got
      BY <1>16 DEF Reads!CopyIn, Reads!historyVars
    <2>2. CASE UNCHANGED data
      BY <2>1, <2>2
    <2>3. CASE ~UNCHANGED data
      <3> DEFINE i == copied[r] + 1
      <3>1. i <= mem_size /\ data' = [data EXCEPT ![i] = writing[r]]
        BY <1>16, <2>3 DEF Reads!CopyIn, Reads!S
      <3>2. Len(data) = mem_size
        BY <1>16, InCall DEF Reads!CopyIn, Calling
      <3>3. i \in 1..Len(data) /\ writing[r] \in 0..MaxVersion
        BY <3>1, <3>2 DEF NumbersOK
      <3> HIDE DEF i
      <3> QED BY <2>1, <3>1, <3>3, UpdateInSeq
    <2> QED BY <2>2, <2>3
  <1>17. ASSUME NEW r \in Users, Reads!SetSize(r) PROVE BytesOK'
    BY <1>17 DEF Reads!SetSize, Reads!Usable, Reads!Step, Reads!Forget, Reads!Shrunk,
       Reads!deviceVars
  <1>18. CASE UNCHANGED Reads!vars
    BY <1>18 DEF Reads!vars, Reads!deviceVars, Reads!bufferVars, Reads!fileVars, Reads!historyVars
  <1>19. CASE Reads!SetFields
    BY <1>19 DEF Reads!SetFields, Reads!Stage, Reads!SizeStays, Reads!fileVars
  <1>20. CASE Reads!ClearSize
    BY <1>20 DEF Reads!ClearSize, Reads!Stage, Reads!Shrunk, Reads!fileVars
  <1> QED
    BY <1>1, <1>2, <1>3, <1>4, <1>5, <1>6, <1>7, <1>8, <1>9,
       <1>10, <1>11, <1>12, <1>13, <1>14, <1>15, <1>16, <1>17, <1>18, <1>19, <1>20
    DEF Reads!Next, Reads!Module, Reads!Process, Reads!qread_read, Reads!qread_write

-----------------------------------------------------------------------------
(* The invariant is inductive *)

LEMMA LoadStep ==
    ASSUME NumbersOK, NamesOK, HistoryOK, BytesOK, LoadInv, WriteInv, [Reads!Next]_Reads!vars
    PROVE  LoadInv'
  <1> USE DEF NumbersOK, NamesOK, LoadInv, Loading, Calling, Reads!Ready, Reads!Cleared
  <1>0. NumbersOK' /\ MaxVersion \in Nat
    BY NumbersStep, ReadsAssumption
  <1>1. CASE Reads!Register
    BY <1>1 DEF Reads!Register, Reads!Stage, Reads!SizeStays, Reads!fileVars
  <1>2. CASE Reads!Validate
    BY <1>0, <1>2 DEF Reads!Validate, Reads!Stage, Reads!SizeStays, Reads!fileVars
  <1>3. CASE Reads!Kmalloc
    BY <1>3 DEF Reads!Kmalloc, Reads!Stage, Reads!SizeStays, Reads!fileVars
  <1>4. CASE Reads!Memset
    BY <1>4 DEF Reads!Memset, Reads!Stage, Reads!SizeStays, Reads!fileVars
  <1>5. CASE Reads!Buffer
    <2>1. load' = "fields" => Len(data') = mem_size'
      BY <1>0, <1>5 DEF Reads!Buffer, Reads!Stage, Reads!SizeStays, Reads!fileVars, Reads!S
    <2>2. /\ UNCHANGED <<size, version, rpc, writing, f_pos, copied, got, mem_size, zeroed>>
          /\ load = "buffer" /\ (load' = "fields" \/ load' = "unregister")
      BY <1>5 DEF Reads!Buffer, Reads!Stage, Reads!SizeStays, Reads!fileVars
    <2>3. size = 0 /\ version = 0 /\ ~zeroed
          /\ \A r \in Users : /\ rpc[r] \notin Calling /\ writing[r] = 0
                              /\ f_pos[r] = 0 /\ copied[r] = 0 /\ got[r] = <<>>
      BY <2>2
    <2>4. size' <= mem_size' /\ ~zeroed'
      BY <2>2, <2>3
    <2> QED BY <2>1, <2>2, <2>3, <2>4
  <1>6. CASE Reads!Rmmod
    BY <1>6 DEF Reads!Rmmod, Reads!Stage, Reads!SizeStays, Reads!fileVars
  <1>7. CASE Reads!Unregister
    BY <1>7 DEF Reads!Unregister, Reads!Stage, Reads!SizeStays, Reads!fileVars
  <1>8. ASSUME NEW r \in Users, Reads!Crash(r) PROVE LoadInv'
    BY <1>8 DEF Reads!Crash, Reads!Usable, Reads!deviceVars, Reads!bufferVars, Reads!historyVars
  <1>9. ASSUME NEW r \in Users, Reads!qread_open(r) PROVE LoadInv'
    BY <1>9 DEF Reads!qread_open, Reads!deviceVars, Reads!bufferVars, Reads!Dev, Reads!Null
  <1>10. ASSUME NEW r \in Users, Reads!qread_release(r) PROVE LoadInv'
    BY <1>10 DEF Reads!qread_release, Reads!Forget, Reads!deviceVars, Reads!bufferVars
  <1>11. ASSUME NEW r \in Users, NEW c \in Counts, Reads!TestPos(r, c) PROVE LoadInv'
    BY <1>11 DEF Reads!TestPos, Reads!Usable, Reads!Step, Reads!deviceVars, Reads!bufferVars
  <1>12. ASSUME NEW r \in Users, Reads!TestLeft(r) PROVE LoadInv'
    BY <1>12 DEF Reads!TestLeft, Reads!Usable, Reads!Step, Reads!ToCopy, Reads!AsSize,
       Reads!Huge, Reads!S, Reads!Q, Reads!Local, Reads!deviceVars, Reads!bufferVars,
       Reads!historyVars
  <1>13. ASSUME NEW r \in Users, Reads!LowerToLeft(r) PROVE LoadInv'
    BY <1>13 DEF Reads!LowerToLeft, Reads!Usable, Reads!Step, Reads!ToCopy, Reads!AsSize,
       Reads!Huge, Reads!S, Reads!Q, Reads!Local, Reads!deviceVars, Reads!bufferVars,
       Reads!historyVars
  <1>14. ASSUME NEW r \in Users, Reads!CopyOut(r) PROVE LoadInv'
    BY <1>14 DEF Reads!CopyOut, Reads!Usable, Reads!S, Reads!deviceVars, Reads!bufferVars
  <1>15. ASSUME NEW r \in Users, NEW c \in Counts, Reads!TestSpace(r, c) PROVE LoadInv'
    BY <1>15 DEF Reads!TestSpace, Reads!Usable, Reads!Step, Reads!S, Reads!deviceVars
  <1>16. ASSUME NEW r \in Users, Reads!CopyIn(r) PROVE LoadInv'
    BY <1>16 DEF Reads!CopyIn, Reads!Usable, Reads!S, Reads!deviceVars, Reads!historyVars
  <1>17. ASSUME NEW r \in Users, Reads!SetSize(r) PROVE LoadInv'
    BY <1>0, <1>17 DEF WriteInv, Reads!SetSize, Reads!Usable, Reads!Step, Reads!Forget,
       Reads!deviceVars
  <1>18. CASE UNCHANGED Reads!vars
    BY <1>18 DEF Reads!vars, Reads!deviceVars, Reads!bufferVars, Reads!fileVars, Reads!historyVars
  <1>19. CASE Reads!SetFields
    BY <1>0, <1>19 DEF Reads!SetFields, Reads!Stage, Reads!SizeStays, Reads!fileVars
  <1>20. CASE Reads!ClearSize
    BY <1>0, <1>20 DEF Reads!ClearSize, Reads!Stage, Reads!Shrunk, Reads!fileVars
  <1> QED
    BY <1>1, <1>2, <1>3, <1>4, <1>5, <1>6, <1>7, <1>8, <1>9,
       <1>10, <1>11, <1>12, <1>13, <1>14, <1>15, <1>16, <1>17, <1>18, <1>19, <1>20
    DEF Reads!Next, Reads!Module, Reads!Process, Reads!qread_read, Reads!qread_write

LEMMA FileStep ==
    ASSUME NumbersOK, NamesOK, HistoryOK, BytesOK, LoadInv, FileInv, [Reads!Next]_Reads!vars
    PROVE  FileInv'
  <1> USE DEF NumbersOK, NamesOK, BytesOK, FileInv, Calling, Reads!Dev, Reads!Null, Reads!Ready,
      Reads!Cleared
  <1>0. NumbersOK' /\ MaxVersion \in Nat
    BY NumbersStep, ReadsAssumption
  <1>1. CASE Reads!Register
    BY <1>1 DEF Reads!Register, Reads!Stage, Reads!SizeStays, Reads!fileVars
  <1>2. CASE Reads!Validate
    BY <1>2 DEF Reads!Validate, Reads!Stage, Reads!SizeStays, Reads!fileVars
  <1>3. CASE Reads!Kmalloc
    BY <1>3 DEF Reads!Kmalloc, Reads!Stage, Reads!SizeStays, Reads!fileVars
  <1>4. CASE Reads!Memset
    BY <1>4 DEF Reads!Memset, Reads!Stage, Reads!SizeStays, Reads!fileVars
  <1>5. CASE Reads!Buffer
    BY <1>5 DEF Reads!Buffer, Reads!Stage, Reads!SizeStays, Reads!fileVars
  <1>6. CASE Reads!Rmmod
    BY <1>6 DEF Reads!Rmmod, Reads!Stage, Reads!SizeStays, Reads!fileVars
  <1>7. CASE Reads!Unregister
    BY <1>7 DEF Reads!Unregister, Reads!Stage, Reads!SizeStays, Reads!fileVars
  <1>8. ASSUME NEW r \in Users, Reads!Crash(r) PROVE FileInv'
    BY <1>8 DEF Reads!Crash, Reads!Usable, Reads!deviceVars, Reads!bufferVars, Reads!historyVars
  <1>9. ASSUME NEW r \in Users, Reads!qread_open(r) PROVE FileInv'
    BY <1>9 DEF Reads!qread_open, Reads!deviceVars, Reads!bufferVars, Reads!Dev, Reads!Null
  <1>10. ASSUME NEW r \in Users, Reads!qread_release(r) PROVE FileInv'
    BY <1>10 DEF Reads!qread_release, Reads!Forget, Reads!deviceVars, Reads!bufferVars
  <1>11. ASSUME NEW r \in Users, NEW c \in Counts, Reads!TestPos(r, c) PROVE FileInv'
    BY <1>11 DEF Reads!TestPos, Reads!Usable, Reads!Step, Reads!deviceVars, Reads!bufferVars
  <1>12. ASSUME NEW r \in Users, Reads!TestLeft(r) PROVE FileInv'
    BY <1>12 DEF Reads!TestLeft, Reads!Usable, Reads!Step, Reads!ToCopy, Reads!AsSize,
       Reads!Huge, Reads!S, Reads!Q, Reads!Local, Reads!deviceVars, Reads!bufferVars,
       Reads!historyVars
  <1>13. ASSUME NEW r \in Users, Reads!LowerToLeft(r) PROVE FileInv'
    BY <1>13 DEF Reads!LowerToLeft, Reads!Usable, Reads!Step, Reads!ToCopy, Reads!AsSize,
       Reads!Huge, Reads!S, Reads!Q, Reads!Local, Reads!deviceVars, Reads!bufferVars,
       Reads!historyVars
  <1>14. ASSUME NEW r \in Users, Reads!CopyOut(r) PROVE FileInv'
    <2>1. /\ filp[r] = Reads!Dev /\ rpc[r] = "copyOut" /\ UNCHANGED filp
          /\ rpc'[r] \in {"idle", "copyOut"}
          /\ rpc'[r] = "idle" => copied'[r] = 0
          /\ rpc'[r] = "copyOut" => copied'[r] < count'[r]
      BY <1>0, <1>14 DEF Reads!CopyOut, Reads!Usable
    <2>2. \A q \in Users \ {r} : /\ rpc'[q] = rpc[q] /\ f_pos'[q] = f_pos[q] /\ got'[q] = got[q]
                                /\ copied'[q] = copied[q] /\ count'[q] = count[q]
      BY <1>14 DEF Reads!CopyOut
    <2> QED BY <2>1, <2>2
  <1>15. ASSUME NEW r \in Users, NEW c \in Counts, Reads!TestSpace(r, c) PROVE FileInv'
    BY <1>0, <1>15 DEF Reads!TestSpace, Reads!Usable, Reads!Step, Reads!S, Reads!deviceVars
  <1>16. ASSUME NEW r \in Users, Reads!CopyIn(r) PROVE FileInv'
    BY <1>16 DEF Reads!CopyIn, Reads!Usable, Reads!S, Reads!deviceVars, Reads!historyVars
  <1>17. ASSUME NEW r \in Users, Reads!SetSize(r) PROVE FileInv'
    BY <1>17 DEF Reads!SetSize, Reads!Usable, Reads!Step, Reads!Forget, Reads!Shrunk,
       Reads!deviceVars
  <1>18. CASE UNCHANGED Reads!vars
    BY <1>18 DEF Reads!vars, Reads!deviceVars, Reads!bufferVars, Reads!fileVars, Reads!historyVars
  <1>19. CASE Reads!SetFields
    BY <1>19 DEF Reads!SetFields, Reads!Stage, Reads!SizeStays, Reads!fileVars
  <1>20. CASE Reads!ClearSize
    BY <1>20 DEF Reads!ClearSize, Reads!Stage, Reads!Shrunk, Reads!fileVars
  <1> QED
    BY <1>1, <1>2, <1>3, <1>4, <1>5, <1>6, <1>7, <1>8, <1>9,
       <1>10, <1>11, <1>12, <1>13, <1>14, <1>15, <1>16, <1>17, <1>18, <1>19, <1>20
    DEF Reads!Next, Reads!Module, Reads!Process, Reads!qread_read, Reads!qread_write

LEMMA WriteStep ==
    ASSUME NumbersOK, NamesOK, HistoryOK, BytesOK, LoadInv, FileInv, WriteInv,
        [Reads!Next]_Reads!vars
    PROVE  WriteInv'
  <1> USE DEF NumbersOK, NamesOK, WriteInv, Calling, Reads!Ready, Reads!Cleared
  <1>0. NumbersOK' /\ MaxVersion \in Nat
    BY NumbersStep, ReadsAssumption
  <1>1. CASE Reads!Register
    BY <1>1 DEF Reads!Register, Reads!Stage, Reads!SizeStays, Reads!fileVars
  <1>2. CASE Reads!Validate
    BY <1>0, <1>2 DEF LoadInv, Loading, Reads!Validate, Reads!Stage, Reads!SizeStays, Reads!fileVars
  <1>3. CASE Reads!Kmalloc
    BY <1>3 DEF Reads!Kmalloc, Reads!Stage, Reads!SizeStays, Reads!fileVars
  <1>4. CASE Reads!Memset
    BY <1>4 DEF Reads!Memset, Reads!Stage, Reads!SizeStays, Reads!fileVars
  <1>5. CASE Reads!Buffer
    BY <1>0, <1>5 DEF LoadInv, Loading, Reads!Buffer, Reads!Stage, Reads!SizeStays, Reads!fileVars
  <1>6. CASE Reads!Rmmod
    BY <1>6 DEF Reads!Rmmod, Reads!Stage, Reads!SizeStays, Reads!fileVars
  <1>7. CASE Reads!Unregister
    BY <1>7 DEF Reads!Unregister, Reads!Stage, Reads!SizeStays, Reads!fileVars
  <1>8. ASSUME NEW r \in Users, Reads!Crash(r) PROVE WriteInv'
    BY <1>0, <1>8 DEF FileInv, Reads!Crash, Reads!Usable, Reads!deviceVars, Reads!bufferVars,
       Reads!historyVars
  <1>9. ASSUME NEW r \in Users, Reads!qread_open(r) PROVE WriteInv'
    BY <1>9 DEF Reads!qread_open, Reads!deviceVars, Reads!bufferVars, Reads!Dev, Reads!Null
  <1>10. ASSUME NEW r \in Users, Reads!qread_release(r) PROVE WriteInv'
    BY <1>10 DEF Reads!qread_release, Reads!Forget, Reads!deviceVars, Reads!bufferVars
  <1>11. ASSUME NEW r \in Users, NEW c \in Counts, Reads!TestPos(r, c) PROVE WriteInv'
    BY <1>11 DEF Reads!TestPos, Reads!Usable, Reads!Step, Reads!deviceVars, Reads!bufferVars
  <1>12. ASSUME NEW r \in Users, Reads!TestLeft(r) PROVE WriteInv'
    BY <1>12 DEF Reads!TestLeft, Reads!Usable, Reads!Step, Reads!ToCopy, Reads!AsSize,
       Reads!Huge, Reads!S, Reads!Q, Reads!Local, Reads!deviceVars, Reads!bufferVars,
       Reads!historyVars
  <1>13. ASSUME NEW r \in Users, Reads!LowerToLeft(r) PROVE WriteInv'
    BY <1>13 DEF Reads!LowerToLeft, Reads!Usable, Reads!Step, Reads!ToCopy, Reads!AsSize,
       Reads!Huge, Reads!S, Reads!Q, Reads!Local, Reads!deviceVars, Reads!bufferVars,
       Reads!historyVars
  <1>14. ASSUME NEW r \in Users, Reads!CopyOut(r) PROVE WriteInv'
    BY <1>14 DEF Reads!CopyOut, Reads!Usable, Reads!S, Reads!deviceVars, Reads!bufferVars
  <1>15. ASSUME NEW r \in Users, NEW c \in Counts, Reads!TestSpace(r, c) PROVE WriteInv'
    BY <1>15 DEF Reads!TestSpace, Reads!Usable, Reads!Step, Reads!S, Reads!deviceVars
  <1>16. ASSUME NEW r \in Users, Reads!CopyIn(r) PROVE WriteInv'
    BY <1>16 DEF Reads!CopyIn, Reads!Usable, Reads!S, Reads!deviceVars, Reads!historyVars
  <1>17. ASSUME NEW r \in Users, Reads!SetSize(r) PROVE WriteInv'
    BY <1>17 DEF Reads!SetSize, Reads!Usable, Reads!Step, Reads!Forget, Reads!Shrunk,
       Reads!deviceVars
  <1>18. CASE UNCHANGED Reads!vars
    BY <1>18 DEF Reads!vars, Reads!deviceVars, Reads!bufferVars, Reads!fileVars, Reads!historyVars
  <1>19. CASE Reads!SetFields
    BY <1>19 DEF LoadInv, Loading, Reads!SetFields, Reads!Stage, Reads!SizeStays, Reads!fileVars
  <1>20. CASE Reads!ClearSize
    BY <1>20 DEF Reads!ClearSize, Reads!Stage, Reads!Shrunk, Reads!fileVars
  <1> QED
    BY <1>1, <1>2, <1>3, <1>4, <1>5, <1>6, <1>7, <1>8, <1>9,
       <1>10, <1>11, <1>12, <1>13, <1>14, <1>15, <1>16, <1>17, <1>18, <1>19, <1>20
    DEF Reads!Next, Reads!Module, Reads!Process, Reads!qread_read, Reads!qread_write

LEMMA BoundStep ==
    ASSUME NumbersOK, NamesOK, HistoryOK, BytesOK, LoadInv, FileInv, WriteInv, BoundInv,
        [Reads!Next]_Reads!vars
    PROVE  BoundInv'
  <1> USE DEF NumbersOK, NamesOK, HistoryOK, BoundInv, Calling, Reads!Ready, Reads!Cleared
  <1>0. NumbersOK' /\ MaxVersion \in Nat
    BY NumbersStep, ReadsAssumption
  <1>1. CASE Reads!Register
    BY <1>1 DEF Reads!Register, Reads!Stage, Reads!SizeStays, Reads!fileVars
  <1>2. CASE Reads!Validate
    BY <1>0, <1>2 DEF LoadInv, Loading, Reads!Validate, Reads!Stage, Reads!SizeStays, Reads!fileVars
  <1>3. CASE Reads!Kmalloc
    BY <1>3 DEF Reads!Kmalloc, Reads!Stage, Reads!SizeStays, Reads!fileVars
  <1>4. CASE Reads!Memset
    BY <1>4 DEF Reads!Memset, Reads!Stage, Reads!SizeStays, Reads!fileVars
  <1>5. CASE Reads!Buffer
    BY <1>0, <1>5 DEF LoadInv, Loading, Reads!Buffer, Reads!Stage, Reads!SizeStays, Reads!fileVars
  <1>6. CASE Reads!Rmmod
    BY <1>6 DEF Reads!Rmmod, Reads!Stage, Reads!SizeStays, Reads!fileVars
  <1>7. CASE Reads!Unregister
    BY <1>7 DEF Reads!Unregister, Reads!Stage, Reads!SizeStays, Reads!fileVars
  <1>8. ASSUME NEW r \in Users, Reads!Crash(r) PROVE BoundInv'
    BY <1>8 DEF Reads!Crash, Reads!Usable, Reads!deviceVars, Reads!bufferVars, Reads!historyVars
  <1>9. ASSUME NEW r \in Users, Reads!qread_open(r) PROVE BoundInv'
    BY <1>9 DEF Reads!qread_open, Reads!deviceVars, Reads!bufferVars, Reads!Dev, Reads!Null
  <1>10. ASSUME NEW r \in Users, Reads!qread_release(r) PROVE BoundInv'
    BY <1>10 DEF Reads!qread_release, Reads!Forget, Reads!deviceVars, Reads!bufferVars
  <1>11. ASSUME NEW r \in Users, NEW c \in Counts, Reads!TestPos(r, c) PROVE BoundInv'
    BY <1>11 DEF Reads!TestPos, Reads!Usable, Reads!Step, Reads!deviceVars, Reads!bufferVars
  <1>12. ASSUME NEW r \in Users, Reads!TestLeft(r) PROVE BoundInv'
    <2>1. rpc[r] \in {"limit", "lower"} /\ Reads!Ready /\ size <= mem_size
          /\ UNCHANGED <<load, mem_size, size, shrunk, f_pos>>
      BY <1>12, InCall DEF Reads!TestLeft, Reads!Usable, Reads!Step, Reads!ToCopy, Reads!AsSize,
         Reads!Huge, Reads!S, Reads!Q, Reads!Local, Reads!deviceVars, Reads!bufferVars,
         Reads!historyVars, LoadInv
    <2>2. ASSUME ~shrunk[r], rpc'[r] = "copyOut" PROVE f_pos[r] + count'[r] <= size
      <3>1. f_pos[r] < size
        BY <2>1, <2>2
      <3> QED BY <1>0, <2>1, <2>2, <3>1, <1>12 DEF Reads!TestLeft, Reads!Step, Reads!ToCopy,
          Reads!AsSize, Reads!Q
    <2>3. \A q \in Users \ {r} : rpc'[q] = rpc[q] /\ count'[q] = count[q]
      BY <1>12 DEF Reads!TestLeft, Reads!Step, Reads!ToCopy
    <2>4. rpc'[r] \in {"lower", "idle", "copyOut"}
      BY <1>12 DEF Reads!TestLeft, Reads!Step, Reads!ToCopy
    <2> QED BY <1>0, <2>1, <2>2, <2>3, <2>4
  <1>13. ASSUME NEW r \in Users, Reads!LowerToLeft(r) PROVE BoundInv'
    <2>1. rpc[r] \in {"limit", "lower"} /\ Reads!Ready /\ size <= mem_size
          /\ UNCHANGED <<load, mem_size, size, shrunk, f_pos>>
      BY <1>13, InCall DEF Reads!LowerToLeft, Reads!Usable, Reads!Step, Reads!ToCopy,
         Reads!AsSize, Reads!Huge, Reads!S, Reads!Q, Reads!Local, Reads!deviceVars,
         Reads!bufferVars, Reads!historyVars, LoadInv
    <2>2. ASSUME ~shrunk[r], rpc'[r] = "copyOut" PROVE f_pos[r] + count'[r] <= size
      <3>1. f_pos[r] < size
        BY <2>1, <2>2
      <3> QED BY <1>0, <2>1, <2>2, <3>1, <1>13 DEF Reads!LowerToLeft, Reads!Step, Reads!ToCopy,
          Reads!AsSize, Reads!Q
    <2>3. \A q \in Users \ {r} : rpc'[q] = rpc[q] /\ count'[q] = count[q]
      BY <1>13 DEF Reads!LowerToLeft, Reads!Step, Reads!ToCopy
    <2>4. rpc'[r] \in {"lower", "idle", "copyOut"}
      BY <1>13 DEF Reads!LowerToLeft, Reads!Step, Reads!ToCopy
    <2> QED BY <1>0, <2>1, <2>2, <2>3, <2>4
  <1>14. ASSUME NEW r \in Users, Reads!CopyOut(r) PROVE BoundInv'
    BY <1>14 DEF Reads!CopyOut, Reads!Usable, Reads!S, Reads!deviceVars, Reads!bufferVars
  <1>15. ASSUME NEW r \in Users, NEW c \in Counts, Reads!TestSpace(r, c) PROVE BoundInv'
    BY <1>15 DEF Reads!TestSpace, Reads!Usable, Reads!Step, Reads!S, Reads!deviceVars
  <1>16. ASSUME NEW r \in Users, Reads!CopyIn(r) PROVE BoundInv'
    BY <1>16 DEF Reads!CopyIn, Reads!Usable, Reads!S, Reads!deviceVars, Reads!historyVars
  <1>17. ASSUME NEW r \in Users, Reads!SetSize(r) PROVE BoundInv'
    <2>1. rpc' = [rpc EXCEPT ![r] = "idle"] /\ UNCHANGED <<load, mem_size>>
          /\ \A q \in Users \ {r} : count'[q] = count[q] /\ f_pos'[q] = f_pos[q]
      BY <1>17 DEF Reads!SetSize, Reads!Step, Reads!Forget, Reads!deviceVars
    <2>2. \A q \in Users : shrunk'[q] = (shrunk[q] \/ (size' < size /\ rpc[q] \in {"limit",
        "lower"}))
      BY <1>17 DEF Reads!SetSize, Reads!Shrunk
    <2> SUFFICES ASSUME NEW q \in Users, ~shrunk'[q], rpc'[q] # "idle"
                 PROVE  /\ Reads!Ready' /\ rpc'[q] \in {"limit", "lower"} => f_pos'[q] < size'
                        /\ rpc'[q] = "copyOut" => f_pos'[q] + count'[q] <= mem_size'
      OBVIOUS
    <2>3. q # r /\ rpc'[q] = rpc[q] /\ count'[q] = count[q] /\ f_pos'[q] = f_pos[q]
      BY <2>1
    <2>4. ~shrunk[q] /\ ~(size' < size /\ rpc[q] \in {"limit", "lower"})
      BY <2>2, Zenon
    <2> QED BY <1>0, <2>1, <2>3, <2>4
  <1>18. CASE UNCHANGED Reads!vars
    BY <1>18 DEF Reads!vars, Reads!deviceVars, Reads!bufferVars, Reads!fileVars, Reads!historyVars
  <1>19. CASE Reads!SetFields
    BY <1>19 DEF LoadInv, Loading, Reads!SetFields, Reads!Stage, Reads!SizeStays, Reads!fileVars
  <1>20. CASE Reads!ClearSize
    <2>1. /\ UNCHANGED <<rpc, f_pos, count, mem_size>> /\ load = "size" /\ size' = 0
          /\ \A q \in Users : shrunk'[q] = (shrunk[q] \/ (size' < size /\ rpc[q] \in {"limit",
              "lower"}))
      BY <1>20 DEF Reads!ClearSize, Reads!Stage, Reads!Shrunk, Reads!fileVars
    <2> SUFFICES ASSUME NEW q \in Users, ~shrunk'[q]
                 PROVE  /\ rpc[q] \notin {"limit", "lower"}
                        /\ rpc[q] = "copyOut" => f_pos[q] + count[q] <= mem_size
      BY <2>1
    <2>2. ~shrunk[q] /\ ~(size' < size /\ rpc[q] \in {"limit", "lower"})
      BY <2>1, Zenon
    <2>3. rpc[q] \in {"limit", "lower"} => f_pos[q] < size
      BY <2>1, <2>2
    <2> QED BY <2>1, <2>2, <2>3
  <1> QED
    BY <1>1, <1>2, <1>3, <1>4, <1>5, <1>6, <1>7, <1>8, <1>9,
       <1>10, <1>11, <1>12, <1>13, <1>14, <1>15, <1>16, <1>17, <1>18, <1>19, <1>20
    DEF Reads!Next, Reads!Module, Reads!Process, Reads!qread_read, Reads!qread_write

\* What r does, if it does not write, is nothing to a calm reader beside it.
LEMMA CalmSame ==
    ASSUME NamesOK, NEW r \in Users, NEW q \in Users \ {r}, CalmAt(q),
           UNCHANGED <<load, data, size, zeroed>>, calm'[q] = calm[q],
           rpc'[r] # "copyIn", \A w \in Users \ {r} : rpc'[w] = rpc[w],
           f_pos'[q] = f_pos[q], got'[q] = got[q], copied'[q] = copied[q], count'[q] = count[q],
           filp'[q] = filp[q]
    PROVE  CalmAt(q)'
  <1> SUFFICES ASSUME Reads!Ready, calm[q], filp[q] = Reads!Dev PROVE CalmAt(q)'
    BY DEF CalmAt, Reads!Dev, Reads!Ready
  <1>1. \A w \in Users : ~Writer(w)'
    BY DEF CalmAt, Writer
  <1>2. /\ zeroed' = zeroed /\ size' = size /\ data' = data /\ rpc'[q] = rpc[q]
        /\ f_pos'[q] = f_pos[q] /\ got'[q] = got[q] /\ copied'[q] = copied[q]
        /\ count'[q] = count[q]
    OBVIOUS
  <1>3. CASE zeroed
    <2>1. zeroed'
      BY <1>2, <1>3
    <2> QED BY <1>1, <2>1, Zenon DEF CalmAt
  <1>4. CASE ~zeroed
    <2>1. /\ rpc[q] \in {"limit", "lower"} => f_pos[q] < size
          /\ rpc[q] = "copyOut" => f_pos[q] + count[q] <= size
          /\ rpc[q] # "crashed" =>
               /\ f_pos[q] + copied[q] <= size
               /\ Len(got[q]) = f_pos[q] + copied[q]
               /\ \A i \in 1..f_pos[q] + copied[q] : got[q][i] = data[i]
      BY <1>4, Zenon DEF CalmAt
    <2>2. /\ rpc'[q] \in {"limit", "lower"} => f_pos'[q] < size'
          /\ rpc'[q] = "copyOut" => f_pos'[q] + count'[q] <= size'
          /\ rpc'[q] # "crashed" =>
               /\ f_pos'[q] + copied'[q] <= size'
               /\ Len(got'[q]) = f_pos'[q] + copied'[q]
               /\ \A i \in 1..f_pos'[q] + copied'[q] : got'[q][i] = data'[i]
      BY <1>2, <2>1, Zenon
    <2> QED BY <1>1, <2>2, Zenon DEF CalmAt
  <1> QED BY <1>3, <1>4

LEMMA CalmStep ==
    ASSUME NumbersOK, NamesOK, HistoryOK, BytesOK, LoadInv, FileInv, WriteInv, CalmInv,
        [Reads!Next]_Reads!vars
    PROVE  CalmInv'
  <1> USE DEF NumbersOK, NamesOK, CalmInv, Reads!Dev, Reads!Ready, Reads!Cleared
  <1>0. NumbersOK' /\ MaxVersion \in Nat
    BY NumbersStep, ReadsAssumption
  <1>1. CASE Reads!Register
    <2>1. ~Reads!Ready'
      BY <1>1 DEF Reads!Register, Reads!Stage, Reads!SizeStays, Reads!fileVars
    <2> QED BY <2>1 DEF CalmAt
  <1>2. CASE Reads!Validate
    <2>1. ~Reads!Ready'
      BY <1>2 DEF Reads!Validate, Reads!Stage, Reads!SizeStays, Reads!fileVars
    <2> QED BY <2>1 DEF CalmAt
  <1>3. CASE Reads!Kmalloc
    <2>1. ~Reads!Ready'
      BY <1>3 DEF Reads!Kmalloc, Reads!Stage, Reads!SizeStays, Reads!fileVars
    <2> QED BY <2>1 DEF CalmAt
  <1>4. CASE Reads!Memset
    <2>1. ~Reads!Ready'
      BY <1>4 DEF Reads!Memset, Reads!Stage, Reads!SizeStays, Reads!fileVars
    <2> QED BY <2>1 DEF CalmAt
  <1>5. CASE Reads!Buffer
    <2>1. ~Reads!Ready'
      BY <1>5 DEF Reads!Buffer, Reads!Stage
    <2> QED BY <2>1 DEF CalmAt
  <1>6. CASE Reads!Rmmod
    <2>1. ~Reads!Ready'
      BY <1>6 DEF Reads!Rmmod, Reads!Stage, Reads!SizeStays, Reads!fileVars
    <2> QED BY <2>1 DEF CalmAt
  <1>7. CASE Reads!Unregister
    <2>1. ~Reads!Ready'
      BY <1>7 DEF Reads!Unregister, Reads!Stage, Reads!SizeStays, Reads!fileVars
    <2> QED BY <2>1 DEF CalmAt
  <1>8. ASSUME NEW r \in Users, Reads!Crash(r) PROVE CalmInv'
    <2>1. UNCHANGED <<load, data, size, zeroed, calm>>
          /\ rpc'[r] # "copyIn"
          /\ \A q \in Users \ {r} : /\ rpc'[q] = rpc[q] /\ f_pos'[q] = f_pos[q] /\ got'[q] = got[q]
                                    /\ copied'[q] = copied[q] /\ count'[q] = count[q]
                                    /\ filp'[q] = filp[q]
      BY <1>8 DEF Reads!Crash, Reads!Usable, Reads!deviceVars, Reads!bufferVars,
         Reads!historyVars, BytesOK
    <2>2. \A q \in Users \ {r} : CalmAt(q)'
      BY <2>1, CalmSame
    <2>3. /\ rpc'[r] = "crashed" /\ UNCHANGED <<f_pos, copied, count, got, filp>>
      BY <1>8 DEF Reads!Crash, Reads!Usable, Reads!deviceVars, Reads!bufferVars, Reads!historyVars
    <2>9. CalmAt(r)'
      BY <1>0, <2>1, <2>3 DEF CalmAt, Writer
    <2> QED BY <2>2, <2>9
  <1>9. ASSUME NEW r \in Users, Reads!qread_open(r) PROVE CalmInv'
    <2>1. UNCHANGED <<load, data, size, zeroed, f_pos>>
          /\ rpc[r] # "copyIn" /\ rpc'[r] # "copyIn"
          /\ \A q \in Users \ {r} : /\ rpc'[q] = rpc[q] /\ f_pos'[q] = f_pos[q] /\ got'[q] = got[q]
                                    /\ copied'[q] = copied[q] /\ count'[q] = count[q]
                                    /\ filp'[q] = filp[q] /\ calm'[q] = calm[q]
      BY <1>9 DEF Reads!qread_open, Reads!deviceVars, Reads!bufferVars, Reads!Dev, Reads!Null,
         HistoryOK
    <2>2. \A q \in Users \ {r} : CalmAt(q)'
      BY <2>1, CalmSame
    <2>3. UNCHANGED <<rpc, f_pos, copied, got>> /\ (calm'[r] => \A w \in Users : writing[w] = 0)
      BY <1>9 DEF Reads!qread_open, Reads!deviceVars, Reads!bufferVars, Reads!Dev, Reads!Null,
         HistoryOK
    <2>4. f_pos[r] = 0 /\ got[r] = <<>> /\ rpc[r] = "idle" /\ copied[r] = 0
      BY <1>9 DEF Reads!qread_open, FileInv
    <2>5. calm'[r] => \A w \in Users : ~Writer(w)'
      BY <2>3 DEF WriteInv, Writer
    <2>6. Len(got'[r]) = 0 /\ 1..f_pos'[r] + copied'[r] = {}
      BY <2>3, <2>4
    <2>9. CalmAt(r)'
      BY <1>0, <2>1, <2>3, <2>4, <2>5, <2>6 DEF CalmAt
    <2> QED BY <2>2, <2>9
  <1>10. ASSUME NEW r \in Users, Reads!qread_release(r) PROVE CalmInv'
    <2>1. UNCHANGED <<load, data, size, zeroed>>
          /\ rpc[r] # "copyIn" /\ rpc'[r] # "copyIn"
          /\ \A q \in Users \ {r} : /\ rpc'[q] = rpc[q] /\ f_pos'[q] = f_pos[q] /\ got'[q] = got[q]
                                    /\ copied'[q] = copied[q] /\ count'[q] = count[q]
                                    /\ filp'[q] = filp[q] /\ calm'[q] = calm[q]
      BY <1>10 DEF Reads!qread_release, Reads!Forget, Reads!deviceVars, Reads!bufferVars,
         HistoryOK, BytesOK
    <2>2. \A q \in Users \ {r} : CalmAt(q)'
      BY <2>1, CalmSame
    <2>3. filp'[r] # Reads!Dev
      BY <1>10 DEF Reads!qread_release, Reads!Forget, Reads!deviceVars, Reads!bufferVars
    <2>9. CalmAt(r)'
      BY <2>3 DEF CalmAt, Writer
    <2> QED BY <2>2, <2>9
  <1>11. ASSUME NEW r \in Users, NEW c \in Counts, Reads!TestPos(r, c) PROVE CalmInv'
    <2>1. UNCHANGED <<load, data, size, zeroed, calm>>
          /\ rpc[r] # "copyIn" /\ rpc'[r] # "copyIn"
          /\ \A q \in Users \ {r} : /\ rpc'[q] = rpc[q] /\ f_pos'[q] = f_pos[q] /\ got'[q] = got[q]
                                    /\ copied'[q] = copied[q] /\ count'[q] = count[q]
                                    /\ filp'[q] = filp[q]
      BY <1>11 DEF Reads!TestPos, Reads!Usable, Reads!Step, Reads!deviceVars, Reads!bufferVars,
         BytesOK
    <2>2. \A q \in Users \ {r} : CalmAt(q)'
      BY <2>1, CalmSame
    <2>3. /\ f_pos[r] < size /\ rpc[r] = "idle" /\ rpc'[r] = "limit"
          /\ UNCHANGED <<f_pos, got, copied, filp>>
      BY <1>11 DEF Reads!TestPos, Reads!Usable, Reads!Step, Reads!deviceVars, Reads!bufferVars
    <2>9. CalmAt(r)'
      BY <1>0, <2>1, <2>3 DEF CalmAt, Writer
    <2> QED BY <2>2, <2>9
  <1>12. ASSUME NEW r \in Users, Reads!TestLeft(r) PROVE CalmInv'
    <2>1. UNCHANGED <<load, data, size, zeroed, calm>>
          /\ rpc[r] # "copyIn" /\ rpc'[r] # "copyIn"
          /\ \A q \in Users \ {r} : /\ rpc'[q] = rpc[q] /\ f_pos'[q] = f_pos[q] /\ got'[q] = got[q]
                                    /\ copied'[q] = copied[q] /\ count'[q] = count[q]
                                    /\ filp'[q] = filp[q]
      BY <1>12 DEF Reads!TestLeft, Reads!Usable, Reads!Step, Reads!ToCopy, Reads!AsSize,
         Reads!Huge, Reads!S, Reads!Q, Reads!Local, Reads!deviceVars, Reads!bufferVars,
         Reads!historyVars, BytesOK
    <2>2. \A q \in Users \ {r} : CalmAt(q)'
      BY <2>1, CalmSame
    <2>3. UNCHANGED <<f_pos, got, copied, filp>> /\ rpc[r] \in {"limit", "lower"}
      BY <1>12 DEF Reads!TestLeft, Reads!Usable, Reads!Step, Reads!ToCopy, Reads!AsSize,
         Reads!Huge, Reads!S, Reads!Q, Reads!Local, Reads!deviceVars, Reads!bufferVars,
         Reads!historyVars
    <2>4. rpc'[r] \in {"lower", "idle", "copyOut"}
      BY <1>12 DEF Reads!TestLeft, Reads!Usable, Reads!Step, Reads!ToCopy, Reads!AsSize,
         Reads!Huge, Reads!S, Reads!Q, Reads!Local, Reads!deviceVars, Reads!bufferVars,
         Reads!historyVars
    <2>5. f_pos[r] < size /\ rpc'[r] = "copyOut" => f_pos[r] + count'[r] <= size
      BY <1>0, <1>12 DEF Reads!TestLeft, Reads!Usable, Reads!Step, Reads!ToCopy, Reads!AsSize,
         Reads!Huge, Reads!S, Reads!Q, Reads!Local, Reads!deviceVars, Reads!bufferVars,
         Reads!historyVars
    <2>6. rpc'[r] = "lower" \/ rpc'[r] = "idle" \/ rpc'[r] = "copyOut"
      BY <2>4
    <2>9. CalmAt(r)'
      BY <1>0, <2>1, <2>3, <2>6, <2>5 DEF CalmAt, Writer
    <2> QED BY <2>2, <2>9
  <1>13. ASSUME NEW r \in Users, Reads!LowerToLeft(r) PROVE CalmInv'
    <2>1. UNCHANGED <<load, data, size, zeroed, calm>>
          /\ rpc[r] # "copyIn" /\ rpc'[r] # "copyIn"
          /\ \A q \in Users \ {r} : /\ rpc'[q] = rpc[q] /\ f_pos'[q] = f_pos[q] /\ got'[q] = got[q]
                                    /\ copied'[q] = copied[q] /\ count'[q] = count[q]
                                    /\ filp'[q] = filp[q]
      BY <1>13 DEF Reads!LowerToLeft, Reads!Usable, Reads!Step, Reads!ToCopy, Reads!AsSize,
         Reads!Huge, Reads!S, Reads!Q, Reads!Local, Reads!deviceVars, Reads!bufferVars,
         Reads!historyVars, BytesOK
    <2>2. \A q \in Users \ {r} : CalmAt(q)'
      BY <2>1, CalmSame
    <2>3. UNCHANGED <<f_pos, got, copied, filp>> /\ rpc[r] \in {"limit", "lower"}
      BY <1>13 DEF Reads!LowerToLeft, Reads!Usable, Reads!Step, Reads!ToCopy, Reads!AsSize,
         Reads!Huge, Reads!S, Reads!Q, Reads!Local, Reads!deviceVars, Reads!bufferVars,
         Reads!historyVars
    <2>4. rpc'[r] \in {"lower", "idle", "copyOut"}
      BY <1>13 DEF Reads!LowerToLeft, Reads!Usable, Reads!Step, Reads!ToCopy, Reads!AsSize,
         Reads!Huge, Reads!S, Reads!Q, Reads!Local, Reads!deviceVars, Reads!bufferVars,
         Reads!historyVars
    <2>5. f_pos[r] < size /\ rpc'[r] = "copyOut" => f_pos[r] + count'[r] <= size
      BY <1>0, <1>13 DEF Reads!LowerToLeft, Reads!Usable, Reads!Step, Reads!ToCopy, Reads!AsSize,
         Reads!Huge, Reads!S, Reads!Q, Reads!Local, Reads!deviceVars, Reads!bufferVars,
         Reads!historyVars
    <2>6. rpc'[r] = "lower" \/ rpc'[r] = "idle" \/ rpc'[r] = "copyOut"
      BY <2>4
    <2>9. CalmAt(r)'
      BY <1>0, <2>1, <2>3, <2>6, <2>5 DEF CalmAt, Writer
    <2> QED BY <2>2, <2>9
  <1>14. ASSUME NEW r \in Users, Reads!CopyOut(r) PROVE CalmInv'
    <2>1. UNCHANGED <<load, data, size, zeroed, calm>>
          /\ rpc[r] = "copyOut" /\ UNCHANGED filp /\ rpc'[r] # "copyIn"
          /\ \A q \in Users \ {r} : /\ rpc'[q] = rpc[q] /\ f_pos'[q] = f_pos[q] /\ got'[q] = got[q]
                                    /\ copied'[q] = copied[q] /\ count'[q] = count[q]
                                    /\ filp'[q] = filp[q]
      BY <1>14 DEF Reads!CopyOut, Reads!Usable, Reads!S, Reads!deviceVars, Reads!bufferVars, BytesOK
    <2>2. \A q \in Users \ {r} : CalmAt(q)'
      BY <2>1, CalmSame
    <2> SUFFICES ASSUME Reads!Ready, calm[r], filp[r] = Reads!Dev, ~zeroed
                 PROVE  /\ rpc'[r] # "limit" /\ rpc'[r] # "lower"
                        /\ rpc'[r] = "copyOut" => f_pos'[r] + count'[r] <= size
                        /\ f_pos'[r] + copied'[r] <= size
                        /\ Len(got'[r]) = f_pos'[r] + copied'[r]
                        /\ \A i \in 1..f_pos'[r] + copied'[r] : got'[r][i] = data[i]
      <3>1. calm[r] /\ filp[r] = Reads!Dev /\ Reads!Ready => \A w \in Users : ~Writer(w)'
        BY <2>1 DEF CalmAt, Writer
      <3>2. CalmAt(r)'
        BY <2>1, <3>1 DEF CalmAt
      <3> QED BY <2>2, <3>2
    <2> DEFINE k == f_pos[r] + copied[r]
    <2>3. /\ f_pos[r] + count[r] <= size /\ Len(got[r]) = k /\ k \in Nat
          /\ \A i \in 1..k : got[r][i] = data[i]
      BY <2>1 DEF CalmAt
    <2>4. copied[r] < count[r] /\ size <= mem_size
      BY <2>1 DEF FileInv, LoadInv
    <2>5. k + 1 <= mem_size /\ k + 1 <= size
      BY <2>3, <2>4
    <2>6. Len(data) = mem_size
      BY <1>14, InCall DEF Reads!CopyOut, Calling
    <2>7. got' = [got EXCEPT ![r] = Append(got[r], data[k + 1])]
      BY <1>14, <2>5 DEF Reads!CopyOut, Reads!S
    <2>8. /\ f_pos'[r] + copied'[r] = k + 1 /\ rpc'[r] \in {"idle", "copyOut"}
          /\ rpc'[r] = "copyOut" => f_pos'[r] = f_pos[r] /\ count'[r] = count[r]
      <3>1. CASE copied[r] + 1 = count[r]
        BY <1>14, <3>1 DEF Reads!CopyOut
      <3>2. CASE copied[r] + 1 # count[r]
        BY <1>14, <3>2 DEF Reads!CopyOut
      <3> QED BY <3>1, <3>2
    <2> HIDE DEF k
    <2>9. /\ Len(got'[r]) = k + 1 /\ got'[r][k + 1] = data[k + 1]
          /\ \A i \in 1..k : got'[r][i] = got[r][i]
      <3>1. k + 1 \in 1..Len(data)
        BY <2>3, <2>5, <2>6
      <3>2. data[k + 1] \in 0..MaxVersion
        BY <3>1, ElementOfSeq DEF BytesOK
      <3>3. got'[r] = Append(got[r], data[k + 1]) /\ got[r] \in Seq(0..MaxVersion)
        BY <2>7 DEF BytesOK
      <3> QED BY <2>3, <3>2, <3>3, AppendProperties
    <2>10. \A i \in 1..k + 1 : got'[r][i] = data[i]
      BY <2>3, <2>9
    <2> QED BY <2>3, <2>5, <2>8, <2>9, <2>10
  <1>15. ASSUME NEW r \in Users, NEW c \in Counts, Reads!TestSpace(r, c) PROVE CalmInv'
    <2>1. \A q \in Users : ~calm'[q]
      BY <1>15 DEF Reads!TestSpace
    <2> QED BY <2>1 DEF CalmAt
  <1>16. ASSUME NEW r \in Users, Reads!CopyIn(r) PROVE CalmInv'
    <2>1. /\ Writer(r) /\ UNCHANGED <<load, calm, filp>>
      BY <1>16 DEF Reads!CopyIn, Reads!Usable, Reads!S, Reads!deviceVars, Reads!historyVars, Writer
    <2>2. Reads!Ready
      BY <1>16, InCall DEF Reads!CopyIn, Calling
    <2>3. \A q \in Users : ~(calm[q] /\ filp[q] = Reads!Dev)
      BY <2>1, <2>2 DEF CalmAt
    <2> QED BY <2>1, <2>3 DEF CalmAt
  <1>17. ASSUME NEW r \in Users, Reads!SetSize(r) PROVE CalmInv'
    <2>1. /\ Writer(r) /\ UNCHANGED <<load, calm, filp>>
      BY <1>17 DEF Reads!SetSize, Reads!Step, Reads!deviceVars, Writer
    <2>2. Reads!Ready
      BY <1>17, <2>1, InCall DEF Reads!SetSize, Calling, Writer
    <2>3. \A q \in Users : ~(calm[q] /\ filp[q] = Reads!Dev)
      BY <2>1, <2>2 DEF CalmAt
    <2> QED BY <2>1, <2>3 DEF CalmAt
  <1>18. CASE UNCHANGED Reads!vars
    BY <1>18 DEF Reads!vars, Reads!deviceVars, Reads!bufferVars, Reads!fileVars,
       Reads!historyVars, CalmAt, Writer
  <1>19. CASE Reads!SetFields
    <2>1. /\ UNCHANGED <<size, rpc, f_pos, copied, got>> /\ size = 0
          /\ \A q \in Users : /\ rpc[q] \notin Calling /\ f_pos[q] = 0 /\ copied[q] = 0
                              /\ got[q] = <<>>
      BY <1>19 DEF Reads!SetFields, Reads!Stage, Reads!SizeStays, Reads!fileVars, LoadInv, Loading
    <2> QED BY <1>0, <2>1 DEF Calling, CalmAt, Writer
  <1>20. CASE Reads!ClearSize
    <2>1. /\ UNCHANGED <<data, calm, rpc, filp, f_pos, count, copied, got>>
          /\ Reads!Ready /\ ~zeroed /\ size' = 0 /\ zeroed' = (size > 0)
      BY <1>20 DEF Reads!ClearSize, Reads!Stage, Reads!Shrunk, Reads!fileVars, LoadInv
    <2>2. ~zeroed' => size' = size
      <3>1. ~zeroed' => ~(size > 0)
        BY <2>1, Zenon
      <3> QED BY <2>1, <3>1
    <2> SUFFICES ASSUME NEW q \in Users, Reads!Ready', calm[q], filp[q] = Reads!Dev
                 PROVE  CalmAt(q)'
      BY <2>1 DEF CalmAt
    <2>3. \A w \in Users : ~Writer(w)'
      BY <2>1 DEF CalmAt, Writer
    <2> QED BY <2>1, <2>2, <2>3 DEF CalmAt
  <1> QED
    BY <1>1, <1>2, <1>3, <1>4, <1>5, <1>6, <1>7, <1>8, <1>9,
       <1>10, <1>11, <1>12, <1>13, <1>14, <1>15, <1>16, <1>17, <1>18, <1>19, <1>20
    DEF Reads!Next, Reads!Module, Reads!Process, Reads!qread_read, Reads!qread_write

\* Whoever does not write disturbs none of this.
LEMMA AloneSame ==
    ASSUME AloneInv, NEW r \in Users,
           UNCHANGED <<load, alone, version, writing, data, size>>,
           rpc[r] # "copyIn", rpc'[r] # "copyIn",
           \A q \in Users \ {r} : rpc'[q] = rpc[q] /\ copied'[q] = copied[q]
    PROVE  AloneInv'
  <1> SUFFICES ASSUME Reads!Ready, alone, version > 0 PROVE AloneInv'
    BY DEF AloneInv, Reads!Ready
  <1>1. \A w \in Users : Writer(w)' <=> Writer(w)
    BY DEF Writer
  <1>2. \A w \in Users : Writer(w) => copied'[w] = copied[w]
    BY DEF Writer
  <1>3. /\ \A w \in Users : Writer(w)' =>
             /\ writing'[w] = version'
             /\ \A i \in 1..copied'[w] : data'[i] = version'
        /\ \A v, w \in Users : Writer(v)' /\ Writer(w)' => v = w
    BY <1>1, <1>2 DEF AloneInv
  <1>4. (\A w \in Users : ~Writer(w)') => \A i \in 1..size' : data'[i] = version'
    BY <1>1 DEF AloneInv
  <1> QED
    BY <1>3, <1>4 DEF AloneInv

LEMMA AloneStep ==
    ASSUME NumbersOK, NamesOK, HistoryOK, BytesOK, LoadInv, FileInv, WriteInv, AloneInv,
        [Reads!Next]_Reads!vars
    PROVE  AloneInv'
  <1> USE DEF NumbersOK, NamesOK, Reads!Dev, Reads!Ready, Reads!Cleared
  <1>0. NumbersOK' /\ MaxVersion \in Nat
    BY NumbersStep, ReadsAssumption
  <1>1. CASE Reads!Register
    <2>1. ~Reads!Ready'
      BY <1>1 DEF Reads!Register, Reads!Stage, Reads!SizeStays, Reads!fileVars
    <2> QED BY <2>1 DEF AloneInv
  <1>2. CASE Reads!Validate
    <2>1. ~Reads!Ready'
      BY <1>2 DEF Reads!Validate, Reads!Stage, Reads!SizeStays, Reads!fileVars
    <2> QED BY <2>1 DEF AloneInv
  <1>3. CASE Reads!Kmalloc
    <2>1. ~Reads!Ready'
      BY <1>3 DEF Reads!Kmalloc, Reads!Stage, Reads!SizeStays, Reads!fileVars
    <2> QED BY <2>1 DEF AloneInv
  <1>4. CASE Reads!Memset
    <2>1. ~Reads!Ready'
      BY <1>4 DEF Reads!Memset, Reads!Stage, Reads!SizeStays, Reads!fileVars
    <2> QED BY <2>1 DEF AloneInv
  <1>5. CASE Reads!Buffer
    <2>1. ~Reads!Ready'
      BY <1>5 DEF Reads!Buffer, Reads!Stage
    <2> QED BY <2>1 DEF AloneInv
  <1>6. CASE Reads!Rmmod
    <2>1. ~Reads!Ready'
      BY <1>6 DEF Reads!Rmmod, Reads!Stage, Reads!SizeStays, Reads!fileVars
    <2> QED BY <2>1 DEF AloneInv
  <1>7. CASE Reads!Unregister
    <2>1. ~Reads!Ready'
      BY <1>7 DEF Reads!Unregister, Reads!Stage, Reads!SizeStays, Reads!fileVars
    <2> QED BY <2>1 DEF AloneInv
  <1>8. ASSUME NEW r \in Users, Reads!Crash(r) PROVE AloneInv'
    <2>1. CASE Reads!Ready
      <3>1. /\ UNCHANGED <<load, alone, version, writing, data, size>>
            /\ rpc[r] # "copyIn" /\ rpc'[r] # "copyIn"
            /\ \A q \in Users \ {r} : rpc'[q] = rpc[q] /\ copied'[q] = copied[q]
        BY <1>8, <2>1 DEF Reads!Crash, Reads!Usable, Reads!deviceVars, Reads!bufferVars,
           Reads!historyVars, Reads!fileVars, FileInv, Calling
      <3> QED BY <3>1, AloneSame
    <2>2. CASE ~Reads!Ready
      BY <1>8, <2>2 DEF Reads!Crash, Reads!Usable, Reads!deviceVars, Reads!bufferVars,
         Reads!historyVars, AloneInv
    <2> QED BY <2>1, <2>2
  <1>9. ASSUME NEW r \in Users, Reads!qread_open(r) PROVE AloneInv'
    <2>1. /\ UNCHANGED <<load, alone, version, writing, data, size>>
          /\ rpc[r] # "copyIn" /\ rpc'[r] # "copyIn"
          /\ \A q \in Users \ {r} : rpc'[q] = rpc[q] /\ copied'[q] = copied[q]
      BY <1>9 DEF Reads!qread_open, Reads!deviceVars, Reads!bufferVars, Reads!Dev, Reads!Null
    <2> QED BY <2>1, AloneSame
  <1>10. ASSUME NEW r \in Users, Reads!qread_release(r) PROVE AloneInv'
    <2>1. /\ UNCHANGED <<load, alone, version, writing, data, size>>
          /\ rpc[r] # "copyIn" /\ rpc'[r] # "copyIn"
          /\ \A q \in Users \ {r} : rpc'[q] = rpc[q] /\ copied'[q] = copied[q]
      BY <1>10 DEF Reads!qread_release, Reads!Forget, Reads!deviceVars, Reads!bufferVars
    <2> QED BY <2>1, AloneSame
  <1>11. ASSUME NEW r \in Users, NEW c \in Counts, Reads!TestPos(r, c) PROVE AloneInv'
    <2>1. /\ UNCHANGED <<load, alone, version, writing, data, size>>
          /\ rpc[r] # "copyIn" /\ rpc'[r] # "copyIn"
          /\ \A q \in Users \ {r} : rpc'[q] = rpc[q] /\ copied'[q] = copied[q]
      BY <1>11 DEF Reads!TestPos, Reads!Usable, Reads!Step, Reads!deviceVars, Reads!bufferVars
    <2> QED BY <2>1, AloneSame
  <1>12. ASSUME NEW r \in Users, Reads!TestLeft(r) PROVE AloneInv'
    <2>1. /\ UNCHANGED <<load, alone, version, writing, data, size>>
          /\ rpc[r] # "copyIn" /\ rpc'[r] # "copyIn"
          /\ \A q \in Users \ {r} : rpc'[q] = rpc[q] /\ copied'[q] = copied[q]
      BY <1>12 DEF Reads!TestLeft, Reads!Usable, Reads!Step, Reads!ToCopy, Reads!AsSize,
         Reads!Huge, Reads!S, Reads!Q, Reads!Local, Reads!deviceVars, Reads!bufferVars,
         Reads!historyVars
    <2> QED BY <2>1, AloneSame
  <1>13. ASSUME NEW r \in Users, Reads!LowerToLeft(r) PROVE AloneInv'
    <2>1. /\ UNCHANGED <<load, alone, version, writing, data, size>>
          /\ rpc[r] # "copyIn" /\ rpc'[r] # "copyIn"
          /\ \A q \in Users \ {r} : rpc'[q] = rpc[q] /\ copied'[q] = copied[q]
      BY <1>13 DEF Reads!LowerToLeft, Reads!Usable, Reads!Step, Reads!ToCopy, Reads!AsSize,
         Reads!Huge, Reads!S, Reads!Q, Reads!Local, Reads!deviceVars, Reads!bufferVars,
         Reads!historyVars
    <2> QED BY <2>1, AloneSame
  <1>14. ASSUME NEW r \in Users, Reads!CopyOut(r) PROVE AloneInv'
    <2>1. /\ UNCHANGED <<load, alone, version, writing, data, size>>
          /\ rpc[r] # "copyIn" /\ rpc'[r] # "copyIn"
          /\ \A q \in Users \ {r} : rpc'[q] = rpc[q] /\ copied'[q] = copied[q]
      BY <1>14 DEF Reads!CopyOut, Reads!Usable, Reads!S, Reads!deviceVars, Reads!bufferVars
    <2> QED BY <2>1, AloneSame
  <1>15. ASSUME NEW r \in Users, NEW c \in Counts, Reads!TestSpace(r, c) PROVE AloneInv'
    <2>1. /\ rpc' = [rpc EXCEPT ![r] = "copyIn"] /\ writing' = [writing EXCEPT ![r] = version + 1]
          /\ UNCHANGED <<load, copied>> /\ Reads!Ready /\ version' = version + 1
          /\ alone' => \A w \in Users : writing[w] = 0
      BY <1>15 DEF Reads!TestSpace, Reads!Usable, Reads!Step, Reads!S, Reads!deviceVars
    <2>2. copied[r] = 0
      BY <1>15 DEF Reads!TestSpace, Reads!Step, FileInv
    <2>3. alone' => \A w \in Users : Writer(w)' => w = r
      BY <2>1 DEF Writer, WriteInv
    <2>4. Writer(r)' /\ writing'[r] = version'
      BY <2>1 DEF Writer
    <2> QED BY <2>1, <2>2, <2>3, <2>4 DEF AloneInv
  <1>16. ASSUME NEW r \in Users, Reads!CopyIn(r) PROVE AloneInv'
    <2>1. Writer(r) /\ UNCHANGED <<load, alone, version, writing, rpc>> /\ Reads!Ready
          /\ Len(data) = mem_size
      BY <1>16, InCall DEF Reads!CopyIn, Reads!Usable, Reads!S, Reads!deviceVars,
         Reads!historyVars, Writer, Calling
    <2>2. copied[r] + 1 <= mem_size
      BY <1>16 DEF Reads!CopyIn, WriteInv
    <2>3. /\ copied' = [copied EXCEPT ![r] = copied[r] + 1]
          /\ data' = [data EXCEPT ![copied[r] + 1] = writing[r]]
      BY <1>16, <2>2 DEF Reads!CopyIn, Reads!S
    <2>4. DOMAIN data = 1..mem_size
      BY <2>1, LenProperties DEF BytesOK
    <2> SUFFICES ASSUME alone, version > 0 PROVE AloneInv'
      BY <2>1 DEF AloneInv
    <2>5. writing[r] = version /\ \A i \in 1..copied[r] : data[i] = version
      BY <2>1 DEF AloneInv
    <2>6. \A w \in Users : Writer(w)' => w = r
      BY <2>1 DEF AloneInv, Writer
    <2>7. \A i \in 1..copied[r] + 1 : data'[i] = version
      BY <2>2, <2>3, <2>4, <2>5
    <2>8. Writer(r)' /\ writing'[r] = version' /\ copied'[r] = copied[r] + 1
      BY <2>1, <2>3, <2>5 DEF Writer
    <2> QED BY <2>1, <2>6, <2>7, <2>8 DEF AloneInv
  <1>17. ASSUME NEW r \in Users, Reads!SetSize(r) PROVE AloneInv'
    <2>1. Writer(r) /\ UNCHANGED <<load, alone, version, data>>
          /\ rpc' = [rpc EXCEPT ![r] = "idle"] /\ size' = copied[r]
      BY <1>17 DEF Reads!SetSize, Reads!Step, Reads!deviceVars, Writer
    <2> SUFFICES ASSUME Reads!Ready, alone, version > 0 PROVE AloneInv'
      BY <2>1 DEF AloneInv
    <2>2. \A i \in 1..copied[r] : data[i] = version
      BY <2>1 DEF AloneInv
    <2>3. \A w \in Users : ~Writer(w)'
      BY <2>1 DEF AloneInv, Writer
    <2> QED BY <2>1, <2>2, <2>3 DEF AloneInv
  <1>18. CASE UNCHANGED Reads!vars
    BY <1>18 DEF Reads!vars, Reads!deviceVars, Reads!bufferVars, Reads!fileVars, Reads!historyVars,
                AloneInv, Writer
  <1>19. CASE Reads!SetFields
    <2>1. UNCHANGED version /\ version = 0
      BY <1>19 DEF Reads!SetFields, Reads!Stage, Reads!SizeStays, Reads!fileVars, LoadInv, Loading
    <2> QED BY <2>1 DEF AloneInv
  <1>20. CASE Reads!ClearSize
    <2>1. /\ UNCHANGED <<data, alone, version, writing, rpc, copied>>
          /\ Reads!Ready /\ size' = 0
      BY <1>20 DEF Reads!ClearSize, Reads!Stage, Reads!Shrunk, Reads!fileVars
    <2>2. \A w \in Users : Writer(w)' <=> Writer(w)
      BY <2>1 DEF Writer
    <2> QED BY <2>1, <2>2 DEF AloneInv
  <1> QED
    BY <1>1, <1>2, <1>3, <1>4, <1>5, <1>6, <1>7, <1>8, <1>9,
       <1>10, <1>11, <1>12, <1>13, <1>14, <1>15, <1>16, <1>17, <1>18, <1>19, <1>20
    DEF Reads!Next, Reads!Module, Reads!Process, Reads!qread_read, Reads!qread_write

-----------------------------------------------------------------------------
(* The theorems *)

LEMMA InvInit == Reads!Init => Inv
  <1> SUFFICES ASSUME Reads!Init PROVE Inv
    OBVIOUS
  <1> USE DEF Reads!Init
  <1>1. mem_size \in Nat /\ blk_size \in Nat
    <2>1. PICK p \in Parameters : mem_size = p[1] /\ blk_size = p[2]
      OBVIOUS
    <2> QED BY <2>1, ReadsAssumption
  <1>2. NumbersOK
    BY <1>1, ReadsAssumption DEF NumbersOK
  <1>3. NamesOK /\ HistoryOK
    BY DEF NamesOK, HistoryOK, Reads!Null, Reads!Dev
  <1>4. BytesOK
    BY EmptySeq DEF BytesOK
  <1>5. LoadInv
    BY <1>1 DEF LoadInv, Loading, Calling, Reads!Ready
  <1>6. FileInv /\ WriteInv /\ BoundInv
    BY DEF FileInv, WriteInv, BoundInv, Calling, Reads!Ready
  <1>7. CalmInv /\ AloneInv
    BY DEF CalmInv, CalmAt, AloneInv, Reads!Ready
  <1> QED BY <1>2, <1>3, <1>4, <1>5, <1>6, <1>7, TypeParts DEF Inv

LEMMA InvStep == Inv /\ [Reads!Next]_Reads!vars => Inv'
  <1> SUFFICES ASSUME Inv, [Reads!Next]_Reads!vars PROVE Inv'
    OBVIOUS
  <1>1. NumbersOK /\ NamesOK /\ HistoryOK /\ BytesOK
    BY TypeParts DEF Inv
  <1>2. LoadInv /\ FileInv /\ WriteInv /\ BoundInv /\ CalmInv /\ AloneInv
    BY DEF Inv
  <1>3. NumbersOK' /\ NamesOK' /\ HistoryOK' /\ BytesOK'
    BY <1>1, <1>2, NumbersStep, NamesStep, HistoryStep, BytesStep
  <1>4. Reads!TypeOK'
    BY <1>3 DEF Reads!TypeOK, NumbersOK, NamesOK, HistoryOK, BytesOK
  <1>5. LoadInv' /\ FileInv' /\ WriteInv'
    BY <1>1, <1>2, LoadStep, FileStep, WriteStep
  <1>6. BoundInv' /\ CalmInv' /\ AloneInv'
    BY <1>1, <1>2, BoundStep, CalmStep, AloneStep
  <1> QED BY <1>4, <1>5, <1>6 DEF Inv

\* A kernel that has another driver loaded leaves the variables of this one alone.
LEMMA ReadsAlone == DriversSpec => []Inv
  <1>1. DriversInit => Reads!Init
    BY DEF DriversInit
  <1>2. [DriversNext]_driversVars => [Reads!Next]_Reads!vars
    BY DEF DriversNext, driversVars, readsVars, Reads!vars, Reads!deviceVars, Reads!bufferVars,
           Reads!fileVars, Reads!historyVars
  <1> QED BY <1>1, <1>2, InvInit, InvStep, PTL DEF DriversSpec

LEMMA PrefixIsSubSeq ==
    ASSUME NEW s \in Seq(0..MaxVersion), NEW t \in Seq(0..MaxVersion),
           Len(s) <= Len(t), \A i \in 1..Len(s) : s[i] = t[i]
    PROVE  s = SubSeq(t, 1, Len(s))
<1> DEFINE u == SubSeq(t, 1, Len(s))
<1>1. Len(s) \in Nat /\ Len(t) \in Nat /\ \A i \in 1..Len(s) : t[i] \in 0..MaxVersion
    BY LenProperties, ElementOfSeq
<1>2. u \in Seq(0..MaxVersion) /\ Len(u) = Len(s) /\ \A i \in 1..Len(u) : u[i] = t[i]
    BY <1>1, SubSeqProperties
<1> HIDE DEF u
<1> QED
    BY <1>2, SeqEqual

\* No call copies past the end of the buffer, whatever the sizes the module was loaded
\* with, unless the size is lowered between the looks of a read, by a write or by insmod
\* (qread.c:115, 166-178, 220).
THEOREM StraysByRace == DriversSpec => []StrayOnlyByRace
  <1>1. Inv => StrayOnlyByRace
    <2> SUFFICES ASSUME Inv, NEW r \in Users
                 PROVE  /\ rpc[r] = "copyOut" /\ f_pos[r] + count[r] > mem_size => shrunk[r]
                        /\ rpc[r] = "copyIn" => count[r] <= mem_size
      BY DEF StrayOnlyByRace, Reads!StrayOnlyByRace, Reads!S
    <2> QED BY TypeParts DEF Inv, NumbersOK, WriteInv, BoundInv
  <1> QED BY <1>1, ReadsAlone, PTL

\* Who opens the device and reads it while nobody writes gets the bytes in order, none
\* twice and none left out; and if the last write had no other beside it they are that
\* write's alone (qread.c:172-187, 218-220), unless insmod takes the size of a write back
\* that got between its stores (114-115).
THEOREM ReadsAreWrites == DriversSpec => []ReadsLastWrite
  <1>1. Inv => ReadsLastWrite
    <2> SUFFICES ASSUME Inv, NEW r \in Users, calm[r], filp[r] = Reads!Dev, rpc[r] = "idle",
                        Reads!Ready, ~zeroed
                 PROVE  /\ f_pos[r] <= size /\ got[r] = SubSeq(data, 1, f_pos[r])
                        /\ alone /\ version > 0 => \A i \in 1..size : data[i] = version
      BY DEF ReadsLastWrite, Reads!ReadsLastWrite
    <2>1. NumbersOK /\ NamesOK /\ BytesOK
      BY TypeParts DEF Inv
    <2>2. /\ Len(got[r]) = f_pos[r] /\ f_pos[r] <= size
          /\ \A i \in 1..f_pos[r] : got[r][i] = data[i]
          /\ \A w \in Users : ~Writer(w)
      <3>1. copied[r] = 0
        BY DEF Inv, FileInv
      <3>2. CalmAt(r) /\ f_pos[r] + copied[r] = f_pos[r]
        BY <2>1, <3>1 DEF Inv, CalmInv, NumbersOK
      <3> QED BY <3>2 DEF CalmAt
    <2>3. size <= mem_size /\ Len(data) = mem_size
      BY DEF Inv, LoadInv
    <2>4. got[r] \in Seq(0..MaxVersion) /\ data \in Seq(0..MaxVersion)
      BY <2>1 DEF BytesOK
    <2>5. Len(got[r]) <= Len(data)
      BY <2>1, <2>2, <2>3 DEF NumbersOK
    <2>6. got[r] = SubSeq(data, 1, f_pos[r])
      BY <2>2, <2>4, <2>5, PrefixIsSubSeq
    <2>7. alone /\ version > 0 => \A i \in 1..size : data[i] = version
      BY <2>2 DEF Inv, AloneInv
    <2> QED BY <2>2, <2>6, <2>7
  <1> QED BY <1>1, ReadsAlone, PTL

-----------------------------------------------------------------------------
(* LedTimer *)

\* A behaviour of the drivers is one of LedTimer, which stays as it starts when another
\* driver is loaded.
LEMMA LedTimerOfDrivers == DriversSpec => Init /\ [][Next]_vars
  <1>1. DriversInit => Init
    BY DEF DriversInit
  <1>2. [DriversNext]_driversVars => [Next]_vars
    BY DEF DriversNext, driversVars
  <1> QED BY <1>1, <1>2, PTL DEF DriversSpec

-----------------------------------------------------------------------------
(* Types *)

\* TypeOK in two parts, since no prover is good at both.
FlagsOK ==
    /\ LEDon \in BOOLEAN /\ SWITCHon \in BOOLEAN /\ active \in BOOLEAN /\ pin \in BOOLEAN
    /\ switch \in BOOLEAN /\ ran \in BOOLEAN /\ stray \in BOOLEAN

RangesOK ==
    /\ driver \in {"ledb", "rpiledb"}
    /\ module \in {"register", "setup", "start", "loaded", "delTimer", "free", "unregister", "gone"}
    /\ timer \in Delays \cup {Idle}
    /\ cb \in {"idle", "read", "toggle", "testSwitch", "testActive", "arm500", "arm2000", "lightUp"}
    /\ user \in [Users -> {"idle", "store", "arm"}] /\ byte \in [Users -> 0..3] /\ writes \in Nat

LEMMA LedTypeParts == TypeOK <=> FlagsOK /\ RangesOK
  BY Zenon DEF TypeOK, FlagsOK, RangesOK

LEMMA LedTypeInit == Init => TypeOK
  <1> SUFFICES ASSUME Init PROVE FlagsOK /\ RangesOK
    BY LedTypeParts
  <1>1. active \in BOOLEAN
    <2>1. (driver = "rpiledb") \in BOOLEAN
      BY Zenon
    <2> QED BY <2>1, Zenon DEF Init
  <1>2. switch \in BOOLEAN
    <2>1. CASE driver = "rpiledb"
      BY <2>1, Zenon DEF Init
    <2>2. CASE driver # "rpiledb"
      BY <2>2, Zenon DEF Init
    <2> QED BY <2>1, <2>2
  <1>3. RangesOK
    BY DEF Init, RangesOK, Delays, Idle
  <1> QED BY <1>1, <1>2, <1>3 DEF Init, FlagsOK

LEMMA FlagsStep == FlagsOK /\ [Next]_vars => FlagsOK'
  <1> SUFFICES ASSUME FlagsOK, [Next]_vars PROVE FlagsOK'
    OBVIOUS
  <1> USE DEF FlagsOK, flags, light, users
  <1>1. CASE Module
    BY <1>1, Zenon DEF Module, Register, Setup, Start, Rmmod, DelTimer, Free, Unregister, Stage
  <1>2. CASE Timer
    <2>1. CASE Expire
      BY <2>1, Zenon DEF Expire, Callback
    <2>2. CASE ReadSwitch
      BY <2>2, Zenon DEF ReadSwitch, Callback
    <2>3. CASE Toggle
      <3>1. (~LEDon) \in BOOLEAN
        BY Zenon
      <3>2. pin' \in BOOLEAN
        <4>1. CASE driver = "rpiledb"
          BY <2>3, <3>1, <4>1, Zenon DEF Toggle
        <4>2. CASE driver # "rpiledb"
          BY <2>3, <4>2, Zenon DEF Toggle
        <4> QED BY <4>1, <4>2
      <3> QED BY <2>3, <3>1, <3>2, Zenon DEF Toggle, Callback
    <2>4. CASE TestSwitch
      BY <2>4, Zenon DEF TestSwitch, Callback
    <2>5. CASE TestActive
      BY <2>5, Zenon DEF TestActive, Callback
    <2>6. CASE Rearm
      <3>1. UNCHANGED <<light, flags, switch, ran, stray>>
        BY <2>6, SMT DEF Rearm, Callback
      <3> QED BY <3>1, Zenon
    <2>7. CASE LightUp
      BY <2>7, Zenon DEF LightUp, Callback
    <2> QED BY <1>2, <2>1, <2>2, <2>3, <2>4, <2>5, <2>6, <2>7, Zenon DEF Timer
  <1>3. CASE Flip
    BY <1>3, Zenon DEF Flip
  <1>4. ASSUME NEW u \in Users, User(u) PROVE FlagsOK'
    BY <1>4, Zenon DEF User, Write, Store, Arm
  <1>5. CASE UNCHANGED vars
    BY <1>5, Zenon DEF vars
  <1> QED BY <1>1, <1>2, <1>3, <1>4, <1>5, Zenon DEF Next

LEMMA RangesStep == RangesOK /\ [Next]_vars => RangesOK'
  <1> SUFFICES ASSUME RangesOK, [Next]_vars PROVE RangesOK'
    OBVIOUS
  <1> USE DEF RangesOK, Delays, Idle, flags, light, users
  <1>1. CASE Module
    BY <1>1 DEF Module, Register, Setup, Start, Rmmod, DelTimer, Free, Unregister, Stage
  <1>2. CASE Timer
    BY <1>2 DEF Timer, Expire, ReadSwitch, Toggle, TestSwitch, TestActive, Rearm, LightUp, Callback
  <1>3. CASE Flip
    BY <1>3 DEF Flip
  <1>4. ASSUME NEW u \in Users, Write(u) PROVE RangesOK'
    <2>1. PICK v \in 0..3 : byte' = [byte EXCEPT ![u] = v]
      BY <1>4 DEF Write
    <2> QED BY <1>4, <2>1 DEF Write
  <1>5. ASSUME NEW u \in Users, Store(u) PROVE RangesOK'
    BY <1>5 DEF Store
  <1>6. ASSUME NEW u \in Users, Arm(u) PROVE RangesOK'
    BY <1>6 DEF Arm
  <1>7. CASE UNCHANGED vars
    BY <1>7 DEF vars
  <1> QED BY <1>1, <1>2, <1>3, <1>4, <1>5, <1>6, <1>7 DEF Next, User

LEMMA LedTypeStep == TypeOK /\ [Next]_vars => TypeOK'
  <1>1. TypeOK' <=> FlagsOK' /\ RangesOK'
    BY Zenon DEF TypeOK, FlagsOK, RangesOK
  <1> QED BY <1>1, LedTypeParts, FlagsStep, RangesStep

\* Every variable of the three drivers keeps its range (ledb.c, rpiledb.c, qread.c, sc1.c:
\* the globals and the structures of the devices).
THEOREM TypesAreCorrect == DriversSpec => []TypesOK
  <1>1. DriversSpec => []TypeOK
    BY LedTimerOfDrivers, LedTypeInit, LedTypeStep, PTL
  <1>2. DriversSpec => []Reads!TypeOK
    <2>1. Inv => Reads!TypeOK
      BY DEF Inv
    <2> QED BY <2>1, ReadsAlone, PTL
  <1>3. DriversSpec => []Quanta!TypeOK
    BY QuantaAlways, QuantaTypes, PTL
  <1>4. TypeOK /\ Reads!TypeOK /\ Quanta!TypeOK => TypesOK
    BY DEF TypesOK
  <1> QED BY <1>1, <1>2, <1>3, <1>4, PTL

-----------------------------------------------------------------------------
(* The removal *)

LEMMA GoneStep == TimerGoneWithModule /\ [Next]_vars => TimerGoneWithModule'
  <1> SUFFICES ASSUME TimerGoneWithModule, [Next]_vars PROVE TimerGoneWithModule'
    OBVIOUS
  <1> USE DEF TimerGoneWithModule, Idle, flags, light, users
  <1>1. CASE Module
    BY <1>1 DEF Module, Register, Setup, Start, Rmmod, DelTimer, Free, Unregister, Stage
  <1>2. CASE Timer
    BY <1>2 DEF Timer, Expire, ReadSwitch, Toggle, TestSwitch, TestActive, Rearm, LightUp, Callback
  <1>3. CASE Flip
    BY <1>3 DEF Flip
  <1>4. ASSUME NEW u \in Users, Write(u) PROVE TimerGoneWithModule'
    BY <1>4 DEF Write
  <1>5. ASSUME NEW u \in Users, Store(u) PROVE TimerGoneWithModule'
    BY <1>5 DEF Store
  <1>6. ASSUME NEW u \in Users, Arm(u) PROVE TimerGoneWithModule'
    BY <1>6 DEF Arm
  <1>7. CASE UNCHANGED vars
    BY <1>7 DEF vars
  <1> QED BY <1>1, <1>2, <1>3, <1>4, <1>5, <1>6, <1>7 DEF Next, User

\* After del_timer_sync nothing is pending and no callback runs, unless a write
\* came between the deletion and the end of rmmod (ledb.c:140-148).
THEOREM TimerGone == DriversSpec => []TimerGoneWithModule
  <1>1. Init => TimerGoneWithModule
    BY DEF Init, TimerGoneWithModule
  <1> QED BY <1>1, LedTimerOfDrivers, GoneStep, PTL

-----------------------------------------------------------------------------
(* The LED at rest *)

\* A callback is still to come: the timer is armed, or a write is about to arm it.
Pending == timer # Idle \/ \E u \in Users : user[u] = "arm"

\* Nothing happens before the timer has been set up.
StartInv ==
    /\ module \in {"register", "setup"} => ~ran /\ cb = "idle" /\ timer = Idle
    /\ module = "register" => \A u \in Users : user[u] = "idle"

\* What the callback has tested is still so, or another callback is to come: a write
\* that changes a flag behind its back arms the timer after.
TestInv ==
    module = "loaded" =>
        /\ cb = "testActive" /\ SWITCHon => Pending
        /\ cb = "lightUp" /\ (SWITCHon \/ active) => Pending
        /\ cb = "idle" /\ ran => Pending \/ (Lit /\ ~SWITCHon /\ ~active)

RestInv == TypeOK /\ StartInv /\ TestInv

LEMMA RestInit == Init => RestInv
  BY LedTypeInit DEF Init, RestInv, StartInv, TestInv

LEMMA StartStep == TypeOK /\ StartInv /\ [Next]_vars => StartInv'
  <1> SUFFICES ASSUME TypeOK, StartInv, [Next]_vars PROVE StartInv'
    OBVIOUS
  <1> USE DEF StartInv, Idle, flags, light, users
  <1>1. CASE Module
    BY <1>1 DEF Module, Register, Setup, Start, Rmmod, DelTimer, Free, Unregister, Stage
  <1>2. CASE Timer
    BY <1>2 DEF Timer, Expire, ReadSwitch, Toggle, TestSwitch, TestActive, Rearm, LightUp, Callback
  <1>3. CASE Flip
    BY <1>3 DEF Flip
  <1>4. ASSUME NEW u \in Users, Write(u) PROVE StartInv'
    BY <1>4 DEF Write
  <1>5. ASSUME NEW u \in Users, Store(u) PROVE StartInv'
    BY <1>5 DEF Store
  <1>6. ASSUME NEW u \in Users, Arm(u) PROVE StartInv'
    BY <1>6 DEF Arm
  <1>7. CASE UNCHANGED vars
    BY <1>7 DEF vars
  <1> QED BY <1>1, <1>2, <1>3, <1>4, <1>5, <1>6, <1>7 DEF Next, User

LEMMA TestStep == RestInv /\ [Next]_vars => TestInv'
  <1> SUFFICES ASSUME RestInv, [Next]_vars, module' = "loaded" PROVE TestInv'
    BY DEF TestInv
  <1> USE DEF RestInv, StartInv, TestInv, Pending, Lit, Idle, flags, light, users
  <1>1. CASE Module
    <2>1. CASE Setup
      BY <2>1 DEF Setup, Stage
    <2>2. CASE Start
      BY <2>2 DEF Start, Stage
    <2> QED BY <1>1, <2>1, <2>2 DEF Module, Register, Rmmod, DelTimer, Free, Unregister, Stage
  <1>2. CASE Timer
    <2>1. CASE Expire
      BY <2>1 DEF Expire, Callback
    <2>2. CASE ReadSwitch \/ Toggle
      BY <2>2 DEF ReadSwitch, Toggle, Callback
    <2>3. CASE TestSwitch \/ TestActive
      BY <2>3 DEF TestSwitch, TestActive, Callback
    <2>4. CASE Rearm
      BY <2>4 DEF Rearm, Callback
    <2>5. CASE LightUp
      BY <2>5 DEF LightUp, Callback, TypeOK
    <2> QED BY <1>2, <2>1, <2>2, <2>3, <2>4, <2>5 DEF Timer
  <1>3. CASE Flip
    BY <1>3 DEF Flip
  <1>4. ASSUME NEW u \in Users, Write(u) PROVE TestInv'
    BY <1>4 DEF Write, TypeOK
  <1>5. ASSUME NEW u \in Users, Store(u) PROVE TestInv'
    <2>1. CASE byte[u] \in {1, 3}
      BY <1>5, <2>1 DEF Store, TypeOK
    <2>2. CASE byte[u] \in {0, 2}
      BY <1>5, <2>2 DEF Store, TypeOK
    <2> QED BY <2>1, <2>2 DEF TypeOK
  <1>6. ASSUME NEW u \in Users, Arm(u) PROVE TestInv'
    BY <1>6 DEF Arm
  <1>7. CASE UNCHANGED vars
    BY <1>7 DEF vars
  <1> QED BY <1>1, <1>2, <1>3, <1>4, <1>5, <1>6, <1>7 DEF Next, User

LEMMA RestStep == RestInv /\ [Next]_vars => RestInv'
  BY LedTypeStep, StartStep, TestStep DEF RestInv

\* A timer that has run out, with no write about to arm it, leaves the LED on and
\* nothing that asks for it to blink (ledb.c:84-92 against 195-208).
THEOREM RestLit == DriversSpec => []RestIsLit
  <1>1. RestInv => RestIsLit
    BY DEF RestInv, TestInv, RestIsLit, Pending
  <1> QED BY <1>1, LedTimerOfDrivers, RestInit, RestStep, PTL
=============================================================================
