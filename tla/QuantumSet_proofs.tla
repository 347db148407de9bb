-------------------------- MODULE QuantumSet_proofs --------------------------
(***************************************************************************)
(* Proofs about QuantumSet in Drivers (src/src/concepts/module/sc1.c).     *)
(* QuantaInv is the inductive invariant.  What it says of a device that is *)
(* not misused (Core) is: one process writes at a time; nobody has opened  *)
(* it too early; each step finds the device as it needs it; no two slots   *)
(* of the array hold one block, and no block is lost; the array holds the  *)
(* bytes that were reported as written; a read has the quantum it copies   *)
(* from, and its count.  From it follow that the device is a file and      *)
(* that no block is lost.                                                  *)
(***************************************************************************)
EXTENDS Drivers, WellFoundedInduction, SequenceTheorems, TLAPS

-----------------------------------------------------------------------------
(* Where a byte is *)

\* The quantum of byte i and the place in it, with quanta of q bytes; the bytes of a
\* device of s quanta.
Row(q, i) == i \div q
Col(q, i) == i % q
Room(q, s) == q * s

\* Quotient and remainder.
LEMMA PlaceOf ==
    ASSUME NEW q \in Nat \ {0}, NEW i \in Nat
    PROVE  Row(q, i) \in Nat /\ Col(q, i) \in 0..q-1 /\ i = q * Row(q, i) + Col(q, i)
  BY DEF Row, Col

\* A byte is in the device when its quantum is, and so is the rest of that quantum.
LEMMA RowInside ==
    ASSUME NEW q \in Nat \ {0}, NEW s \in Nat \ {0}, NEW i \in Nat
    PROVE  /\ i < Room(q, s) <=> Row(q, i) < s
           /\ i < Room(q, s) => i + (q - Col(q, i)) <= Room(q, s)
           /\ Room(q, s) \in Nat
  <1>1. Row(q, i) \in Nat /\ Col(q, i) \in 0..q-1 /\ i = q * Row(q, i) + Col(q, i)
    BY PlaceOf
  <1>2. Room(q, s) \in Nat
    BY DEF Room
  <1>3. ASSUME Row(q, i) < s PROVE q * Row(q, i) + q <= q * s
    BY <1>1, <1>3
  <1>4. ASSUME ~(Row(q, i) < s) PROVE q * s <= q * Row(q, i)
    BY <1>1, <1>4
  <1>5. q * s \in Nat /\ q * Row(q, i) \in Nat
    BY <1>1
  <1> QED BY <1>1, <1>2, <1>3, <1>4, <1>5 DEF Room

\* Bytes that follow in a quantum.
LEMMA RowAlong ==
    ASSUME NEW q \in Nat \ {0}, NEW i \in Nat, NEW j \in Nat, Col(q, i) + j < q
    PROVE  Row(q, i + j) = Row(q, i) /\ Col(q, i + j) = Col(q, i) + j
  <1>1. Row(q, i) \in Nat /\ Col(q, i) \in 0..q-1 /\ i = q * Row(q, i) + Col(q, i)
    BY PlaceOf
  <1>2. i + j \in Nat
    OBVIOUS
  <1>3. /\ Row(q, i + j) \in Nat /\ Col(q, i + j) \in 0..q-1
        /\ i + j = q * Row(q, i + j) + Col(q, i + j)
    BY <1>2, PlaceOf
  <1>4. \A x, y \in Nat, r, t \in 0..q-1 : q * x + r = q * y + t => x = y /\ r = t
    OBVIOUS
  <1>5. q * Row(q, i) \in Nat
    BY <1>1
  <1>6. /\ Col(q, i) + j \in 0..q-1
        /\ q * Row(q, i) + (Col(q, i) + j) = q * Row(q, i + j) + Col(q, i + j)
    BY <1>1, <1>3, <1>5
  <1> QED BY <1>1, <1>3, <1>4, <1>6

\* Two bytes of one quantum are as far apart in it as in the device.
LEMMA SameRow ==
    ASSUME NEW q \in Nat \ {0}, NEW i \in Nat, NEW j \in Nat, Row(q, i) = Row(q, j)
    PROVE  j - i = Col(q, j) - Col(q, i)
  BY PlaceOf

\* Min and Max of a few numbers.
LEMMA LeastOf3 ==
    ASSUME NEW a \in Int, NEW b \in Int, NEW c \in Int
    PROVE  /\ Quanta!Min({a, b, c}) \in {a, b, c}
           /\ Quanta!Min({a, b, c}) <= a /\ Quanta!Min({a, b, c}) <= b
           /\ Quanta!Min({a, b, c}) <= c
  <1> DEFINE T == {a, b, c}
  <1>1. \E p \in T : \A r \in T : p <= r
    OBVIOUS
  <1>2. Quanta!Min(T) \in T /\ \A r \in T : Quanta!Min(T) <= r
    BY <1>1 DEF Quanta!Min
  <1> QED BY <1>2

LEMMA LeastOf2 ==
    ASSUME NEW a \in Int, NEW b \in Int
    PROVE  Quanta!Min({a, b}) = IF a <= b THEN a ELSE b
  <1> DEFINE T == {a, b}
  <1>1. \E p \in T : \A r \in T : p <= r
    OBVIOUS
  <1>2. Quanta!Min(T) \in T /\ \A r \in T : Quanta!Min(T) <= r
    BY <1>1 DEF Quanta!Min
  <1> QED BY <1>2

LEMMA MostOf2 ==
    ASSUME NEW a \in Int, NEW b \in Int
    PROVE  Quanta!Max({a, b}) = IF a <= b THEN b ELSE a
  <1> DEFINE T == {a, b}
  <1>1. \E p \in T : \A r \in T : p >= r
    OBVIOUS
  <1>2. Quanta!Max(T) \in T /\ \A r \in T : Quanta!Max(T) >= r
    BY <1>1 DEF Quanta!Max
  <1> QED BY <1>2

\* A set of blocks that has a member has a first.
LEMMA FirstBlock ==
    ASSUME NEW T \in SUBSET Blocks, T # {}
    PROVE  Quanta!Min(T) \in T
  <1>1. T \subseteq Nat
    BY QuantaAssumption
  <1>2. PICK a \in T : \A b \in T : <<b, a>> \notin OpToRel(<, Nat)
    BY <1>1, WFMin, NatLessThanWellFounded
  <1>3. a \in T /\ a \in Nat
    BY <1>1
  <1>4. \A b \in T : b < a => <<b, a>> \in OpToRel(<, Nat)
    BY <1>1, <1>3, Zenon DEF OpToRel
  <1>5. \A b \in T : ~(b < a)
    BY <1>2, <1>4, Zenon
  <1>6. \A b \in T : a <= b
    BY <1>1, <1>3, <1>5
  <1> QED BY <1>3, <1>6, Zenon DEF Quanta!Min

\* kmalloc gives a free block, or NULL.
LEMMA KmallocGives ==
    \/ Quanta!Kmalloc = 0
    \/ Quanta!Kmalloc \in Blocks /\ block[Quanta!Kmalloc] = Quanta!Free
  <1> DEFINE T == {b \in Blocks : block[b] = Quanta!Free}
  <1>1. T \in SUBSET Blocks
    OBVIOUS
  <1>2. Quanta!Kmalloc = IF T = {} THEN 0 ELSE Quanta!Min(T)
    BY DEF Quanta!Kmalloc, Quanta!NULL
  <1> HIDE DEF T
  <1>3. T # {} => Quanta!Min(T) \in T
    BY <1>1, FirstBlock
  <1> QED BY <1>2, <1>3 DEF T

\* Arrays, bytes of a quantum, and contents of a block.
Slots(s) == [0..s-1 -> Blocks \cup {0}]
Bytes(q) == [0..q-1 -> 0..MaxStamp]
BlockVals(q, s) ==
    {Quanta!Free, Quanta!Junk} \cup {Quanta!SetOf(f) : f \in Slots(s)}
        \cup {Quanta!QuantumOf(f) : f \in Bytes(q)}

\* The kinds of blocks.
LEMMA KindsOf ==
    /\ Quanta!Free.kind = "free" /\ Quanta!Junk.kind = "junk"
    /\ \A f : Quanta!SetOf(f).kind = "set" /\ Quanta!SetOf(f).slot = f
    /\ \A f : Quanta!QuantumOf(f).kind = "quantum" /\ Quanta!QuantumOf(f).byte = f
  BY DEF Quanta!Free, Quanta!Junk, Quanta!SetOf, Quanta!QuantumOf

\* What a block holds, by its kind.
LEMMA BlockKinds ==
    ASSUME NEW q, NEW s, NEW v \in BlockVals(q, s)
    PROVE  /\ v.kind = "free" <=> v = Quanta!Free
           /\ v.kind = "junk" <=> v = Quanta!Junk
           /\ v.kind = "set" => v.slot \in Slots(s) /\ v = Quanta!SetOf(v.slot)
           /\ v.kind = "quantum" => v.byte \in Bytes(q) /\ v = Quanta!QuantumOf(v.byte)
           /\ v.kind \in {"free", "junk", "set", "quantum"}
  BY KindsOf DEF BlockVals
-----------------------------------------------------------------------------
(* The inductive invariant *)

\* The steps of open, read and write, by what they do.
Emptying == {"freeQuanta", "freeSet", "empty"}
Fetching == {"testLeft", "lower", "loadOut", "copyOut"}
Storing == {"allocSet", "clearSet", "testQuantum", "allocQuantum", "loadIn", "copyIn"}
Ending == {"testLength", "setLength"}
Writable == {"O_WRONLY", "O_RDWR"}

\* Types: the steps and the modes.
ModeNames ==
    /\ upc \in [Users -> {"idle", "zeroQ"} \cup Emptying \cup Fetching \cup Storing \cup Ending]
    /\ mode \in [Users -> {"closed", "O_RDONLY", "O_WRONLY", "O_RDWR"}]

\* A call is of a file that is open for it.
ModeInv ==
    \A u \in Users :
        /\ upc[u] \in Emptying => mode[u] = "O_WRONLY"
        /\ upc[u] \in Fetching \cup {"zeroQ"} => mode[u] \in {"O_RDONLY", "O_RDWR"}
        /\ upc[u] \in Storing \cup Ending => mode[u] \in Writable
        /\ mode[u] = "closed" => upc[u] = "idle"

\* What a call does that finds a device that insmod has not set up.
LEMMA EarlyIs ==
    ASSUME NEW u \in Users, Quanta!EarlyCall(u)
    PROVE  /\ UNCHANGED <<stage, Q, S, set, length, block, mode, priv, at, n, ptr, stamp, mark,
                          asked, grown>>
           /\ upc[u] \in {"idle", "zeroQ"}
           /\ \/ upc' = [upc EXCEPT ![u] = "idle"]
              \/ upc' = [upc EXCEPT ![u] = "zeroQ"] /\ mode[u] \in {"O_RDONLY", "O_RDWR"}
           /\ told' = told \/ told' = <<>>
           /\ bad' = bad \/ bad' = TRUE
           /\ misused' = misused \/ misused' = TRUE
  <1> USE DEF Quanta!Go, Quanta!Crash, Quanta!storeVars, Quanta!callVars, Quanta!history,
              Quanta!looks
  <1>1. CASE Quanta!CallNothing(u)
    BY <1>1 DEF Quanta!CallNothing
  <1>2. CASE Quanta!DivideIn(u)
    BY <1>2 DEF Quanta!DivideIn, Quanta!Early
  <1>3. CASE Quanta!WriteNothing(u)
    BY <1>3 DEF Quanta!WriteNothing, Quanta!Early
  <1>4. CASE Quanta!LoadZero(u)
    BY <1>4 DEF Quanta!LoadZero, Quanta!Early
  <1>5. CASE Quanta!DivideOut(u)
    BY <1>5 DEF Quanta!DivideOut
  <1> QED BY <1>1, <1>2, <1>3, <1>4, <1>5 DEF Quanta!EarlyCall

\* The mode of an open file and the step of its call stay together.
LEMMA ModeStep ==
    ASSUME ModeNames, ModeInv, [Quanta!Next]_Quanta!vars
    PROVE  ModeNames' /\ ModeInv'
  <1> USE DEF ModeNames, ModeInv, Emptying, Fetching, Storing, Ending, Writable, Quanta!Go
  <1>1. CASE Quanta!sc1_cleanup
    BY <1>1 DEF Quanta!sc1_cleanup, Quanta!Kfree
  <1>2. ASSUME NEW u \in Users, Quanta!sc1_open(u)
        PROVE  ModeNames' /\ ModeInv'
    BY <1>2 DEF Quanta!sc1_open, Quanta!Others, Quanta!Trimming, Quanta!callVars
  <1>3. ASSUME NEW u \in Users, Quanta!sc1_release(u)
        PROVE  ModeNames' /\ ModeInv'
    BY <1>3 DEF Quanta!sc1_release
  <1>4. ASSUME NEW u \in Users, Quanta!FreeQuanta(u)
        PROVE  ModeNames' /\ ModeInv'
    BY <1>4 DEF Quanta!FreeQuanta, Quanta!Crash, Quanta!Kfree
  <1>5. ASSUME NEW u \in Users, Quanta!FreeSet(u)
        PROVE  ModeNames' /\ ModeInv'
    BY <1>5 DEF Quanta!FreeSet, Quanta!Kfree
  <1>6. ASSUME NEW u \in Users, Quanta!Empty(u)
        PROVE  ModeNames' /\ ModeInv'
    BY <1>6 DEF Quanta!Empty
  <1>7. ASSUME NEW u \in Users, NEW m \in Lengths, Quanta!TestPos(u, m)
        PROVE  ModeNames' /\ ModeInv'
    BY <1>7 DEF Quanta!TestPos
  <1>8. ASSUME NEW u \in Users, Quanta!TestLeft(u) \/ Quanta!SetToLeft(u)
        PROVE  ModeNames' /\ ModeInv'
    BY <1>8 DEF Quanta!TestLeft, Quanta!SetToLeft, Quanta!ToCopy
  <1>9. ASSUME NEW u \in Users, Quanta!Load(u, "loadOut", "copyOut")
        PROVE  ModeNames' /\ ModeInv'
    BY <1>9 DEF Quanta!Load, Quanta!Crash
  <1>10. ASSUME NEW u \in Users, Quanta!CopyOut(u)
        PROVE  ModeNames' /\ ModeInv'
    BY <1>10 DEF Quanta!CopyOut, Quanta!Crash, Quanta!Return
  <1>11. ASSUME NEW u \in Users, NEW m \in Lengths, Quanta!TestSet(u, m)
        PROVE  ModeNames' /\ ModeInv'
    BY <1>11 DEF Quanta!TestSet
  <1>12. ASSUME NEW u \in Users, Quanta!AllocSet(u)
        PROVE  ModeNames' /\ ModeInv'
    BY <1>12 DEF Quanta!AllocSet, Quanta!Return
  <1>13. ASSUME NEW u \in Users, Quanta!ClearSet(u)
        PROVE  ModeNames' /\ ModeInv'
    BY <1>13 DEF Quanta!ClearSet, Quanta!Crash
  <1>14. ASSUME NEW u \in Users, Quanta!TestQuantum(u)
        PROVE  ModeNames' /\ ModeInv'
    BY <1>14 DEF Quanta!TestQuantum, Quanta!Crash
  <1>15. ASSUME NEW u \in Users, Quanta!AllocQuantum(u)
        PROVE  ModeNames' /\ ModeInv'
    BY <1>15 DEF Quanta!AllocQuantum, Quanta!Crash, Quanta!Return
  <1>16. ASSUME NEW u \in Users, Quanta!Load(u, "loadIn", "copyIn")
        PROVE  ModeNames' /\ ModeInv'
    BY <1>16 DEF Quanta!Load, Quanta!Crash
  <1>17. ASSUME NEW u \in Users, Quanta!CopyIn(u)
        PROVE  ModeNames' /\ ModeInv'
    BY <1>17 DEF Quanta!CopyIn, Quanta!Crash
  <1>18. ASSUME NEW u \in Users, Quanta!TestLength(u)
        PROVE  ModeNames' /\ ModeInv'
    BY <1>18 DEF Quanta!TestLength, Quanta!Return
  <1>19. ASSUME NEW u \in Users, Quanta!SetLength(u)
        PROVE  ModeNames' /\ ModeInv'
    BY <1>19 DEF Quanta!SetLength, Quanta!Return
  <1>20. CASE UNCHANGED Quanta!vars
    BY <1>20 DEF Quanta!vars
  <1>21. CASE Quanta!sc1_init
    BY <1>21 DEF Quanta!sc1_init
  <1>22. ASSUME NEW u \in Users, Quanta!EarlyCall(u)
        PROVE  ModeNames' /\ ModeInv'
    <2>1. /\ mode' = mode /\ upc[u] \in {"idle", "zeroQ"}
          /\ \/ upc' = [upc EXCEPT ![u] = "idle"]
             \/ upc' = [upc EXCEPT ![u] = "zeroQ"] /\ mode[u] \in {"O_RDONLY", "O_RDWR"}
      BY <1>22, EarlyIs
    <2> QED BY <2>1
  <1> QED
    BY <1>1, <1>2, <1>3, <1>4, <1>5, <1>6, <1>7, <1>8, <1>9, <1>10, <1>11, <1>12, <1>13, <1>14,
       <1>15, <1>16, <1>17, <1>18, <1>19, <1>20, <1>21, <1>22
    DEF Quanta!Next, Quanta!User, Quanta!sc1_trim, Quanta!sc1_read, Quanta!sc1_write

\* What Q, S, the pointers, the positions and the counters hold.
Amounts ==
    /\ Q \in Nat \ {0} /\ S \in Nat \ {0}
    /\ set \in Blocks \cup {0} /\ length \in 0..Room(Q, S)
    /\ at \in [Users -> 0..Room(Q, S)] /\ n \in [Users -> Nat]
    /\ ptr \in [Users -> Blocks \cup {0}]
    /\ stamp \in 0..MaxStamp /\ mark \in [Users -> 0..MaxStamp]

BlocksOK == block \in [Blocks -> BlockVals(Q, S)]

\* A call that copies is inside the device, and a read inside a quantum.
PlaceInv ==
    \A u \in Users :
        /\ upc[u] \in Fetching \cup Storing => at[u] < Room(Q, S)
        /\ upc[u] \in {"loadOut", "copyOut"} => n[u] <= Q - Col(Q, at[u])

\* Where the position of a file is.
LEMMA Positions ==
    ASSUME Amounts
    PROVE  /\ Room(Q, S) \in Nat
           /\ \A u \in Users :
                /\ Quanta!s_pos(u) = Row(Q, at[u]) /\ Quanta!q_pos(u) = Col(Q, at[u])
                /\ Row(Q, at[u]) \in Nat /\ Col(Q, at[u]) \in 0..Q-1
                /\ at[u] < Room(Q, S) <=> Row(Q, at[u]) < S
                /\ at[u] < Room(Q, S) => at[u] + (Q - Col(Q, at[u])) <= Room(Q, S)
  <1>1. Room(Q, S) \in Nat
    BY RowInside DEF Amounts
  <1>2. \A u \in Users : at[u] \in Nat
    BY <1>1 DEF Amounts
  <1>3. ASSUME NEW u \in Users
        PROVE  Quanta!s_pos(u) = Row(Q, at[u]) /\ Quanta!q_pos(u) = Col(Q, at[u])
    BY DEF Quanta!s_pos, Quanta!q_pos, Row, Col
  <1> QED BY <1>1, <1>2, <1>3, PlaceOf, RowInside DEF Amounts

\* dev->data[s_pos] is NULL or a block.
LEMMA SlotIs ==
    ASSUME Amounts, BlocksOK, Quanta!IsSet(set)
    PROVE  /\ set \in Blocks /\ set # 0 /\ block[set].slot \in Slots(S)
           /\ block[set] = Quanta!SetOf(block[set].slot)
           /\ \A i \in 0..S-1 : block[set].slot[i] \in Blocks \cup {0}
  <1>1. set \in Blocks /\ set # 0 /\ block[set].kind = "set"
    BY DEF Amounts, Quanta!IsSet, Quanta!NULL
  <1>2. block[set] \in BlockVals(Q, S)
    BY <1>1 DEF BlocksOK
  <1>3. block[set].slot \in Slots(S) /\ block[set] = Quanta!SetOf(block[set].slot)
    BY <1>1, <1>2, BlockKinds
  <1> QED BY <1>1, <1>3 DEF Slots

\* What a look of a read at the size does: it leaves the count for the copy, which fits in the
\* quantum, or goes on to the second look.
LEMMA LooksAre ==
    ASSUME Amounts, NEW u \in Users, Quanta!TestLeft(u) \/ Quanta!SetToLeft(u)
    PROVE  /\ UNCHANGED <<stage, Q, S, set, length, block, mode, priv, at, ptr, stamp, mark, bad,
                          told, misused, asked, grown>>
           /\ \/ /\ upc[u] = "testLeft" /\ upc' = [upc EXCEPT ![u] = "lower"] /\ n' = n
                 /\ length < at[u] \/ length - at[u] < n[u]
              \/ /\ upc[u] \in {"testLeft", "lower"} /\ upc' = [upc EXCEPT ![u] = "loadOut"]
                 /\ \E c \in Nat :
                      /\ n' = [n EXCEPT ![u] = c] /\ c <= Q - Col(Q, at[u])
                      /\ upc[u] = "testLeft" => c <= n[u]
                      /\ at[u] <= length => c <= length - at[u]
  <1> DEFINE rest == Q - Quanta!q_pos(u)
             left == Quanta!Left(u)
  <1>1. /\ Quanta!q_pos(u) = Col(Q, at[u]) /\ Col(Q, at[u]) \in 0..Q-1 /\ Q \in Nat \ {0}
        /\ Room(Q, S) \in Nat
    BY Positions DEF Amounts
  <1>2. n[u] \in Nat /\ at[u] \in Nat /\ length \in Nat
    BY <1>1 DEF Amounts
  <1>3. rest \in Nat /\ rest = Q - Col(Q, at[u])
    BY <1>1
  <1>4. left = IF length < at[u] THEN Room(Q, S) + 1 ELSE length - at[u]
    BY DEF Quanta!Left, Quanta!Huge, Room
  <1>5. left \in Nat /\ (at[u] <= length => left = length - at[u])
    BY <1>1, <1>2, <1>4
  <1>6. \A k \in Nat : /\ Quanta!Min({k, rest}) \in Nat
                       /\ Quanta!Min({k, rest}) <= k /\ Quanta!Min({k, rest}) <= rest
    BY <1>3, LeastOf2
  <1> USE DEF Quanta!Go, Quanta!storeVars, Quanta!callVars, Quanta!history, Quanta!looks
  <1>7. ASSUME NEW from \in {"testLeft", "lower"}, NEW k \in Nat, Quanta!ToCopy(u, from, k),
               k <= left, from = "testLeft" => k <= n[u]
        PROVE  /\ UNCHANGED <<stage, Q, S, set, length, block, mode, priv, at, ptr, stamp, mark,
                              bad, told, misused, asked, grown>>
               /\ upc[u] \in {"testLeft", "lower"} /\ upc' = [upc EXCEPT ![u] = "loadOut"]
               /\ \E c \in Nat :
                    /\ n' = [n EXCEPT ![u] = c] /\ c <= Q - Col(Q, at[u])
                    /\ upc[u] = "testLeft" => c <= n[u]
                    /\ at[u] <= length => c <= length - at[u]
    <2> DEFINE c == Quanta!Min({k, rest})
    <2>1. /\ upc[u] = from /\ upc' = [upc EXCEPT ![u] = "loadOut"] /\ n' = [n EXCEPT ![u] = c]
          /\ UNCHANGED <<stage, Q, S, set, length, block, mode, priv, at, ptr, stamp, mark, bad,
                         told, misused, asked, grown>>
      BY <1>7 DEF Quanta!ToCopy
    <2>2. c \in Nat /\ c <= k /\ c <= rest
      BY <1>6
    <2> HIDE DEF c, rest, left
    <2>3. /\ c <= Q - Col(Q, at[u])
          /\ upc[u] = "testLeft" => c <= n[u]
          /\ at[u] <= length => c <= length - at[u]
      BY <1>2, <1>3, <1>5, <1>7, <2>1, <2>2
    <2> QED BY <1>7, <2>1, <2>2, <2>3
  <1>8. CASE n[u] <= left /\ Quanta!ToCopy(u, "testLeft", n[u])
    BY <1>2, <1>7, <1>8
  <1>9. CASE Quanta!SetToLeft(u)
    BY <1>5, <1>7, <1>9 DEF Quanta!SetToLeft
  <1>10. CASE n[u] > left /\ Quanta!TestLeft(u)
    <2>1. ~(n[u] <= left)
      BY <1>2, <1>5, <1>10
    <2>2. /\ upc[u] = "testLeft" /\ upc' = [upc EXCEPT ![u] = "lower"] /\ n' = n
          /\ UNCHANGED <<stage, Q, S, set, length, block, mode, priv, at, ptr, stamp, mark, bad,
                         told, misused, asked, grown>>
      BY <1>10, <2>1 DEF Quanta!TestLeft
    <2>3. length < at[u] \/ length - at[u] < n[u]
      BY <1>2, <1>4, <1>10
    <2> QED BY <2>2, <2>3
  <1> QED BY <1>8, <1>9, <1>10 DEF Quanta!TestLeft

\* Positions, counts, sizes and pointers keep their types, and a call that copies has room.
LEMMA AmountsStep ==
    ASSUME Amounts, BlocksOK, PlaceInv, ModeNames, [Quanta!Next]_Quanta!vars
    PROVE  Amounts' /\ PlaceInv'
  <1> DEFINE Goal == Amounts' /\ PlaceInv'
  <1>p. /\ Room(Q, S) \in Nat
        /\ \A u \in Users :
             /\ Quanta!s_pos(u) = Row(Q, at[u]) /\ Quanta!q_pos(u) = Col(Q, at[u])
             /\ Row(Q, at[u]) \in Nat /\ Col(Q, at[u]) \in 0..Q-1
             /\ at[u] < Room(Q, S) <=> Row(Q, at[u]) < S
             /\ at[u] < Room(Q, S) => at[u] + (Q - Col(Q, at[u])) <= Room(Q, S)
    BY Positions
  <1>b. Quanta!Kmalloc \in Blocks \cup {0}
    BY KmallocGives
  <1>s. Quanta!IsSet(set) => \A i \in 0..S-1 : block[set].slot[i] \in Blocks \cup {0}
    BY SlotIs
  <1>o. 0..Room(Q, S) \subseteq Nat /\ 0 \in 0..Room(Q, S) /\ MaxStamp \in Nat
    BY <1>p, QuantaAssumption
  <1>l. Lengths \subseteq Nat
    BY QuantaAssumption
  <1> USE DEF Amounts, PlaceInv, ModeNames, Emptying, Fetching, Storing, Ending, Quanta!Go,
              Quanta!storeVars, Quanta!callVars, Quanta!NULL
  <1>1. CASE Quanta!sc1_cleanup
    BY <1>1, <1>p, <1>b, <1>s, <1>o, <1>l DEF Quanta!sc1_cleanup, Quanta!Kfree
  <1>2. ASSUME NEW u \in Users, Quanta!sc1_open(u)
        PROVE  Goal
    BY <1>2, <1>p, <1>b, <1>s, <1>o, <1>l DEF Quanta!sc1_open, Quanta!Others, Quanta!Trimming
  <1>3. ASSUME NEW u \in Users, Quanta!sc1_release(u)
        PROVE  Goal
    BY <1>3, <1>p, <1>b, <1>s, <1>o, <1>l DEF Quanta!sc1_release
  <1>4. ASSUME NEW u \in Users, Quanta!FreeQuanta(u)
        PROVE  Goal
    BY <1>4, <1>p, <1>b, <1>s, <1>o, <1>l DEF Quanta!FreeQuanta, Quanta!Crash, Quanta!Kfree
  <1>5. ASSUME NEW u \in Users, Quanta!FreeSet(u)
        PROVE  Goal
    BY <1>5, <1>p, <1>b, <1>s, <1>o, <1>l DEF Quanta!FreeSet, Quanta!Kfree
  <1>6. ASSUME NEW u \in Users, Quanta!Empty(u)
        PROVE  Goal
    BY <1>6, <1>p, <1>b, <1>s, <1>o, <1>l DEF Quanta!Empty
  <1>7. ASSUME NEW u \in Users, NEW m \in Lengths, Quanta!TestPos(u, m)
        PROVE  Goal
    BY <1>7, <1>p, <1>b, <1>s, <1>o, <1>l DEF Quanta!TestPos
  <1>8. ASSUME NEW u \in Users, Quanta!TestLeft(u) \/ Quanta!SetToLeft(u)
        PROVE  Goal
    <2>1. /\ UNCHANGED <<Q, S, set, length, at, ptr, stamp, mark>>
          /\ \/ upc[u] = "testLeft" /\ upc' = [upc EXCEPT ![u] = "lower"] /\ n' = n
             \/ /\ upc[u] \in {"testLeft", "lower"} /\ upc' = [upc EXCEPT ![u] = "loadOut"]
                /\ \E c \in Nat : n' = [n EXCEPT ![u] = c] /\ c <= Q - Col(Q, at[u])
      BY <1>8, LooksAre
    <2>2. CASE upc[u] = "testLeft" /\ upc' = [upc EXCEPT ![u] = "lower"] /\ n' = n
      BY <1>p, <2>1, <2>2
    <2>3. ASSUME NEW c \in Nat, upc[u] \in {"testLeft", "lower"},
                 upc' = [upc EXCEPT ![u] = "loadOut"], n' = [n EXCEPT ![u] = c],
                 c <= Q - Col(Q, at[u])
          PROVE  Goal
      <3>1. \A v \in Users \ {u} : n'[v] = n[v] /\ upc'[v] = upc[v]
        BY <2>3
      <3> QED BY <1>p, <2>1, <2>3, <3>1
    <2> QED BY <2>1, <2>2, <2>3
  <1>9. ASSUME NEW u \in Users, Quanta!Load(u, "loadOut", "copyOut")
        PROVE  Goal
    BY <1>9, <1>p, <1>b, <1>s, <1>o, <1>l DEF Quanta!Load, Quanta!Crash
  <1>10. ASSUME NEW u \in Users, Quanta!CopyOut(u)
        PROVE  Goal
    BY <1>10, <1>p, <1>b, <1>s, <1>o, <1>l DEF Quanta!CopyOut, Quanta!Crash, Quanta!Return
  <1>11. ASSUME NEW u \in Users, NEW m \in Lengths, Quanta!TestSet(u, m)
        PROVE  Goal
    <2>1. /\ stamp' \in 0..MaxStamp
          /\ UNCHANGED <<Q, S, set, length, at, ptr>>
          /\ \/ upc' = upc /\ UNCHANGED <<n, mark>>
             \/ /\ Row(Q, at[u]) < S /\ upc[u] = "idle"
                /\ \E to \in {"allocSet", "testQuantum"} : upc' = [upc EXCEPT ![u] = to]
                /\ n' = [n EXCEPT ![u] = m] /\ mark' = [mark EXCEPT ![u] = stamp']
      <3>1. CASE Quanta!s_pos(u) >= S
        BY <1>11, <1>p, <1>l, <1>o, <3>1 DEF Quanta!TestSet
      <3>2. CASE ~(Quanta!s_pos(u) >= S)
        BY <1>11, <1>p, <1>l, <1>o, <3>2 DEF Quanta!TestSet
      <3> QED BY <3>1, <3>2
    <2>2. m \in Nat
      BY <1>l
    <2> QED BY <1>p, <1>o, <2>1, <2>2
  <1>12. ASSUME NEW u \in Users, Quanta!AllocSet(u)
        PROVE  Goal
    <2> DEFINE b == Quanta!Kmalloc
    <2>1. set' = b /\ UNCHANGED <<Q, S, length>> /\ b \in Blocks \cup {0}
      BY <1>12, <1>b DEF Quanta!AllocSet
    <2>2. \/ Quanta!Return(u, "allocSet", at[u])
          \/ Quanta!Go(u, "allocSet", "clearSet") /\ UNCHANGED <<at, n, ptr, stamp, mark>>
      BY <1>12 DEF Quanta!AllocSet
    <2> HIDE DEF b
    <2> QED BY <1>p, <1>o, <2>1, <2>2 DEF Quanta!Return
  <1>13. ASSUME NEW u \in Users, Quanta!ClearSet(u)
        PROVE  Goal
    BY <1>13, <1>p, <1>b, <1>s, <1>o, <1>l DEF Quanta!ClearSet, Quanta!Crash
  <1>14. ASSUME NEW u \in Users, Quanta!TestQuantum(u)
        PROVE  Goal
    BY <1>14, <1>p, <1>b, <1>s, <1>o, <1>l DEF Quanta!TestQuantum, Quanta!Crash
  <1>15. ASSUME NEW u \in Users, Quanta!AllocQuantum(u)
        PROVE  Goal
    BY <1>15, <1>p, <1>b, <1>s, <1>o, <1>l DEF Quanta!AllocQuantum, Quanta!Crash, Quanta!Return
  <1>16. ASSUME NEW u \in Users, Quanta!Load(u, "loadIn", "copyIn")
        PROVE  Goal
    BY <1>16, <1>p, <1>b, <1>s, <1>o, <1>l DEF Quanta!Load, Quanta!Crash
  <1>17. ASSUME NEW u \in Users, Quanta!CopyIn(u)
        PROVE  Goal
    <2>1. CASE Quanta!Crash(u, "copyIn")
      BY <1>17, <1>p, <2>1 DEF Quanta!Crash
    <2>2. CASE ~Quanta!Crash(u, "copyIn")
      <3> DEFINE m == Quanta!Min({n[u], Q - Quanta!q_pos(u)})
      <3>1. n[u] \in Nat
        BY <1>p
      <3>6. Q - Quanta!q_pos(u) \in Nat
        BY <1>p
      <3>7. m = IF n[u] <= Q - Quanta!q_pos(u) THEN n[u] ELSE Q - Quanta!q_pos(u)
        BY <3>1, <3>6, LeastOf2
      <3>2. m \in Nat /\ m <= Q - Quanta!q_pos(u)
        BY <3>1, <3>6, <3>7
      <3> HIDE DEF m
      <3>3. /\ upc[u] = "copyIn" /\ upc' = [upc EXCEPT ![u] = "testLength"]
            /\ at' = [at EXCEPT ![u] = @ + m]
            /\ UNCHANGED <<Q, S, set, length, n, ptr, stamp, mark>>
        <4>1. Quanta!IsMemory(ptr[u]) /\ Quanta!Go(u, "copyIn", "testLength")
          BY <1>17, <2>2, Zenon DEF Quanta!CopyIn
        <4> QED BY <1>17, <2>2, <4>1, Zenon DEF Quanta!CopyIn, Quanta!Go, m
      <3>4. at[u] + m \in 0..Room(Q, S)
        BY <1>p, <3>2, <3>3
      <3>5. \A v \in Users \ {u} : at'[v] = at[v] /\ upc'[v] = upc[v]
        BY <3>3
      <3> QED BY <1>p, <3>2, <3>3, <3>4, <3>5
    <2> QED BY <2>1, <2>2
  <1>18. ASSUME NEW u \in Users, Quanta!TestLength(u)
        PROVE  Goal
    BY <1>18, <1>p, <1>b, <1>s, <1>o, <1>l DEF Quanta!TestLength, Quanta!Return
  <1>19. ASSUME NEW u \in Users, Quanta!SetLength(u)
        PROVE  Goal
    BY <1>19, <1>p, <1>b, <1>s, <1>o, <1>l DEF Quanta!SetLength, Quanta!Return
  <1>20. CASE UNCHANGED Quanta!vars
    BY <1>20 DEF Quanta!vars
  <1>21. CASE Quanta!sc1_init
    BY <1>21 DEF Quanta!sc1_init
  <1>22. ASSUME NEW u \in Users, Quanta!EarlyCall(u)
        PROVE  Goal
    BY <1>22, <1>p, EarlyIs
  <1> QED
    BY <1>1, <1>2, <1>3, <1>4, <1>5, <1>6, <1>7, <1>8, <1>9, <1>10, <1>11, <1>12, <1>13, <1>14,
       <1>15, <1>16, <1>17, <1>18, <1>19, <1>20, <1>21, <1>22
    DEF Quanta!Next, Quanta!User, Quanta!sc1_trim, Quanta!sc1_read, Quanta!sc1_write

\* Types: the flags and the history.
FlagTypes == bad \in BOOLEAN /\ misused \in BOOLEAN
ToldOK == told \in Seq(0..MaxStamp)

\* A function on 1..k is a sequence.
LEMMA FunctionIsSeq ==
    ASSUME NEW T, NEW k \in Nat, NEW f \in [1..k -> T]
    PROVE  f \in Seq(T) /\ Len(f) = k
  OBVIOUS

\* What Told returns.
LEMMA ToldIs ==
    ASSUME ToldOK, NEW c \in 0..MaxStamp, NEW pos \in Nat, NEW m \in Nat
    PROVE  /\ Quanta!Told(c, pos, m) \in Seq(0..MaxStamp)
           /\ ~misused =>
                /\ Len(Quanta!Told(c, pos, m)) =
                     IF Len(told) <= pos + m THEN pos + m ELSE Len(told)
                /\ \A i \in 1..Len(Quanta!Told(c, pos, m)) :
                     Quanta!Told(c, pos, m)[i] =
                       IF pos < i /\ i <= pos + m THEN c
                       ELSE IF i <= Len(told) THEN told[i] ELSE 0
  <1> DEFINE k == Quanta!Max({Len(told), pos + m})
             f == [i \in 1..k |-> IF i \in pos+1..pos+m THEN c
                                  ELSE IF i <= Len(told) THEN told[i] ELSE 0]
  <1>9. \A i \in 1..Len(told) : told[i] \in 0..MaxStamp
    BY ElementOfSeq, Zenon DEF ToldOK
  <1>10. Len(told) \in Nat
    BY LenProperties DEF ToldOK
  <1>1. Len(told) \in Nat /\ pos + m \in Nat /\ \A i \in 1..Len(told) : told[i] \in 0..MaxStamp
    BY <1>9, <1>10
  <1>2. k = IF Len(told) <= pos + m THEN pos + m ELSE Len(told)
    BY <1>1, MostOf2
  <1>3. k \in Nat
    BY <1>1, <1>2
  <1>4. Quanta!Told(c, pos, m) = IF misused THEN <<>> ELSE f
    BY DEF Quanta!Told
  <1> HIDE DEF k
  <1>5. 0 \in 0..MaxStamp
    BY QuantaAssumption
  <1>6. f \in [1..k -> 0..MaxStamp]
    BY <1>1, <1>3, <1>5
  <1>7. \A i \in 1..k : f[i] = IF pos < i /\ i <= pos + m THEN c
                              ELSE IF i <= Len(told) THEN told[i] ELSE 0
    BY <1>1, <1>3
  <1> HIDE DEF f
  <1>8. f \in Seq(0..MaxStamp) /\ Len(f) = k
    BY <1>3, <1>6, FunctionIsSeq
  <1> QED BY <1>2, <1>4, <1>7, <1>8, EmptySeq

\* The flags stay Booleans.
LEMMA FlagTypesStep ==
    ASSUME FlagTypes, [Quanta!Next]_Quanta!vars
    PROVE  FlagTypes'
  <1> USE DEF FlagTypes, Quanta!history, Quanta!looks
  <1>1. CASE Quanta!sc1_cleanup
    BY <1>1, Zenon DEF Quanta!sc1_cleanup, Quanta!Kfree
  <1>2. ASSUME NEW u \in Users, Quanta!sc1_open(u)
        PROVE  FlagTypes'
    BY <1>2, Zenon DEF Quanta!sc1_open
  <1>3. ASSUME NEW u \in Users, Quanta!sc1_release(u)
        PROVE  FlagTypes'
    BY <1>3, Zenon DEF Quanta!sc1_release
  <1>4. ASSUME NEW u \in Users, Quanta!FreeQuanta(u)
        PROVE  FlagTypes'
    BY <1>4, Zenon DEF Quanta!FreeQuanta, Quanta!Crash, Quanta!Kfree
  <1>5. ASSUME NEW u \in Users, Quanta!FreeSet(u)
        PROVE  FlagTypes'
    BY <1>5, Zenon DEF Quanta!FreeSet, Quanta!Kfree
  <1>6. ASSUME NEW u \in Users, Quanta!Empty(u)
        PROVE  FlagTypes'
    BY <1>6, Zenon DEF Quanta!Empty
  <1>7. ASSUME NEW u \in Users, NEW m \in Lengths, Quanta!TestPos(u, m)
        PROVE  FlagTypes'
    BY <1>7, Zenon DEF Quanta!TestPos
  <1>8. ASSUME NEW u \in Users, Quanta!TestLeft(u) \/ Quanta!SetToLeft(u)
        PROVE  FlagTypes'
    BY <1>8, Zenon DEF Quanta!TestLeft, Quanta!SetToLeft, Quanta!ToCopy
  <1>9. ASSUME NEW u \in Users, Quanta!Load(u, "loadOut", "copyOut")
        PROVE  FlagTypes'
    BY <1>9, Zenon DEF Quanta!Load, Quanta!Crash
  <1>10. ASSUME NEW u \in Users, Quanta!CopyOut(u)
        PROVE  FlagTypes'
    BY <1>10, Zenon DEF Quanta!CopyOut, Quanta!Crash, Quanta!Return
  <1>11. ASSUME NEW u \in Users, NEW m \in Lengths, Quanta!TestSet(u, m)
        PROVE  FlagTypes'
    BY <1>11, Zenon DEF Quanta!TestSet
  <1>12. ASSUME NEW u \in Users, Quanta!AllocSet(u)
        PROVE  FlagTypes'
    BY <1>12, Zenon DEF Quanta!AllocSet, Quanta!Return
  <1>13. ASSUME NEW u \in Users, Quanta!ClearSet(u)
        PROVE  FlagTypes'
    BY <1>13, Zenon DEF Quanta!ClearSet, Quanta!Crash
  <1>14. ASSUME NEW u \in Users, Quanta!TestQuantum(u)
        PROVE  FlagTypes'
    BY <1>14, Zenon DEF Quanta!TestQuantum, Quanta!Crash
  <1>15. ASSUME NEW u \in Users, Quanta!AllocQuantum(u)
        PROVE  FlagTypes'
    BY <1>15, Zenon DEF Quanta!AllocQuantum, Quanta!Crash, Quanta!Return
  <1>16. ASSUME NEW u \in Users, Quanta!Load(u, "loadIn", "copyIn")
        PROVE  FlagTypes'
    BY <1>16, Zenon DEF Quanta!Load, Quanta!Crash
  <1>17. ASSUME NEW u \in Users, Quanta!CopyIn(u)
        PROVE  FlagTypes'
    BY <1>17, Zenon DEF Quanta!CopyIn, Quanta!Crash
  <1>18. ASSUME NEW u \in Users, Quanta!TestLength(u)
        PROVE  FlagTypes'
    BY <1>18, Zenon DEF Quanta!TestLength, Quanta!Return
  <1>19. ASSUME NEW u \in Users, Quanta!SetLength(u)
        PROVE  FlagTypes'
    BY <1>19, Zenon DEF Quanta!SetLength, Quanta!Return
  <1>20. CASE UNCHANGED Quanta!vars
    BY <1>20 DEF Quanta!vars
  <1>21. CASE Quanta!sc1_init
    BY <1>21, Zenon DEF Quanta!sc1_init
  <1>22. ASSUME NEW u \in Users, Quanta!EarlyCall(u)
        PROVE  FlagTypes'
    BY <1>22, EarlyIs, Zenon
  <1> QED
    BY <1>1, <1>2, <1>3, <1>4, <1>5, <1>6, <1>7, <1>8, <1>9, <1>10, <1>11, <1>12, <1>13, <1>14,
       <1>15, <1>16, <1>17, <1>18, <1>19, <1>20, <1>21, <1>22
    DEF Quanta!Next, Quanta!User, Quanta!sc1_trim, Quanta!sc1_read, Quanta!sc1_write

\* The history stays a sequence of call numbers.
LEMMA ToldStep ==
    ASSUME ToldOK, Amounts, [Quanta!Next]_Quanta!vars
    PROVE  ToldOK'
  <1>a. /\ \A c \in 0..MaxStamp : \A pos \in Nat, m \in Nat :
             Quanta!Told(c, pos, m) \in Seq(0..MaxStamp)
        /\ <<>> \in Seq(0..MaxStamp) /\ Len(told) \in Nat
    BY ToldIs, EmptySeq, LenProperties DEF ToldOK
  <1>b. Room(Q, S) \in Nat /\ \A u \in Users : Quanta!q_pos(u) \in 0..Q-1
    BY Positions
  <1>c. Lengths \subseteq Nat
    BY QuantaAssumption
  <1> USE <1>a
  <1> USE DEF ToldOK, Quanta!history, Quanta!looks
  <1>1. CASE Quanta!sc1_cleanup
    BY <1>1 DEF Quanta!sc1_cleanup, Quanta!Kfree
  <1>2. ASSUME NEW u \in Users, Quanta!sc1_open(u)
        PROVE  ToldOK'
    BY <1>2 DEF Quanta!sc1_open, Quanta!Others, Quanta!Trimming
  <1>3. ASSUME NEW u \in Users, Quanta!sc1_release(u)
        PROVE  ToldOK'
    BY <1>3 DEF Quanta!sc1_release
  <1>4. ASSUME NEW u \in Users, Quanta!FreeQuanta(u)
        PROVE  ToldOK'
    BY <1>4 DEF Quanta!FreeQuanta, Quanta!Crash, Quanta!Kfree
  <1>5. ASSUME NEW u \in Users, Quanta!FreeSet(u)
        PROVE  ToldOK'
    BY <1>5 DEF Quanta!FreeSet, Quanta!Kfree
  <1>6. ASSUME NEW u \in Users, Quanta!Empty(u)
        PROVE  ToldOK'
    BY <1>6 DEF Quanta!Empty
  <1>7. ASSUME NEW u \in Users, NEW m \in Lengths, Quanta!TestPos(u, m)
        PROVE  ToldOK'
    BY <1>7 DEF Quanta!TestPos
  <1>8. ASSUME NEW u \in Users, Quanta!TestLeft(u) \/ Quanta!SetToLeft(u)
        PROVE  ToldOK'
    BY <1>8 DEF Quanta!TestLeft, Quanta!SetToLeft, Quanta!ToCopy
  <1>9. ASSUME NEW u \in Users, Quanta!Load(u, "loadOut", "copyOut")
        PROVE  ToldOK'
    BY <1>9 DEF Quanta!Load, Quanta!Crash
  <1>10. ASSUME NEW u \in Users, Quanta!CopyOut(u)
        PROVE  ToldOK'
    BY <1>10 DEF Quanta!CopyOut, Quanta!Crash, Quanta!Return
  <1>11. ASSUME NEW u \in Users, NEW m \in Lengths, Quanta!TestSet(u, m)
        PROVE  ToldOK'
    <2>1. stamp' \in 0..MaxStamp
      BY <1>11, QuantaAssumption DEF Quanta!TestSet, Amounts
    <2>2. told' = told \/ told' = Quanta!Told(stamp', Len(told), m)
      BY <1>11, Zenon DEF Quanta!TestSet
    <2> QED BY <1>c, <2>1, <2>2
  <1>12. ASSUME NEW u \in Users, Quanta!AllocSet(u)
        PROVE  ToldOK'
    BY <1>12 DEF Quanta!AllocSet, Quanta!Return
  <1>13. ASSUME NEW u \in Users, Quanta!ClearSet(u)
        PROVE  ToldOK'
    BY <1>13 DEF Quanta!ClearSet, Quanta!Crash
  <1>14. ASSUME NEW u \in Users, Quanta!TestQuantum(u)
        PROVE  ToldOK'
    BY <1>14 DEF Quanta!TestQuantum, Quanta!Crash
  <1>15. ASSUME NEW u \in Users, Quanta!AllocQuantum(u)
        PROVE  ToldOK'
    BY <1>15 DEF Quanta!AllocQuantum, Quanta!Crash, Quanta!Return
  <1>16. ASSUME NEW u \in Users, Quanta!Load(u, "loadIn", "copyIn")
        PROVE  ToldOK'
    BY <1>16 DEF Quanta!Load, Quanta!Crash
  <1>17. ASSUME NEW u \in Users, Quanta!CopyIn(u)
        PROVE  ToldOK'
    <2>1. CASE Quanta!Crash(u, "copyIn")
      BY <2>1 DEF Quanta!Crash
    <2>2. CASE ~Quanta!Crash(u, "copyIn")
      <3> DEFINE m == Quanta!Min({n[u], Q - Quanta!q_pos(u)})
      <3>0. Q \in Nat /\ 0..Room(Q, S) \subseteq Nat
        BY <1>b DEF Amounts
      <3>5. n[u] \in Nat /\ at[u] \in Nat /\ mark[u] \in 0..MaxStamp
        BY <3>0 DEF Amounts
      <3>1. n[u] \in Nat /\ Q - Quanta!q_pos(u) \in Nat /\ at[u] \in Nat
            /\ mark[u] \in 0..MaxStamp
        <4>1. Quanta!q_pos(u) \in 0..Q-1
          BY <1>b
        <4>2. Q - Quanta!q_pos(u) \in Nat
          BY ONLY <3>0, <4>1
        <4> QED BY <3>5, <4>2
      <3>2. m = IF n[u] <= Q - Quanta!q_pos(u) THEN n[u] ELSE Q - Quanta!q_pos(u)
        <4>1. n[u] \in Int /\ Q - Quanta!q_pos(u) \in Int
          BY ONLY <3>1
        <4> QED BY ONLY <4>1, LeastOf2
      <3>3. m \in Nat
        BY <3>1, <3>2
      <3>4. told' = Quanta!Told(mark[u], at[u], m)
        BY <1>17, <2>2, Zenon DEF Quanta!CopyIn
      <3> HIDE DEF m
      <3> QED BY <3>1, <3>3, <3>4
    <2> QED BY <2>1, <2>2
  <1>18. ASSUME NEW u \in Users, Quanta!TestLength(u)
        PROVE  ToldOK'
    BY <1>18 DEF Quanta!TestLength, Quanta!Return
  <1>19. ASSUME NEW u \in Users, Quanta!SetLength(u)
        PROVE  ToldOK'
    BY <1>19 DEF Quanta!SetLength, Quanta!Return
  <1>20. CASE UNCHANGED Quanta!vars
    BY <1>20 DEF Quanta!vars
  <1>21. CASE Quanta!sc1_init
    BY <1>21 DEF Quanta!sc1_init
  <1>22. ASSUME NEW u \in Users, Quanta!EarlyCall(u)
        PROVE  ToldOK'
    BY <1>22, EarlyIs
  <1> QED
    BY <1>1, <1>2, <1>3, <1>4, <1>5, <1>6, <1>7, <1>8, <1>9, <1>10, <1>11, <1>12, <1>13, <1>14,
       <1>15, <1>16, <1>17, <1>18, <1>19, <1>20, <1>21, <1>22
    DEF Quanta!Next, Quanta!User, Quanta!sc1_trim, Quanta!sc1_read, Quanta!sc1_write

\* Of a write, what fits in the quantum.
LEMMA CopyCount ==
    ASSUME Amounts, NEW u \in Users
    PROVE  /\ Quanta!Min({n[u], Q - Quanta!q_pos(u)}) \in Nat
           /\ Quanta!Min({n[u], Q - Quanta!q_pos(u)}) <= Q - Col(Q, at[u])
  <1>1. Quanta!q_pos(u) = Col(Q, at[u]) /\ Col(Q, at[u]) \in 0..Q-1
    BY Positions
  <1>2. n[u] \in Nat /\ Q \in Nat
    BY DEF Amounts
  <1>3. n[u] \in Int /\ Q - Quanta!q_pos(u) \in Nat
    BY <1>1, <1>2
  <1>4. Quanta!Min({n[u], Q - Quanta!q_pos(u)}) =
          IF n[u] <= Q - Quanta!q_pos(u) THEN n[u] ELSE Q - Quanta!q_pos(u)
    BY ONLY <1>3, LeastOf2
  <1> QED BY ONLY <1>1, <1>2, <1>3, <1>4

\* The slot of the quantum is filled with what kmalloc gave.
LEMMA AllocQuantumDoes ==
    ASSUME Amounts, BlocksOK, PlaceInv, NEW u \in Users, Quanta!IsSet(set),
           Quanta!AllocQuantum(u)
    PROVE  /\ upc[u] = "allocQuantum" /\ Row(Q, at[u]) \in 0..S-1
           /\ UNCHANGED <<Q, S, set, length, bad, told>>
           /\ \E b \in Blocks \cup {0} :
                /\ b = 0 \/ block[b] = Quanta!Free
                /\ \/ b = 0 /\ Quanta!Return(u, "allocQuantum", at[u])
                   \/ /\ b # 0 /\ Quanta!Go(u, "allocQuantum", "loadIn")
                      /\ UNCHANGED <<stage, mode, priv, at, n, ptr, stamp, mark, misused>>
                /\ block' = [c \in Blocks |->
                     IF c = b THEN Quanta!Junk
                     ELSE IF c = set
                          THEN Quanta!SetOf([block[set].slot EXCEPT ![Row(Q, at[u])] = b])
                          ELSE block[c]]
  <1> DEFINE b == Quanta!Kmalloc
             k == Row(Q, at[u])
  <1>1. Quanta!s_pos(u) = k /\ k \in Nat /\ (at[u] < Room(Q, S) <=> k < S)
    BY Positions
  <1>2. /\ \/ Quanta!Return(u, "allocQuantum", at[u]) /\ b = 0
           \/ /\ Quanta!Go(u, "allocQuantum", "loadIn") /\ b # 0
              /\ UNCHANGED <<stage, mode, priv, at, n, ptr, stamp, mark, misused>>
        /\ block' = [c \in Blocks |->
             IF c = b THEN Quanta!Junk
             ELSE IF c = set THEN [block[c] EXCEPT !.slot[k] = b] ELSE block[c]]
        /\ UNCHANGED <<Q, S, set, length, bad, told>>
    BY <1>1 DEF Quanta!AllocQuantum, Quanta!Crash, Quanta!NULL, Quanta!callVars
  <1>3. upc[u] = "allocQuantum"
    BY <1>2 DEF Quanta!Return, Quanta!Go
  <1>4. k \in 0..S-1
    BY <1>1, <1>3 DEF PlaceInv, Storing, Amounts
  <1>5. b \in Blocks \cup {0} /\ (b = 0 \/ block[b] = Quanta!Free)
    BY KmallocGives
  <1>6. block[set] = Quanta!SetOf(block[set].slot)
    BY SlotIs
  <1>7. ASSUME NEW f, NEW d
        PROVE  [Quanta!SetOf(f) EXCEPT !.slot[k] = d] = Quanta!SetOf([f EXCEPT ![k] = d])
    BY DEF Quanta!SetOf
  <1> HIDE DEF b, k
  <1>8. [block[set] EXCEPT !.slot[k] = b] = Quanta!SetOf([block[set].slot EXCEPT ![k] = b])
    BY <1>6, <1>7
  <1>9. block' = [c \in Blocks |->
             IF c = b THEN Quanta!Junk
             ELSE IF c = set THEN Quanta!SetOf([block[set].slot EXCEPT ![k] = b]) ELSE block[c]]
    BY <1>2, <1>8
  <1> QED BY <1>2, <1>3, <1>4, <1>5, <1>9 DEF k

\* The bytes are in the quantum; what was there before, or 0, is around them.
LEMMA CopyInDoes ==
    ASSUME Amounts, BlocksOK, PlaceInv, NEW u \in Users, Quanta!IsMemory(ptr[u]),
           Quanta!CopyIn(u)
    PROVE  /\ upc[u] = "copyIn" /\ upc' = [upc EXCEPT ![u] = "testLength"]
           /\ UNCHANGED <<stage, Q, S, set, length, mode, priv, n, ptr, stamp, mark, bad, misused>>
           /\ \E m \in Nat : \E g \in Bytes(Q) :
                /\ m <= Q - Col(Q, at[u])
                /\ at' = [at EXCEPT ![u] = @ + m] /\ told' = Quanta!Told(mark[u], at[u], m)
                /\ block' = [block EXCEPT ![ptr[u]] = Quanta!QuantumOf(g)]
                /\ \A i \in 0..Q-1 : g[i] =
                     IF Col(Q, at[u]) <= i /\ i < Col(Q, at[u]) + m THEN mark[u]
                     ELSE IF block[ptr[u]].kind = "quantum" THEN block[ptr[u]].byte[i] ELSE 0
  <1> DEFINE m == Quanta!Min({n[u], Q - Quanta!q_pos(u)})
             p == Col(Q, at[u])
             old == block[ptr[u]]
             g == [i \in 0..Q-1 |-> IF i \in p..p+m-1 THEN mark[u]
                                    ELSE IF old.kind = "quantum" THEN old.byte[i] ELSE 0]
  <1>1. m \in Nat /\ m <= Q - Col(Q, at[u])
    BY CopyCount
  <1>2. Quanta!q_pos(u) = p /\ p \in 0..Q-1 /\ Q \in Nat
    BY Positions DEF Amounts
  <1>3. /\ Quanta!Go(u, "copyIn", "testLength")
        /\ block' = [block EXCEPT ![ptr[u]] = Quanta!QuantumOf(g)]
        /\ at' = [at EXCEPT ![u] = @ + m] /\ told' = Quanta!Told(mark[u], at[u], m)
        /\ UNCHANGED <<stage, Q, S, set, length, mode, priv, n, ptr, stamp, mark, bad, misused>>
    BY <1>2, Zenon DEF Quanta!CopyIn
  <1> HIDE DEF m
  <1>4. ptr[u] \in Blocks
    BY DEF Quanta!IsMemory, Quanta!NULL, Amounts
  <1>5. old \in BlockVals(Q, S)
    BY <1>4 DEF BlocksOK
  <1>6. old.kind = "quantum" => old.byte \in Bytes(Q)
    BY <1>5, BlockKinds
  <1>7. mark[u] \in 0..MaxStamp /\ 0 \in 0..MaxStamp
    BY QuantaAssumption DEF Amounts
  <1>8. g \in Bytes(Q)
    BY <1>6, <1>7 DEF Bytes
  <1>9. \A i \in 0..Q-1 : g[i] =
          IF p <= i /\ i < p + m THEN mark[u]
          ELSE IF old.kind = "quantum" THEN old.byte[i] ELSE 0
    BY <1>1, <1>2
  <1> HIDE DEF g, p, old
  <1>10. upc[u] = "copyIn" /\ upc' = [upc EXCEPT ![u] = "testLength"]
    BY <1>3 DEF Quanta!Go
  <1> QED BY <1>1, <1>3, <1>8, <1>9, <1>10 DEF p, old

\* A block is free, as kmalloc gave it, an array, or a quantum, and stays one of these.
LEMMA BlocksStep ==
    ASSUME BlocksOK, Amounts, PlaceInv, [Quanta!Next]_Quanta!vars
    PROVE  BlocksOK'
  <1>f. Quanta!Free \in BlockVals(Q, S) /\ Quanta!Junk \in BlockVals(Q, S)
    BY DEF BlockVals
  <1> USE <1>f
  <1> USE DEF BlocksOK, Quanta!storeVars
  <1>1. CASE Quanta!sc1_cleanup
    BY <1>1 DEF Quanta!sc1_cleanup, Quanta!Kfree
  <1>2. ASSUME NEW u \in Users, Quanta!sc1_open(u)
        PROVE  BlocksOK'
    BY <1>2 DEF Quanta!sc1_open, Quanta!Others, Quanta!Trimming
  <1>3. ASSUME NEW u \in Users, Quanta!sc1_release(u)
        PROVE  BlocksOK'
    BY <1>3 DEF Quanta!sc1_release
  <1>4. ASSUME NEW u \in Users, Quanta!FreeQuanta(u)
        PROVE  BlocksOK'
    BY <1>4 DEF Quanta!FreeQuanta, Quanta!Crash, Quanta!Kfree
  <1>5. ASSUME NEW u \in Users, Quanta!FreeSet(u)
        PROVE  BlocksOK'
    BY <1>5 DEF Quanta!FreeSet, Quanta!Kfree
  <1>6. ASSUME NEW u \in Users, Quanta!Empty(u)
        PROVE  BlocksOK'
    BY <1>6 DEF Quanta!Empty
  <1>7. ASSUME NEW u \in Users, NEW m \in Lengths, Quanta!TestPos(u, m)
        PROVE  BlocksOK'
    BY <1>7 DEF Quanta!TestPos
  <1>8. ASSUME NEW u \in Users, Quanta!TestLeft(u) \/ Quanta!SetToLeft(u)
        PROVE  BlocksOK'
    BY <1>8 DEF Quanta!TestLeft, Quanta!SetToLeft, Quanta!ToCopy
  <1>9. ASSUME NEW u \in Users, Quanta!Load(u, "loadOut", "copyOut")
        PROVE  BlocksOK'
    BY <1>9 DEF Quanta!Load, Quanta!Crash
  <1>10. ASSUME NEW u \in Users, Quanta!CopyOut(u)
        PROVE  BlocksOK'
    BY <1>10 DEF Quanta!CopyOut, Quanta!Crash, Quanta!Return
  <1>11. ASSUME NEW u \in Users, NEW m \in Lengths, Quanta!TestSet(u, m)
        PROVE  BlocksOK'
    BY <1>11 DEF Quanta!TestSet
  <1>12. ASSUME NEW u \in Users, Quanta!AllocSet(u)
        PROVE  BlocksOK'
    BY <1>12 DEF Quanta!AllocSet, Quanta!Return
  <1>13. ASSUME NEW u \in Users, Quanta!ClearSet(u)
        PROVE  BlocksOK'
    <2>1. Quanta!SetOf([i \in 0..S-1 |-> 0]) \in BlockVals(Q, S)
      BY DEF BlockVals, Slots
    <2> QED BY <1>13, <2>1 DEF Quanta!ClearSet, Quanta!Crash, Quanta!NULL
  <1>14. ASSUME NEW u \in Users, Quanta!TestQuantum(u)
        PROVE  BlocksOK'
    BY <1>14 DEF Quanta!TestQuantum, Quanta!Crash
  <1>15. ASSUME NEW u \in Users, Quanta!AllocQuantum(u)
        PROVE  BlocksOK'
    <2>1. CASE ~Quanta!IsSet(set)
      BY <1>15, <2>1 DEF Quanta!AllocQuantum, Quanta!Crash
    <2>2. CASE Quanta!IsSet(set)
      <3> DEFINE k == Row(Q, at[u])
                 f(b) == [block[set].slot EXCEPT ![k] = b]
      <3>1. block[set].slot \in Slots(S)
        BY <2>2, SlotIs
      <3>2. UNCHANGED <<Q, S>> /\ \E b \in Blocks \cup {0} : block' = [c \in Blocks |->
              IF c = b THEN Quanta!Junk
              ELSE IF c = set THEN Quanta!SetOf(f(b)) ELSE block[c]]
        BY <1>15, <2>2, AllocQuantumDoes
      <3>3. ASSUME NEW b \in Blocks \cup {0} PROVE Quanta!SetOf(f(b)) \in BlockVals(Q, S)
        <4>1. f(b) \in Slots(S)
          BY <3>1 DEF Slots
        <4> QED BY <4>1 DEF BlockVals
      <3> HIDE DEF k, f
      <3> QED BY <3>2, <3>3
    <2> QED BY <2>1, <2>2
  <1>16. ASSUME NEW u \in Users, Quanta!Load(u, "loadIn", "copyIn")
        PROVE  BlocksOK'
    BY <1>16 DEF Quanta!Load, Quanta!Crash
  <1>17. ASSUME NEW u \in Users, Quanta!CopyIn(u)
        PROVE  BlocksOK'
    <2>1. CASE ~Quanta!IsMemory(ptr[u])
      BY <1>17, <2>1 DEF Quanta!CopyIn, Quanta!Crash
    <2>2. CASE Quanta!IsMemory(ptr[u])
      <3>1. /\ UNCHANGED <<Q, S>>
            /\ \E g \in Bytes(Q) : block' = [block EXCEPT ![ptr[u]] = Quanta!QuantumOf(g)]
        BY <1>17, <2>2, CopyInDoes
      <3>2. \A g \in Bytes(Q) : Quanta!QuantumOf(g) \in BlockVals(Q, S)
        BY DEF BlockVals
      <3> QED BY <3>1, <3>2
    <2> QED BY <2>1, <2>2
  <1>18. ASSUME NEW u \in Users, Quanta!TestLength(u)
        PROVE  BlocksOK'
    BY <1>18 DEF Quanta!TestLength, Quanta!Return
  <1>19. ASSUME NEW u \in Users, Quanta!SetLength(u)
        PROVE  BlocksOK'
    BY <1>19 DEF Quanta!SetLength, Quanta!Return
  <1>20. CASE UNCHANGED Quanta!vars
    BY <1>20 DEF Quanta!vars
  <1>21. CASE Quanta!sc1_init
    BY <1>21 DEF Quanta!sc1_init
  <1>22. ASSUME NEW u \in Users, Quanta!EarlyCall(u)
        PROVE  BlocksOK'
    BY <1>22, EarlyIs
  <1> QED
    BY <1>1, <1>2, <1>3, <1>4, <1>5, <1>6, <1>7, <1>8, <1>9, <1>10, <1>11, <1>12, <1>13, <1>14,
       <1>15, <1>16, <1>17, <1>18, <1>19, <1>20, <1>21, <1>22
    DEF Quanta!Next, Quanta!User, Quanta!sc1_trim, Quanta!sc1_read, Quanta!sc1_write
-----------------------------------------------------------------------------
(* One writer at a time *)

\* A device that is not misused has one writer, and who empties it is alone.
OneWriter ==
    /\ \A u, v \in Users : mode[u] \in Writable /\ mode[v] \in Writable => u = v
    /\ \A u, v \in Users : upc[u] \in Emptying /\ u # v => mode[v] = "closed"

\* A device that was misused counts as misused from then on.
LEMMA MisusedStays ==
    ASSUME [Quanta!Next]_Quanta!vars, ~misused'
    PROVE  ~misused
  <1> USE DEF Quanta!history, Quanta!looks
  <1>1. CASE Quanta!sc1_cleanup
    BY <1>1, Zenon DEF Quanta!sc1_cleanup, Quanta!Kfree
  <1>2. ASSUME NEW u \in Users, Quanta!sc1_open(u)
        PROVE  ~misused
    BY <1>2, Zenon DEF Quanta!sc1_open, Quanta!Others, Quanta!Trimming
  <1>3. ASSUME NEW u \in Users, Quanta!sc1_release(u)
        PROVE  ~misused
    BY <1>3, Zenon DEF Quanta!sc1_release
  <1>4. ASSUME NEW u \in Users, Quanta!FreeQuanta(u)
        PROVE  ~misused
    BY <1>4, Zenon DEF Quanta!FreeQuanta, Quanta!Crash, Quanta!Kfree
  <1>5. ASSUME NEW u \in Users, Quanta!FreeSet(u)
        PROVE  ~misused
    BY <1>5, Zenon DEF Quanta!FreeSet, Quanta!Kfree
  <1>6. ASSUME NEW u \in Users, Quanta!Empty(u)
        PROVE  ~misused
    BY <1>6, Zenon DEF Quanta!Empty
  <1>7. ASSUME NEW u \in Users, NEW m \in Lengths, Quanta!TestPos(u, m)
        PROVE  ~misused
    BY <1>7, Zenon DEF Quanta!TestPos
  <1>8. ASSUME NEW u \in Users, Quanta!TestLeft(u) \/ Quanta!SetToLeft(u)
        PROVE  ~misused
    BY <1>8, Zenon DEF Quanta!TestLeft, Quanta!SetToLeft, Quanta!ToCopy
  <1>9. ASSUME NEW u \in Users, Quanta!Load(u, "loadOut", "copyOut")
        PROVE  ~misused
    BY <1>9, Zenon DEF Quanta!Load, Quanta!Crash
  <1>10. ASSUME NEW u \in Users, Quanta!CopyOut(u)
        PROVE  ~misused
    BY <1>10, Zenon DEF Quanta!CopyOut, Quanta!Crash, Quanta!Return
  <1>11. ASSUME NEW u \in Users, NEW m \in Lengths, Quanta!TestSet(u, m)
        PROVE  ~misused
    BY <1>11, Zenon DEF Quanta!TestSet
  <1>12. ASSUME NEW u \in Users, Quanta!AllocSet(u)
        PROVE  ~misused
    BY <1>12, Zenon DEF Quanta!AllocSet, Quanta!Return, Quanta!callVars
  <1>13. ASSUME NEW u \in Users, Quanta!ClearSet(u)
        PROVE  ~misused
    BY <1>13, Zenon DEF Quanta!ClearSet, Quanta!Crash
  <1>14. ASSUME NEW u \in Users, Quanta!TestQuantum(u)
        PROVE  ~misused
    BY <1>14, Zenon DEF Quanta!TestQuantum, Quanta!Crash
  <1>15. ASSUME NEW u \in Users, Quanta!AllocQuantum(u)
        PROVE  ~misused
    BY <1>15, Zenon DEF Quanta!AllocQuantum, Quanta!Crash, Quanta!Return, Quanta!callVars
  <1>16. ASSUME NEW u \in Users, Quanta!Load(u, "loadIn", "copyIn")
        PROVE  ~misused
    BY <1>16, Zenon DEF Quanta!Load, Quanta!Crash
  <1>17. ASSUME NEW u \in Users, Quanta!CopyIn(u)
        PROVE  ~misused
    BY <1>17, Zenon DEF Quanta!CopyIn, Quanta!Crash
  <1>18. ASSUME NEW u \in Users, Quanta!TestLength(u)
        PROVE  ~misused
    BY <1>18, Zenon DEF Quanta!TestLength, Quanta!Return
  <1>19. ASSUME NEW u \in Users, Quanta!SetLength(u)
        PROVE  ~misused
    BY <1>19, Zenon DEF Quanta!SetLength, Quanta!Return
  <1>20. CASE UNCHANGED Quanta!vars
    BY <1>20 DEF Quanta!vars
  <1>21. CASE Quanta!sc1_init
    BY <1>21, Zenon DEF Quanta!sc1_init
  <1>22. ASSUME NEW u \in Users, Quanta!EarlyCall(u)
        PROVE  ~misused
    BY <1>22, EarlyIs, Zenon
  <1> QED
    BY <1>1, <1>2, <1>3, <1>4, <1>5, <1>6, <1>7, <1>8, <1>9, <1>10, <1>11, <1>12, <1>13, <1>14,
       <1>15, <1>16, <1>17, <1>18, <1>19, <1>20, <1>21, <1>22
    DEF Quanta!Next, Quanta!User, Quanta!sc1_trim, Quanta!sc1_read, Quanta!sc1_write

\* Who uses the device has opened it when insmod had cleared it; so no call comes too early.
NotEarly ==
    \A u \in Users :
        /\ mode[u] # "closed" => priv[u] = Quanta!DEV /\ Quanta!Cleared
        /\ upc[u] # "zeroQ"

\* So there is no such call of a device that is used as it should be.
LEMMA NoEarly ==
    ASSUME NotEarly, ~misused', NEW u \in Users
    PROVE  ~Quanta!EarlyCall(u)
  <1>1. ~Quanta!CallNothing(u)
    BY DEF NotEarly, Quanta!CallNothing, Quanta!Cleared, Quanta!NULL, Quanta!DEV
  <1>2. ~Quanta!DivideIn(u) /\ ~Quanta!WriteNothing(u) /\ ~Quanta!LoadZero(u)
    BY DEF Quanta!DivideIn, Quanta!WriteNothing, Quanta!LoadZero, Quanta!Early
  <1>3. ~Quanta!DivideOut(u)
    BY DEF NotEarly, Quanta!DivideOut, Quanta!Crash, Quanta!Go
  <1> QED BY <1>1, <1>2, <1>3 DEF Quanta!EarlyCall

\* Types: the steps of insmod, what the files point to, and the history of a read.
Stages == {"register", "kmalloc", "memset", "setQ", "setS", "loaded", "unregister", "gone"}
LookTypes ==
    /\ stage \in Stages /\ priv \in [Users -> {0, Quanta!DEV}]
    /\ asked \in [Users -> Nat] /\ grown \in [Users -> BOOLEAN]

\* A second writer, or somebody who opens the device too early, misuses it.
LEMMA OneWriterStep ==
    ASSUME ModeNames, ModeInv, OneWriter, [Quanta!Next]_Quanta!vars, ~misused'
    PROVE  OneWriter'
  <1> USE DEF ModeNames, ModeInv, OneWriter, Emptying, Fetching, Storing, Ending, Writable,
              Quanta!Go
  <1>1. CASE Quanta!sc1_cleanup
    BY <1>1 DEF Quanta!sc1_cleanup, Quanta!Kfree
  <1>2. ASSUME NEW u \in Users, Quanta!sc1_open(u)
        PROVE  OneWriter'
    BY <1>2 DEF Quanta!sc1_open, Quanta!Others, Quanta!Trimming
  <1>3. ASSUME NEW u \in Users, Quanta!sc1_release(u)
        PROVE  OneWriter'
    BY <1>3 DEF Quanta!sc1_release
  <1>4. ASSUME NEW u \in Users, Quanta!FreeQuanta(u)
        PROVE  OneWriter'
    BY <1>4 DEF Quanta!FreeQuanta, Quanta!Crash, Quanta!Kfree
  <1>5. ASSUME NEW u \in Users, Quanta!FreeSet(u)
        PROVE  OneWriter'
    BY <1>5 DEF Quanta!FreeSet, Quanta!Kfree
  <1>6. ASSUME NEW u \in Users, Quanta!Empty(u)
        PROVE  OneWriter'
    BY <1>6 DEF Quanta!Empty
  <1>7. ASSUME NEW u \in Users, NEW m \in Lengths, Quanta!TestPos(u, m)
        PROVE  OneWriter'
    BY <1>7 DEF Quanta!TestPos
  <1>8. ASSUME NEW u \in Users, Quanta!TestLeft(u) \/ Quanta!SetToLeft(u)
        PROVE  OneWriter'
    BY <1>8 DEF Quanta!TestLeft, Quanta!SetToLeft, Quanta!ToCopy
  <1>9. ASSUME NEW u \in Users, Quanta!Load(u, "loadOut", "copyOut")
        PROVE  OneWriter'
    BY <1>9 DEF Quanta!Load, Quanta!Crash
  <1>10. ASSUME NEW u \in Users, Quanta!CopyOut(u)
        PROVE  OneWriter'
    BY <1>10 DEF Quanta!CopyOut, Quanta!Crash, Quanta!Return
  <1>11. ASSUME NEW u \in Users, NEW m \in Lengths, Quanta!TestSet(u, m)
        PROVE  OneWriter'
    BY <1>11 DEF Quanta!TestSet
  <1>12. ASSUME NEW u \in Users, Quanta!AllocSet(u)
        PROVE  OneWriter'
    BY <1>12 DEF Quanta!AllocSet, Quanta!Return
  <1>13. ASSUME NEW u \in Users, Quanta!ClearSet(u)
        PROVE  OneWriter'
    BY <1>13 DEF Quanta!ClearSet, Quanta!Crash
  <1>14. ASSUME NEW u \in Users, Quanta!TestQuantum(u)
        PROVE  OneWriter'
    BY <1>14 DEF Quanta!TestQuantum, Quanta!Crash
  <1>15. ASSUME NEW u \in Users, Quanta!AllocQuantum(u)
        PROVE  OneWriter'
    BY <1>15 DEF Quanta!AllocQuantum, Quanta!Crash, Quanta!Return
  <1>16. ASSUME NEW u \in Users, Quanta!Load(u, "loadIn", "copyIn")
        PROVE  OneWriter'
    BY <1>16 DEF Quanta!Load, Quanta!Crash
  <1>17. ASSUME NEW u \in Users, Quanta!CopyIn(u)
        PROVE  OneWriter'
    BY <1>17 DEF Quanta!CopyIn, Quanta!Crash
  <1>18. ASSUME NEW u \in Users, Quanta!TestLength(u)
        PROVE  OneWriter'
    BY <1>18 DEF Quanta!TestLength, Quanta!Return
  <1>19. ASSUME NEW u \in Users, Quanta!SetLength(u)
        PROVE  OneWriter'
    BY <1>19 DEF Quanta!SetLength, Quanta!Return
  <1>20. CASE UNCHANGED Quanta!vars
    BY <1>20 DEF Quanta!vars
  <1>21. CASE Quanta!sc1_init
    BY <1>21 DEF Quanta!sc1_init
  <1>22. ASSUME NEW u \in Users, Quanta!EarlyCall(u)
        PROVE  OneWriter'
    <2>1. /\ mode' = mode /\ upc[u] \in {"idle", "zeroQ"}
          /\ \/ upc' = [upc EXCEPT ![u] = "idle"]
             \/ upc' = [upc EXCEPT ![u] = "zeroQ"] /\ mode[u] \in {"O_RDONLY", "O_RDWR"}
      BY <1>22, EarlyIs
    <2> QED BY <2>1
  <1> QED
    BY <1>1, <1>2, <1>3, <1>4, <1>5, <1>6, <1>7, <1>8, <1>9, <1>10, <1>11, <1>12, <1>13, <1>14,
       <1>15, <1>16, <1>17, <1>18, <1>19, <1>20, <1>21, <1>22
    DEF Quanta!Next, Quanta!User, Quanta!sc1_trim, Quanta!sc1_read, Quanta!sc1_write

\* What insmod has done, what the files point to, and what reads have seen, keep their types.
LEMMA LookTypesStep ==
    ASSUME LookTypes, [Quanta!Next]_Quanta!vars
    PROVE  LookTypes'
  <1>l. Lengths \subseteq Nat
    BY QuantaAssumption
  <1> USE DEF LookTypes, Stages, Quanta!history, Quanta!looks, Quanta!NULL
  <1>1. CASE Quanta!sc1_cleanup
    BY <1>1 DEF Quanta!sc1_cleanup, Quanta!Kfree
  <1>2. ASSUME NEW u \in Users, Quanta!sc1_open(u)
        PROVE  LookTypes'
    BY <1>2 DEF Quanta!sc1_open, Quanta!Others, Quanta!Trimming
  <1>3. ASSUME NEW u \in Users, Quanta!sc1_release(u)
        PROVE  LookTypes'
    BY <1>3 DEF Quanta!sc1_release
  <1>4. ASSUME NEW u \in Users, Quanta!FreeQuanta(u)
        PROVE  LookTypes'
    BY <1>4 DEF Quanta!FreeQuanta, Quanta!Crash, Quanta!Kfree
  <1>5. ASSUME NEW u \in Users, Quanta!FreeSet(u)
        PROVE  LookTypes'
    BY <1>5 DEF Quanta!FreeSet, Quanta!Kfree
  <1>6. ASSUME NEW u \in Users, Quanta!Empty(u)
        PROVE  LookTypes'
    BY <1>6 DEF Quanta!Empty
  <1>7. ASSUME NEW u \in Users, NEW m \in Lengths, Quanta!TestPos(u, m)
        PROVE  LookTypes'
    BY <1>7, <1>l DEF Quanta!TestPos
  <1>8. ASSUME NEW u \in Users, Quanta!TestLeft(u) \/ Quanta!SetToLeft(u)
        PROVE  LookTypes'
    BY <1>8 DEF Quanta!TestLeft, Quanta!SetToLeft, Quanta!ToCopy
  <1>9. ASSUME NEW u \in Users, Quanta!Load(u, "loadOut", "copyOut")
        PROVE  LookTypes'
    BY <1>9 DEF Quanta!Load, Quanta!Crash
  <1>10. ASSUME NEW u \in Users, Quanta!CopyOut(u)
        PROVE  LookTypes'
    <2>1. CASE Quanta!Crash(u, "copyOut")
      BY <2>1 DEF Quanta!Crash
    <2>2. CASE ~Quanta!Crash(u, "copyOut")
      <3>1. /\ asked' = [asked EXCEPT ![u] = 0] /\ grown' = [grown EXCEPT ![u] = FALSE]
            /\ UNCHANGED <<stage, priv>>
        BY <1>10, <2>2, Zenon DEF Quanta!CopyOut, Quanta!Return
      <3> QED BY <3>1
    <2> QED BY <2>1, <2>2
  <1>11. ASSUME NEW u \in Users, NEW m \in Lengths, Quanta!TestSet(u, m)
        PROVE  LookTypes'
    BY <1>11 DEF Quanta!TestSet
  <1>12. ASSUME NEW u \in Users, Quanta!AllocSet(u)
        PROVE  LookTypes'
    BY <1>12 DEF Quanta!AllocSet, Quanta!Return
  <1>13. ASSUME NEW u \in Users, Quanta!ClearSet(u)
        PROVE  LookTypes'
    BY <1>13 DEF Quanta!ClearSet, Quanta!Crash
  <1>14. ASSUME NEW u \in Users, Quanta!TestQuantum(u)
        PROVE  LookTypes'
    BY <1>14 DEF Quanta!TestQuantum, Quanta!Crash
  <1>15. ASSUME NEW u \in Users, Quanta!AllocQuantum(u)
        PROVE  LookTypes'
    BY <1>15 DEF Quanta!AllocQuantum, Quanta!Crash, Quanta!Return
  <1>16. ASSUME NEW u \in Users, Quanta!Load(u, "loadIn", "copyIn")
        PROVE  LookTypes'
    BY <1>16 DEF Quanta!Load, Quanta!Crash
  <1>17. ASSUME NEW u \in Users, Quanta!CopyIn(u)
        PROVE  LookTypes'
    BY <1>17 DEF Quanta!CopyIn, Quanta!Crash
  <1>18. ASSUME NEW u \in Users, Quanta!TestLength(u)
        PROVE  LookTypes'
    BY <1>18 DEF Quanta!TestLength, Quanta!Return
  <1>19. ASSUME NEW u \in Users, Quanta!SetLength(u)
        PROVE  LookTypes'
    BY <1>19 DEF Quanta!SetLength, Quanta!Return
  <1>20. CASE UNCHANGED Quanta!vars
    BY <1>20 DEF Quanta!vars
  <1>21. CASE Quanta!sc1_init
    BY <1>21 DEF Quanta!sc1_init, Quanta!InitSteps
  <1>22. ASSUME NEW u \in Users, Quanta!EarlyCall(u)
        PROVE  LookTypes'
    BY <1>22, EarlyIs
  <1> QED
    BY <1>1, <1>2, <1>3, <1>4, <1>5, <1>6, <1>7, <1>8, <1>9, <1>10, <1>11, <1>12, <1>13, <1>14,
       <1>15, <1>16, <1>17, <1>18, <1>19, <1>20, <1>21, <1>22
    DEF Quanta!Next, Quanta!User, Quanta!sc1_trim, Quanta!sc1_read, Quanta!sc1_write

\* A device that is used as it should be is opened after insmod has cleared it.
LEMMA NotEarlyStep ==
    ASSUME ModeNames, ModeInv, LookTypes, NotEarly, [Quanta!Next]_Quanta!vars, ~misused'
    PROVE  NotEarly'
  <1> USE DEF ModeNames, ModeInv, LookTypes, NotEarly, Emptying, Fetching, Storing, Ending,
              Quanta!Go, Quanta!Cleared
  <1>1. CASE Quanta!sc1_cleanup
    BY <1>1 DEF Quanta!sc1_cleanup, Quanta!Kfree
  <1>2. ASSUME NEW u \in Users, Quanta!sc1_open(u)
        PROVE  NotEarly'
    BY <1>2 DEF Quanta!sc1_open, Quanta!Cleared, Quanta!NoDev
  <1>3. ASSUME NEW u \in Users, Quanta!sc1_release(u)
        PROVE  NotEarly'
    BY <1>3 DEF Quanta!sc1_release
  <1>4. ASSUME NEW u \in Users, Quanta!FreeQuanta(u)
        PROVE  NotEarly'
    BY <1>4 DEF Quanta!FreeQuanta, Quanta!Crash, Quanta!Kfree
  <1>5. ASSUME NEW u \in Users, Quanta!FreeSet(u)
        PROVE  NotEarly'
    BY <1>5 DEF Quanta!FreeSet, Quanta!Kfree
  <1>6. ASSUME NEW u \in Users, Quanta!Empty(u)
        PROVE  NotEarly'
    BY <1>6 DEF Quanta!Empty
  <1>7. ASSUME NEW u \in Users, NEW m \in Lengths, Quanta!TestPos(u, m)
        PROVE  NotEarly'
    BY <1>7 DEF Quanta!TestPos
  <1>8. ASSUME NEW u \in Users, Quanta!TestLeft(u) \/ Quanta!SetToLeft(u)
        PROVE  NotEarly'
    BY <1>8 DEF Quanta!TestLeft, Quanta!SetToLeft, Quanta!ToCopy
  <1>9. ASSUME NEW u \in Users, Quanta!Load(u, "loadOut", "copyOut")
        PROVE  NotEarly'
    BY <1>9 DEF Quanta!Load, Quanta!Crash
  <1>10. ASSUME NEW u \in Users, Quanta!CopyOut(u)
        PROVE  NotEarly'
    BY <1>10 DEF Quanta!CopyOut, Quanta!Crash, Quanta!Return
  <1>11. ASSUME NEW u \in Users, NEW m \in Lengths, Quanta!TestSet(u, m)
        PROVE  NotEarly'
    BY <1>11 DEF Quanta!TestSet
  <1>12. ASSUME NEW u \in Users, Quanta!AllocSet(u)
        PROVE  NotEarly'
    BY <1>12 DEF Quanta!AllocSet, Quanta!Return
  <1>13. ASSUME NEW u \in Users, Quanta!ClearSet(u)
        PROVE  NotEarly'
    BY <1>13 DEF Quanta!ClearSet, Quanta!Crash
  <1>14. ASSUME NEW u \in Users, Quanta!TestQuantum(u)
        PROVE  NotEarly'
    BY <1>14 DEF Quanta!TestQuantum, Quanta!Crash
  <1>15. ASSUME NEW u \in Users, Quanta!AllocQuantum(u)
        PROVE  NotEarly'
    BY <1>15 DEF Quanta!AllocQuantum, Quanta!Crash, Quanta!Return
  <1>16. ASSUME NEW u \in Users, Quanta!Load(u, "loadIn", "copyIn")
        PROVE  NotEarly'
    BY <1>16 DEF Quanta!Load, Quanta!Crash
  <1>17. ASSUME NEW u \in Users, Quanta!CopyIn(u)
        PROVE  NotEarly'
    BY <1>17 DEF Quanta!CopyIn, Quanta!Crash
  <1>18. ASSUME NEW u \in Users, Quanta!TestLength(u)
        PROVE  NotEarly'
    BY <1>18 DEF Quanta!TestLength, Quanta!Return
  <1>19. ASSUME NEW u \in Users, Quanta!SetLength(u)
        PROVE  NotEarly'
    BY <1>19 DEF Quanta!SetLength, Quanta!Return
  <1>20. CASE UNCHANGED Quanta!vars
    BY <1>20 DEF Quanta!vars
  <1>21. CASE Quanta!sc1_init
    BY <1>21 DEF Quanta!sc1_init, Quanta!InitSteps
  <1>22. ASSUME NEW u \in Users, Quanta!EarlyCall(u)
        PROVE  NotEarly'
    BY <1>22, NoEarly
  <1> QED
    BY <1>1, <1>2, <1>3, <1>4, <1>5, <1>6, <1>7, <1>8, <1>9, <1>10, <1>11, <1>12, <1>13, <1>14,
       <1>15, <1>16, <1>17, <1>18, <1>19, <1>20, <1>21, <1>22
    DEF Quanta!Next, Quanta!User, Quanta!sc1_trim, Quanta!sc1_read, Quanta!sc1_write

\* Who writes or empties the device has nobody beside it who does.
LEMMA Alone ==
    ASSUME ModeNames, ModeInv, OneWriter, NotEarly, NEW u \in Users, NEW v \in Users \ {u}
    PROVE  /\ upc[u] \in Storing \cup Ending =>
                /\ upc[v] \in {"idle"} \cup Fetching /\ mode[v] \in {"closed", "O_RDONLY"}
           /\ upc[u] \in Emptying => upc[v] = "idle" /\ mode[v] = "closed"
           /\ upc[u] # "idle" => upc[v] \notin Emptying
  BY DEF ModeNames, ModeInv, OneWriter, NotEarly, Emptying, Fetching, Storing, Ending, Writable

-----------------------------------------------------------------------------
(* The blocks *)

\* What each step of a call has found, or has put, into the device.
StepShape(u) ==
    /\ upc[u] = "freeSet" => Quanta!IsSet(set)
    /\ upc[u] \in {"empty", "allocSet"} => set = 0
    /\ upc[u] = "clearSet" => set # 0 /\ ~Quanta!IsSet(set)
    /\ upc[u] \in Storing \ {"allocSet", "clearSet"} => Quanta!IsSet(set)
    /\ upc[u] = "allocQuantum" => block[set].slot[Row(Q, at[u])] = 0
    /\ upc[u] \in {"loadIn", "copyIn"} => block[set].slot[Row(Q, at[u])] # 0
    /\ upc[u] = "copyIn" => ptr[u] = block[set].slot[Row(Q, at[u])]

\* The quanta are free and the array is not yet.
Freeing == \E u \in Users : upc[u] = "freeSet"

\* No two slots hold one block, which holds bytes, or is the one that a write is about to
\* fill; and no block is given to anything else.
SlotsInv ==
    Quanta!IsSet(set) /\ ~Freeing =>
        /\ \A i, j \in 0..S-1 :
             block[set].slot[i] # 0 /\ block[set].slot[i] = block[set].slot[j] => i = j
        /\ \A i \in 0..S-1 : block[set].slot[i] # 0 =>
             \/ block[block[set].slot[i]].kind = "quantum"
             \/ /\ block[block[set].slot[i]] = Quanta!Junk
                /\ \E u \in Users : upc[u] \in {"loadIn", "copyIn"} /\ Row(Q, at[u]) = i
        /\ \A b \in Blocks \ {set} : block[b] # Quanta!Free =>
             \E i \in 0..S-1 : block[set].slot[i] = b

\* An array that is missing, that is not yet cleared, or whose quanta are freed, has none.
BareInv ==
    /\ set = 0 => \A b \in Blocks : block[b] = Quanta!Free
    /\ set # 0 /\ ~Quanta!IsSet(set) =>
         block[set] = Quanta!Junk /\ \E u \in Users : upc[u] = "clearSet"
    /\ set # 0 /\ (Freeing \/ ~Quanta!IsSet(set)) =>
         \A b \in Blocks \ {set} : block[b] = Quanta!Free

\* The blocks as they should be.
ShapeInv == (\A u \in Users : StepShape(u)) /\ SlotsInv /\ BareInv

-----------------------------------------------------------------------------
(* The bytes *)

\* The smaller of two numbers.
Lesser(a, b) == IF a <= b THEN a ELSE b

\* How much of what was reported as written there is room for.
Kept == Lesser(Len(told), Room(Q, S))

\* The size is how much is kept, but for a write that has moved its position and has not yet
\* set the size; positions are inside what was reported.
SizeInv ==
    /\ length <= Kept
    /\ (\A u \in Users : upc[u] \notin Ending) => length = Kept
    /\ \A u \in Users :
         /\ upc[u] \in Ending => Kept = IF length <= at[u] THEN at[u] ELSE length
         /\ upc[u] = "setLength" => length < at[u]
         /\ at[u] <= Len(told) /\ (mode[u] \notin Writable => at[u] <= length)
         /\ mode[u] = "closed" \/ upc[u] \in Emptying => at[u] = 0

\* Byte i, counted from 0, is in the device.
Holds(i) ==
    /\ Quanta!IsSet(set) /\ block[set].slot[Row(Q, i)] # 0
    /\ block[block[set].slot[Row(Q, i)]].kind = "quantum"
    /\ block[block[set].slot[Row(Q, i)]].byte[Col(Q, i)] = told[i + 1]

\* The device holds what it keeps, unless it is being emptied.
DataInv ==
    (\A u \in Users : upc[u] \notin {"freeSet", "empty"}) =>
        \A i \in Nat : i < Kept => Holds(i)

\* A read has something to read, and what it copies is in the quantum it has loaded.
FetchShape(u) ==
    /\ upc[u] \in Fetching => at[u] < length
    /\ upc[u] \in {"loadOut", "copyOut"} => at[u] + n[u] <= length
    /\ upc[u] = "copyOut" => ptr[u] # 0 /\ ptr[u] = block[set].slot[Row(Q, at[u])]

\* Every read is so.
FetchInv == \A u \in Users : FetchShape(u)

\* A read asks the device for what it was called for, or for less, unless the file has grown
\* between its looks at the size.
LookShape(u) ==
    /\ upc[u] = "testLeft" => n[u] = asked[u]
    /\ upc[u] = "lower" => n[u] = asked[u] /\ (length < at[u] + asked[u] \/ grown[u])
    /\ upc[u] \in {"loadOut", "copyOut"} => n[u] <= asked[u] \/ grown[u]

\* Every read does so.
LookInv == \A u \in Users : LookShape(u)

\* What holds of every device; what holds of one that is not misused; the invariant.
Base == ModeNames /\ ModeInv /\ Amounts /\ BlocksOK /\ ToldOK /\ PlaceInv /\ LookTypes
Core ==
    ~bad /\ OneWriter /\ NotEarly /\ ShapeInv /\ SizeInv /\ DataInv /\ FetchInv /\ LookInv
QuantaInv == FlagTypes /\ <<Q, S>> \in Geometries /\ Base /\ (~misused => Core)
-----------------------------------------------------------------------------
(* No step goes wrong *)

\* How much is kept is a number, and no more than was reported or than there is room for.
LEMMA KeptIs ==
    ASSUME Amounts, ToldOK
    PROVE  /\ Kept \in Nat /\ Kept <= Len(told) /\ Kept <= Room(Q, S)
           /\ Len(told) \in Nat /\ Room(Q, S) \in Nat
  <1>1. Len(told) \in Nat
    BY LenProperties DEF ToldOK
  <1>2. Room(Q, S) \in Nat
    BY Positions
  <1> QED BY <1>1, <1>2 DEF Kept, Lesser

\* Where byte i of the device is.
LEMMA PlaceIn ==
    ASSUME Amounts, BlocksOK
    PROVE  /\ \A i \in Nat : i < Room(Q, S) => Row(Q, i) \in 0..S-1 /\ Col(Q, i) \in 0..Q-1
           /\ Quanta!IsSet(set) => \A i \in 0..S-1 : block[set].slot[i] \in Blocks \cup {0}
  <1>1. \A i \in Nat : i < Room(Q, S) => Row(Q, i) \in 0..S-1 /\ Col(Q, i) \in 0..Q-1
    BY PlaceOf, RowInside DEF Amounts
  <1>2. Quanta!IsSet(set) => \A i \in 0..S-1 : block[set].slot[i] \in Blocks \cup {0}
    BY SlotIs
  <1> QED BY <1>1, <1>2

\* A write is inside the device, and nobody frees its array.
LEMMA InSlot ==
    ASSUME Base, Core, NEW u \in Users, upc[u] \in Storing
    PROVE  at[u] \in Nat /\ at[u] < Room(Q, S) /\ Row(Q, at[u]) \in 0..S-1 /\ ~Freeing
  <1>1. at[u] < Room(Q, S)
    BY DEF Base, PlaceInv
  <1>2. at[u] \in Nat
    BY Positions DEF Base, Amounts
  <1>3. Row(Q, at[u]) \in 0..S-1
    BY <1>1, <1>2, PlaceIn DEF Base
  <1>4. ASSUME NEW v \in Users, upc[v] = "freeSet" PROVE FALSE
    <2>1. v # u /\ upc[u] # "idle" /\ upc[v] \in Emptying
      BY <1>4 DEF Storing, Emptying
    <2> QED BY <2>1, Alone DEF Base, Core
  <1> QED BY <1>1, <1>2, <1>3, <1>4 DEF Freeing

\* A read is inside what the device holds, and nobody frees it.
LEMMA InData ==
    ASSUME Base, Core, NEW u \in Users, upc[u] \in Fetching
    PROVE  /\ at[u] \in Nat /\ at[u] < Room(Q, S) /\ Row(Q, at[u]) \in 0..S-1 /\ ~Freeing
           /\ \A i \in Nat : i < Kept => Holds(i)
           /\ Holds(at[u])
  <1>1. at[u] < Room(Q, S)
    BY DEF Base, PlaceInv
  <1>2. at[u] \in Nat
    BY Positions DEF Base, Amounts
  <1>3. Row(Q, at[u]) \in 0..S-1
    BY <1>1, <1>2, PlaceIn DEF Base
  <1>4. \A v \in Users : upc[v] \notin Emptying
    <2>1. \A v \in Users \ {u} : upc[v] \notin Emptying
      <3>1. upc[u] # "idle"
        BY DEF Fetching
      <3> QED BY <3>1, Alone DEF Base, Core
    <2> QED BY <2>1 DEF Fetching, Emptying
  <1>5. \A i \in Nat : i < Kept => Holds(i)
    BY <1>4 DEF Core, DataInv, Emptying
  <1>6. at[u] < Kept
    <2>1. at[u] < length /\ length <= Kept
      BY DEF Core, FetchInv, FetchShape, SizeInv
    <2>2. length \in Nat /\ Kept \in Nat
      BY KeptIs DEF Base, Amounts
    <2> QED BY <1>2, <2>1, <2>2
  <1> QED BY <1>1, <1>2, <1>3, <1>4, <1>5, <1>6 DEF Freeing, Emptying

\* No step finds a pointer that is NULL, or a block that is free or not an array.
LEMMA NoCrash ==
    ASSUME Base, Core, NEW u \in Users
    PROVE  /\ upc[u] = "freeQuanta" =>
                /\ Quanta!Cleared /\ priv[u] # 0
                /\ set = 0 \/ Quanta!IsSet(set)
                /\ Quanta!IsSet(set) => ~\E b \in Quanta!Quanta : Quanta!IsFreed(b)
           /\ upc[u] \in {"loadOut", "testQuantum", "allocQuantum", "loadIn"} => Quanta!IsSet(set)
           /\ upc[u] = "clearSet" => Quanta!IsMemory(set)
           /\ upc[u] \in {"copyOut", "copyIn"} => Quanta!IsMemory(ptr[u])
  <1> USE KindsOf
  <1>1. ASSUME upc[u] = "freeQuanta"
        PROVE  /\ Quanta!Cleared /\ priv[u] # 0
               /\ set = 0 \/ Quanta!IsSet(set)
               /\ Quanta!IsSet(set) => ~\E b \in Quanta!Quanta : Quanta!IsFreed(b)
    <2>1. \A v \in Users : upc[v] \in {"idle", "freeQuanta"}
      BY <1>1, Alone DEF Base, Core, Emptying
    <2>2. set = 0 \/ Quanta!IsSet(set)
      BY <2>1 DEF Core, ShapeInv, BareInv
    <2>3. ASSUME Quanta!IsSet(set), NEW b \in Quanta!Quanta PROVE ~Quanta!IsFreed(b)
      <3>1. PICK i \in 0..S-1 : b = block[set].slot[i] /\ b # 0
        BY DEF Quanta!Quanta, Quanta!NULL
      <3>2. ~Freeing
        BY <2>1 DEF Freeing
      <3>3. block[b].kind = "quantum" \/ block[b] = Quanta!Junk
        BY <2>3, <3>1, <3>2 DEF Core, ShapeInv, SlotsInv
      <3> QED BY <3>1, <3>3 DEF Quanta!IsFreed, Quanta!NULL
    <2>4. mode[u] # "closed"
      BY <1>1 DEF Base, ModeInv
    <2>5. Quanta!Cleared /\ priv[u] # 0
      BY <2>4 DEF Core, NotEarly, Quanta!DEV
    <2> QED BY <2>2, <2>3, <2>5
  <1>2. upc[u] \in {"testQuantum", "allocQuantum", "loadIn"} => Quanta!IsSet(set)
    BY DEF Core, ShapeInv, StepShape, Storing
  <1>3. upc[u] = "loadOut" => Quanta!IsSet(set)
    BY InData DEF Holds, Fetching
  <1>4. upc[u] = "clearSet" => Quanta!IsMemory(set)
    BY DEF Core, ShapeInv, StepShape, BareInv, Quanta!IsMemory, Quanta!IsFreed, Quanta!NULL
  <1>5. ASSUME upc[u] = "copyOut" PROVE Quanta!IsMemory(ptr[u])
    <2>1. Holds(at[u])
      BY <1>5, InData DEF Fetching
    <2>2. ptr[u] # 0 /\ ptr[u] = block[set].slot[Row(Q, at[u])]
      BY <1>5 DEF Core, FetchInv, FetchShape
    <2> QED BY <2>1, <2>2 DEF Holds, Quanta!IsMemory, Quanta!IsFreed, Quanta!NULL
  <1>6. ASSUME upc[u] = "copyIn" PROVE Quanta!IsMemory(ptr[u])
    <2>1. Row(Q, at[u]) \in 0..S-1 /\ ~Freeing
      BY <1>6, InSlot DEF Storing
    <2>2. /\ Quanta!IsSet(set) /\ ptr[u] = block[set].slot[Row(Q, at[u])]
          /\ block[set].slot[Row(Q, at[u])] # 0
      BY <1>6 DEF Core, ShapeInv, StepShape, Storing
    <2>3. block[ptr[u]].kind = "quantum" \/ block[ptr[u]] = Quanta!Junk
      BY <2>1, <2>2 DEF Core, ShapeInv, SlotsInv
    <2> QED BY <2>2, <2>3 DEF Quanta!IsMemory, Quanta!IsFreed, Quanta!NULL
  <1> QED BY <1>1, <1>2, <1>3, <1>4, <1>5, <1>6
-----------------------------------------------------------------------------
(* The blocks stay in shape *)

\* A step of u that leaves the blocks alone.
LEMMA QuietShape ==
    ASSUME Base, Core, UNCHANGED <<Q, S, set, block>>, NEW u \in Users, NEW to,
           upc' = [upc EXCEPT ![u] = to],
           upc[u] \notin {"freeSet", "clearSet"}, to # "freeSet",
           \A v \in Users \ {u} : at'[v] = at[v] /\ ptr'[v] = ptr[v],
           upc[u] \in {"loadIn", "copyIn"} => to \in {"loadIn", "copyIn"} /\ at'[u] = at[u],
           StepShape(u)'
    PROVE  ShapeInv'
  <1>1. \A v \in Users : upc'[v] = IF v = u THEN to ELSE upc[v]
    BY DEF Base, ModeNames
  <1>2. Freeing' <=> Freeing
    BY <1>1 DEF Freeing
  <1>3. Quanta!IsSet(set)' <=> Quanta!IsSet(set)
    BY DEF Quanta!IsSet, Quanta!NULL
  <1>4. ASSUME NEW v \in Users \ {u} PROVE StepShape(v)'
    <2>1. StepShape(v) /\ upc'[v] = upc[v] /\ at'[v] = at[v] /\ ptr'[v] = ptr[v]
      BY <1>1 DEF Core, ShapeInv
    <2> QED BY <2>1, <1>3 DEF StepShape
  <1>5. SlotsInv'
    <2> SUFFICES ASSUME Quanta!IsSet(set), ~Freeing PROVE SlotsInv'
      BY <1>2, <1>3 DEF SlotsInv
    <2>1. \A i \in 0..S-1 :
            (\E v \in Users : upc[v] \in {"loadIn", "copyIn"} /\ Row(Q, at[v]) = i) =>
            (\E v \in Users : upc'[v] \in {"loadIn", "copyIn"} /\ Row(Q, at'[v]) = i)
      BY <1>1
    <2>2. SlotsInv
      BY DEF Core, ShapeInv
    <2> QED BY <2>1, <2>2 DEF SlotsInv
  <1>6. BareInv'
    <2>1. (\E v \in Users : upc[v] = "clearSet") => \E v \in Users : upc'[v] = "clearSet"
      BY <1>1
    <2>2. BareInv
      BY DEF Core, ShapeInv
    <2> QED BY <1>2, <1>3, <2>1, <2>2 DEF BareInv
  <1> QED BY <1>4, <1>5, <1>6 DEF ShapeInv

\* Who is not in a call that changes the device has found nothing that could change.
LEMMA Beside ==
    ASSUME Base, Core, NEW u \in Users, upc[u] \in Emptying \cup Storing \cup Ending,
           NEW to, upc' = [upc EXCEPT ![u] = to]
    PROVE  /\ \A v \in Users \ {u} :
                upc'[v] = upc[v] /\ upc[v] \in {"idle"} \cup Fetching /\ StepShape(v)'
           /\ upc'[u] = to
  <1>1. ASSUME NEW v \in Users \ {u} PROVE upc'[v] = upc[v] /\ upc[v] \in {"idle"} \cup Fetching
    BY Alone DEF Base, Core, ModeNames
  <1>2. upc'[u] = to
    BY DEF Base, ModeNames
  <1>3. ASSUME NEW v \in Users \ {u} PROVE StepShape(v)'
    BY <1>1 DEF StepShape, Storing, Fetching
  <1> QED BY <1>1, <1>2, <1>3

\* The blocks stay in shape.
LEMMA ShapeStep ==
    ASSUME Base, Core, [Quanta!Next]_Quanta!vars, ~misused'
    PROVE  ShapeInv'
  <1>k. Quanta!Free.kind = "free" /\ Quanta!Junk.kind = "junk"
    BY KindsOf
  <1>z. 0 \notin Blocks
    BY QuantaAssumption
  <1>u. \A u \in Users : \A to : upc' = [upc EXCEPT ![u] = to] => upc'[u] = to
    BY DEF Base, ModeNames
  <1>i. (\A u \in Users : StepShape(u)) /\ SlotsInv /\ BareInv
    BY DEF Core, ShapeInv
  <1> USE DEF Quanta!Go, Quanta!history, Quanta!looks
  <1>1. CASE Quanta!sc1_cleanup
    <2>1. \A u \in Users : upc[u] = "idle" /\ upc'[u] = "idle"
      BY <1>1 DEF Quanta!sc1_cleanup, Base, ModeInv
    <2>2. \A u \in Users : StepShape(u)'
      BY <2>1 DEF StepShape, Storing
    <2>3. ~Freeing
      BY <2>1 DEF Freeing
    <2>4. set = 0 \/ Quanta!IsSet(set)
      BY <2>1, <1>i DEF BareInv
    <2>5. set' = 0
      BY <1>1 DEF Quanta!sc1_cleanup, Quanta!NULL
    <2>6. \A b \in Blocks : block'[b] = Quanta!Free
      <3>1. CASE set = 0
        <4>1. block' = block
          BY <1>1, <3>1 DEF Quanta!sc1_cleanup, Quanta!NULL
        <4> QED BY <1>i, <3>1, <4>1 DEF BareInv
      <3>2. CASE Quanta!IsSet(set)
        <4>1. block' = Quanta!Kfree(Quanta!Quanta \cup {set}) /\ set # 0
          BY <1>1, <3>2 DEF Quanta!sc1_cleanup, Quanta!NULL, Quanta!IsSet
        <4>2. \A b \in Blocks \ {set} : block[b] # Quanta!Free => b \in Quanta!Quanta
          BY <1>i, <1>z, <2>3, <3>2 DEF SlotsInv, Quanta!Quanta, Quanta!NULL
        <4> QED BY <4>1, <4>2 DEF Quanta!Kfree
      <3> QED BY <2>4, <3>1, <3>2
    <2>7. SlotsInv' /\ BareInv'
      BY <2>5, <2>6 DEF SlotsInv, BareInv, Quanta!IsSet, Quanta!NULL
    <2> QED BY <2>2, <2>7 DEF ShapeInv
  <1>2. ASSUME NEW u \in Users, Quanta!sc1_open(u)
        PROVE  ShapeInv'
    <2>1. /\ UNCHANGED <<Q, S, set, block, at, ptr>> /\ upc[u] = "idle"
          /\ \E to \in {"idle", "freeQuanta"} : upc' = [upc EXCEPT ![u] = to]
      BY <1>2 DEF Quanta!sc1_open, Quanta!storeVars, Quanta!callVars
    <2>2. StepShape(u)'
      BY <2>1, <1>u DEF StepShape, Storing
    <2> QED BY <2>1, <2>2, QuietShape
  <1>3. ASSUME NEW u \in Users, Quanta!sc1_release(u)
        PROVE  ShapeInv'
    <2>1. /\ UNCHANGED <<Q, S, set, block, ptr>> /\ upc[u] = "idle"
          /\ upc' = [upc EXCEPT ![u] = "idle"] /\ at' = [at EXCEPT ![u] = 0]
      BY <1>3 DEF Quanta!sc1_release, Quanta!storeVars
    <2>2. StepShape(u)' /\ \A v \in Users \ {u} : at'[v] = at[v]
      BY <2>1, <1>u DEF StepShape, Storing, Base, Amounts
    <2> QED BY <2>1, <2>2, QuietShape
  <1>4. ASSUME NEW u \in Users, Quanta!FreeQuanta(u)
        PROVE  ShapeInv'
    <2>1. upc[u] = "freeQuanta"
      BY <1>4 DEF Quanta!FreeQuanta, Quanta!Crash
    <2>2. CASE set = 0
      <3>1. /\ UNCHANGED <<Q, S, set, block, at, ptr>> /\ upc' = [upc EXCEPT ![u] = "empty"]
        BY <1>4, <2>1, <2>2, NoCrash DEF Quanta!FreeQuanta, Quanta!IsSet, Quanta!NULL,
           Quanta!storeVars, Quanta!callVars
      <3>2. StepShape(u)'
        BY <2>2, <3>1, <1>u DEF StepShape, Storing
      <3> QED BY <2>1, <3>1, <3>2, QuietShape
    <2>3. CASE set # 0
      <3>1. Quanta!IsSet(set) /\ ~\E b \in Quanta!Quanta : Quanta!IsFreed(b)
        BY <2>1, <2>3, NoCrash
      <3>2. /\ upc' = [upc EXCEPT ![u] = "freeSet"] /\ block' = Quanta!Kfree(Quanta!Quanta)
            /\ UNCHANGED <<Q, S, set>>
        BY <1>4, <2>1, <2>3, <3>1, NoCrash DEF Quanta!FreeQuanta, Quanta!NULL
      <3>3. \A v \in Users \ {u} : upc'[v] = upc[v] /\ upc[v] = "idle" /\ StepShape(v)'
        BY <2>1, <3>2, Beside, Alone DEF Base, Core, Emptying
      <3>4. ~Freeing /\ Freeing'
        BY <2>1, <3>2, <3>3, <1>u DEF Freeing
      <3>5. set \notin Quanta!Quanta
        BY <1>i, <1>k, <3>1, <3>4 DEF SlotsInv, Quanta!Quanta, Quanta!IsSet, Quanta!NULL
      <3>6. block'[set] = block[set]
        BY <3>1, <3>2, <3>5, SlotIs DEF Quanta!Kfree, Base
      <3>7. Quanta!IsSet(set)'
        BY <3>1, <3>2, <3>6 DEF Quanta!IsSet, Quanta!NULL
      <3>8. \A b \in Blocks \ {set} : block[b] # Quanta!Free => b \in Quanta!Quanta
        BY <1>i, <1>z, <3>1, <3>4 DEF SlotsInv, Quanta!Quanta, Quanta!NULL
      <3>9. \A b \in Blocks \ {set} : block'[b] = Quanta!Free
        BY <3>2, <3>8 DEF Quanta!Kfree
      <3>10. SlotsInv' /\ BareInv'
        BY <3>2, <3>4, <3>7, <3>9 DEF SlotsInv, BareInv, Quanta!IsSet, Quanta!NULL
      <3>11. StepShape(u)'
        BY <3>2, <3>7, <1>u DEF StepShape, Storing
      <3> QED BY <3>3, <3>10, <3>11 DEF ShapeInv
    <2> QED BY <2>2, <2>3
  <1>5. ASSUME NEW u \in Users, Quanta!FreeSet(u)
        PROVE  ShapeInv'
    <2>1. /\ upc[u] = "freeSet" /\ upc' = [upc EXCEPT ![u] = "empty"]
          /\ block' = Quanta!Kfree({set}) /\ set' = 0
      BY <1>5 DEF Quanta!FreeSet, Quanta!NULL
    <2>2. set # 0 /\ \A b \in Blocks \ {set} : block[b] = Quanta!Free
      BY <2>1, <1>i DEF StepShape, BareInv, Freeing, Quanta!IsSet, Quanta!NULL
    <2>3. \A b \in Blocks : block'[b] = Quanta!Free
      BY <2>1, <2>2 DEF Quanta!Kfree
    <2>4. \A v \in Users \ {u} : StepShape(v)'
      BY <2>1, Beside DEF Emptying
    <2>5. StepShape(u)'
      BY <2>1, <1>u DEF StepShape, Storing
    <2>6. SlotsInv' /\ BareInv'
      BY <2>1, <2>3 DEF SlotsInv, BareInv, Quanta!IsSet, Quanta!NULL
    <2> QED BY <2>4, <2>5, <2>6 DEF ShapeInv
  <1>6. ASSUME NEW u \in Users, Quanta!Empty(u)
        PROVE  ShapeInv'
    <2>1. /\ UNCHANGED <<Q, S, set, block, at, ptr>> /\ upc[u] = "empty"
          /\ upc' = [upc EXCEPT ![u] = "idle"]
      BY <1>6 DEF Quanta!Empty, Quanta!storeVars, Quanta!callVars
    <2>2. StepShape(u)'
      BY <2>1, <1>u DEF StepShape, Storing
    <2> QED BY <2>1, <2>2, QuietShape
  <1>7. ASSUME NEW u \in Users, NEW m \in Lengths, Quanta!TestPos(u, m)
        PROVE  ShapeInv'
    <2>1. /\ UNCHANGED <<Q, S, set, block, at, ptr>> /\ upc[u] = "idle"
          /\ upc' = [upc EXCEPT ![u] = "testLeft"]
      BY <1>7 DEF Quanta!TestPos, Quanta!storeVars, Quanta!callVars
    <2>2. StepShape(u)'
      BY <2>1, <1>u DEF StepShape, Storing
    <2> QED BY <2>1, <2>2, QuietShape
  <1>8. ASSUME NEW u \in Users, Quanta!TestLeft(u) \/ Quanta!SetToLeft(u)
        PROVE  ShapeInv'
    <2>1. /\ UNCHANGED <<Q, S, set, block, at, ptr>> /\ upc[u] \in {"testLeft", "lower"}
          /\ \E to \in {"lower", "loadOut"} : upc' = [upc EXCEPT ![u] = to]
      BY <1>8, LooksAre DEF Base
    <2>2. StepShape(u)'
      BY <2>1, <1>u DEF StepShape, Storing
    <2> QED BY <2>1, <2>2, QuietShape
  <1>9. ASSUME NEW u \in Users, Quanta!Load(u, "loadOut", "copyOut")
        PROVE  ShapeInv'
    <2>1. upc[u] = "loadOut"
      BY <1>9 DEF Quanta!Load, Quanta!Crash
    <2>2. /\ UNCHANGED <<Q, S, set, block, at>> /\ upc' = [upc EXCEPT ![u] = "copyOut"]
          /\ ptr' = [ptr EXCEPT ![u] = block[set].slot[Quanta!s_pos(u)]]
      BY <1>9, <2>1, NoCrash DEF Quanta!Load, Quanta!storeVars
    <2>3. StepShape(u)' /\ \A v \in Users \ {u} : ptr'[v] = ptr[v]
      BY <2>2, <1>u DEF StepShape, Storing, Base, Amounts
    <2> QED BY <2>1, <2>2, <2>3, QuietShape
  <1>10. ASSUME NEW u \in Users, Quanta!CopyOut(u)
        PROVE  ShapeInv'
    <2>1. upc[u] = "copyOut"
      BY <1>10 DEF Quanta!CopyOut, Quanta!Crash, Quanta!Return
    <2>2. /\ UNCHANGED <<Q, S, set, block>> /\ upc' = [upc EXCEPT ![u] = "idle"]
          /\ at' = [at EXCEPT ![u] = at[u] + n[u]] /\ ptr' = [ptr EXCEPT ![u] = 0]
      BY <1>10, <2>1, NoCrash DEF Quanta!CopyOut, Quanta!Return, Quanta!storeVars, Quanta!NULL
    <2>3. StepShape(u)' /\ \A v \in Users \ {u} : ptr'[v] = ptr[v] /\ at'[v] = at[v]
      BY <2>2, <1>u DEF StepShape, Storing, Base, Amounts
    <2> QED BY <2>1, <2>2, <2>3, QuietShape
  <1>11. ASSUME NEW u \in Users, NEW m \in Lengths, Quanta!TestSet(u, m)
        PROVE  ShapeInv'
    <2>1. /\ UNCHANGED <<Q, S, set, block, at, ptr>> /\ upc[u] = "idle"
          /\ mode[u] \in Writable
          /\ \E to \in {"idle", "allocSet", "testQuantum"} :
               /\ upc' = [upc EXCEPT ![u] = to]
               /\ to = "allocSet" => set = 0
               /\ to = "testQuantum" => set # 0
      BY <1>11 DEF Quanta!TestSet, Quanta!storeVars, Quanta!NULL, Writable
    <2>2. PICK to \in {"idle", "allocSet", "testQuantum"} :
            /\ upc' = [upc EXCEPT ![u] = to]
            /\ to = "allocSet" => set = 0
            /\ to = "testQuantum" => set # 0
      BY <2>1
    <2>3. \A v \in Users : upc[v] # "clearSet"
      BY <2>1 DEF Base, ModeInv, Core, OneWriter, Storing
    <2>4. to = "testQuantum" => Quanta!IsSet(set)
      BY <1>i, <2>2, <2>3 DEF BareInv
    <2>5. Quanta!IsSet(set)' <=> Quanta!IsSet(set)
      BY <2>1 DEF Quanta!IsSet, Quanta!NULL
    <2>6. StepShape(u)'
      BY <2>1, <2>2, <2>4, <2>5, <1>u DEF StepShape, Storing
    <2> QED BY <2>1, <2>2, <2>6, QuietShape
  <1>12. ASSUME NEW u \in Users, Quanta!AllocSet(u)
        PROVE  ShapeInv'
    <2> DEFINE b == Quanta!Kmalloc
    <2>1. upc[u] = "allocSet" /\ set' = b /\ UNCHANGED <<Q, S>>
          /\ block' = [c \in Blocks |-> IF c = b THEN Quanta!Junk ELSE block[c]]
      BY <1>12 DEF Quanta!AllocSet, Quanta!Return
    <2>2. \/ b = 0 /\ upc' = [upc EXCEPT ![u] = "idle"]
          \/ b # 0 /\ upc' = [upc EXCEPT ![u] = "clearSet"]
      BY <1>12 DEF Quanta!AllocSet, Quanta!Return, Quanta!NULL
    <2>3. b = 0 \/ b \in Blocks
      BY KmallocGives
    <2> HIDE DEF b
    <2>4. \A c \in Blocks : block[c] = Quanta!Free
      BY <1>i, <2>1 DEF StepShape, BareInv
    <2>5. \A v \in Users \ {u} : StepShape(v)' /\ upc'[v] \notin {"freeSet"}
      BY <2>1, <2>2, Beside DEF Storing, Fetching
    <2>6. \A c \in Blocks : block'[c] = IF c = b THEN Quanta!Junk ELSE Quanta!Free
      BY <2>1, <2>4
    <2>7. ~Quanta!IsSet(set)'
      BY <1>k, <2>1, <2>3, <2>6 DEF Quanta!IsSet, Quanta!NULL
    <2>8. StepShape(u)'
      BY <2>1, <2>2, <2>7, <1>u DEF StepShape, Storing
    <2>9. SlotsInv'
      BY <2>7 DEF SlotsInv
    <2>10. b # 0 => \E v \in Users : upc'[v] = "clearSet"
      BY <2>2, <1>u
    <2>11. BareInv'
      BY <1>z, <2>1, <2>3, <2>6, <2>7, <2>10 DEF BareInv
    <2> QED BY <2>5, <2>8, <2>9, <2>11 DEF ShapeInv
  <1>13. ASSUME NEW u \in Users, Quanta!ClearSet(u)
        PROVE  ShapeInv'
    <2>1. upc[u] = "clearSet"
      BY <1>13 DEF Quanta!ClearSet, Quanta!Crash
    <2>2. set # 0 /\ ~Quanta!IsSet(set) /\ \A b \in Blocks \ {set} : block[b] = Quanta!Free
      BY <1>i, <2>1 DEF StepShape, BareInv
    <2>3. set \in Blocks
      BY <2>2 DEF Base, Amounts
    <2> DEFINE f == [i \in 0..S-1 |-> 0]
    <2>4. /\ upc' = [upc EXCEPT ![u] = "testQuantum"] /\ UNCHANGED <<Q, S, set>>
          /\ block' = [block EXCEPT ![set] = Quanta!SetOf(f)]
      BY <1>13, <2>1, NoCrash DEF Quanta!ClearSet, Quanta!NULL
    <2>5. block'[set] = Quanta!SetOf(f)
      BY <2>3, <2>4 DEF Base, BlocksOK
    <2>6. Quanta!IsSet(set)' /\ block'[set].slot = f
      BY <2>2, <2>4, <2>5, KindsOf DEF Quanta!IsSet, Quanta!NULL
    <2>7. \A i \in 0..S-1 : block'[set].slot[i] = 0
      BY <2>6
    <2> HIDE DEF f
    <2>8. \A b \in Blocks \ {set} : block'[b] = Quanta!Free
      BY <2>2, <2>4 DEF Base, BlocksOK
    <2>9. \A v \in Users \ {u} : StepShape(v)' /\ upc'[v] \notin {"freeSet"}
      BY <2>1, <2>4, Beside DEF Storing, Fetching
    <2>10. StepShape(u)'
      BY <2>4, <2>6, <1>u DEF StepShape, Storing
    <2>11. SlotsInv'
      BY <2>4, <2>7, <2>8 DEF SlotsInv
    <2>12. ~Freeing'
      BY <2>4, <2>9, <1>u DEF Freeing
    <2>13. BareInv'
      BY <2>2, <2>4, <2>6, <2>12 DEF BareInv
    <2> QED BY <2>9, <2>10, <2>11, <2>13 DEF ShapeInv
  <1>14. ASSUME NEW u \in Users, Quanta!TestQuantum(u)
        PROVE  ShapeInv'
    <2>1. upc[u] = "testQuantum"
      BY <1>14 DEF Quanta!TestQuantum, Quanta!Crash
    <2>2. Quanta!IsSet(set) /\ Quanta!s_pos(u) = Row(Q, at[u])
      BY <2>1, NoCrash, Positions DEF Base
    <2>3. /\ UNCHANGED <<Q, S, set, block, at, ptr>>
          /\ \/ /\ block[set].slot[Row(Q, at[u])] = 0
                /\ upc' = [upc EXCEPT ![u] = "allocQuantum"]
             \/ /\ block[set].slot[Row(Q, at[u])] # 0
                /\ upc' = [upc EXCEPT ![u] = "loadIn"]
      BY <1>14, <2>2 DEF Quanta!TestQuantum, Quanta!storeVars, Quanta!callVars, Quanta!NULL
    <2>4. Quanta!IsSet(set)'
      BY <2>2, <2>3 DEF Quanta!IsSet, Quanta!NULL
    <2>5. StepShape(u)'
      BY <2>3, <2>4, <1>u DEF StepShape, Storing
    <2> QED BY <2>1, <2>3, <2>5, QuietShape
  <1>15. ASSUME NEW u \in Users, Quanta!AllocQuantum(u)
        PROVE  ShapeInv'
    <2>1. upc[u] = "allocQuantum"
      BY <1>15 DEF Quanta!AllocQuantum, Quanta!Crash, Quanta!Return
    <2>2. Quanta!IsSet(set)
      BY <2>1, NoCrash
    <2> DEFINE k == Row(Q, at[u])
               f == block[set].slot
    <2>3. /\ k \in 0..S-1 /\ ~Freeing /\ f[k] = 0 /\ f \in Slots(S) /\ set \in Blocks
          /\ block[set] = Quanta!SetOf(f)
      BY <1>i, <2>1, <2>2, InSlot, SlotIs DEF Storing, StepShape, Base
    <2>4. PICK b \in Blocks \cup {0} :
            /\ b = 0 \/ block[b] = Quanta!Free
            /\ \/ b = 0 /\ Quanta!Return(u, "allocQuantum", at[u])
               \/ /\ b # 0 /\ Quanta!Go(u, "allocQuantum", "loadIn")
                  /\ UNCHANGED <<stage, mode, priv, at, n, ptr, stamp, mark, misused>>
            /\ block' = [c \in Blocks |-> IF c = b THEN Quanta!Junk
                          ELSE IF c = set THEN Quanta!SetOf([f EXCEPT ![k] = b]) ELSE block[c]]
      BY <1>15, <2>2, AllocQuantumDoes DEF Base
    <2>5. UNCHANGED <<Q, S, set>>
      BY <1>15, <2>2, AllocQuantumDoes DEF Base
    <2>6. CASE b = 0
      <3>1. [f EXCEPT ![k] = 0] = f
        BY <2>3 DEF Slots
      <3>2. block' = block
        BY <1>z, <2>3, <2>4, <2>6, <3>1 DEF Base, BlocksOK
      <3>3. /\ upc' = [upc EXCEPT ![u] = "idle"]
            /\ \A v \in Users \ {u} : ptr'[v] = ptr[v] /\ at'[v] = at[v]
        BY <2>4, <2>6 DEF Quanta!Return, Base, Amounts
      <3>4. StepShape(u)'
        BY <3>3, <1>u DEF StepShape, Storing
      <3> QED BY <2>1, <2>5, <3>2, <3>3, <3>4, QuietShape
    <2>7. CASE b # 0
      <3>1. upc' = [upc EXCEPT ![u] = "loadIn"] /\ UNCHANGED at
        BY <2>4, <2>7
      <3>2. b \in Blocks /\ b # set /\ block[b] = Quanta!Free
        BY <1>k, <2>2, <2>4, <2>7 DEF Quanta!IsSet, Quanta!NULL
      <3> DEFINE g == [f EXCEPT ![k] = b]
      <3>3. g \in [0..S-1 -> Blocks \cup {0}] /\ \A i \in 0..S-1 : g[i] = IF i = k THEN b ELSE f[i]
        BY <2>3, <3>2 DEF Slots
      <3> HIDE DEF g
      <3>4. /\ block'[b] = Quanta!Junk /\ block'[set] = Quanta!SetOf(g)
            /\ \A c \in Blocks \ {b, set} : block'[c] = block[c]
        BY <2>3, <2>4, <3>2 DEF g
      <3>5. Quanta!IsSet(set)' /\ block'[set].slot = g
        BY <2>2, <2>5, <3>4, KindsOf DEF Quanta!IsSet, Quanta!NULL
      <3>6. \A v \in Users \ {u} : /\ StepShape(v)' /\ upc'[v] = upc[v]
                                   /\ upc[v] \notin {"freeSet", "loadIn", "copyIn"}
        BY <2>1, <3>1, Beside DEF Storing, Fetching
      <3>7. \A i \in 0..S-1 : f[i] # 0 =>
              /\ f[i] \in Blocks \ {b, set} /\ block[f[i]].kind = "quantum"
        <4>1. ASSUME NEW i \in 0..S-1, f[i] # 0 PROVE block[f[i]].kind = "quantum"
          BY <1>i, <2>1, <2>2, <2>3, <3>6, <4>1 DEF SlotsInv
        <4>2. \A i \in 0..S-1 : f[i] # 0 => f[i] \in Blocks
          BY <2>3 DEF Slots
        <4>3. block[b].kind # "quantum" /\ block[set].kind # "quantum"
          BY <1>k, <2>2, <3>2 DEF Quanta!IsSet
        <4> QED BY <4>1, <4>2, <4>3
      <3>8. ~Freeing' /\ upc'[u] = "loadIn"
        BY <3>1, <3>6, <1>u DEF Freeing
      <3>9. \A i, j \in 0..S-1 : g[i] # 0 /\ g[i] = g[j] => i = j
        <4>1. \A i, j \in 0..S-1 : f[i] # 0 /\ f[i] = f[j] => i = j
          BY <1>i, <2>2, <2>3 DEF SlotsInv
        <4> QED BY <3>3, <3>7, <4>1
      <3>10. \A i \in 0..S-1 : g[i] # 0 =>
              \/ block'[g[i]].kind = "quantum"
              \/ block'[g[i]] = Quanta!Junk /\ i = k
        BY <3>3, <3>4, <3>7
      <3>11. \A c \in Blocks \ {set} : block'[c] # Quanta!Free => \E i \in 0..S-1 : g[i] = c
        <4>1. \A c \in Blocks \ {set} : block[c] # Quanta!Free => \E i \in 0..S-1 : f[i] = c
          BY <1>i, <2>2, <2>3 DEF SlotsInv
        <4> QED BY <1>z, <2>3, <3>3, <3>4, <4>1
      <3>12. SlotsInv'
        BY <2>5, <3>1, <3>5, <3>8, <3>9, <3>10, <3>11 DEF SlotsInv
      <3>13. StepShape(u)'
        <4>1. block'[set].slot[k] # 0
          BY <1>z, <2>3, <3>2, <3>3, <3>5
        <4> QED BY <2>5, <3>1, <3>5, <3>8, <4>1 DEF StepShape, Storing
      <3>14. BareInv'
        BY <2>5, <3>2, <3>5, <3>8 DEF BareInv, Quanta!IsSet, Quanta!NULL
      <3> QED BY <3>6, <3>12, <3>13, <3>14 DEF ShapeInv
    <2> QED BY <2>6, <2>7
  <1>16. ASSUME NEW u \in Users, Quanta!Load(u, "loadIn", "copyIn")
        PROVE  ShapeInv'
    <2>1. upc[u] = "loadIn"
      BY <1>16 DEF Quanta!Load, Quanta!Crash
    <2>2. Quanta!IsSet(set) /\ Quanta!s_pos(u) = Row(Q, at[u])
      BY <2>1, NoCrash, Positions DEF Base
    <2>3. /\ UNCHANGED <<Q, S, set, block, at>> /\ upc' = [upc EXCEPT ![u] = "copyIn"]
          /\ ptr' = [ptr EXCEPT ![u] = block[set].slot[Row(Q, at[u])]]
      BY <1>16, <2>2 DEF Quanta!Load, Quanta!storeVars
    <2>4. \A v \in Users : ptr'[v] = IF v = u THEN block[set].slot[Row(Q, at[u])] ELSE ptr[v]
      BY <2>3 DEF Base, Amounts
    <2>5. Quanta!IsSet(set)'
      BY <2>2, <2>3 DEF Quanta!IsSet, Quanta!NULL
    <2>6. block[set].slot[Row(Q, at[u])] # 0
      BY <1>i, <2>1 DEF StepShape
    <2>7. StepShape(u)'
      BY <2>3, <2>4, <2>5, <2>6, <1>u DEF StepShape, Storing
    <2> QED BY <2>1, <2>3, <2>4, <2>7, QuietShape
  <1>17. ASSUME NEW u \in Users, Quanta!CopyIn(u)
        PROVE  ShapeInv'
    <2>1. upc[u] = "copyIn"
      BY <1>17 DEF Quanta!CopyIn, Quanta!Crash
    <2>2. Quanta!IsMemory(ptr[u])
      BY <2>1, NoCrash
    <2> DEFINE k == Row(Q, at[u])
               f == block[set].slot
               p == ptr[u]
    <2>3. /\ k \in 0..S-1 /\ ~Freeing /\ p = f[k] /\ Quanta!IsSet(set) /\ f[k] # 0
      BY <1>i, <2>1, InSlot DEF Storing, StepShape
    <2>4. f \in Slots(S) /\ set \in Blocks /\ set # 0
      BY <2>3, SlotIs DEF Base
    <2>5. PICK g : block' = [block EXCEPT ![p] = Quanta!QuantumOf(g)]
      BY <1>17, <2>2, CopyInDoes DEF Base
    <2>6. upc' = [upc EXCEPT ![u] = "testLength"] /\ UNCHANGED <<Q, S, set>>
      BY <1>17, <2>2, CopyInDoes DEF Base
    <2>7. p \in Blocks /\ p # set
      <3>1. block[p].kind = "quantum" \/ block[p] = Quanta!Junk
        BY <1>i, <2>3 DEF SlotsInv
      <3>2. block[set].kind = "set" /\ p \in Blocks
        BY <2>2, <2>3 DEF Quanta!IsSet, Quanta!NULL, Base, Amounts
      <3> QED BY <1>k, <3>1, <3>2
    <2>8. /\ block'[p] = Quanta!QuantumOf(g) /\ block'[p].kind = "quantum"
          /\ \A c \in Blocks \ {p} : block'[c] = block[c]
      BY <2>5, <2>7, KindsOf DEF Base, BlocksOK
    <2>9. Quanta!IsSet(set)' /\ block'[set].slot = f
      BY <2>3, <2>4, <2>6, <2>7, <2>8 DEF Quanta!IsSet, Quanta!NULL
    <2>10. \A v \in Users \ {u} : /\ StepShape(v)' /\ upc'[v] = upc[v]
                                  /\ upc[v] \notin {"freeSet", "loadIn", "copyIn"}
      BY <2>1, <2>6, Beside DEF Storing, Fetching
    <2>11. ~Freeing'
      BY <2>6, <2>10, <1>u DEF Freeing
    <2>12. \A i, j \in 0..S-1 : f[i] # 0 /\ f[i] = f[j] => i = j
      BY <1>i, <2>3 DEF SlotsInv
    <2>13. ASSUME NEW i \in 0..S-1, f[i] # 0 PROVE block'[f[i]].kind = "quantum"
      <3>1. CASE i = k
        BY <2>3, <2>8, <3>1
      <3>2. CASE i # k
        <4>1. f[i] \in Blocks \ {p}
          BY <2>3, <2>4, <2>12, <2>13, <3>2 DEF Slots
        <4>2. block[f[i]].kind = "quantum"
          BY <1>i, <2>3, <2>10, <2>13, <3>2 DEF SlotsInv
        <4> QED BY <2>8, <4>1, <4>2
      <3> QED BY <3>1, <3>2
    <2>14. \A c \in Blocks \ {set} : block'[c] # Quanta!Free => \E i \in 0..S-1 : f[i] = c
      <3>1. \A c \in Blocks \ {set} : block[c] # Quanta!Free => \E i \in 0..S-1 : f[i] = c
        BY <1>i, <2>3 DEF SlotsInv
      <3> QED BY <2>3, <2>8, <3>1
    <2> HIDE DEF f, k, p
    <2>15. SlotsInv'
      BY <2>6, <2>9, <2>12, <2>13, <2>14 DEF SlotsInv
    <2>16. StepShape(u)'
      BY <2>6, <2>9, <1>u DEF StepShape, Storing
    <2>17. BareInv'
      BY <2>4, <2>6, <2>9, <2>11 DEF BareInv
    <2> QED BY <2>10, <2>15, <2>16, <2>17 DEF ShapeInv
  <1>18. ASSUME NEW u \in Users, Quanta!TestLength(u)
        PROVE  ShapeInv'
    <2>1. /\ UNCHANGED <<Q, S, set, block>> /\ upc[u] = "testLength"
          /\ \E to \in {"idle", "setLength"} : upc' = [upc EXCEPT ![u] = to]
          /\ \A v \in Users \ {u} : ptr'[v] = ptr[v] /\ at'[v] = at[v]
      BY <1>18 DEF Quanta!TestLength, Quanta!Return, Quanta!storeVars, Quanta!callVars, Base,
         Amounts
    <2>4. Quanta!IsSet(set)' <=> Quanta!IsSet(set)
      BY <2>1 DEF Quanta!IsSet, Quanta!NULL
    <2>2. StepShape(u)'
      BY <2>1, <1>u DEF StepShape, Storing
    <2> QED BY <2>1, <2>2, QuietShape
  <1>19. ASSUME NEW u \in Users, Quanta!SetLength(u)
        PROVE  ShapeInv'
    <2>1. /\ UNCHANGED <<Q, S, set, block>> /\ upc[u] = "setLength"
          /\ upc' = [upc EXCEPT ![u] = "idle"]
          /\ \A v \in Users \ {u} : ptr'[v] = ptr[v] /\ at'[v] = at[v]
      BY <1>19 DEF Quanta!SetLength, Quanta!Return, Base, Amounts
    <2>2. StepShape(u)'
      BY <2>1, <1>u DEF StepShape, Storing
    <2> QED BY <2>1, <2>2, QuietShape
  <1>20. CASE UNCHANGED Quanta!vars
    BY <1>i, <1>20 DEF Quanta!vars, Quanta!storeVars, Quanta!callVars, ShapeInv, StepShape,
       SlotsInv, BareInv, Freeing, Quanta!IsSet, Quanta!NULL
  <1>21. CASE Quanta!sc1_init
    BY <1>i, <1>21 DEF Quanta!sc1_init, Quanta!storeVars, Quanta!callVars, ShapeInv, StepShape,
       SlotsInv, BareInv, Freeing, Quanta!IsSet, Quanta!NULL
  <1>22. ASSUME NEW u \in Users, Quanta!EarlyCall(u)
        PROVE  ShapeInv'
    BY <1>22, NoEarly DEF Core
  <1> QED
    BY <1>1, <1>2, <1>3, <1>4, <1>5, <1>6, <1>7, <1>8, <1>9, <1>10, <1>11, <1>12, <1>13, <1>14,
       <1>15, <1>16, <1>17, <1>18, <1>19, <1>20, <1>21, <1>22
    DEF Quanta!Next, Quanta!User, Quanta!sc1_trim, Quanta!sc1_read, Quanta!sc1_write
-----------------------------------------------------------------------------
(* The size follows what was reported *)

\* The size follows what is kept: while a write is about to end it may be behind.
LEMMA SizeStep ==
    ASSUME Base, Core, [Quanta!Next]_Quanta!vars, ~misused'
    PROVE  SizeInv'
  <1>k. /\ Kept \in Nat /\ Kept <= Len(told) /\ Kept <= Room(Q, S)
        /\ Len(told) \in Nat /\ Room(Q, S) \in Nat
    BY KeptIs DEF Base
  <1>l. length \in Nat /\ \A v \in Users : at[v] \in Nat /\ n[v] \in Nat /\ at[v] <= Room(Q, S)
    BY <1>k DEF Base, Amounts
  <1>s. /\ length <= Kept
        /\ (\A u \in Users : upc[u] \notin Ending) => length = Kept
        /\ \A u \in Users :
             /\ upc[u] \in Ending => Kept = IF length <= at[u] THEN at[u] ELSE length
             /\ upc[u] = "setLength" => length < at[u]
             /\ at[u] <= Len(told) /\ (mode[u] \notin Writable => at[u] <= length)
             /\ mode[u] = "closed" \/ upc[u] \in Emptying => at[u] = 0
    BY DEF Core, SizeInv
  <1>q. UNCHANGED <<Q, S, told>> => Kept' = Kept
    BY DEF Kept
  <1>f. \A u \in Users : /\ \A to : upc' = [upc EXCEPT ![u] = to] =>
                              \A v \in Users : upc'[v] = IF v = u THEN to ELSE upc[v]
                         /\ \A p : at' = [at EXCEPT ![u] = p] =>
                              \A v \in Users : at'[v] = IF v = u THEN p ELSE at[v]
    BY DEF Base, ModeNames, Amounts
  <1>r. \A u \in Users : [at EXCEPT ![u] = at[u]] = at
    BY DEF Base, Amounts
  <1> USE DEF Quanta!Go, Emptying, Ending, Writable, Quanta!history, Quanta!looks
  <1>1. CASE Quanta!sc1_cleanup
    <2>1. /\ \A v \in Users : mode[v] = "closed" /\ upc[v] \notin Ending
          /\ UNCHANGED <<Q, S, upc, mode, at>> /\ length' = 0 /\ told' = <<>>
      BY <1>1 DEF Quanta!sc1_cleanup, Quanta!callVars, Base, ModeInv
    <2>2. Kept' = 0 /\ Len(told') = 0
      BY <1>k, <2>1, EmptySeq DEF Kept, Lesser
    <2> QED BY <1>s, <2>1, <2>2 DEF SizeInv
  <1>2. ASSUME NEW u \in Users, Quanta!sc1_open(u)
        PROVE  SizeInv'
    <2>1. /\ mode[u] = "closed" /\ upc[u] = "idle" /\ UNCHANGED <<Q, S, length, at>>
          /\ \E to \in {"idle", "freeQuanta"} : upc' = [upc EXCEPT ![u] = to]
          /\ \E m : mode' = [mode EXCEPT ![u] = m]
      BY <1>2 DEF Quanta!sc1_open, Quanta!storeVars, Quanta!callVars
    <2>2. told' = told
      BY <1>2 DEF Quanta!sc1_open
    <2>3. \A v \in Users \ {u} : mode'[v] = mode[v]
      BY <2>1 DEF Base, ModeNames
    <2>4. at[u] = 0
      BY <1>s, <2>1
    <2> QED BY <1>f, <1>l, <1>q, <1>s, <2>1, <2>2, <2>3, <2>4 DEF SizeInv
  <1>3. ASSUME NEW u \in Users, Quanta!sc1_release(u)
        PROVE  SizeInv'
    <2>1. /\ upc[u] = "idle" /\ UNCHANGED <<Q, S, length, told>>
          /\ upc' = [upc EXCEPT ![u] = "idle"] /\ at' = [at EXCEPT ![u] = 0]
          /\ mode' = [mode EXCEPT ![u] = "closed"]
      BY <1>3 DEF Quanta!sc1_release, Quanta!storeVars
    <2>2. \A v \in Users \ {u} : mode'[v] = mode[v]
      BY <2>1 DEF Base, ModeNames
    <2>3. \A v \in Users : /\ upc'[v] = IF v = u THEN "idle" ELSE upc[v]
                           /\ at'[v] = IF v = u THEN 0 ELSE at[v]
      BY <2>1 DEF Base, ModeNames, Amounts
    <2>4. upc' = upc
      BY <2>1 DEF Base, ModeNames
    <2> QED BY <1>k, <1>l, <1>q, <1>s, <2>1, <2>2, <2>3, <2>4 DEF SizeInv
  <1>4. ASSUME NEW u \in Users, Quanta!FreeQuanta(u)
        PROVE  SizeInv'
    <2>0. upc[u] = "freeQuanta"
      BY <1>4 DEF Quanta!FreeQuanta, Quanta!Crash, Quanta!NULL, Quanta!storeVars
    <2>1. UNCHANGED <<Q, S, told, length, at, mode>>
      BY <1>4, <2>0, <1>r, NoCrash DEF Quanta!FreeQuanta, Quanta!Crash, Quanta!NULL,
         Quanta!storeVars, Quanta!callVars
    <2>2. \/ upc' = [upc EXCEPT ![u] = "empty"]
          \/ upc' = [upc EXCEPT ![u] = "freeSet"]
      BY <1>4, <2>0, NoCrash DEF Quanta!FreeQuanta, Quanta!Crash, Quanta!NULL, Quanta!storeVars,
         Quanta!callVars
    <2>3. \A v \in Users : upc'[v] = IF v = u THEN upc'[u] ELSE upc[v]
      BY <2>2 DEF Base, ModeNames
    <2>4. upc'[u] \in {"empty", "freeSet"}
      BY <2>2 DEF Base, ModeNames
    <2> QED BY <1>q, <1>s, <2>0, <2>1, <2>3, <2>4 DEF SizeInv
  <1>5. ASSUME NEW u \in Users, Quanta!FreeSet(u)
        PROVE  SizeInv'
    <2>0. upc[u] = "freeSet"
      BY <1>5 DEF Quanta!FreeSet, Quanta!storeVars
    <2>1. UNCHANGED <<Q, S, told, length, at, mode>>
      BY <1>5, <2>0, <1>r DEF Quanta!FreeSet, Quanta!storeVars, Quanta!callVars
    <2>2. upc' = [upc EXCEPT ![u] = "empty"]
      BY <1>5, <2>0 DEF Quanta!FreeSet, Quanta!storeVars, Quanta!callVars
    <2>3. \A v \in Users : upc'[v] = IF v = u THEN upc'[u] ELSE upc[v]
      BY <2>2 DEF Base, ModeNames
    <2>4. upc'[u] \in {"empty"}
      BY <2>2 DEF Base, ModeNames
    <2> QED BY <1>q, <1>s, <2>0, <2>1, <2>3, <2>4 DEF SizeInv
  <1>6. ASSUME NEW u \in Users, Quanta!Empty(u)
        PROVE  SizeInv'
    <2>1. /\ upc[u] = "empty" /\ UNCHANGED <<Q, S, mode, at>> /\ length' = 0 /\ told' = <<>>
          /\ upc' = [upc EXCEPT ![u] = "idle"]
      BY <1>6 DEF Quanta!Empty, Quanta!callVars
    <2>2. Kept' = 0 /\ Len(told') = 0
      BY <1>k, <2>1, EmptySeq DEF Kept, Lesser
    <2>3. \A v \in Users \ {u} : upc[v] = "idle" /\ mode[v] = "closed"
      BY <2>1, Alone DEF Base, Core
    <2> QED BY <1>f, <1>s, <2>1, <2>2, <2>3 DEF SizeInv
  <1>7. ASSUME NEW u \in Users, NEW m \in Lengths, Quanta!TestPos(u, m)
        PROVE  SizeInv'
    <2>0. upc[u] = "idle"
      BY <1>7 DEF Quanta!TestPos, Quanta!storeVars
    <2>1. UNCHANGED <<Q, S, told, length, at, mode>>
      BY <1>7, <2>0, <1>r DEF Quanta!TestPos, Quanta!storeVars, Quanta!callVars
    <2>2. upc' = [upc EXCEPT ![u] = "testLeft"]
      BY <1>7, <2>0 DEF Quanta!TestPos, Quanta!storeVars, Quanta!callVars
    <2>3. \A v \in Users : upc'[v] = IF v = u THEN upc'[u] ELSE upc[v]
      BY <2>2 DEF Base, ModeNames
    <2>4. upc'[u] \in {"testLeft"}
      BY <2>2 DEF Base, ModeNames
    <2> QED BY <1>q, <1>s, <2>0, <2>1, <2>3, <2>4 DEF SizeInv
  <1>8. ASSUME NEW u \in Users, Quanta!TestLeft(u) \/ Quanta!SetToLeft(u)
        PROVE  SizeInv'
    <2>0. upc[u] \in {"testLeft", "lower"} /\ UNCHANGED <<Q, S, told, length, at, mode>>
      BY <1>8, LooksAre DEF Base
    <2>1. upc' = [upc EXCEPT ![u] = "lower"] \/ upc' = [upc EXCEPT ![u] = "loadOut"]
      BY <1>8, LooksAre DEF Base
    <2>2. \A v \in Users : upc'[v] = IF v = u THEN upc'[u] ELSE upc[v]
      BY <2>1 DEF Base, ModeNames
    <2>3. upc'[u] \in {"lower", "loadOut"}
      BY <2>1 DEF Base, ModeNames
    <2> QED BY <1>q, <1>s, <2>0, <2>2, <2>3 DEF SizeInv
  <1>9. ASSUME NEW u \in Users, Quanta!Load(u, "loadOut", "copyOut")
        PROVE  SizeInv'
    <2>0. upc[u] = "loadOut"
      BY <1>9 DEF Quanta!Load, Quanta!Crash, Quanta!storeVars
    <2>1. UNCHANGED <<Q, S, told, length, at, mode>>
      BY <1>9, <2>0, <1>r, NoCrash DEF Quanta!Load, Quanta!Crash, Quanta!storeVars,
         Quanta!callVars
    <2>2. upc' = [upc EXCEPT ![u] = "copyOut"]
      BY <1>9, <2>0, NoCrash DEF Quanta!Load, Quanta!Crash, Quanta!storeVars, Quanta!callVars
    <2>3. \A v \in Users : upc'[v] = IF v = u THEN upc'[u] ELSE upc[v]
      BY <2>2 DEF Base, ModeNames
    <2>4. upc'[u] \in {"copyOut"}
      BY <2>2 DEF Base, ModeNames
    <2> QED BY <1>q, <1>s, <2>0, <2>1, <2>3, <2>4 DEF SizeInv
  <1>10. ASSUME NEW u \in Users, Quanta!CopyOut(u)
        PROVE  SizeInv'
    <2>1. upc[u] = "copyOut"
      BY <1>10 DEF Quanta!CopyOut, Quanta!Crash, Quanta!Return
    <2>2. /\ UNCHANGED <<Q, S, told, length, mode>> /\ upc' = [upc EXCEPT ![u] = "idle"]
          /\ at' = [at EXCEPT ![u] = at[u] + n[u]]
      BY <1>10, <2>1, NoCrash DEF Quanta!CopyOut, Quanta!Return, Quanta!storeVars
    <2>3. at[u] + n[u] <= length /\ at[u] + n[u] \in Nat
      BY <1>l, <2>1 DEF Core, FetchInv, FetchShape
    <2>4. at[u] + n[u] <= Len(told)
      BY <1>k, <1>l, <1>s, <2>3
    <2>5. mode[u] # "closed"
      BY <2>1 DEF Base, ModeInv
    <2> QED BY <1>f, <1>q, <1>s, <2>1, <2>2, <2>3, <2>4, <2>5 DEF SizeInv
  <1>11. ASSUME NEW u \in Users, NEW m \in Lengths, Quanta!TestSet(u, m)
        PROVE  SizeInv'
    <2>1. /\ UNCHANGED <<Q, S, length, mode, at>> /\ upc[u] = "idle"
          /\ \E to \in {"idle", "allocSet", "testQuantum"} : upc' = [upc EXCEPT ![u] = to]
      BY <1>11 DEF Quanta!TestSet, Quanta!storeVars
    <2>2. Kept' = Kept /\ Len(told') \in Nat /\ Len(told) <= Len(told')
      <3>1. CASE Quanta!s_pos(u) >= S
        <4>1. stamp' \in 0..MaxStamp /\ m \in Nat /\ UNCHANGED <<Q, S>>
          BY <1>11, QuantaAssumption DEF Quanta!TestSet, Quanta!storeVars, Base, Amounts
        <4>2. told' = Quanta!Told(stamp', Len(told), m)
          BY <1>11, <3>1, Positions DEF Quanta!TestSet, Base, Amounts
        <4>3. Len(told') = IF Len(told) <= Len(told) + m THEN Len(told) + m ELSE Len(told)
          BY <1>k, <4>1, <4>2, ToldIs, MisusedStays DEF Base
        <4>4. ~(at[u] < Room(Q, S))
          BY <3>1, Positions DEF Base, Amounts
        <4>5. Room(Q, S) <= Len(told)
          BY <1>k, <1>l, <1>s, <4>4
        <4> QED BY <1>k, <4>1, <4>3, <4>5 DEF Kept, Lesser
      <3>2. CASE ~(Quanta!s_pos(u) >= S)
        BY <1>11, <1>k, <1>q, <3>2 DEF Quanta!TestSet, Quanta!storeVars
      <3> QED BY <3>1, <3>2
    <2>3. \A v \in Users : at[v] <= Len(told')
      BY <1>k, <1>l, <1>s, <2>2
    <2> QED BY <1>f, <1>s, <2>1, <2>2, <2>3 DEF SizeInv
  <1>12. ASSUME NEW u \in Users, Quanta!AllocSet(u)
        PROVE  SizeInv'
    <2>0. upc[u] = "allocSet"
      BY <1>12 DEF Quanta!AllocSet, Quanta!Return, Quanta!storeVars
    <2>1. UNCHANGED <<Q, S, told, length, at, mode>>
      BY <1>12, <2>0, <1>r DEF Quanta!AllocSet, Quanta!Return, Quanta!storeVars, Quanta!callVars
    <2>2. \/ upc' = [upc EXCEPT ![u] = "idle"]
          \/ upc' = [upc EXCEPT ![u] = "clearSet"]
      BY <1>12, <2>0 DEF Quanta!AllocSet, Quanta!Return, Quanta!storeVars, Quanta!callVars
    <2>3. \A v \in Users : upc'[v] = IF v = u THEN upc'[u] ELSE upc[v]
      BY <2>2 DEF Base, ModeNames
    <2>4. upc'[u] \in {"idle", "clearSet"}
      BY <2>2 DEF Base, ModeNames
    <2> QED BY <1>q, <1>s, <2>0, <2>1, <2>3, <2>4 DEF SizeInv
  <1>13. ASSUME NEW u \in Users, Quanta!ClearSet(u)
        PROVE  SizeInv'
    <2>0. upc[u] = "clearSet"
      BY <1>13 DEF Quanta!ClearSet, Quanta!Crash, Quanta!storeVars
    <2>1. UNCHANGED <<Q, S, told, length, at, mode>>
      BY <1>13, <2>0, <1>r, NoCrash DEF Quanta!ClearSet, Quanta!Crash, Quanta!storeVars,
         Quanta!callVars
    <2>2. upc' = [upc EXCEPT ![u] = "testQuantum"]
      BY <1>13, <2>0, NoCrash DEF Quanta!ClearSet, Quanta!Crash, Quanta!storeVars, Quanta!callVars
    <2>3. \A v \in Users : upc'[v] = IF v = u THEN upc'[u] ELSE upc[v]
      BY <2>2 DEF Base, ModeNames
    <2>4. upc'[u] \in {"testQuantum"}
      BY <2>2 DEF Base, ModeNames
    <2> QED BY <1>q, <1>s, <2>0, <2>1, <2>3, <2>4 DEF SizeInv
  <1>14. ASSUME NEW u \in Users, Quanta!TestQuantum(u)
        PROVE  SizeInv'
    <2>0. upc[u] = "testQuantum"
      BY <1>14 DEF Quanta!TestQuantum, Quanta!Crash, Quanta!storeVars
    <2>1. UNCHANGED <<Q, S, told, length, at, mode>>
      BY <1>14, <2>0, <1>r, NoCrash DEF Quanta!TestQuantum, Quanta!Crash, Quanta!storeVars,
         Quanta!callVars
    <2>2. \/ upc' = [upc EXCEPT ![u] = "allocQuantum"]
          \/ upc' = [upc EXCEPT ![u] = "loadIn"]
      BY <1>14, <2>0, NoCrash DEF Quanta!TestQuantum, Quanta!Crash, Quanta!storeVars,
         Quanta!callVars
    <2>3. \A v \in Users : upc'[v] = IF v = u THEN upc'[u] ELSE upc[v]
      BY <2>2 DEF Base, ModeNames
    <2>4. upc'[u] \in {"allocQuantum", "loadIn"}
      BY <2>2 DEF Base, ModeNames
    <2> QED BY <1>q, <1>s, <2>0, <2>1, <2>3, <2>4 DEF SizeInv
  <1>15. ASSUME NEW u \in Users, Quanta!AllocQuantum(u)
        PROVE  SizeInv'
    <2>0. upc[u] = "allocQuantum"
      BY <1>15 DEF Quanta!AllocQuantum, Quanta!Crash, Quanta!Return, Quanta!storeVars
    <2>1. UNCHANGED <<Q, S, told, length, at, mode>>
      BY <1>15, <2>0, <1>r, NoCrash DEF Quanta!AllocQuantum, Quanta!Crash, Quanta!Return,
         Quanta!storeVars, Quanta!callVars
    <2>2. \/ upc' = [upc EXCEPT ![u] = "idle"]
          \/ upc' = [upc EXCEPT ![u] = "loadIn"]
      BY <1>15, <2>0, NoCrash DEF Quanta!AllocQuantum, Quanta!Crash, Quanta!Return,
         Quanta!storeVars, Quanta!callVars
    <2>3. \A v \in Users : upc'[v] = IF v = u THEN upc'[u] ELSE upc[v]
      BY <2>2 DEF Base, ModeNames
    <2>4. upc'[u] \in {"idle", "loadIn"}
      BY <2>2 DEF Base, ModeNames
    <2> QED BY <1>q, <1>s, <2>0, <2>1, <2>3, <2>4 DEF SizeInv
  <1>16. ASSUME NEW u \in Users, Quanta!Load(u, "loadIn", "copyIn")
        PROVE  SizeInv'
    <2>0. upc[u] = "loadIn"
      BY <1>16 DEF Quanta!Load, Quanta!Crash, Quanta!storeVars
    <2>1. UNCHANGED <<Q, S, told, length, at, mode>>
      BY <1>16, <2>0, <1>r, NoCrash DEF Quanta!Load, Quanta!Crash, Quanta!storeVars,
         Quanta!callVars
    <2>2. upc' = [upc EXCEPT ![u] = "copyIn"]
      BY <1>16, <2>0, NoCrash DEF Quanta!Load, Quanta!Crash, Quanta!storeVars, Quanta!callVars
    <2>3. \A v \in Users : upc'[v] = IF v = u THEN upc'[u] ELSE upc[v]
      BY <2>2 DEF Base, ModeNames
    <2>4. upc'[u] \in {"copyIn"}
      BY <2>2 DEF Base, ModeNames
    <2> QED BY <1>q, <1>s, <2>0, <2>1, <2>3, <2>4 DEF SizeInv
  <1>17. ASSUME NEW u \in Users, Quanta!CopyIn(u)
        PROVE  SizeInv'
    <2>1. upc[u] = "copyIn"
      BY <1>17 DEF Quanta!CopyIn, Quanta!Crash
    <2>2. Quanta!IsMemory(ptr[u])
      BY <2>1, NoCrash
    <2>3. PICK m \in Nat :
            /\ m <= Q - Col(Q, at[u]) /\ at' = [at EXCEPT ![u] = @ + m]
            /\ told' = Quanta!Told(mark[u], at[u], m)
      BY <1>17, <2>2, CopyInDoes DEF Base
    <2>4. /\ upc' = [upc EXCEPT ![u] = "testLength"] /\ UNCHANGED <<Q, S, length, mode>>
      BY <1>17, <2>2, CopyInDoes DEF Base
    <2>5. at[u] < Room(Q, S)
      BY <2>1, InSlot DEF Storing
    <2>6. Q \in Nat /\ Col(Q, at[u]) \in Nat /\ at[u] + (Q - Col(Q, at[u])) <= Room(Q, S)
      BY <2>5, Positions DEF Base, Amounts
    <2>7. at[u] + m \in Nat /\ at[u] + m <= Room(Q, S)
      BY ONLY <1>k, <1>l, <2>3, <2>6
    <2>8. mark[u] \in 0..MaxStamp
      BY DEF Base, Amounts
    <2>9. Len(told') = IF Len(told) <= at[u] + m THEN at[u] + m ELSE Len(told)
      BY <1>l, <2>3, <2>8, ToldIs, MisusedStays DEF Base
    <2>10. \A v \in Users : upc[v] \notin Ending
      BY <2>1, Alone DEF Base, Core, Storing, Fetching
    <2>11. length = Kept
      BY <1>s, <2>10
    <2>12. Kept' = IF length <= at[u] + m THEN at[u] + m ELSE length
      BY <1>k, <2>4, <2>7, <2>9, <2>11 DEF Kept, Lesser
    <2>13. \A v \in Users : at'[v] = IF v = u THEN at[u] + m ELSE at[v]
      BY <2>3 DEF Base, Amounts
    <2>14. \A v \in Users : upc'[v] = IF v = u THEN "testLength" ELSE upc[v]
      BY <2>4 DEF Base, ModeNames
    <2>15. mode[u] \in Writable
      BY <2>1 DEF Base, ModeInv, Storing
    <2>16. length <= Kept' /\ Len(told) <= Len(told') /\ at[u] + m <= Len(told')
      BY <1>k, <1>l, <2>7, <2>9, <2>12
    <2>17. \A v \in Users : at'[v] <= Len(told')
      BY <1>k, <1>l, <1>s, <2>9, <2>7, <2>13, <2>16
    <2> QED BY <1>s, <2>4, <2>10, <2>12, <2>13, <2>14, <2>15, <2>16, <2>17 DEF SizeInv
  <1>18. ASSUME NEW u \in Users, Quanta!TestLength(u)
        PROVE  SizeInv'
    <2>1. upc[u] = "testLength" /\ UNCHANGED <<Q, S, told, length, at, mode>>
          /\ \/ length >= at[u] /\ upc' = [upc EXCEPT ![u] = "idle"]
             \/ length < at[u] /\ upc' = [upc EXCEPT ![u] = "setLength"]
      BY <1>18, <1>r DEF Quanta!TestLength, Quanta!Return, Quanta!storeVars, Quanta!callVars
    <2>2. \A v \in Users \ {u} : upc[v] \notin Ending
      BY <2>1, Alone DEF Base, Core, Fetching
    <2>3. mode[u] \in Writable
      BY <2>1 DEF Base, ModeInv
    <2>4. Kept = IF length <= at[u] THEN at[u] ELSE length
      BY <1>s, <2>1
    <2>5. \A v \in Users : upc'[v] = IF v # u THEN upc[v]
                                   ELSE IF length >= at[u] THEN "idle" ELSE "setLength"
      BY <1>l, <2>1 DEF Base, ModeNames
    <2>6. length \in Nat /\ at[u] \in Nat
      BY <1>l
    <2> QED BY <1>q, <1>s, <2>1, <2>2, <2>3, <2>4, <2>5, <2>6 DEF SizeInv
  <1>19. ASSUME NEW u \in Users, Quanta!SetLength(u)
        PROVE  SizeInv'
    <2>1. /\ upc[u] = "setLength" /\ UNCHANGED <<Q, S, told, at, mode>>
          /\ upc' = [upc EXCEPT ![u] = "idle"] /\ length' = at[u]
      BY <1>19, <1>r DEF Quanta!SetLength, Quanta!Return
    <2>2. \A v \in Users \ {u} : upc[v] \notin Ending
      BY <2>1, Alone DEF Base, Core, Fetching
    <2>3. Kept = at[u] /\ length < at[u]
      BY <1>l, <1>s, <2>1
    <2>4. \A v \in Users : mode[v] \notin Writable => at[v] <= at[u]
      BY <1>l, <1>s, <2>3
    <2>5. \A v \in Users : upc'[v] = IF v # u THEN upc[v] ELSE "idle"
      BY <2>1 DEF Base, ModeNames
    <2>6. Kept' = at[u] /\ at[u] \in Nat /\ \A v \in Users : upc'[v] \notin Ending
      BY <1>l, <1>q, <2>1, <2>2, <2>3, <2>5
    <2> QED BY <1>s, <2>1, <2>4, <2>5, <2>6 DEF SizeInv
  <1>20. CASE UNCHANGED Quanta!vars
    BY <1>q, <1>s, <1>20 DEF Quanta!vars, Quanta!storeVars, Quanta!callVars, SizeInv
  <1>21. CASE Quanta!sc1_init
    BY <1>q, <1>s, <1>21 DEF Quanta!sc1_init, Quanta!storeVars, Quanta!callVars, SizeInv
  <1>22. ASSUME NEW u \in Users, Quanta!EarlyCall(u)
        PROVE  SizeInv'
    BY <1>22, NoEarly DEF Core
  <1> QED
    BY <1>1, <1>2, <1>3, <1>4, <1>5, <1>6, <1>7, <1>8, <1>9, <1>10, <1>11, <1>12, <1>13, <1>14,
       <1>15, <1>16, <1>17, <1>18, <1>19, <1>20, <1>21, <1>22
    DEF Quanta!Next, Quanta!User, Quanta!sc1_trim, Quanta!sc1_read, Quanta!sc1_write
-----------------------------------------------------------------------------
(* The bytes stay what was reported *)

\* A step that leaves the device alone, and empties nothing that it was not emptying.
LEMMA QuietData ==
    ASSUME Core, UNCHANGED <<Q, S, set, block, told>>,
           \A u \in Users : upc[u] \in {"freeSet", "empty"} => upc'[u] = upc[u]
    PROVE  DataInv'
  <1>1. Kept' = Kept
    BY DEF Kept
  <1>2. ASSUME NEW i \in Nat PROVE Holds(i)' <=> Holds(i)
    BY DEF Holds, Quanta!IsSet, Quanta!NULL
  <1>3. DataInv
    BY DEF Core
  <1> QED BY <1>1, <1>2, <1>3 DEF DataInv

\* A step of one process that leaves the device alone leaves the bytes.
LEMMA QuietStore ==
    ASSUME Core, UNCHANGED <<Q, S, set, block, told>>, NEW u \in Users, NEW to,
           upc[u] \notin {"freeSet", "empty"}, upc' = [upc EXCEPT ![u] = to], ModeNames
    PROVE  DataInv'
  <1>1. \A v \in Users : upc[v] \in {"freeSet", "empty"} => upc'[v] = upc[v]
    BY DEF ModeNames
  <1> QED BY <1>1, QuietData

\* While the device is written, it holds all that was reported.
LEMMA HoldsAll ==
    ASSUME Base, Core, NEW u \in Users, upc[u] \in Storing
    PROVE  /\ \A i \in Nat : i < Kept => Holds(i)
           /\ length = Kept
           /\ ~Quanta!IsSet(set) => Kept = 0
  <1>1. \A v \in Users : upc[v] \notin Emptying \cup Ending
    <2>1. upc[u] # "idle" /\ upc[u] \notin Emptying \cup Ending
      BY DEF Storing, Emptying, Ending
    <2>2. ASSUME NEW v \in Users \ {u} PROVE upc[v] \in {"idle"} \cup Fetching
      BY Alone DEF Base, Core
    <2>3. \A v \in Users \ {u} : upc[v] \notin Emptying \cup Ending
      BY <2>2 DEF Fetching, Emptying, Ending
    <2> QED BY <2>1, <2>3
  <1>2. \A i \in Nat : i < Kept => Holds(i)
    BY <1>1 DEF Core, DataInv, Emptying
  <1>3. length = Kept
    BY <1>1 DEF Core, SizeInv
  <1>4. ASSUME ~Quanta!IsSet(set) PROVE Kept = 0
    <2>1. ~Holds(0)
      BY <1>4 DEF Holds
    <2>2. Kept \in Nat
      BY KeptIs DEF Base
    <2> QED BY <1>2, <2>1, <2>2
  <1> QED BY <1>2, <1>3, <1>4

\* A device that keeps nothing holds all it keeps.
LEMMA NothingKept ==
    ASSUME told' = <<>> \/ Kept' = 0, Amounts, UNCHANGED <<Q, S>>
    PROVE  DataInv'
  <1>1. Room(Q, S) \in Nat
    BY Positions
  <1>2. Kept' = 0
    BY <1>1, EmptySeq DEF Kept, Lesser
  <1> QED BY <1>2 DEF DataInv

\* What a successful allocation of a quantum leaves.
LEMMA QuantumAdded ==
    ASSUME Base, Core, NEW u \in Users, Quanta!AllocQuantum(u)
    PROVE  /\ upc[u] = "allocQuantum" /\ UNCHANGED <<Q, S, set, length, told>>
           /\ \E to \in {"idle", "loadIn"} : upc' = [upc EXCEPT ![u] = to]
           /\ UNCHANGED at /\ \A v \in Users \ {u} : n'[v] = n[v] /\ ptr'[v] = ptr[v]
           /\ Quanta!IsSet(set)'
           /\ \A i \in 0..S-1 : block[set].slot[i] # 0 =>
                /\ block'[set].slot[i] = block[set].slot[i]
                /\ block'[block[set].slot[i]] = block[block[set].slot[i]]
  <1>1. upc[u] = "allocQuantum"
    BY DEF Quanta!AllocQuantum, Quanta!Crash, Quanta!Return, Quanta!Go
  <1>2. Quanta!IsSet(set)
    BY <1>1, NoCrash
  <1> DEFINE k == Row(Q, at[u])
             f == block[set].slot
  <1>3. /\ k \in 0..S-1 /\ ~Freeing /\ f[k] = 0 /\ f \in Slots(S) /\ set \in Blocks /\ set # 0
        /\ block[set] = Quanta!SetOf(f)
    BY <1>1, <1>2, InSlot, SlotIs DEF Storing, StepShape, Base, Core, ShapeInv
  <1>4. PICK b \in Blocks \cup {0} :
          /\ b = 0 \/ block[b] = Quanta!Free
          /\ \/ b = 0 /\ Quanta!Return(u, "allocQuantum", at[u])
             \/ /\ b # 0 /\ Quanta!Go(u, "allocQuantum", "loadIn")
                /\ UNCHANGED <<stage, mode, priv, at, n, ptr, stamp, mark, misused>>
          /\ block' = [c \in Blocks |-> IF c = b THEN Quanta!Junk
                        ELSE IF c = set THEN Quanta!SetOf([f EXCEPT ![k] = b]) ELSE block[c]]
    BY <1>2, AllocQuantumDoes DEF Base
  <1>5. UNCHANGED <<Q, S, set, length, told>>
    BY <1>2, AllocQuantumDoes DEF Base
  <1>6. /\ \E to \in {"idle", "loadIn"} : upc' = [upc EXCEPT ![u] = to]
        /\ UNCHANGED at /\ \A v \in Users \ {u} : n'[v] = n[v] /\ ptr'[v] = ptr[v]
    BY <1>4 DEF Quanta!Return, Quanta!Go, Base, Amounts
  <1>7. Quanta!Free.kind = "free" /\ b # set
    BY <1>2, <1>3, <1>4, KindsOf DEF Quanta!IsSet
  <1> DEFINE g == [f EXCEPT ![k] = b]
  <1>8. \A i \in 0..S-1 : i # k => g[i] = f[i]
    BY <1>3 DEF Slots
  <1> HIDE DEF g
  <1>9. block'[set] = Quanta!SetOf(g) /\ \A c \in Blocks \ {b, set} : block'[c] = block[c]
    BY <1>3, <1>4, <1>7 DEF g
  <1>10. Quanta!IsSet(set)' /\ block'[set].slot = g
    BY <1>3, <1>5, <1>9, KindsOf DEF Quanta!IsSet, Quanta!NULL
  <1>11. ASSUME NEW i \in 0..S-1, f[i] # 0 PROVE f[i] \in Blocks \ {b, set} /\ i # k
    <2>1. block[f[i]].kind = "quantum" \/ block[f[i]] = Quanta!Junk
      BY <1>2, <1>3, <1>11 DEF Core, ShapeInv, SlotsInv
    <2>2. f[i] \in Blocks
      BY <1>3, <1>11 DEF Slots
    <2> QED BY <1>2, <1>3, <1>4, <1>11, <2>1, <2>2, KindsOf DEF Quanta!IsSet
  <1> HIDE DEF f, k
  <1>12. \A i \in 0..S-1 : f[i] # 0 =>
           block'[set].slot[i] = f[i] /\ block'[f[i]] = block[f[i]]
    BY <1>8, <1>9, <1>10, <1>11
  <1> QED BY <1>1, <1>5, <1>6, <1>10, <1>12 DEF f

\* What a copy into a quantum leaves.
LEMMA QuantumFilled ==
    ASSUME Base, Core, NEW u \in Users, Quanta!CopyIn(u)
    PROVE  /\ upc[u] = "copyIn" /\ upc' = [upc EXCEPT ![u] = "testLength"]
           /\ UNCHANGED <<Q, S, set, length, n, ptr>>
           /\ ptr[u] \in Blocks /\ ptr[u] # set /\ ptr[u] = block[set].slot[Row(Q, at[u])]
           /\ Quanta!IsSet(set)' /\ block'[set] = block[set]
           /\ \A i \in 0..S-1 : block[set].slot[i] # 0 /\ i # Row(Q, at[u]) =>
                block'[block[set].slot[i]] = block[block[set].slot[i]]
           /\ \E m \in Nat : \E g \in Bytes(Q) :
                /\ m <= Q - Col(Q, at[u])
                /\ at' = [at EXCEPT ![u] = @ + m] /\ told' = Quanta!Told(mark[u], at[u], m)
                /\ block'[ptr[u]] = Quanta!QuantumOf(g)
                /\ \A i \in 0..Q-1 : g[i] =
                     IF Col(Q, at[u]) <= i /\ i < Col(Q, at[u]) + m THEN mark[u]
                     ELSE IF block[ptr[u]].kind = "quantum" THEN block[ptr[u]].byte[i] ELSE 0
  <1>1. upc[u] = "copyIn"
    BY DEF Quanta!CopyIn, Quanta!Crash, Quanta!Go
  <1>2. Quanta!IsMemory(ptr[u])
    BY <1>1, NoCrash
  <1> DEFINE k == Row(Q, at[u])
             f == block[set].slot
             p == ptr[u]
  <1>3. k \in 0..S-1 /\ ~Freeing /\ p = f[k] /\ Quanta!IsSet(set) /\ f[k] # 0
    BY <1>1, InSlot DEF Storing, StepShape, Core, ShapeInv
  <1>4. f \in Slots(S) /\ set \in Blocks /\ set # 0
    BY <1>3, SlotIs DEF Base
  <1>5. p \in Blocks /\ p # set
    <2>1. block[p].kind = "quantum" \/ block[p] = Quanta!Junk
      BY <1>3 DEF SlotsInv, Core, ShapeInv
    <2>2. block[set].kind = "set" /\ p \in Blocks
      BY <1>2, <1>3 DEF Quanta!IsSet, Quanta!NULL, Base, Amounts
    <2> QED BY <2>1, <2>2, KindsOf
  <1>6. PICK m \in Nat, g \in Bytes(Q) :
          /\ m <= Q - Col(Q, at[u])
          /\ at' = [at EXCEPT ![u] = @ + m] /\ told' = Quanta!Told(mark[u], at[u], m)
          /\ block' = [block EXCEPT ![p] = Quanta!QuantumOf(g)]
          /\ \A i \in 0..Q-1 : g[i] =
               IF Col(Q, at[u]) <= i /\ i < Col(Q, at[u]) + m THEN mark[u]
               ELSE IF block[p].kind = "quantum" THEN block[p].byte[i] ELSE 0
    BY <1>2, CopyInDoes DEF Base
  <1>7. upc' = [upc EXCEPT ![u] = "testLength"] /\ UNCHANGED <<Q, S, set, length, n, ptr>>
    BY <1>2, CopyInDoes DEF Base
  <1>8. block'[p] = Quanta!QuantumOf(g) /\ \A c \in Blocks \ {p} : block'[c] = block[c]
    BY <1>5, <1>6 DEF Base, BlocksOK
  <1>9. Quanta!IsSet(set)' /\ block'[set] = block[set]
    BY <1>3, <1>4, <1>5, <1>7, <1>8 DEF Quanta!IsSet, Quanta!NULL
  <1>10. ASSUME NEW i \in 0..S-1, f[i] # 0, i # k PROVE f[i] \in Blocks \ {p}
    BY <1>3, <1>4, <1>10 DEF Slots, SlotsInv, Core, ShapeInv
  <1> HIDE DEF f, k, p
  <1>11. \A i \in 0..S-1 : f[i] # 0 /\ i # k => block'[f[i]] = block[f[i]]
    BY <1>8, <1>10
  <1>12. /\ \A i \in 0..S-1 : block[set].slot[i] # 0 /\ i # Row(Q, at[u]) =>
                block'[block[set].slot[i]] = block[block[set].slot[i]]
         /\ ptr[u] \in Blocks /\ ptr[u] # set /\ ptr[u] = block[set].slot[Row(Q, at[u])]
    BY <1>3, <1>5, <1>11 DEF f, k, p
  <1>13. \E m0 \in Nat : \E g0 \in Bytes(Q) :
           /\ m0 <= Q - Col(Q, at[u])
           /\ at' = [at EXCEPT ![u] = @ + m0] /\ told' = Quanta!Told(mark[u], at[u], m0)
           /\ block'[ptr[u]] = Quanta!QuantumOf(g0)
           /\ \A i \in 0..Q-1 : g0[i] =
                IF Col(Q, at[u]) <= i /\ i < Col(Q, at[u]) + m0 THEN mark[u]
                ELSE IF block[ptr[u]].kind = "quantum" THEN block[ptr[u]].byte[i] ELSE 0
    BY <1>6, <1>8, Zenon DEF p
  <1> QED BY <1>1, <1>7, <1>9, <1>12, <1>13
\* The copy of a write puts in what it reports, and disturbs no other byte.
LEMMA CopyKeeps ==
    ASSUME Base, Core, NEW u \in Users, Quanta!CopyIn(u), ~misused'
    PROVE  DataInv'
  <1>1. upc[u] = "copyIn" /\ upc[u] \in Storing
    BY QuantumFilled DEF Storing
  <1> DEFINE k == Row(Q, at[u])
             c == Col(Q, at[u])
             f == block[set].slot
  <1>2. PICK m \in Nat, g \in Bytes(Q) :
          /\ m <= Q - c
          /\ at' = [at EXCEPT ![u] = @ + m] /\ told' = Quanta!Told(mark[u], at[u], m)
          /\ block'[ptr[u]] = Quanta!QuantumOf(g)
          /\ \A i \in 0..Q-1 : g[i] =
               IF c <= i /\ i < c + m THEN mark[u]
               ELSE IF block[ptr[u]].kind = "quantum" THEN block[ptr[u]].byte[i] ELSE 0
    BY QuantumFilled
  <1>3. /\ UNCHANGED <<Q, S, set>> /\ ptr[u] = f[k] /\ ptr[u] # 0
        /\ Quanta!IsSet(set)' /\ block'[set] = block[set]
        /\ \A i \in 0..S-1 : f[i] # 0 /\ i # k => block'[f[i]] = block[f[i]]
    BY QuantumFilled, QuantaAssumption
  <1>4. \A i \in Nat : i < Kept => Holds(i)
    BY <1>1, HoldsAll
  <1>5. /\ Kept \in Nat /\ Kept <= Len(told) /\ Kept <= Room(Q, S)
        /\ Len(told) \in Nat /\ Room(Q, S) \in Nat
        /\ Kept = IF Len(told) <= Room(Q, S) THEN Len(told) ELSE Room(Q, S)
    BY KeptIs DEF Base, Kept, Lesser
  <1>6. /\ at[u] \in Nat /\ at[u] < Room(Q, S) /\ k \in 0..S-1 /\ c \in 0..Q-1 /\ Q \in Nat \ {0}
        /\ at[u] + (Q - c) <= Room(Q, S) /\ mark[u] \in 0..MaxStamp
    BY <1>1, InSlot, Positions DEF Base, Amounts
  <1>7. at[u] <= Kept
    BY <1>5, <1>6 DEF Core, SizeInv
  <1>8. [Quanta!Next]_Quanta!vars
    BY DEF Quanta!Next, Quanta!User, Quanta!sc1_write
  <1>9. ~misused
    BY <1>8, MisusedStays
  <1>8a. /\ Len(told') = IF Len(told) <= at[u] + m THEN at[u] + m ELSE Len(told)
         /\ \A i \in 1..Len(told') : told'[i] =
              IF at[u] < i /\ i <= at[u] + m THEN mark[u]
              ELSE IF i <= Len(told) THEN told[i] ELSE 0
    <2> DEFINE w == Quanta!Told(mark[u], at[u], m)
    <2>1. /\ Len(w) = IF Len(told) <= at[u] + m THEN at[u] + m ELSE Len(told)
          /\ \A i \in 1..Len(w) : w[i] =
               IF at[u] < i /\ i <= at[u] + m THEN mark[u]
               ELSE IF i <= Len(told) THEN told[i] ELSE 0
      <3>1. ToldOK /\ mark[u] \in 0..MaxStamp /\ at[u] \in Nat /\ m \in Nat /\ ~misused
        BY <1>2, <1>6, <1>9 DEF Base
      <3> QED BY ONLY <3>1, ToldIs
    <2>2. told' = w
      BY <1>2
    <2> HIDE DEF w
    <2> QED BY <2>1, <2>2
  <1>10. at[u] + m \in Nat /\ at[u] + m <= Room(Q, S)
    BY ONLY <1>2, <1>5, <1>6
  <1>11. Kept' = IF Kept <= at[u] + m THEN at[u] + m ELSE Kept
    BY <1>3, <1>5, <1>8a, <1>10 DEF Kept, Lesser
  <1> SUFFICES ASSUME NEW i \in Nat, i < Kept' PROVE Holds(i)'
    BY DEF DataInv
  <1>12. i < Room(Q, S) /\ Row(Q, i) \in 0..S-1 /\ Col(Q, i) \in 0..Q-1
    <2>1. i < Room(Q, S)
      BY <1>5, <1>10, <1>11
    <2> QED BY <2>1, PlaceIn DEF Base
  <1>13. i + 1 \in 1..Len(told') /\ Len(told') \in Nat
    BY <1>5, <1>8a, <1>10, <1>11
  <1>14. CASE at[u] <= i /\ i < at[u] + m
    <2> DEFINE j == i - at[u]
    <2>1. j \in Nat /\ c + j < Q /\ at[u] + j = i
      BY <1>2, <1>6, <1>14
    <2>2. Row(Q, at[u] + j) = k /\ Col(Q, at[u] + j) = c + j
      BY <1>6, <2>1, RowAlong
    <2>3. Row(Q, i) = k /\ Col(Q, i) = c + j
      BY <2>1, <2>2
    <2>4. c <= Col(Q, i) /\ Col(Q, i) < c + m
      BY ONLY <1>2, <1>6, <1>14, <2>1, <2>3
    <2>5. g[Col(Q, i)] = mark[u]
      BY <1>2, <1>12, <2>4
    <2>6. told'[i + 1] = mark[u]
      BY <1>6, <1>8a, <1>13, <1>14
    <2> QED BY <1>2, <1>3, <2>3, <2>5, <2>6, KindsOf DEF Holds
  <1>15. CASE ~(at[u] <= i /\ i < at[u] + m)
    <2>1. i < Kept
      BY <1>5, <1>6, <1>7, <1>10, <1>11, <1>15
    <2>2. Holds(i)
      BY <1>4, <2>1
    <2>3. told'[i + 1] = told[i + 1]
      <3>1. ~(at[u] < i + 1 /\ i + 1 <= at[u] + m) /\ i + 1 <= Len(told)
        BY <1>2, <1>5, <1>6, <1>15, <2>1
      <3> QED BY <1>8a, <1>13, <3>1
    <2>4. CASE Row(Q, i) # k
      BY <1>3, <1>12, <2>2, <2>3, <2>4 DEF Holds
    <2>5. CASE Row(Q, i) = k
      <3>1. i - at[u] = Col(Q, i) - c
        BY <1>6, <2>5, SameRow
      <3>2. ~(c <= Col(Q, i) /\ Col(Q, i) < c + m)
        BY ONLY <1>2, <1>6, <1>12, <1>15, <3>1
      <3>3. g[Col(Q, i)] = block[ptr[u]].byte[Col(Q, i)]
        BY <1>2, <1>3, <1>12, <2>2, <2>5, <3>2 DEF Holds
      <3>4. block[ptr[u]].byte[Col(Q, i)] = told[i + 1]
        BY <1>3, <2>2, <2>5 DEF Holds
      <3> QED BY <1>2, <1>3, <2>3, <2>5, <3>3, <3>4, KindsOf DEF Holds
    <2> QED BY <2>4, <2>5
  <1> QED BY <1>14, <1>15

\* The device holds what was reported as written.
LEMMA DataStep ==
    ASSUME Base, Core, [Quanta!Next]_Quanta!vars, ~misused'
    PROVE  DataInv'
  <1>r. \A u \in Users : \A to : upc' = [upc EXCEPT ![u] = to] => upc'[u] = to
    BY DEF Base, ModeNames
  <1>m. ModeNames /\ Amounts
    BY DEF Base
  <1> USE DEF Quanta!Go, Quanta!history, Quanta!looks
  <1>1. CASE Quanta!sc1_cleanup
    BY <1>1, <1>m, NothingKept DEF Quanta!sc1_cleanup
  <1>2. ASSUME NEW u \in Users, Quanta!sc1_open(u)
        PROVE  DataInv'
    <2>0. upc[u] = "idle"
      BY <1>2 DEF Quanta!sc1_open, Quanta!storeVars
    <2>1. UNCHANGED <<Q, S, set, block, told>>
      BY <1>2, <2>0 DEF Quanta!sc1_open, Quanta!storeVars
    <2>2. \/ upc' = [upc EXCEPT ![u] = "idle"]
          \/ upc' = [upc EXCEPT ![u] = "freeQuanta"]
      BY <1>2, <2>0 DEF Quanta!sc1_open, Quanta!storeVars
    <2> QED BY <1>m, <2>0, <2>1, <2>2, QuietStore
  <1>3. ASSUME NEW u \in Users, Quanta!sc1_release(u)
        PROVE  DataInv'
    <2>0. upc[u] = "idle"
      BY <1>3 DEF Quanta!sc1_release, Quanta!storeVars
    <2>1. UNCHANGED <<Q, S, set, block, told>>
      BY <1>3, <2>0 DEF Quanta!sc1_release, Quanta!storeVars
    <2>2. upc' = [upc EXCEPT ![u] = "idle"]
      BY <1>3, <2>0 DEF Quanta!sc1_release, Quanta!storeVars
    <2> QED BY <1>m, <2>0, <2>1, <2>2, QuietStore
  <1>4. ASSUME NEW u \in Users, Quanta!FreeQuanta(u)
        PROVE  DataInv'
    <2>1. upc'[u] \in {"freeSet", "empty"}
      <3>1. upc[u] = "freeQuanta"
        BY <1>4 DEF Quanta!FreeQuanta, Quanta!Crash
      <3>2. upc' = [upc EXCEPT ![u] = "freeSet"] \/ upc' = [upc EXCEPT ![u] = "empty"]
        BY <1>4, <3>1, NoCrash DEF Quanta!FreeQuanta, Quanta!Crash, Quanta!NULL
      <3> QED BY <1>r, <3>2
    <2> QED BY <2>1 DEF DataInv
  <1>5. ASSUME NEW u \in Users, Quanta!FreeSet(u)
        PROVE  DataInv'
    <2>1. upc'[u] = "empty"
      BY <1>5, <1>r DEF Quanta!FreeSet
    <2> QED BY <2>1 DEF DataInv
  <1>6. ASSUME NEW u \in Users, Quanta!Empty(u)
        PROVE  DataInv'
    BY <1>6, <1>m, NothingKept DEF Quanta!Empty
  <1>7. ASSUME NEW u \in Users, NEW m \in Lengths, Quanta!TestPos(u, m)
        PROVE  DataInv'
    <2>0. upc[u] = "idle"
      BY <1>7 DEF Quanta!TestPos, Quanta!storeVars
    <2>1. UNCHANGED <<Q, S, set, block, told>>
      BY <1>7, <2>0 DEF Quanta!TestPos, Quanta!storeVars
    <2>2. upc' = [upc EXCEPT ![u] = "testLeft"]
      BY <1>7, <2>0 DEF Quanta!TestPos, Quanta!storeVars
    <2> QED BY <1>m, <2>0, <2>1, <2>2, QuietStore
  <1>8. ASSUME NEW u \in Users, Quanta!TestLeft(u) \/ Quanta!SetToLeft(u)
        PROVE  DataInv'
    <2>1. /\ UNCHANGED <<Q, S, set, block, told>> /\ upc[u] \in {"testLeft", "lower"}
          /\ \E to \in {"lower", "loadOut"} : upc' = [upc EXCEPT ![u] = to]
      BY <1>8, LooksAre DEF Base
    <2> QED BY <1>m, <2>1, QuietStore
  <1>9. ASSUME NEW u \in Users, Quanta!Load(u, "loadOut", "copyOut")
        PROVE  DataInv'
    <2>0. upc[u] = "loadOut"
      BY <1>9 DEF Quanta!Load, Quanta!Crash, Quanta!storeVars
    <2>1. UNCHANGED <<Q, S, set, block, told>>
      BY <1>9, <2>0, NoCrash DEF Quanta!Load, Quanta!Crash, Quanta!storeVars
    <2>2. upc' = [upc EXCEPT ![u] = "copyOut"]
      BY <1>9, <2>0, NoCrash DEF Quanta!Load, Quanta!Crash, Quanta!storeVars
    <2> QED BY <1>m, <2>0, <2>1, <2>2, QuietStore
  <1>10. ASSUME NEW u \in Users, Quanta!CopyOut(u)
        PROVE  DataInv'
    <2>0. upc[u] = "copyOut"
      BY <1>10 DEF Quanta!CopyOut, Quanta!Crash, Quanta!Return, Quanta!storeVars
    <2>1. UNCHANGED <<Q, S, set, block, told>>
      BY <1>10, <2>0, NoCrash DEF Quanta!CopyOut, Quanta!Crash, Quanta!Return, Quanta!storeVars
    <2>2. upc' = [upc EXCEPT ![u] = "idle"]
      BY <1>10, <2>0, NoCrash DEF Quanta!CopyOut, Quanta!Crash, Quanta!Return, Quanta!storeVars
    <2> QED BY <1>m, <2>0, <2>1, <2>2, QuietStore
  <1>11. ASSUME NEW u \in Users, NEW m \in Lengths, Quanta!TestSet(u, m)
        PROVE  DataInv'
    <2>1. /\ UNCHANGED <<Q, S, set, block>> /\ upc[u] = "idle"
          /\ \E to \in {"idle", "allocSet", "testQuantum"} : upc' = [upc EXCEPT ![u] = to]
      BY <1>11 DEF Quanta!TestSet, Quanta!storeVars
    <2>2. CASE ~(Quanta!s_pos(u) >= S)
      <3>1. told' = told
        BY <1>11, <2>2 DEF Quanta!TestSet
      <3> QED BY <1>m, <2>1, <3>1, QuietStore
    <2>3. CASE Quanta!s_pos(u) >= S
      <3>1. stamp' \in 0..MaxStamp /\ m \in Nat
        BY <1>11, QuantaAssumption DEF Quanta!TestSet, Base, Amounts
      <3>2. told' = Quanta!Told(stamp', Len(told), m)
        BY <1>11, <2>3, Positions DEF Quanta!TestSet, Base, Amounts
      <3>3. /\ Kept \in Nat /\ Kept <= Len(told) /\ Kept <= Room(Q, S)
            /\ Len(told) \in Nat /\ Room(Q, S) \in Nat
        BY KeptIs DEF Base
      <3>4. /\ Len(told') = IF Len(told) <= Len(told) + m THEN Len(told) + m ELSE Len(told)
            /\ \A i \in 1..Len(told') : told'[i] =
                 IF Len(told) < i /\ i <= Len(told) + m THEN stamp'
                 ELSE IF i <= Len(told) THEN told[i] ELSE 0
        BY <3>1, <3>2, <3>3, ToldIs, MisusedStays DEF Base
      <3>5. Len(told') = Len(told) + m
        BY <3>1, <3>3, <3>4
      <3>6. \A i \in 1..Len(told) : told'[i] = told[i]
        BY <3>1, <3>3, <3>4, <3>5
      <3>7. Kept' = Kept
        <4>1. ~(at[u] < Room(Q, S)) /\ at[u] \in Nat
          BY <2>3, <3>3, Positions DEF Base, Amounts
        <4>2. Room(Q, S) <= Len(told)
          BY <3>3, <4>1 DEF Core, SizeInv
        <4> QED BY <2>1, <3>1, <3>3, <3>5, <4>2 DEF Kept, Lesser
      <3>8. \A v \in Users : upc'[v] \notin {"freeSet", "empty"} =>
              upc[v] \notin {"freeSet", "empty"}
        BY <2>1 DEF Base, ModeNames
      <3>9. ASSUME NEW i \in Nat, i < Kept, Holds(i) PROVE Holds(i)'
        <4>1. i + 1 \in 1..Len(told)
          BY <3>3, <3>9
        <4> QED BY <2>1, <3>6, <3>9, <4>1 DEF Holds, Quanta!IsSet, Quanta!NULL
      <3> QED BY <3>7, <3>8, <3>9 DEF DataInv, Core
    <2> QED BY <2>2, <2>3
  <1>12. ASSUME NEW u \in Users, Quanta!AllocSet(u)
        PROVE  DataInv'
    <2>1. upc[u] = "allocSet" /\ UNCHANGED <<Q, S, told>>
      BY <1>12 DEF Quanta!AllocSet, Quanta!Return
    <2>2. ~Quanta!IsSet(set)
      BY <2>1 DEF Core, ShapeInv, StepShape, Quanta!IsSet, Quanta!NULL
    <2>3. Kept = 0
      BY <2>1, <2>2, HoldsAll DEF Storing
    <2>4. Kept' = 0
      BY <2>1, <2>3 DEF Kept
    <2> QED BY <1>m, <2>1, <2>4, NothingKept
  <1>13. ASSUME NEW u \in Users, Quanta!ClearSet(u)
        PROVE  DataInv'
    <2>0. upc[u] = "clearSet"
      BY <1>13 DEF Quanta!ClearSet, Quanta!Crash
    <2>1. UNCHANGED <<Q, S, told>>
      BY <1>13, <2>0, NoCrash DEF Quanta!ClearSet
    <2>2. ~Quanta!IsSet(set)
      BY <2>0 DEF Core, ShapeInv, StepShape
    <2>3. Kept = 0
      BY <2>0, <2>2, HoldsAll DEF Storing
    <2>4. Kept' = 0
      BY <2>1, <2>3 DEF Kept
    <2> QED BY <1>m, <2>1, <2>4, NothingKept
  <1>14. ASSUME NEW u \in Users, Quanta!TestQuantum(u)
        PROVE  DataInv'
    <2>0. upc[u] = "testQuantum"
      BY <1>14 DEF Quanta!TestQuantum, Quanta!Crash, Quanta!storeVars
    <2>1. UNCHANGED <<Q, S, set, block, told>>
      BY <1>14, <2>0, NoCrash DEF Quanta!TestQuantum, Quanta!Crash, Quanta!storeVars
    <2>2. \/ upc' = [upc EXCEPT ![u] = "allocQuantum"]
          \/ upc' = [upc EXCEPT ![u] = "loadIn"]
      BY <1>14, <2>0, NoCrash DEF Quanta!TestQuantum, Quanta!Crash, Quanta!storeVars
    <2> QED BY <1>m, <2>0, <2>1, <2>2, QuietStore
  <1>15. ASSUME NEW u \in Users, Quanta!AllocQuantum(u)
        PROVE  DataInv'
    <2>1. /\ upc[u] = "allocQuantum" /\ UNCHANGED <<Q, S, set, told>> /\ Quanta!IsSet(set)'
          /\ \A i \in 0..S-1 : block[set].slot[i] # 0 =>
               /\ block'[set].slot[i] = block[set].slot[i]
               /\ block'[block[set].slot[i]] = block[block[set].slot[i]]
      BY <1>15, QuantumAdded
    <2>2. \A i \in Nat : i < Kept => Holds(i)
      BY <2>1, HoldsAll DEF Storing
    <2>3. Kept' = Kept /\ Kept \in Nat /\ Kept <= Room(Q, S) /\ Room(Q, S) \in Nat
      BY <2>1, KeptIs DEF Kept, Base
    <2>4. ASSUME NEW i \in Nat, i < Kept PROVE Holds(i)'
      <3>1. Row(Q, i) \in 0..S-1
        <4>1. i < Room(Q, S)
          BY <2>3, <2>4
        <4> QED BY <4>1, PlaceIn DEF Base
      <3> QED BY <2>1, <2>2, <2>4, <3>1 DEF Holds
    <2> QED BY <2>3, <2>4 DEF DataInv
  <1>16. ASSUME NEW u \in Users, Quanta!Load(u, "loadIn", "copyIn")
        PROVE  DataInv'
    <2>0. upc[u] = "loadIn"
      BY <1>16 DEF Quanta!Load, Quanta!Crash, Quanta!storeVars
    <2>1. UNCHANGED <<Q, S, set, block, told>>
      BY <1>16, <2>0, NoCrash DEF Quanta!Load, Quanta!Crash, Quanta!storeVars
    <2>2. upc' = [upc EXCEPT ![u] = "copyIn"]
      BY <1>16, <2>0, NoCrash DEF Quanta!Load, Quanta!Crash, Quanta!storeVars
    <2> QED BY <1>m, <2>0, <2>1, <2>2, QuietStore
  <1>17. ASSUME NEW u \in Users, Quanta!CopyIn(u)
        PROVE  DataInv'
    BY <1>17, CopyKeeps
  <1>18. ASSUME NEW u \in Users, Quanta!TestLength(u)
        PROVE  DataInv'
    <2>0. upc[u] = "testLength"
      BY <1>18 DEF Quanta!TestLength, Quanta!Return, Quanta!storeVars
    <2>1. UNCHANGED <<Q, S, set, block, told>>
      BY <1>18, <2>0 DEF Quanta!TestLength, Quanta!Return, Quanta!storeVars
    <2>2. \/ upc' = [upc EXCEPT ![u] = "idle"]
          \/ upc' = [upc EXCEPT ![u] = "setLength"]
      BY <1>18, <2>0 DEF Quanta!TestLength, Quanta!Return, Quanta!storeVars
    <2> QED BY <1>m, <2>0, <2>1, <2>2, QuietStore
  <1>19. ASSUME NEW u \in Users, Quanta!SetLength(u)
        PROVE  DataInv'
    <2>0. upc[u] = "setLength"
      BY <1>19 DEF Quanta!SetLength, Quanta!Return, Quanta!storeVars
    <2>1. UNCHANGED <<Q, S, set, block, told>>
      BY <1>19, <2>0 DEF Quanta!SetLength, Quanta!Return, Quanta!storeVars
    <2>2. upc' = [upc EXCEPT ![u] = "idle"]
      BY <1>19, <2>0 DEF Quanta!SetLength, Quanta!Return, Quanta!storeVars
    <2> QED BY <1>m, <2>0, <2>1, <2>2, QuietStore
  <1>20. CASE UNCHANGED Quanta!vars
    BY <1>20, QuietData DEF Quanta!vars, Quanta!storeVars
  <1>21. CASE Quanta!sc1_init
    BY <1>21, QuietData DEF Quanta!sc1_init, Quanta!storeVars
  <1>22. ASSUME NEW u \in Users, Quanta!EarlyCall(u)
        PROVE  DataInv'
    BY <1>22, NoEarly DEF Core
  <1> QED
    BY <1>1, <1>2, <1>3, <1>4, <1>5, <1>6, <1>7, <1>8, <1>9, <1>10, <1>11, <1>12, <1>13, <1>14,
       <1>15, <1>16, <1>17, <1>18, <1>19, <1>20, <1>21, <1>22
    DEF Quanta!Next, Quanta!User, Quanta!sc1_trim, Quanta!sc1_read, Quanta!sc1_write
-----------------------------------------------------------------------------
(* A read is inside the data, and has the quantum it copies from *)

\* A step of u leaves the reads of the others as they are: when it empties the device
\* there are none, and none when there is no array; else what is there stays there.
LEMMA FetchKept ==
    ASSUME Base, Core, NEW u \in Users, NEW to, upc' = [upc EXCEPT ![u] = to],
           \A v \in Users \ {u} : at'[v] = at[v] /\ n'[v] = n[v] /\ ptr'[v] = ptr[v],
           UNCHANGED <<Q, S>>,
           \/ upc[u] \in Emptying
           \/ ~Quanta!IsSet(set) /\ length' = length
           \/ /\ set' = set /\ length \in Nat /\ length' \in Nat /\ length <= length'
              /\ \A i \in 0..S-1 : block[set].slot[i] # 0 =>
                    block'[set].slot[i] = block[set].slot[i],
           FetchShape(u)'
    PROVE  FetchInv'
  <1> SUFFICES ASSUME NEW v \in Users \ {u} PROVE FetchShape(v)'
    BY DEF FetchInv
  <1>1. upc'[v] = upc[v] /\ at'[v] = at[v] /\ n'[v] = n[v] /\ ptr'[v] = ptr[v]
    BY DEF Base, ModeNames
  <1>2. CASE upc[v] \notin Fetching
    BY <1>1, <1>2 DEF FetchShape, Fetching
  <1>3. CASE upc[v] \in Fetching
    <2>1. /\ at[v] \in Nat /\ Row(Q, at[v]) \in 0..S-1 /\ Quanta!IsSet(set)
      BY <1>3, InData DEF Holds
    <2>2. upc[u] \notin Emptying
      BY <1>3, Alone DEF Base, Core, Fetching
    <2>3. /\ set' = set /\ length \in Nat /\ length' \in Nat /\ length <= length'
          /\ block[set].slot[Row(Q, at[v])] # 0 =>
                block'[set].slot[Row(Q, at[v])] = block[set].slot[Row(Q, at[v])]
      BY <2>1, <2>2
    <2>4. FetchShape(v) /\ n[v] \in Nat
      BY DEF Core, FetchInv, Base, Amounts
    <2> QED BY <1>1, <2>1, <2>3, <2>4 DEF FetchShape
  <1> QED BY <1>2, <1>3

\* A step of one process that leaves the device alone leaves the reads of the others.
LEMMA FetchQuiet ==
    ASSUME Base, Core, NEW u \in Users, NEW to, upc' = [upc EXCEPT ![u] = to],
           \A v \in Users \ {u} : at'[v] = at[v] /\ n'[v] = n[v] /\ ptr'[v] = ptr[v],
           UNCHANGED <<Q, S, set, block, length>>, FetchShape(u)'
    PROVE  FetchInv'
  <1>1. length \in Nat
    BY Positions DEF Base, Amounts
  <1>2. /\ set' = set /\ length \in Nat /\ length' \in Nat /\ length <= length'
        /\ \A i \in 0..S-1 : block[set].slot[i] # 0 =>
              block'[set].slot[i] = block[set].slot[i]
    BY <1>1
  <1> QED BY <1>2, FetchKept

\* A read stays inside the data, and has the quantum it copies from.
LEMMA FetchStep ==
    ASSUME Base, Core, [Quanta!Next]_Quanta!vars, ~misused'
    PROVE  FetchInv'
  <1>f. \A u \in Users : \A to : upc' = [upc EXCEPT ![u] = to] => upc'[u] = to
    BY DEF Base, ModeNames
  <1>l. length \in Nat /\ \A v \in Users : at[v] \in Nat /\ n[v] \in Nat
    BY Positions DEF Base, Amounts
  <1>m. ModeNames /\ Amounts
    BY DEF Base
  <1> USE DEF Quanta!Go, Quanta!history, Quanta!looks
  <1>1. CASE Quanta!sc1_cleanup
    <2>1. \A v \in Users : upc'[v] = "idle"
      BY <1>1 DEF Quanta!sc1_cleanup, Base, ModeInv
    <2> QED BY <2>1 DEF FetchInv, FetchShape, Fetching
  <1>2. ASSUME NEW u \in Users, Quanta!sc1_open(u)
        PROVE  FetchInv'
    <2>1. upc[u] = "idle"
      BY <1>2 DEF Quanta!sc1_open, Quanta!storeVars
    <2>2. UNCHANGED <<Q, S, set, block, length>>
      BY <1>2, <2>1 DEF Quanta!sc1_open, Quanta!storeVars, Quanta!callVars
    <2>3. \A v \in Users \ {u} : at'[v] = at[v] /\ n'[v] = n[v] /\ ptr'[v] = ptr[v]
      BY <1>m, <1>2, <2>1 DEF Quanta!sc1_open, Quanta!storeVars, Quanta!callVars, Amounts
    <2>4. \/ upc' = [upc EXCEPT ![u] = "idle"]
          \/ upc' = [upc EXCEPT ![u] = "freeQuanta"]
      BY <1>2, <2>1 DEF Quanta!sc1_open, Quanta!storeVars
    <2>5. FetchShape(u)'
      BY <1>f, <2>4 DEF FetchShape, Fetching
    <2> QED BY <2>1, <2>2, <2>3, <2>4, <2>5, FetchQuiet
  <1>3. ASSUME NEW u \in Users, Quanta!sc1_release(u)
        PROVE  FetchInv'
    <2>1. upc[u] = "idle"
      BY <1>3 DEF Quanta!sc1_release, Quanta!storeVars
    <2>2. UNCHANGED <<Q, S, set, block, length>>
      BY <1>3, <2>1 DEF Quanta!sc1_release, Quanta!storeVars, Quanta!callVars
    <2>3. \A v \in Users \ {u} : at'[v] = at[v] /\ n'[v] = n[v] /\ ptr'[v] = ptr[v]
      BY <1>m, <1>3, <2>1 DEF Quanta!sc1_release, Quanta!storeVars, Quanta!callVars, Amounts
    <2>4. upc' = [upc EXCEPT ![u] = "idle"]
      BY <1>3, <2>1 DEF Quanta!sc1_release, Quanta!storeVars
    <2>5. FetchShape(u)'
      BY <1>f, <2>4 DEF FetchShape, Fetching
    <2> QED BY <2>1, <2>2, <2>3, <2>4, <2>5, FetchQuiet
  <1>4. ASSUME NEW u \in Users, Quanta!FreeQuanta(u)
        PROVE  FetchInv'
    <2>1. upc[u] = "freeQuanta"
      BY <1>4 DEF Quanta!FreeQuanta, Quanta!Crash, Quanta!NULL, Quanta!storeVars
    <2>2. UNCHANGED <<Q, S>>
      BY <1>4, <2>1, NoCrash DEF Quanta!FreeQuanta, Quanta!Crash, Quanta!NULL, Quanta!storeVars,
         Quanta!callVars
    <2>3. \A v \in Users \ {u} : at'[v] = at[v] /\ n'[v] = n[v] /\ ptr'[v] = ptr[v]
      BY <1>m, <1>4, <2>1, NoCrash DEF Quanta!FreeQuanta, Quanta!Crash, Quanta!NULL,
         Quanta!storeVars, Quanta!callVars, Amounts
    <2>4. \/ upc' = [upc EXCEPT ![u] = "freeSet"]
          \/ upc' = [upc EXCEPT ![u] = "empty"]
      BY <1>4, <2>1, NoCrash DEF Quanta!FreeQuanta, Quanta!Crash, Quanta!NULL, Quanta!storeVars
    <2>5. FetchShape(u)'
      BY <1>f, <2>4 DEF FetchShape, Fetching
    <2> QED BY <2>1, <2>2, <2>3, <2>4, <2>5, FetchKept DEF Emptying
  <1>5. ASSUME NEW u \in Users, Quanta!FreeSet(u)
        PROVE  FetchInv'
    <2>1. upc[u] = "freeSet"
      BY <1>5 DEF Quanta!FreeSet, Quanta!storeVars
    <2>2. UNCHANGED <<Q, S>>
      BY <1>5, <2>1 DEF Quanta!FreeSet, Quanta!storeVars, Quanta!callVars
    <2>3. \A v \in Users \ {u} : at'[v] = at[v] /\ n'[v] = n[v] /\ ptr'[v] = ptr[v]
      BY <1>m, <1>5, <2>1 DEF Quanta!FreeSet, Quanta!storeVars, Quanta!callVars, Amounts
    <2>4. upc' = [upc EXCEPT ![u] = "empty"]
      BY <1>5, <2>1 DEF Quanta!FreeSet, Quanta!storeVars
    <2>5. FetchShape(u)'
      BY <1>f, <2>4 DEF FetchShape, Fetching
    <2> QED BY <2>1, <2>2, <2>3, <2>4, <2>5, FetchKept DEF Emptying
  <1>6. ASSUME NEW u \in Users, Quanta!Empty(u)
        PROVE  FetchInv'
    <2>1. upc[u] = "empty"
      BY <1>6 DEF Quanta!Empty, Quanta!storeVars
    <2>2. UNCHANGED <<Q, S>>
      BY <1>6, <2>1 DEF Quanta!Empty, Quanta!storeVars, Quanta!callVars
    <2>3. \A v \in Users \ {u} : at'[v] = at[v] /\ n'[v] = n[v] /\ ptr'[v] = ptr[v]
      BY <1>m, <1>6, <2>1 DEF Quanta!Empty, Quanta!storeVars, Quanta!callVars, Amounts
    <2>4. upc' = [upc EXCEPT ![u] = "idle"]
      BY <1>6, <2>1 DEF Quanta!Empty, Quanta!storeVars
    <2>5. FetchShape(u)'
      BY <1>f, <2>4 DEF FetchShape, Fetching
    <2> QED BY <2>1, <2>2, <2>3, <2>4, <2>5, FetchKept DEF Emptying
  <1>7. ASSUME NEW u \in Users, NEW m \in Lengths, Quanta!TestPos(u, m)
        PROVE  FetchInv'
    <2>1. /\ at[u] < length /\ upc' = [upc EXCEPT ![u] = "testLeft"]
          /\ UNCHANGED <<Q, S, set, block, length, at, ptr>> /\ n' = [n EXCEPT ![u] = m]
      BY <1>7 DEF Quanta!TestPos, Quanta!storeVars
    <2>2. \A v \in Users \ {u} : at'[v] = at[v] /\ n'[v] = n[v] /\ ptr'[v] = ptr[v]
      BY <1>m, <2>1 DEF Amounts
    <2>3. FetchShape(u)'
      BY <1>f, <2>1 DEF FetchShape
    <2> QED BY <2>1, <2>2, <2>3, FetchQuiet
  <1>8. ASSUME NEW u \in Users, Quanta!TestLeft(u) \/ Quanta!SetToLeft(u)
        PROVE  FetchInv'
    <2>1. /\ UNCHANGED <<Q, S, set, block, length, at, ptr>> /\ upc[u] \in {"testLeft", "lower"}
          /\ \/ upc' = [upc EXCEPT ![u] = "lower"] /\ n' = n
             \/ /\ upc' = [upc EXCEPT ![u] = "loadOut"]
                /\ \E c \in Nat :
                     /\ n' = [n EXCEPT ![u] = c]
                     /\ at[u] <= length => c <= length - at[u]
      BY <1>8, <1>m, LooksAre
    <2>2. at[u] < length
      BY <2>1 DEF Core, FetchInv, FetchShape, Fetching
    <2>3. /\ \A v \in Users \ {u} : at'[v] = at[v] /\ n'[v] = n[v] /\ ptr'[v] = ptr[v]
          /\ upc'[u] \in {"lower", "loadOut"}
          /\ upc'[u] = "loadOut" => n'[u] \in Nat /\ n'[u] <= length - at[u]
      BY <1>f, <1>l, <1>m, <2>1, <2>2 DEF Amounts
    <2>4. FetchShape(u)'
      <3>1. upc'[u] = "loadOut" => at[u] + n'[u] <= length
        BY <1>l, <2>3
      <3> QED BY <2>1, <2>2, <2>3, <3>1 DEF FetchShape
    <2> QED BY <2>1, <2>3, <2>4, FetchQuiet
  <1>9. ASSUME NEW u \in Users, Quanta!Load(u, "loadOut", "copyOut")
        PROVE  FetchInv'
    <2>1. upc[u] = "loadOut"
      BY <1>9 DEF Quanta!Load, Quanta!Crash
    <2>2. /\ upc' = [upc EXCEPT ![u] = "copyOut"]
          /\ UNCHANGED <<Q, S, set, block, length, at, n>>
          /\ ptr' = [ptr EXCEPT ![u] = block[set].slot[Quanta!s_pos(u)]]
      BY <1>9, <2>1, NoCrash DEF Quanta!Load, Quanta!Crash, Quanta!storeVars
    <2>3. Quanta!s_pos(u) = Row(Q, at[u])
      BY <1>m, Positions
    <2>4. \A v \in Users \ {u} : at'[v] = at[v] /\ n'[v] = n[v] /\ ptr'[v] = ptr[v]
      BY <1>m, <2>2 DEF Amounts
    <2>5. ptr'[u] = block[set].slot[Row(Q, at[u])]
      BY <1>m, <2>2, <2>3 DEF Amounts
    <2>6. block[set].slot[Row(Q, at[u])] # 0
      BY <2>1, InData DEF Holds, Fetching
    <2>7. FetchShape(u) /\ upc[u] \in Fetching
      BY <2>1 DEF Core, FetchInv, Fetching
    <2>8. FetchShape(u)'
      BY <1>f, <2>1, <2>2, <2>5, <2>6, <2>7 DEF FetchShape
    <2> QED BY <2>2, <2>4, <2>8, FetchQuiet
  <1>10. ASSUME NEW u \in Users, Quanta!CopyOut(u)
        PROVE  FetchInv'
    <2>1. upc[u] = "copyOut"
      BY <1>10 DEF Quanta!CopyOut, Quanta!Crash, Quanta!Return, Quanta!storeVars
    <2>2. UNCHANGED <<Q, S, set, block, length>>
      BY <1>10, <2>1, NoCrash DEF Quanta!CopyOut, Quanta!Crash, Quanta!Return, Quanta!storeVars,
         Quanta!callVars
    <2>3. \A v \in Users \ {u} : at'[v] = at[v] /\ n'[v] = n[v] /\ ptr'[v] = ptr[v]
      BY <1>m, <1>10, <2>1, NoCrash DEF Quanta!CopyOut, Quanta!Crash, Quanta!Return,
         Quanta!storeVars, Quanta!callVars, Amounts
    <2>4. upc' = [upc EXCEPT ![u] = "idle"]
      BY <1>10, <2>1, NoCrash DEF Quanta!CopyOut, Quanta!Crash, Quanta!Return, Quanta!storeVars
    <2>5. FetchShape(u)'
      BY <1>f, <2>4 DEF FetchShape, Fetching
    <2> QED BY <2>1, <2>2, <2>3, <2>4, <2>5, FetchQuiet
  <1>11. ASSUME NEW u \in Users, NEW m \in Lengths, Quanta!TestSet(u, m)
        PROVE  FetchInv'
    <2>1. upc[u] = "idle"
      BY <1>11 DEF Quanta!TestSet, Quanta!storeVars
    <2>2. UNCHANGED <<Q, S, set, block, length>>
      BY <1>11, <2>1 DEF Quanta!TestSet, Quanta!storeVars, Quanta!callVars
    <2>3. \A v \in Users \ {u} : at'[v] = at[v] /\ n'[v] = n[v] /\ ptr'[v] = ptr[v]
      BY <1>m, <1>11, <2>1 DEF Quanta!TestSet, Quanta!storeVars, Quanta!callVars, Amounts
    <2>4. \/ upc' = [upc EXCEPT ![u] = "idle"]
          \/ upc' = [upc EXCEPT ![u] = "allocSet"]
          \/ upc' = [upc EXCEPT ![u] = "testQuantum"]
      BY <1>11, <2>1 DEF Quanta!TestSet, Quanta!storeVars
    <2>5. FetchShape(u)'
      BY <1>f, <2>4 DEF FetchShape, Fetching
    <2> QED BY <2>1, <2>2, <2>3, <2>4, <2>5, FetchQuiet
  <1>12. ASSUME NEW u \in Users, Quanta!AllocSet(u)
        PROVE  FetchInv'
    <2>1. upc[u] = "allocSet"
      BY <1>12 DEF Quanta!AllocSet, Quanta!Return, Quanta!storeVars
    <2>2. UNCHANGED <<Q, S, length>>
      BY <1>12, <2>1 DEF Quanta!AllocSet, Quanta!Return, Quanta!storeVars, Quanta!callVars
    <2>3. \A v \in Users \ {u} : at'[v] = at[v] /\ n'[v] = n[v] /\ ptr'[v] = ptr[v]
      BY <1>m, <1>12, <2>1 DEF Quanta!AllocSet, Quanta!Return, Quanta!storeVars, Quanta!callVars,
         Amounts
    <2>4. \/ upc' = [upc EXCEPT ![u] = "idle"]
          \/ upc' = [upc EXCEPT ![u] = "clearSet"]
      BY <1>12, <2>1 DEF Quanta!AllocSet, Quanta!Return, Quanta!storeVars
    <2>5. FetchShape(u)'
      BY <1>f, <2>4 DEF FetchShape, Fetching
    <2>6. ~Quanta!IsSet(set)
      BY <2>1 DEF Core, ShapeInv, StepShape, Quanta!IsSet, Quanta!NULL
    <2> QED BY <2>6, <2>1, <2>2, <2>3, <2>4, <2>5, FetchKept DEF Emptying
  <1>13. ASSUME NEW u \in Users, Quanta!ClearSet(u)
        PROVE  FetchInv'
    <2>1. upc[u] = "clearSet"
      BY <1>13 DEF Quanta!ClearSet, Quanta!Crash, Quanta!storeVars
    <2>2. UNCHANGED <<Q, S, length>>
      BY <1>13, <2>1, NoCrash DEF Quanta!ClearSet, Quanta!Crash, Quanta!storeVars, Quanta!callVars
    <2>3. \A v \in Users \ {u} : at'[v] = at[v] /\ n'[v] = n[v] /\ ptr'[v] = ptr[v]
      BY <1>m, <1>13, <2>1, NoCrash DEF Quanta!ClearSet, Quanta!Crash, Quanta!storeVars,
         Quanta!callVars, Amounts
    <2>4. upc' = [upc EXCEPT ![u] = "testQuantum"]
      BY <1>13, <2>1, NoCrash DEF Quanta!ClearSet, Quanta!Crash, Quanta!storeVars
    <2>5. FetchShape(u)'
      BY <1>f, <2>4 DEF FetchShape, Fetching
    <2>6. ~Quanta!IsSet(set)
      BY <2>1 DEF Core, ShapeInv, StepShape
    <2> QED BY <2>6, <2>1, <2>2, <2>3, <2>4, <2>5, FetchKept DEF Emptying
  <1>14. ASSUME NEW u \in Users, Quanta!TestQuantum(u)
        PROVE  FetchInv'
    <2>1. upc[u] = "testQuantum"
      BY <1>14 DEF Quanta!TestQuantum, Quanta!Crash, Quanta!storeVars
    <2>2. UNCHANGED <<Q, S, set, block, length>>
      BY <1>14, <2>1, NoCrash DEF Quanta!TestQuantum, Quanta!Crash, Quanta!storeVars,
         Quanta!callVars
    <2>3. \A v \in Users \ {u} : at'[v] = at[v] /\ n'[v] = n[v] /\ ptr'[v] = ptr[v]
      BY <1>m, <1>14, <2>1, NoCrash DEF Quanta!TestQuantum, Quanta!Crash, Quanta!storeVars,
         Quanta!callVars, Amounts
    <2>4. \/ upc' = [upc EXCEPT ![u] = "allocQuantum"]
          \/ upc' = [upc EXCEPT ![u] = "loadIn"]
      BY <1>14, <2>1, NoCrash DEF Quanta!TestQuantum, Quanta!Crash, Quanta!storeVars
    <2>5. FetchShape(u)'
      BY <1>f, <2>4 DEF FetchShape, Fetching
    <2> QED BY <2>1, <2>2, <2>3, <2>4, <2>5, FetchQuiet
  <1>15. ASSUME NEW u \in Users, Quanta!AllocQuantum(u)
        PROVE  FetchInv'
    <2>1. /\ upc[u] = "allocQuantum" /\ UNCHANGED <<Q, S, set, length, at>>
          /\ \A v \in Users \ {u} : n'[v] = n[v] /\ ptr'[v] = ptr[v]
          /\ \A i \in 0..S-1 : block[set].slot[i] # 0 =>
                block'[set].slot[i] = block[set].slot[i]
      BY <1>15, QuantumAdded
    <2>2. PICK to \in {"idle", "loadIn"} : upc' = [upc EXCEPT ![u] = to]
      BY <1>15, QuantumAdded
    <2>3. FetchShape(u)'
      BY <1>f, <2>2 DEF FetchShape, Fetching
    <2>4. /\ set' = set /\ length \in Nat /\ length' \in Nat /\ length <= length'
          /\ \A i \in 0..S-1 : block[set].slot[i] # 0 =>
                block'[set].slot[i] = block[set].slot[i]
      BY <1>l, <2>1
    <2> QED BY <2>1, <2>2, <2>3, <2>4, FetchKept
  <1>16. ASSUME NEW u \in Users, Quanta!Load(u, "loadIn", "copyIn")
        PROVE  FetchInv'
    <2>1. upc[u] = "loadIn"
      BY <1>16 DEF Quanta!Load, Quanta!Crash, Quanta!storeVars
    <2>2. UNCHANGED <<Q, S, set, block, length>>
      BY <1>16, <2>1, NoCrash DEF Quanta!Load, Quanta!Crash, Quanta!storeVars, Quanta!callVars
    <2>3. \A v \in Users \ {u} : at'[v] = at[v] /\ n'[v] = n[v] /\ ptr'[v] = ptr[v]
      BY <1>m, <1>16, <2>1, NoCrash DEF Quanta!Load, Quanta!Crash, Quanta!storeVars,
         Quanta!callVars, Amounts
    <2>4. upc' = [upc EXCEPT ![u] = "copyIn"]
      BY <1>16, <2>1, NoCrash DEF Quanta!Load, Quanta!Crash, Quanta!storeVars
    <2>5. FetchShape(u)'
      BY <1>f, <2>4 DEF FetchShape, Fetching
    <2> QED BY <2>1, <2>2, <2>3, <2>4, <2>5, FetchQuiet
  <1>17. ASSUME NEW u \in Users, Quanta!CopyIn(u)
        PROVE  FetchInv'
    <2>1. /\ upc' = [upc EXCEPT ![u] = "testLength"]
          /\ UNCHANGED <<Q, S, set, length, n, ptr>> /\ block'[set] = block[set]
      BY <1>17, QuantumFilled
    <2>2. \E m \in Nat : at' = [at EXCEPT ![u] = @ + m]
      BY <1>17, QuantumFilled
    <2>3. \A v \in Users \ {u} : at'[v] = at[v] /\ n'[v] = n[v] /\ ptr'[v] = ptr[v]
      BY <1>m, <2>1, <2>2 DEF Amounts
    <2>4. FetchShape(u)'
      BY <1>f, <2>1 DEF FetchShape, Fetching
    <2>5. /\ set' = set /\ length \in Nat /\ length' \in Nat /\ length <= length'
          /\ \A i \in 0..S-1 : block[set].slot[i] # 0 =>
                block'[set].slot[i] = block[set].slot[i]
      BY <1>l, <2>1
    <2> QED BY <2>1, <2>3, <2>4, <2>5, FetchKept
  <1>18. ASSUME NEW u \in Users, Quanta!TestLength(u)
        PROVE  FetchInv'
    <2>1. upc[u] = "testLength"
      BY <1>18 DEF Quanta!TestLength, Quanta!Return, Quanta!storeVars
    <2>2. UNCHANGED <<Q, S, set, block, length>>
      BY <1>18, <2>1 DEF Quanta!TestLength, Quanta!Return, Quanta!storeVars, Quanta!callVars
    <2>3. \A v \in Users \ {u} : at'[v] = at[v] /\ n'[v] = n[v] /\ ptr'[v] = ptr[v]
      BY <1>m, <1>18, <2>1 DEF Quanta!TestLength, Quanta!Return, Quanta!storeVars,
         Quanta!callVars, Amounts
    <2>4. \/ upc' = [upc EXCEPT ![u] = "idle"]
          \/ upc' = [upc EXCEPT ![u] = "setLength"]
      BY <1>18, <2>1 DEF Quanta!TestLength, Quanta!Return, Quanta!storeVars
    <2>5. FetchShape(u)'
      BY <1>f, <2>4 DEF FetchShape, Fetching
    <2> QED BY <2>1, <2>2, <2>3, <2>4, <2>5, FetchQuiet
  <1>19. ASSUME NEW u \in Users, Quanta!SetLength(u)
        PROVE  FetchInv'
    <2>1. /\ upc[u] = "setLength" /\ upc' = [upc EXCEPT ![u] = "idle"]
          /\ UNCHANGED <<Q, S, set, block>> /\ length' = at[u]
      BY <1>19 DEF Quanta!SetLength, Quanta!Return
    <2>2. \A v \in Users \ {u} : at'[v] = at[v] /\ n'[v] = n[v] /\ ptr'[v] = ptr[v]
      BY <1>m, <1>19 DEF Quanta!SetLength, Quanta!Return, Amounts
    <2>3. length < at[u]
      BY <2>1 DEF Core, SizeInv
    <2>4. FetchShape(u)'
      BY <1>f, <2>1 DEF FetchShape, Fetching
    <2>5. /\ set' = set /\ length \in Nat /\ length' \in Nat /\ length <= length'
          /\ \A i \in 0..S-1 : block[set].slot[i] # 0 =>
                block'[set].slot[i] = block[set].slot[i]
      BY <1>l, <2>1, <2>3
    <2> QED BY <2>1, <2>2, <2>4, <2>5, FetchKept
  <1>20. CASE UNCHANGED Quanta!vars
    BY <1>20 DEF Quanta!vars, Quanta!storeVars, Quanta!callVars, Core, FetchInv, FetchShape
  <1>21. CASE Quanta!sc1_init
    BY <1>21 DEF Quanta!sc1_init, Quanta!storeVars, Quanta!callVars, Core, FetchInv, FetchShape
  <1>22. ASSUME NEW u \in Users, Quanta!EarlyCall(u)
        PROVE  FetchInv'
    BY <1>22, NoEarly DEF Core
  <1> QED
    BY <1>1, <1>2, <1>3, <1>4, <1>5, <1>6, <1>7, <1>8, <1>9, <1>10, <1>11, <1>12, <1>13, <1>14,
       <1>15, <1>16, <1>17, <1>18, <1>19, <1>20, <1>21, <1>22
    DEF Quanta!Next, Quanta!User, Quanta!sc1_trim, Quanta!sc1_read, Quanta!sc1_write

\* A step of one process that leaves the size alone leaves the looks of the others.
LEMMA LookQuiet ==
    ASSUME Base, Core, NEW u \in Users, NEW to, upc' = [upc EXCEPT ![u] = to], length' = length,
           \A v \in Users \ {u} : /\ at'[v] = at[v] /\ n'[v] = n[v]
                                  /\ asked'[v] = asked[v] /\ grown'[v] = grown[v],
           LookShape(u)'
    PROVE  LookInv'
  <1> SUFFICES ASSUME NEW v \in Users \ {u} PROVE LookShape(v)'
    BY DEF LookInv
  <1>1. upc'[v] = upc[v] /\ at'[v] = at[v] /\ n'[v] = n[v] /\ asked'[v] = asked[v]
    BY DEF Base, ModeNames
  <1>2. grown'[v] = grown[v] /\ LookShape(v)
    BY DEF Core, LookInv
  <1> QED BY <1>1, <1>2 DEF LookShape

\* A read copies no more than it was called for, unless the file grows between its looks.
LEMMA LookStep ==
    ASSUME Base, Core, [Quanta!Next]_Quanta!vars, ~misused'
    PROVE  LookInv'
  <1>f. \A u \in Users : \A to : upc' = [upc EXCEPT ![u] = to] => upc'[u] = to
    BY DEF Base, ModeNames
  <1>l. /\ length \in Nat
        /\ \A v \in Users : at[v] \in Nat /\ n[v] \in Nat /\ asked[v] \in Nat
    BY Positions DEF Base, Amounts, LookTypes
  <1>m. ModeNames /\ Amounts /\ LookTypes
    BY DEF Base
  <1> USE DEF Quanta!Go, Quanta!history, Quanta!looks
  <1>1. CASE Quanta!sc1_cleanup
    <2>1. \A v \in Users : upc'[v] = "idle"
      BY <1>1 DEF Quanta!sc1_cleanup, Base, ModeInv
    <2> QED BY <2>1 DEF LookInv, LookShape
  <1>2. ASSUME NEW u \in Users, Quanta!sc1_open(u)
        PROVE  LookInv'
    <2>1. upc[u] = "idle"
      BY <1>2 DEF Quanta!sc1_open
    <2>2. upc' = [upc EXCEPT ![u] = "idle"] \/ upc' = [upc EXCEPT ![u] = "freeQuanta"]
      BY <1>2, <2>1 DEF Quanta!sc1_open
    <2>3. /\ UNCHANGED <<length, asked, grown>>
          /\ \A v \in Users \ {u} : at'[v] = at[v] /\ n'[v] = n[v]
      BY <1>2, <1>m, <2>1 DEF Quanta!sc1_open, Quanta!storeVars, Quanta!callVars, Amounts
    <2>4. LookShape(u)'
      BY <1>f, <2>2 DEF LookShape
    <2> QED BY <2>2, <2>3, <2>4, LookQuiet
  <1>3. ASSUME NEW u \in Users, Quanta!sc1_release(u)
        PROVE  LookInv'
    <2>1. upc[u] = "idle"
      BY <1>3 DEF Quanta!sc1_release
    <2>2. upc' = [upc EXCEPT ![u] = "idle"]
      BY <1>3, <2>1 DEF Quanta!sc1_release
    <2>3. /\ UNCHANGED <<length, asked, grown>>
          /\ \A v \in Users \ {u} : at'[v] = at[v] /\ n'[v] = n[v]
      BY <1>3, <1>m, <2>1 DEF Quanta!sc1_release, Quanta!storeVars, Quanta!callVars, Amounts
    <2>4. LookShape(u)'
      BY <1>f, <2>2 DEF LookShape
    <2> QED BY <2>2, <2>3, <2>4, LookQuiet
  <1>4. ASSUME NEW u \in Users, Quanta!FreeQuanta(u)
        PROVE  LookInv'
    <2>1. upc[u] = "freeQuanta"
      BY <1>4 DEF Quanta!FreeQuanta, Quanta!Crash, Quanta!NULL
    <2>2. upc' = [upc EXCEPT ![u] = "freeSet"] \/ upc' = [upc EXCEPT ![u] = "empty"]
      BY <1>4, <2>1, NoCrash DEF Quanta!FreeQuanta, Quanta!Crash, Quanta!NULL
    <2>3. /\ UNCHANGED <<length, asked, grown>>
          /\ \A v \in Users \ {u} : at'[v] = at[v] /\ n'[v] = n[v]
      BY <1>4, <1>m, <2>1, NoCrash DEF Quanta!FreeQuanta, Quanta!Crash, Quanta!NULL,
         Quanta!storeVars, Quanta!callVars, Amounts
    <2>4. LookShape(u)'
      BY <1>f, <2>2 DEF LookShape
    <2> QED BY <2>2, <2>3, <2>4, LookQuiet
  <1>5. ASSUME NEW u \in Users, Quanta!FreeSet(u)
        PROVE  LookInv'
    <2>1. upc[u] = "freeSet"
      BY <1>5 DEF Quanta!FreeSet
    <2>2. upc' = [upc EXCEPT ![u] = "empty"]
      BY <1>5, <2>1 DEF Quanta!FreeSet
    <2>3. /\ UNCHANGED <<length, asked, grown>>
          /\ \A v \in Users \ {u} : at'[v] = at[v] /\ n'[v] = n[v]
      BY <1>5, <1>m, <2>1 DEF Quanta!FreeSet, Quanta!storeVars, Quanta!callVars, Amounts
    <2>4. LookShape(u)'
      BY <1>f, <2>2 DEF LookShape
    <2> QED BY <2>2, <2>3, <2>4, LookQuiet
  <1>6. ASSUME NEW u \in Users, Quanta!Empty(u)
        PROVE  LookInv'
    <2>1. upc[u] = "empty" /\ upc' = [upc EXCEPT ![u] = "idle"]
      BY <1>6 DEF Quanta!Empty
    <2>2. \A v \in Users : upc'[v] = "idle"
      BY <2>1, Alone DEF Base, Core, Emptying, ModeNames
    <2> QED BY <2>2 DEF LookInv, LookShape
  <1>7. ASSUME NEW u \in Users, NEW m \in Lengths, Quanta!TestPos(u, m)
        PROVE  LookInv'
    <2>1. /\ upc' = [upc EXCEPT ![u] = "testLeft"] /\ n' = [n EXCEPT ![u] = m]
          /\ asked' = [asked EXCEPT ![u] = m] /\ grown' = [grown EXCEPT ![u] = FALSE]
          /\ UNCHANGED <<length, at>>
      BY <1>7 DEF Quanta!TestPos, Quanta!storeVars
    <2>2. LookShape(u)'
      BY <1>m, <2>1 DEF LookShape, Amounts, LookTypes, ModeNames
    <2> QED BY <1>m, <2>1, <2>2, LookQuiet DEF Amounts, LookTypes
  <1>8. ASSUME NEW u \in Users, Quanta!TestLeft(u) \/ Quanta!SetToLeft(u)
        PROVE  LookInv'
    <2>1. /\ UNCHANGED <<length, at, asked, grown>>
          /\ \/ /\ upc[u] = "testLeft" /\ upc' = [upc EXCEPT ![u] = "lower"] /\ n' = n
                /\ length < at[u] \/ length - at[u] < n[u]
             \/ /\ upc[u] \in {"testLeft", "lower"} /\ upc' = [upc EXCEPT ![u] = "loadOut"]
                /\ \E c \in Nat :
                     /\ n' = [n EXCEPT ![u] = c]
                     /\ upc[u] = "testLeft" => c <= n[u]
                     /\ at[u] <= length => c <= length - at[u]
      BY <1>8, <1>m, LooksAre
    <2>2. at[u] < length /\ LookShape(u)
      BY <2>1 DEF Core, FetchInv, FetchShape, Fetching, LookInv
    <2>3. ASSUME upc[u] = "testLeft", upc' = [upc EXCEPT ![u] = "lower"], n' = n,
                 length < at[u] \/ length - at[u] < n[u]
          PROVE  LookInv'
      <3>0. n[u] = asked[u]
        BY <2>2, <2>3 DEF LookShape
      <3>1. length < at[u] + asked[u] /\ n[u] = asked[u]
        BY <1>l, <2>2, <2>3, <3>0
      <3>2. LookShape(u)'
        BY <1>f, <2>1, <2>3, <3>1 DEF LookShape
      <3> QED BY <2>1, <2>3, <3>2, LookQuiet
    <2>4. ASSUME NEW c \in Nat, upc[u] \in {"testLeft", "lower"},
                 upc' = [upc EXCEPT ![u] = "loadOut"], n' = [n EXCEPT ![u] = c],
                 upc[u] = "testLeft" => c <= n[u], c <= length - at[u]
          PROVE  LookInv'
      <3>1. c <= asked[u] \/ grown[u]
        BY <1>l, <2>2, <2>4 DEF LookShape
      <3>2. /\ upc'[u] = "loadOut" /\ n'[u] = c
            /\ \A v \in Users \ {u} : n'[v] = n[v]
        BY <1>f, <1>m, <2>4 DEF Amounts
      <3>3. LookShape(u)'
        BY <2>1, <3>1, <3>2 DEF LookShape
      <3> QED BY <2>1, <2>4, <3>2, <3>3, LookQuiet
    <2>5. at[u] <= length
      BY <1>l, <2>2
    <2> QED BY <2>1, <2>3, <2>4, <2>5
  <1>9. ASSUME NEW u \in Users, Quanta!Load(u, "loadOut", "copyOut")
        PROVE  LookInv'
    <2>1. upc[u] = "loadOut"
      BY <1>9 DEF Quanta!Load, Quanta!Crash
    <2>2. upc' = [upc EXCEPT ![u] = "copyOut"] /\ UNCHANGED <<length, at, n, asked, grown>>
      BY <1>9, <2>1, NoCrash DEF Quanta!Load, Quanta!Crash, Quanta!storeVars
    <2>3. LookShape(u)
      BY DEF Core, LookInv
    <2>4. LookShape(u)'
      BY <1>f, <2>1, <2>2, <2>3 DEF LookShape
    <2> QED BY <2>2, <2>4, LookQuiet
  <1>10. ASSUME NEW u \in Users, Quanta!CopyOut(u)
        PROVE  LookInv'
    <2>1. upc[u] = "copyOut"
      BY <1>10 DEF Quanta!CopyOut, Quanta!Crash, Quanta!Return
    <2>2. /\ upc' = [upc EXCEPT ![u] = "idle"] /\ UNCHANGED length
          /\ n' = [n EXCEPT ![u] = 0] /\ at' = [at EXCEPT ![u] = at[u] + n[u]]
          /\ asked' = [asked EXCEPT ![u] = 0] /\ grown' = [grown EXCEPT ![u] = FALSE]
      BY <1>10, <2>1, NoCrash DEF Quanta!CopyOut, Quanta!Return, Quanta!storeVars
    <2>3. LookShape(u)'
      BY <1>f, <2>2 DEF LookShape
    <2> QED BY <1>m, <2>2, <2>3, LookQuiet DEF Amounts, LookTypes
  <1>11. ASSUME NEW u \in Users, NEW m \in Lengths, Quanta!TestSet(u, m)
        PROVE  LookInv'
    <2>1. upc[u] = "idle"
      BY <1>11 DEF Quanta!TestSet
    <2>2. \/ upc' = [upc EXCEPT ![u] = "idle"]
          \/ upc' = [upc EXCEPT ![u] = "allocSet"]
          \/ upc' = [upc EXCEPT ![u] = "testQuantum"]
      BY <1>11, <2>1 DEF Quanta!TestSet
    <2>3. /\ UNCHANGED <<length, asked, grown>>
          /\ \A v \in Users \ {u} : at'[v] = at[v] /\ n'[v] = n[v]
      BY <1>11, <1>m, <2>1 DEF Quanta!TestSet, Quanta!storeVars, Quanta!callVars, Amounts
    <2>4. LookShape(u)'
      BY <1>f, <2>2 DEF LookShape
    <2> QED BY <2>2, <2>3, <2>4, LookQuiet
  <1>12. ASSUME NEW u \in Users, Quanta!AllocSet(u)
        PROVE  LookInv'
    <2>1. upc[u] = "allocSet"
      BY <1>12 DEF Quanta!AllocSet, Quanta!Return
    <2>2. upc' = [upc EXCEPT ![u] = "idle"] \/ upc' = [upc EXCEPT ![u] = "clearSet"]
      BY <1>12, <2>1 DEF Quanta!AllocSet, Quanta!Return
    <2>3. /\ UNCHANGED <<length, asked, grown>>
          /\ \A v \in Users \ {u} : at'[v] = at[v] /\ n'[v] = n[v]
      BY <1>12, <1>m, <2>1 DEF Quanta!AllocSet, Quanta!Return, Quanta!storeVars,
         Quanta!callVars, Amounts
    <2>4. LookShape(u)'
      BY <1>f, <2>2 DEF LookShape
    <2> QED BY <2>2, <2>3, <2>4, LookQuiet
  <1>13. ASSUME NEW u \in Users, Quanta!ClearSet(u)
        PROVE  LookInv'
    <2>1. upc[u] = "clearSet"
      BY <1>13 DEF Quanta!ClearSet, Quanta!Crash
    <2>2. upc' = [upc EXCEPT ![u] = "testQuantum"]
      BY <1>13, <2>1, NoCrash DEF Quanta!ClearSet, Quanta!Crash
    <2>3. /\ UNCHANGED <<length, asked, grown>>
          /\ \A v \in Users \ {u} : at'[v] = at[v] /\ n'[v] = n[v]
      BY <1>13, <1>m, <2>1, NoCrash DEF Quanta!ClearSet, Quanta!Crash, Quanta!storeVars,
         Quanta!callVars, Amounts
    <2>4. LookShape(u)'
      BY <1>f, <2>2 DEF LookShape
    <2> QED BY <2>2, <2>3, <2>4, LookQuiet
  <1>14. ASSUME NEW u \in Users, Quanta!TestQuantum(u)
        PROVE  LookInv'
    <2>1. upc[u] = "testQuantum"
      BY <1>14 DEF Quanta!TestQuantum, Quanta!Crash
    <2>2. upc' = [upc EXCEPT ![u] = "allocQuantum"] \/ upc' = [upc EXCEPT ![u] = "loadIn"]
      BY <1>14, <2>1, NoCrash DEF Quanta!TestQuantum, Quanta!Crash
    <2>3. /\ UNCHANGED <<length, asked, grown>>
          /\ \A v \in Users \ {u} : at'[v] = at[v] /\ n'[v] = n[v]
      BY <1>14, <1>m, <2>1, NoCrash DEF Quanta!TestQuantum, Quanta!Crash, Quanta!storeVars,
         Quanta!callVars, Amounts
    <2>4. LookShape(u)'
      BY <1>f, <2>2 DEF LookShape
    <2> QED BY <2>2, <2>3, <2>4, LookQuiet
  <1>15. ASSUME NEW u \in Users, Quanta!AllocQuantum(u)
        PROVE  LookInv'
    <2>1. upc[u] = "allocQuantum"
      BY <1>15 DEF Quanta!AllocQuantum, Quanta!Crash, Quanta!Return
    <2>2. upc' = [upc EXCEPT ![u] = "idle"] \/ upc' = [upc EXCEPT ![u] = "loadIn"]
      BY <1>15, <2>1, NoCrash DEF Quanta!AllocQuantum, Quanta!Crash, Quanta!Return
    <2>3. /\ UNCHANGED <<length, asked, grown>>
          /\ \A v \in Users \ {u} : at'[v] = at[v] /\ n'[v] = n[v]
      BY <1>15, <1>m, <2>1, NoCrash DEF Quanta!AllocQuantum, Quanta!Crash, Quanta!Return,
         Quanta!storeVars, Quanta!callVars, Amounts
    <2>4. LookShape(u)'
      BY <1>f, <2>2 DEF LookShape
    <2> QED BY <2>2, <2>3, <2>4, LookQuiet
  <1>16. ASSUME NEW u \in Users, Quanta!Load(u, "loadIn", "copyIn")
        PROVE  LookInv'
    <2>1. upc[u] = "loadIn"
      BY <1>16 DEF Quanta!Load, Quanta!Crash
    <2>2. upc' = [upc EXCEPT ![u] = "copyIn"]
      BY <1>16, <2>1, NoCrash DEF Quanta!Load, Quanta!Crash
    <2>3. /\ UNCHANGED <<length, asked, grown>>
          /\ \A v \in Users \ {u} : at'[v] = at[v] /\ n'[v] = n[v]
      BY <1>16, <1>m, <2>1, NoCrash DEF Quanta!Load, Quanta!Crash, Quanta!storeVars,
         Quanta!callVars, Amounts
    <2>4. LookShape(u)'
      BY <1>f, <2>2 DEF LookShape
    <2> QED BY <2>2, <2>3, <2>4, LookQuiet
  <1>17. ASSUME NEW u \in Users, Quanta!CopyIn(u)
        PROVE  LookInv'
    <2>1. upc[u] = "copyIn"
      BY <1>17 DEF Quanta!CopyIn, Quanta!Crash
    <2>2. upc' = [upc EXCEPT ![u] = "testLength"]
      BY <1>17, <2>1, NoCrash DEF Quanta!CopyIn, Quanta!Crash
    <2>3. /\ UNCHANGED <<length, asked, grown>>
          /\ \A v \in Users \ {u} : at'[v] = at[v] /\ n'[v] = n[v]
      BY <1>17, <1>m, <2>1, NoCrash DEF Quanta!CopyIn, Quanta!Crash, Quanta!storeVars,
         Quanta!callVars, Amounts
    <2>4. LookShape(u)'
      BY <1>f, <2>2 DEF LookShape
    <2> QED BY <2>2, <2>3, <2>4, LookQuiet
  <1>18. ASSUME NEW u \in Users, Quanta!TestLength(u)
        PROVE  LookInv'
    <2>1. upc[u] = "testLength"
      BY <1>18 DEF Quanta!TestLength, Quanta!Return
    <2>2. upc' = [upc EXCEPT ![u] = "idle"] \/ upc' = [upc EXCEPT ![u] = "setLength"]
      BY <1>18, <2>1 DEF Quanta!TestLength, Quanta!Return
    <2>3. /\ UNCHANGED <<length, asked, grown>>
          /\ \A v \in Users \ {u} : at'[v] = at[v] /\ n'[v] = n[v]
      BY <1>18, <1>m, <2>1 DEF Quanta!TestLength, Quanta!Return, Quanta!storeVars,
         Quanta!callVars, Amounts
    <2>4. LookShape(u)'
      BY <1>f, <2>2 DEF LookShape
    <2> QED BY <2>2, <2>3, <2>4, LookQuiet
  <1>19. ASSUME NEW u \in Users, Quanta!SetLength(u)
        PROVE  LookInv'
    <2>1. /\ upc[u] = "setLength" /\ upc' = [upc EXCEPT ![u] = "idle"] /\ length' = at[u]
          /\ at' = [at EXCEPT ![u] = at[u]] /\ n' = [n EXCEPT ![u] = 0] /\ asked' = asked
          /\ grown' = [v \in Users |-> grown[v] \/ (length < at[u] /\ upc[v] = "lower")]
      BY <1>19 DEF Quanta!SetLength, Quanta!Return
    <2>2. length < at[u]
      BY <2>1 DEF Core, SizeInv
    <2>3. ASSUME NEW v \in Users PROVE LookShape(v)'
      <3>1. CASE v = u
        BY <1>f, <2>1, <3>1 DEF LookShape
      <3>2. CASE v # u
        <4>1. upc'[v] = upc[v] /\ n'[v] = n[v] /\ at'[v] = at[v] /\ LookShape(v)
          BY <1>m, <2>1, <3>2 DEF Core, LookInv, Amounts, ModeNames
        <4>2. (upc[v] = "lower" => grown'[v]) /\ (grown[v] => grown'[v])
          BY <2>1, <2>2
        <4> QED BY <2>1, <4>1, <4>2 DEF LookShape
      <3> QED BY <3>1, <3>2
    <2> QED BY <2>3 DEF LookInv
  <1>20. CASE UNCHANGED Quanta!vars
    BY <1>20 DEF Quanta!vars, Quanta!storeVars, Quanta!callVars, Core, LookInv, LookShape
  <1>21. CASE Quanta!sc1_init
    BY <1>21 DEF Quanta!sc1_init, Quanta!storeVars, Quanta!callVars, Core, LookInv, LookShape
  <1>22. ASSUME NEW u \in Users, Quanta!EarlyCall(u)
        PROVE  LookInv'
    BY <1>22, NoEarly DEF Core
  <1> QED
    BY <1>1, <1>2, <1>3, <1>4, <1>5, <1>6, <1>7, <1>8, <1>9, <1>10, <1>11, <1>12, <1>13, <1>14,
       <1>15, <1>16, <1>17, <1>18, <1>19, <1>20, <1>21, <1>22
    DEF Quanta!Next, Quanta!User, Quanta!sc1_trim, Quanta!sc1_read, Quanta!sc1_write

\* No call goes through a bad pointer.
LEMMA BadStep ==
    ASSUME Base, Core, [Quanta!Next]_Quanta!vars, ~misused'
    PROVE  ~bad'
  <1>b. ~bad
    BY DEF Core
  <1> USE DEF Quanta!Go
  <1>1. CASE Quanta!sc1_cleanup
    BY <1>1, <1>b DEF Quanta!sc1_cleanup, Quanta!Kfree
  <1>2. ASSUME NEW u \in Users, Quanta!sc1_open(u)
        PROVE  ~bad'
    BY <1>2, <1>b DEF Quanta!sc1_open, Quanta!Others, Quanta!Trimming
  <1>3. ASSUME NEW u \in Users, Quanta!sc1_release(u)
        PROVE  ~bad'
    BY <1>3, <1>b DEF Quanta!sc1_release
  <1>4. ASSUME NEW u \in Users, Quanta!FreeQuanta(u)
        PROVE  ~bad'
    <2>1. upc[u] = "freeQuanta"
      BY <1>4 DEF Quanta!FreeQuanta, Quanta!Crash, Quanta!Return
    <2> QED BY <1>b, <1>4, <2>1, NoCrash DEF Quanta!FreeQuanta, Quanta!Crash, Quanta!Return,
       Quanta!NULL
  <1>5. ASSUME NEW u \in Users, Quanta!FreeSet(u)
        PROVE  ~bad'
    BY <1>5, <1>b DEF Quanta!FreeSet, Quanta!Kfree
  <1>6. ASSUME NEW u \in Users, Quanta!Empty(u)
        PROVE  ~bad'
    BY <1>6, <1>b DEF Quanta!Empty
  <1>7. ASSUME NEW u \in Users, NEW m \in Lengths, Quanta!TestPos(u, m)
        PROVE  ~bad'
    BY <1>7, <1>b DEF Quanta!TestPos
  <1>8. ASSUME NEW u \in Users, Quanta!TestLeft(u) \/ Quanta!SetToLeft(u)
        PROVE  ~bad'
    BY <1>8, <1>b DEF Quanta!TestLeft, Quanta!SetToLeft, Quanta!ToCopy
  <1>9. ASSUME NEW u \in Users, Quanta!Load(u, "loadOut", "copyOut")
        PROVE  ~bad'
    <2>1. upc[u] = "loadOut"
      BY <1>9 DEF Quanta!Load, Quanta!Crash, Quanta!Return
    <2> QED BY <1>b, <1>9, <2>1, NoCrash DEF Quanta!Load, Quanta!Crash, Quanta!Return
  <1>10. ASSUME NEW u \in Users, Quanta!CopyOut(u)
        PROVE  ~bad'
    <2>1. upc[u] = "copyOut"
      BY <1>10 DEF Quanta!CopyOut, Quanta!Crash, Quanta!Return
    <2> QED BY <1>b, <1>10, <2>1, NoCrash DEF Quanta!CopyOut, Quanta!Crash, Quanta!Return
  <1>11. ASSUME NEW u \in Users, NEW m \in Lengths, Quanta!TestSet(u, m)
        PROVE  ~bad'
    BY <1>11, <1>b DEF Quanta!TestSet
  <1>12. ASSUME NEW u \in Users, Quanta!AllocSet(u)
        PROVE  ~bad'
    BY <1>12, <1>b DEF Quanta!AllocSet, Quanta!Return
  <1>13. ASSUME NEW u \in Users, Quanta!ClearSet(u)
        PROVE  ~bad'
    <2>1. upc[u] = "clearSet"
      BY <1>13 DEF Quanta!ClearSet, Quanta!Crash, Quanta!Return
    <2> QED BY <1>b, <1>13, <2>1, NoCrash DEF Quanta!ClearSet, Quanta!Crash, Quanta!Return
  <1>14. ASSUME NEW u \in Users, Quanta!TestQuantum(u)
        PROVE  ~bad'
    <2>1. upc[u] = "testQuantum"
      BY <1>14 DEF Quanta!TestQuantum, Quanta!Crash, Quanta!Return
    <2> QED BY <1>b, <1>14, <2>1, NoCrash DEF Quanta!TestQuantum, Quanta!Crash, Quanta!Return
  <1>15. ASSUME NEW u \in Users, Quanta!AllocQuantum(u)
        PROVE  ~bad'
    <2>1. upc[u] = "allocQuantum"
      BY <1>15 DEF Quanta!AllocQuantum, Quanta!Crash, Quanta!Return
    <2> QED BY <1>b, <1>15, <2>1, NoCrash DEF Quanta!AllocQuantum, Quanta!Crash, Quanta!Return
  <1>16. ASSUME NEW u \in Users, Quanta!Load(u, "loadIn", "copyIn")
        PROVE  ~bad'
    <2>1. upc[u] = "loadIn"
      BY <1>16 DEF Quanta!Load, Quanta!Crash, Quanta!Return
    <2> QED BY <1>b, <1>16, <2>1, NoCrash DEF Quanta!Load, Quanta!Crash, Quanta!Return
  <1>17. ASSUME NEW u \in Users, Quanta!CopyIn(u)
        PROVE  ~bad'
    <2>1. upc[u] = "copyIn"
      BY <1>17 DEF Quanta!CopyIn, Quanta!Crash, Quanta!Return
    <2> QED BY <1>b, <1>17, <2>1, NoCrash DEF Quanta!CopyIn, Quanta!Crash, Quanta!Return
  <1>18. ASSUME NEW u \in Users, Quanta!TestLength(u)
        PROVE  ~bad'
    BY <1>18, <1>b DEF Quanta!TestLength, Quanta!Return
  <1>19. ASSUME NEW u \in Users, Quanta!SetLength(u)
        PROVE  ~bad'
    BY <1>19, <1>b DEF Quanta!SetLength, Quanta!Return
  <1>20. CASE UNCHANGED Quanta!vars
    BY <1>20, <1>b DEF Quanta!vars
  <1>21. CASE Quanta!sc1_init
    BY <1>21, <1>b DEF Quanta!sc1_init
  <1>22. ASSUME NEW u \in Users, Quanta!EarlyCall(u)
        PROVE  ~bad'
    BY <1>22, NoEarly DEF Core
  <1> QED
    BY <1>1, <1>2, <1>3, <1>4, <1>5, <1>6, <1>7, <1>8, <1>9, <1>10, <1>11, <1>12, <1>13, <1>14,
       <1>15, <1>16, <1>17, <1>18, <1>19, <1>20, <1>21, <1>22
    DEF Quanta!Next, Quanta!User, Quanta!sc1_trim, Quanta!sc1_read, Quanta!sc1_write
-----------------------------------------------------------------------------
(* The invariant *)

\* A device that is not misused stays as it should be.
LEMMA CoreStep ==
    ASSUME Base, Core, [Quanta!Next]_Quanta!vars, ~misused'
    PROVE  Core'
  <1>1. ~bad'
    BY BadStep
  <1>2. OneWriter'
    BY OneWriterStep DEF Base, Core
  <1>3. ShapeInv'
    BY ShapeStep
  <1>4. SizeInv'
    BY SizeStep
  <1>5. DataInv'
    BY DataStep
  <1>6. FetchInv'
    BY FetchStep
  <1>7. NotEarly'
    BY NotEarlyStep DEF Base, Core
  <1>8. LookInv'
    BY LookStep
  <1> QED BY <1>1, <1>2, <1>3, <1>4, <1>5, <1>6, <1>7, <1>8 DEF Core

\* Q and S keep the values that sc1_init stores.
LEMMA SameGeometry ==
    ASSUME [Quanta!Next]_Quanta!vars
    PROVE  UNCHANGED <<Q, S>>
  <1> USE DEF Quanta!storeVars
  <1>1. CASE Quanta!sc1_cleanup
    BY <1>1 DEF Quanta!sc1_cleanup, Quanta!Kfree
  <1>2. ASSUME NEW u \in Users, Quanta!sc1_open(u)
        PROVE  UNCHANGED <<Q, S>>
    BY <1>2 DEF Quanta!sc1_open, Quanta!Others, Quanta!Trimming
  <1>3. ASSUME NEW u \in Users, Quanta!sc1_release(u)
        PROVE  UNCHANGED <<Q, S>>
    BY <1>3 DEF Quanta!sc1_release
  <1>4. ASSUME NEW u \in Users, Quanta!FreeQuanta(u)
        PROVE  UNCHANGED <<Q, S>>
    BY <1>4 DEF Quanta!FreeQuanta, Quanta!Crash, Quanta!Kfree
  <1>5. ASSUME NEW u \in Users, Quanta!FreeSet(u)
        PROVE  UNCHANGED <<Q, S>>
    BY <1>5 DEF Quanta!FreeSet, Quanta!Kfree
  <1>6. ASSUME NEW u \in Users, Quanta!Empty(u)
        PROVE  UNCHANGED <<Q, S>>
    BY <1>6 DEF Quanta!Empty
  <1>7. ASSUME NEW u \in Users, NEW m \in Lengths, Quanta!TestPos(u, m)
        PROVE  UNCHANGED <<Q, S>>
    BY <1>7 DEF Quanta!TestPos
  <1>8. ASSUME NEW u \in Users, Quanta!TestLeft(u) \/ Quanta!SetToLeft(u)
        PROVE  UNCHANGED <<Q, S>>
    BY <1>8 DEF Quanta!TestLeft, Quanta!SetToLeft, Quanta!ToCopy
  <1>9. ASSUME NEW u \in Users, Quanta!Load(u, "loadOut", "copyOut")
        PROVE  UNCHANGED <<Q, S>>
    BY <1>9 DEF Quanta!Load, Quanta!Crash
  <1>10. ASSUME NEW u \in Users, Quanta!CopyOut(u)
        PROVE  UNCHANGED <<Q, S>>
    BY <1>10 DEF Quanta!CopyOut, Quanta!Crash, Quanta!Return
  <1>11. ASSUME NEW u \in Users, NEW m \in Lengths, Quanta!TestSet(u, m)
        PROVE  UNCHANGED <<Q, S>>
    BY <1>11 DEF Quanta!TestSet
  <1>12. ASSUME NEW u \in Users, Quanta!AllocSet(u)
        PROVE  UNCHANGED <<Q, S>>
    BY <1>12 DEF Quanta!AllocSet, Quanta!Return
  <1>13. ASSUME NEW u \in Users, Quanta!ClearSet(u)
        PROVE  UNCHANGED <<Q, S>>
    BY <1>13 DEF Quanta!ClearSet, Quanta!Crash
  <1>14. ASSUME NEW u \in Users, Quanta!TestQuantum(u)
        PROVE  UNCHANGED <<Q, S>>
    BY <1>14 DEF Quanta!TestQuantum, Quanta!Crash
  <1>15. ASSUME NEW u \in Users, Quanta!AllocQuantum(u)
        PROVE  UNCHANGED <<Q, S>>
    BY <1>15 DEF Quanta!AllocQuantum, Quanta!Crash, Quanta!Return
  <1>16. ASSUME NEW u \in Users, Quanta!Load(u, "loadIn", "copyIn")
        PROVE  UNCHANGED <<Q, S>>
    BY <1>16 DEF Quanta!Load, Quanta!Crash
  <1>17. ASSUME NEW u \in Users, Quanta!CopyIn(u)
        PROVE  UNCHANGED <<Q, S>>
    BY <1>17 DEF Quanta!CopyIn, Quanta!Crash
  <1>18. ASSUME NEW u \in Users, Quanta!TestLength(u)
        PROVE  UNCHANGED <<Q, S>>
    BY <1>18 DEF Quanta!TestLength, Quanta!Return
  <1>19. ASSUME NEW u \in Users, Quanta!SetLength(u)
        PROVE  UNCHANGED <<Q, S>>
    BY <1>19 DEF Quanta!SetLength, Quanta!Return
  <1>20. CASE UNCHANGED Quanta!vars
    BY <1>20 DEF Quanta!vars
  <1>21. CASE Quanta!sc1_init
    BY <1>21 DEF Quanta!sc1_init
  <1>22. ASSUME NEW u \in Users, Quanta!EarlyCall(u)
        PROVE  UNCHANGED <<Q, S>>
    BY <1>22, EarlyIs
  <1> QED
    BY <1>1, <1>2, <1>3, <1>4, <1>5, <1>6, <1>7, <1>8, <1>9, <1>10, <1>11, <1>12, <1>13, <1>14,
       <1>15, <1>16, <1>17, <1>18, <1>19, <1>20, <1>21, <1>22
    DEF Quanta!Next, Quanta!User, Quanta!sc1_trim, Quanta!sc1_read, Quanta!sc1_write

\* The invariant holds before insmod.
LEMMA QuantaInit ==
    ASSUME Quanta!Init
    PROVE  QuantaInv
  <1>1. PICK g \in Geometries : Q = g[1] /\ S = g[2]
    BY DEF Quanta!Init
  <1>2. Q \in Nat \ {0} /\ S \in Nat \ {0} /\ g = <<Q, S>>
    BY <1>1, QuantaAssumption
  <1>3. Room(Q, S) \in Nat
    BY <1>2, RowInside
  <1>4. /\ stage = "register" /\ set = 0 /\ length = 0 /\ block = [b \in Blocks |-> Quanta!Free]
        /\ upc = [u \in Users |-> "idle"] /\ mode = [u \in Users |-> "closed"]
        /\ at = [u \in Users |-> 0] /\ n = [u \in Users |-> 0] /\ ptr = [u \in Users |-> 0]
        /\ stamp = 0 /\ mark = [u \in Users |-> 0]
        /\ bad = FALSE /\ told = <<>> /\ misused = FALSE
        /\ priv = [u \in Users |-> 0] /\ asked = [u \in Users |-> 0]
        /\ grown = [u \in Users |-> FALSE]
    BY DEF Quanta!Init, Quanta!NULL
  <1>5. MaxStamp \in Nat
    BY QuantaAssumption
  <1>6. Amounts
    BY <1>2, <1>3, <1>4, <1>5 DEF Amounts
  <1>7. Base
    <2>1. ModeNames /\ ModeInv
      BY <1>4 DEF ModeNames, ModeInv, Emptying, Fetching, Storing, Ending
    <2>2. BlocksOK
      BY <1>4 DEF BlocksOK, BlockVals
    <2>3. ToldOK
      BY <1>4, EmptySeq DEF ToldOK
    <2>4. PlaceInv
      BY <1>4 DEF PlaceInv, Fetching, Storing
    <2>5. LookTypes
      BY <1>4 DEF LookTypes, Stages
    <2> QED BY <1>6, <2>1, <2>2, <2>3, <2>4, <2>5 DEF Base
  <1>8. Core
    <2>1. Kept = 0
      BY <1>3, <1>4, EmptySeq DEF Kept, Lesser
    <2>2. OneWriter
      BY <1>4 DEF OneWriter, Writable, Emptying
    <2>3. ~Quanta!IsSet(set)
      BY <1>4 DEF Quanta!IsSet, Quanta!NULL
    <2>4. ShapeInv
      BY <1>4, <2>3 DEF ShapeInv, StepShape, SlotsInv, BareInv, Freeing, Storing
    <2>5. SizeInv
      BY <1>4, <2>1, EmptySeq DEF SizeInv, Ending, Emptying
    <2>6. DataInv
      BY <2>1 DEF DataInv
    <2>7. FetchInv
      BY <1>4 DEF FetchInv, FetchShape, Fetching
    <2>8. NotEarly
      BY <1>4 DEF NotEarly
    <2>9. LookInv
      BY <1>4 DEF LookInv, LookShape
    <2> QED BY <1>4, <2>2, <2>4, <2>5, <2>6, <2>7, <2>8, <2>9 DEF Core
  <1> QED BY <1>1, <1>2, <1>4, <1>7, <1>8 DEF QuantaInv, FlagTypes

\* Every step keeps the invariant.
LEMMA QuantaStep ==
    ASSUME QuantaInv, [Quanta!Next]_Quanta!vars
    PROVE  QuantaInv'
  <1>1. Base' /\ FlagTypes'
    BY ModeStep, AmountsStep, BlocksStep, ToldStep, LookTypesStep, FlagTypesStep
    DEF QuantaInv, Base
  <1>2. (<<Q, S>> \in Geometries)'
    BY SameGeometry DEF QuantaInv
  <1>3. ASSUME ~misused' PROVE Core'
    BY <1>3, MisusedStays, CoreStep DEF QuantaInv
  <1> QED BY <1>1, <1>2, <1>3 DEF QuantaInv

\* The invariant holds always, whichever driver is loaded.
LEMMA QuantaAlways == DriversSpec => []QuantaInv
  <1>1. DriversInit => QuantaInv
    BY QuantaInit DEF DriversInit
  <1>2. QuantaInv /\ [DriversNext]_driversVars => QuantaInv'
    <2>1. [DriversNext]_driversVars => [Quanta!Next]_Quanta!vars
      BY DEF DriversNext, driversVars, quantaVars, Quanta!vars, Quanta!storeVars, Quanta!callVars,
         Quanta!history, Quanta!looks
    <2> QED BY <2>1, QuantaStep
  <1> QED BY <1>1, <1>2, PTL DEF DriversSpec
-----------------------------------------------------------------------------
(* What it gives *)

\* Types.
LEMMA QuantaTypes == QuantaInv => Quanta!TypeOK
  <1> SUFFICES ASSUME QuantaInv PROVE Quanta!TypeOK
    OBVIOUS
  <1>1. Base /\ FlagTypes /\ <<Q, S>> \in Geometries
    BY DEF QuantaInv
  <1>2. ASSUME NEW b \in Blocks
        PROVE  \/ block[b] \in {Quanta!Free, Quanta!Junk}
               \/ block[b].kind = "set" /\ block[b].slot \in [0..S-1 -> Blocks \cup {0}]
               \/ block[b].kind = "quantum" /\ block[b].byte \in [0..Q-1 -> 0..MaxStamp]
    <2>1. block[b] \in BlockVals(Q, S)
      BY <1>1 DEF Base, BlocksOK
    <2> QED BY <2>1, BlockKinds DEF Slots, Bytes
  <1>3. Q * S = Room(Q, S)
    BY DEF Room
  <1>4. /\ set \in Blocks \cup {0} /\ length \in 0..Q*S
        /\ at \in [Users -> 0..Q*S] /\ n \in [Users -> Nat] /\ ptr \in [Users -> Blocks \cup {0}]
        /\ stamp \in 0..MaxStamp /\ mark \in [Users -> 0..MaxStamp]
    BY <1>1, <1>3 DEF Base, Amounts
  <1>5. /\ upc \in [Users -> {"idle", "freeQuanta", "freeSet", "empty", "zeroQ", "testLeft",
                             "lower", "loadOut", "copyOut", "allocSet", "clearSet", "testQuantum",
                             "allocQuantum", "loadIn", "copyIn", "testLength", "setLength"}]
        /\ mode \in [Users -> {"closed", "O_RDONLY", "O_WRONLY", "O_RDWR"}]
    BY <1>1 DEF Base, ModeNames, Emptying, Fetching, Storing, Ending
  <1>6. /\ stage \in {"register", "kmalloc", "memset", "setQ", "setS", "loaded", "unregister",
                     "gone"}
        /\ priv \in [Users -> {0, Quanta!DEV}]
        /\ asked \in [Users -> Nat] /\ grown \in [Users -> BOOLEAN]
    BY <1>1 DEF Base, LookTypes, Stages
  <1>7. bad \in BOOLEAN /\ misused \in BOOLEAN /\ told \in Seq(0..MaxStamp)
    BY <1>1 DEF Base, ToldOK, FlagTypes
  <1> QED BY <1>1, <1>2, <1>4, <1>5, <1>6, <1>7 DEF Quanta!TypeOK, Quanta!NULL

\* A device that is not misused is a file: what is below the size is what was reported.
LEMMA QuantaIsFile == QuantaInv => Quanta!IsFile
  <1> SUFFICES ASSUME QuantaInv, ~misused PROVE Quanta!IsFile
    BY DEF Quanta!IsFile
  <1>1. Base /\ Core
    BY DEF QuantaInv
  <1>2. /\ Kept \in Nat /\ Kept <= Len(told) /\ Kept <= Room(Q, S)
        /\ Len(told) \in Nat /\ Room(Q, S) \in Nat
    BY <1>1, KeptIs DEF Base
  <1>3. /\ length <= Kept /\ length \in Nat
        /\ (\A u \in Users : upc[u] \notin Ending) => length = Kept
    BY <1>1, <1>2 DEF Core, SizeInv, Base, Amounts
  <1>4. ASSUME Quanta!Trimming = {}, NEW i \in 1..length
        PROVE  Quanta!Byte(i - 1) = told[i]
    <2>1. \A u \in Users : upc[u] \notin {"freeSet", "empty"}
      BY <1>4 DEF Quanta!Trimming
    <2>2. i - 1 \in Nat /\ i - 1 < Kept /\ (i - 1) + 1 = i
      BY <1>2, <1>3
    <2>3. Holds(i - 1)
      BY <1>1, <2>1, <2>2 DEF Core, DataInv
    <2>4. Quanta!Byte(i - 1) =
            IF Quanta!IsSet(set)
            THEN Quanta!ByteOf(block[set].slot[Row(Q, i - 1)], Col(Q, i - 1)) ELSE -1
      BY DEF Quanta!Byte, Row, Col
    <2> QED BY <2>2, <2>3, <2>4 DEF Holds, Quanta!ByteOf, Quanta!NULL
  <1>5. ASSUME Quanta!Resting PROVE length = Quanta!Min({Len(told), Q * S})
    <2>1. length = Kept
      BY <1>3, <1>5 DEF Quanta!Resting, Ending
    <2>2. Quanta!Min({Len(told), Room(Q, S)}) =
            IF Len(told) <= Room(Q, S) THEN Len(told) ELSE Room(Q, S)
      BY <1>2, LeastOf2
    <2> QED BY <2>1, <2>2 DEF Kept, Lesser, Room
  <1>6. ASSUME NEW u \in Users, upc[u] = "copyOut"
        PROVE  /\ n[u] <= asked[u] \/ grown[u]
               /\ at[u] + n[u] <= Len(told)
               /\ \A i \in 1..n[u] :
                    Quanta!ByteOf(ptr[u], Quanta!q_pos(u) + i - 1) = told[at[u] + i]
    <2>1. /\ at[u] \in Nat /\ at[u] < Room(Q, S) /\ n[u] \in Nat
          /\ \A i \in Nat : i < Kept => Holds(i)
      BY <1>1, <1>6, InData DEF Fetching, Base, Amounts
    <2>2. /\ at[u] + n[u] <= length
          /\ ptr[u] # 0 /\ ptr[u] = block[set].slot[Row(Q, at[u])]
      BY <1>1, <1>6 DEF Core, FetchInv, FetchShape
    <2>3. n[u] <= Q - Col(Q, at[u])
      BY <1>1, <1>6 DEF Base, PlaceInv
    <2>4. Quanta!q_pos(u) = Col(Q, at[u]) /\ Col(Q, at[u]) \in 0..Q-1 /\ Q \in Nat \ {0}
      BY <1>1, Positions DEF Base, Amounts
    <2>5. ASSUME NEW i \in 1..n[u]
          PROVE  Quanta!ByteOf(ptr[u], Quanta!q_pos(u) + i - 1) = told[at[u] + i]
      <3> DEFINE j == i - 1
      <3>1. /\ j \in Nat /\ Col(Q, at[u]) + j < Q /\ at[u] + j \in Nat /\ at[u] + j < Kept
            /\ (at[u] + j) + 1 = at[u] + i /\ Quanta!q_pos(u) + i - 1 = Col(Q, at[u]) + j
        <4> DEFINE c == Col(Q, at[u])
                   q == Quanta!q_pos(u)
                   p == at[u]
                   m == n[u]
        <4>1. /\ p \in Nat /\ m \in Nat /\ c \in 0..Q-1 /\ Q \in Nat /\ q = c /\ m <= Q - c
              /\ p + m <= length /\ length <= Kept /\ length \in Nat /\ Kept \in Nat
              /\ i \in 1..m
          BY <1>2, <1>3, <2>1, <2>2, <2>3, <2>4
        <4> HIDE DEF c, q, p, m
        <4>2. /\ j \in Nat /\ c + j < Q /\ p + j \in Nat /\ p + j < Kept
              /\ (p + j) + 1 = p + i /\ q + i - 1 = c + j
          BY ONLY <4>1
        <4> QED BY <4>2 DEF c, q, p
      <3>2. Row(Q, at[u] + j) = Row(Q, at[u]) /\ Col(Q, at[u] + j) = Col(Q, at[u]) + j
        BY <2>1, <2>4, <3>1, RowAlong
      <3>3. Holds(at[u] + j)
        BY <2>1, <3>1
      <3> HIDE DEF j
      <3> QED BY <2>2, <3>1, <3>2, <3>3 DEF Holds, Quanta!ByteOf, Quanta!NULL
    <2>6. at[u] + n[u] <= Len(told)
      BY <1>2, <1>3, <2>1, <2>2
    <2>7. n[u] <= asked[u] \/ grown[u]
      BY <1>1, <1>6 DEF Core, LookInv, LookShape
    <2> QED BY <2>5, <2>6, <2>7
  <1>7. ~bad /\ length <= Len(told)
    BY <1>1, <1>2, <1>3 DEF Core
  <1> QED BY <1>4, <1>5, <1>6, <1>7 DEF Quanta!IsFile

\* At rest the blocks in use are the array and what it points to.
LEMMA QuantaNoLeak == QuantaInv => Quanta!NoLeak
  <1> SUFFICES ASSUME QuantaInv, ~misused, Quanta!Resting
               PROVE  {b \in Blocks : block[b] # Quanta!Free} =
                        IF set = 0 THEN {} ELSE {set} \cup Quanta!Quanta
    BY DEF Quanta!NoLeak, Quanta!NULL
  <1>1. Base /\ Core
    BY DEF QuantaInv
  <1>2. /\ ~Freeing /\ ~\E u \in Users : upc[u] = "clearSet"
        /\ ~\E u \in Users : upc[u] \in {"loadIn", "copyIn"}
    BY DEF Freeing, Quanta!Resting
  <1>3. CASE set = 0
    BY <1>1, <1>3 DEF Core, ShapeInv, BareInv
  <1>4. CASE set # 0
    <2>1. Quanta!IsSet(set)
      BY <1>1, <1>2, <1>4 DEF Core, ShapeInv, BareInv
    <2>2. /\ set \in Blocks /\ block[set] = Quanta!SetOf(block[set].slot)
          /\ \A i \in 0..S-1 : block[set].slot[i] \in Blocks \cup {0}
      BY <1>1, <2>1, SlotIs DEF Base
    <2>3. block[set] # Quanta!Free
      BY <2>2, KindsOf
    <2>4. \A i \in 0..S-1 : block[set].slot[i] # 0 =>
            block[block[set].slot[i]].kind = "quantum"
      BY <1>1, <1>2, <2>1 DEF Core, ShapeInv, SlotsInv
    <2>5. \A b \in Blocks \ {set} : block[b] # Quanta!Free =>
            \E i \in 0..S-1 : block[set].slot[i] = b
      BY <1>1, <1>2, <2>1 DEF Core, ShapeInv, SlotsInv
    <2>6. ASSUME NEW b \in Quanta!Quanta PROVE b \in Blocks /\ block[b] # Quanta!Free
      <3>1. PICK i \in 0..S-1 : b = block[set].slot[i] /\ b # 0
        BY DEF Quanta!Quanta, Quanta!NULL
      <3> QED BY <2>2, <2>4, <3>1, KindsOf
    <2>7. ASSUME NEW b \in Blocks \ {set}, block[b] # Quanta!Free PROVE b \in Quanta!Quanta
      <3>1. b # 0
        BY QuantaAssumption
      <3>2. \E i \in 0..S-1 : block[set].slot[i] = b
        BY <2>5, <2>7
      <3> QED BY <3>1, <3>2 DEF Quanta!Quanta, Quanta!NULL
    <2> QED BY <1>4, <2>2, <2>3, <2>6, <2>7
  <1> QED BY <1>3, <1>4

\* With one writer at a time, nobody else there when it empties the device, and no call before
\* insmod has set it up, the device is a file, and no call goes through a bad pointer
\* (sc1.c:52-66, 159-160, 183-187).  A read copies more than it was asked for only if the
\* file grows between its two looks at what is left (125-126).
THEOREM DeviceIsFile == DriversSpec => []IsFile
  <1>1. QuantaInv => IsFile
    BY QuantaIsFile DEF IsFile
  <1> QED BY <1>1, QuantaAlways, PTL

\* Every block that kmalloc has given can be reached while the device is used so, and none
\* is left when the module is gone (sc1.c:84-96, 162-173).
THEOREM NoBlockIsLost == DriversSpec => []NoLeak
  <1>1. QuantaInv => NoLeak
    BY QuantaNoLeak DEF NoLeak
  <1> QED BY <1>1, QuantaAlways, PTL
=============================================================================
