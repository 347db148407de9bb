----------------------------- MODULE QuantumSet -----------------------------
(***************************************************************************)
(* src/src/concepts/module/sc1.c: a character device that is a file in     *)
(* memory, kept as an array (the quantum set) of S blocks of Q bytes (the  *)
(* quanta), each allocated when it is first written; an open for writing   *)
(* only frees them all.  There is no lock: the statements that touch the   *)
(* device are the steps.  The device can be opened as soon as it is        *)
(* registered, which insmod does first.  Going through NULL, or through    *)
(* memory that is free or not yet written, or dividing by 0, is the end of *)
(* what can be said: nothing is modelled after it.                         *)
(***************************************************************************)
EXTENDS Integers, Sequences, FiniteSetsExt

CONSTANTS
    Users,      \* processes that use the device
    Geometries, \* SC1_QUANTUM_SIZE and SC1_QSET_SIZE: pairs of numbers above 0
    Blocks,     \* what kmalloc can give: a set of positive numbers
    Lengths,    \* how many bytes a call may ask for
    MaxStamp    \* bound of the exploration: calls of write

NULL == 0
DEV == -1  \* the structure, which is none of the Blocks

VARIABLES
    stage,     \* the next step of insmod, "loaded" after them, "gone" without the module
    Q, S,      \* dev->Q and dev->S, once they are stored
    set,       \* dev->data: NULL or the block of the array
    length,    \* dev->size
    block,     \* what is in every block
    upc,       \* the next step of each process
    mode,      \* how it has opened the device, or "closed"
    priv,      \* private_data of its file
    at, n,     \* the position of its file, and the count of its call
    ptr,       \* the quantum its call is about to copy from or to
    stamp,     \* calls of write so far
    mark,      \* the number of each process's call: the bytes it writes
    bad,       \* a call went through NULL, or memory free or never written, or divided by 0
    \* history
    misused,   \* freed, or open to two writers, with another process using it; or
               \* called before insmod had set it up
    told,      \* until then: the bytes reported as written since it was last emptied
    asked,     \* how many bytes a read was called for
    grown      \* dev->size was raised between the looks a read takes at it

storeVars == <<Q, S, set, length, block>>
callVars == <<at, n, ptr, stamp, mark>>
looks == <<asked, grown>>
history == <<told, misused, looks>>
vars == <<stage, storeVars, upc, mode, priv, callVars, bad, history>>

\* A block is free, or as kmalloc gave it, or holds the array or a quantum.
Free == [kind |-> "free"]
Junk == [kind |-> "junk"]
SetOf(slots) == [kind |-> "set", slot |-> slots]
QuantumOf(bytes) == [kind |-> "quantum", byte |-> bytes]
IsSet(b) == IF b = NULL THEN FALSE ELSE block[b].kind = "set"
IsFreed(b) == IF b = NULL THEN FALSE ELSE block[b] = Free
IsMemory(b) == b # NULL /\ ~IsFreed(b)

Init ==
    /\ stage = "register" /\ \E g \in Geometries : Q = g[1] /\ S = g[2]
    /\ set = NULL /\ length = 0 /\ block = [b \in Blocks |-> Free]
    /\ upc = [u \in Users |-> "idle"] /\ mode = [u \in Users |-> "closed"]
    /\ priv = [u \in Users |-> NULL] /\ asked = [u \in Users |-> 0]
    /\ grown = [u \in Users |-> FALSE]
    /\ at = [u \in Users |-> 0] /\ n = [u \in Users |-> 0] /\ ptr = [u \in Users |-> NULL]
    /\ stamp = 0 /\ mark = [u \in Users |-> 0]
    /\ bad = FALSE /\ told = <<>> /\ misused = FALSE

-----------------------------------------------------------------------------
(***************************************************************************)
(* Steps of a call.  Definitions named ..._Slip are mistakes one could     *)
(* make in the definition that follows; no specification uses them.        *)
(***************************************************************************)
Go(u, from, to) == ~bad /\ upc[u] = from /\ upc' = [upc EXCEPT ![u] = to]

Crash(u, from) ==
    /\ Go(u, from, "idle") /\ bad' = TRUE
    /\ UNCHANGED <<stage, storeVars, mode, priv, callVars, history>>

\* What kmalloc gives: a free block, or NULL when there is none.
Kmalloc ==
    LET free == {b \in Blocks : block[b] = Free} IN IF free = {} THEN NULL ELSE Min(free)

s_pos(u) == at[u] \div Q
q_pos(u) == at[u] % Q

Trimming == {u \in Users : upc[u] \in {"freeQuanta", "freeSet", "empty"}}
Resting == \A u \in Users : upc[u] = "idle"

-----------------------------------------------------------------------------
(* insmod, sc1_open, sc1_release, sc1_trim, and rmmod *)

\* What insmod does next: it registers the device, allocates the structure (or has to
\* unregister the device again), clears it, and stores Q and then S.
InitSteps ==
    {<<"register", "kmalloc">>, <<"kmalloc", "memset">>, <<"kmalloc", "unregister">>,
     <<"memset", "setQ">>, <<"setQ", "setS">>, <<"setS", "loaded">>, <<"unregister", "gone">>}

sc1_init ==
    /\ ~bad /\ \E s \in InitSteps : stage = s[1] /\ stage' = s[2]
    /\ UNCHANGED <<storeVars, upc, mode, priv, callVars, bad, history>>

\* sc1_dev_ptr is still NULL; and what it points to is cleared, and not freed.
NoDev == stage \in {"kmalloc", "unregister"}
Cleared == stage \in {"setQ", "setS", "loaded"}

Others(u) == {v \in Users \ {u} : mode[v] # "closed"}

sc1_open(u) ==
    /\ stage \notin {"register", "gone"} /\ mode[u] = "closed"
    /\ priv' = [priv EXCEPT ![u] = IF NoDev THEN NULL ELSE DEV]
    /\ \E m \in {"O_RDONLY", "O_WRONLY", "O_RDWR"} :
         /\ mode' = [mode EXCEPT ![u] = m]
         /\ Go(u, "idle", IF m = "O_WRONLY" THEN "freeQuanta" ELSE "idle")
         /\ misused' = \/ misused
                       \/ m = "O_WRONLY" /\ Others(u) # {}
                       \/ m = "O_RDWR" /\ \E v \in Others(u) : mode[v] # "O_RDONLY"
                       \/ Trimming # {} \/ ~Cleared
    /\ told' = IF misused' THEN <<>> ELSE told
    /\ UNCHANGED <<stage, storeVars, callVars, bad, looks>>

sc1_release(u) ==
    /\ mode[u] # "closed" /\ stage # "gone" /\ Go(u, "idle", "idle")
    /\ mode' = [mode EXCEPT ![u] = "closed"] /\ at' = [at EXCEPT ![u] = 0]
    /\ priv' = [priv EXCEPT ![u] = NULL]
    /\ UNCHANGED <<stage, storeVars, n, ptr, stamp, mark, bad, history>>

\* The blocks without those in B.
Kfree(B) == [b \in Blocks |-> IF b \in B THEN Free ELSE block[b]]
Quanta == {block[set].slot[i] : i \in 0..S-1} \ {NULL}

FreeQuanta_Slip(u) ==  \* the array is freed, and not what it points to
    /\ Cleared /\ (IsSet(set) \/ set = NULL)
    /\ Go(u, "freeQuanta", IF set = NULL THEN "empty" ELSE "freeSet")
    /\ UNCHANGED <<stage, storeVars, mode, priv, callVars, bad, history>>

\* What sc1_open hands to sc1_trim may be read from sc1_dev_ptr once more.
FreeQuanta(u) ==
    \/ (~Cleared \/ priv[u] = NULL) /\ Crash(u, "freeQuanta")
    \/ /\ Cleared /\ set = NULL /\ Go(u, "freeQuanta", "empty")
       /\ UNCHANGED <<stage, storeVars, mode, priv, callVars, bad, history>>
    \/ /\ Cleared /\ IsSet(set) /\ ~\E b \in Quanta : IsFreed(b)
       /\ Go(u, "freeQuanta", "freeSet") /\ block' = Kfree(Quanta)
       /\ UNCHANGED <<stage, Q, S, set, length, mode, priv, callVars, bad, history>>
    \/ Cleared /\ IsSet(set) /\ (\E b \in Quanta : IsFreed(b)) /\ Crash(u, "freeQuanta")
    \/ Cleared /\ set # NULL /\ ~IsSet(set) /\ Crash(u, "freeQuanta")

FreeSet(u) ==
    /\ Go(u, "freeSet", "empty")
    /\ block' = Kfree({set}) /\ set' = NULL
    /\ UNCHANGED <<stage, Q, S, length, mode, priv, callVars, bad, history>>

Empty(u) ==
    /\ Go(u, "empty", "idle") /\ length' = 0 /\ told' = <<>>
    /\ UNCHANGED <<stage, Q, S, set, block, mode, priv, callVars, bad, misused, looks>>

sc1_trim(u) == FreeQuanta(u) \/ FreeSet(u) \/ Empty(u)

\* The owner is set: rmmod has to wait until the device is closed.
sc1_cleanup ==
    /\ stage = "loaded" /\ ~bad /\ \A u \in Users : mode[u] = "closed"
    /\ stage' = "gone" /\ set' = NULL /\ length' = 0 /\ told' = <<>>
    /\ block' = IF set = NULL THEN block ELSE Kfree(Quanta \cup {set})
    /\ UNCHANGED <<Q, S, upc, mode, priv, callVars, bad, misused, looks>>

-----------------------------------------------------------------------------
(* Calls that are made before insmod has set up the device *)

\* There is no structure, or no module any more.
CallNothing(u) ==
    mode[u] # "closed" /\ (priv[u] = NULL \/ stage \in {"memset", "gone"}) /\ Crash(u, "idle")

Early(u, m) ==
    /\ mode[u] \in {m, "O_RDWR"} /\ priv[u] = DEV
    /\ misused' = TRUE /\ told' = <<>>
    /\ UNCHANGED <<stage, storeVars, mode, priv, callVars, looks>>

\* write divides by a Q that is 0,
DivideIn(u) == stage = "setQ" /\ Early(u, "O_WRONLY") /\ Go(u, "idle", "idle") /\ bad' = TRUE

\* or finds no quantum it might write to in a set of 0, and reports all as written.
WriteNothing(u) == stage = "setS" /\ Early(u, "O_WRONLY") /\ Go(u, "idle", "idle") /\ UNCHANGED bad

\* read keeps the Q that is 0, and divides by it if there is something to read by then.
LoadZero(u) == stage = "setQ" /\ Early(u, "O_RDONLY") /\ Go(u, "idle", "zeroQ") /\ UNCHANGED bad

DivideOut(u) ==
    \/ at[u] < length /\ Crash(u, "zeroQ")
    \/ /\ at[u] >= length /\ Go(u, "zeroQ", "idle")
       /\ UNCHANGED <<stage, storeVars, mode, priv, callVars, bad, history>>

EarlyCall(u) ==
    CallNothing(u) \/ DivideIn(u) \/ WriteNothing(u) \/ LoadZero(u) \/ DivideOut(u)

\* Other calls find the device set up.
Usable(u) == priv[u] = DEV /\ stage = "loaded"

-----------------------------------------------------------------------------
(* sc1_read *)

\* A call returns and its variables are gone; the position is `pos'.
Return(u, from, pos) ==
    /\ Go(u, from, "idle")
    /\ at' = [at EXCEPT ![u] = pos] /\ n' = [n EXCEPT ![u] = 0]
    /\ ptr' = [ptr EXCEPT ![u] = NULL] /\ mark' = [mark EXCEPT ![u] = 0]
    /\ UNCHANGED <<stage, mode, priv, stamp, misused>>

\* read is called for m bytes; at the end of the data it returns 0.
TestPos(u, m) ==
    /\ Usable(u) /\ mode[u] \in {"O_RDONLY", "O_RDWR"} /\ at[u] < length
    /\ Go(u, "idle", "testLeft")
    /\ n' = [n EXCEPT ![u] = m]
    /\ asked' = [asked EXCEPT ![u] = m] /\ grown' = [grown EXCEPT ![u] = FALSE]
    /\ UNCHANGED <<stage, storeVars, mode, priv, at, ptr, stamp, mark, bad, told, misused>>

\* What is left of the data; less than nothing is a huge number, as a size_t.
Huge == Q * S + 1
Left(u) == IF length < at[u] THEN Huge ELSE length - at[u]

\* The count that goes on to the copy: c, but no more than is left in the quantum.
ToCopy(u, from, c) ==
    /\ Go(u, from, "loadOut") /\ n' = [n EXCEPT ![u] = Min({c, Q - q_pos(u)})]
    /\ UNCHANGED <<stage, storeVars, mode, priv, at, ptr, stamp, mark, bad, history>>

TestLeft_Slip(u) ==  \* what is left is not looked at
    ToCopy(u, "testLeft", n[u])

\* The count is compared with what is left of the data,
TestLeft(u) ==
    \/ n[u] <= Left(u) /\ ToCopy(u, "testLeft", n[u])
    \/ /\ n[u] > Left(u) /\ Go(u, "testLeft", "lower")
       /\ UNCHANGED <<stage, storeVars, mode, priv, callVars, bad, history>>

\* and set to what is left by then.
SetToLeft(u) == ToCopy(u, "lower", Left(u))

\* dev->data[s_pos], on the way to a copy.
Load(u, from, to) ==
    \/ /\ IsSet(set) /\ Go(u, from, to)
       /\ ptr' = [ptr EXCEPT ![u] = block[set].slot[s_pos(u)]]
       /\ UNCHANGED <<stage, storeVars, mode, priv, at, n, stamp, mark, bad, history>>
    \/ ~IsSet(set) /\ Crash(u, from)

CopyOut(u) ==
    \/ /\ IsMemory(ptr[u]) /\ Return(u, "copyOut", at[u] + n[u])
       /\ asked' = [asked EXCEPT ![u] = 0] /\ grown' = [grown EXCEPT ![u] = FALSE]
       /\ UNCHANGED <<storeVars, bad, told>>
    \/ ~IsMemory(ptr[u]) /\ Crash(u, "copyOut")

sc1_read(u) ==
    \/ \E m \in Lengths : TestPos(u, m)
    \/ TestLeft(u) \/ SetToLeft(u) \/ Load(u, "loadOut", "copyOut") \/ CopyOut(u)

-----------------------------------------------------------------------------
(* sc1_write *)

\* What callers have been told is written, with m bytes of call number c from
\* position `pos' on, counted from 0.
Told(c, pos, m) ==
    IF misused THEN <<>> ELSE
    [i \in 1..Max({Len(told), pos + m}) |->
        IF i \in pos+1..pos+m THEN c ELSE IF i <= Len(told) THEN told[i] ELSE 0]

\* write is called for m bytes.  Past the last quantum it keeps nothing and
\* reports all as written; the position stays.
TestSet(u, m) ==
    /\ Usable(u) /\ mode[u] \in {"O_WRONLY", "O_RDWR"} /\ stamp < MaxStamp /\ stamp' = stamp + 1
    /\ \/ /\ s_pos(u) >= S /\ Go(u, "idle", "idle")
          /\ told' = Told(stamp', Len(told), m) /\ UNCHANGED <<n, mark>>
       \/ /\ s_pos(u) < S /\ Go(u, "idle", IF set = NULL THEN "allocSet" ELSE "testQuantum")
          /\ n' = [n EXCEPT ![u] = m] /\ mark' = [mark EXCEPT ![u] = stamp']
          /\ UNCHANGED told
    /\ UNCHANGED <<stage, storeVars, mode, priv, at, ptr, bad, misused, looks>>

\* The array is there for all to see before memset has cleared it.
AllocSet(u) ==
    LET b == Kmalloc IN
    /\ \/ Return(u, "allocSet", at[u]) /\ b = NULL
       \/ Go(u, "allocSet", "clearSet") /\ b # NULL /\ UNCHANGED <<stage, mode, priv, callVars, misused>>
    /\ set' = b /\ block' = [c \in Blocks |-> IF c = b THEN Junk ELSE block[c]]
    /\ UNCHANGED <<Q, S, length, bad, told, looks>>

ClearSet(u) ==
    \/ /\ IsMemory(set) /\ Go(u, "clearSet", "testQuantum")
       /\ block' = [block EXCEPT ![set] = SetOf([i \in 0..S-1 |-> NULL])]
       /\ UNCHANGED <<stage, Q, S, set, length, mode, priv, callVars, bad, history>>
    \/ ~IsMemory(set) /\ Crash(u, "clearSet")

TestQuantum_Slip(u) ==  \* a quantum is allocated for every write
    \/ /\ IsSet(set) /\ Go(u, "testQuantum", "allocQuantum")
       /\ UNCHANGED <<stage, storeVars, mode, priv, callVars, bad, history>>
    \/ ~IsSet(set) /\ Crash(u, "testQuantum")

TestQuantum(u) ==
    \/ /\ IsSet(set)
       /\ Go(u, "testQuantum", IF block[set].slot[s_pos(u)] = NULL THEN "allocQuantum" ELSE "loadIn")
       /\ UNCHANGED <<stage, storeVars, mode, priv, callVars, bad, history>>
    \/ ~IsSet(set) /\ Crash(u, "testQuantum")

AllocQuantum(u) ==
    \/ /\ IsSet(set)
       /\ LET b == Kmalloc IN
            /\ \/ Return(u, "allocQuantum", at[u]) /\ b = NULL
               \/ Go(u, "allocQuantum", "loadIn") /\ b # NULL /\ UNCHANGED <<stage, mode, priv, callVars, misused>>
            /\ block' = [c \in Blocks |->
                 IF c = b THEN Junk
                 ELSE IF c = set THEN [block[c] EXCEPT !.slot[s_pos(u)] = b] ELSE block[c]]
       /\ UNCHANGED <<Q, S, set, length, bad, told, looks>>
    \/ ~IsSet(set) /\ Crash(u, "allocQuantum")

\* The bytes go into the quantum, up to its end, and the position moves.
CopyIn(u) ==
    \/ /\ IsMemory(ptr[u]) /\ Go(u, "copyIn", "testLength")
       /\ LET m == Min({n[u], Q - q_pos(u)})
              old == block[ptr[u]]
          IN  /\ block' = [block EXCEPT ![ptr[u]] = QuantumOf([i \in 0..Q-1 |->
                    IF i \in q_pos(u)..q_pos(u)+m-1 THEN mark[u]
                    ELSE IF old.kind = "quantum" THEN old.byte[i] ELSE 0])]
              /\ at' = [at EXCEPT ![u] = @ + m]
              /\ told' = Told(mark[u], at[u], m)
       /\ UNCHANGED <<stage, Q, S, set, length, mode, priv, n, ptr, stamp, mark, bad, misused, looks>>
    \/ ~IsMemory(ptr[u]) /\ Crash(u, "copyIn")

\* The size is compared with the position, and then set to it.
TestLength(u) ==
    \/ length >= at[u] /\ Return(u, "testLength", at[u]) /\ UNCHANGED <<storeVars, bad, told, looks>>
    \/ /\ length < at[u] /\ Go(u, "testLength", "setLength")
       /\ UNCHANGED <<stage, storeVars, mode, priv, callVars, bad, history>>

SetLength(u) ==
    /\ Return(u, "setLength", at[u]) /\ length' = at[u]
    /\ grown' = [v \in Users |-> grown[v] \/ (length < at[u] /\ upc[v] = "lower")]
    /\ UNCHANGED <<Q, S, set, block, bad, told, asked>>

sc1_write(u) ==
    \/ \E m \in Lengths : TestSet(u, m)
    \/ AllocSet(u) \/ ClearSet(u) \/ TestQuantum(u) \/ AllocQuantum(u)
    \/ Load(u, "loadIn", "copyIn") \/ CopyIn(u) \/ TestLength(u) \/ SetLength(u)

-----------------------------------------------------------------------------
User(u) ==
    \/ sc1_open(u) \/ sc1_release(u) \/ sc1_trim(u) \/ EarlyCall(u)
    \/ sc1_read(u) \/ sc1_write(u)

Next == sc1_init \/ sc1_cleanup \/ \E u \in Users : User(u)

Spec == Init /\ [][Next]_vars
-----------------------------------------------------------------------------
TypeOK ==
    /\ stage \in {"register", "kmalloc", "memset", "setQ", "setS", "loaded", "unregister", "gone"}
    /\ <<Q, S>> \in Geometries
    /\ set \in Blocks \cup {NULL} /\ length \in 0..Q*S
    /\ \A b \in Blocks :
         \/ block[b] \in {Free, Junk}
         \/ block[b].kind = "set" /\ block[b].slot \in [0..S-1 -> Blocks \cup {NULL}]
         \/ block[b].kind = "quantum" /\ block[b].byte \in [0..Q-1 -> 0..MaxStamp]
    /\ upc \in [Users -> {"idle", "freeQuanta", "freeSet", "empty", "zeroQ", "testLeft", "lower",
                          "loadOut", "copyOut", "allocSet", "clearSet", "testQuantum",
                          "allocQuantum", "loadIn", "copyIn", "testLength", "setLength"}]
    /\ mode \in [Users -> {"closed", "O_RDONLY", "O_WRONLY", "O_RDWR"}] /\ priv \in [Users -> {NULL, DEV}]
    /\ at \in [Users -> 0..Q*S] /\ n \in [Users -> Nat]
    /\ ptr \in [Users -> Blocks \cup {NULL}]
    /\ stamp \in 0..MaxStamp /\ mark \in [Users -> 0..MaxStamp]
    /\ told \in Seq(0..MaxStamp) /\ bad \in BOOLEAN /\ misused \in BOOLEAN
    /\ asked \in [Users -> Nat] /\ grown \in [Users -> BOOLEAN]

\* Byte i, counted from 0, of block b, and of the device; -1 if there is none.
ByteOf(b, i) == IF b # NULL /\ block[b].kind = "quantum" THEN block[b].byte[i] ELSE -1
Byte(i) == IF IsSet(set) THEN ByteOf(block[set].slot[i \div Q], i % Q) ELSE -1

\* With one writer at a time, and nobody else there when it empties the device,
\* the device is a file, also for those who read it while it grows: what is below
\* the size is what write has reported as written, and nothing of it is lost but
\* what comes after the last quantum (sc1.c:159-160, 183-187).  No call goes
\* through a bad pointer, if none comes before insmod has set the device up (52-66);
\* and a read copies more than it was asked for only if the file grows between its
\* looks at the size (125-126).
IsFile ==
    ~misused =>
        /\ ~bad
        /\ Trimming = {} =>
             /\ length <= Len(told) /\ \A i \in 1..length : Byte(i - 1) = told[i]
             /\ Resting => length = Min({Len(told), Q * S})
        /\ \A u \in Users : upc[u] = "copyOut" =>
             /\ n[u] <= asked[u] \/ grown[u]
             /\ at[u] + n[u] <= Len(told)
             /\ \A i \in 1..n[u] : ByteOf(ptr[u], q_pos(u) + i - 1) = told[at[u] + i]

\* Every block that kmalloc has given can be reached while the device is used so,
\* and none is left when the module is gone (sc1.c:84-96, 162-173).
NoLeak ==
    ~misused /\ Resting =>
        {b \in Blocks : block[b] # Free} =
            IF set = NULL THEN {} ELSE {set} \cup Quanta
=============================================================================
