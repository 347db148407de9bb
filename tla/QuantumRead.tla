----------------------------- MODULE QuantumRead -----------------------------
(***************************************************************************)
(* src/src/exercises/v11/qread.c: a character device that keeps the bytes  *)
(* of the last write and gives them back a quantum at a time.  There is no *)
(* lock, and every look at dev->size is a load of its own, so the          *)
(* statements of read and write that touch the device are the steps, and   *)
(* bytes are copied one at a time.  The device can be opened as soon as it *)
(* is registered, which insmod does first; file_operations has no owner,   *)
(* so rmmod does not wait for open files.                                  *)
(***************************************************************************)
EXTENDS Integers, Sequences

CONSTANTS
    Readers,              \* processes that open, read and write the device
    MEM_SIZE, BLK_SIZE,   \* the defaults
    Parameters,           \* what insmod may be given: pairs of mem_size and blk_size
    Counts,               \* how many bytes a call may ask for
    MaxVersion            \* bound of the exploration: writes begun

Null == "null"
\* private_data of a file, or the global dev: nothing, or the one structure.
Dev == "dev"

VARIABLES
    load,             \* the next step of insmod or rmmod, "loaded" between them
    mem_size, blk_size,
    data, size,       \* its buffer and the length of what is in it
    rpc,              \* the next step of each process
    filp,             \* private_data of its file, or "closed"
    f_pos, count,     \* the position of its file, and the count of its call
    copied,           \* the bytes its copy has moved
    version,          \* writes begun; a byte is the number of its write
    writing,          \* the write each process is carrying out, or 0
    \* history
    alone,            \* the last write has had no other beside it
    calm,             \* no write has been in progress since a process opened the device
    got,              \* what it has read, while calm
    shrunk,           \* dev->size was lowered between the looks its last read took at it
    zeroed            \* by insmod, when it held the size of a write; no write has set it since

deviceVars == <<load, mem_size, blk_size>>
bufferVars == <<data, size, version, writing>>
fileVars == <<rpc, filp, f_pos, count, copied>>
historyVars == <<alone, got, calm, shrunk, zeroed>>
vars == <<deviceVars, bufferVars, fileVars, historyVars>>

S == mem_size
Q == blk_size

Init ==
    /\ load = "register" /\ alone = TRUE /\ zeroed = FALSE
    /\ \E given \in Parameters : mem_size = given[1] /\ blk_size = given[2]
    /\ data = <<>> /\ size = 0 /\ version = 0 /\ writing = [r \in Readers |-> 0]
    /\ rpc = [r \in Readers |-> "idle"] /\ filp = [r \in Readers |-> "closed"]
    /\ f_pos = [r \in Readers |-> 0] /\ count = [r \in Readers |-> 0]
    /\ copied = [r \in Readers |-> 0] /\ got = [r \in Readers |-> <<>>]
    /\ calm = [r \in Readers |-> FALSE] /\ shrunk = [r \in Readers |-> FALSE]

-----------------------------------------------------------------------------
(***************************************************************************)
(* insmod and rmmod.  Definitions named ..._Slip are mistakes one could    *)
(* make in the action that follows; no specification uses them.            *)
(***************************************************************************)
Stage(from, to) ==
    /\ load = from /\ load' = to
    /\ UNCHANGED <<version, writing, fileVars, alone, got, calm>>

\* A step that does not touch dev->size.
SizeStays == UNCHANGED <<size, shrunk, zeroed>>

Register == Stage("register", "validate") /\ UNCHANGED <<mem_size, blk_size, data>> /\ SizeStays

\* A default block may be larger than the memory it is to be a part of.
Validate ==
    /\ Stage("validate", "kmalloc")
    /\ mem_size' = IF mem_size = 0 THEN MEM_SIZE ELSE mem_size
    /\ blk_size' = IF blk_size = 0 \/ blk_size > mem_size' THEN BLK_SIZE ELSE blk_size
    /\ UNCHANGED data /\ SizeStays

\* Memory comes as it is; memset follows.
Kmalloc ==
    /\ \E to \in {"memset", "unregister"} : Stage("kmalloc", to)
    /\ UNCHANGED <<mem_size, blk_size, data>> /\ SizeStays

Memset == Stage("memset", "buffer") /\ UNCHANGED <<mem_size, blk_size, data>> /\ SizeStays

\* The buffer; without one insmod undoes the rest.
Buffer ==
    /\ \E to \in {"fields", "unregister"} : Stage("buffer", to)
    /\ data' = IF load' = "fields" THEN [i \in 1..S |-> 0] ELSE <<>>
    /\ UNCHANGED <<mem_size, blk_size>> /\ SizeStays

\* dev->Q and dev->S are stored: the buffer can be written,
SetFields ==
    /\ Stage("fields", "size")
    /\ UNCHANGED <<mem_size, blk_size, data>> /\ SizeStays

\* The reads a change of the size falls into, between their looks at it.
Shrunk == [r \in Readers |-> shrunk[r] \/ (size' < size /\ rpc[r] \in {"limit", "lower"})]

\* and the size, which memset had cleared, is set to 0 again.
ClearSize ==
    /\ Stage("size", "loaded")
    /\ size' = 0 /\ shrunk' = Shrunk /\ zeroed' = (size > 0)
    /\ UNCHANGED <<mem_size, blk_size, data>>

\* qread_exit frees the buffer and the structure, and then unregisters.
Rmmod ==
    /\ Stage("loaded", "unregister")
    /\ data' = <<>> /\ size' = 0
    /\ UNCHANGED <<mem_size, blk_size, shrunk, zeroed>>

Unregister == Stage("unregister", "gone") /\ UNCHANGED <<mem_size, blk_size, data>> /\ SizeStays

Module ==
    \/ Register \/ Validate \/ Kmalloc \/ Memset \/ Buffer \/ SetFields \/ ClearSize
    \/ Rmmod \/ Unregister

-----------------------------------------------------------------------------
(* The file operations *)

\* Process r's step `from' to `to'.
Step(r, from, to) == rpc[r] = from /\ rpc' = [rpc EXCEPT ![r] = to]

\* A variable of a call that has returned, or of a file that is closed.
Forget(variable, r) == [variable EXCEPT ![r] = 0]

\* dev has its buffer and the length of it: a write is taken.
Ready == load \in {"size", "loaded"}

\* dev is there, it is cleared, it is not freed.
Cleared == load \in {"buffer", "fields", "size", "loaded"}

\* What r's file points to can be used.
Usable(r) == filp[r] = Dev /\ Cleared

\* A call goes through a pointer to nothing, to junk or to freed memory.
Crash(r) ==
    /\ filp[r] # "closed" /\ rpc[r] # "crashed" /\ ~Usable(r)
    /\ rpc' = [rpc EXCEPT ![r] = "crashed"]
    /\ UNCHANGED <<deviceVars, bufferVars, filp, f_pos, count, copied, historyVars>>

qread_open(r) ==
    /\ rpc[r] = "idle" /\ filp[r] = "closed" /\ load \notin {"register", "gone"}
    /\ filp' = [filp EXCEPT ![r] = IF load = "memset" \/ Cleared THEN Dev ELSE Null]
    /\ calm' = [calm EXCEPT ![r] = \A w \in Readers : writing[w] = 0]
    /\ UNCHANGED <<deviceVars, bufferVars, rpc, f_pos, count, copied, alone, got, shrunk, zeroed>>

\* The last close of the file.
qread_release(r) ==
    /\ rpc[r] = "idle" /\ filp[r] # "closed" /\ load # "gone"
    /\ filp' = [filp EXCEPT ![r] = "closed"] /\ f_pos' = Forget(f_pos, r)
    /\ got' = [got EXCEPT ![r] = <<>>] /\ calm' = [calm EXCEPT ![r] = FALSE]
    /\ UNCHANGED <<deviceVars, bufferVars, rpc, count, copied, alone, shrunk, zeroed>>

Local(r) == UNCHANGED <<deviceVars, bufferVars, filp, f_pos, copied, historyVars>>

\* read is called, and compares the position with the size; at the end of the
\* data it returns 0 and changes nothing, as it does if dev->Q was still 0.
TestPos(r, n) ==
    /\ Usable(r) /\ f_pos[r] < size /\ n > 0 /\ Step(r, "idle", "limit")
    /\ count' = [count EXCEPT ![r] = n] /\ shrunk' = [shrunk EXCEPT ![r] = FALSE]
    /\ UNCHANGED <<deviceVars, bufferVars, filp, f_pos, copied, alone, got, calm, zeroed>>

\* A huge number: what a negative difference becomes as a size_t.
Huge == S + Q
AsSize(n) == IF n < 0 THEN Huge ELSE n

\* The last lines of read, with the count it has come to: a quantum at most is
\* copied; of nothing, there is nothing to copy.
ToCopy(r, n) ==
    LET bytes == IF n > Q THEN Q ELSE n
    IN  rpc' = [rpc EXCEPT ![r] = IF bytes = 0 THEN "idle" ELSE "copyOut"]
        /\ count' = [count EXCEPT ![r] = bytes]

TestLeft_Slip(r) ==  \* what is left is not looked at
    Usable(r) /\ rpc[r] = "limit" /\ ToCopy(r, count[r]) /\ Local(r)

\* The count is compared with what is left of the data,
TestLeft(r) ==
    /\ Usable(r) /\ rpc[r] = "limit"
    /\ IF count[r] > AsSize(size - f_pos[r]) THEN Step(r, "limit", "lower") /\ UNCHANGED count
                                            ELSE ToCopy(r, count[r])
    /\ Local(r)

\* and lowered to what is left by then.
LowerToLeft(r) ==
    /\ Usable(r) /\ rpc[r] = "lower"
    /\ ToCopy(r, AsSize(size - f_pos[r]))
    /\ Local(r)

\* copy_to_user; past the end of the buffer it finds what is there.  The
\* position moves when all bytes are copied.
CopyOut(r) ==
    /\ Usable(r) /\ rpc[r] = "copyOut"
    /\ LET i == f_pos[r] + copied[r] + 1
           last == copied[r] + 1 = count[r]
       IN  /\ got' = IF calm[r] /\ i <= S THEN [got EXCEPT ![r] = Append(@, data[i])] ELSE got
           /\ rpc' = [rpc EXCEPT ![r] = IF last THEN "idle" ELSE "copyOut"]
           /\ copied' = [copied EXCEPT ![r] = IF last THEN 0 ELSE @ + 1]
           /\ count' = [count EXCEPT ![r] = IF last THEN 0 ELSE @]
           /\ f_pos' = [f_pos EXCEPT ![r] = IF last THEN @ + count[r] ELSE @]
    /\ UNCHANGED <<deviceVars, bufferVars, filp, alone, calm, shrunk, zeroed>>

TestSpace_Slip(r, n) ==  \* the count is not compared with the space
    /\ Usable(r) /\ Ready /\ version < MaxVersion /\ Step(r, "idle", "copyIn")
    /\ count' = [count EXCEPT ![r] = n]
    /\ version' = version + 1 /\ writing' = [writing EXCEPT ![r] = version']
    /\ alone' = \A w \in Readers : writing[w] = 0
    /\ calm' = [q \in Readers |-> FALSE] /\ got' = [q \in Readers |-> <<>>]
    /\ UNCHANGED <<deviceVars, data, size, filp, f_pos, copied, shrunk, zeroed>>

\* write is called; one too long for the buffer is refused, ENOSPC, and changes
\* nothing.  Until dev->S is stored there is space for nothing, and a write of nothing
\* looks at no more of the device than one that comes later.
TestSpace(r, n) ==
    /\ Usable(r) /\ Ready /\ n <= S
    /\ version < MaxVersion /\ Step(r, "idle", "copyIn")
    /\ count' = [count EXCEPT ![r] = n]
    /\ version' = version + 1 /\ writing' = [writing EXCEPT ![r] = version']
    /\ alone' = \A w \in Readers : writing[w] = 0
    /\ calm' = [q \in Readers |-> FALSE] /\ got' = [q \in Readers |-> <<>>]
    /\ UNCHANGED <<deviceVars, data, size, filp, f_pos, copied, shrunk, zeroed>>

\* copy_from_user, always to the start of the buffer.
CopyIn(r) ==
    /\ Usable(r) /\ rpc[r] = "copyIn" /\ copied[r] < count[r]
    /\ copied' = [copied EXCEPT ![r] = @ + 1]
    /\ LET i == copied[r] + 1 IN
         data' = IF i <= S THEN [data EXCEPT ![i] = writing[r]] ELSE data
    /\ UNCHANGED <<deviceVars, size, version, writing, rpc, filp, f_pos, count, historyVars>>

SetSize_Slip(r) ==  \* the size only grows, as in a write that appends
    /\ Usable(r) /\ copied[r] = count[r] /\ Step(r, "copyIn", "idle")
    /\ f_pos' = [f_pos EXCEPT ![r] = count[r]]
    /\ size' = IF count[r] > size THEN count[r] ELSE size
    /\ writing' = [writing EXCEPT ![r] = 0]
    /\ count' = Forget(count, r) /\ copied' = Forget(copied, r)
    /\ shrunk' = Shrunk /\ zeroed' = FALSE
    /\ UNCHANGED <<deviceVars, data, version, filp, alone, got, calm>>

\* "In replace mode, position and size are always same as write size"
SetSize(r) ==
    /\ Usable(r) /\ copied[r] = count[r] /\ Step(r, "copyIn", "idle")
    /\ f_pos' = [f_pos EXCEPT ![r] = count[r]]
    /\ size' = count[r]
    /\ writing' = [writing EXCEPT ![r] = 0]
    /\ count' = Forget(count, r) /\ copied' = Forget(copied, r)
    /\ shrunk' = Shrunk /\ zeroed' = FALSE
    /\ UNCHANGED <<deviceVars, data, version, filp, alone, got, calm>>

qread_read(r) ==
    (\E n \in Counts : TestPos(r, n)) \/ TestLeft(r) \/ LowerToLeft(r) \/ CopyOut(r)
qread_write(r) == (\E n \in Counts : TestSpace(r, n)) \/ CopyIn(r) \/ SetSize(r)

Process(r) ==
    qread_open(r) \/ qread_release(r) \/ qread_read(r) \/ qread_write(r) \/ Crash(r)

Next == Module \/ \E r \in Readers : Process(r)

Spec == Init /\ [][Next]_vars
-----------------------------------------------------------------------------
TypeOK ==
    /\ load \in {"register", "validate", "kmalloc", "memset", "buffer", "fields", "size",
                "loaded", "unregister", "gone"}
    /\ mem_size \in Nat /\ blk_size \in Nat
    /\ data \in Seq(0..MaxVersion) /\ size \in Nat
    /\ version \in 0..MaxVersion /\ writing \in [Readers -> 0..MaxVersion]
    /\ rpc \in [Readers -> {"idle", "limit", "lower", "copyOut", "copyIn", "crashed"}]
    /\ filp \in [Readers -> {"closed", Null, Dev}]
    /\ {f_pos, count, copied} \subseteq [Readers -> Nat]
    /\ alone \in BOOLEAN /\ got \in [Readers -> Seq(0..MaxVersion)]
    /\ {calm, shrunk} \subseteq [Readers -> BOOLEAN] /\ zeroed \in BOOLEAN

\* A process that has opened the device and reads it, while nobody writes, gets
\* the bytes in order, none twice and none left out, however much it asks for at
\* a time (qread.c:172-187); and if the last write had no other beside it, they
\* are that write's alone: nothing of a longer one before it (218-220).  The one
\* exception is a write that got between the stores of insmod, which then takes
\* the size of it back from under its readers (114-115).
ReadsLastWrite ==
    \A r \in Readers : calm[r] /\ filp[r] = Dev /\ rpc[r] = "idle" /\ Ready /\ ~zeroed =>
        /\ f_pos[r] <= size /\ got[r] = SubSeq(data, 1, f_pos[r])
        /\ alone /\ version > 0 => \A i \in 1..size : data[i] = version

\* No call copies past the end of the buffer, whatever the module was loaded
\* with, unless the size is lowered between the looks a read takes at it, by a write
\* or by insmod: what is left is then less than nothing, which as a size_t is huge,
\* and the quantum alone limits the copy (qread.c:115, 166-178, 220).
StrayOnlyByRace ==
    \A r \in Readers :
        /\ rpc[r] = "copyOut" /\ f_pos[r] + count[r] > S => shrunk[r]
        /\ rpc[r] = "copyIn" => count[r] <= S
=============================================================================
