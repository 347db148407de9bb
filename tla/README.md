# A TLA+ model of the system-dev repository

The repository is a collection of small C programs, kernel modules and bash
scripts for a course in systems programming. Most are a page long and sequential. What
makes some of them hard are the places where several programs, threads or handlers
share something: a System V segment and semaphore, a `sembuf`, a TCP stream, a device
without a lock. This project models those places, checks them with TLC on small
instances and proves the core safety properties with TLAPS.

All paths below are relative to `src/src/`.

## 1. Inventory

| Component | State | Operations | Interaction |
|---|---|---|---|
| **message pipeline** `exercises/v6`: `generator.c`, `posrednik.c`, `zapisovalec.c` | segment (key `'a'`), semaphore (key `'b'`), queue (key `'c'`), the file, the stdio buffer, `last_msg` | write four messages and an empty one; poll and forward; record | shared memory under a semaphore, then a message queue; each program is started by hand, in any order |
| **message board** `examples/message_writer.c`, `message_reader.c` | board (text and `msg_count`), semaphore, queue of notices, `last_count` | post a line; wait for a notice and show what is new; clean up | shared memory under a semaphore; the queue only says "look" |
| **thread scheduler** `examples/threadScheduler.c` | a semaphore of two permits, one `sembuf` for all threads | lock, work, unlock; main creates, joins, removes | the `sembuf` is written by every thread before its `semop` |
| **Blackjack** `exercises/v8`: `bj_server.c`, `bj_client.c` | deck, scores, the TCP stream, the client's `recvline` | hit, stand, dealer's draws, result; the player leaves | unframed messages in both directions, kept apart by `usleep`; one game after the other |
| **LED timer drivers** `exercises/v12`: `ledb.c`, `rpiledb.c` | a kernel timer, `LEDon`, `SWITCHon`, `active`, the output pin | timer callback, write, init, exit | the callback runs against writers and `rmmod`, with no lock |
| **network servers and clients** `exercises/v9`, `concepts/network`, `examples/server.c`, `client.c` | listening socket and its backlog, a child per connection, zombies, `len` | accept, fork, answer, reap; connect, send, receive | TCP, `SIGCHLD`, descriptors shared by fork |
| **character devices** `exercises/v10`-`v11`, `concepts/module` | the buffer and size of `qread.c`, the quantum set of `sc1.c` | open, read, write, init, exit; an open for writing empties `sc1` | file operations of several processes with no lock, also while the module comes and goes |
| **thread demos, Monte Carlo** `concepts/threads`, `exercises/v7` | a global counter; two totals | unlocked and locked updates | shared variables, one mutex |
| **shells, pipes, processes** `exercises/v4`, `v5/lupina_cev.c`, `concepts/pipe`, `concepts/processes` | the words of the line, pipe ends, children | parse, fork, dup2, exec, wait | pipes; the shell waits for one of two children |
| **signals** `exercises/v5/signal.c`, `concepts/signal` | pending alarm, handlers | alarm, pause | asynchronous handlers |
| **file tools** `exercises/v1`-`v3`, `concepts/io`, `concepts/directory` | files, modes, `temp.txt` | copy, list, chmod, insert and delete a line | the file system; all runs of `kamned.c` share `temp.txt` |
| **bash scripts** `bash/` | niceness of processes, letters left of a line, files, accounts | decide and act | system tools; two scripts set the same niceness |
| C basics, IPC demos, test scripts | none worth a model | | |

`PROJECT.json` lists every file with its component and says which are modelled.

### What is hard, and what makes each component correct

* *Pipeline.* No program knows whether the others have started, run or ended. The
  segment is empty before the first message and after the last; the end of the run is
  read after the unlock; nothing acknowledges a message, only the lengths of the sleeps
  keep it in place; `semop` is not checked by the generator; `SETVAL` overwrites a
  semaphore somebody may hold. Correct: writer and reader of the segment exclude each
  other, what enters the queue is whole and in order, nothing is lost behind `msgsnd`,
  `last_msg` agrees with what was sent, both programs end, the recorder ends at the marker.
* *Board.* Text and counter are separate stores; the notice is sent after the unlock and
  taken before the lock; the clean-up runs under the reader. Correct: what is shown was
  posted, under its own number; no notice is used up too early; posts get shown; the
  reader ends when the objects go.
* *Scheduler.* Correct: two permits are shared out, at most two threads are inside, the
  semaphore goes last, everybody ends. The shared `sembuf` breaks the first two and the last.
* *Blackjack.* Correct: the client parses each message as what it was sent as; the
  result is that of the game; a player who leaves does not end the server for others.
* *Servers.* `SIGCHLD`s coalesce; parent and child share a connection, which is closed when
  both have closed it; `accept` is given a length without a value. Correct: a client that
  reads its answer gets it, the server goes on unless one of the known reasons ends it, no
  child and no descriptor is left behind by the servers that care for them.
* *LED drivers.* A write and the callback read and write the same flags, and the callback
  arms the timer itself. Correct: the LED does in the end what was last asked for, and no
  timer survives its module.
* *Character devices.* Correct: a read returns what the last write left, and positions stay
  inside the buffer, unless calls overlap; `sc1` is a file with holes; its memory is neither
  lost nor used after it was freed.
* *Counter, Monte Carlo.* Correct: no update is lost under the mutex; the two totals change
  together, and the limit is passed by less than one round.
* *Shells.* Correct: each pipe end is closed where it must be for readers to see the end;
  the right program gets what the left one wrote; the shell comes back.
* *File tools.* Correct: no line of a file is lost or doubled, and the file is under its
  name or whole in `temp.txt` whenever a run may be killed; two ways to write
  a mode agree.
* *Signals.* Correct: no alarm is lost, what was left of it is told.
* *Scripts.* Correct: a program that needs help gets a better niceness until it has
  one or has ended; a word is found if its letters are there.

The hazards are listed line by line in `PROJECT.json`.

## 2. Plan

In this order (section 3):

1. `SysV`, the operators for the System V calls (external code, modelled from its use).
2. `RelayRegister` (abstract), `MessagePipeline` (detailed, implements it), then
   `PipelineTimed` and `PipelineRestart`, which extend the detailed module by a clock and
   by kills and restarts. Proofs in `MessagePipeline_proofs`.
3. `BoardRegister` (abstract), `MessageBoard` (implements it), `BoardRestart`. Proofs in
   `MessageBoard_proofs`.
4. `ThreadScheduler`. Proofs in `Programs_proofs`.
5. `Blackjack`. Proofs in `Blackjack_proofs`.
6. `LedTimer`, then `QuantumRead` and `QuantumSet` with several processes, a statement at a
   time where they share the device. `Drivers` composes them: one kernel has one of them
   loaded. Proofs in `QuantumSet_proofs` and, for the other two, in `Drivers_proofs`.
7. `Servers`, with the five servers as records of traits; `PipeShell`; `Alarms`.
8. `Counter` and `MonteCarlo`: one question, whether an update is lost.
9. `LineEditor` with kills; `TextTools`, pure computations against references;
   `Niceness`, two scripts against each other. `Programs` composes 7 to 9 and
   `ThreadScheduler`: one of the programs runs. Proofs in `Servers_proofs`,
   `TextTools_proofs` and, for the others and for what is said of all, in `Programs_proofs`.

## 3. The modules, and how they correspond to the code

Every module follows the same scheme. The program counter of a process (`pc[p]`; `main`
and the like where a program is alone) names the *next call* the process makes: `"shmget"`, `"lock"`, `"msgsnd"`. One
action is one call, or one statement that touches shared state, with the local code
up to the next. `err()` exits are steps to `"done"`. A process that blocks in a call
is one whose action is not enabled. `sprintf` and `strcpy` into a shared segment
take two steps, with the text `Torn` between them, so that a reader in the middle would be
seen. Definitions whose names end in `_Slip` are mistakes a programmer
could make in the definition that follows; no specification uses them, and they
serve to check that the properties notice such mistakes.

**`SysV`.** A semaphore is a number or `NoSem`. A `semop` on a removed semaphore fails
at once, and one that waits when it is removed is woken with an error. A segment is
`linked` under its key, `orphan` (removed with somebody attached) or gone. Linux
creates semaphores with the value 0.

**`MessagePipeline`.** `G...` are the calls of `generator.c`, `P...` of
`posrednik.c`, `Z...` of `zapisovalec.c`. `mem` is the text in the segment (message `i`
is the number `i`, 0 the empty string), `last`, `msgbuf` the variables of the
go-between, `outbuf` the stdio buffer of the recorder, `sent` the history of what
`msgsnd` accepted. A generator whose semaphore has been removed goes on without it,
as `semop` is not checked; a go-between whose queue has been removed exits
with the semaphore held.

**`PipelineTimed`.** `asleep[p]` counts the seconds `p` still sleeps. Calls take no
time and `Tick` happens only when nobody awake can go on. That is the assumption on which
the code's sleeps rest, and it is stated, not derived. `Waits` lists the calls in which a program
can be held up; in every reachable state it is the negation of the enabledness of the program's step
(compared with `ENABLED` by TLC, for up to four messages and several capacities of the queue), and unlike `ENABLED` it can be
reasoned about.

**`PipelineRestart`, `BoardRestart`.** `Kill` stops a program before any call and
leaves what the kernel leaves: the semaphore as it is (no `SEM_UNDO`), the queue,
the half-written text, not the unflushed lines. `Rerun` starts it with fresh locals.
The histories `setvalHeld`, `killedMidway` and `unannounced` say which accident has
happened, so that the properties can say exactly which guarantee each accident costs.

**`MessageBoard`.** `W...` are calls of `message_writer.c`, `R...` of `message_reader.c`.
`posted` is the history of posts since `msg_count` was last zeroed, `shown` that of the
pairs printed. `WReadEof` is the `fgets` whose result is not looked at.

**`ThreadScheduler`.** `op` is the shared `sem_op`; `Call` takes the kernel's copy of it
into `arg[t]`, `Return` carries it out. `clobbered` records that some `semop` was called
with a value another thread had set.

**`Blackjack`.** `S...` are the steps of `bj_server.c`, `C...` of `bj_client.c`; one
connection, with the player's choices in `Player`. A message is its kind, the score it carries
and its length: the length matters, because the read of the final message
(`bj_client.c:108`) stores no zero behind what it read, so that what `sscanf` finds
depends on what earlier reads have left there. `tail` is that: the three bytes of `recvline`
at which a final message can end. A read returns any number of the messages that have come (`Read`): `usleep` is a
step boundary and promises nothing. `conn` is what the server's next `write` will meet:
`"open"`; `"closed"` (this write is taken and answered by a reset); `"reset"` (it fails,
once); `"broken"` (it raises `SIGPIPE`). The server treats a failed write differently
from place to place, which is the argument `onError` of `Write`. The deck is a number of
cards of each rank.

**`LedTimer`.** The two drivers share their callback and their life cycle, so one module
has both, told apart by `driver`. `module` is the next call of `insmod` or `rmmod`, `cb` the
next statement of the callback, `user[u]` that of a process in the write handler. A write sets
its flag and calls `mod_timer` in two steps, between which the callback may read the flags. `timer` is
the delay with which it is armed, or `Idle`; when it expires is left open.
`stray` records a `mod_timer` after the timer had been deleted, which a process with
the device open can cause.

**`QuantumRead`** is `qread.c`. `load` is the next statement of `insmod` or `rmmod`, `rpc[r]`
that of process `r` in a handler, `data` and `size` the fields of the device, `version` and
`writing` tell the writes apart. The device can be opened from `register_chrdev` on, and `insmod` stores
`size` last (`ClearSize`): a write that was taken before that has its size set back to 0, which `zeroed` records. A read
looks at `size` three times (`TestPos`, `TestLeft`, `LowerToLeft`). `copied` is a byte count, in which `size - f_pos` may wrap
around (`AsSize`): the type is unsigned, and all that is wanted of the result is that it is
larger than the memory. `shrunk` records that `size` was lowered, by a write or by `insmod`, between the looks a read takes at it.
A call through a pointer that is null, not yet cleared, or freed ends the process (`Crash`).

**`QuantumSet`** is `sc1.c`. `insmod` takes its steps (`sc1_init`: register, allocate, clear, store `Q`, store `S`), and
a process that opens or calls the device between them finds no structure, or a geometry of 0 (`CallNothing`,
`DivideIn`, `WriteNothing`, `LoadZero`). Both loads of `size` in a read (125 and 126) are steps, `TestLeft` and
`SetToLeft`, and `grown` records that a write raised it between them. Memory is a set of blocks, each free, junk (allocated and not
cleared), an array of pointers or a quantum; `Kmalloc` takes a free block, or none. A write
writes its own number, so that every byte tells which call it is of. `told` is the history of the bytes
that `write` reported as written, and `misused` records that the device was emptied, or open to two writers,
while another process used it, or called before `insmod` had set it up: what happens then is explored and
nothing is promised about it.

**`Servers`** models a family by what its members do differently (`traits`): does the server fork,
does the parent reap, has `len` a value, must a read succeed for the server to go on. `holds[c]`
is the set of processes that have connection `c` open; the client sees the end when it is empty.
A client asks and waits for the answer before it asks again, so that its wire holds at most
one message; it may break off while it waits (`BreakOff`).

**`PipeShell`** is `lupina_cev.c`, with one line after the other. `fds[n]` is the set of
descriptors of the children of command `n`, by child and by what the descriptor is. The
programs are a writer of two chunks, a copier and one that reads once; a
program that cannot be executed complains into the pipe, as `perror` does after `dup2`.

**`LineEditor`** is `kamned.c`: names, inodes and texts, with the stdio buffer written
at `fclose`. `Inodes` are as many as the file system has room for: `fopen` fails when a file is to be made
and there is none left. `wanted` is the text each file should have; `spoilt` records that two runs were on
one file or in `temp.txt` together, or that one came to a directory in which a file was missing, after
which nothing is promised.

**`Counter`** is `shared_mutex.c`; its step without the mutex is `shared_res.c`. **`MonteCarlo`** is
`mc_pi.c` and `mc_sin.c`, whose threads differ only in what they shoot at, and in that `mc_sin.c:90` takes
the number of its threads from an argument that is not checked: what is modelled is a number above 0.

**`Alarms`** is `sleep.c` and `signal.c` on a clock with `Second` ticks a second, so that signals come between two
seconds. `Left` is what `alarm(0)` returns on Linux: the nearest number of seconds, but never 0 while an alarm is set.

**`TextTools`** holds computations without interaction: `rep.c` (last lines of a file read in
chunks), `lsl.c` and `mojChmod.c` (a mode as text, by two algorithms), `look_for_str` of
`server.c` (line numbers, with a buffer shorter than a line) and `word_matcher.sh` (are the letters of a
word in a line). Each takes its steps as the loop of the program does (a character of the file, an
entry, a line read, a letter looked for), and is compared with a definition of what it should come to.
`buf` is the variable that outlives a round: `statbuf` of `lsl.c`, `beseda` of `word_matcher.sh`, in which a
letter that has been found is struck out with `Struck`.

**`Niceness`** has the main loops of `process_priority_manager.sh` and `process_monitor.sh`,
process numbers that are used again, and targets that end by themselves.

**`Drivers`, `Programs`** are disjoint unions: a variable (`loaded`, `running`) says which
module's variables move, and the others stay at one initial state. Nothing is said about
programs running beside each other that share nothing. The `MC` modules only give values to constants.

**`RelayRegister`, `BoardRegister`** say what the segment and its semaphore are for: an
atomic register. The refinement mappings (`Register`) are in the detailed modules:
a write takes effect when `sprintf` is through (for the board, with the increment
of `msg_count`), a read when `msgsnd` has taken the message (with the `printf`).

## 4. The runs

| Run | Question | Bounds |
|---|---|---|
| `Pipeline` | do the three programs, in any order and interleaving, keep the lock and the order, end, and implement the register? | `N` = 4, the number in `generator.c:60`; room for 2 of 5 messages in the queue, so that it fills and `msgsnd` blocks |
| `PipelineTimed` | do the sleeps suffice, however far apart the programs are started? | starts within 18 s, as long as a whole run: a later start meets nobody |
| `PipelineRestart` | which guarantee does a kill or a restart cost? | 1 message and the marker, 2 kills, 2 reruns: enough for a held semaphore to be given away and for a second accident after it |
| `PipelineEnd` | violated: "Message 0 read, program end!" is printed although message 0 was not written | |
| `Board` | is what is shown what was posted, and is every post shown? | 4 posts of 2 texts, 2 notices: the queue fills, texts repeat, posts are overtaken |
| `BoardRestart` | the same under kills and restarts | 2 posts, 2 kills |
| `BoardEof` | violated: a post nobody entered | |
| `SchedulerAdmits` | violated: three threads inside | 3 threads, the fewest |
| `Blackjack` | what does the client show and announce, and what can end the server, however the messages are joined and whenever the player leaves? | ranks 2, 7 and 12, four cards of each: scores of one and of two digits, so that all lengths of messages occur, busts of both sides, ties; 12 cards, more than a game can use up |
| `BlackjackLeave` | violated: a finished game does not end with its result, the server is ended by the write of `END` | the same |
| `Drivers` | does the LED end as last asked for, and the timer with its module? does `qread` return what was written, is `sc1` a file, when calls overlap and when they do not? | 2 processes (the fewest that race) and 3 writes, so that start, stop and a write after the deletion fall together with the callback; `qread`: 2 bytes, with a quantum of 1, of 2 and of more than the buffer; `sc1`: 2 quanta of 1 byte and 1 of 3, so that each boundary is met from both sides and a file can grow twice inside a quantum |
| `Programs` | do the servers go on and answer, do pipelines end, is no line, update, alarm or letter lost? | 3 threads (two inside, one waiting) and 3 Monte Carlo threads; 2 clients, as many as make two children end at once; 2 lines for the shell and a pipe that one item fills; 2 runs of the editor on 2 files, with room for 4, so that a killed run leaves too little of it for the next; 3 signals, and 5 ticks a second: times from 0.2 s to 0.8 s past a second, on both sides of the half; texts of up to 5 items; 5 process numbers, 4 of them in use |

Deadlock is not checked: the recorder may wait for a marker that is never sent, the user may
stop typing, a killed program may leave the semaphore at 0, threads may wait for ever after
a clobbered unlock, a game and a loaded module come to an end, programs end. The liveness properties say instead who must end when.

What the runs show, in words:

* The critical sections exclude each other in every interleaving of a single run of each
  program, including the start-up, where the semaphore exists with the value 0 before
  `SETVAL`, and the end, where it is removed under the generator and the generator's
  last calls fail.
* In the pipeline (`OrderlyRelay`) a message is never sent twice, nor out of order, nor
  half-written. It may be missed if the go-between is slow; with the sleeps as they are it
  misses none after its first (`SleepsSuffice`, of which `MarkerMissedOnlyInTheInstant` pins down the one
  instant in which the go-between may stop without having relayed the empty message).
* The recorder can be left waiting, when that message was missed, and the go-between
  can end before it has begun (`PipelineEnd`): it takes the fresh segment for the end.
* A notice is never consumed too early, so a reader at rest has seen the latest post.
  After a kill this is lost in the ways `UnseenOnlyAfterKill` names (part of
  `CostOfRestart`).
* With the `sembuf` shared the limit of two is not kept (`SchedulerAdmits`). As long as
  no value is clobbered it is.

* In Blackjack the announced result is never wrong, even when messages are joined:
  a text that is not the result alone is not understood at all. But it is announced for sure only
  if the first message happened to be as long as the final one, because then its zero
  stands where the final read stores none (`ResultRight`). The scores on the screen
  can be wrong only after a read that returned several messages, and never when the player is asked.
* The server is lost only to a client that closes before `END` is written
  (`LostOnlyToEarlyLeave`), and it is lost to such a client (`BlackjackLeave`): one that leaves before
  it is dealt its cards, whose write is answered by a reset; then the read of the choice returns 0, and `END` raises `SIGPIPE`.
* The LED drivers need no lock: the order of the tests in the callback, and flag before
  `mod_timer` in the write, suffice (`RestIsLit`, `FollowsRequest`). The timer is gone
  with the module, unless a write arms it after the deletion, for which the device is
  still there (`TimerGoneWithModule`).
* A read of `qread` gets bytes of the last write as long as no write is in progress
  (`ReadsLastWrite`), and bytes outside the buffer only when `size` is lowered between two looks
  at it (`StrayOnlyByRace`), by a write or by `insmod` itself, whose last store undoes a write that came before it.
  `sc1` is a file with one writer at a time and nobody beside an emptying (`IsFile`), up to its
  capacity, beyond which it takes bytes and keeps none; no block is lost in it (`NoLeak`). A read of a file that
  grows meanwhile can return more than was asked for. Emptying under a reader, two writers, and calls during `insmod` are
  outside these promises.
* The servers end for the reasons `StopsOnlyIf` lists and for no other: `accept` with a `len` that has no
  value, children that are never waited for, in `server.c` a client that breaks off. The
  handler that reaps in a loop leaves no zombie although signals coalesce (`NothingLeft`); a client that does not
  break off is answered (`Answered`).
* A pipeline ends, and with it the shell's wait, whatever is on its two sides
  (`CommandsEnd`), and the right program gets all of the left one's output (`RightGetsAll`).
* `kamned.c` loses no line to a kill, but after one the text may be under the name
  `temp.txt` alone, where the next run overwrites it (`NoLineLost`). Two runs that overlap are outside that promise.
* `sleep1` can wait for ever if the alarm rings before `pause`, and then only (`AllWakeUp`). What it returns is
  off by half a second at most, except that it is 1 for any time shorter than that; `signal.c` sets its alarm anew
  to such a number, so that every `SIGINT` may shift it, by up to a second to the later side (`TimeIsKept`).
* The two mode printers agree (`TextsRight`). `lsl` prints what `stat` told it last
  about an entry it cannot examine. `word_matcher.sh` finds every word that is there, and one that is not
  only if a length was given twice, because the count of letters goes on where it stopped for the first, or if
the line has a `/` in it, the sign that strikes out a letter, which is then found where a letter has been struck
out. `WordsFound` says nothing about lines with that sign.

Several unrelated programs share the runs `Drivers` and `Programs`. Their properties say nothing when
the program they are about is not the one that runs; `TotalsRight`, `ServersKeepUp` and
`TextsRight` are conjunctions with one conjunct for each program, or for each promise of one. In the same
way `OrderlyRelay`, `OrderlyBoard`, `SleepsSuffice`, `CostOfRestart`, `LeftByKill` and
`ResultRight` bundle properties that are defined and explained one by one in their modules.

### Fairness

`FairSpec` gives every program weak fairness: the scheduler runs a program that can go on.
The blocking `semop` calls get strong fairness, because the kernel queues the waiters
of a semaphore and serves them in order, so that a semaphore that is given back again and
again is obtained. The user's typing (`WriterInput`), the choices of the player and his
leaving (`Player`), the writes, the switch and `rmmod` get none; a write or a removal that
has begun goes on, and a timer that is armed expires. The timed
specification has weak fairness of its whole step only and is used for safety.

In `Programs` the assumptions are those of the module that runs, and weak throughout: threads and
processes run, a signal that is pending is delivered, time passes. Nobody need connect, type a line,
send a signal or break off. `SchedulerEnds` needs strong fairness of the `semop` calls
for the reason above.

## 5. What is proved

For every number of messages `N`, queue capacity, set of texts, notice capacity and number of
threads, processes and rounds, from the named assumptions of the modules only. They say that
numbers are numbers (`NAssumption`, `QueueCapAssumption`, `NTAssumption`, `LedAssumption`,
`RestartAssumption`, `MaxKillsAssumption`, `ReadsAssumption`, `TotalsAssumption`, `AlarmsAssumption`,
`PipesAssumption`, `RanksAssumption`, `MaxStartAssumption`, and `TextsAssumption`, which adds that texts and words are
sequences and that a directory and a file have something to read), that what stands for "none" or for no text is not something or a text
(`BoardAssumption`, `MarksAssumption`, `ServersAssumption`), and what the programs start from: niceness is from -20
to 19 and one process is the manager (`NicenessAssumption`), the files given to `kamned` exist and none is
`temp.txt` (`EditorAssumption`), `sc1` has arrays of at least one quantum of at least one byte, and no block is at
`NULL` (`QuantaAssumption`).

| Theorem | States |
|---|---|
| `MessagePipeline_proofs`: `TypeCorrect`, `Exclusion`, `OrderKept`, `LastAgrees`, `RelayIsOrderly`, `RefinesRegister` | `Spec => []TypeOK`, `[]MutualExclusion`, `[]RelayedInOrder`, `[]LastAgreesWithQueue`, the last three as `[]OrderlyRelay`, `ImplementsRegister` |
| the same: `NothingIsLost`; `RestartCosts`, `KillLeaves`; `SleepsAreEnough` | `[]NothingLostAfterSend`; of `RestartSpec`, `[]CostOfRestart`, `LeftByKill`; of `TimedSpec`, `[]SleepsSuffice` |
| `MessageBoard_proofs`: `TypeCorrect`, `Exclusion`, `ShownIsPosted`, `NothingUnseen`, `BoardIsOrderly`, `RefinesRegister` | `[]TypeOK`, `[]MutualExclusion`, `[]ShownAsPosted`, `[]NothingUnseenAtRest`, the last three as `[]OrderlyBoard`, `ImplementsRegister` |
| the same: `RestartCosts`, `PairsAreWhole` | of `RestartSpec`, `[]CostOfRestart`, `WholePairs` |
| `Programs_proofs`: `TypeCorrect`, `RemovalIsLast`, `PermitsKept`, `AtMostTwoUnlessClobbered` | `[]TypeOK`, `[]RemovedLast`, `[]PermitsUnlessClobbered`, `[](~clobbered => AtMostTwo)` |
| `Blackjack_proofs`: `TypeCorrect`, `OnlyEarlyLeavers`, `ScoresAreTrue`, `ResultIsRight` | `[]TypeOK`, `[]LostOnlyToEarlyLeave`, `[]ViewAgrees`, `[]ResultRight` |
| `Drivers_proofs`: `TimerGone`, `RestLit`; `StraysByRace`, `ReadsAreWrites`; `TypesAreCorrect` | of `DriversSpec`, `[]TimerGoneWithModule`, `[]RestIsLit`; `[]StrayOnlyByRace`, `[]ReadsLastWrite`; `[]TypesOK` |
| `QuantumSet_proofs`: `DeviceIsFile`, `NoBlockIsLost` | of `DriversSpec`, `[]IsFile`, `[]NoLeak` |
| `Servers_proofs`: `ServersEndure` | of `ProgramsSpec`, `[]ServersKeepUp` |
| `Programs_proofs` too: `Balance`, `WholeRounds`, `TotalsAreRight` | `[]PrintsBalance`, `[]TotalsOfWholeRounds`, the two of `ProgramsSpec` as `[]TotalsRight` |
| the same: `TimeKept`, `AllHelped`, `RightSideGetsAll`, `NoLineIsLost` | of `ProgramsSpec`, `[]TimeIsKept`, `[]Helped`, `[]RightGetsAll`, `[]NoLineLost` |
| the same: `TextsAreRight`, `TypesAreCorrect` | of `ProgramsSpec`, `[]TextsRight`, `[]TypesOK` |

The scheme is the same each time: an inductive invariant in named parts, one lemma for each part that is
hard to keep, one step for each action.

*Pipeline.* Mutual exclusion is not inductive: nothing in it says what the semaphore is worth.
`LockInv` adds that: 1 when nobody is inside, 0 when somebody is, 0 or missing before
`SETVAL`, missing after the go-between's `semctl`, which is where the generator may be inside
without it. `WriteInv` says what the segment holds at each call of the
generator (half-written only inside its critical section). `RelayInv` says how `msgbuf`,
`last` and the end of `sent` follow the segment through the go-between's critical section,
and that everything sent is smaller than the message now being written. Order, agreement
and the refinement follow: each step inside a critical section is a stutter of the
register, except the end of `sprintf` and the `msgsnd`. For `NothingLostAfterSend`, `TransferInv` says that
file, buffer and queue, one behind the other, are what was sent.

*The clock.* That the sleeps suffice rests on what a second can hold. `FreeInv` and `QueueInv` need no clock: with nobody
inside, the semaphore is free, and the queue goes only after the empty message. `ClockInv` says who can be asleep at
which call and for how long, and what one sleeper says of the other: a poll that overlaps a write ends in the
instant in which the write does, and the go-between's second is over before the two seconds after which the generator gives
the lock back. So whenever that happens the go-between is waiting for the semaphore and gets it
before time passes. `SeenInv` draws the conclusion call by call: once something has been sent, every message is sent in
the pause that follows it (`GapInv`: in its first instant, or the go-between holds the lock and waits for room in the queue),
hence before the next is written (`HoldInv`), and as long as there is more to come the go-between does not stop
(`StayInv`). `EndInv` is what remains of this at the end, where the segment is cleared, and `FirstInv` says why
a go-between that starts late begins in step. `N`, the capacity of the queue and the times of the starts are arbitrary;
the lengths of the sleeps are those in the code, and with `PollPause` = 5 TLC finds messages missed.

*Restarts.* Nothing of the above survives a kill as it is. `RestartLockInv` keeps the lock until a
`SETVAL` comes upon somebody inside (`setvalHeld`), `RestartTextInv` says that half-written text is
being written or was left by a kill, `RestartFileInv` that a recorder with its file open has written
nothing to it yet. On the board `RestartNoticeInv` says of a post that has not been seen that it will be
announced, is announced, is about to be looked at, or went with a killed program, and
`RestartBoardInv` that the board holds the last post whenever the lock could let the reader in.

*Board.* `StartInv` says which objects exist at which call, `LockInv` as above, `BoardInv`
that `count` is the number of posts and `message` the latest of them outside the writer's
critical section, `ShownInv` that `lastCount` is the number of the last pair shown,
`NoticeInv` that between an increment of `msg_count` and the reader's next look there is
always a notice in the queue or a writer about to send it.

*Scheduler.* `SchedulerInv` relates main's loop counter to what the threads can have done;
`PermitInv` is the conservation law (permits left plus threads inside are two, as
long as nothing was clobbered), with the values of `arg` that make each `Return` do what its
thread meant.

*LED drivers.* `TimerGoneWithModule` is inductive as it stands. `RestIsLit` is not: `TestInv` says of
the callback's later steps what it has tested, and that this is still so or another callback is
to come (`Pending`), which holds because a write sets its flag before it calls `mod_timer`.
`StartInv` says that nothing has run before `timer_setup`.

*Blackjack.* The messages on the wire are what makes it hard. `TurnInv` says for each pair of places
of server and client what can be on its way, `ConnInv` what the connection is after the client has left,
`DealerInv` that the cards of the dealer come before `END` and the last of them has his score,
`EndInv` and `ResultInv` that a result is the game's, and what may stand before it. `ScreenInv` is what
the client has understood so far. `TailInv` follows the zero that the first message leaves in `recvline`
through all shorter ones: from it comes that a final message of the same length is always understood.

*qread.* `LoadInv` says that before the fields are stored nobody has read or written, and that the size is not taken back
until the last store. `StrayOnlyByRace` needs that between the looks of a read there is still something to read
(`BoundInv`), unless `size` was lowered. `ReadsLastWrite` needs what a calm reader has been given so far
(`CalmInv`) and what a write that began alone has put into the buffer so far (`AloneInv`); `WriteInv` that
no process that crashed in the middle counts as a writer.

*sc1.* `IsFile` and `NoLeak` speak of what can be seen at rest; `QuantaInv` has what makes them so at every statement
of a read, a write and an emptying. Part of it holds of any device (`Base`: types of the blocks, whose modes allow which
call, places within the geometry); the rest as long as the device is not `misused` (`Core`). `NotEarly` says of a device
which is not misused that whoever opened it found the structure, and that no call is on its way with a `Q` of 0. `ShapeInv` says which blocks are in
use, through every partial state of an emptying and of a write that has allocated a block and not yet filled
it: no two slots hold the same block, and every block that is not free is in one. `SizeInv` relates `length` to what was
reported as written, up to the capacity, with the write that has moved its position and not yet set the size as the
exception; `DataInv` says that byte `i` of the history is at row and column `i` of the quanta, and `FetchInv` that a read
copies from the quantum it looked up; `LookInv` that its count is what was asked for, or less, or that the file
has grown since the comparison. `OneWriter` is what not being misused gives: beside a write there are only
reads, and beside an emptying nothing.

*Servers.* `MainInv` says who has which end of a connection at each call of main, `BacklogInv` that a connection
waits once, `WireInv` that a request is in one place, `SignalInv` that a zombie is there only
while its signal, or the handler that waits for it, still is.

*Counter and totals.* `RangeInv` bounds the global, and the values read, by the rounds done on each
side, which survives lost updates; `HeldInv` says that under the mutex the value read is the
global's. For the totals, `TotalInv` says at each step inside the mutex what is still to be
added; that `ps` is a multiple of a round rests on the lemma `NextMultiple`.

*Alarms.* Time passed and time left are together what was asked for (`KeepsTime`, with what rounding may add or
take for each `SIGINT` answered), at every step of `sleep1` (`SleepInv`) and of `signal.c` (`AlarmInv`). `RangesAt` bounds
what is left, and what is told of it, by what was asked for.

*Niceness.* `ManagerInv` says of every process what the manager's pass has left of its niceness
(`RaisedAt`), and the script itself is not among those it touches (`ScriptInv`). Which process the pass
takes next is a minimum, whose existence (`MinIsIn`) rests on the well-foundedness of the numbers.

*PipeShell.* `CourseAt` orders the steps of the two children of a command, `EndsAt` says that the left one
has the pipe open as long as it may write, `QueueAt` that the pipe holds exactly what was
written and not read: hence who sees the end has had everything.

*kamned.* As long as no two runs were in each other's way, every name has its own inode (`ApartAt`), at most one run
edits and none appends to its file (`PairAt`), `RunAt` says what a run has open and has made
of `temp.txt`, and `FileAt` that a file holds what it should, or `temp.txt` does and no other
file is missing. That copying, skipping and inserting come to what the manual says is the lemma
`EditedIsAfter`.

*Text tools.* `TextInv` says for each program what it has counted and written so far: the newlines
from where `rep.c` is to the end (`RepInv`), the entries listed (`LslInv`), the parts read (`LookInv`). For
`word_matcher.sh`, `MatchInv` follows each letter: until a length that is the line's has been passed (`Fresh`), the word
without what was struck holds each letter as often as before, less the times it was looked for, but not less than
none, and all letters looked for were counted if and only if there were enough of each. The lemmas about `Count` say how
often a sequence holds something when a place is added to it, one is struck, or its beginning is cut off; they take the
place of an induction over the data, because the loops of the programs are steps of the model. That the two mode
printers agree is a lemma of nine cases (`ModesAgree`).

*Types.* The type invariants of `Drivers` and `Programs` are those of their modules, which stay as they start when another runs.
They follow from the invariants above, which contain them.

*What the attempts showed.* Several definitions had to be put right because the invariant would not go
through. `unannounced` of `BoardRestart` was cleared before the reader had made up for the post;
`shrunk` of `QuantumRead` was not cleared between two reads, so that it excused more than it should;
`LineEditor` had six inodes, and an inode was chosen even when none was free; the type of `Alarms` had a
number in it that was true of the checked instance only; `WordsFound` was false for lines with a `/`, which no checked
instance had. `TimeIsKept` once had bounds that were those of a clock of half seconds, and `ReadsLastWrite` lacked its
exception as long as the stores of `insmod` were one step: bounds that hold only because of the size of a step.

*Only model-checked:* the liveness properties (the prover does not handle fairness): `BothEndUnlessFull`,
`MarkerEndsRecorder`, `ExitEndsReader`, `PostsGetShown`, `StandEndsGame`, `FollowsRequest`, `SchedulerEnds`, `Answered`,
`CommandsEnd`, `AllWakeUp`. Every invariant that a run checks, every action property and both refinements are
proved. `RemovalIsLast` and the `TypeCorrect` of pipeline, board and scheduler state what no run repeats.

## 6. Findings

* `posrednik.c:105`: the go-between takes a fresh segment for the end (run `PipelineEnd`).
* `message_writer.c:105`: at the end of its input the writer posts the old line again and
  again (run `BoardEof`).
* `threadScheduler.c:35`: the shared `sembuf` admits a third thread (run `SchedulerAdmits`).
* `bj_server.c:145`: when a player has left before his cards were written to him, the write of `END`
  raises `SIGPIPE`, which ends the server for all, without the "final result" of line 143 (run `BlackjackLeave`).

One more comment disagrees with the code and has no run of its own: of what `main` prints `shared_mutex.c:49` and
`shared_res.c:44` say "dobimo 11" (one gets 11). With the mutex it is 0 in every run: that is what
`PrintsBalance`, a part of `TotalsRight`, says and `Balance` proves. Without it 11 is one of the numbers from `-K` to `K` that
may come out.

## 7. Not modelled

* `my_module.c` and `module_framework.c` do not build: `module_init` and `module_exit` are
  given names that are not defined.
* `daytime-server.c` and its client exchange one line without a request; `multi_thread.c` and
  `one_thread.c` share nothing; the demos of `concepts/processes` and `concepts/pipe` do one call
  each, which `PipeShell` has together.
* Copying a stream (`tee1.c`, `copy1.c`, `copy_file.c`, `buffered_write.c`, `fputs_test.c`) and listing
  names (`dir.c`, `dir2.c`, `tip.c`) have no state but the position in the input.
* The remaining scripts are sequences of calls of `find`, `sort`, `useradd`, `chmod` and
  the like, and what they do is what those tools do.
* Straight-line teaching examples (`concepts/basic`), the one-call IPC demos (`concepts/ipc`), whose calls
  pipeline and board use together, and the test scripts.
* Of the listed hazards some have no property. The zero `bj_server.c:87` may store one byte past its
  buffer is not modelled (messages are not bytes in `Blackjack`). The others happen in the models, but the code does
  nothing against them, and the properties except them by a history: `sc1` emptied under its users or called during
  `insmod` (`misused`), two runs of `kamned.c` at once (`spoilt`), messages of one run of the
  pipeline that reach the next; and parts of others, a write that arms a deleted timer (`stray`), a key of the
  monitor that undoes what the manager did (`touched`), and posts a reader does not see after the counter started again.

In the modelled programs failures of the machine itself are left out (`ftok`,
`shmat`, `fopen`, `fclose`, `pthread_create`, `socket`, `alloc_chrdev_region` failing; `fork` and
`kmalloc` do fail in the modules of servers and devices), as are formatting and what is printed on the terminal. `LedTimer` lets the
statements of two processors take effect in program order.
