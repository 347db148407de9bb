------------------------------ MODULE Programs ------------------------------
(***************************************************************************)
(* The programs that run in user space and are smaller than the pipeline,  *)
(* the board and the game, one of which is running.  They share nothing: a *)
(* behaviour is of the program that runs, and the variables of the others  *)
(* stay as they are.                                                       *)
(***************************************************************************)
EXTENDS ThreadScheduler, Sequences, FiniteSets

CONSTANTS
    Clients, ProcLimits,                      \* Servers'
    CommandLines, MaxCommands, Capacity,      \* PipeShell's; CommandLines are its Lines
    Runs, Files, LineNumbers, FirstText,      \* LineEditor's; LineNumbers are its Lines
    Inodes,
    K,                                        \* Counter's
    Shooters, RoundPoints, P_MAX,             \* MonteCarlo's NT, p and P_MAX
    Second, Seconds, MaxSignals,              \* Alarms'
    Texts, Counts, Modes, Entries, ListSize,  \* TextTools'
    Chunks, FileSize, Words, Lengths, Wishes,
    Pids, Priority, Times, Limit,             \* Niceness'; the three are its p, s and n
    First, MaxEvents

\* K, NT and P are numbers fixed in the programs, above 0 (shared_res.c:10; mc_pi.c:5-6, 21).
\* Only mc_sin.c takes the number of its threads from its argument, unchecked
\* (mc_sin.c:90): what is said of it is said of those above 0.
ASSUME TotalsAssumption ==
    /\ K \in Nat /\ Shooters \in Nat \ {0} /\ RoundPoints \in Nat \ {0} /\ P_MAX \in Nat

\* Connections are as many as are made, and none of them is current when none is.
ASSUME ServersAssumption ==
    IsFiniteSet(Clients) /\ "none" \notin Clients /\ ProcLimits \subseteq Nat

\* sleep1 is given an unsigned number (sleep.c:18), and a second is some number of ticks.
ASSUME AlarmsAssumption ==
    Second \in Nat \ {0} /\ Seconds \subseteq Nat /\ MaxSignals \in Nat

\* Process ids are above 0, niceness is from -20 to 19, and one process is the manager.
ASSUME NicenessAssumption ==
    /\ Pids \subseteq Nat \ {0} /\ Priority \in Int /\ Times \in Int
    /\ \A f \in First :
         /\ f.prog \in [Pids -> {"script", "bash", "target", "other", "free"}]
         /\ f.nice \in [Pids -> -20..19]
         /\ \E q \in Pids : \A r \in Pids : f.prog[r] = "script" <=> r = q

\* Commands are as many as there are lines, and what a pipe holds is counted.
ASSUME PipesAssumption == MaxCommands \in Nat /\ Capacity \in Nat

\* atoi gives any number.  The files are there at first, and none of them is temp.txt.
ASSUME EditorAssumption ==
    /\ LineNumbers \subseteq Int /\ Inodes \subseteq Nat \ {0} /\ "temp.txt" \notin Files
    /\ \E f \in [Files -> Inodes] : \A x, y \in Files : f[x] = f[y] => x = y
    /\ FirstText \in Seq({FirstText[l] : l \in DOMAIN FirstText})

\* Lines and words are sequences of characters.  A directory lists "." at least, and a
\* file that is searched is read once at least (lsl.c:40; server.c:43).
ASSUME TextsAssumption ==
    /\ \A t \in Texts \cup Words : t \in Seq({t[l] : l \in DOMAIN t})
    /\ Counts \subseteq Int /\ Lengths \subseteq Seq(Int)
    /\ ListSize \in Nat \ {0} /\ FileSize \in Nat \ {0}

VARIABLES
    running,  \* the program the behaviour is about
    traits, limit, server, current, len, backlog, holds, worker, sigchld, handler, client, wire,
    reset, broken,
    shell, commands, odd, words, left, right, fds, pipe, wrote, got,
    directory, content, call, mode, name, n, source, target, text, wanted, spoilt,
    locked, globalna, mut, at, i, j, printed,
    join, mainStep, shooter, z, ps, zs, mutex, hits,
    program, step, nsecs, timer, phase, unslept, result, elapsed, signals, missed,
    tool, in, pos, letter, cnt, buf, out, ended,
    boss, todo, pid, ni, st, x1, x, cnice, prog, nice, events, before, helped, touched

servingVars == <<traits, limit, server, current, len, backlog, holds, worker, sigchld, handler,
                 client, wire, reset, broken>>
pipingVars == <<shell, commands, odd, words, left, right, fds, pipe, wrote, got>>
editingVars == <<directory, content, call, mode, name, n, source, target, text, wanted, spoilt>>
countingVars == <<locked, globalna, mut, at, i, j, printed>>
shootingVars == <<join, mainStep, shooter, z, ps, zs, mutex, hits>>
alarmingVars == <<program, step, nsecs, timer, phase, unslept, result, elapsed, signals,
                  missed>>
computingVars == <<tool, in, pos, letter, cnt, buf, out, ended>>
nicingVars == <<boss, todo, pid, ni, st, x1, x, cnice, prog, nice, events, before, helped,
                touched>>

Serving == INSTANCE Servers
Piping == INSTANCE PipeShell WITH Lines <- CommandLines
Editing == INSTANCE LineEditor WITH Lines <- LineNumbers
Counting == INSTANCE Counter
Shooting == INSTANCE MonteCarlo WITH NT <- Shooters, p <- RoundPoints
Alarming == INSTANCE Alarms
Computing == INSTANCE TextTools
Nicing == INSTANCE Niceness WITH p <- Priority, s <- Times, n <- Limit

programsVars ==
    <<running, vars, servingVars, pipingVars, editingVars, countingVars, shootingVars,
      alarmingVars, computingVars, nicingVars>>

ProgramsInit ==
    /\ running \in {"scheduler", "servers", "shell", "kamned", "counter", "montecarlo", "alarms",
                    "texts", "niceness"}
    /\ Init
    /\ Serving!Init /\ (running # "servers" =>
           traits = Serving!Search /\ limit = CHOOSE l \in ProcLimits : TRUE)
    /\ Piping!Init
    /\ Editing!Init /\ (running # "kamned" =>
           LET f == CHOOSE g \in Files : TRUE
           IN  \A r \in Runs : mode[r] = "append" /\ name[r] = f)
    /\ Counting!Init /\ (running # "counter" => locked)
    /\ Shooting!Init
    /\ Alarming!Init /\ (running # "alarms" =>
           program = "sleep" /\ nsecs = CHOOSE t \in Seconds : TRUE)
    /\ Computing!Init /\ (running # "texts" => tool = "rep" /\
           in = [text |-> CHOOSE t \in Texts : TRUE, n |-> CHOOSE c \in Counts : TRUE])
    /\ Nicing!Init

ProgramsNext ==
    \/ running = "scheduler" /\ Next /\ UNCHANGED
           <<running, servingVars, pipingVars, editingVars, countingVars, shootingVars,
             alarmingVars, computingVars, nicingVars>>
    \/ running = "servers" /\ Serving!Next /\ UNCHANGED
           <<running, vars, pipingVars, editingVars, countingVars, shootingVars, alarmingVars,
             computingVars, nicingVars>>
    \/ running = "shell" /\ Piping!Next /\ UNCHANGED
           <<running, vars, servingVars, editingVars, countingVars, shootingVars, alarmingVars,
             computingVars, nicingVars>>
    \/ running = "kamned" /\ Editing!Next /\ UNCHANGED
           <<running, vars, servingVars, pipingVars, countingVars, shootingVars, alarmingVars,
             computingVars, nicingVars>>
    \/ running = "counter" /\ Counting!Next /\ UNCHANGED
           <<running, vars, servingVars, pipingVars, editingVars, shootingVars, alarmingVars,
             computingVars, nicingVars>>
    \/ running = "montecarlo" /\ Shooting!Next /\ UNCHANGED
           <<running, vars, servingVars, pipingVars, editingVars, countingVars, alarmingVars,
             computingVars, nicingVars>>
    \/ running = "alarms" /\ Alarming!Next /\ UNCHANGED
           <<running, vars, servingVars, pipingVars, editingVars, countingVars, shootingVars,
             computingVars, nicingVars>>
    \/ running = "texts" /\ Computing!Next /\ UNCHANGED
           <<running, vars, servingVars, pipingVars, editingVars, countingVars, shootingVars,
             alarmingVars, nicingVars>>
    \/ running = "niceness" /\ Nicing!Next /\ UNCHANGED
           <<running, vars, servingVars, pipingVars, editingVars, countingVars, shootingVars,
             alarmingVars, computingVars>>

\* The fairness of the program that is running, for those that have any.
ProgramsFairness ==
    /\ WF_vars(running = "scheduler" /\ Main)
    /\ \A t \in Threads :
         /\ WF_vars(running = "scheduler" /\ Thread(t))
         /\ SF_vars(running = "scheduler" /\ EnterWork(t))
    /\ WF_servingVars(running = "servers" /\ Serving!ServerStep)
    /\ WF_servingVars(running = "servers" /\ Serving!Handler)
    /\ \A c \in Clients :
         /\ WF_servingVars(running = "servers" /\ Serving!Serve(c))
         /\ WF_servingVars(running = "servers" /\ Serving!Answer(c))
    /\ WF_pipingVars(running = "shell" /\ (Piping!ForkLeft \/ Piping!Waitpid))
    /\ \A l \in 1..MaxCommands :
         /\ WF_pipingVars(running = "shell" /\ Piping!LeftSide(l))
         /\ WF_pipingVars(running = "shell" /\ Piping!RightSide(l))
    /\ WF_alarmingVars(running = "alarms" /\ Alarming!Program)
    /\ WF_alarmingVars(running = "alarms" /\ Alarming!Tick)

ProgramsSpec == ProgramsInit /\ [][ProgramsNext]_programsVars /\ ProgramsFairness
-----------------------------------------------------------------------------
\* What the variables of the programs hold.
TypesOK ==
    /\ TypeOK /\ Serving!TypeOK /\ Piping!TypeOK /\ Editing!TypeOK /\ Counting!TypeOK
    /\ Shooting!TypeOK /\ Alarming!TypeOK /\ Computing!TypeOK /\ Nicing!TypeOK

\* Servers' StopsOnlyIf and NothingLeft: what stops a server, and what it keeps of a
\* client that has gone (server.c:100-101; echo-server-par-sig.c:18-29, 87).
ServersKeepUp == Serving!StopsOnlyIf /\ Serving!NothingLeft

\* Servers' Answered (echo-server-par-sig.c:23-27).
Answered == Serving!Answered

\* PipeShell's RightGetsAll (lupina_cev.c:86-107).
RightGetsAll == Piping!RightGetsAll

\* PipeShell's CommandsEnd (lupina_cev.c:89, 102-107, 116-117).
CommandsEnd == Piping!CommandsEnd

\* LineEditor's NoLineLost (kamned.c:73, 86-91, 97, 119-122).
NoLineLost == Editing!NoLineLost

\* Counter's PrintsBalance and MonteCarlo's TotalsOfWholeRounds: what main prints of
\* the values its threads share (shared_mutex.c:22-29; mc_pi.c:51-70).
TotalsRight == Counting!PrintsBalance /\ Shooting!TotalsOfWholeRounds

\* Alarms' TimeIsKept (sleep.c:23-26; signal.c:12-19, 29-47).
TimeIsKept == Alarming!TimeIsKept

\* Alarms' AllWakeUp (sleep.c:23-24).
AllWakeUp == running = "alarms" => Alarming!AllWakeUp

\* TextTools' LastLines, ModesShown, NumbersOfLines and WordsFound: what each
\* program computes, against what it is to compute (rep.c:42-60; mojChmod.c:74-118;
\* server.c:44-50; word_matcher.sh:95-119).
TextsRight ==
    /\ Computing!LastLines /\ Computing!ModesShown
    /\ Computing!NumbersOfLines /\ Computing!WordsFound

\* Niceness' Helped (process_priority_manager.sh:32-48, process_monitor.sh:21, 86-94).
Helped == Nicing!Helped

\* ThreadScheduler's EndsUnlessClobbered (threadScheduler.c:33-37, 50-53).
SchedulerEnds == running = "scheduler" => EndsUnlessClobbered
=============================================================================
