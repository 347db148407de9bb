------------------------------ MODULE Niceness ------------------------------
(***************************************************************************)
(* bash/process_management: process_priority_manager.sh makes every        *)
(* process nicer, gives the copies of one program the niceness p and       *)
(* starts as many as there are less than n; process_monitor.sh shows a     *)
(* process and makes it nicer or less nice at a key.  Processes are forked *)
(* and end meanwhile, and a process id may be used anew.                   *)
(***************************************************************************)
EXTENDS Integers, FiniteSetsExt

CONSTANTS
    Pids,      \* process ids, positive numbers
    p, s, n,   \* the settings of the priority manager
    First,     \* the processes there are at first: pid, program and niceness
    MaxEvents  \* how many processes end or are forked, and how many keys are pressed

Shells == {"script", "bash"}
Nobody == 0

VARIABLES
    boss,    \* the next part of the priority manager
    todo,    \* the processes its loop has still to do
    pid, ni, \* the process whose niceness it has read, and that niceness
    st,      \* the copies it has counted or started
    x1,      \* the niceness of what pidof took for its shell
    x, cnice,\* process_monitor.sh: the process shown, and its niceness then
    prog,    \* the program each process runs
    nice,    \* the niceness of each process
    events,  \* how much has happened beside the priority manager
    before,  \* history: the processes there since the list was made, and their niceness
    helped,  \* history: the copies that were reniced or started
    touched  \* history: processes the monitor changed

bossVars == <<boss, todo, pid, ni, st, x1>>
vars == <<bossVars, x, cnice, prog, nice, events, before, helped, touched>>

Live == {q \in Pids : prog[q] # "free"}
Targets == {q \in Pids : prog[q] = "target"}
Script == CHOOSE q \in Pids : prog[q] = "script"

\* The kernel keeps niceness from -20 to 19.
Clamp(v) == IF v < -20 THEN -20 ELSE IF v > 19 THEN 19 ELSE v

Init ==
    /\ \E f \in First : prog = f.prog /\ nice = f.nice
    /\ boss = "list" /\ todo = {} /\ pid = Nobody /\ ni = 0 /\ st = 0 /\ x1 = 0
    /\ x = Nobody /\ cnice = 0 /\ events = 0
    /\ before = [q \in {} |-> 0] /\ helped = {} /\ touched = {}

-----------------------------------------------------------------------------
(* process_priority_manager.sh.  Definitions named ..._Slip are mistakes; no specification uses them. *)

\* renice: there may be no such process any more.
Renice(q, v) == nice' = IF q \in Live THEN [nice EXCEPT ![q] = Clamp(v)] ELSE nice

List ==
    /\ boss = "list" /\ boss' = "raise"
    /\ todo' = Live /\ before' = [q \in Live |-> nice[q]]
    /\ UNCHANGED <<pid, ni, st, x1, x, cnice, prog, nice, events, helped, touched>>

\* ps and pgrep list by process id.  ni is nothing if the process has ended.
ReadNice ==
    /\ boss = "raise" /\ pid = Nobody
    /\ todo # {} /\ pid' = Min(todo) /\ todo' = todo \ {pid'}
    /\ ni' = IF pid' \in Live THEN nice[pid'] ELSE 0
    /\ UNCHANGED <<boss, st, x1, x, cnice, prog, nice, events, before, helped, touched>>

Raise ==
    /\ pid # Nobody /\ Renice(pid, ni + s)
    /\ pid' = Nobody /\ ni' = 0
    /\ UNCHANGED <<boss, todo, st, x1, x, cnice, prog, events, before, helped, touched>>

Pgrep ==
    /\ boss = "raise" /\ pid = Nobody /\ todo = {} /\ boss' = "help"
    /\ todo' = Targets
    /\ UNCHANGED <<pid, ni, st, x1, x, cnice, prog, nice, events, before, helped, touched>>

\* A process that still runs the program is counted and reniced.
Help ==
    /\ boss = "help" /\ todo # {}
    /\ LET q == Min(todo) IN
         /\ todo' = todo \ {q}
         /\ IF q \in Targets
            THEN st' = st + 1 /\ Renice(q, p) /\ helped' = helped \cup {q} /\ touched' = touched \ {q}
            ELSE UNCHANGED <<st, nice, helped, touched>>
    /\ UNCHANGED <<boss, pid, ni, x1, x, cnice, prog, events, before>>

\* pidof -s bash: any process that runs bash.
Pidof ==
    /\ boss = "help" /\ todo = {} /\ boss' = "start"
    /\ \E q \in Pids : prog[q] \in Shells /\ x1' = nice[q]
    /\ UNCHANGED <<todo, pid, ni, st, x, cnice, prog, nice, events, before, helped, touched>>

Start_Slip ==  \* nice -n p
    /\ boss = "start" /\ st < n /\ st' = st + 1
    /\ \E q \in Pids \ Live :
         /\ prog' = [prog EXCEPT ![q] = "target"]
         /\ nice' = [nice EXCEPT ![q] = Clamp(nice[Script] + p)]
         /\ helped' = helped \cup {q}
    /\ UNCHANGED <<boss, todo, pid, ni, x1, x, cnice, events, before, touched>>

\* nice -n $(($p-$x1)): added to the niceness of the script.
Start ==
    /\ boss = "start" /\ st < n /\ st' = st + 1
    /\ \E q \in Pids \ Live :
         /\ prog' = [prog EXCEPT ![q] = "target"]
         /\ nice' = [nice EXCEPT ![q] = Clamp(nice[Script] + p - x1)]
         /\ helped' = helped \cup {q}
    /\ UNCHANGED <<boss, todo, pid, ni, x1, x, cnice, events, before, touched>>

Finish ==
    /\ boss = "start" /\ st >= n /\ boss' = "done"
    /\ UNCHANGED <<todo, pid, ni, st, x1, x, cnice, prog, nice, events, before, helped, touched>>

-----------------------------------------------------------------------------
(* process_monitor.sh *)

\* osvezi: the process and its niceness are shown and a key is waited for.
Osvezi ==
    /\ x = Nobody /\ events < MaxEvents
    /\ \E q \in Live \ {Script} : x' = q /\ cnice' = nice[q]
    /\ UNCHANGED <<bossVars, prog, nice, events, before, helped, touched>>

\* The keys + and -: one more or less than what was shown.
Key ==
    /\ x # Nobody /\ events < MaxEvents /\ events' = events + 1
    /\ \E d \in {1, -1} : Renice(x, cnice + d)
    /\ touched' = touched \cup {x} /\ x' = Nobody /\ cnice' = 0
    /\ UNCHANGED <<bossVars, prog, before, helped>>

\* A process ends by itself or by the key u.
Ends(q) ==
    /\ q \in Live \ {Script} /\ events < MaxEvents /\ events' = events + 1
    /\ prog' = [prog EXCEPT ![q] = "free"] /\ nice' = [nice EXCEPT ![q] = 0]
    /\ before' = [y \in DOMAIN before \ {q} |-> before[y]]
    /\ helped' = helped \ {q} /\ touched' = touched \ {q}
    /\ UNCHANGED <<bossVars, x, cnice>>

\* A child has the niceness of its parent.
Forks(q) ==
    /\ q \in Live \ {Script} /\ events < MaxEvents /\ events' = events + 1
    /\ \E c \in Pids \ Live :
         prog' = [prog EXCEPT ![c] = prog[q]] /\ nice' = [nice EXCEPT ![c] = nice[q]]
    /\ UNCHANGED <<bossVars, x, cnice, before, helped, touched>>

Next ==
    \/ List \/ ReadNice \/ Raise \/ Pgrep \/ Help \/ Pidof \/ Start \/ Finish
    \/ Osvezi \/ Key
    \/ \E q \in Pids : Ends(q) \/ Forks(q)

Spec == Init /\ [][Next]_vars
-----------------------------------------------------------------------------
TypeOK ==
    /\ boss \in {"list", "raise", "help", "start", "done"}
    /\ todo \subseteq Pids /\ pid \in Pids \cup {Nobody} /\ x \in Pids \cup {Nobody}
    /\ prog \in [Pids -> {"script", "bash", "target", "other", "free"}]
    /\ nice \in [Pids -> -20..19]
    /\ helped \subseteq Pids /\ touched \subseteq Pids

\* When the manager is done, whatever ended or was forked meanwhile, every process
\* there since the list was made has been made nicer once, and the copies it found
\* or started have the niceness p, unless the monitor changed one in between, and
\* for those it started, unless pidof took a shell of another niceness for the
\* manager's own (process_priority_manager.sh:32-48, process_monitor.sh:21, 86-94).
Helped ==
    boss = "done" =>
        \A q \in Live \ touched :
            /\ q \in helped /\ (q \in DOMAIN before \/ x1 = nice[Script]) => nice[q] = Clamp(p)
            /\ q \in DOMAIN before \ helped => nice[q] = Clamp(before[q] + s)
=============================================================================
