----------------------------- MODULE MCPrograms -----------------------------
(***************************************************************************)
(* TLC instance of Programs.                                               *)
(* ThreadScheduler: three threads for two permits. Servers: two clients, a *)
(* process limit that two children exceed and one they do not.  PipeShell: *)
(* two commands, so that a right side outlives its command; a pipe that is *)
(* full after one item.  LineEditor: two runs, two files, line numbers     *)
(* below and at its end.  MonteCarlo: a limit that is no multiple          *)
(* of a round.  Niceness: two events beside the priority manager, enough   *)
(* to use a process id anew.                                               *)
(***************************************************************************)
EXTENDS Programs

MCClients == {"c1", "c2"}
MCProcLimits == {1, 2}

\* Pipes between programs that read on and that stop, words that cannot be executed,
\* none on the one side or the other, and a tab for a separator.
MCCommandLines ==
    {[left |-> "writer", sep |-> e, right |-> r] : e \in {"blank", "tab"}, r \in {"copier", "head"}}
    \cup {[left |-> "writer", sep |-> "", right |-> ""], [left |-> "nosuch", sep |-> "blank", right |-> "copier"],
          [left |-> "writer", sep |-> "blank", right |-> ""], [left |-> "", sep |-> "blank", right |-> "head"]}

MCEntries ==
    {[found |-> TRUE, type |-> "-", bits |-> {"ur", "suid"}],
     [found |-> TRUE, type |-> "d", bits |-> {"ux", "ox", "svtx"}],
     [found |-> FALSE, type |-> "?", bits |-> {}]}

FirstProcesses ==
    [prog |-> <<"script", "bash", "other", "target", "free">>, nice |-> <<0, 5, 18, 0, 0>>]
MCFirst == {FirstProcesses}
MCPids == 1..5
MCPriority == -10

MCRuns == {"r1", "r2"}
MCFiles == {"f", "g"}
MCLineNumbers == {0, 2}
MCInodes == 1..4
MCFirstText == <<"a", "b">>

MCSeconds == 0..2

MCTexts == UNION {[1..l -> {"char", "newline"}] : l \in 0..5}
MCCounts == 0..3
MCModes == SUBSET {"ur", "gw", "ux", "gx", "ox", "suid", "sgid", "svtx"}
MCChunks == [ends : BOOLEAN, hit : BOOLEAN]
MCWords == UNION {[1..l -> {"a", "b"}] : l \in 1..3} \cup [1..2 -> {"a", "/"}]
MCLengths == {<<2>>, <<1, 3>>, <<2, 2>>}
MCWishes ==
    {<<>>, <<[at |-> 2, letter |-> "b"]>>,
     <<[at |-> 2, letter |-> "b"], [at |-> 1, letter |-> "a"]>>}
=============================================================================
