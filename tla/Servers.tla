------------------------------ MODULE Servers ------------------------------
(***************************************************************************)
(* The network servers of the repository and the clients that use them:    *)
(* echo-server-seq.c, echo-server-par.c and echo-server-par-sig.c of       *)
(* concepts/network, par-server.c of exercises/v9, and the search server   *)
(* of examples/server.c.  They are one program in five versions; what      *)
(* tells them apart is a record of traits.  A client sends a request and   *)
(* waits for the reply before it sends the next, so that one message at    *)
(* most is on its way on a connection.  accept, read, write, fork, close   *)
(* and exit are steps, and so is every round of the SIGCHLD handler.       *)
(***************************************************************************)
EXTENDS Naturals, Sequences, FiniteSets

CONSTANTS
    Clients,   \* connections that clients make
    ProcLimits \* how many processes, living or not waited for, a parent may have

\* forks: a child serves the connection; reaps: SIGCHLD has a handler;
\* lenSet: the length given to accept has a value; once: one request is answered;
\* strict: a read that fails ends the server.
Sequential == [forks |-> FALSE, reaps |-> FALSE, lenSet |-> FALSE, once |-> FALSE, strict |-> FALSE]
Parallel == [forks |-> TRUE, reaps |-> FALSE, lenSet |-> FALSE, once |-> FALSE, strict |-> FALSE]
ParallelSig == [forks |-> TRUE, reaps |-> TRUE, lenSet |-> FALSE, once |-> FALSE, strict |-> FALSE]
ParServer == [forks |-> TRUE, reaps |-> TRUE, lenSet |-> TRUE, once |-> TRUE, strict |-> FALSE]
Search == [forks |-> FALSE, reaps |-> FALSE, lenSet |-> FALSE, once |-> FALSE, strict |-> TRUE]

NoClient == "none"
Parent == "parent"
Child == "child"

VARIABLES
    traits,   \* which server it is
    limit,    \* the processes it may have
    server,   \* main's next step
    current,  \* the connection main is at
    len,      \* len has been given a value
    backlog,  \* connections not accepted yet
    holds,    \* who has the server's end of each connection open
    worker,   \* the next step of the process that serves each connection
    sigchld,  \* SIGCHLD is pending
    handler,  \* sig_chld is running
    client,   \* the state of each client
    wire,     \* what is on its way on each connection
    reset,    \* what the server's next read finds of a client that broke off
    broken    \* history: clients that broke off before they were done

serverVars == <<traits, limit, server, current, len, backlog>>
childVars == <<holds, worker>>
signalVars == <<sigchld, handler>>
clientVars == <<client, wire, reset, broken>>
vars == <<serverVars, childVars, signalVars, clientVars>>

Init ==
    /\ traits \in {Sequential, Parallel, ParallelSig, ParServer, Search}
    /\ limit \in ProcLimits /\ server = "accept" /\ current = NoClient /\ len = traits.lenSet /\ backlog = <<>>
    /\ holds = [c \in Clients |-> {}] /\ worker = [c \in Clients |-> "none"]
    /\ sigchld = FALSE /\ handler = FALSE
    /\ client = [c \in Clients |-> "start"] /\ wire = [c \in Clients |-> "empty"]
    /\ reset = [c \in Clients |-> "no"] /\ broken = {}

-----------------------------------------------------------------------------
(***************************************************************************)
(* main.  Definitions named ..._Slip are mistakes one could make in the    *)
(* definition that follows; no specification uses them.                    *)
(***************************************************************************)

\* main runs when its signal handler does not.
Main(from, to) == server = from /\ ~handler /\ server' = to

\* exit: main's descriptors are closed with the process.
Exit(from) ==
    /\ Main(from, "down")
    /\ holds' = [c \in Clients |-> holds[c] \ {Parent}]
    /\ worker' = [c \in Clients |->
         IF worker[c] = "zombie" THEN "reaped"
         ELSE IF ~traits.forks /\ worker[c] # "none" THEN "ended" ELSE worker[c]]
    /\ current' = NoClient /\ backlog' = <<>> /\ sigchld' = FALSE
    /\ UNCHANGED <<traits, limit, len, handler, clientVars>>

Accept ==
    /\ backlog # <<>> /\ Main("accept", IF traits.forks THEN "fork" ELSE "serve")
    /\ current' = Head(backlog) /\ backlog' = Tail(backlog) /\ len' = TRUE
    /\ holds' = [holds EXCEPT ![current'] = {Parent}]
    /\ worker' = [worker EXCEPT ![current'] = IF traits.forks THEN "none" ELSE "read"]
    /\ UNCHANGED <<traits, limit, signalVars, clientVars>>

\* An accept given a length below zero, which len may be by chance, fails.
AcceptFails == backlog # <<>> /\ ~len /\ Exit("accept")

\* Children that live, and those that have ended and were not waited for.
Living == {c \in Clients : Child \in holds[c]}
Zombies == {c \in Clients : worker[c] = "zombie"}

Fork ==
    /\ Cardinality(Living \cup Zombies) < limit /\ Main("fork", "close")
    /\ holds' = [holds EXCEPT ![current] = @ \cup {Child}]
    /\ worker' = [worker EXCEPT ![current] = "read"]
    /\ UNCHANGED <<traits, limit, current, len, backlog, signalVars, clientVars>>

ForkFails == Cardinality(Living \cup Zombies) >= limit /\ Exit("fork")

CloseConnection_Slip ==  \* the parent keeps its descriptor
    /\ \/ traits.forks /\ Main("close", "accept")
       \/ ~traits.forks /\ current # NoClient /\ worker[current] = "ended" /\ Main("serve", "accept")
    /\ current' = NoClient
    /\ UNCHANGED <<traits, limit, len, backlog, childVars, signalVars, clientVars>>

CloseConnectionWaits_Slip ==  \* the parent waits for its child
    /\ server \in {"close", "serve"} /\ current # NoClient
    /\ worker[current] \in {"ended", "zombie", "reaped"}
    /\ Main(server, "accept")
    /\ holds' = [holds EXCEPT ![current] = @ \ {Parent}] /\ current' = NoClient
    /\ UNCHANGED <<traits, limit, len, backlog, worker, signalVars, clientVars>>

\* The parent closes its end at once, a server without children when it is done.
CloseConnection ==
    /\ \/ traits.forks /\ Main("close", "accept")
       \/ ~traits.forks /\ current # NoClient /\ worker[current] = "ended" /\ Main("serve", "accept")
    /\ holds' = [holds EXCEPT ![current] = @ \ {Parent}] /\ current' = NoClient
    /\ UNCHANGED <<traits, limit, len, backlog, worker, signalVars, clientVars>>

-----------------------------------------------------------------------------
(* sig_chld: while (waitpid(-1, &stat, WNOHANG) > 0) *)

Deliver ==
    /\ traits.reaps /\ server # "down" /\ sigchld /\ ~handler
    /\ handler' = TRUE /\ sigchld' = FALSE
    /\ UNCHANGED <<serverVars, childVars, clientVars>>

Reap_Slip ==  \* if in place of while
    /\ handler /\ handler' = FALSE
    /\ \E c \in Zombies : worker' = [worker EXCEPT ![c] = "reaped"]
    /\ UNCHANGED <<serverVars, holds, sigchld, clientVars>>

Reap ==
    /\ handler
    /\ \E c \in Zombies : worker' = [worker EXCEPT ![c] = "reaped"]
    /\ UNCHANGED <<serverVars, holds, signalVars, clientVars>>

HandlerReturns ==
    /\ handler /\ Zombies = {} /\ handler' = FALSE
    /\ UNCHANGED <<serverVars, childVars, sigchld, clientVars>>

-----------------------------------------------------------------------------
(* str_echo, process_request: in a child, or in main itself *)

Worker(c, from, to) == worker[c] = from /\ worker' = [worker EXCEPT ![c] = to]

ClientClosed(c) == client[c] \in {"done", "failed"}

Read(c) ==
    /\ wire[c] = "request" /\ Worker(c, "read", "reply")
    /\ wire' = [wire EXCEPT ![c] = "empty"]
    /\ UNCHANGED <<serverVars, holds, signalVars, client, reset, broken>>

\* The first write to a connection the client has closed succeeds; the reset it is
\* answered with may be there at the next read or not.
Write(c) ==
    /\ Worker(c, "reply", IF traits.once THEN "ended" ELSE "read")
    /\ IF ClientClosed(c)
       THEN reset' = [reset EXCEPT ![c] = "maybe"] /\ UNCHANGED wire
       ELSE wire' = [wire EXCEPT ![c] = "reply"] /\ UNCHANGED reset
    /\ UNCHANGED <<serverVars, holds, signalVars, client, broken>>

\* read returns 0, or -1 for a connection that was reset.
AtEnd(c) == ClientClosed(c) /\ wire[c] # "request" /\ reset[c] # "yes"
AtReset(c) == ClientClosed(c) /\ wire[c] # "request" /\ reset[c] # "no"

ReadEnd_Slip(c) ==  \* a strict server takes the end for an error
    /\ \/ ~traits.strict /\ (AtEnd(c) \/ AtReset(c)) /\ Worker(c, "read", "ended")
          /\ UNCHANGED <<serverVars, holds, signalVars, clientVars>>
       \/ traits.strict /\ worker[c] = "read" /\ (AtEnd(c) \/ AtReset(c)) /\ Exit("serve")

ReadEnd(c) ==
    /\ \/ AtEnd(c) \/ (AtReset(c) /\ ~traits.strict)
    /\ Worker(c, "read", "ended")
    /\ UNCHANGED <<serverVars, holds, signalVars, clientVars>>

ReadFails(c) == traits.strict /\ worker[c] = "read" /\ AtReset(c) /\ Exit("serve")

\* exit(0) of a child; if the parent has gone, another process waits for it.
ChildExits(c) ==
    /\ traits.forks
    /\ Worker(c, "ended", IF server = "down" THEN "reaped" ELSE "zombie")
    /\ holds' = [holds EXCEPT ![c] = @ \ {Child}]
    /\ sigchld' = (traits.reaps /\ server # "down")
    /\ UNCHANGED <<serverVars, handler, clientVars>>

-----------------------------------------------------------------------------
(* The clients *)

Client(c, from, to) == client[c] = from /\ client' = [client EXCEPT ![c] = to]

\* connect; there is nobody to connect to when the server has gone.
Connect(c) ==
    /\ Client(c, "start", IF server = "down" THEN "failed" ELSE "ready")
    /\ backlog' = IF server = "down" THEN backlog ELSE Append(backlog, c)
    /\ UNCHANGED <<traits, limit, server, current, len, childVars, signalVars, wire, reset, broken>>

Send(c) ==
    /\ Client(c, "ready", "waiting")
    /\ wire' = [wire EXCEPT ![c] = "request"]
    /\ UNCHANGED <<serverVars, childVars, signalVars, reset, broken>>

\* The thread of par-client.c is done with its first reply.
Receive(c) ==
    /\ wire[c] = "reply" /\ Client(c, "waiting", IF traits.once THEN "done" ELSE "ready")
    /\ wire' = [wire EXCEPT ![c] = "empty"]
    /\ UNCHANGED <<serverVars, childVars, signalVars, reset, broken>>

\* The server's end is closed: nobody holds it, nor will anybody accept it.
ServerClosed(c) ==
    holds[c] = {} /\ (server = "down" \/ worker[c] # "none") /\ \A i \in DOMAIN backlog : backlog[i] # c

ReceiveFails(c) ==
    /\ wire[c] # "reply" /\ ServerClosed(c) /\ Client(c, "waiting", "failed")
    /\ UNCHANGED <<serverVars, childVars, signalVars, wire, reset, broken>>

\* The end of the input: a client between two requests closes.
Close(c) ==
    /\ Client(c, "ready", "done")
    /\ UNCHANGED <<serverVars, childVars, signalVars, wire, reset, broken>>

\* A client is interrupted.  A reply it has not read resets the connection.
BreakOff(c) ==
    /\ Client(c, "waiting", "done")
    /\ broken' = broken \cup {c}
    /\ IF wire[c] = "reply"
       THEN wire' = [wire EXCEPT ![c] = "empty"] /\ reset' = [reset EXCEPT ![c] = "yes"]
       ELSE UNCHANGED <<wire, reset>>
    /\ UNCHANGED <<serverVars, childVars, signalVars>>

-----------------------------------------------------------------------------
ServerStep == Accept \/ AcceptFails \/ Fork \/ ForkFails \/ CloseConnection
Handler == Deliver \/ Reap \/ HandlerReturns
Serve(c) == Read(c) \/ Write(c) \/ ReadEnd(c) \/ ReadFails(c) \/ ChildExits(c)
Person(c) == Connect(c) \/ Send(c) \/ Close(c) \/ BreakOff(c)
Answer(c) == Receive(c) \/ ReceiveFails(c)

Next ==
    \/ ServerStep \/ Handler
    \/ \E c \in Clients : Serve(c) \/ Person(c) \/ Answer(c)

Spec == Init /\ [][Next]_vars

\* Processes that can run do; people need not send, close or interrupt anything.
Fairness ==
    /\ WF_vars(ServerStep) /\ WF_vars(Handler)
    /\ \A c \in Clients : WF_vars(Serve(c)) /\ WF_vars(Answer(c))

FairSpec == Spec /\ Fairness
-----------------------------------------------------------------------------
TypeOK ==
    /\ traits \in {Sequential, Parallel, ParallelSig, ParServer, Search}
    /\ limit \in ProcLimits
    /\ server \in {"accept", "fork", "close", "serve", "down"}
    /\ current \in Clients \cup {NoClient} /\ len \in BOOLEAN /\ backlog \in Seq(Clients)
    /\ holds \in [Clients -> SUBSET {Parent, Child}]
    /\ worker \in [Clients -> {"none", "read", "reply", "ended", "zombie", "reaped"}]
    /\ sigchld \in BOOLEAN /\ handler \in BOOLEAN
    /\ client \in [Clients -> {"start", "ready", "waiting", "done", "failed"}]
    /\ wire \in [Clients -> {"empty", "request", "reply"}]
    /\ reset \in [Clients -> {"no", "maybe", "yes"}] /\ broken \subseteq Clients

\* A server stops for three reasons only: the length it left without a value
\* (none in par-server.c:54), the zombies and children it has too many of, and, if
\* it is the search server, a client that broke off (server.c:100-101).  Clients
\* that come, ask and go never stop it.
StopsOnlyIf ==
    server = "down" =>
        \/ ~len
        \/ traits.forks /\ Cardinality(Clients) > limit
        \/ traits.strict /\ broken # {}

\* When every client has gone and main is back at accept, no connection is left
\* open, and with a SIGCHLD handler no zombie either, however their ends and the
\* runs of the handler fell together (echo-server-par-sig.c:18-29, 87).
NothingLeft ==
    /\ server = "accept" /\ backlog = <<>> /\ ~sigchld /\ ~handler
    /\ \A c \in Clients : client[c] = "start" \/ (ClientClosed(c) /\ worker[c] \notin {"read", "reply"})
    /\ ~\E c \in Clients : traits.forks /\ worker[c] = "ended"
    => /\ \A c \in Clients : holds[c] = {}
       /\ traits.reaps => Zombies = {}

\* A client that waits for a reply gets one or learns that the server has gone; a
\* server without children may keep it waiting while another client is silent.
Answered ==
    \A c \in Clients :
        client[c] = "waiting" ~>
            \/ client[c] # "waiting"
            \/ ~traits.forks /\ current \notin {c, NoClient}
=============================================================================
