--------------------------- MODULE Servers_proofs ---------------------------
(***************************************************************************)
(* Proofs about Servers, for any finite number of clients and any limit of *)
(* processes: what stops a server, and what it keeps of clients that have  *)
(* gone.                                                                   *)
(***************************************************************************)
EXTENDS Programs, SequenceTheorems, FiniteSetTheorems, TLAPS

-----------------------------------------------------------------------------
(* The inductive invariant *)

Busy == {"fork", "close", "serve"}
Serves(c) == worker[c] \in {"read", "reply"}
Queued(c) == \E a \in DOMAIN backlog : backlog[a] = c

\* main has the end of the one connection it is at, and a child that of the one it
\* serves; a server without children serves the connection it is at.
MainInv ==
    /\ server \in {"fork", "close"} => traits.forks
    /\ server = "serve" => ~traits.forks
    /\ server \in Busy <=> current \in Clients
    /\ server = "fork" => worker[current] = "none" /\ holds[current] = {Serving!Parent}
    /\ \A c \in Clients :
        /\ Serving!Parent \in holds[c] <=> current = c
        /\ Serving!Child \in holds[c] <=> traits.forks /\ (Serves(c) \/ worker[c] = "ended")
        /\ ~traits.forks /\ Serves(c) => current = c
        /\ ~traits.forks => worker[c] # "zombie"

\* A connection waits once to be accepted, after its client has come and before
\* anything is done for it.
BacklogInv ==
    /\ server = "down" => backlog = <<>>
    /\ \A a, b \in DOMAIN backlog : backlog[a] = backlog[b] => a = b
    /\ \A a \in DOMAIN backlog :
         holds[backlog[a]] = {} /\ worker[backlog[a]] = "none" /\ client[backlog[a]] # "start"
    /\ \A c \in Clients : client[c] = "start" => holds[c] = {} /\ worker[c] = "none"

\* The server will not read any more from c.
Gone(c) == holds[c] = {} /\ ~Queued(c) /\ (server = "down" \/ worker[c] # "none")

\* A request is in one place: on its way, with the server, or answered.  A client that
\* has not broken off has none with the server when it closes, and so is never reset.
WireAt(c) ==
    /\ wire[c] # "empty" => worker[c] # "reply"
    /\ client[c] \in {"start", "ready"} => wire[c] = "empty" /\ worker[c] # "reply"
    /\ c \in broken => client[c] = "done"
    /\ c \notin broken /\ client[c] \in {"done", "failed"} =>
         worker[c] # "reply" /\ (wire[c] = "request" => Gone(c))
    /\ reset[c] # "no" => c \in broken
WireInv == \A c \in Clients : WireAt(c)

\* A zombie is there only while its signal is, or the handler that waits for it.
SignalInv ==
    traits.reaps /\ server # "down" /\ (\E c \in Clients : worker[c] = "zombie")
        => sigchld \/ handler

Inv == /\ Serving!TypeOK
       /\ MainInv /\ BacklogInv /\ WireInv /\ SignalInv /\ Serving!StopsOnlyIf

-----------------------------------------------------------------------------
(* Types *)

\* TypeOK in parts.
TraitsOK ==
    traits \in {Serving!Sequential, Serving!Parallel, Serving!ParallelSig, Serving!ParServer,
                Serving!Search}
ValuesOK ==
    /\ limit \in ProcLimits /\ current \in Clients \cup {"none"}
    /\ backlog \in Seq(Clients) /\ broken \subseteq Clients
FlagsOK == len \in BOOLEAN /\ sigchld \in BOOLEAN /\ handler \in BOOLEAN
NamesOK ==
    /\ server \in {"accept", "fork", "close", "serve", "down"}
    /\ holds \in [Clients -> SUBSET {Serving!Parent, Serving!Child}]
    /\ worker \in [Clients -> {"none", "read", "reply", "ended", "zombie", "reaped"}]
    /\ client \in [Clients -> {"start", "ready", "waiting", "done", "failed"}]
    /\ wire \in [Clients -> {"empty", "request", "reply"}]
    /\ reset \in [Clients -> {"no", "maybe", "yes"}]

LEMMA TypeParts == Serving!TypeOK <=> TraitsOK /\ ValuesOK /\ FlagsOK /\ NamesOK
  BY DEF Serving!TypeOK, TraitsOK, ValuesOK, FlagsOK, NamesOK, Serving!NoClient

\* Only servers with children have a handler, only one without is strict.
LEMMA TraitsFacts ==
    ASSUME TraitsOK
    PROVE  /\ traits.forks \in BOOLEAN /\ traits.reaps \in BOOLEAN /\ traits.lenSet \in BOOLEAN
           /\ traits.once \in BOOLEAN /\ traits.strict \in BOOLEAN
           /\ traits.reaps => traits.forks
           /\ traits.strict => ~traits.forks
  <1>1. CASE traits = Serving!Sequential
    BY <1>1 DEF Serving!Sequential
  <1>2. CASE traits = Serving!Parallel
    BY <1>2 DEF Serving!Parallel
  <1>3. CASE traits = Serving!ParallelSig
    BY <1>3 DEF Serving!ParallelSig
  <1>4. CASE traits = Serving!ParServer
    BY <1>4 DEF Serving!ParServer
  <1>5. CASE traits = Serving!Search
    BY <1>5 DEF Serving!Search
  <1> QED BY <1>1, <1>2, <1>3, <1>4, <1>5 DEF TraitsOK

LEMMA TraitsStay == [Serving!Next]_Serving!vars => UNCHANGED <<traits, limit>>
  <1> SUFFICES ASSUME [Serving!Next]_Serving!vars PROVE UNCHANGED <<traits, limit>>
    OBVIOUS
  <1>1. CASE Serving!Accept
    BY <1>1 DEF Serving!Accept, Serving!Main, Serving!signalVars, Serving!clientVars,
       Serving!Parent
  <1>2. CASE Serving!AcceptFails
    BY <1>2 DEF Serving!AcceptFails, Serving!Exit, Serving!Main, Serving!clientVars,
       Serving!Parent, Serving!NoClient
  <1>3. CASE Serving!Fork
    BY <1>3 DEF Serving!Fork, Serving!Main, Serving!signalVars, Serving!clientVars,
       Serving!Child, Serving!Living, Serving!Zombies
  <1>4. CASE Serving!ForkFails
    BY <1>4 DEF Serving!ForkFails, Serving!Exit, Serving!Main, Serving!clientVars,
       Serving!Parent, Serving!NoClient, Serving!Living, Serving!Zombies
  <1>5. CASE Serving!CloseConnection
    BY <1>5 DEF Serving!CloseConnection, Serving!Main, Serving!signalVars, Serving!clientVars,
       Serving!Parent, Serving!NoClient
  <1>6. CASE Serving!Deliver
    BY <1>6 DEF Serving!Deliver, Serving!serverVars, Serving!childVars, Serving!clientVars
  <1>7. CASE Serving!Reap
    BY <1>7 DEF Serving!Reap, Serving!serverVars, Serving!signalVars, Serving!clientVars,
       Serving!Zombies
  <1>8. CASE Serving!HandlerReturns
    BY <1>8 DEF Serving!HandlerReturns, Serving!serverVars, Serving!childVars,
       Serving!clientVars, Serving!Zombies
  <1>9. ASSUME NEW c \in Clients, Serving!Read(c) PROVE UNCHANGED <<traits, limit>>
    BY <1>9 DEF Serving!Read, Serving!Worker, Serving!serverVars, Serving!signalVars
  <1>10. ASSUME NEW c \in Clients, Serving!Write(c) PROVE UNCHANGED <<traits, limit>>
    BY <1>10 DEF Serving!Write, Serving!Worker, Serving!ClientClosed, Serving!serverVars,
       Serving!signalVars
  <1>11. ASSUME NEW c \in Clients, Serving!ReadEnd(c) PROVE UNCHANGED <<traits, limit>>
    BY <1>11 DEF Serving!ReadEnd, Serving!Worker, Serving!AtEnd, Serving!AtReset,
       Serving!ClientClosed, Serving!serverVars, Serving!signalVars, Serving!clientVars
  <1>12. ASSUME NEW c \in Clients, Serving!ReadFails(c) PROVE UNCHANGED <<traits, limit>>
    BY <1>12 DEF Serving!ReadFails, Serving!AtReset, Serving!ClientClosed, Serving!Exit,
       Serving!Main, Serving!clientVars, Serving!Parent, Serving!NoClient
  <1>13. ASSUME NEW c \in Clients, Serving!ChildExits(c) PROVE UNCHANGED <<traits, limit>>
    BY <1>13 DEF Serving!ChildExits, Serving!Worker, Serving!serverVars, Serving!clientVars,
       Serving!Child
  <1>14. ASSUME NEW c \in Clients, Serving!Connect(c) PROVE UNCHANGED <<traits, limit>>
    BY <1>14 DEF Serving!Connect, Serving!Client, Serving!childVars, Serving!signalVars
  <1>15. ASSUME NEW c \in Clients, Serving!Send(c) PROVE UNCHANGED <<traits, limit>>
    BY <1>15 DEF Serving!Send, Serving!Client, Serving!serverVars, Serving!childVars,
       Serving!signalVars
  <1>16. ASSUME NEW c \in Clients, Serving!Receive(c) PROVE UNCHANGED <<traits, limit>>
    BY <1>16 DEF Serving!Receive, Serving!Client, Serving!serverVars, Serving!childVars,
       Serving!signalVars
  <1>17. ASSUME NEW c \in Clients, Serving!ReceiveFails(c) PROVE UNCHANGED <<traits, limit>>
    BY <1>17 DEF Serving!ReceiveFails, Serving!Client, Serving!ServerClosed, Serving!serverVars,
       Serving!childVars, Serving!signalVars
  <1>18. ASSUME NEW c \in Clients, Serving!Close(c) PROVE UNCHANGED <<traits, limit>>
    BY <1>18 DEF Serving!Close, Serving!Client, Serving!serverVars, Serving!childVars,
       Serving!signalVars
  <1>19. ASSUME NEW c \in Clients, Serving!BreakOff(c) PROVE UNCHANGED <<traits, limit>>
    BY <1>19 DEF Serving!BreakOff, Serving!Client, Serving!serverVars, Serving!childVars,
       Serving!signalVars
  <1>20. CASE UNCHANGED Serving!vars
    BY <1>20 DEF Serving!vars, Serving!serverVars, Serving!childVars, Serving!signalVars,
       Serving!clientVars
  <1> QED
    BY <1>1, <1>2, <1>3, <1>4, <1>5, <1>6, <1>7, <1>8, <1>9, <1>10,
       <1>11, <1>12, <1>13, <1>14, <1>15, <1>16, <1>17, <1>18, <1>19, <1>20
    DEF Serving!Next, Serving!ServerStep, Serving!Handler, Serving!Serve, Serving!Person,
       Serving!Answer

LEMMA ValuesStep ==
    ASSUME ValuesOK, [Serving!Next]_Serving!vars
    PROVE  ValuesOK'
  <1> USE DEF ValuesOK, Serving!NoClient
  <1>1. CASE Serving!Accept
    <2>1. Head(backlog) \in Clients /\ Tail(backlog) \in Seq(Clients)
      BY <1>1, HeadTailProperties DEF Serving!Accept
    <2> QED BY <2>1, <1>1 DEF Serving!Accept, Serving!Main, Serving!signalVars,
        Serving!clientVars, Serving!Parent
  <1>2. CASE Serving!AcceptFails
    BY <1>2, EmptySeq DEF Serving!AcceptFails, Serving!Exit, Serving!Main, Serving!clientVars,
       Serving!Parent, Serving!NoClient
  <1>3. CASE Serving!Fork
    BY <1>3 DEF Serving!Fork, Serving!Main, Serving!signalVars, Serving!clientVars,
       Serving!Child, Serving!Living, Serving!Zombies
  <1>4. CASE Serving!ForkFails
    BY <1>4, EmptySeq DEF Serving!ForkFails, Serving!Exit, Serving!Main, Serving!clientVars,
       Serving!Parent, Serving!NoClient, Serving!Living, Serving!Zombies
  <1>5. CASE Serving!CloseConnection
    BY <1>5 DEF Serving!CloseConnection, Serving!Main, Serving!signalVars, Serving!clientVars,
       Serving!Parent, Serving!NoClient
  <1>6. CASE Serving!Deliver
    BY <1>6 DEF Serving!Deliver, Serving!serverVars, Serving!childVars, Serving!clientVars
  <1>7. CASE Serving!Reap
    BY <1>7 DEF Serving!Reap, Serving!serverVars, Serving!signalVars, Serving!clientVars,
       Serving!Zombies
  <1>8. CASE Serving!HandlerReturns
    BY <1>8 DEF Serving!HandlerReturns, Serving!serverVars, Serving!childVars,
       Serving!clientVars, Serving!Zombies
  <1>9. ASSUME NEW c \in Clients, Serving!Read(c) PROVE ValuesOK'
    BY <1>9 DEF Serving!Read, Serving!Worker, Serving!serverVars, Serving!signalVars
  <1>10. ASSUME NEW c \in Clients, Serving!Write(c) PROVE ValuesOK'
    BY <1>10 DEF Serving!Write, Serving!Worker, Serving!ClientClosed, Serving!serverVars,
       Serving!signalVars
  <1>11. ASSUME NEW c \in Clients, Serving!ReadEnd(c) PROVE ValuesOK'
    BY <1>11 DEF Serving!ReadEnd, Serving!Worker, Serving!AtEnd, Serving!AtReset,
       Serving!ClientClosed, Serving!serverVars, Serving!signalVars, Serving!clientVars
  <1>12. ASSUME NEW c \in Clients, Serving!ReadFails(c) PROVE ValuesOK'
    BY <1>12, EmptySeq DEF Serving!ReadFails, Serving!AtReset, Serving!ClientClosed,
       Serving!Exit, Serving!Main, Serving!clientVars, Serving!Parent, Serving!NoClient
  <1>13. ASSUME NEW c \in Clients, Serving!ChildExits(c) PROVE ValuesOK'
    BY <1>13 DEF Serving!ChildExits, Serving!Worker, Serving!serverVars, Serving!clientVars,
       Serving!Child
  <1>14. ASSUME NEW c \in Clients, Serving!Connect(c) PROVE ValuesOK'
    BY <1>14, AppendProperties DEF Serving!Connect, Serving!Client, Serving!childVars,
       Serving!signalVars
  <1>15. ASSUME NEW c \in Clients, Serving!Send(c) PROVE ValuesOK'
    BY <1>15 DEF Serving!Send, Serving!Client, Serving!serverVars, Serving!childVars,
       Serving!signalVars
  <1>16. ASSUME NEW c \in Clients, Serving!Receive(c) PROVE ValuesOK'
    BY <1>16 DEF Serving!Receive, Serving!Client, Serving!serverVars, Serving!childVars,
       Serving!signalVars
  <1>17. ASSUME NEW c \in Clients, Serving!ReceiveFails(c) PROVE ValuesOK'
    BY <1>17 DEF Serving!ReceiveFails, Serving!Client, Serving!ServerClosed, Serving!serverVars,
       Serving!childVars, Serving!signalVars
  <1>18. ASSUME NEW c \in Clients, Serving!Close(c) PROVE ValuesOK'
    BY <1>18 DEF Serving!Close, Serving!Client, Serving!serverVars, Serving!childVars,
       Serving!signalVars
  <1>19. ASSUME NEW c \in Clients, Serving!BreakOff(c) PROVE ValuesOK'
    BY <1>19 DEF Serving!BreakOff, Serving!Client, Serving!serverVars, Serving!childVars,
       Serving!signalVars
  <1>20. CASE UNCHANGED Serving!vars
    BY <1>20 DEF Serving!vars, Serving!serverVars, Serving!childVars, Serving!signalVars,
       Serving!clientVars
  <1> QED
    BY <1>1, <1>2, <1>3, <1>4, <1>5, <1>6, <1>7, <1>8, <1>9, <1>10,
       <1>11, <1>12, <1>13, <1>14, <1>15, <1>16, <1>17, <1>18, <1>19, <1>20
    DEF Serving!Next, Serving!ServerStep, Serving!Handler, Serving!Serve, Serving!Person,
       Serving!Answer

LEMMA FlagsStep ==
    ASSUME TraitsOK, FlagsOK, [Serving!Next]_Serving!vars
    PROVE  FlagsOK'
  <1> USE DEF FlagsOK
  <1>1. CASE Serving!Accept
    BY <1>1 DEF Serving!Accept, Serving!Main, Serving!signalVars, Serving!clientVars,
       Serving!Parent
  <1>2. CASE Serving!AcceptFails
    BY <1>2 DEF Serving!AcceptFails, Serving!Exit, Serving!Main, Serving!clientVars,
       Serving!Parent, Serving!NoClient
  <1>3. CASE Serving!Fork
    BY <1>3 DEF Serving!Fork, Serving!Main, Serving!signalVars, Serving!clientVars,
       Serving!Child, Serving!Living, Serving!Zombies
  <1>4. CASE Serving!ForkFails
    BY <1>4 DEF Serving!ForkFails, Serving!Exit, Serving!Main, Serving!clientVars,
       Serving!Parent, Serving!NoClient, Serving!Living, Serving!Zombies
  <1>5. CASE Serving!CloseConnection
    BY <1>5 DEF Serving!CloseConnection, Serving!Main, Serving!signalVars, Serving!clientVars,
       Serving!Parent, Serving!NoClient
  <1>6. CASE Serving!Deliver
    BY <1>6 DEF Serving!Deliver, Serving!serverVars, Serving!childVars, Serving!clientVars
  <1>7. CASE Serving!Reap
    BY <1>7 DEF Serving!Reap, Serving!serverVars, Serving!signalVars, Serving!clientVars,
       Serving!Zombies
  <1>8. CASE Serving!HandlerReturns
    BY <1>8 DEF Serving!HandlerReturns, Serving!serverVars, Serving!childVars,
       Serving!clientVars, Serving!Zombies
  <1>9. ASSUME NEW c \in Clients, Serving!Read(c) PROVE FlagsOK'
    BY <1>9 DEF Serving!Read, Serving!Worker, Serving!serverVars, Serving!signalVars
  <1>10. ASSUME NEW c \in Clients, Serving!Write(c) PROVE FlagsOK'
    BY <1>10 DEF Serving!Write, Serving!Worker, Serving!ClientClosed, Serving!serverVars,
       Serving!signalVars
  <1>11. ASSUME NEW c \in Clients, Serving!ReadEnd(c) PROVE FlagsOK'
    BY <1>11 DEF Serving!ReadEnd, Serving!Worker, Serving!AtEnd, Serving!AtReset,
       Serving!ClientClosed, Serving!serverVars, Serving!signalVars, Serving!clientVars
  <1>12. ASSUME NEW c \in Clients, Serving!ReadFails(c) PROVE FlagsOK'
    BY <1>12 DEF Serving!ReadFails, Serving!AtReset, Serving!ClientClosed, Serving!Exit,
       Serving!Main, Serving!clientVars, Serving!Parent, Serving!NoClient
  <1>13. ASSUME NEW c \in Clients, Serving!ChildExits(c) PROVE FlagsOK'
    <2>1. (traits.reaps /\ server # "down") \in BOOLEAN
      BY Zenon
    <2> QED BY <1>13, <2>1, Zenon DEF Serving!ChildExits, Serving!Worker, Serving!serverVars,
        Serving!clientVars, Serving!Child
  <1>14. ASSUME NEW c \in Clients, Serving!Connect(c) PROVE FlagsOK'
    BY <1>14 DEF Serving!Connect, Serving!Client, Serving!childVars, Serving!signalVars
  <1>15. ASSUME NEW c \in Clients, Serving!Send(c) PROVE FlagsOK'
    BY <1>15 DEF Serving!Send, Serving!Client, Serving!serverVars, Serving!childVars,
       Serving!signalVars
  <1>16. ASSUME NEW c \in Clients, Serving!Receive(c) PROVE FlagsOK'
    BY <1>16 DEF Serving!Receive, Serving!Client, Serving!serverVars, Serving!childVars,
       Serving!signalVars
  <1>17. ASSUME NEW c \in Clients, Serving!ReceiveFails(c) PROVE FlagsOK'
    BY <1>17 DEF Serving!ReceiveFails, Serving!Client, Serving!ServerClosed, Serving!serverVars,
       Serving!childVars, Serving!signalVars
  <1>18. ASSUME NEW c \in Clients, Serving!Close(c) PROVE FlagsOK'
    BY <1>18 DEF Serving!Close, Serving!Client, Serving!serverVars, Serving!childVars,
       Serving!signalVars
  <1>19. ASSUME NEW c \in Clients, Serving!BreakOff(c) PROVE FlagsOK'
    BY <1>19 DEF Serving!BreakOff, Serving!Client, Serving!serverVars, Serving!childVars,
       Serving!signalVars
  <1>20. CASE UNCHANGED Serving!vars
    BY <1>20 DEF Serving!vars, Serving!serverVars, Serving!childVars, Serving!signalVars,
       Serving!clientVars
  <1> QED
    BY <1>1, <1>2, <1>3, <1>4, <1>5, <1>6, <1>7, <1>8, <1>9, <1>10,
       <1>11, <1>12, <1>13, <1>14, <1>15, <1>16, <1>17, <1>18, <1>19, <1>20
    DEF Serving!Next, Serving!ServerStep, Serving!Handler, Serving!Serve, Serving!Person,
       Serving!Answer

LEMMA NamesStep ==
    ASSUME TraitsOK, ValuesOK, MainInv, NamesOK, [Serving!Next]_Serving!vars
    PROVE  NamesOK'
  <1> USE DEF NamesOK, Serving!Parent, Serving!Child
  <1>1. CASE Serving!Accept
    BY <1>1, HeadTailProperties DEF Serving!Accept, Serving!Main, Serving!signalVars,
       Serving!clientVars, Serving!Parent
  <1>2. CASE Serving!AcceptFails
    BY <1>2 DEF Serving!AcceptFails, Serving!Exit, Serving!Main, Serving!clientVars,
       Serving!Parent, Serving!NoClient
  <1>3. CASE Serving!Fork
    BY <1>3 DEF Serving!Fork, Serving!Main, Serving!signalVars, Serving!clientVars,
       Serving!Child, Serving!Living, Serving!Zombies
  <1>4. CASE Serving!ForkFails
    BY <1>4 DEF Serving!ForkFails, Serving!Exit, Serving!Main, Serving!clientVars,
       Serving!Parent, Serving!NoClient, Serving!Living, Serving!Zombies
  <1>5. CASE Serving!CloseConnection
    BY <1>5 DEF Serving!CloseConnection, Serving!Main, Serving!signalVars, Serving!clientVars,
       Serving!Parent, Serving!NoClient
  <1>6. CASE Serving!Deliver
    BY <1>6 DEF Serving!Deliver, Serving!serverVars, Serving!childVars, Serving!clientVars
  <1>7. CASE Serving!Reap
    BY <1>7 DEF Serving!Reap, Serving!serverVars, Serving!signalVars, Serving!clientVars,
       Serving!Zombies
  <1>8. CASE Serving!HandlerReturns
    BY <1>8 DEF Serving!HandlerReturns, Serving!serverVars, Serving!childVars,
       Serving!clientVars, Serving!Zombies
  <1>9. ASSUME NEW c \in Clients, Serving!Read(c) PROVE NamesOK'
    BY <1>9 DEF Serving!Read, Serving!Worker, Serving!serverVars, Serving!signalVars
  <1>10. ASSUME NEW c \in Clients, Serving!Write(c) PROVE NamesOK'
    BY <1>10 DEF Serving!Write, Serving!Worker, Serving!ClientClosed, Serving!serverVars,
       Serving!signalVars
  <1>11. ASSUME NEW c \in Clients, Serving!ReadEnd(c) PROVE NamesOK'
    BY <1>11 DEF Serving!ReadEnd, Serving!Worker, Serving!AtEnd, Serving!AtReset,
       Serving!ClientClosed, Serving!serverVars, Serving!signalVars, Serving!clientVars
  <1>12. ASSUME NEW c \in Clients, Serving!ReadFails(c) PROVE NamesOK'
    BY <1>12 DEF Serving!ReadFails, Serving!AtReset, Serving!ClientClosed, Serving!Exit,
       Serving!Main, Serving!clientVars, Serving!Parent, Serving!NoClient
  <1>13. ASSUME NEW c \in Clients, Serving!ChildExits(c) PROVE NamesOK'
    BY <1>13 DEF Serving!ChildExits, Serving!Worker, Serving!serverVars, Serving!clientVars,
       Serving!Child
  <1>14. ASSUME NEW c \in Clients, Serving!Connect(c) PROVE NamesOK'
    BY <1>14 DEF Serving!Connect, Serving!Client, Serving!childVars, Serving!signalVars
  <1>15. ASSUME NEW c \in Clients, Serving!Send(c) PROVE NamesOK'
    BY <1>15 DEF Serving!Send, Serving!Client, Serving!serverVars, Serving!childVars,
       Serving!signalVars
  <1>16. ASSUME NEW c \in Clients, Serving!Receive(c) PROVE NamesOK'
    BY <1>16 DEF Serving!Receive, Serving!Client, Serving!serverVars, Serving!childVars,
       Serving!signalVars
  <1>17. ASSUME NEW c \in Clients, Serving!ReceiveFails(c) PROVE NamesOK'
    BY <1>17 DEF Serving!ReceiveFails, Serving!Client, Serving!ServerClosed, Serving!serverVars,
       Serving!childVars, Serving!signalVars
  <1>18. ASSUME NEW c \in Clients, Serving!Close(c) PROVE NamesOK'
    BY <1>18 DEF Serving!Close, Serving!Client, Serving!serverVars, Serving!childVars,
       Serving!signalVars
  <1>19. ASSUME NEW c \in Clients, Serving!BreakOff(c) PROVE NamesOK'
    BY <1>19 DEF Serving!BreakOff, Serving!Client, Serving!serverVars, Serving!childVars,
       Serving!signalVars
  <1>20. CASE UNCHANGED Serving!vars
    BY <1>20 DEF Serving!vars, Serving!serverVars, Serving!childVars, Serving!signalVars,
       Serving!clientVars
  <1> QED
    BY <1>1, <1>2, <1>3, <1>4, <1>5, <1>6, <1>7, <1>8, <1>9, <1>10,
       <1>11, <1>12, <1>13, <1>14, <1>15, <1>16, <1>17, <1>18, <1>19, <1>20
    DEF Serving!Next, Serving!ServerStep, Serving!Handler, Serving!Serve, Serving!Person,
       Serving!Answer

-----------------------------------------------------------------------------
(* The invariant is inductive *)

LEMMA MainStep ==
    ASSUME TraitsOK, ValuesOK, FlagsOK, NamesOK, MainInv, BacklogInv, [Serving!Next]_Serving!vars
    PROVE  MainInv'
  <1> USE DEF ValuesOK, NamesOK, MainInv, Busy, Serves, Serving!Parent, Serving!Child
  <1>0. /\ traits.forks \in BOOLEAN /\ traits.strict \in BOOLEAN /\ traits.reaps \in BOOLEAN
        /\ traits.strict => ~traits.forks
        /\ traits' = traits /\ "none" \notin Clients
    BY TraitsFacts, TraitsStay, ServersAssumption
  <1>1. CASE Serving!Accept
    BY <1>1, <1>0 DEF Serving!Accept, Serving!Main, Serving!signalVars, Serving!clientVars,
       Serving!Parent
  <1>2. CASE Serving!AcceptFails
    BY <1>2, <1>0 DEF Serving!AcceptFails, Serving!Exit, Serving!Main, Serving!clientVars,
       Serving!Parent, Serving!NoClient
  <1>3. CASE Serving!Fork
    BY <1>3, <1>0 DEF Serving!Fork, Serving!Main, Serving!signalVars, Serving!clientVars,
       Serving!Child, Serving!Living, Serving!Zombies
  <1>4. CASE Serving!ForkFails
    BY <1>4, <1>0 DEF Serving!ForkFails, Serving!Exit, Serving!Main, Serving!clientVars,
       Serving!Parent, Serving!NoClient, Serving!Living, Serving!Zombies
  <1>5. CASE Serving!CloseConnection
    BY <1>5, <1>0 DEF Serving!CloseConnection, Serving!Main, Serving!signalVars,
       Serving!clientVars, Serving!Parent, Serving!NoClient
  <1>6. CASE Serving!Deliver
    BY <1>6, <1>0 DEF Serving!Deliver, Serving!serverVars, Serving!childVars, Serving!clientVars
  <1>7. CASE Serving!Reap
    BY <1>7, <1>0 DEF Serving!Reap, Serving!serverVars, Serving!signalVars, Serving!clientVars,
       Serving!Zombies
  <1>8. CASE Serving!HandlerReturns
    BY <1>8, <1>0 DEF Serving!HandlerReturns, Serving!serverVars, Serving!childVars,
       Serving!clientVars, Serving!Zombies
  <1>9. ASSUME NEW c \in Clients, Serving!Read(c) PROVE MainInv'
    BY <1>9, <1>0 DEF Serving!Read, Serving!Worker, Serving!serverVars, Serving!signalVars
  <1>10. ASSUME NEW c \in Clients, Serving!Write(c) PROVE MainInv'
    BY <1>10, <1>0 DEF Serving!Write, Serving!Worker, Serving!ClientClosed, Serving!serverVars,
       Serving!signalVars
  <1>11. ASSUME NEW c \in Clients, Serving!ReadEnd(c) PROVE MainInv'
    BY <1>11, <1>0 DEF Serving!ReadEnd, Serving!Worker, Serving!AtEnd, Serving!AtReset,
       Serving!ClientClosed, Serving!serverVars, Serving!signalVars, Serving!clientVars
  <1>12. ASSUME NEW c \in Clients, Serving!ReadFails(c) PROVE MainInv'
    BY <1>12, <1>0 DEF Serving!ReadFails, Serving!AtReset, Serving!ClientClosed, Serving!Exit,
       Serving!Main, Serving!clientVars, Serving!Parent, Serving!NoClient
  <1>13. ASSUME NEW c \in Clients, Serving!ChildExits(c) PROVE MainInv'
    BY <1>13, <1>0 DEF Serving!ChildExits, Serving!Worker, Serving!serverVars,
       Serving!clientVars, Serving!Child
  <1>14. ASSUME NEW c \in Clients, Serving!Connect(c) PROVE MainInv'
    BY <1>14, <1>0 DEF Serving!Connect, Serving!Client, Serving!childVars, Serving!signalVars
  <1>15. ASSUME NEW c \in Clients, Serving!Send(c) PROVE MainInv'
    BY <1>15, <1>0 DEF Serving!Send, Serving!Client, Serving!serverVars, Serving!childVars,
       Serving!signalVars
  <1>16. ASSUME NEW c \in Clients, Serving!Receive(c) PROVE MainInv'
    BY <1>16, <1>0 DEF Serving!Receive, Serving!Client, Serving!serverVars, Serving!childVars,
       Serving!signalVars
  <1>17. ASSUME NEW c \in Clients, Serving!ReceiveFails(c) PROVE MainInv'
    BY <1>17, <1>0 DEF Serving!ReceiveFails, Serving!Client, Serving!ServerClosed,
       Serving!serverVars, Serving!childVars, Serving!signalVars
  <1>18. ASSUME NEW c \in Clients, Serving!Close(c) PROVE MainInv'
    BY <1>18, <1>0 DEF Serving!Close, Serving!Client, Serving!serverVars, Serving!childVars,
       Serving!signalVars
  <1>19. ASSUME NEW c \in Clients, Serving!BreakOff(c) PROVE MainInv'
    BY <1>19, <1>0 DEF Serving!BreakOff, Serving!Client, Serving!serverVars, Serving!childVars,
       Serving!signalVars
  <1>20. CASE UNCHANGED Serving!vars
    BY <1>20, <1>0 DEF Serving!vars, Serving!serverVars, Serving!childVars, Serving!signalVars,
       Serving!clientVars
  <1> QED
    BY <1>1, <1>2, <1>3, <1>4, <1>5, <1>6, <1>7, <1>8, <1>9, <1>10,
       <1>11, <1>12, <1>13, <1>14, <1>15, <1>16, <1>17, <1>18, <1>19, <1>20
    DEF Serving!Next, Serving!ServerStep, Serving!Handler, Serving!Serve, Serving!Person,
       Serving!Answer

LEMMA BacklogStep ==
    ASSUME TraitsOK, ValuesOK, FlagsOK, NamesOK, MainInv, BacklogInv, [Serving!Next]_Serving!vars
    PROVE  BacklogInv'
  <1> USE DEF ValuesOK, NamesOK, BacklogInv
  <1>0. /\ traits.forks \in BOOLEAN /\ traits.strict \in BOOLEAN /\ traits.reaps \in BOOLEAN
        /\ traits.strict => ~traits.forks
        /\ traits' = traits /\ "none" \notin Clients
    BY TraitsFacts, TraitsStay, ServersAssumption
  <1>1. CASE Serving!Accept
    BY <1>1, <1>0 DEF Serving!Accept, Serving!Main, Serving!signalVars, Serving!clientVars,
       Serving!Parent
  <1>2. CASE Serving!AcceptFails
    BY <1>2, <1>0 DEF Serving!AcceptFails, Serving!Exit, Serving!Main, Serving!clientVars,
       Serving!Parent, Serving!NoClient
  <1>3. CASE Serving!Fork
    <2>1. current \in Clients /\ holds[current] = {Serving!Parent}
      BY <1>3 DEF MainInv, Busy, Serving!Fork, Serving!Main
    <2>2. /\ \A a \in DOMAIN backlog : backlog[a] # current
          /\ client[current] # "start"
      BY <2>1
    <2> QED BY <2>1, <2>2, <1>3, <1>0 DEF Serving!Fork, Serving!Main, Serving!signalVars,
        Serving!clientVars, Serving!Child, Serving!Living, Serving!Zombies
  <1>4. CASE Serving!ForkFails
    BY <1>4, <1>0 DEF Serving!ForkFails, Serving!Exit, Serving!Main, Serving!clientVars,
       Serving!Parent, Serving!NoClient, Serving!Living, Serving!Zombies
  <1>5. CASE Serving!CloseConnection
    BY <1>5, <1>0 DEF Serving!CloseConnection, Serving!Main, Serving!signalVars,
       Serving!clientVars, Serving!Parent, Serving!NoClient
  <1>6. CASE Serving!Deliver
    BY <1>6, <1>0 DEF Serving!Deliver, Serving!serverVars, Serving!childVars, Serving!clientVars
  <1>7. CASE Serving!Reap
    BY <1>7, <1>0 DEF Serving!Reap, Serving!serverVars, Serving!signalVars, Serving!clientVars,
       Serving!Zombies
  <1>8. CASE Serving!HandlerReturns
    BY <1>8, <1>0 DEF Serving!HandlerReturns, Serving!serverVars, Serving!childVars,
       Serving!clientVars, Serving!Zombies
  <1>9. ASSUME NEW c \in Clients, Serving!Read(c) PROVE BacklogInv'
    BY <1>9, <1>0 DEF Serving!Read, Serving!Worker, Serving!serverVars, Serving!signalVars
  <1>10. ASSUME NEW c \in Clients, Serving!Write(c) PROVE BacklogInv'
    BY <1>10, <1>0 DEF Serving!Write, Serving!Worker, Serving!ClientClosed, Serving!serverVars,
       Serving!signalVars
  <1>11. ASSUME NEW c \in Clients, Serving!ReadEnd(c) PROVE BacklogInv'
    BY <1>11, <1>0 DEF Serving!ReadEnd, Serving!Worker, Serving!AtEnd, Serving!AtReset,
       Serving!ClientClosed, Serving!serverVars, Serving!signalVars, Serving!clientVars
  <1>12. ASSUME NEW c \in Clients, Serving!ReadFails(c) PROVE BacklogInv'
    BY <1>12, <1>0 DEF Serving!ReadFails, Serving!AtReset, Serving!ClientClosed, Serving!Exit,
       Serving!Main, Serving!clientVars, Serving!Parent, Serving!NoClient
  <1>13. ASSUME NEW c \in Clients, Serving!ChildExits(c) PROVE BacklogInv'
    BY <1>13, <1>0 DEF Serving!ChildExits, Serving!Worker, Serving!serverVars,
       Serving!clientVars, Serving!Child
  <1>14. ASSUME NEW c \in Clients, Serving!Connect(c) PROVE BacklogInv'
    BY <1>14, <1>0 DEF Serving!Connect, Serving!Client, Serving!childVars, Serving!signalVars
  <1>15. ASSUME NEW c \in Clients, Serving!Send(c) PROVE BacklogInv'
    BY <1>15, <1>0 DEF Serving!Send, Serving!Client, Serving!serverVars, Serving!childVars,
       Serving!signalVars
  <1>16. ASSUME NEW c \in Clients, Serving!Receive(c) PROVE BacklogInv'
    BY <1>16, <1>0 DEF Serving!Receive, Serving!Client, Serving!serverVars, Serving!childVars,
       Serving!signalVars
  <1>17. ASSUME NEW c \in Clients, Serving!ReceiveFails(c) PROVE BacklogInv'
    BY <1>17, <1>0 DEF Serving!ReceiveFails, Serving!Client, Serving!ServerClosed,
       Serving!serverVars, Serving!childVars, Serving!signalVars
  <1>18. ASSUME NEW c \in Clients, Serving!Close(c) PROVE BacklogInv'
    BY <1>18, <1>0 DEF Serving!Close, Serving!Client, Serving!serverVars, Serving!childVars,
       Serving!signalVars
  <1>19. ASSUME NEW c \in Clients, Serving!BreakOff(c) PROVE BacklogInv'
    BY <1>19, <1>0 DEF Serving!BreakOff, Serving!Client, Serving!serverVars, Serving!childVars,
       Serving!signalVars
  <1>20. CASE UNCHANGED Serving!vars
    BY <1>20, <1>0 DEF Serving!vars, Serving!serverVars, Serving!childVars, Serving!signalVars,
       Serving!clientVars
  <1> QED
    BY <1>1, <1>2, <1>3, <1>4, <1>5, <1>6, <1>7, <1>8, <1>9, <1>10,
       <1>11, <1>12, <1>13, <1>14, <1>15, <1>16, <1>17, <1>18, <1>19, <1>20
    DEF Serving!Next, Serving!ServerStep, Serving!Handler, Serving!Serve, Serving!Person,
       Serving!Answer

LEMMA GoneStays ==
    ASSUME TraitsOK, ValuesOK, FlagsOK, NamesOK, MainInv, BacklogInv, NEW q \in Clients, Gone(q),
        [Serving!Next]_Serving!vars
    PROVE  Gone(q)'
  <1> USE DEF ValuesOK, NamesOK, Gone, Queued
  <1>0. /\ traits.forks \in BOOLEAN /\ traits.strict \in BOOLEAN /\ traits.reaps \in BOOLEAN
        /\ traits.strict => ~traits.forks
        /\ traits' = traits /\ "none" \notin Clients
    BY TraitsFacts, TraitsStay, ServersAssumption
  <1>a. /\ worker[q] \notin {"read", "reply"} /\ current # q
        /\ worker[q] = "ended" => ~traits.forks
        /\ client[q] = "start" => server = "down"
        /\ server \in {"fork", "close", "serve"} => current \in Clients
    BY <1>0, ServersAssumption DEF MainInv, BacklogInv, Serves, Busy, Serving!Parent,
       Serving!Child
  <1>1. CASE Serving!Accept
    <2>1. \A a \in DOMAIN backlog : backlog[a] # q
      OBVIOUS
    <2>2. Head(backlog) # q /\ \A a \in DOMAIN Tail(backlog) : Tail(backlog)[a] # q
      BY <2>1, <1>1, HeadTailProperties DEF Serving!Accept
    <2> QED BY <2>2, <1>1, <1>0, <1>a DEF Serving!Accept, Serving!Main, Serving!signalVars,
        Serving!clientVars, Serving!Parent
  <1>2. CASE Serving!AcceptFails
    BY <1>2, <1>0, <1>a DEF Serving!AcceptFails, Serving!Exit, Serving!Main, Serving!clientVars,
       Serving!Parent, Serving!NoClient
  <1>3. CASE Serving!Fork
    BY <1>3, <1>0, <1>a DEF Serving!Fork, Serving!Main, Serving!signalVars, Serving!clientVars,
       Serving!Child, Serving!Living, Serving!Zombies
  <1>4. CASE Serving!ForkFails
    BY <1>4, <1>0, <1>a DEF Serving!ForkFails, Serving!Exit, Serving!Main, Serving!clientVars,
       Serving!Parent, Serving!NoClient, Serving!Living, Serving!Zombies
  <1>5. CASE Serving!CloseConnection
    BY <1>5, <1>0, <1>a DEF Serving!CloseConnection, Serving!Main, Serving!signalVars,
       Serving!clientVars, Serving!Parent, Serving!NoClient
  <1>6. CASE Serving!Deliver
    BY <1>6, <1>0, <1>a DEF Serving!Deliver, Serving!serverVars, Serving!childVars,
       Serving!clientVars
  <1>7. CASE Serving!Reap
    BY <1>7, <1>0, <1>a DEF Serving!Reap, Serving!serverVars, Serving!signalVars,
       Serving!clientVars, Serving!Zombies
  <1>8. CASE Serving!HandlerReturns
    BY <1>8, <1>0, <1>a DEF Serving!HandlerReturns, Serving!serverVars, Serving!childVars,
       Serving!clientVars, Serving!Zombies
  <1>9. ASSUME NEW c \in Clients, Serving!Read(c) PROVE Gone(q)'
    BY <1>9, <1>0, <1>a DEF Serving!Read, Serving!Worker, Serving!serverVars, Serving!signalVars
  <1>10. ASSUME NEW c \in Clients, Serving!Write(c) PROVE Gone(q)'
    BY <1>10, <1>0, <1>a DEF Serving!Write, Serving!Worker, Serving!ClientClosed,
       Serving!serverVars, Serving!signalVars
  <1>11. ASSUME NEW c \in Clients, Serving!ReadEnd(c) PROVE Gone(q)'
    BY <1>11, <1>0, <1>a DEF Serving!ReadEnd, Serving!Worker, Serving!AtEnd, Serving!AtReset,
       Serving!ClientClosed, Serving!serverVars, Serving!signalVars, Serving!clientVars
  <1>12. ASSUME NEW c \in Clients, Serving!ReadFails(c) PROVE Gone(q)'
    BY <1>12, <1>0, <1>a DEF Serving!ReadFails, Serving!AtReset, Serving!ClientClosed,
       Serving!Exit, Serving!Main, Serving!clientVars, Serving!Parent, Serving!NoClient
  <1>13. ASSUME NEW c \in Clients, Serving!ChildExits(c) PROVE Gone(q)'
    BY <1>13, <1>0, <1>a DEF Serving!ChildExits, Serving!Worker, Serving!serverVars,
       Serving!clientVars, Serving!Child
  <1>14. ASSUME NEW c \in Clients, Serving!Connect(c) PROVE Gone(q)'
    <2>1. CASE server = "down"
      BY <2>1, <1>14, <1>0, <1>a DEF Serving!Connect, Serving!Client, Serving!childVars,
         Serving!signalVars
    <2>2. CASE server # "down"
      <3>1. c # q
        BY <2>2, <1>14, <1>a DEF Serving!Connect, Serving!Client
      <3>2. \A a \in DOMAIN Append(backlog, c) : Append(backlog, c)[a] # q
        BY <3>1, AppendProperties
      <3> QED BY <2>2, <3>1, <3>2, <1>14, <1>0, <1>a DEF Serving!Connect, Serving!Client,
          Serving!childVars, Serving!signalVars
    <2> QED BY <2>1, <2>2
  <1>15. ASSUME NEW c \in Clients, Serving!Send(c) PROVE Gone(q)'
    BY <1>15, <1>0, <1>a DEF Serving!Send, Serving!Client, Serving!serverVars, Serving!childVars,
       Serving!signalVars
  <1>16. ASSUME NEW c \in Clients, Serving!Receive(c) PROVE Gone(q)'
    BY <1>16, <1>0, <1>a DEF Serving!Receive, Serving!Client, Serving!serverVars,
       Serving!childVars, Serving!signalVars
  <1>17. ASSUME NEW c \in Clients, Serving!ReceiveFails(c) PROVE Gone(q)'
    BY <1>17, <1>0, <1>a DEF Serving!ReceiveFails, Serving!Client, Serving!ServerClosed,
       Serving!serverVars, Serving!childVars, Serving!signalVars
  <1>18. ASSUME NEW c \in Clients, Serving!Close(c) PROVE Gone(q)'
    BY <1>18, <1>0, <1>a DEF Serving!Close, Serving!Client, Serving!serverVars,
       Serving!childVars, Serving!signalVars
  <1>19. ASSUME NEW c \in Clients, Serving!BreakOff(c) PROVE Gone(q)'
    BY <1>19, <1>0, <1>a DEF Serving!BreakOff, Serving!Client, Serving!serverVars,
       Serving!childVars, Serving!signalVars
  <1>20. CASE UNCHANGED Serving!vars
    BY <1>20, <1>0, <1>a DEF Serving!vars, Serving!serverVars, Serving!childVars,
       Serving!signalVars, Serving!clientVars
  <1> QED
    BY <1>1, <1>2, <1>3, <1>4, <1>5, <1>6, <1>7, <1>8, <1>9, <1>10,
       <1>11, <1>12, <1>13, <1>14, <1>15, <1>16, <1>17, <1>18, <1>19, <1>20
    DEF Serving!Next, Serving!ServerStep, Serving!Handler, Serving!Serve, Serving!Person,
       Serving!Answer

LEMMA WireStep ==
    ASSUME TraitsOK, ValuesOK, FlagsOK, NamesOK, MainInv, BacklogInv, WireInv, NEW q \in Clients,
        [Serving!Next]_Serving!vars
    PROVE  WireAt(q)'
  <1> USE DEF ValuesOK, NamesOK, WireAt
  <1>0. /\ traits.forks \in BOOLEAN /\ traits.strict \in BOOLEAN /\ traits.reaps \in BOOLEAN
        /\ traits.strict => ~traits.forks
        /\ traits' = traits /\ "none" \notin Clients
    BY TraitsFacts, TraitsStay, ServersAssumption
  <1>a. WireAt(q)
    BY DEF WireInv
  <1>b. Gone(q) => Gone(q)'
    BY GoneStays
  <1>c. /\ Gone(q) => worker[q] \notin {"read", "reply"}
        /\ traits.forks => worker[q] \notin {"read", "reply"} \/ current # q \/ server # "fork"
        /\ client[q] = "start" => worker[q] = "none"
    BY <1>0 DEF Gone, MainInv, BacklogInv, Serves, Busy, Serving!Parent, Serving!Child
  <1>1. CASE Serving!Accept
    BY <1>1, <1>0, <1>a, <1>b, <1>c DEF Serving!Accept, Serving!Main, Serving!signalVars,
       Serving!clientVars, Serving!Parent
  <1>2. CASE Serving!AcceptFails
    BY <1>2, <1>0, <1>a, <1>b, <1>c DEF Serving!AcceptFails, Serving!Exit, Serving!Main,
       Serving!clientVars, Serving!Parent, Serving!NoClient
  <1>3. CASE Serving!Fork
    BY <1>3, <1>0, <1>a, <1>b, <1>c DEF Serving!Fork, Serving!Main, Serving!signalVars,
       Serving!clientVars, Serving!Child, Serving!Living, Serving!Zombies
  <1>4. CASE Serving!ForkFails
    BY <1>4, <1>0, <1>a, <1>b, <1>c DEF Serving!ForkFails, Serving!Exit, Serving!Main,
       Serving!clientVars, Serving!Parent, Serving!NoClient, Serving!Living, Serving!Zombies
  <1>5. CASE Serving!CloseConnection
    BY <1>5, <1>0, <1>a, <1>b, <1>c DEF Serving!CloseConnection, Serving!Main,
       Serving!signalVars, Serving!clientVars, Serving!Parent, Serving!NoClient
  <1>6. CASE Serving!Deliver
    BY <1>6, <1>0, <1>a, <1>b, <1>c DEF Serving!Deliver, Serving!serverVars, Serving!childVars,
       Serving!clientVars
  <1>7. CASE Serving!Reap
    BY <1>7, <1>0, <1>a, <1>b, <1>c DEF Serving!Reap, Serving!serverVars, Serving!signalVars,
       Serving!clientVars, Serving!Zombies
  <1>8. CASE Serving!HandlerReturns
    BY <1>8, <1>0, <1>a, <1>b, <1>c DEF Serving!HandlerReturns, Serving!serverVars,
       Serving!childVars, Serving!clientVars, Serving!Zombies
  <1>9. ASSUME NEW c \in Clients, Serving!Read(c) PROVE WireAt(q)'
    BY <1>9, <1>0, <1>a, <1>b, <1>c DEF Serving!Read, Serving!Worker, Serving!serverVars,
       Serving!signalVars
  <1>10. ASSUME NEW c \in Clients, Serving!Write(c) PROVE WireAt(q)'
    BY <1>10, <1>0, <1>a, <1>b, <1>c DEF Serving!Write, Serving!Worker, Serving!ClientClosed,
       Serving!serverVars, Serving!signalVars
  <1>11. ASSUME NEW c \in Clients, Serving!ReadEnd(c) PROVE WireAt(q)'
    BY <1>11, <1>0, <1>a, <1>b, <1>c DEF Serving!ReadEnd, Serving!Worker, Serving!AtEnd,
       Serving!AtReset, Serving!ClientClosed, Serving!serverVars, Serving!signalVars,
           Serving!clientVars
  <1>12. ASSUME NEW c \in Clients, Serving!ReadFails(c) PROVE WireAt(q)'
    BY <1>12, <1>0, <1>a, <1>b, <1>c DEF Serving!ReadFails, Serving!AtReset,
       Serving!ClientClosed, Serving!Exit, Serving!Main, Serving!clientVars, Serving!Parent,
           Serving!NoClient
  <1>13. ASSUME NEW c \in Clients, Serving!ChildExits(c) PROVE WireAt(q)'
    BY <1>13, <1>0, <1>a, <1>b, <1>c DEF Serving!ChildExits, Serving!Worker, Serving!serverVars,
       Serving!clientVars, Serving!Child
  <1>14. ASSUME NEW c \in Clients, Serving!Connect(c) PROVE WireAt(q)'
    BY <1>14, <1>0, <1>a, <1>b, <1>c DEF Serving!Connect, Serving!Client, Serving!childVars,
       Serving!signalVars
  <1>15. ASSUME NEW c \in Clients, Serving!Send(c) PROVE WireAt(q)'
    BY <1>15, <1>0, <1>a, <1>b, <1>c DEF Serving!Send, Serving!Client, Serving!serverVars,
       Serving!childVars, Serving!signalVars
  <1>16. ASSUME NEW c \in Clients, Serving!Receive(c) PROVE WireAt(q)'
    BY <1>16, <1>0, <1>a, <1>b, <1>c DEF Serving!Receive, Serving!Client, Serving!serverVars,
       Serving!childVars, Serving!signalVars
  <1>17. ASSUME NEW c \in Clients, Serving!ReceiveFails(c) PROVE WireAt(q)'
    <2>1. c = q => Gone(q)
      BY <1>17 DEF Serving!ReceiveFails, Serving!ServerClosed, Gone, Queued
    <2> QED BY <2>1, <1>17, <1>0, <1>a, <1>b, <1>c DEF Serving!ReceiveFails, Serving!Client,
        Serving!ServerClosed, Serving!serverVars, Serving!childVars, Serving!signalVars
  <1>18. ASSUME NEW c \in Clients, Serving!Close(c) PROVE WireAt(q)'
    BY <1>18, <1>0, <1>a, <1>b, <1>c DEF Serving!Close, Serving!Client, Serving!serverVars,
       Serving!childVars, Serving!signalVars
  <1>19. ASSUME NEW c \in Clients, Serving!BreakOff(c) PROVE WireAt(q)'
    BY <1>19, <1>0, <1>a, <1>b, <1>c DEF Serving!BreakOff, Serving!Client, Serving!serverVars,
       Serving!childVars, Serving!signalVars
  <1>20. CASE UNCHANGED Serving!vars
    BY <1>20, <1>0, <1>a, <1>b, <1>c DEF Serving!vars, Serving!serverVars, Serving!childVars,
       Serving!signalVars, Serving!clientVars
  <1> QED
    BY <1>1, <1>2, <1>3, <1>4, <1>5, <1>6, <1>7, <1>8, <1>9, <1>10,
       <1>11, <1>12, <1>13, <1>14, <1>15, <1>16, <1>17, <1>18, <1>19, <1>20
    DEF Serving!Next, Serving!ServerStep, Serving!Handler, Serving!Serve, Serving!Person,
       Serving!Answer

LEMMA SignalStep ==
    ASSUME TraitsOK, ValuesOK, FlagsOK, NamesOK, MainInv, SignalInv, [Serving!Next]_Serving!vars
    PROVE  SignalInv'
  <1> USE DEF ValuesOK, NamesOK, FlagsOK, SignalInv
  <1>0. /\ traits.forks \in BOOLEAN /\ traits.strict \in BOOLEAN /\ traits.reaps \in BOOLEAN
        /\ traits.strict => ~traits.forks
        /\ traits' = traits /\ "none" \notin Clients
    BY TraitsFacts, TraitsStay, ServersAssumption
  <1>1. CASE Serving!Accept
    BY <1>1, <1>0 DEF Serving!Accept, Serving!Main, Serving!signalVars, Serving!clientVars,
       Serving!Parent
  <1>2. CASE Serving!AcceptFails
    BY <1>2, <1>0 DEF Serving!AcceptFails, Serving!Exit, Serving!Main, Serving!clientVars,
       Serving!Parent, Serving!NoClient
  <1>3. CASE Serving!Fork
    BY <1>3, <1>0 DEF Serving!Fork, Serving!Main, Serving!signalVars, Serving!clientVars,
       Serving!Child, Serving!Living, Serving!Zombies
  <1>4. CASE Serving!ForkFails
    BY <1>4, <1>0 DEF Serving!ForkFails, Serving!Exit, Serving!Main, Serving!clientVars,
       Serving!Parent, Serving!NoClient, Serving!Living, Serving!Zombies
  <1>5. CASE Serving!CloseConnection
    BY <1>5, <1>0 DEF Serving!CloseConnection, Serving!Main, Serving!signalVars,
       Serving!clientVars, Serving!Parent, Serving!NoClient
  <1>6. CASE Serving!Deliver
    BY <1>6, <1>0 DEF Serving!Deliver, Serving!serverVars, Serving!childVars, Serving!clientVars
  <1>7. CASE Serving!Reap
    BY <1>7, <1>0 DEF Serving!Reap, Serving!serverVars, Serving!signalVars, Serving!clientVars,
       Serving!Zombies
  <1>8. CASE Serving!HandlerReturns
    BY <1>8, <1>0 DEF Serving!HandlerReturns, Serving!serverVars, Serving!childVars,
       Serving!clientVars, Serving!Zombies
  <1>9. ASSUME NEW c \in Clients, Serving!Read(c) PROVE SignalInv'
    BY <1>9, <1>0 DEF Serving!Read, Serving!Worker, Serving!serverVars, Serving!signalVars
  <1>10. ASSUME NEW c \in Clients, Serving!Write(c) PROVE SignalInv'
    BY <1>10, <1>0 DEF Serving!Write, Serving!Worker, Serving!ClientClosed, Serving!serverVars,
       Serving!signalVars
  <1>11. ASSUME NEW c \in Clients, Serving!ReadEnd(c) PROVE SignalInv'
    BY <1>11, <1>0 DEF Serving!ReadEnd, Serving!Worker, Serving!AtEnd, Serving!AtReset,
       Serving!ClientClosed, Serving!serverVars, Serving!signalVars, Serving!clientVars
  <1>12. ASSUME NEW c \in Clients, Serving!ReadFails(c) PROVE SignalInv'
    BY <1>12, <1>0 DEF Serving!ReadFails, Serving!AtReset, Serving!ClientClosed, Serving!Exit,
       Serving!Main, Serving!clientVars, Serving!Parent, Serving!NoClient
  <1>13. ASSUME NEW c \in Clients, Serving!ChildExits(c) PROVE SignalInv'
    BY <1>13, <1>0 DEF Serving!ChildExits, Serving!Worker, Serving!serverVars,
       Serving!clientVars, Serving!Child
  <1>14. ASSUME NEW c \in Clients, Serving!Connect(c) PROVE SignalInv'
    BY <1>14, <1>0 DEF Serving!Connect, Serving!Client, Serving!childVars, Serving!signalVars
  <1>15. ASSUME NEW c \in Clients, Serving!Send(c) PROVE SignalInv'
    BY <1>15, <1>0 DEF Serving!Send, Serving!Client, Serving!serverVars, Serving!childVars,
       Serving!signalVars
  <1>16. ASSUME NEW c \in Clients, Serving!Receive(c) PROVE SignalInv'
    BY <1>16, <1>0 DEF Serving!Receive, Serving!Client, Serving!serverVars, Serving!childVars,
       Serving!signalVars
  <1>17. ASSUME NEW c \in Clients, Serving!ReceiveFails(c) PROVE SignalInv'
    BY <1>17, <1>0 DEF Serving!ReceiveFails, Serving!Client, Serving!ServerClosed,
       Serving!serverVars, Serving!childVars, Serving!signalVars
  <1>18. ASSUME NEW c \in Clients, Serving!Close(c) PROVE SignalInv'
    BY <1>18, <1>0 DEF Serving!Close, Serving!Client, Serving!serverVars, Serving!childVars,
       Serving!signalVars
  <1>19. ASSUME NEW c \in Clients, Serving!BreakOff(c) PROVE SignalInv'
    BY <1>19, <1>0 DEF Serving!BreakOff, Serving!Client, Serving!serverVars, Serving!childVars,
       Serving!signalVars
  <1>20. CASE UNCHANGED Serving!vars
    BY <1>20, <1>0 DEF Serving!vars, Serving!serverVars, Serving!childVars, Serving!signalVars,
       Serving!clientVars
  <1> QED
    BY <1>1, <1>2, <1>3, <1>4, <1>5, <1>6, <1>7, <1>8, <1>9, <1>10,
       <1>11, <1>12, <1>13, <1>14, <1>15, <1>16, <1>17, <1>18, <1>19, <1>20
    DEF Serving!Next, Serving!ServerStep, Serving!Handler, Serving!Serve, Serving!Person,
       Serving!Answer

\* Cardinality as the module of the servers has it.
LEMMA SameCount == \A S : Serving!Cardinality(S) = Cardinality(S)
  BY DEF Serving!Cardinality, Cardinality

LEMMA StopStep ==
    ASSUME TraitsOK, ValuesOK, FlagsOK, NamesOK, MainInv, WireInv, Serving!StopsOnlyIf,
        [Serving!Next]_Serving!vars
    PROVE  Serving!StopsOnlyIf'
  <1> USE DEF ValuesOK, NamesOK, FlagsOK, Serving!StopsOnlyIf
  <1>0. /\ traits.forks \in BOOLEAN /\ traits.strict \in BOOLEAN /\ traits.reaps \in BOOLEAN
        /\ traits.strict => ~traits.forks
        /\ traits' = traits /\ "none" \notin Clients
    BY TraitsFacts, TraitsStay, ServersAssumption
  <1>1. CASE Serving!Accept
    BY <1>1, <1>0 DEF Serving!Accept, Serving!Main, Serving!signalVars, Serving!clientVars,
       Serving!Parent
  <1>2. CASE Serving!AcceptFails
    BY <1>2, <1>0 DEF Serving!AcceptFails, Serving!Exit, Serving!Main, Serving!clientVars,
       Serving!Parent, Serving!NoClient
  <1>3. CASE Serving!Fork
    BY <1>3, <1>0 DEF Serving!Fork, Serving!Main, Serving!signalVars, Serving!clientVars,
       Serving!Child, Serving!Living, Serving!Zombies
  <1>4. CASE Serving!ForkFails
    <2>1. current \in Clients /\ current \notin Serving!Living \cup Serving!Zombies
      BY <1>4, <1>0 DEF Serving!ForkFails, Serving!Exit, Serving!Main, MainInv, Busy, Serves,
        Serving!Living, Serving!Zombies, Serving!Parent, Serving!Child
    <2>2. Serving!Living \cup Serving!Zombies \subseteq Clients \ {current}
      BY <2>1 DEF Serving!Living, Serving!Zombies
    <2>3. /\ IsFiniteSet(Clients \ {current})
          /\ Cardinality(Clients \ {current}) = Cardinality(Clients) - 1
      BY <2>1, FS_RemoveElement, ServersAssumption
    <2>4. /\ Cardinality(Serving!Living \cup Serving!Zombies) \in Nat
          /\ Cardinality(Serving!Living \cup Serving!Zombies) <= Cardinality(Clients) - 1
      BY <2>2, <2>3, FS_Subset, FS_CardinalityType
    <2>5. Cardinality(Serving!Living \cup Serving!Zombies) >= limit
      BY <1>4, SameCount DEF Serving!ForkFails
    <2>8. traits.forks /\ traits' = traits /\ limit' = limit
      <3>1. server = "fork" /\ traits' = traits /\ limit' = limit
        BY <1>4 DEF Serving!ForkFails, Serving!Exit, Serving!Main
      <3> QED BY <3>1 DEF MainInv
    <2>6. Cardinality(Clients) \in Nat /\ limit \in Nat
      BY ServersAssumption, FS_CardinalityType
    <2>7. Cardinality(Clients) > limit
      BY <2>4, <2>5, <2>6
    <2> QED BY <2>7, <2>8, SameCount
  <1>5. CASE Serving!CloseConnection
    BY <1>5, <1>0 DEF Serving!CloseConnection, Serving!Main, Serving!signalVars,
       Serving!clientVars, Serving!Parent, Serving!NoClient
  <1>6. CASE Serving!Deliver
    BY <1>6, <1>0 DEF Serving!Deliver, Serving!serverVars, Serving!childVars, Serving!clientVars
  <1>7. CASE Serving!Reap
    BY <1>7, <1>0 DEF Serving!Reap, Serving!serverVars, Serving!signalVars, Serving!clientVars,
       Serving!Zombies
  <1>8. CASE Serving!HandlerReturns
    BY <1>8, <1>0 DEF Serving!HandlerReturns, Serving!serverVars, Serving!childVars,
       Serving!clientVars, Serving!Zombies
  <1>9. ASSUME NEW c \in Clients, Serving!Read(c) PROVE Serving!StopsOnlyIf'
    BY <1>9, <1>0 DEF Serving!Read, Serving!Worker, Serving!serverVars, Serving!signalVars
  <1>10. ASSUME NEW c \in Clients, Serving!Write(c) PROVE Serving!StopsOnlyIf'
    BY <1>10, <1>0 DEF Serving!Write, Serving!Worker, Serving!ClientClosed, Serving!serverVars,
       Serving!signalVars
  <1>11. ASSUME NEW c \in Clients, Serving!ReadEnd(c) PROVE Serving!StopsOnlyIf'
    BY <1>11, <1>0 DEF Serving!ReadEnd, Serving!Worker, Serving!AtEnd, Serving!AtReset,
       Serving!ClientClosed, Serving!serverVars, Serving!signalVars, Serving!clientVars
  <1>12. ASSUME NEW c \in Clients, Serving!ReadFails(c) PROVE Serving!StopsOnlyIf'
    <2>1. c \in broken
      BY <1>12 DEF WireInv, WireAt, Serving!ReadFails, Serving!AtReset
    <2> QED BY <2>1, <1>12, <1>0 DEF Serving!ReadFails, Serving!AtReset, Serving!ClientClosed,
        Serving!Exit, Serving!Main, Serving!clientVars, Serving!Parent, Serving!NoClient
  <1>13. ASSUME NEW c \in Clients, Serving!ChildExits(c) PROVE Serving!StopsOnlyIf'
    BY <1>13, <1>0 DEF Serving!ChildExits, Serving!Worker, Serving!serverVars,
       Serving!clientVars, Serving!Child
  <1>14. ASSUME NEW c \in Clients, Serving!Connect(c) PROVE Serving!StopsOnlyIf'
    BY <1>14, <1>0 DEF Serving!Connect, Serving!Client, Serving!childVars, Serving!signalVars
  <1>15. ASSUME NEW c \in Clients, Serving!Send(c) PROVE Serving!StopsOnlyIf'
    BY <1>15, <1>0 DEF Serving!Send, Serving!Client, Serving!serverVars, Serving!childVars,
       Serving!signalVars
  <1>16. ASSUME NEW c \in Clients, Serving!Receive(c) PROVE Serving!StopsOnlyIf'
    BY <1>16, <1>0 DEF Serving!Receive, Serving!Client, Serving!serverVars, Serving!childVars,
       Serving!signalVars
  <1>17. ASSUME NEW c \in Clients, Serving!ReceiveFails(c) PROVE Serving!StopsOnlyIf'
    BY <1>17, <1>0 DEF Serving!ReceiveFails, Serving!Client, Serving!ServerClosed,
       Serving!serverVars, Serving!childVars, Serving!signalVars
  <1>18. ASSUME NEW c \in Clients, Serving!Close(c) PROVE Serving!StopsOnlyIf'
    BY <1>18, <1>0 DEF Serving!Close, Serving!Client, Serving!serverVars, Serving!childVars,
       Serving!signalVars
  <1>19. ASSUME NEW c \in Clients, Serving!BreakOff(c) PROVE Serving!StopsOnlyIf'
    BY <1>19, <1>0 DEF Serving!BreakOff, Serving!Client, Serving!serverVars, Serving!childVars,
       Serving!signalVars
  <1>20. CASE UNCHANGED Serving!vars
    BY <1>20, <1>0 DEF Serving!vars, Serving!serverVars, Serving!childVars, Serving!signalVars,
       Serving!clientVars
  <1> QED
    BY <1>1, <1>2, <1>3, <1>4, <1>5, <1>6, <1>7, <1>8, <1>9, <1>10,
       <1>11, <1>12, <1>13, <1>14, <1>15, <1>16, <1>17, <1>18, <1>19, <1>20
    DEF Serving!Next, Serving!ServerStep, Serving!Handler, Serving!Serve, Serving!Person,
       Serving!Answer

-----------------------------------------------------------------------------
(* The theorem *)

LEMMA InvInit == Serving!Init => Inv
  <1> SUFFICES ASSUME Serving!Init PROVE Inv
    OBVIOUS
  <1>1. TraitsOK /\ ValuesOK /\ NamesOK
    BY EmptySeq DEF Serving!Init, TraitsOK, ValuesOK, NamesOK, Serving!NoClient
  <1>2. FlagsOK
    BY <1>1, TraitsFacts DEF Serving!Init, FlagsOK
  <1>3. MainInv /\ BacklogInv /\ WireInv /\ SignalInv /\ Serving!StopsOnlyIf
    BY ServersAssumption DEF Serving!Init, MainInv, BacklogInv, WireInv, WireAt, SignalInv,
       Serving!StopsOnlyIf, Busy, Serves, Serving!NoClient
  <1> QED BY <1>1, <1>2, <1>3, TypeParts DEF Inv

LEMMA InvStep == Inv /\ [Serving!Next]_Serving!vars => Inv'
  <1> SUFFICES ASSUME Inv, [Serving!Next]_Serving!vars PROVE Inv'
    OBVIOUS
  <1>1. TraitsOK /\ ValuesOK /\ FlagsOK /\ NamesOK
    BY TypeParts DEF Inv
  <1>2. MainInv /\ BacklogInv /\ WireInv /\ SignalInv /\ Serving!StopsOnlyIf
    BY DEF Inv
  <1>3. TraitsOK'
    BY <1>1, TraitsStay DEF TraitsOK
  <1>4. ValuesOK' /\ FlagsOK' /\ NamesOK'
    BY <1>1, <1>2, ValuesStep, FlagsStep, NamesStep
  <1>5. MainInv' /\ BacklogInv'
    BY <1>1, <1>2, MainStep, BacklogStep
  <1>6. \A q \in Clients : WireAt(q)'
    BY <1>1, <1>2, WireStep
  <1>7. SignalInv' /\ Serving!StopsOnlyIf'
    BY <1>1, <1>2, SignalStep, StopStep
  <1>8. Serving!TypeOK'
    BY <1>3, <1>4 DEF Serving!TypeOK, TraitsOK, ValuesOK, FlagsOK, NamesOK, Serving!NoClient
  <1>9. WireInv'
    BY <1>6 DEF WireInv
  <1> QED BY <1>5, <1>7, <1>8, <1>9 DEF Inv

\* At accept nobody but children hold an end, and of those none is left that reads,
\* replies or is about to exit.
LEMMA NothingLeftOfInv == Inv => Serving!NothingLeft
  <1> SUFFICES ASSUME Inv, server = "accept", backlog = <<>>, ~sigchld, ~handler,
                      \A c \in Clients : \/ client[c] = "start"
                                         \/ worker[c] \notin {"read", "reply"},
                      ~\E c \in Clients : traits.forks /\ worker[c] = "ended"
               PROVE  /\ \A c \in Clients : holds[c] = {}
                      /\ traits.reaps => Serving!Zombies = {}
    BY DEF Serving!NothingLeft, Serving!ClientClosed
  <1>1. \A c \in Clients : holds[c] \in SUBSET {"parent", "child"}
    BY TypeParts DEF Inv, NamesOK, Serving!Parent, Serving!Child
  <1>2. \A c \in Clients : "parent" \notin holds[c] /\ "child" \notin holds[c]
    <2> SUFFICES ASSUME NEW c \in Clients PROVE "parent" \notin holds[c] /\ "child" \notin holds[c]
      OBVIOUS
    <2>1. current \notin Clients
      BY DEF Inv, MainInv, Busy
    <2>2. worker[c] \notin {"read", "reply"} /\ ~(traits.forks /\ worker[c] = "ended")
      BY DEF Inv, BacklogInv
    <2> QED BY <2>1, <2>2 DEF Inv, MainInv, Serves, Serving!Parent, Serving!Child
  <1>3. traits.reaps => Serving!Zombies = {}
    BY DEF Inv, SignalInv, Serving!Zombies
  <1> QED BY <1>1, <1>2, <1>3

\* While another program runs the variables of the servers stay as they are.
LEMMA ServersAlone == ProgramsSpec => []Inv
  <1>1. ProgramsInit => Serving!Init
    BY DEF ProgramsInit
  <1>2. [ProgramsNext]_programsVars => [Serving!Next]_Serving!vars
    BY DEF ProgramsNext, programsVars, servingVars, Serving!vars, Serving!serverVars,
           Serving!childVars, Serving!signalVars, Serving!clientVars
  <1> QED BY <1>1, <1>2, InvInit, InvStep, PTL DEF ProgramsSpec

\* However many clients come, and however they go, a server stops only for a length
\* it left without a value, for processes it may not have, or, the search server, for
\* a client that broke off; and when the clients it served have gone it holds nothing
\* of them (server.c:100-101; echo-server-par-sig.c:18-29, 87).
THEOREM ServersEndure == ProgramsSpec => []ServersKeepUp
  <1>1. Inv => ServersKeepUp
    BY NothingLeftOfInv DEF Inv, ServersKeepUp
  <1> QED BY <1>1, ServersAlone, PTL
=============================================================================
