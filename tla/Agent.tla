------------------------------- MODULE Agent --------------------------------
(***************************************************************************)
(* The whole agent: the event loop of Reactor with the handlers that       *)
(* really run on it, and their clients.  Two acceptors create a            *)
(* CommandEventHandler or a HeartbeatEventHandler for each connection; a   *)
(* command handler polls the subprocess of an exec with timeouts of the    *)
(* loop, a heartbeat sends a thump at each of its own.                     *)
(*                                                                         *)
(* Reactor leaves open what a handler does when it is called; here it is   *)
(* the code that decides, and every step is one of Reactor's.  A call of   *)
(* handleEvent() or handleTimeout() is one step: CommandSession takes it   *)
(* apart.  Transfers of files are in CommandSession and FileTransfer: they *)
(* neither set timeouts nor register or close handlers.                    *)
(***************************************************************************)
EXTENDS Reactor, BufferedSocket, FiniteSets

CONSTANTS
  CommandAcceptor,
  HeartbeatAcceptor,
  Period,         \* SUBPROCESS_POLL_PERIOD_MS, in ticks
  Beat,           \* TIMEOUT of a heartbeat, in ticks
  Commands,       \* the commands clients send
  MaxConnections, \* bound: connections clients make to each acceptor
  MaxLines        \* bound: lines in a connection at one time

ASSUME AgentAssumption ==
  /\ Acceptors = {CommandAcceptor, HeartbeatAcceptor}
  /\ CommandAcceptor # HeartbeatAcceptor
  /\ Intervals = {Period, Beat} /\ Handlers \ Acceptors \subseteq Timers
  /\ Commands \subseteq {"line", "exec", "quit", "rebt"}
  /\ MaxConnections \in [Acceptors -> Nat] /\ MaxLines \in Nat

VARIABLES
  kind,     \* what the handler at each address is: "command", "heartbeat", "none"
  sock,     \* its mBufSocket
  data,     \* mDataEventHandler of a command handler: "none" or "exec"
  child,    \* its subprocess: "none", "running", "silent" (closed its output), "exited"
  waiting,  \* the handler in pclose()
  beats,    \* thumps of a heartbeat, modulo 2
  \* the clients
  backlog,  \* connections each acceptor has still to accept
  net,      \* lines sent and not yet received
  peer,     \* "open", "eof", "reset"
  made      \* connections made to each acceptor

handlerVars == <<kind, sock, data, child, waiting, beats>>
clientVars == <<backlog, net, peer, made>>
agentVars == <<vars, handlerVars, clientVars>>

Addresses == Handlers \ Acceptors
Live == evtHandlers \ Acceptors
Ended(h) == peer[h] # "open"
Sent(h, s) == Write(s, peer[h] = "reset")
NoSocket == Close(NewSocket)

\* setTimeout(); the identity of a timeout is of no consequence, so that of its
\* handler is taken while it is free.
AddTimeout(h, d) ==
  \E i \in IF h \in FreeTimers THEN {h} ELSE FreeTimers :
    timeouts' = timeouts \cup {Timeout(i, h, d)}

AgentInit ==
  /\ Init
  /\ kind = [h \in Addresses |-> "none"]
  /\ sock = [h \in Addresses |-> NoSocket]
  /\ data = [h \in Addresses |-> "none"]
  /\ child = [h \in Addresses |-> "none"]
  /\ waiting = {}
  /\ beats = [h \in Addresses |-> 0]
  /\ backlog = [a \in Acceptors |-> 0]
  /\ net = [h \in Addresses |-> <<>>]
  /\ peer = [h \in Addresses |-> "open"]
  /\ made = [a \in Acceptors |-> 0]
-----------------------------------------------------------------------------
(***************************************************************************)
(* Clients and subprocesses.                                               *)
(***************************************************************************)
Connect(a) ==
  /\ made[a] < MaxConnections[a]
  /\ Cardinality(Live) + backlog[CommandAcceptor] + backlog[HeartbeatAcceptor]
       < Cardinality(Addresses)
  /\ backlog' = [backlog EXCEPT ![a] = @ + 1]
  /\ made' = [made EXCEPT ![a] = @ + 1]
  /\ UNCHANGED <<vars, handlerVars, net, peer>>

SendLine(h) ==
  /\ kind[h] = "command" /\ sock[h].open /\ peer[h] = "open" /\ Len(net[h]) < MaxLines
  /\ \E c \in Commands : net' = [net EXCEPT ![h] = Append(@, c)]
  /\ UNCHANGED <<vars, handlerVars, backlog, peer, made>>

\* A client closes its side, or is gone.
Leave(h) ==
  /\ sock[h].open /\ peer[h] = "open"
  /\ \E p \in {"eof", "reset"} : peer' = [peer EXCEPT ![h] = p]
  /\ UNCHANGED <<vars, handlerVars, backlog, net, made>>

ChildStep(h) ==
  /\ \/ child[h] = "running" /\ child' = [child EXCEPT ![h] = "silent"]
     \/ child[h] \in {"running", "silent"} /\ child' = [child EXCEPT ![h] = "exited"]
  /\ UNCHANGED <<vars, kind, sock, data, waiting, beats, clientVars>>
-----------------------------------------------------------------------------
(***************************************************************************)
(* handleEvent().                                                          *)
(***************************************************************************)
\* getPollDescs(): an exec has no descriptor, and hides that of its session.
PollsSocket(h) == sock[h].open /\ ~sock[h].recvClosed /\ data[h] = "none"
Ready ==
  {a \in evtHandlers \cap Acceptors : backlog[a] > 0} \cup
  {h \in Live : PollsSocket(h) /\ (net[h] # <<>> \/ Ended(h))}

AgentPoll ==
  /\ Poll
  /\ pds' = Ready
  /\ UNCHANGED <<handlerVars, clientVars>>

\* A constructor registers its handler; that of a heartbeat sends a line and
\* sets a timeout.
AgentAccept(a) ==
  /\ Serve(a) /\ a \in evtHandlers \cap Acceptors
  /\ \E new \in Addresses \ evtHandlers :
       /\ evtHandlers' = evtHandlers \cup {new}
       /\ IF a = HeartbeatAcceptor
            THEN /\ AddTimeout(new, Beat)
                 /\ kind' = [kind EXCEPT ![new] = "heartbeat"]
            ELSE /\ UNCHANGED timeouts
                 /\ kind' = [kind EXCEPT ![new] = "command"]
       /\ sock' = [sock EXCEPT ![new] = NewSocket]
       /\ peer' = [peer EXCEPT ![new] = "open"]
       /\ net' = [net EXCEPT ![new] = <<>>]
       /\ beats' = [beats EXCEPT ![new] = 0]
       /\ data' = [data EXCEPT ![new] = "none"]
       /\ child' = [child EXCEPT ![new] = "none"]
  /\ backlog' = [backlog EXCEPT ![a] = @ - 1]
  /\ UNCHANGED <<closed, pc, stopped, waiting, made>>

\* PR_Accept() fails, and its null result is used.
AgentAcceptFails(a) ==
  /\ Serve(a) /\ a \in evtHandlers \cap Acceptors
  /\ pc' = "crashed"
  /\ backlog' = [backlog EXCEPT ![a] = @ - 1]
  /\ UNCHANGED <<evtHandlers, closed, timeouts, stopped, handlerVars, net, peer, made>>

Received(h) == Fill(sock[h], net[h], Ended(h))

\* Faulty variant: what the heartbeat receives ends it, but not the end of it.
BeatEndsOnLine(s) == s.buf # <<>>

BeatEnds(s) == s.recvClosed

\* Faulty variant: a heartbeat deletes itself.
HeartbeatEventDeleting(h) ==
  /\ Serve(h) /\ h \in Live /\ kind[h] = "heartbeat"
  /\ LET s == Received(h)
     IN  /\ sock' = [sock EXCEPT ![h] = IF BeatEnds(s) THEN Close(s) ELSE [s EXCEPT !.buf = <<>>]]
         /\ evtHandlers' = IF BeatEnds(s) THEN evtHandlers \ {h} ELSE evtHandlers
         /\ kind' = IF BeatEnds(s) THEN [kind EXCEPT ![h] = "none"] ELSE kind
  /\ net' = [net EXCEPT ![h] = <<>>]
  /\ UNCHANGED <<closed, timeouts, pc, stopped, data, child, waiting, beats, backlog, peer,
                 made>>

\* HeartbeatEventHandler::handleEvent() reads all there is and forgets it.
HeartbeatEvent(h) ==
  /\ Serve(h) /\ h \in Live /\ kind[h] = "heartbeat"
  /\ LET s == Received(h)
     IN  /\ sock' = [sock EXCEPT ![h] = IF BeatEnds(s) THEN Close(s) ELSE [s EXCEPT !.buf = <<>>]]
         /\ closed' = IF BeatEnds(s) THEN closed \cup {h} ELSE closed
  /\ net' = [net EXCEPT ![h] = <<>>]
  /\ UNCHANGED <<evtHandlers, timeouts, pc, stopped, kind, data, child, waiting, beats,
                 backlog, peer, made>>

\* The lines that are handled in this event are those before the first that
\* makes handleEvent() stop reading.
Stopping(buf) == {i \in DOMAIN buf : buf[i] # "line"}
First(buf) == CHOOSE i \in Stopping(buf) : \A j \in Stopping(buf) : i <= j
Reads(h, c) ==
  LET buf == Received(h).buf
  IN  IF c = "line" THEN Stopping(buf) = {} ELSE Stopping(buf) # {} /\ buf[First(buf)] = c

\* Only lines that are answered at once, or none.
Lines(h) ==
  /\ Reads(h, "line")
  /\ LET s == Received(h)
         t == IF s.buf = <<>> THEN s ELSE Sent(h, [s EXCEPT !.buf = <<>>])
     IN  /\ sock' = [sock EXCEPT ![h] = IF t.recvClosed THEN Close(t) ELSE t]
         /\ closed' = IF t.recvClosed THEN closed \cup {h} ELSE closed
  /\ UNCHANGED <<timeouts, data, child>>

Quit(h) ==
  /\ Reads(h, "quit")
  /\ sock' = [sock EXCEPT ![h] = NoSocket]
  /\ closed' = closed \cup {h}
  /\ UNCHANGED <<timeouts, data, child>>

\* popen() has started the subprocess, and its first timeout is set.  If the
\* client has gone, the session ends in the same event, the timeout pending.
Exec(h) ==
  /\ Reads(h, "exec")
  /\ AddTimeout(h, Period)
  /\ LET s == Received(h)
         rest == Drop(s, First(s.buf))
     IN  IF s.recvClosed
           THEN /\ sock' = [sock EXCEPT ![h] = NoSocket]
                /\ closed' = closed \cup {h}
                /\ UNCHANGED <<data, child>>
           ELSE /\ sock' = [sock EXCEPT ![h] = rest]
                /\ data' = [data EXCEPT ![h] = "exec"]
                /\ child' = [child EXCEPT ![h] = "running"]
                /\ UNCHANGED closed

\* CommandEventHandler::handleEvent().
CommandEvent(h) ==
  /\ Serve(h) /\ h \in Live /\ kind[h] = "command"
  /\ Lines(h) \/ Quit(h) \/ Exec(h)
  /\ net' = [net EXCEPT ![h] = <<>>]
  /\ UNCHANGED <<evtHandlers, pc, stopped, kind, waiting, beats, backlog, peer, made>>

\* What stop() does to the handlers.
AllGone ==
  /\ sock' = [h \in Addresses |-> NoSocket]
  /\ kind' = [h \in Addresses |-> "none"]
  /\ data' = [h \in Addresses |-> "none"]
  /\ child' = [h \in Addresses |-> "none"]
  /\ backlog' = [a \in Acceptors |-> 0]
  /\ UNCHANGED <<waiting, beats, net, peer, made>>

AgentReboot(h) ==
  /\ Reboot(h) /\ h \in Live /\ kind[h] = "command" /\ Reads(h, "rebt")
  /\ AllGone

AgentDispatchDeleted(h) ==
  /\ DispatchDeleted(h)
  /\ UNCHANGED <<handlerVars, clientVars>>
-----------------------------------------------------------------------------
(***************************************************************************)
(* handleTimeout().                                                        *)
(***************************************************************************)
\* Faulty variant: what has been delivered is not struck off.
DeliveringAgain(t) ==
  /\ pc = "deliver" /\ t \in expired
  /\ UNCHANGED <<expired, evtHandlers, closed, pds, unscanned, now, ticks, wantToDie, stopped>>
  /\ UNCHANGED <<kind, clientVars>>

Delivering(t) ==
  /\ pc = "deliver" /\ t \in expired
  /\ expired' = expired \ {t}
  /\ UNCHANGED <<evtHandlers, closed, pds, unscanned, now, ticks, wantToDie, stopped>>
  /\ UNCHANGED <<kind, clientVars>>

\* Faulty variant: as if timeouts were periodic.
RearmNothing(h) == UNCHANGED timeouts

\* HeartbeatEventHandler::handleTimeout(): the next timeout first, then the
\* thump.
RearmBeat(h) == AddTimeout(h, Beat)

Thump(t) ==
  LET h == t.handler
  IN  /\ Delivering(t) /\ h \in Live /\ kind[h] = "heartbeat"
      /\ RearmBeat(h)
      /\ sock' = [sock EXCEPT ![h] = Sent(h, @)]
      /\ beats' = [beats EXCEPT ![h] = 1 - @]
      /\ UNCHANGED <<pc, data, child, waiting>>

\* SubprocessEventHandler::handleTimeout() while the pipe is open: output or
\* none, and the next timeout.
PollPipe(t) ==
  LET h == t.handler
  IN  /\ Delivering(t) /\ h \in Live /\ data[h] = "exec" /\ child[h] = "running"
      /\ AddTimeout(h, Period)
      /\ sock' \in {sock, [sock EXCEPT ![h] = Sent(h, @)]}
      /\ UNCHANGED <<pc, data, child, waiting, beats>>

\* The return code and the prompt.
ExecDone(h) ==
  /\ sock' = [sock EXCEPT ![h] = Sent(h, @)]
  /\ data' = [data EXCEPT ![h] = "none"]
  /\ child' = [child EXCEPT ![h] = "none"]

\* Faulty variant: the timeout is set again at the end, too.
AtEndRearming(h) == AddTimeout(h, Period)
AtEnd(h) == UNCHANGED timeouts

\* The pipe has ended: pclose() returns, if the subprocess has, and waits for
\* it if not.
EndOfPipe(t) ==
  LET h == t.handler
  IN  /\ Delivering(t) /\ h \in Live /\ data[h] = "exec"
      /\ AtEnd(h)
      /\ \/ child[h] = "exited" /\ ExecDone(h) /\ UNCHANGED waiting
         \/ child[h] = "silent" /\ waiting' = {h} /\ UNCHANGED <<sock, data, child>>
      /\ UNCHANGED <<pc, beats>>

\* The subprocess has exited at last.
Reap(h) ==
  /\ h \in waiting /\ child[h] = "exited"
  /\ ExecDone(h)
  /\ waiting' = {}
  /\ UNCHANGED <<vars, kind, beats, clientVars>>

\* CommandEventHandler::handleTimeout() without a data handler: it is looked
\* at nevertheless.
NoDataHandler(t) ==
  LET h == t.handler
  IN  /\ Delivering(t) /\ h \in Live /\ kind[h] = "command" /\ data[h] = "none"
      /\ pc' \in {pc, "crashed"}
      /\ UNCHANGED <<timeouts, sock, data, child, waiting, beats>>

\* A timeout left behind by stop().
DeliverDeleted(t) ==
  /\ Delivering(t) /\ t.handler \notin evtHandlers
  /\ pc' \in {pc, "crashed"}
  /\ UNCHANGED <<timeouts, sock, data, child, waiting, beats>>

AgentDeliver(t) ==
  Thump(t) \/ PollPipe(t) \/ EndOfPipe(t) \/ NoDataHandler(t) \/ DeliverDeleted(t)

\* The handlers that go take their state along.
AgentDeleteClosed ==
  /\ DeleteClosed
  /\ LET Fresh(f, v) == [h \in Addresses |-> IF h \in closed THEN v ELSE f[h]]
     IN  /\ kind' = Fresh(kind, "none") /\ sock' = Fresh(sock, NoSocket)
         /\ data' = Fresh(data, "none") /\ child' = Fresh(child, "none")
         /\ net' = Fresh(net, <<>>) /\ peer' = Fresh(peer, "open")
         /\ beats' = Fresh(beats, 0)
  /\ UNCHANGED <<waiting, backlog, made>>

AgentShutdown == Shutdown /\ AllGone

Same == UNCHANGED <<handlerVars, clientVars>>

AgentStep ==
  \/ /\ waiting = {}
     /\ \/ AgentPoll \/ AgentDeleteClosed \/ AgentShutdown
        \/ (EndDispatch \/ EndScan) /\ Same
        \/ \E t \in unscanned : ScanTimeout(t) /\ Same
        \/ \E h \in pds :
             \/ AgentAccept(h) \/ HeartbeatEvent(h) \/ CommandEvent(h)
             \/ AgentReboot(h) \/ AgentDispatchDeleted(h)
        \/ \E t \in expired : AgentDeliver(t)
  \/ \E h \in waiting : Reap(h)

Clients ==
  \/ \E a \in Acceptors : Connect(a)
  \/ \E h \in Addresses : SendLine(h) \/ Leave(h) \/ ChildStep(h)

AgentNext ==
  \/ AgentStep
  \/ waiting = {} /\ \E a \in pds : AgentAcceptFails(a)
  \/ Clients
  \/ (Tick \/ Signal) /\ Same

\* The only thread runs whenever it can, and time passes.  Nothing is assumed
\* of clients and subprocesses.
AgentSpec == AgentInit /\ [][AgentNext]_agentVars
FairAgentSpec == AgentSpec /\ WF_agentVars(AgentStep) /\ WF_agentVars(Tick /\ Same)
-----------------------------------------------------------------------------
TimersOf(h) == {t \in timeouts \cup expired : t.handler = h}

\* The steps of the handlers are steps the loop allows.
RunsOnReactor == Spec

\* Until stop() runs, a heartbeat has exactly one timeout under way, so has a
\* session with a subprocess (none while pclose() waits), and an open session
\* without one has none: thumps do not multiply, output is polled at one rate,
\* and handleTimeout() finds the data handler it does not look for.
OneTimer ==
  ~stopped =>
    \A h \in Live \ closed :
      Cardinality(TimersOf(h)) =
        IF kind[h] = "heartbeat" \/ (data[h] = "exec" /\ h \notin waiting) THEN 1 ELSE 0

\* Only three things crash the agent: a connection that cannot be accepted, a
\* handler deleted by rebt, and the timeout of an exec whose client left in the
\* event that started it, when the pass takes longer than the timeout.
CrashKnown ==
  [][ pc' = "crashed" /\ pc # "crashed" =>
        \/ stopped' \/ \E a \in Acceptors : backlog'[a] < backlog[a]
        \/ \E t \in expired : t.handler \in closed /\ ticks > Period /\ kind[t.handler] = "command" ]_agentVars

Held == Halted \/ stopped \/ waiting # {}

\* Every heartbeat goes on thumping until its client leaves, although other
\* sessions come and go: only rebt, or a subprocess that has closed its output
\* and does not exit, stops it.
KeepsBeating ==
  \A h \in Addresses, b \in {0, 1} :
    kind[h] = "heartbeat" /\ beats[h] = b ~> beats[h] # b \/ kind[h] # "heartbeat" \/ Held

\* A client that leaves is forgotten: its handler is deleted, unless it runs a
\* subprocess.
LeaversAreDeleted ==
  \A h \in Addresses :
    h \in Live /\ Ended(h) ~> h \notin Live \/ data[h] = "exec" \/ Held

\* A signal ends the loop whatever the clients do, unless pclose() waits.
SignalEndsAgent == wantToDie ~> Halted \/ waiting # {}
=============================================================================
