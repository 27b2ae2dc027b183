--------------------------- MODULE CommandSession ---------------------------
(***************************************************************************)
(* One connection to the command port, from the prompt that greets it to   *)
(* the deletion of its handler: CommandEventHandler with the data handler  *)
(* it delegates to (PullFileEventHandler, PushFileEventHandler,            *)
(* SubprocessEventHandler), the client and the TCP connection.             *)
(*                                                                         *)
(* The agent has one thread; what interleaves with its steps is the client *)
(* (sending, closing, resetting, no longer reading), the file it pulls and *)
(* the subprocess it polls.  A pass of Reactor::run() is, for this handler:*)
(* PR_Poll, handleEvent() if the descriptor is ready, handleTimeout() if a *)
(* timeout has expired, deleteClosed().                                    *)
(***************************************************************************)
EXTENDS BufferedSocket

CONSTANTS
  Kinds,        \* the commands the client uses
  PushSizes,    \* lengths of the files it pushes, in tokens
  MaxBlocks,    \* bound: blocks of a file it pulls
  MaxCommands,  \* bound: commands of a client
  Lockstep      \* TRUE: the client waits for the prompt before each command

\* "quick" stands for every command answered by one string: the ones that only
\* inspect or change the file system and the clock, and the unknown ones.
AllKinds == {"blank", "quick", "pull", "push", "exec", "quit"}

ASSUME SessionAssumption ==
  /\ Kinds \subseteq AllKinds
  /\ PushSizes \subseteq Nat
  /\ MaxBlocks \in Nat /\ MaxCommands \in Nat
  /\ Lockstep \in BOOLEAN

VARIABLES
  \* the client and the connection
  net,      \* tokens sent and not yet received
  peer,     \* "open", "eof": the client closed its side, "reset"
  reading,  \* the client reads what the agent sends
  owes,     \* payload tokens of a push the client has still to send
  sent,     \* commands sent
  asked,    \* commands sent that call for a prompt
  \* the handler
  sock,     \* mBufSocket
  closed,   \* mClosed
  data,     \* mDataEventHandler
  timer,    \* pending timeouts of this handler
  event,    \* out_flags of the event being handled
  pc,       \* the step of the pass
  \* history
  handled,  \* lines handled that call for a prompt
  prompts,  \* prompts written
  parsed,   \* payload tokens handled as commands
  refused,  \* payload tokens that belong to pushes that could not open their file
  swallowed,\* a command was written to a file
  files,    \* files and pipes that are open
  stopped   \* the agent has ended the session

client == <<net, peer, reading, owes, sent, asked>>
history == <<handled, prompts, parsed, refused, swallowed, files, stopped>>
vars == <<client, sock, closed, data, timer, event, pc, history>>

Command == [cmd : AllKinds, size : Nat]
Payload == [cmd |-> "payload", size |-> 0]
Token == Command \cup {Payload}

\* left: mSize - mBytesWritten of a push, in tokens, or mSize - mBytesRead of a
\* pull, in blocks.
DataHandler == [kind : {"none", "pull", "push", "exec"}, left : Nat, closed : BOOLEAN]
NoData == [kind |-> "none", left |-> 0, closed |-> FALSE]
Data(kind, n) == [kind |-> kind, left |-> n, closed |-> FALSE]
Failed(kind) == [kind |-> kind, left |-> 0, closed |-> TRUE]

Steps == {"poll", "loop", "check", "lines", "tail", "timeouts", "sweep", "gone", "crashed"}
Over == pc \in {"gone", "crashed"}

Broken == peer = "reset"
Ended == peer # "open"
Sent(s) == Write(s, Broken)
-----------------------------------------------------------------------------
\* The constructor registers the handler and sends the prompt.
Init ==
  /\ net = <<>> /\ peer = "open" /\ reading = TRUE
  /\ owes = 0 /\ sent = 0 /\ asked = 0
  /\ sock = NewSocket /\ closed = FALSE
  /\ data = NoData /\ timer = 0
  /\ event = "read" /\ pc = "poll"
  /\ handled = 0 /\ prompts = 1
  /\ parsed = 0 /\ refused = 0 /\ swallowed = FALSE /\ files = 0 /\ stopped = FALSE
-----------------------------------------------------------------------------
(***************************************************************************)
(* The client.                                                             *)
(***************************************************************************)
SendCommand ==
  /\ peer = "open" /\ owes = 0 /\ sent < MaxCommands
  /\ Lockstep => prompts > asked
  /\ \E k \in Kinds : \E n \in IF k = "push" THEN PushSizes ELSE {0} :
       /\ net' = Append(net, [cmd |-> k, size |-> n])
       /\ owes' = n
       /\ asked' = IF k = "blank" THEN asked ELSE asked + 1
  /\ sent' = sent + 1
  /\ UNCHANGED <<peer, reading, sock, closed, data, timer, event, pc, history>>

SendPayload ==
  /\ peer = "open" /\ owes > 0
  /\ net' = Append(net, Payload)
  /\ owes' = owes - 1
  /\ UNCHANGED <<peer, reading, sent, asked, sock, closed, data, timer, event, pc, history>>

Shut ==
  /\ peer = "open"
  /\ peer' = "eof"
  /\ UNCHANGED <<net, reading, owes, sent, asked, sock, closed, data, timer, event, pc, history>>

\* A reset may take along what the agent has not received yet.
Reset ==
  /\ peer # "reset"
  /\ peer' = "reset"
  /\ net' \in {net, <<>>}
  /\ UNCHANGED <<reading, owes, sent, asked, sock, closed, data, timer, event, pc, history>>

StopReading ==
  /\ reading
  /\ reading' = FALSE
  /\ UNCHANGED <<net, peer, owes, sent, asked, sock, closed, data, timer, event, pc, history>>

Client == SendCommand \/ SendPayload \/ Shut \/ Reset \/ StopReading
-----------------------------------------------------------------------------
(***************************************************************************)
(* PR_Poll() with the descriptors of getPollDescs().                       *)
(***************************************************************************)
PollsRead == /\ sock.open
             /\ data.kind = "push" \/ (data.kind = "none" /\ ~sock.recvClosed)
PollsWrite == sock.open /\ data.kind = "pull"
Readable == net # <<>> \/ Ended
SurelyWritable == reading \/ Broken

Polled(ev, step) ==
  /\ pc = "poll"
  /\ event' = ev
  /\ pc' = step
  /\ UNCHANGED <<client, sock, closed, data, timer, history>>

PollRead == PollsRead /\ Readable /\ Polled("read", "loop")

\* The send buffer of a client that does not read may still have room.
PollWrite == PollsWrite /\ Polled("write", "loop")

\* Nothing for this handler in this pass.
PollNothing ==
  /\ ~(PollsRead /\ Readable)
  /\ ~(PollsWrite /\ Broken)
  /\ Polled(event, "timeouts")
-----------------------------------------------------------------------------
(***************************************************************************)
(* handleEvent().                                                          *)
(***************************************************************************)
\* Faulty variant: a push takes all there is.
LeastOrAll(m, n) == n

Least(m, n) == IF m < n THEN m ELSE n

\* PullFileEventHandler::handleEvent(): one block is read and sent; the end of
\* the file, an error, or the last block closes the handler and its file.
PullBlock ==
  /\ data.kind = "pull" /\ event = "write" /\ sock.open
  /\ \/ /\ data.left > 0
        /\ sock' = Sent(sock)
        /\ data' = [data EXCEPT !.left = @ - 1, !.closed = data.left = 1]
        /\ files' = IF data.left = 1 THEN files - 1 ELSE files
     \/ /\ sock' = sock
        /\ data' = [data EXCEPT !.closed = TRUE]
        /\ files' = files - 1
  /\ UNCHANGED <<net, swallowed>>

\* PushFileEventHandler::handleEvent(): what has arrived goes to the file, up
\* to its length; then the file is closed and its hash sent.
PushPayload ==
  /\ data.kind = "push" /\ event = "read" /\ sock.open
  /\ LET filled == IF data.left = 0 THEN sock ELSE Fill(sock, net, Ended)
         n == Least(data.left, Len(filled.buf))
         rest == Drop(filled, n)
     IN  /\ net' = IF data.left = 0 THEN net ELSE <<>>
         /\ sock' = IF n = data.left THEN Sent(rest) ELSE rest
         /\ data' = [data EXCEPT !.left = @ - n, !.closed = n = data.left]
         /\ files' = IF n = data.left THEN files - 1 ELSE files
         /\ swallowed' = (swallowed \/ \E i \in 1 .. n : filled.buf[i] # Payload)

Served == sock.open /\ <<data.kind, event>> \in {<<"pull", "write">>, <<"push", "read">>}

\* The first half of checkDataEventHandler(): the data handler gets the event,
\* which it may ignore, unless it has closed itself when it was created.
Delegate ==
  /\ pc = "loop" /\ ~closed /\ data.kind # "none"
  /\ \/ ~data.closed /\ (PullBlock \/ PushPayload)
     \/ (data.closed \/ ~Served) /\ UNCHANGED <<net, sock, data, swallowed, files>>
  /\ pc' = "check"
  /\ UNCHANGED <<peer, reading, owes, sent, asked, closed, timer, event, handled, prompts,
                 parsed, refused, stopped>>

\* Lines are read only on an event of this socket that says it is readable.
AfterCheck(s) == IF event = "read" /\ s.open THEN "lines" ELSE "tail"

\* Faulty variant: the prompt is forgotten.
FinishDataSilently ==
  /\ pc = "check" /\ data.closed
  /\ data' = NoData
  /\ pc' = AfterCheck(sock)
  /\ UNCHANGED <<client, sock, closed, timer, event, history>>

\* The second half: a data handler that is finished makes room for commands.
FinishData ==
  /\ pc = "check" /\ data.closed
  /\ data' = NoData
  /\ sock' = Sent(sock)
  /\ prompts' = prompts + 1
  /\ pc' = AfterCheck(sock')
  /\ UNCHANGED <<client, closed, timer, event, handled, parsed, refused, swallowed, files,
                 stopped>>

KeepData ==
  /\ pc = "check" /\ ~data.closed
  /\ pc' = "tail"
  /\ UNCHANGED <<client, sock, closed, data, timer, event, history>>

\* The top of the loop without a data handler, or after quit.
NoDelegate ==
  /\ pc = "loop" /\ (closed \/ data.kind = "none")
  /\ pc' = IF closed THEN "tail" ELSE AfterCheck(sock)
  /\ UNCHANGED <<client, sock, closed, data, timer, event, history>>

-----------------------------------------------------------------------------
(***************************************************************************)
(* handleLine().  Each operator gives the effect of a command on the       *)
(* handler; s is the socket after readLine().                              *)
(***************************************************************************)
\* The answer and the prompt in one write.
Reply(s) ==
  /\ sock' = IF s.sendClosed THEN s ELSE Sent(s)
  /\ prompts' = IF s.sendClosed THEN prompts ELSE prompts + 1
  /\ UNCHANGED <<closed, data, timer, refused, files>>

\* cat and pull: the file cannot be read, or pull has nothing to send (and has
\* said so in its header), and what was opened is closed again; or the blocks of
\* the file are to follow: those of cat without a header.
OpenFile(s) ==
  \/ /\ data' = Failed("pull")
     /\ sock' = Sent(s)
     /\ files' = files
  \/ \E n \in 0 .. MaxBlocks :
       /\ data' = Data("pull", n)
       /\ sock' = s \/ (n > 0 /\ sock' = Sent(s))
       /\ files' = files + 1

\* Faulty variant: the prompt does not wait for the data handler.
PullWithPrompt(s) ==
  /\ OpenFile(s)
  /\ prompts' = prompts + 1
  /\ UNCHANGED <<closed, timer, refused>>

Pull(s) == OpenFile(s) /\ UNCHANGED <<closed, timer, prompts, refused>>

Push(s, n) ==
  /\ \/ /\ data' = Data("push", n)
        /\ sock' = s
        /\ refused' = refused
        /\ files' = files + 1
     \/ /\ data' = Failed("push")
        /\ sock' = Sent(s)
        /\ refused' = refused + n
        /\ files' = files
  /\ UNCHANGED <<closed, timer, prompts>>

\* exec: popen() fails, or the pipe will be polled.
Exec(s) ==
  \/ Reply(s)
  \/ /\ data' = Data("exec", 0)
     /\ timer' = timer + 1
     /\ sock' = s
     /\ files' = files + 1
     /\ UNCHANGED <<closed, prompts, refused>>

Quit(s) ==
  /\ closed' = TRUE
  /\ sock' = Close(s)
  /\ UNCHANGED <<data, timer, prompts, refused, files>>

Perform(t, s) ==
  CASE t.cmd = "blank" -> sock' = s /\ UNCHANGED <<closed, data, timer, prompts, refused, files>>
    [] t.cmd \in {"quick", "payload"} -> Reply(s)
    [] t.cmd = "pull" -> Pull(s)
    [] t.cmd = "push" -> Push(s, t.size)
    [] t.cmd = "exec" -> Exec(s)
    [] t.cmd = "quit" -> Quit(s)

\* One round of the inner loop: readLine() drains the socket, then takes one
\* line of what is buffered.
HandleLine ==
  /\ pc = "lines" /\ ~closed /\ data.kind = "none"
  /\ LET filled == Fill(sock, net, Ended)
     IN  /\ filled.buf # <<>>
         /\ LET t == Head(filled.buf)
            IN  /\ Perform(t, Drop(filled, 1))
                /\ handled' = IF t.cmd = "blank" THEN handled ELSE handled + 1
                /\ parsed' = IF t = Payload THEN parsed + 1 ELSE parsed
         /\ net' = IF sock.recvClosed THEN net ELSE <<>>
  /\ UNCHANGED <<peer, reading, owes, sent, asked, event, pc, swallowed, stopped>>

NoMoreToRead ==
  /\ pc = "lines" /\ ~closed /\ data.kind = "none"
  /\ LET filled == Fill(sock, net, Ended)
     IN filled.buf = <<>> /\ sock' = filled
  /\ pc' = "tail"
  /\ UNCHANGED <<client, closed, data, timer, event, history>>

EndLines ==
  /\ pc = "lines" /\ (closed \/ data.kind # "none")
  /\ pc' = "loop"
  /\ UNCHANGED <<client, sock, closed, data, timer, event, history>>

\* Faulty variants: a data handler keeps the session open; a client that no
\* longer receives is treated as one that no longer sends.
EndEventIfIdle ==
  /\ pc = "tail"
  /\ IF sock.recvClosed /\ data.kind = "none"
       THEN sock' = Close(sock) /\ closed' = TRUE
       ELSE UNCHANGED <<sock, closed>>
  /\ pc' = "timeouts"
  /\ UNCHANGED <<client, data, timer, event, history>>

EndEventOnSendClosed ==
  /\ pc = "tail"
  /\ IF sock.recvClosed \/ sock.sendClosed
       THEN data' = NoData
       ELSE data' = data
  /\ sock' = IF sock.recvClosed THEN Close(sock) ELSE sock
  /\ closed' = (closed \/ sock.recvClosed)
  /\ pc' = "timeouts"
  /\ UNCHANGED <<client, timer, event, history>>

\* The end of handleEvent(): a client that can send no more is disconnected.
\* A data handler is deleted, not closed, so what it had open stays open.
EndEvent ==
  /\ pc = "tail"
  /\ IF sock.recvClosed
       THEN data' = NoData /\ sock' = Close(sock) /\ closed' = TRUE
       ELSE UNCHANGED <<data, sock, closed>>
  /\ pc' = "timeouts"
  /\ UNCHANGED <<client, timer, event, history>>
-----------------------------------------------------------------------------
(***************************************************************************)
(* handleTimeout() and deleteClosed().                                     *)
(***************************************************************************)
\* SubprocessEventHandler::handleTimeout(): the pipe is empty or yields
\* output, and the timeout is set again.
PollPipe ==
  /\ data.kind = "exec" /\ ~data.closed
  /\ sock' \in {sock, Sent(sock)}
  /\ timer' = timer
  /\ UNCHANGED <<data, prompts, files>>

\* Faulty variant: the timeout is set again after the end, too.
FinishExecRearmed ==
  /\ data.kind = "exec" /\ ~data.closed
  /\ timer' = timer
  /\ data' = NoData
  /\ files' = files - 1
  /\ sock' = Sent(Sent(sock))
  /\ prompts' = prompts + 1

\* The end of the output, or an error: pclose() waits for the subprocess, its
\* return code is sent, and CommandEventHandler deletes the data handler.
FinishExec ==
  /\ data.kind = "exec" /\ ~data.closed
  /\ timer' = timer - 1
  /\ data' = NoData
  /\ files' = files - 1
  /\ sock' = Sent(Sent(sock))
  /\ prompts' = prompts + 1

\* The data handler is dereferenced after it has been tested to be null.
HandleTimeout ==
  /\ pc = "timeouts" /\ timer > 0
  /\ \/ /\ PollPipe \/ FinishExec
        /\ pc' = "sweep"
     \/ /\ data.kind = "none"
        /\ pc' = "crashed"
        /\ UNCHANGED <<sock, data, timer, prompts, files>>
  /\ UNCHANGED <<client, closed, event, handled, parsed, refused, swallowed, stopped>>

\* No timeout has expired in this pass.
NoTimeout ==
  /\ pc = "timeouts"
  /\ pc' = "sweep"
  /\ UNCHANGED <<client, sock, closed, data, timer, event, history>>

\* Reactor::deleteClosed(), which drops the timeouts too.
Sweep ==
  /\ pc = "sweep"
  /\ pc' = IF closed THEN "gone" ELSE "poll"
  /\ timer' = IF closed THEN 0 ELSE timer
  /\ UNCHANGED <<client, sock, closed, data, event, history>>

\* Reactor::stop(), called by main() or by the rebt command of another client:
\* close() and delete; the timeouts stay, and the data handler is left behind.
Stop ==
  /\ pc = "poll"
  /\ closed' = TRUE
  /\ sock' = Close(sock)
  /\ stopped' = TRUE
  /\ pc' = "gone"
  /\ UNCHANGED <<client, data, timer, event, handled, prompts, parsed, refused, swallowed,
                 files>>

Pass ==
  \/ PollRead \/ PollWrite \/ PollNothing
  \/ Delegate \/ FinishData \/ KeepData \/ NoDelegate
  \/ HandleLine \/ NoMoreToRead \/ EndLines \/ EndEvent
  \/ HandleTimeout \/ NoTimeout \/ Sweep

Next == Client \/ Pass \/ Stop

\* The thread runs, and PR_Poll() reports in the end a socket that can be
\* written whenever it looks.
Fairness ==
  /\ WF_vars(Pass)
  /\ SF_vars(PollWrite /\ SurelyWritable)

Spec == Init /\ [][Next]_vars
FairSpec == Spec /\ Fairness
-----------------------------------------------------------------------------
TypeOK ==
  /\ net \in Seq(Token) /\ peer \in {"open", "eof", "reset"} /\ reading \in BOOLEAN
  /\ owes \in Nat /\ sent \in 0 .. MaxCommands /\ asked \in 0 .. sent
  /\ sock \in SocketType(Token) /\ Coherent(sock) /\ closed \in BOOLEAN
  /\ data \in DataHandler /\ timer \in Nat
  /\ event \in {"read", "write"} /\ pc \in Steps
  /\ handled \in Nat /\ prompts \in Nat /\ parsed \in Nat /\ refused \in Nat
  /\ swallowed \in BOOLEAN /\ files \in Nat /\ stopped \in BOOLEAN

\* Every line that is not blank gets exactly one prompt: right away from
\* handleLine(), or from checkDataEventHandler() or handleTimeout() once its
\* data handler is finished, and never from two of them.
OnePromptPerCommand ==
  ~sock.sendClosed => prompts + (IF data.kind = "none" THEN 0 ELSE 1) = 1 + handled

\* The bytes of a pushed file reach the command parser only if push could not
\* open the file, and no command ends up in a file: the same buffer serves both
\* readers, and the mode changes in the middle of it.
PayloadIsNotParsed == parsed <= refused /\ ~swallowed

\* While a session is open it has one timeout exactly while it runs a
\* subprocess: a second would poll the pipe twice as often and outlive the data
\* handler that handleTimeout() dereferences; none would leave it unpolled.
TimerMatchesSubprocess ==
  /\ ~closed => timer = (IF data.kind = "exec" THEN 1 ELSE 0)
  /\ timer <= 1

\* A session that goes to the poll is waiting for something that can come: its
\* socket is open and its read side not at its end, or nothing would ever close
\* it; its data handler is not finished, or nothing would delete it.
PollsWhatItAwaits == pc = "poll" => sock.open /\ ~sock.recvClosed /\ ~closed /\ ~data.closed

\* In an open session the data handler holds what is open, and nothing else is:
\* whatever way a constructor or an event handler ends, it has closed what it had
\* opened before the data handler is deleted.  A session loses a file or pipe, one
\* at most, when it ends under a running data handler, which then goes without
\* close(): because the client can send no more, or because the agent stops.
OpenFilesAreHeld ==
  /\ ~closed => files = (IF data.kind # "none" /\ ~data.closed THEN 1 ELSE 0)
  /\ closed /\ files > 0 => files = 1 /\ (Ended \/ stopped)

\* CommandEventHandler.cpp:137: "Make sure we drain all the data we can from
\* the socket."  When the session waits for input, no complete line is waiting
\* for it.
Drained == pc = "poll" /\ data.kind = "none" => sock.buf = <<>>

\* PushFileEventHandler.cpp:80: "a closed socket will be detected automatically
\* by CommandEventHandler."  Detection is only put off by a subprocess, during
\* which nothing is polled, and by a half-closed client that does not read the
\* file it pulls.
ClosedSocketDetected ==
  Ended ~> Over \/ data.kind = "exec" \/ (peer = "eof" /\ ~reading)

\* A client that waits for each prompt, sends the payload it has announced and
\* reads its answers gets the prompt of every command.
EveryCommandAnswered ==
  \A n \in 1 .. MaxCommands :
    asked = n ~> prompts > n \/ Over \/ Ended \/ owes > 0 \/ ~reading \/ data.kind = "exec"
=============================================================================
