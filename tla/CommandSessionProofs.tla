------------------------ MODULE CommandSessionProofs ------------------------
(***************************************************************************)
(* Proofs about one connection to the command port, for every set of       *)
(* commands, every length of file and any number of commands.              *)
(***************************************************************************)
EXTENDS CommandSession, TLAPS

(***************************************************************************)
(* What the operations of BufferedSocket do to a socket, for any tokens.   *)
(***************************************************************************)
\* A socket whose descriptor agrees with its two directions.
Good(s, T) == s \in SocketType(T) /\ Coherent(s)

\* Directions are never reopened, and a closed socket stays closed.
Later(r, s) ==
  /\ s.recvClosed => r.recvClosed
  /\ s.sendClosed => r.sendClosed
  /\ ~s.open => ~r.open

\* A new socket is open in both directions.
LEMMA NewIsGood == ASSUME NEW T PROVE Good(NewSocket, T)
<1>1. <<>> \in Seq(T)
  OBVIOUS
<1>2. NewSocket \in SocketType(T)
  BY <1>1 DEF NewSocket, SocketType
<1>3. Coherent(NewSocket)
  BY DEF NewSocket, Coherent
<1> QED
  BY <1>2, <1>3 DEF Good

\* close() ends both directions and keeps what has been received.
LEMMA CloseIsGood ==
  ASSUME NEW T, NEW s, Good(s, T)
  PROVE  /\ Good(Close(s), T) /\ Later(Close(s), s)
         /\ Close(s).recvClosed /\ Close(s).sendClosed /\ Close(s).buf = s.buf
BY DEF Good, Close, SocketType, Coherent, Later

\* closeRecv() ends one direction, and leaves the other alone.
LEMMA CloseRecvIsGood ==
  ASSUME NEW T, NEW s, Good(s, T)
  PROVE  /\ Good(CloseRecv(s), T) /\ Later(CloseRecv(s), s)
         /\ CloseRecv(s).recvClosed /\ CloseRecv(s).buf = s.buf
         /\ CloseRecv(s).sendClosed = s.sendClosed
BY DEF Good, CloseRecv, Close, SocketType, Coherent, Later

\* write() never closes the receiving direction of a socket, whatever becomes
\* of the connection.
LEMMA WriteIsGood ==
  ASSUME NEW T, NEW s, Good(s, T), NEW failed \in BOOLEAN
  PROVE  /\ Good(Write(s, failed), T) /\ Later(Write(s, failed), s)
         /\ Write(s, failed).recvClosed = s.recvClosed /\ Write(s, failed).buf = s.buf
BY DEF Good, Write, CloseSend, Close, SocketType, Coherent, Later

\* Reading never closes the sending direction.
LEMMA FillIsGood ==
  ASSUME NEW T, NEW s, Good(s, T), NEW arrived \in Seq(T), NEW ended \in BOOLEAN
  PROVE  /\ Good(Fill(s, arrived, ended), T) /\ Later(Fill(s, arrived, ended), s)
         /\ Fill(s, arrived, ended).sendClosed = s.sendClosed
<1> DEFINE filled == [s EXCEPT !.buf = @ \o arrived]
<1>1. s.buf \o arrived \in Seq(T)
  BY DEF Good, SocketType
<1>2. Good(filled, T) /\ Later(filled, s) /\ filled.sendClosed = s.sendClosed
      /\ filled.recvClosed = s.recvClosed /\ filled.open = s.open
  BY <1>1 DEF Good, SocketType, Coherent, Later
<1>3. Good(CloseRecv(filled), T) /\ Later(CloseRecv(filled), filled)
      /\ CloseRecv(filled).sendClosed = filled.sendClosed
  BY <1>2, CloseRecvIsGood
<1> QED
  BY <1>2, <1>3 DEF Fill, Later

\* Consuming what is buffered does not touch the connection.
LEMMA DropIsGood ==
  ASSUME NEW T, NEW s, Good(s, T), NEW n \in 0 .. Len(s.buf)
  PROVE  /\ Good(Drop(s, n), T) /\ Later(Drop(s, n), s)
         /\ Drop(s, n).recvClosed = s.recvClosed /\ Drop(s, n).sendClosed = s.sendClosed
         /\ Drop(s, n).open = s.open
<1>1. SubSeq(s.buf, n + 1, Len(s.buf)) \in Seq(T)
  <2>1. s.buf \in Seq(T)
    BY DEF Good, SocketType
  <2> QED
    BY <2>1
<1> QED
  BY <1>1 DEF Good, Drop, SocketType, Coherent, Later
-----------------------------------------------------------------------------

\* The part of the type invariant that the control depends on.
Shape ==
  /\ net \in Seq(Token) /\ Good(sock, Token) /\ closed \in BOOLEAN
  /\ data \in DataHandler /\ timer \in Nat
  /\ event \in {"read", "write"} /\ pc \in Steps /\ peer \in {"open", "eof", "reset"}
  /\ handled \in Nat /\ prompts \in Nat

\* What holds of a data handler, and of a closed session, between two steps.
Tidy ==
  /\ data.closed => data.kind \in {"pull", "push"}
  /\ closed => ~sock.open /\ (data.kind = "none" \/ pc = "gone")

\* What each step of a pass has established for the next.
Phases ==
  /\ pc = "check" => data.kind # "none" /\ ~closed
  /\ pc = "tail" => ~data.closed
  /\ pc \in {"timeouts", "sweep", "poll"} /\ ~closed =>
       sock.open /\ ~sock.recvClosed /\ ~data.closed
  /\ pc = "poll" => ~closed


Inv == Shape /\ Tidy /\ Phases /\ TimerMatchesSubprocess /\ OnePromptPerCommand
-----------------------------------------------------------------------------
\* A reset is the only failure write() can meet, and it never closes the
\* receiving direction.
LEMMA SentIsGood ==
  ASSUME NEW s, Good(s, Token), NEW P, P = Sent(s)
  PROVE  /\ Good(P, Token) /\ Later(P, s)
         /\ P.recvClosed = s.recvClosed /\ P.buf = s.buf
BY WriteIsGood DEF Sent, Broken

\* A socket that can still receive is open, and a closed one is closed in both
\* directions.
LEMMA OpenSocket ==
  ASSUME NEW s, Good(s, Token)
  PROVE  /\ ~s.recvClosed => s.open
         /\ ~s.open => s.recvClosed /\ s.sendClosed
BY DEF Good, SocketType, Coherent

\* The data handlers there are: new, and failed at once.
LEMMA NewDataHandler ==
  ASSUME NEW kind \in {"pull", "push", "exec"}, NEW n \in Nat
  PROVE  /\ Data(kind, n) \in DataHandler /\ Failed(kind) \in DataHandler
         /\ Data(kind, n).kind = kind /\ Failed(kind).kind = kind
         /\ ~Data(kind, n).closed
BY DEF Data, Failed, DataHandler

\* The states a session starts from.
LEMMA InvInit == Init => Inv
<1> SUFFICES ASSUME Init PROVE Inv
  OBVIOUS
<1>1. Good(sock, Token)
  BY NewIsGood DEF Init
<1>2. data \in DataHandler
  BY DEF Init, NoData, DataHandler
<1>3. net \in Seq(Token)
  BY DEF Init
<1>4. Shape
  BY <1>1, <1>2, <1>3 DEF Init, Shape, Steps
<1> QED
  BY <1>4 DEF Init, Inv, Tidy, Phases, TimerMatchesSubprocess, OnePromptPerCommand,
              NoData, NewSocket

\* Nothing the client does reaches the handler but through the connection.
LEMMA ClientKeepsInv == ASSUME Inv, SessionAssumption, Client PROVE Inv'
<1>1. net' \in Seq(Token) /\ peer' \in {"open", "eof", "reset"}
  <2>1. CASE SendCommand
    <3>1. PICK k \in Kinds : \E n \in IF k = "push" THEN PushSizes ELSE {0} :
            net' = Append(net, [cmd |-> k, size |-> n])
      BY <2>1 DEF SendCommand
    <3>2. PICK n \in Nat : net' = Append(net, [cmd |-> k, size |-> n])
      BY <3>1 DEF SessionAssumption
    <3>3. [cmd |-> k, size |-> n] \in Token
      BY DEF Token, Command, SessionAssumption
    <3> QED
      BY <2>1, <3>2, <3>3 DEF Inv, Shape, SendCommand
  <2>2. CASE SendPayload
    <3>1. Payload \in Token
      BY DEF Token
    <3> QED
      BY <2>2, <3>1 DEF Inv, Shape, SendPayload
  <2>3. CASE Shut \/ Reset \/ StopReading
    <3>1. <<>> \in Seq(Token)
      OBVIOUS
    <3>2. net' = net \/ net' = <<>>
      BY <2>3 DEF Shut, Reset, StopReading
    <3>3. peer' \in {"open", "eof", "reset"}
      BY <2>3 DEF Inv, Shape, Shut, Reset, StopReading
    <3> QED
      BY <3>1, <3>2, <3>3 DEF Inv, Shape
  <2> QED
    BY <2>1, <2>2, <2>3 DEF Client
<1>2. UNCHANGED <<sock, closed, data, timer, event, pc, history>>
  BY DEF Client, SendCommand, SendPayload, Shut, Reset, StopReading
<1> QED
  BY <1>1, <1>2 DEF Inv, Shape, Tidy, Phases, TimerMatchesSubprocess, OnePromptPerCommand, history

\* PR_Poll() only chooses what the pass does.
LEMMA PollKeepsInv == ASSUME Inv, PollRead \/ PollWrite \/ PollNothing PROVE Inv'
BY DEF Inv, Shape, Tidy, Phases, TimerMatchesSubprocess, OnePromptPerCommand,
       PollRead, PollWrite, PollNothing, Polled, history, client, Steps

\* The data handler may end the session's sending direction, and finish.
LEMMA DelegateKeepsInv == ASSUME Inv, Delegate PROVE Inv'
<1>1. /\ net' \in Seq(Token) /\ Good(sock', Token) /\ Later(sock', sock)
      /\ data' \in DataHandler /\ data'.kind = data.kind
      /\ data'.closed => data.kind \in {"pull", "push"}
  <2>1. CASE PullBlock
    <3>1. Good(sock', Token) /\ Later(sock', sock)
      BY <2>1, SentIsGood DEF PullBlock, Inv, Shape, Later
    <3>2. data.kind = "pull" /\ net' = net
      BY <2>1 DEF PullBlock
    <3>3. data' \in DataHandler /\ data'.kind = data.kind
      <4>1. CASE data.left > 0 /\ data' = [data EXCEPT !.left = data.left - 1, !.closed = data.left = 1]
        <5>1. data.left - 1 \in Nat /\ (data.left = 1) \in BOOLEAN /\ data \in DataHandler
          BY <4>1 DEF Inv, Shape, DataHandler
        <5> QED
          BY <4>1, <5>1 DEF DataHandler
      <4>2. CASE data' = [data EXCEPT !.closed = TRUE]
        BY <4>2 DEF Inv, Shape, DataHandler
      <4> QED
        BY <2>1, <4>1, <4>2 DEF PullBlock
    <3> QED
      BY <3>1, <3>2, <3>3 DEF Inv, Shape
  <2>2. CASE PushPayload
    <3> DEFINE filled == IF data.left = 0 THEN sock ELSE Fill(sock, net, Ended)
               n == Least(data.left, Len(filled.buf))
               rest == Drop(filled, n)
    <3>1. Good(filled, Token) /\ Later(filled, sock)
      BY FillIsGood DEF Inv, Shape, Later, Ended
    <3>2. n \in 0 .. Len(filled.buf) /\ n <= data.left /\ data.left \in Nat
      BY <3>1 DEF Inv, Shape, DataHandler, Least, Good, SocketType
    <3>3. Good(rest, Token) /\ Later(rest, filled)
      BY <3>1, <3>2, DropIsGood
    <3>4. Good(sock', Token) /\ Later(sock', rest)
      BY <2>2, <3>3, SentIsGood DEF PushPayload, Later
    <3>5. /\ data.kind = "push"
          /\ data' = [data EXCEPT !.left = @ - n, !.closed = n = data.left]
          /\ net' \in Seq(Token)
      BY <2>2 DEF PushPayload, Inv, Shape
    <3>6. Later(sock', sock)
      BY <3>1, <3>3, <3>4 DEF Later
    <3>7. data.left - n \in Nat
      BY <3>2
    <3> HIDE DEF n
    <3>8. data' \in DataHandler /\ data'.kind = data.kind
      BY <3>5, <3>7 DEF Inv, Shape, DataHandler
    <3> QED
      BY <3>4, <3>5, <3>6, <3>8
  <2>3. CASE UNCHANGED <<net, sock, data, swallowed, files>>
    BY <2>3 DEF Inv, Shape, Tidy, Later
  <2> QED
    BY <2>1, <2>2, <2>3 DEF Delegate
<1>2. /\ pc = "loop" /\ pc' = "check" /\ ~closed /\ data.kind # "none"
      /\ UNCHANGED <<peer, closed, timer, event, handled, prompts>>
  BY DEF Delegate
<1> QED
  BY <1>1, <1>2 DEF Inv, Shape, Tidy, Phases, TimerMatchesSubprocess, OnePromptPerCommand, Steps, Later

\* A finished data handler turns into a prompt.
LEMMA FinishDataKeepsInv == ASSUME Inv, FinishData PROVE Inv'
<1>1. Good(sock', Token) /\ Later(sock', sock)
  BY SentIsGood DEF FinishData, Inv, Shape
<1>2. NoData \in DataHandler
  BY DEF NoData, DataHandler
<1>3. pc' \in {"lines", "tail"} /\ data.kind \in {"pull", "push"}
  BY DEF FinishData, AfterCheck, Inv, Tidy
<1> QED
  BY <1>1, <1>2, <1>3
  DEF FinishData, Inv, Shape, Tidy, Phases, TimerMatchesSubprocess, OnePromptPerCommand, Steps, NoData, client, Later

\* The steps of the loop that change nothing but the step.
LEMMA LoopKeepsInv == ASSUME Inv, KeepData \/ NoDelegate \/ EndLines PROVE Inv'
BY DEF Inv, Shape, Tidy, Phases, TimerMatchesSubprocess, OnePromptPerCommand,
       KeepData, NoDelegate, EndLines, AfterCheck, history, client, Steps

\* Each command leaves a session that is open with its socket, and owes one
\* prompt more or one data handler more.
LEMMA PerformIs ==
  ASSUME Inv, ~closed, data.kind = "none",
         NEW s, Good(s, Token), Later(s, sock), NEW t \in Token, Perform(t, s)
  PROVE  /\ Good(sock', Token) /\ Later(sock', s)
         /\ closed' \in BOOLEAN /\ (closed' => ~sock'.open /\ data' = data)
         /\ data' \in DataHandler /\ (data'.closed => data'.kind \in {"pull", "push"})
         /\ prompts' \in Nat
         /\ timer' = IF data'.kind = "exec" THEN 1 ELSE 0
         /\ ~sock'.sendClosed =>
              prompts' + (IF data'.kind = "none" THEN 0 ELSE 1)
                = prompts + (IF t.cmd = "blank" THEN 0 ELSE 1)
<1> DEFINE Result == /\ Good(sock', Token) /\ Later(sock', s)
                     /\ closed' \in BOOLEAN /\ (closed' => ~sock'.open /\ data' = data)
                     /\ data' \in DataHandler
                     /\ data'.closed => data'.kind \in {"pull", "push"}
                     /\ prompts' \in Nat
                     /\ timer' = IF data'.kind = "exec" THEN 1 ELSE 0
                     /\ ~sock'.sendClosed =>
                          prompts' + (IF data'.kind = "none" THEN 0 ELSE 1)
                            = prompts + (IF t.cmd = "blank" THEN 0 ELSE 1)
<1>1. Good(Sent(s), Token) /\ Later(Sent(s), s)
  BY SentIsGood
<1>2. /\ timer = 0 /\ prompts \in Nat /\ data \in DataHandler
      /\ ~data.closed /\ data.kind = "none" /\ closed = FALSE
  BY DEF Inv, Shape, Tidy, TimerMatchesSubprocess
<1>3. Later(s, s)
  BY DEF Later
<1>4. CASE t.cmd = "blank"
  BY <1>2, <1>3, <1>4 DEF Perform
<1>5. ASSUME Reply(s), t.cmd # "blank" PROVE Result
  <2>1. CASE s.sendClosed
    BY <1>2, <1>3, <1>5, <2>1 DEF Reply
  <2>2. CASE ~s.sendClosed
    <3>1. sock' = Sent(s) /\ prompts' = prompts + 1 /\ UNCHANGED <<closed, data, timer>>
      BY <1>5, <2>2 DEF Reply
    <3>2. timer' = IF data'.kind = "exec" THEN 1 ELSE 0
      BY <1>2, <3>1
    <3>3. prompts' + (IF data'.kind = "none" THEN 0 ELSE 1)
            = prompts + (IF t.cmd = "blank" THEN 0 ELSE 1)
      BY <1>2, <1>5, <3>1
    <3>4. Good(sock', Token) /\ Later(sock', s)
      BY <1>1, <3>1
    <3>5. /\ closed' = FALSE /\ data' \in DataHandler /\ ~data'.closed
          /\ prompts' \in Nat
      BY <1>2, <3>1
    <3> QED
      BY <3>2, <3>3, <3>4, <3>5
  <2> QED
    BY <2>1, <2>2
<1>6. CASE t.cmd \in {"quick", "payload"}
  BY <1>5, <1>6 DEF Perform
<1>7. CASE t.cmd = "pull"
  <2>1. Pull(s)
    BY <1>7 DEF Perform
  <2>2. data' \in DataHandler /\ data'.kind = "pull"
    <3>1. PICK n \in Nat : data' = Failed("pull") \/ data' = Data("pull", n)
      BY <2>1 DEF Pull, OpenFile
    <3> QED
      BY <3>1, NewDataHandler
  <2> QED
    BY <1>1, <1>2, <1>3, <1>7, <2>1, <2>2 DEF Pull, OpenFile
<1>8. CASE t.cmd = "push"
  <2>1. Push(s, t.size)
    BY <1>8 DEF Perform
  <2>2. t.size \in Nat
    BY DEF Token, Command, Payload
  <2>3. data' \in DataHandler /\ data'.kind = "push"
    BY <2>1, <2>2, NewDataHandler DEF Push
  <2> QED
    BY <1>1, <1>2, <1>3, <1>8, <2>1, <2>3 DEF Push
<1>9. CASE t.cmd = "exec"
  <2>1. Exec(s)
    BY <1>9 DEF Perform
  <2>2. CASE Reply(s)
    BY <1>5, <1>9, <2>2
  <2>3. CASE ~Reply(s)
    <3>1. data' = Data("exec", 0) /\ timer' = 1 /\ sock' = s /\ UNCHANGED <<closed, prompts>>
      BY <1>2, <2>1, <2>3 DEF Exec
    <3>2. data' \in DataHandler /\ data'.kind = "exec" /\ ~data'.closed
      BY <3>1, NewDataHandler
    <3> QED
      BY <1>2, <1>3, <1>9, <3>1, <3>2
  <2> QED
    BY <2>2, <2>3
<1>10. CASE t.cmd = "quit"
  <2>1. Quit(s)
    BY <1>10 DEF Perform
  <2>2. Good(Close(s), Token) /\ Later(Close(s), s) /\ Close(s).sendClosed /\ ~Close(s).open
    BY CloseIsGood DEF Good, Coherent
  <2> QED
    BY <1>2, <2>1, <2>2 DEF Quit
<1>11. t.cmd \in {"blank", "quick", "payload", "pull", "push", "exec", "quit"}
  BY DEF Token, Command, Payload, AllKinds
<1> QED
  BY <1>4, <1>6, <1>7, <1>8, <1>9, <1>10, <1>11

\* Draining the socket and handling one line.
LEMMA HandleLineKeepsInv == ASSUME Inv, HandleLine PROVE Inv'
<1> DEFINE filled == Fill(sock, net, Ended)
           t == Head(filled.buf)
           s == Drop(filled, 1)
<1>1. Good(filled, Token) /\ Later(filled, sock)
  BY FillIsGood DEF Inv, Shape, Ended
<1>2. /\ filled.buf # <<>> /\ Perform(t, s)
      /\ ~closed /\ data.kind = "none" /\ pc = "lines" /\ pc' = pc
      /\ handled' = (IF t.cmd = "blank" THEN handled ELSE handled + 1)
      /\ net' = (IF sock.recvClosed THEN net ELSE <<>>)
      /\ UNCHANGED <<peer, event>>
  BY DEF HandleLine
<1>3. t \in Token /\ 1 \in 0 .. Len(filled.buf)
  <2>1. filled.buf \in Seq(Token)
    BY <1>1 DEF Good, SocketType
  <2> QED
    BY <1>2, <2>1
<1>4. Good(s, Token) /\ Later(s, filled)
  BY <1>1, <1>3, DropIsGood
<1>5. Later(s, sock)
  BY <1>1, <1>4 DEF Later
<1> HIDE DEF filled, s, t
<1>6. /\ Good(sock', Token) /\ Later(sock', s)
      /\ closed' \in BOOLEAN /\ (closed' => ~sock'.open /\ data' = data)
      /\ data' \in DataHandler /\ (data'.closed => data'.kind \in {"pull", "push"})
      /\ prompts' \in Nat
      /\ timer' = (IF data'.kind = "exec" THEN 1 ELSE 0)
      /\ ~sock'.sendClosed =>
           prompts' + (IF data'.kind = "none" THEN 0 ELSE 1)
             = prompts + (IF t.cmd = "blank" THEN 0 ELSE 1)
  BY <1>2, <1>3, <1>4, <1>5, PerformIs
<1>7. net' \in Seq(Token)
  <2>1. <<>> \in Seq(Token)
    OBVIOUS
  <2> QED
    BY <1>2, <2>1 DEF Inv, Shape
<1>8. Shape'
  BY <1>2, <1>6, <1>7 DEF Inv, Shape
<1>9. OnePromptPerCommand'
  <2>1. ~sock'.sendClosed => ~sock.sendClosed
    BY <1>5, <1>6 DEF Later
  <2>2. ~sock.sendClosed => prompts = 1 + handled
    BY <1>2 DEF Inv, Shape, OnePromptPerCommand
  <2>3. handled \in Nat /\ handled' \in Nat /\ prompts \in Nat
    BY <1>2 DEF Inv, Shape
  <2> QED
    <3> DEFINE owed == IF data'.kind = "none" THEN 0 ELSE 1
               due == IF t.cmd = "blank" THEN 0 ELSE 1
    <3>1. owed \in {0, 1} /\ due \in {0, 1}
      OBVIOUS
    <3>2. handled' = handled + due
      BY <1>2, <2>3
    <3>3. ~sock'.sendClosed => prompts' + owed = prompts + due /\ prompts = 1 + handled
      BY <1>6, <2>1, <2>2
    <3> HIDE DEF owed, due
    <3>4. ~sock'.sendClosed => prompts' + owed = 1 + handled'
      BY <2>3, <3>1, <3>2, <3>3
    <3> QED
      BY <3>4 DEF OnePromptPerCommand, owed
<1> QED
  BY <1>2, <1>6, <1>8, <1>9 DEF Inv, Tidy, Phases, TimerMatchesSubprocess

\* The last attempt to read, which may meet the end of the stream.
LEMMA NoMoreToReadKeepsInv == ASSUME Inv, NoMoreToRead PROVE Inv'
<1>1. Good(sock', Token) /\ Later(sock', sock) /\ sock'.sendClosed = sock.sendClosed
  BY FillIsGood DEF NoMoreToRead, Inv, Shape, Ended
<1> QED
  BY <1>1
  DEF NoMoreToRead, Inv, Shape, Tidy, Phases, TimerMatchesSubprocess, OnePromptPerCommand, Steps, client, history, Later

\* A session whose client can send no more is closed, with its data handler.
LEMMA EndEventKeepsInv == ASSUME Inv, EndEvent PROVE Inv'
<1>1. CASE sock.recvClosed
  <2>1. Good(sock', Token) /\ sock'.recvClosed /\ sock'.sendClosed /\ ~sock'.open
    BY <1>1, CloseIsGood DEF EndEvent, Inv, Shape, Good, Coherent
  <2>2. data' = NoData /\ NoData \in DataHandler
    BY <1>1 DEF EndEvent, NoData, DataHandler
  <2> QED
    BY <1>1, <2>1, <2>2
    DEF EndEvent, Inv, Shape, Tidy, Phases, TimerMatchesSubprocess, OnePromptPerCommand,
        Steps, NoData, client, history
<1>2. CASE ~sock.recvClosed
  <2>1. sock.open
    BY <1>2, OpenSocket DEF Inv, Shape
  <2> QED
    BY <1>2, <2>1
    DEF EndEvent, Inv, Shape, Tidy, Phases, TimerMatchesSubprocess, OnePromptPerCommand, Steps, client,
        history
<1> QED
  BY <1>1, <1>2

\* Polling the pipe keeps the timeout; the end of the subprocess takes it.
LEMMA HandleTimeoutKeepsInv == ASSUME Inv, HandleTimeout PROVE Inv'
<1>1. CASE PollPipe /\ pc' = "sweep"
  <2>1. Good(sock', Token) /\ Later(sock', sock) /\ sock'.recvClosed = sock.recvClosed
    BY <1>1, SentIsGood DEF PollPipe, Inv, Shape, Later
  <2>2. ~closed
    BY <1>1 DEF PollPipe, HandleTimeout, Inv, Tidy
  <2>3. sock'.open
    BY <2>1, <2>2, OpenSocket DEF HandleTimeout, Inv, Phases
  <2> QED
    BY <1>1, <2>1, <2>2, <2>3
    DEF PollPipe, HandleTimeout, Inv, Shape, Tidy, Phases, TimerMatchesSubprocess,
        OnePromptPerCommand, Steps, client, Later
<1>2. CASE FinishExec /\ pc' = "sweep"
  <2>1. Good(Sent(sock), Token) /\ Later(Sent(sock), sock)
        /\ Sent(sock).recvClosed = sock.recvClosed
    BY SentIsGood DEF Inv, Shape
  <2>2. Good(sock', Token) /\ Later(sock', Sent(sock))
        /\ sock'.recvClosed = Sent(sock).recvClosed
    BY <1>2, <2>1, SentIsGood DEF FinishExec
  <2>3. ~closed
    BY <1>2 DEF FinishExec, HandleTimeout, Inv, Tidy
  <2>4. sock'.open
    BY <2>1, <2>2, <2>3, OpenSocket DEF HandleTimeout, Inv, Phases
  <2>5. NoData \in DataHandler
    BY DEF NoData, DataHandler
  <2>6. timer' = 0 /\ data' = NoData /\ ~closed'
    BY <1>2, <2>3 DEF FinishExec, HandleTimeout, Inv, TimerMatchesSubprocess
  <2> QED
    BY <1>2, <2>1, <2>2, <2>3, <2>4, <2>5, <2>6
    DEF FinishExec, HandleTimeout, Inv, Shape, Tidy, Phases, TimerMatchesSubprocess,
        OnePromptPerCommand, Steps, client, Later, NoData
<1>3. CASE pc' = "crashed" /\ UNCHANGED <<sock, data, timer, prompts, files>>
  BY <1>3
  DEF HandleTimeout, Inv, Shape, Tidy, Phases, TimerMatchesSubprocess, OnePromptPerCommand, Steps, client
<1> QED
  BY <1>1, <1>2, <1>3 DEF HandleTimeout

\* A pass without a timeout, and deleteClosed().
LEMMA SweepKeepsInv == ASSUME Inv, NoTimeout \/ Sweep PROVE Inv'
BY DEF Inv, Shape, Tidy, Phases, TimerMatchesSubprocess, OnePromptPerCommand,
       NoTimeout, Sweep, history, client, Steps

\* Reactor::stop() closes the socket and forgets the rest.
LEMMA StopKeepsInv == ASSUME Inv, Stop PROVE Inv'
<1>1. Good(sock', Token) /\ ~sock'.open /\ sock'.sendClosed
  BY CloseIsGood DEF Stop, Inv, Shape, Good, Coherent
<1> QED
  BY <1>1
  DEF Stop, Inv, Shape, Tidy, Phases, TimerMatchesSubprocess, OnePromptPerCommand,
      Steps, history, client

\* Every step keeps the invariant.
LEMMA InvStep == ASSUME SessionAssumption, Inv, [Next]_vars PROVE Inv'
<1>1. CASE UNCHANGED vars
  BY <1>1
  DEF Inv, Shape, Tidy, Phases, TimerMatchesSubprocess, OnePromptPerCommand,
      vars, client, history
<1>2. CASE Client
  BY <1>2, ClientKeepsInv
<1>3. CASE Pass
  BY <1>3, PollKeepsInv, DelegateKeepsInv, FinishDataKeepsInv, LoopKeepsInv,
     HandleLineKeepsInv, NoMoreToReadKeepsInv, EndEventKeepsInv, HandleTimeoutKeepsInv,
     SweepKeepsInv
  DEF Pass
<1>4. CASE Stop
  BY <1>4, StopKeepsInv
<1> QED
  BY <1>1, <1>2, <1>3, <1>4 DEF Next

\* The inductive invariant behind the theorems.
LEMMA InvAlways == Spec => []Inv
<1>1. Init => Inv
  BY InvInit
<1>2. Inv /\ [Next]_vars => Inv'
  BY InvStep, SessionAssumption
<1> QED
  BY <1>1, <1>2, PTL DEF Spec
-----------------------------------------------------------------------------
\* Every command gets exactly one prompt, whichever of the three places that
\* write one comes to write it.
THEOREM OnePrompt == Spec => []OnePromptPerCommand
<1>1. Inv => OnePromptPerCommand
  BY DEF Inv
<1> QED
  BY <1>1, InvAlways, PTL

\* The pipe of a subprocess is polled by exactly one timeout for as long as it
\* lives, and no timeout outlives it in an open session.
THEOREM OneTimer == Spec => []TimerMatchesSubprocess
<1>1. Inv => TimerMatchesSubprocess
  BY DEF Inv
<1> QED
  BY <1>1, InvAlways, PTL

\* A session never waits for what cannot come.
THEOREM AwaitsSomething == Spec => []PollsWhatItAwaits
<1>1. Inv => PollsWhatItAwaits
  BY DEF Inv, Phases, PollsWhatItAwaits
<1> QED
  BY <1>1, InvAlways, PTL
-----------------------------------------------------------------------------
(***************************************************************************)
(* Payload and commands.  The stream is what has not been read, be it in   *)
(* the buffer or on the way.  Due counts the payload at its front, which   *)
(* an earlier push announced: one that takes it, or one that failed and    *)
(* left it to the parser.                                                  *)
(***************************************************************************)
Stream == sock.buf \o net
Due == (refused - parsed) + (IF data.kind = "push" THEN data.left ELSE 0)

\* How far the payload reaches that was announced at place k of W, or before W.
Reach(W, c, k) == IF k = 0 THEN c ELSE k + W[k].size

\* A token is payload if and only if an earlier one has announced it.
Ordered(W, c) ==
  \A p \in 1 .. Len(W) : W[p] = Payload <=> \E k \in 0 .. p - 1 : p <= Reach(W, c, k)

\* What is announced and not in W is what the client owes.
Complete(W, c, o) ==
  /\ \A k \in 0 .. Len(W) : Reach(W, c, k) <= Len(W) + o
  /\ o > 0 => \E k \in 0 .. Len(W) : Reach(W, c, k) = Len(W) + o

\* Only push announces a payload.
Sized(W) == \A p \in 1 .. Len(W) : W[p].cmd # "push" => W[p].size = 0

Parted ==
  /\ owes \in Nat /\ refused \in Nat /\ parsed \in Nat /\ parsed <= refused
  /\ swallowed = FALSE
  /\ data.kind = "push" /\ data.closed => data.left = 0
  /\ ~closed /\ sock.recvClosed => peer # "open"
  /\ ~closed => Ordered(Stream, Due) /\ Sized(Stream)
  /\ ~closed /\ peer = "open" => Complete(Stream, Due, owes)

LEMMA TokenSize ==
  ASSUME NEW t \in Token
  PROVE  t.size \in Nat /\ (t = Payload <=> t.cmd = "payload") /\ (t = Payload => t.size = 0)
BY DEF Token, Command, Payload, AllKinds

\* Payload that is due leaves the front of the stream.
LEMMA DropDue ==
  ASSUME NEW W \in Seq(Token), NEW V \in Seq(Token), NEW c \in Nat,
         NEW n \in 0 .. Len(W), n <= c, Ordered(W, c), Sized(W),
         Len(V) = Len(W) - n, \A p \in 1 .. Len(V) : V[p] = W[p + n]
  PROVE  /\ \A p \in 1 .. n : W[p] = Payload
         /\ Ordered(V, c - n) /\ Sized(V)
         /\ \A o \in Nat : Complete(W, c, o) => Complete(V, c - n, o)
<1>0. Len(W) \in Nat /\ Len(V) \in Nat /\ n \in Nat /\ c - n \in Nat
  OBVIOUS
<1>1. ASSUME NEW p \in 1 .. n PROVE W[p] = Payload
  <2>1. p \in 1 .. Len(W) /\ 0 \in 0 .. p - 1 /\ p <= Reach(W, c, 0)
    BY <1>0 DEF Reach
  <2> QED
    BY <2>1 DEF Ordered
<1>2. \A k \in 1 .. Len(V) : /\ k + n \in 1 .. Len(W) /\ V[k].size \in Nat
                            /\ Reach(V, c - n, k) = Reach(W, c, k + n) - n
  <2> TAKE k \in 1 .. Len(V)
  <2>1. k + n \in 1 .. Len(W) /\ V[k] = W[k + n] /\ V[k] \in Token /\ k # 0 /\ k + n # 0
    BY <1>0
  <2>2. V[k].size \in Nat
    BY <2>1, TokenSize
  <2>3. Reach(V, c - n, k) = k + V[k].size /\ Reach(W, c, k + n) = (k + n) + V[k].size
    BY <2>1 DEF Reach
  <2> QED
    BY <1>0, <2>1, <2>2, <2>3
<1>3. Reach(V, c - n, 0) = Reach(W, c, 0) - n /\ Reach(W, c, 0) = c
  BY <1>0 DEF Reach
<1>4. \A k \in 1 .. n : Reach(W, c, k) = k
  BY <1>0, <1>1, TokenSize DEF Reach
<1>5. \A k \in 0 .. Len(W) : Reach(W, c, k) \in Nat
  BY <1>0, TokenSize DEF Reach
<1>6. ASSUME NEW p \in 1 .. Len(V)
      PROVE  V[p] = Payload <=> \E k \in 0 .. p - 1 : p <= Reach(V, c - n, k)
  <2>1. p + n \in 1 .. Len(W) /\ V[p] = W[p + n]
    BY <1>0
  <2>2. W[p + n] = Payload <=> \E k \in 0 .. p + n - 1 : p + n <= Reach(W, c, k)
    BY <2>1 DEF Ordered
  <2>3. ASSUME NEW k \in 0 .. p - 1, p <= Reach(V, c - n, k)
        PROVE  \E j \in 0 .. p + n - 1 : p + n <= Reach(W, c, j)
    <3>1. CASE k = 0
      BY <1>0, <1>3, <2>3, <3>1
    <3>2. CASE k # 0
      <4>1. k \in 1 .. Len(V) /\ k + n \in 0 .. p + n - 1 /\ k + n \in 0 .. Len(W)
        BY <1>0, <3>2
      <4>2. p + n <= Reach(W, c, k + n)
        BY <1>0, <1>2, <1>5, <2>3, <4>1
      <4> QED
        BY <4>1, <4>2
    <3> QED
      BY <3>1, <3>2
  <2>4. ASSUME NEW j \in 0 .. p + n - 1, p + n <= Reach(W, c, j)
        PROVE  \E k \in 0 .. p - 1 : p <= Reach(V, c - n, k)
    <3>1. CASE j = 0
      BY <1>0, <1>3, <2>4, <3>1
    <3>2. CASE j \in 1 .. n
      BY <1>0, <1>4, <2>4, <3>2
    <3>3. CASE j > n
      <4>1. j - n \in 1 .. Len(V) /\ j - n \in 0 .. p - 1 /\ (j - n) + n = j
            /\ j \in 0 .. Len(W)
        BY <1>0, <3>3
      <4>2. p <= Reach(V, c - n, j - n)
        BY <1>0, <1>2, <1>5, <2>4, <4>1
      <4> QED
        BY <4>1, <4>2
    <3> QED
      BY <1>0, <3>1, <3>2, <3>3
  <2> QED
    BY <2>1, <2>2, <2>3, <2>4
<1>7. Sized(V)
  BY <1>0 DEF Sized
<1>8. ASSUME NEW o \in Nat, Complete(W, c, o) PROVE Complete(V, c - n, o)
  <2>1. ASSUME NEW k \in 0 .. Len(V) PROVE Reach(V, c - n, k) <= Len(V) + o
    <3>1. CASE k = 0
      <4>1. Reach(W, c, 0) <= Len(W) + o
        BY <1>0, <1>8 DEF Complete
      <4> QED
        BY <1>0, <1>3, <3>1, <4>1
    <3>2. CASE k # 0
      <4>1. k \in 1 .. Len(V) /\ k + n \in 0 .. Len(W)
        BY <1>0, <3>2
      <4>2. Reach(W, c, k + n) <= Len(W) + o
        BY <1>8, <4>1 DEF Complete
      <4> QED
        BY <1>0, <1>2, <1>5, <4>1, <4>2
    <3> QED
      BY <3>1, <3>2
  <2>2. ASSUME o > 0 PROVE \E k \in 0 .. Len(V) : Reach(V, c - n, k) = Len(V) + o
    <3>1. PICK j \in 0 .. Len(W) : Reach(W, c, j) = Len(W) + o
      BY <1>8, <2>2 DEF Complete
    <3>2. CASE j = 0
      BY <1>0, <1>3, <3>1, <3>2
    <3>3. CASE j \in 1 .. n
      BY <1>0, <1>4, <2>2, <3>1, <3>3
    <3>4. CASE j > n
      <4>1. j - n \in 1 .. Len(V) /\ (j - n) + n = j
        BY <1>0, <3>4
      <4>2. Reach(V, c - n, j - n) = Len(V) + o
        BY <1>0, <1>2, <3>1, <4>1
      <4> QED
        BY <1>0, <4>1, <4>2
    <3> QED
      BY <1>0, <3>2, <3>3, <3>4
  <2> QED
    BY <2>1, <2>2 DEF Complete
<1> QED
  BY <1>1, <1>6, <1>7, <1>8 DEF Ordered

\* A command leaves it, and what it has announced is due.
LEMMA DropCommand ==
  ASSUME NEW W \in Seq(Token), NEW V \in Seq(Token), NEW c \in Nat,
         W # <<>>, W[1] # Payload, Ordered(W, c), Sized(W),
         Len(V) = Len(W) - 1, \A p \in 1 .. Len(V) : V[p] = W[p + 1]
  PROVE  /\ c = 0 /\ W[1].size \in Nat
         /\ Ordered(V, W[1].size) /\ Sized(V)
         /\ \A o \in Nat : Complete(W, c, o) => Complete(V, W[1].size, o)
<1> DEFINE d == W[1].size
<1>0. Len(W) \in Nat /\ Len(V) \in Nat /\ Len(W) >= 1 /\ 1 \in 1 .. Len(W)
  OBVIOUS
<1>1. c = 0
  BY <1>0 DEF Ordered, Reach
<1>2. d \in Nat
  BY <1>0, TokenSize
<1>3. \A k \in 0 .. Len(V) : /\ k + 1 \in 1 .. Len(W) /\ Reach(V, d, k) \in Nat
                            /\ Reach(V, d, k) = Reach(W, c, k + 1) - 1
                            /\ Reach(W, c, k + 1) \in Nat
  <2> TAKE k \in 0 .. Len(V)
  <2>1. k + 1 \in 1 .. Len(W) /\ k + 1 # 0 /\ W[k + 1].size \in Nat
    BY <1>0, TokenSize
  <2>2. Reach(W, c, k + 1) = (k + 1) + W[k + 1].size
    BY <2>1 DEF Reach
  <2>3. Reach(V, d, k) = k + W[k + 1].size
    <3>1. CASE k = 0
      <4>1. Reach(V, d, k) = d /\ k + 1 = 1
        BY <3>1 DEF Reach
      <4> QED
        BY <1>2, <3>1, <4>1
    <3>2. CASE k # 0
      <4>1. V[k] = W[k + 1]
        BY <1>0, <3>2
      <4> QED
        BY <3>2, <4>1 DEF Reach
    <3> QED
      BY <3>1, <3>2
  <2> HIDE DEF d
  <2>4. \A x \in Nat : k + x \in Nat /\ k + x = ((k + 1) + x) - 1 /\ (k + 1) + x \in Nat
    BY <1>0
  <2> QED
    BY <2>1, <2>2, <2>3, <2>4
<1>4. Reach(W, c, 0) = 0
  BY <1>1 DEF Reach
<1> HIDE DEF d
<1>5. ASSUME NEW p \in 1 .. Len(V)
      PROVE  V[p] = Payload <=> \E k \in 0 .. p - 1 : p <= Reach(V, d, k)
  <2>1. p + 1 \in 1 .. Len(W) /\ V[p] = W[p + 1]
    BY <1>0
  <2>2. W[p + 1] = Payload <=> \E k \in 0 .. p + 1 - 1 : p + 1 <= Reach(W, c, k)
    BY <2>1 DEF Ordered
  <2>3. ASSUME NEW k \in 0 .. p - 1, p <= Reach(V, d, k)
        PROVE  \E j \in 0 .. p + 1 - 1 : p + 1 <= Reach(W, c, j)
    <3>1. k \in 0 .. Len(V) /\ k + 1 \in 0 .. p + 1 - 1
      BY <1>0
    <3>2. p + 1 <= Reach(W, c, k + 1)
      BY <1>3, <2>3, <3>1
    <3> QED
      BY <3>1, <3>2
  <2>4. ASSUME NEW j \in 0 .. p + 1 - 1, p + 1 <= Reach(W, c, j)
        PROVE  \E k \in 0 .. p - 1 : p <= Reach(V, d, k)
    <3>1. j # 0
      BY <1>4, <2>4
    <3>2. j - 1 \in 0 .. Len(V) /\ j - 1 \in 0 .. p - 1 /\ (j - 1) + 1 = j
      BY <1>0, <3>1
    <3>3. p <= Reach(V, d, j - 1)
      BY <1>3, <2>4, <3>2
    <3> QED
      BY <3>2, <3>3
  <2> QED
    BY <2>1, <2>2, <2>3, <2>4
<1>6. Sized(V)
  BY <1>0 DEF Sized
<1>7. ASSUME NEW o \in Nat, Complete(W, c, o) PROVE Complete(V, d, o)
  <2>1. ASSUME NEW k \in 0 .. Len(V) PROVE Reach(V, d, k) <= Len(V) + o
    <3>1. k + 1 \in 0 .. Len(W)
      BY <1>0
    <3>2. Reach(W, c, k + 1) <= Len(W) + o
      BY <1>7, <3>1 DEF Complete
    <3> QED
      BY <1>0, <1>3, <3>2
  <2>2. ASSUME o > 0 PROVE \E k \in 0 .. Len(V) : Reach(V, d, k) = Len(V) + o
    <3>1. PICK j \in 0 .. Len(W) : Reach(W, c, j) = Len(W) + o
      BY <1>7, <2>2 DEF Complete
    <3>2. j # 0
      BY <1>0, <1>4, <3>1
    <3>3. j - 1 \in 0 .. Len(V) /\ (j - 1) + 1 = j
      BY <1>0, <3>2
    <3>4. Reach(V, d, j - 1) = Len(V) + o
      BY <1>0, <1>3, <3>1, <3>3
    <3> QED
      BY <3>3, <3>4
  <2> QED
    BY <2>1, <2>2 DEF Complete
<1> QED
  BY <1>1, <1>2, <1>5, <1>6, <1>7 DEF Ordered, d

\* What is left of a stream that is cut off.
LEMMA CutOff ==
  ASSUME NEW W \in Seq(Token), NEW V \in Seq(Token), NEW c \in Nat,
         Ordered(W, c), Sized(W),
         Len(V) <= Len(W), \A p \in 1 .. Len(V) : V[p] = W[p]
  PROVE  Ordered(V, c) /\ Sized(V)
<1>0. Len(W) \in Nat /\ Len(V) \in Nat
  OBVIOUS
<1>1. ASSUME NEW p \in 1 .. Len(V)
      PROVE  V[p] = Payload <=> \E k \in 0 .. p - 1 : p <= Reach(V, c, k)
  <2>1. p \in 1 .. Len(W) /\ V[p] = W[p]
    BY <1>0
  <2>2. \A k \in 0 .. p - 1 : Reach(V, c, k) = Reach(W, c, k)
    BY <1>0 DEF Reach
  <2> QED
    BY <2>1, <2>2 DEF Ordered
<1>2. Sized(V)
  BY <1>0 DEF Sized
<1> QED
  BY <1>1, <1>2 DEF Ordered

\* The client sends one more token of a payload, or, when it owes none, a
\* command.
LEMMA OneMore ==
  ASSUME NEW W \in Seq(Token), NEW V \in Seq(Token), NEW c \in Nat, NEW o \in Nat,
         NEW r \in Nat, NEW t \in Token,
         Ordered(W, c), Sized(W), Complete(W, c, o),
         Len(V) = Len(W) + 1, V[Len(V)] = t, \A p \in 1 .. Len(W) : V[p] = W[p],
         t.cmd # "push" => t.size = 0,
         \/ o > 0 /\ t = Payload /\ r = o - 1
         \/ o = 0 /\ t # Payload /\ r = t.size
  PROVE  Ordered(V, c) /\ Sized(V) /\ Complete(V, c, r)
<1> DEFINE n == Len(V)
<1>0. Len(W) \in Nat /\ n \in Nat /\ n = Len(W) + 1 /\ t.size \in Nat
      /\ (t = Payload => t.size = 0)
  BY TokenSize
<1> HIDE DEF n
<1>1. \A k \in 0 .. Len(W) : Reach(V, c, k) = Reach(W, c, k) /\ Reach(W, c, k) \in Nat
  BY <1>0, TokenSize DEF Reach
<1>2. Reach(V, c, n) = n + t.size
  BY <1>0 DEF Reach, n
<1>3. \A k \in 0 .. Len(W) : Reach(W, c, k) <= Len(W) + o
  BY DEF Complete
<1>4. V[n] = Payload <=> \E k \in 0 .. n - 1 : n <= Reach(V, c, k)
  <2>1. CASE o > 0 /\ t = Payload
    <3>1. PICK k \in 0 .. Len(W) : Reach(W, c, k) = Len(W) + o
      BY <2>1 DEF Complete
    <3> QED
      BY <1>0, <1>1, <2>1, <3>1 DEF n
  <2>2. CASE o = 0 /\ t # Payload
    <3>1. \A k \in 0 .. n - 1 : Reach(V, c, k) <= Len(W)
      BY <1>0, <1>1, <1>3, <2>2
    <3>2. \A k \in 0 .. n - 1 : ~(n <= Reach(V, c, k))
      BY <1>0, <1>1, <3>1
    <3> QED
      BY <2>2, <3>2 DEF n
  <2> QED
    BY <2>1, <2>2
<1>5. ASSUME NEW p \in 1 .. n
      PROVE  V[p] = Payload <=> \E k \in 0 .. p - 1 : p <= Reach(V, c, k)
  <2>1. CASE p = n
    BY <1>4, <2>1
  <2>2. CASE p # n
    <3>1. p \in 1 .. Len(W) /\ V[p] = W[p] /\ \A k \in 0 .. p - 1 : k \in 0 .. Len(W)
      BY <1>0, <2>2
    <3> QED
      BY <1>1, <3>1 DEF Ordered
  <2> QED
    BY <2>1, <2>2
<1>6. Sized(V)
  <2> SUFFICES ASSUME NEW p \in 1 .. n, V[p].cmd # "push" PROVE V[p].size = 0
    BY DEF Sized, n
  <2>1. CASE p = n
    BY <2>1 DEF n
  <2>2. CASE p # n
    BY <1>0, <2>2 DEF Sized
  <2> QED
    BY <2>1, <2>2
<1>7. ASSUME NEW k \in 0 .. n PROVE Reach(V, c, k) <= n + r
  <2>1. CASE k = n
    BY <1>0, <1>2, <2>1
  <2>2. CASE k # n
    BY <1>0, <1>1, <1>3, <2>2
  <2> QED
    BY <2>1, <2>2
<1>8. ASSUME r > 0 PROVE \E k \in 0 .. n : Reach(V, c, k) = n + r
  <2>1. CASE o > 0 /\ r = o - 1
    <3>1. PICK k \in 0 .. Len(W) : Reach(W, c, k) = Len(W) + o
      BY <2>1 DEF Complete
    <3> QED
      BY <1>0, <1>1, <2>1, <3>1
  <2>2. CASE r = t.size
    BY <1>0, <1>2, <2>2
  <2> QED
    BY <2>1, <2>2
<1> QED
  BY <1>5, <1>6, <1>7, <1>8 DEF Ordered, Complete, n

LEMMA TailOf ==
  ASSUME NEW W \in Seq(Token), W # <<>>
  PROVE  /\ SubSeq(W, 2, Len(W)) \in Seq(Token)
         /\ Len(SubSeq(W, 2, Len(W))) = Len(W) - 1
         /\ \A p \in 1 .. Len(W) - 1 : SubSeq(W, 2, Len(W))[p] = W[p + 1]
<1> DEFINE n == Len(W)
           V == SubSeq(W, 2, n)
<1>1. n \in Nat /\ n >= 1
  OBVIOUS
<1>2. V \in Seq(Token)
  BY <1>1
<1>3. Len(V) = n - 1
  <2>1. CASE n = 1
    <3>1. V = SubSeq(W, 2, 1)
      BY <2>1
    <3> QED
      BY <2>1, <3>1
  <2>2. CASE n > 1
    BY <1>1, <2>2
  <2> HIDE DEF n, V
  <2> QED
    BY <1>1, <2>1, <2>2
<1>4. \A p \in 1 .. n - 1 : V[p] = W[p + 1]
  BY <1>1
<1> QED
  BY <1>2, <1>3, <1>4

LEMMA StreamIs ==
  ASSUME Inv
  PROVE  /\ sock.buf \in Seq(Token) /\ net \in Seq(Token) /\ Stream \in Seq(Token)
         /\ Len(Stream) = Len(sock.buf) + Len(net)
         /\ \A p \in 1 .. Len(sock.buf) : Stream[p] = sock.buf[p]
<1>1. sock.buf \in Seq(Token) /\ net \in Seq(Token)
  BY DEF Inv, Shape, Good, SocketType
<1> QED
  BY <1>1 DEF Stream

\* What a reader finds in the buffer: everything, or, after the end of the
\* stream, what was there.
LEMMA FillIs ==
  ASSUME Inv, NEW F, F = Fill(sock, net, Ended)
  PROVE  /\ F.buf = (IF sock.recvClosed THEN sock.buf ELSE Stream)
         /\ F.recvClosed => sock.recvClosed \/ peer # "open"
         /\ Good(F, Token)
<1> DEFINE filled == [sock EXCEPT !.buf = @ \o net]
<1>1. Good(F, Token)
  BY FillIsGood DEF Inv, Shape, Ended
<1>2. /\ Good(sock, Token) /\ sock \in SocketType(Token)
  BY DEF Inv, Shape, Good
<1>3. Stream \in Seq(Token)
  BY StreamIs
<1>4. /\ filled.buf = Stream /\ filled.recvClosed = sock.recvClosed
      /\ filled.sendClosed = sock.sendClosed /\ filled.open = sock.open
      /\ filled \in SocketType(Token)
  BY <1>2, <1>3 DEF SocketType, Stream
<1>5. Good(filled, Token)
  BY <1>2, <1>4 DEF Good, Coherent
<1>6. CloseRecv(filled).buf = filled.buf
  BY <1>5, CloseRecvIsGood
<1>7. F = IF sock.recvClosed THEN sock ELSE IF Ended THEN CloseRecv(filled) ELSE filled
  BY DEF Fill
<1> HIDE DEF filled
<1> QED
  BY <1>1, <1>4, <1>6, <1>7 DEF Ended

LEMMA DueIs ==
  ASSUME Inv, Parted
  PROVE  /\ Due \in Nat /\ data.left \in Nat
         /\ data.kind = "push" => data.left <= Due
         /\ data.kind # "push" => Due = refused - parsed
<1>1. data.left \in Nat
  BY DEF Inv, Shape, DataHandler
<1> QED
  BY <1>1 DEF Parted, Due

\* Of a session that is closed nothing is read any more; and whatever leaves
\* the stream and what is due of it alone, keeps them in order.
LEMMA StillParted ==
  ASSUME Inv, Parted, UNCHANGED <<owes, refused, parsed, swallowed>>,
         data'.kind = "push" /\ data'.closed => data'.left = 0,
         \/ closed'
         \/ /\ ~closed /\ Stream' = Stream /\ peer' = peer
            /\ sock'.recvClosed => sock.recvClosed \/ peer # "open"
            /\ (IF data'.kind = "push" THEN data'.left ELSE 0)
                 = (IF data.kind = "push" THEN data.left ELSE 0)
  PROVE  Parted'
<1>1. CASE closed'
  BY <1>1 DEF Parted
<1>2. CASE ~closed'
  <2>1. Due' = Due /\ ~closed
    BY <1>2 DEF Due
  <2> QED
    BY <1>2, <2>1 DEF Parted, Ordered, Complete, Sized, Reach
<1> QED
  BY <1>1, <1>2

LEMMA PartedInit == Init => Parted
<1> SUFFICES ASSUME Init PROVE Parted
  OBVIOUS
<1>1. Stream = <<>> /\ Due = 0 /\ Len(Stream) = 0
  BY DEF Init, Stream, Due, NewSocket, NoData
<1>2. Ordered(Stream, Due) /\ Sized(Stream)
  BY <1>1 DEF Ordered, Sized
<1>3. Complete(Stream, Due, 0)
  BY <1>1 DEF Complete, Reach
<1> QED
  BY <1>2, <1>3 DEF Init, Parted, NewSocket, NoData

\* What the client sends is in order.
LEMMA ClientKeepsParted == ASSUME Inv, Parted, SessionAssumption, Client PROVE Parted'
<1>1. UNCHANGED <<sock, closed, data, refused, parsed, swallowed>> /\ Due' = Due
  BY DEF Client, SendCommand, SendPayload, Shut, Reset, StopReading, history, Due
<1>2. /\ sock.buf \in Seq(Token) /\ net \in Seq(Token) /\ Stream \in Seq(Token)
      /\ Due \in Nat
  BY StreamIs, DueIs
<1>3. ASSUME NEW t \in Token, net' = Append(net, t), peer = "open", peer' = peer,
             NEW r \in Nat, owes' = r, t.cmd # "push" => t.size = 0,
             \/ owes > 0 /\ t = Payload /\ r = owes - 1
             \/ owes = 0 /\ t # Payload /\ r = t.size
      PROVE  Parted'
  <2>1. CASE closed
    BY <1>1, <1>3, <2>1 DEF Parted
  <2>2. CASE ~closed
    <3>1. Stream' = sock.buf \o Append(net, t) /\ Append(net, t) \in Seq(Token)
      BY <1>1, <1>2, <1>3 DEF Stream
    <3>2. /\ Stream' \in Seq(Token) /\ Len(Stream') = Len(Stream) + 1
          /\ Stream'[Len(Stream')] = t /\ \A p \in 1 .. Len(Stream) : Stream'[p] = Stream[p]
      <4> DEFINE b == Len(sock.buf)
                 more == Append(net, t)
      <4>1. /\ Len(more) = Len(net) + 1 /\ more[Len(net) + 1] = t
            /\ \A p \in 1 .. Len(net) : more[p] = net[p]
        BY <1>2
      <4>2. b \in Nat /\ Len(net) \in Nat /\ Len(Stream) = b + Len(net)
        BY <1>2, StreamIs
      <4>3. /\ \A p \in 1 .. b : Stream[p] = sock.buf[p]
            /\ \A p \in b + 1 .. b + Len(net) : Stream[p] = net[p - b]
        BY <1>2 DEF Stream
      <4> HIDE DEF more
      <4>4. /\ Stream' \in Seq(Token) /\ Len(Stream') = b + Len(more)
            /\ \A p \in 1 .. b : Stream'[p] = sock.buf[p]
            /\ \A p \in b + 1 .. b + Len(more) : Stream'[p] = more[p - b]
        <5>1. more \in Seq(Token) /\ Stream' = sock.buf \o more
          BY <3>1 DEF more
        <5> QED
          BY <1>2, <5>1
      <4> HIDE DEF b
      <4>5. Stream'[Len(Stream')] = t
        BY <4>1, <4>2, <4>4
      <4>6. ASSUME NEW p \in 1 .. Len(Stream) PROVE Stream'[p] = Stream[p]
        <5>1. CASE p <= b
          BY <4>2, <4>3, <4>4, <5>1
        <5>2. CASE p > b
          BY <4>1, <4>2, <4>3, <4>4, <5>2
        <5> QED
          BY <4>2, <5>1, <5>2
      <4>7. Len(Stream') = Len(Stream) + 1
        BY <4>1, <4>2, <4>4
      <4>8. Stream' \in Seq(Token)
        BY <4>4
      <4> QED
        BY <4>5, <4>6, <4>7, <4>8
    <3>3. Ordered(Stream, Due) /\ Sized(Stream) /\ Complete(Stream, Due, owes) /\ owes \in Nat
      BY <1>3, <2>2 DEF Parted
    <3>4. Ordered(Stream', Due) /\ Sized(Stream') /\ Complete(Stream', Due, r)
      BY <1>2, <1>3, <3>2, <3>3, OneMore
    <3> QED
      BY <1>1, <1>3, <3>4 DEF Parted, Ordered, Sized, Complete, Reach
  <2> QED
    BY <2>1, <2>2
<1>4. CASE SendCommand
  <2>1. PICK k \in Kinds : \E n \in IF k = "push" THEN PushSizes ELSE {0} :
          net' = Append(net, [cmd |-> k, size |-> n]) /\ owes' = n
    BY <1>4 DEF SendCommand
  <2>2. PICK n \in IF k = "push" THEN PushSizes ELSE {0} :
          net' = Append(net, [cmd |-> k, size |-> n]) /\ owes' = n
    BY <2>1
  <2> DEFINE t == [cmd |-> k, size |-> n]
  <2>3. n \in Nat /\ k \in AllKinds
    BY DEF SessionAssumption
  <2>4. t \in Token /\ t.cmd = k /\ t.size = n /\ t # Payload
    BY <2>3 DEF Token, Command, Payload, AllKinds
  <2>5. t.cmd # "push" => t.size = 0
    BY <2>4
  <2>6. owes = 0 /\ peer = "open" /\ peer' = peer
    BY <1>4 DEF SendCommand
  <2> HIDE DEF t
  <2>7. net' = Append(net, t)
    BY <2>2 DEF t
  <2> QED
    BY <1>3, <2>2, <2>3, <2>4, <2>5, <2>6, <2>7
<1>5. CASE SendPayload
  <2>1. /\ net' = Append(net, Payload) /\ owes' = owes - 1 /\ owes > 0 /\ owes \in Nat
        /\ peer = "open" /\ peer' = peer
    BY <1>5 DEF SendPayload, Parted
  <2>2. Payload \in Token /\ Payload.cmd # "push" /\ Payload.size = 0 /\ owes - 1 \in Nat
    BY <2>1 DEF Token, Payload
  <2> QED
    BY <1>3, <2>1, <2>2
<1>6. CASE StopReading
  <2>1. Stream' = Stream /\ UNCHANGED <<peer, owes>>
    BY <1>1, <1>6 DEF StopReading, Stream
  <2> QED
    BY <1>1, <2>1 DEF Parted, Ordered, Sized, Complete, Reach
<1>7. CASE Shut \/ Reset
  <2>1. (net' = net \/ net' = <<>>) /\ owes' = owes /\ peer' # "open"
    BY <1>7 DEF Shut, Reset
  <2>2. /\ Stream' \in Seq(Token) /\ Len(Stream') <= Len(Stream)
        /\ \A p \in 1 .. Len(Stream') : Stream'[p] = Stream[p]
    <3>1. CASE net' = net
      <4>1. Stream' = Stream
        BY <1>1, <3>1 DEF Stream
      <4> QED
        BY <1>2, <4>1
    <3>2. CASE net' = <<>>
      <4>1. Stream' = sock.buf
        BY <1>1, <1>2, <3>2 DEF Stream
      <4> QED
        BY <1>2, <4>1, StreamIs
    <3> QED
      BY <2>1, <3>1, <3>2
  <2>3. ~closed => Ordered(Stream', Due) /\ Sized(Stream')
    BY <1>2, <2>2, CutOff DEF Parted
  <2> QED
    BY <1>1, <2>1, <2>3 DEF Parted, Ordered, Sized, Reach
<1> QED
  BY <1>4, <1>5, <1>6, <1>7 DEF Client

\* A pull takes nothing from the stream; a push takes what is due, at most as
\* much as it has announced.
LEMMA DelegateKeepsParted == ASSUME Inv, Parted, Delegate PROVE Parted'
<1>1. UNCHANGED <<peer, owes, closed, refused, parsed>> /\ ~closed /\ closed' = FALSE
  BY DEF Delegate, Inv, Shape
<1>2. CASE PullBlock
  <2>1. /\ data.kind = "pull" /\ data'.kind = "pull" /\ UNCHANGED <<net, swallowed>>
        /\ sock' = Sent(sock) \/ sock' = sock
    BY <1>2 DEF PullBlock, Inv, Shape, DataHandler
  <2>2. sock'.buf = sock.buf /\ sock'.recvClosed = sock.recvClosed
    BY <2>1, SentIsGood DEF Inv, Shape
  <2> QED
    BY <1>1, <2>1, <2>2, StillParted DEF Stream
<1>3. CASE UNCHANGED <<net, sock, data, swallowed, files>>
  BY <1>1, <1>3, StillParted DEF Stream, Parted
<1>4. CASE PushPayload
  <2> DEFINE filled == IF data.left = 0 THEN sock ELSE Fill(sock, net, Ended)
             B == filled.buf
             n == Least(data.left, Len(B))
             rest == Drop(filled, n)
  <2>1. /\ data.kind = "push" /\ net' = (IF data.left = 0 THEN net ELSE <<>>)
        /\ sock' = (IF n = data.left THEN Sent(rest) ELSE rest)
        /\ data' = [data EXCEPT !.left = @ - n, !.closed = n = data.left]
        /\ swallowed' = (swallowed \/ \E i \in 1 .. n : B[i] # Payload)
    BY <1>4 DEF PushPayload
  <2>2. /\ Good(filled, Token) /\ B \in Seq(Token)
        /\ filled.recvClosed => sock.recvClosed \/ peer # "open"
        /\ B = IF data.left = 0 \/ sock.recvClosed THEN sock.buf ELSE Stream
    <3>1. Good(filled, Token)
      BY FillIs DEF Inv, Shape
    <3>2. filled.recvClosed => sock.recvClosed \/ peer # "open"
      BY FillIs
    <3>3. B = IF data.left = 0 \/ sock.recvClosed THEN sock.buf ELSE Stream
      BY FillIs
    <3>4. B \in Seq(Token)
      BY <3>1 DEF Good, SocketType
    <3> HIDE DEF filled
    <3> QED
      BY <3>1, <3>2, <3>3, <3>4
  <2>3. /\ sock.buf \in Seq(Token) /\ net \in Seq(Token) /\ Stream \in Seq(Token)
        /\ Due \in Nat /\ data.left \in Nat /\ data.left <= Due
    BY <2>1, StreamIs, DueIs
  <2> HIDE DEF filled
  <2>4. n \in 0 .. Len(B) /\ n <= data.left /\ n <= Due /\ (data.left = 0 => n = 0)
    BY <2>2, <2>3 DEF Least
  <2>5. Good(rest, Token) /\ rest.recvClosed = filled.recvClosed
    BY <2>2, <2>4, DropIsGood
  <2>6. rest.buf = SubSeq(B, n + 1, Len(B))
    BY <2>2 DEF Drop, Good, SocketType
  <2> HIDE DEF n, B, rest
  <2>7. sock'.buf = SubSeq(B, n + 1, Len(B)) /\ sock'.recvClosed = filled.recvClosed
    BY <2>1, <2>5, <2>6, SentIsGood
  <2>8. data'.kind = "push" /\ data'.left = data.left - n /\ (data'.closed <=> n = data.left)
    BY <2>1 DEF Inv, Shape, DataHandler
  <2>9. Due' = Due - n
    BY <1>1, <2>1, <2>3, <2>4, <2>8 DEF Due, Parted
  <2>10. Ordered(Stream, Due) /\ Sized(Stream) /\ owes \in Nat
    BY <1>1 DEF Parted
  <2>11. /\ Stream' \in Seq(Token) /\ swallowed' = FALSE
         /\ Ordered(Stream', Due - n) /\ Sized(Stream')
         /\ peer = "open" => Complete(Stream', Due - n, owes)
    <3>1. CASE data.left = 0
      <4>1. n = 0 /\ B = sock.buf
        BY <2>2, <2>4, <3>1
      <4>2. sock'.buf = sock.buf
        BY <2>3, <2>7, <4>1
      <4>3. Stream' = Stream /\ Due - n = Due
        <5>1. net' = net
          BY <2>1, <3>1
        <5> QED
          BY <2>3, <4>1, <4>2, <5>1 DEF Stream
      <4>4. swallowed' = FALSE
        <5>1. 1 .. n = {} /\ swallowed = FALSE
          BY <4>1 DEF Parted
        <5> QED
          BY <2>1, <5>1
      <4> QED
        BY <1>1, <2>3, <2>10, <4>3, <4>4 DEF Parted
    <3>2. CASE data.left # 0
      <4>1. /\ Stream' = SubSeq(B, n + 1, Len(B)) /\ Stream' \in Seq(Token)
            /\ Len(Stream') = Len(B) - n /\ \A p \in 1 .. Len(Stream') : Stream'[p] = B[p + n]
        <5>1. SubSeq(B, n + 1, Len(B)) \in Seq(Token)
          BY <2>2, <2>4
        <5>2. Stream' = SubSeq(B, n + 1, Len(B))
          BY <2>1, <2>7, <3>2, <5>1 DEF Stream
        <5>3. /\ Len(SubSeq(B, n + 1, Len(B))) = Len(B) - n
              /\ \A p \in 1 .. Len(B) - n : SubSeq(B, n + 1, Len(B))[p] = B[p + n]
          BY <2>2, <2>4
        <5> QED
          BY <5>1, <5>2, <5>3
      <4>2. Ordered(B, Due) /\ Sized(B)
        <5>1. Len(B) <= Len(Stream) /\ \A p \in 1 .. Len(B) : B[p] = Stream[p]
          BY <2>2, <2>3, StreamIs
        <5> QED
          BY <2>2, <2>3, <2>10, <5>1, CutOff
      <4>3. /\ \A p \in 1 .. n : B[p] = Payload
            /\ Ordered(Stream', Due - n) /\ Sized(Stream')
            /\ \A o \in Nat : Complete(B, Due, o) => Complete(Stream', Due - n, o)
        BY <2>2, <2>3, <2>4, <4>1, <4>2, DropDue
      <4>4. swallowed' = FALSE
        BY <2>1, <4>3 DEF Parted
      <4>5. peer = "open" => B = Stream /\ Complete(Stream, Due, owes)
        BY <1>1, <2>2, <3>2 DEF Parted
      <4> QED
        BY <2>10, <4>1, <4>3, <4>4, <4>5
    <3> QED
      BY <3>1, <3>2
  <2>12. sock'.recvClosed => peer' # "open"
    BY <1>1, <2>2, <2>7 DEF Parted
  <2>13. data'.closed => data'.left = 0
    BY <2>3, <2>8
  <2>14. owes' \in Nat /\ refused' \in Nat /\ parsed' \in Nat /\ parsed' <= refused'
    BY <1>1 DEF Parted
  <2>15. /\ Ordered(Stream', Due') /\ Sized(Stream')
         /\ peer' = "open" => Complete(Stream', Due', owes')
    BY <1>1, <2>9, <2>11
  <2> QED
    BY <2>11, <2>12, <2>13, <2>14, <2>15 DEF Parted, Ordered, Sized, Complete, Reach
<1> QED
  BY <1>2, <1>3, <1>4 DEF Delegate

\* A command takes nothing from the stream beyond its line, and what it
\* announces becomes due: to the push itself, or to the parser if that failed.
LEMMA PerformDue ==
  ASSUME Inv, Parted, ~closed, data.kind = "none",
         NEW s, Good(s, Token), NEW t \in Token, t.cmd # "push" => t.size = 0, Perform(t, s)
  PROVE  /\ sock'.buf = s.buf
         /\ closed' \/ (closed' = FALSE /\ sock'.recvClosed = s.recvClosed)
         /\ refused' \in Nat /\ refused' >= refused
         /\ data'.kind = "push" /\ data'.closed => data'.left = 0
         /\ refused' + (IF data'.kind = "push" THEN data'.left ELSE 0) = refused + t.size
<1> DEFINE Result ==
             /\ sock'.buf = s.buf
             /\ closed' \/ (closed' = FALSE /\ sock'.recvClosed = s.recvClosed)
             /\ refused' \in Nat /\ refused' >= refused
             /\ data'.kind = "push" /\ data'.closed => data'.left = 0
             /\ refused' + (IF data'.kind = "push" THEN data'.left ELSE 0) = refused + t.size
<1>1. /\ refused \in Nat /\ closed = FALSE /\ t.size \in Nat
      /\ Sent(s).buf = s.buf /\ Sent(s).recvClosed = s.recvClosed
      /\ Close(s).buf = s.buf
  BY SentIsGood, CloseIsGood, TokenSize DEF Inv, Shape, Parted
<1>2. ASSUME t.cmd # "push", sock' \in {s, Sent(s), Close(s)}, refused' = refused,
             data'.kind # "push", closed' \/ (closed' = FALSE /\ sock' # Close(s))
             \/ (closed' = FALSE /\ sock' \in {s, Sent(s)})
      PROVE  Result
  BY <1>1, <1>2
<1>3. CASE t.cmd = "blank"
  BY <1>1, <1>2, <1>3 DEF Perform
<1>4. ASSUME Reply(s), t.cmd # "push" PROVE Result
  BY <1>1, <1>2, <1>4 DEF Reply
<1>5. CASE t.cmd \in {"quick", "payload"}
  BY <1>4, <1>5 DEF Perform
<1>6. CASE t.cmd = "pull"
  <2>1. Pull(s)
    BY <1>6 DEF Perform
  <2>2. data'.kind = "pull"
    BY <2>1 DEF Pull, OpenFile, Failed, Data
  <2> QED
    BY <1>1, <1>2, <1>6, <2>1, <2>2 DEF Pull, OpenFile
<1>7. CASE t.cmd = "push"
  <2>1. Push(s, t.size)
    BY <1>7 DEF Perform
  <2>2. CASE data' = Data("push", t.size) /\ sock' = s /\ refused' = refused
    BY <1>1, <2>1, <2>2 DEF Push, Data
  <2>3. CASE data' = Failed("push") /\ sock' = Sent(s) /\ refused' = refused + t.size
    BY <1>1, <2>1, <2>3 DEF Push, Failed
  <2> QED
    BY <2>1, <2>2, <2>3 DEF Push
<1>8. CASE t.cmd = "exec"
  <2>1. Exec(s)
    BY <1>8 DEF Perform
  <2>2. CASE Reply(s)
    BY <1>4, <1>8, <2>2
  <2>3. CASE ~Reply(s)
    BY <1>1, <1>2, <1>8, <2>1, <2>3 DEF Exec, Data
  <2> QED
    BY <2>2, <2>3
<1>9. CASE t.cmd = "quit"
  <2>1. Quit(s)
    BY <1>9 DEF Perform
  <2> QED
    BY <1>1, <1>2, <1>9, <2>1 DEF Quit
<1>10. t.cmd \in {"blank", "quick", "payload", "pull", "push", "exec", "quit"}
  BY DEF Token, Command, Payload, AllKinds
<1> QED
  BY <1>3, <1>5, <1>6, <1>7, <1>8, <1>9, <1>10

\* The line that is handled is the front of the stream: payload only if some is
\* due.
LEMMA HandleLineKeepsParted == ASSUME Inv, Parted, HandleLine PROVE Parted'
<1> DEFINE filled == Fill(sock, net, Ended)
           B == filled.buf
           t == Head(B)
           s == Drop(filled, 1)
<1>1. /\ B # <<>> /\ Perform(t, s) /\ ~closed /\ data.kind = "none"
      /\ parsed' = (IF t = Payload THEN parsed + 1 ELSE parsed)
      /\ net' = (IF sock.recvClosed THEN net ELSE <<>>)
      /\ UNCHANGED <<peer, owes, swallowed>>
  BY DEF HandleLine
<1>2. /\ Good(filled, Token) /\ B \in Seq(Token)
      /\ filled.recvClosed => sock.recvClosed \/ peer # "open"
      /\ B = IF sock.recvClosed THEN sock.buf ELSE Stream
  <2>1. Good(filled, Token)
    BY FillIs DEF Inv, Shape
  <2>2. filled.recvClosed => sock.recvClosed \/ peer # "open"
    BY FillIs
  <2>3. B = IF sock.recvClosed THEN sock.buf ELSE Stream
    BY FillIs
  <2>4. B \in Seq(Token)
    BY <2>1 DEF Good, SocketType
  <2> HIDE DEF filled
  <2> QED
    BY <2>1, <2>2, <2>3, <2>4
<1>3. /\ sock.buf \in Seq(Token) /\ net \in Seq(Token) /\ Stream \in Seq(Token)
      /\ Due \in Nat /\ Due = refused - parsed
  BY <1>1, StreamIs, DueIs
<1> HIDE DEF filled
<1>4. 1 \in 0 .. Len(B) /\ t \in Token /\ t = B[1] /\ Len(B) \in Nat
  BY <1>1, <1>2
<1>5. Good(s, Token) /\ s.recvClosed = filled.recvClosed
  BY <1>2, <1>4, DropIsGood
<1>6. s.buf = SubSeq(B, 2, Len(B)) /\ SubSeq(B, 2, Len(B)) \in Seq(Token)
  <2>1. s.buf = SubSeq(B, 1 + 1, Len(B))
    BY <1>2 DEF Drop, Good, SocketType
  <2> QED
    BY <1>2, <1>4, <2>1
<1> HIDE DEF s, t, B
<1>7. Stream # <<>> /\ Stream[1] = t /\ 1 \in 0 .. Len(Stream) /\ 1 \in 1 .. Len(Stream)
  BY <1>1, <1>2, <1>3, <1>4, StreamIs
<1>8. Ordered(Stream, Due) /\ Sized(Stream) /\ owes \in Nat
  BY <1>1 DEF Parted
<1>9. t.cmd # "push" => t.size = 0
  BY <1>7, <1>8 DEF Sized
<1>10. /\ sock'.buf = s.buf
       /\ closed' \/ (closed' = FALSE /\ sock'.recvClosed = s.recvClosed)
       /\ refused' \in Nat /\ refused' >= refused
       /\ data'.kind = "push" /\ data'.closed => data'.left = 0
       /\ refused' + (IF data'.kind = "push" THEN data'.left ELSE 0) = refused + t.size
  BY <1>1, <1>4, <1>5, <1>9, PerformDue
<1>11. /\ Stream' \in Seq(Token) /\ Len(Stream') = Len(Stream) - 1
       /\ \A p \in 1 .. Len(Stream') : Stream'[p] = Stream[p + 1]
  <2>1. Stream' = SubSeq(B, 2, Len(B)) \o net'
    BY <1>6, <1>10 DEF Stream
  <2>2. CASE sock.recvClosed
    <3>1. Stream' = SubSeq(sock.buf, 2, Len(sock.buf)) \o net
      BY <1>1, <1>2, <2>1, <2>2
    <3>2. Len(sock.buf) >= 1 /\ Len(sock.buf) \in Nat /\ Len(net) \in Nat
      BY <1>2, <1>3, <1>4, <2>2
    <3> DEFINE b == Len(sock.buf)
               r == SubSeq(sock.buf, 2, b)
    <3>3. r \in Seq(Token) /\ Len(r) = b - 1 /\ \A p \in 1 .. b - 1 : r[p] = sock.buf[p + 1]
      BY <1>3, <3>2
    <3>4. /\ Len(Stream) = b + Len(net)
          /\ \A p \in 1 .. b : Stream[p] = sock.buf[p]
          /\ \A p \in b + 1 .. b + Len(net) : Stream[p] = net[p - b]
      BY <1>3 DEF Stream
    <3> HIDE DEF r
    <3>5. /\ Stream' \in Seq(Token) /\ Len(Stream') = Len(r) + Len(net)
          /\ \A p \in 1 .. Len(r) : Stream'[p] = r[p]
          /\ \A p \in Len(r) + 1 .. Len(r) + Len(net) : Stream'[p] = net[p - Len(r)]
      <4>1. Stream' = r \o net
        BY <3>1 DEF r
      <4>2. r \in Seq(Token) /\ net \in Seq(Token)
        BY <1>3, <3>3
      <4>3. r \o net \in Seq(Token) /\ Len(r \o net) = Len(r) + Len(net)
        BY <4>2
      <4>4. /\ \A p \in 1 .. Len(r) : (r \o net)[p] = r[p]
            /\ \A p \in Len(r) + 1 .. Len(r) + Len(net) : (r \o net)[p] = net[p - Len(r)]
        BY <4>2
      <4> QED
        BY <4>1, <4>3, <4>4
    <3> HIDE DEF b
    <3>6. b \in Nat /\ b >= 1
      BY <3>2 DEF b
    <3>7. ASSUME NEW p \in 1 .. Len(Stream') PROVE Stream'[p] = Stream[p + 1]
      <4>1. CASE p <= Len(r)
        BY <3>2, <3>3, <3>4, <3>5, <3>6, <4>1
      <4>2. CASE p > Len(r)
        <5>1. p \in Len(r) + 1 .. Len(r) + Len(net) /\ p + 1 \in b + 1 .. b + Len(net)
              /\ p - Len(r) = (p + 1) - b
          BY <3>2, <3>3, <3>5, <3>6, <4>2
        <5> QED
          BY <3>4, <3>5, <5>1
      <4> QED
        BY <3>3, <3>5, <3>6, <4>1, <4>2
    <3> QED
      BY <3>2, <3>3, <3>4, <3>5, <3>6, <3>7
  <2>3. CASE ~sock.recvClosed
    <3>1. net' = <<>> /\ B = Stream
      BY <1>1, <1>2, <2>3
    <3>2. Stream' = SubSeq(B, 2, Len(B))
      BY <1>6, <2>1, <3>1
    <3> QED
      BY <1>3, <1>7, <3>1, <3>2, TailOf
  <2> QED
    BY <2>2, <2>3
<1>12. CASE closed'
  <2>1. refused' \in Nat /\ parsed' \in Nat /\ parsed' <= refused'
    <3>1. CASE t = Payload
      <4>1. Due >= 1
        BY <1>3, <1>7, <1>8, <3>1 DEF Ordered, Reach
      <4> QED
        BY <1>1, <1>3, <1>10, <3>1, <4>1 DEF Parted
    <3>2. CASE t # Payload
      BY <1>1, <1>10, <3>2 DEF Parted
    <3> QED
      BY <3>1, <3>2
  <2> QED
    BY <1>1, <1>10, <1>12, <2>1 DEF Parted
<1>13. CASE ~closed'
  <2> DEFINE c == IF t = Payload THEN Due - 1 ELSE t.size
  <2>1. /\ t = Payload => 1 <= Due
        /\ t # Payload => Due = 0
        /\ Ordered(Stream', c) /\ Sized(Stream')
        /\ \A o \in Nat : Complete(Stream, Due, o) => Complete(Stream', c, o)
    <3>1. CASE t = Payload
      <4>1. 1 <= Due
        BY <1>3, <1>7, <1>8, <3>1 DEF Ordered, Reach
      <4> QED
        BY <1>3, <1>7, <1>8, <1>11, <3>1, <4>1, DropDue
    <3>2. CASE t # Payload
      <4>1. Stream[1] # Payload /\ Stream[1].size = t.size /\ c = t.size
        BY <1>7, <3>2
      <4> HIDE DEF c
      <4>2. /\ Stream \in Seq(Token) /\ Stream' \in Seq(Token) /\ Due \in Nat
            /\ Stream # <<>> /\ Stream[1] # Payload /\ Ordered(Stream, Due) /\ Sized(Stream)
            /\ Len(Stream') = Len(Stream) - 1
            /\ \A p \in 1 .. Len(Stream') : Stream'[p] = Stream[p + 1]
        BY <1>3, <1>7, <1>8, <1>11, <4>1
      <4>3. /\ Due = 0 /\ Ordered(Stream', Stream[1].size) /\ Sized(Stream')
            /\ \A o \in Nat : Complete(Stream, Due, o) => Complete(Stream', Stream[1].size, o)
        BY <4>2, DropCommand
      <4> QED
        BY <3>2, <4>1, <4>3
    <3> QED
      BY <3>1, <3>2
  <2>2. t = Payload => t.size = 0
    BY <1>4, TokenSize
  <2>3. data'.kind = "push" => data'.left \in Nat
    BY HandleLineKeepsInv DEF Inv, Shape, DataHandler
  <2>4. /\ refused \in Nat /\ parsed \in Nat /\ parsed <= refused /\ t.size \in Nat
    BY <1>4, TokenSize DEF Parted
  <2>5. Due' = c /\ parsed' \in Nat /\ parsed' <= refused'
    <3> DEFINE taken == IF data'.kind = "push" THEN data'.left ELSE 0
    <3>1. Due' = (refused' - parsed') + taken /\ taken \in Nat
          /\ refused' + taken = refused + t.size
      BY <1>10, <2>3 DEF Due
    <3> HIDE DEF taken
    <3>2. CASE t = Payload
      <4>1. parsed' = parsed + 1 /\ c = Due - 1 /\ 1 <= Due /\ t.size = 0
        BY <1>1, <2>1, <2>2, <3>2
      <4>2. Due = refused - parsed
        BY <1>1, <1>3
      <4>3. refused' + taken = refused
        BY <2>4, <3>1, <4>1
      <4>4. Due' = c
        <5>1. Due' = (refused' - (parsed + 1)) + taken /\ refused' \in Nat
          BY <1>10, <3>1, <4>1
        <5>2. taken \in Nat
          BY <3>1
        <5>3. \A r \in Nat, k \in Nat : r + k = refused =>
                (r - (parsed + 1)) + k = (refused - parsed) - 1
          BY <2>4
        <5>4. Due' = (refused - parsed) - 1
          BY <4>3, <5>1, <5>2, <5>3
        <5> QED
          BY <4>1, <4>2, <5>4
      <4>5. parsed' \in Nat /\ parsed' <= refused'
        BY <1>10, <2>4, <4>1, <4>2
      <4> QED
        BY <4>4, <4>5
    <3>3. CASE t # Payload
      BY <1>1, <1>3, <1>10, <2>1, <2>4, <3>1, <3>3
    <3> QED
      BY <3>2, <3>3
  <2> HIDE DEF c
  <2>6. sock'.recvClosed => peer' # "open"
    BY <1>1, <1>2, <1>5, <1>10, <1>13 DEF Parted
  <2>7. /\ Ordered(Stream', Due') /\ Sized(Stream')
        /\ peer' = "open" => Complete(Stream', Due', owes')
    BY <1>1, <1>8, <2>1, <2>5 DEF Parted
  <2> QED
    BY <1>1, <1>10, <2>5, <2>6, <2>7 DEF Parted, Ordered, Sized, Complete, Reach
<1> QED
  BY <1>12, <1>13

\* The other steps read nothing, or find nothing to read.
LEMMA RestKeepsParted ==
  ASSUME Inv, Parted,
         \/ PollRead \/ PollWrite \/ PollNothing \/ FinishData \/ KeepData \/ NoDelegate
         \/ NoMoreToRead \/ EndLines \/ EndEvent \/ HandleTimeout \/ NoTimeout \/ Sweep
         \/ Stop
  PROVE  Parted'
<1>1. CASE PollRead \/ PollWrite \/ PollNothing \/ KeepData \/ NoDelegate \/ EndLines
           \/ NoTimeout \/ Sweep
  <2>1. UNCHANGED <<net, peer, owes, sock, closed, data, refused, parsed, swallowed>>
    BY <1>1 DEF PollRead, PollWrite, PollNothing, Polled, KeepData, NoDelegate, EndLines,
                NoTimeout, Sweep, client, history
  <2> QED
    BY <2>1, StillParted DEF Stream, Parted, Inv, Shape
<1>2. CASE FinishData
  <2>1. UNCHANGED <<net, peer, owes, closed, refused, parsed, swallowed>>
        /\ data' = NoData /\ sock' = Sent(sock) /\ data.closed
    BY <1>2 DEF FinishData, client
  <2>2. sock'.buf = sock.buf /\ sock'.recvClosed = sock.recvClosed
    BY <2>1, SentIsGood DEF Inv, Shape
  <2>3. data'.kind = "none" /\ (IF data.kind = "push" THEN data.left ELSE 0) = 0
    BY <2>1 DEF NoData, Parted
  <2>4. Stream' = Stream
    BY <2>1, <2>2 DEF Stream
  <2> QED
    BY <2>1, <2>2, <2>3, <2>4, StillParted
<1>3. CASE NoMoreToRead
  <2>1. UNCHANGED <<net, peer, owes, closed, data, refused, parsed, swallowed>>
        /\ sock' = Fill(sock, net, Ended) /\ sock'.buf = <<>>
    BY <1>3 DEF NoMoreToRead, client, history
  <2>2. /\ sock'.buf = (IF sock.recvClosed THEN sock.buf ELSE Stream)
        /\ sock'.recvClosed => sock.recvClosed \/ peer # "open"
    BY <2>1, FillIs
  <2>3. Stream' = Stream
    <3>1. sock.buf = <<>>
      BY <2>1, <2>2, StreamIs
    <3> QED
      BY <2>1, <3>1 DEF Stream
  <2> QED
    BY <2>1, <2>2, <2>3, StillParted DEF Parted
<1>4. CASE EndEvent
  <2>1. UNCHANGED <<net, peer, owes, refused, parsed, swallowed>>
    BY <1>4 DEF EndEvent, client, history
  <2>2. CASE sock.recvClosed
    BY <1>4, <2>1, <2>2, StillParted DEF EndEvent, NoData
  <2>3. CASE ~sock.recvClosed
    BY <1>4, <2>1, <2>3, StillParted DEF EndEvent, Stream, Parted, Inv, Shape
  <2> QED
    BY <2>2, <2>3
<1>5. CASE HandleTimeout
  <2>1. UNCHANGED <<net, peer, owes, closed, refused, parsed, swallowed>>
    BY <1>5 DEF HandleTimeout, client
  <2>2. /\ data.kind \in {"exec", "none"} /\ data'.kind \in {"exec", "none"}
        /\ sock' \in {sock, Sent(sock), Sent(Sent(sock))}
    BY <1>5 DEF HandleTimeout, PollPipe, FinishExec, NoData
  <2>3. sock'.buf = sock.buf /\ sock'.recvClosed = sock.recvClosed
    BY <2>2, SentIsGood DEF Inv, Shape
  <2>4. Stream' = Stream
    BY <2>1, <2>3 DEF Stream
  <2> QED
    BY <2>1, <2>2, <2>3, <2>4, StillParted
<1>6. CASE Stop
  <2>1. UNCHANGED <<owes, refused, parsed, swallowed, data>> /\ closed'
    BY <1>6 DEF Stop, client, history
  <2> QED
    BY <2>1, StillParted DEF Parted
<1> QED
  BY <1>1, <1>2, <1>3, <1>4, <1>5, <1>6

\* Every step keeps payload and commands apart.
LEMMA PartedAlways == Spec => []Parted
<1>1. Init => Parted
  BY PartedInit
<1>2. Inv /\ Parted /\ [Next]_vars => Parted'
  <2> SUFFICES ASSUME Inv, Parted, [Next]_vars PROVE Parted'
    OBVIOUS
  <2>1. CASE UNCHANGED vars
    <3>1. UNCHANGED <<net, peer, owes, sock, closed, data, refused, parsed, swallowed>>
      BY <2>1 DEF vars, client, history
    <3> QED
      BY <3>1, StillParted DEF Stream, Parted, Inv, Shape
  <2>2. CASE Next
    BY <2>2, ClientKeepsParted, DelegateKeepsParted, HandleLineKeepsParted, RestKeepsParted,
       SessionAssumption
    DEF Next, Pass
  <2> QED
    BY <2>1, <2>2
<1> QED
  BY <1>1, <1>2, InvAlways, PTL DEF Spec

\* The bytes of a pushed file reach the parser only if push could not open its
\* file, and no command ends up in a file.
THEOREM PayloadStaysApart == Spec => []PayloadIsNotParsed
<1>1. Parted => PayloadIsNotParsed
  BY DEF Parted, PayloadIsNotParsed
<1> QED
  BY <1>1, PartedAlways, PTL
-----------------------------------------------------------------------------
(***************************************************************************)
(* What is open.                                                           *)
(***************************************************************************)
Held == files \in {0, 1} /\ stopped \in BOOLEAN /\ OpenFilesAreHeld

\* The steps that neither open nor close anything, and leave the data handler or
\* delete one that is closed.
LEMMA StillHeld ==
  ASSUME Held, UNCHANGED <<files, stopped, closed>>, Ended => Ended',
         \/ data' = data
         \/ data'.kind = "none" /\ (data.kind = "none" \/ data.closed)
  PROVE  Held'
BY DEF Held, OpenFilesAreHeld, Ended

\* The client only affects whether it can send more.
LEMMA ClientKeepsHeld == ASSUME Held, Client PROVE Held'
<1>1. UNCHANGED <<files, stopped, closed, data>>
  BY DEF Client, SendCommand, SendPayload, Shut, Reset, StopReading, history
<1>2. Ended => Ended'
  BY DEF Client, SendCommand, SendPayload, Shut, Reset, StopReading, Ended
<1> QED
  BY <1>1, <1>2, StillHeld

\* A data handler closes its file when it closes itself.
LEMMA DelegateKeepsHeld == ASSUME Inv, Held, Delegate PROVE Held'
<1>1. ~closed /\ data.kind # "none" /\ UNCHANGED <<closed, stopped, peer>>
  BY DEF Delegate
<1>2. CASE ~data.closed /\ PullBlock
  <2>1. files = 1
    BY <1>1, <1>2 DEF Held, OpenFilesAreHeld
  <2>2. data \in DataHandler
    BY DEF Inv, Shape
  <2>3. CASE /\ data' = [data EXCEPT !.left = @ - 1, !.closed = data.left = 1]
             /\ files' = IF data.left = 1 THEN files - 1 ELSE files
    <3>1. data'.kind = data.kind /\ (data'.closed <=> data.left = 1)
      BY <2>2, <2>3 DEF DataHandler
    <3> QED
      BY <1>1, <2>1, <2>3, <3>1 DEF Held, OpenFilesAreHeld
  <2>4. CASE data' = [data EXCEPT !.closed = TRUE] /\ files' = files - 1
    BY <1>1, <2>1, <2>2, <2>4 DEF Held, OpenFilesAreHeld, DataHandler
  <2> QED
    BY <1>2, <2>3, <2>4 DEF PullBlock
<1>3. CASE ~data.closed /\ PushPayload
  <2>1. files = 1
    BY <1>1, <1>3 DEF Held, OpenFilesAreHeld
  <2>2. data \in DataHandler
    BY DEF Inv, Shape
  <2>3. PICK n : /\ data' = [data EXCEPT !.left = @ - n, !.closed = n = data.left]
                 /\ files' = IF n = data.left THEN files - 1 ELSE files
    BY <1>3 DEF PushPayload
  <2>4. data'.kind = data.kind /\ (data'.closed <=> n = data.left)
    BY <2>2, <2>3 DEF DataHandler
  <2> QED
    BY <1>1, <2>1, <2>3, <2>4 DEF Held, OpenFilesAreHeld
<1>4. CASE UNCHANGED <<net, sock, data, swallowed, files>>
  BY <1>1, <1>4, StillHeld DEF Ended
<1> QED
  BY <1>2, <1>3, <1>4 DEF Delegate

\* A command that opens something leaves a data handler that holds it.
LEMMA HandleLineKeepsHeld == ASSUME Inv, Held, HandleLine PROVE Held'
<1> DEFINE filled == Fill(sock, net, Ended)
           t == Head(filled.buf)
           s == Drop(filled, 1)
<1>1. Perform(t, s) /\ t \in Token
  <2>1. filled.buf # <<>> /\ Perform(t, s)
    BY DEF HandleLine
  <2>2. filled.buf \in Seq(Token)
    BY FillIsGood DEF Inv, Shape, Ended, Good, SocketType
  <2> HIDE DEF filled
  <2>3. t \in Token
    BY <2>1, <2>2
  <2> QED
    BY <2>1, <2>3
<1> HIDE DEF t, s
<1>2. /\ ~closed /\ data.kind = "none" /\ UNCHANGED <<stopped, peer>>
      /\ files = 0 /\ closed \in BOOLEAN
  BY DEF HandleLine, Inv, Shape, Held, OpenFilesAreHeld
<1>3. \/ files' = files /\ closed' = closed
         /\ (data' = data \/ \E kind \in {"pull", "push"} : data' = Failed(kind))
      \/ files' = files + 1 /\ closed' = closed
         /\ \E kind \in {"pull", "push", "exec"} : \E n : data' = Data(kind, n)
      \/ files' = files /\ closed' = TRUE
  <2>1. CASE t.cmd = "blank"
    BY <1>1, <2>1 DEF Perform
  <2>2. CASE t.cmd \in {"quick", "payload"}
    BY <1>1, <2>2 DEF Perform, Reply
  <2>3. CASE t.cmd = "pull"
    BY <1>1, <2>3 DEF Perform, Pull, OpenFile
  <2>4. CASE t.cmd = "push"
    BY <1>1, <2>4 DEF Perform, Push
  <2>5. CASE t.cmd = "exec"
    BY <1>1, <2>5 DEF Perform, Exec, Reply
  <2>6. CASE t.cmd = "quit"
    BY <1>1, <2>6 DEF Perform, Quit
  <2>7. t.cmd \in {"blank", "quick", "payload", "pull", "push", "exec", "quit"}
    BY <1>1 DEF Token, Command, Payload, AllKinds
  <2> QED
    BY <2>1, <2>2, <2>3, <2>4, <2>5, <2>6, <2>7
<1>4. CASE files' = files /\ closed' = closed
           /\ (data' = data \/ \E kind \in {"pull", "push"} : data' = Failed(kind))
  <2>1. data'.kind = "none" \/ data'.closed
    BY <1>2, <1>4 DEF Failed
  <2> QED
    BY <1>2, <1>4, <2>1 DEF Held, OpenFilesAreHeld
<1>5. CASE files' = files + 1 /\ closed' = closed
           /\ \E kind \in {"pull", "push", "exec"} : \E n : data' = Data(kind, n)
  <2>1. data'.kind # "none" /\ ~data'.closed
    BY <1>5 DEF Data
  <2> QED
    BY <1>2, <1>5, <2>1 DEF Held, OpenFilesAreHeld
<1>6. CASE files' = files /\ closed' = TRUE
  BY <1>2, <1>6 DEF Held, OpenFilesAreHeld
<1> QED
  BY <1>3, <1>4, <1>5, <1>6

\* Every step leaves open what the data handler holds, and no more.
LEMMA HeldAlways == Spec => []Held
<1>1. Init => Held
  <2> SUFFICES ASSUME Init PROVE Held
    OBVIOUS
  <2>1. closed = FALSE /\ files = 0 /\ stopped = FALSE /\ data.kind = "none"
    BY DEF Init, NoData
  <2> QED
    BY <2>1 DEF Held, OpenFilesAreHeld
<1>2. Inv /\ Parted /\ Held /\ [Next]_vars => Held'
  <2> SUFFICES ASSUME Inv, Parted, Held, [Next]_vars PROVE Held'
    OBVIOUS
  <2>1. CASE \/ UNCHANGED vars \/ PollRead \/ PollWrite \/ PollNothing \/ KeepData
             \/ NoDelegate \/ NoMoreToRead \/ EndLines \/ NoTimeout \/ Sweep
    <3>1. UNCHANGED <<files, stopped, closed, data, peer>>
      BY <2>1 DEF vars, PollRead, PollWrite, PollNothing, Polled, KeepData, NoDelegate,
                  NoMoreToRead, EndLines, NoTimeout, Sweep, client, history
    <3> QED
      BY <3>1, StillHeld DEF Ended
  <2>2. CASE FinishData
    <3>1. UNCHANGED <<files, stopped, closed, peer>> /\ data.closed /\ data'.kind = "none"
      BY <2>2 DEF FinishData, client, NoData
    <3> QED
      BY <3>1, StillHeld DEF Ended
  <2>3. CASE EndEvent
    <3>1. UNCHANGED <<files, stopped, peer>>
      BY <2>3 DEF EndEvent, client, history
    <3>2. CASE sock.recvClosed
      <4>1. closed' /\ ~closed => Ended
        BY <3>2 DEF Parted, Ended
      <4>2. closed' = TRUE
        BY <2>3, <3>2 DEF EndEvent
      <4> QED
        BY <3>1, <4>1, <4>2 DEF Held, OpenFilesAreHeld, Ended
    <3>3. CASE ~sock.recvClosed
      BY <2>3, <3>1, <3>3, StillHeld DEF EndEvent, Ended
    <3> QED
      BY <3>2, <3>3
  <2>4. CASE HandleTimeout
    <3>1. UNCHANGED <<closed, stopped, peer>>
      BY <2>4 DEF HandleTimeout, client
    <3>2. CASE FinishExec
      <4>1. ~closed /\ files = 1
        BY <2>4, <3>2 DEF FinishExec, HandleTimeout, Inv, Tidy, Held, OpenFilesAreHeld
      <4> QED
        BY <3>1, <3>2, <4>1 DEF FinishExec, NoData, Held, OpenFilesAreHeld
    <3>3. CASE UNCHANGED <<data, files>>
      BY <3>1, <3>3, StillHeld DEF Ended
    <3> QED
      BY <2>4, <3>2, <3>3 DEF HandleTimeout, PollPipe
  <2>5. CASE Stop
    BY <2>5 DEF Stop, Held, OpenFilesAreHeld
  <2> QED
    BY <2>1, <2>2, <2>3, <2>4, <2>5, ClientKeepsHeld, DelegateKeepsHeld, HandleLineKeepsHeld
    DEF Next, Pass
<1> QED
  BY <1>1, <1>2, InvAlways, PartedAlways, PTL DEF Spec

\* In an open session nothing is open but what its data handler holds, and one
\* that ends loses no more than that, when its client has ended or the agent has.
THEOREM HoldsWhatIsOpen == Spec => []OpenFilesAreHeld
<1>1. Held => OpenFilesAreHeld
  BY DEF Held
<1> QED
  BY <1>1, HeldAlways, PTL
-----------------------------------------------------------------------------
\* What the client has sent is counted up to its bound.
Counted == reading \in BOOLEAN /\ sent \in 0 .. MaxCommands /\ asked \in 0 .. sent

\* Only the client changes the counts.
LEMMA CountedStep == ASSUME SessionAssumption, Counted, [Next]_vars PROVE Counted'
<1>1. CASE SendCommand
  BY <1>1 DEF Counted, SendCommand, SessionAssumption
<1>2. CASE UNCHANGED <<reading, sent, asked>>
  BY <1>2 DEF Counted
<1>3. CASE StopReading
  BY <1>3 DEF Counted, StopReading
<1> QED
  BY <1>1, <1>2, <1>3
  DEF Next, Client, Pass, vars, client, SendPayload, Shut, Reset, PollRead, PollWrite,
      PollNothing, Polled, Delegate, FinishData, KeepData, NoDelegate, HandleLine,
      NoMoreToRead, EndLines, EndEvent, HandleTimeout, NoTimeout, Sweep, Stop

\* The state of a session has the type it is declared with: the socket agrees
\* with its two directions, only tokens are buffered, and no count is negative.
THEOREM SessionTypes == Spec => []TypeOK
<1>1. Init => Counted
  BY SessionAssumption DEF Init, Counted, SessionAssumption
<1>2. Counted /\ [Next]_vars => Counted'
  BY CountedStep, SessionAssumption
<1>3. Spec => []Counted
  BY <1>1, <1>2, PTL DEF Spec
<1>4. Inv /\ Parted /\ Held /\ Counted => TypeOK
  <2> SUFFICES ASSUME Inv, Parted, Held, Counted PROVE TypeOK
    OBVIOUS
  <2>1. owes \in Nat /\ refused \in Nat /\ parsed \in Nat /\ swallowed \in BOOLEAN
    BY DEF Parted
  <2>2. files \in Nat /\ stopped \in BOOLEAN
    BY DEF Held
  <2> QED
    BY <2>1, <2>2 DEF Inv, Shape, Good, Counted, TypeOK
<1> QED
  BY <1>3, <1>4, InvAlways, PartedAlways, HeldAlways, PTL

=============================================================================
