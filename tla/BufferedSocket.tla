--------------------------- MODULE BufferedSocket ---------------------------
(***************************************************************************)
(* The connection of a handler (src/src/BufferedSocket.cpp): a             *)
(* non-blocking socket, each direction of which the agent can regard as    *)
(* closed, and the bytes received but not consumed.  A socket is a record; *)
(* every operation maps a socket to the socket it leaves behind.  What     *)
(* travels are tokens: a token is a complete line, of a command or of a    *)
(* file.  Bytes are modelled in BlockBuffer.                               *)
(***************************************************************************)
EXTENDS Sequences, Integers

\* open: mSocket is not NULL.
SocketType(Token) ==
  [open : BOOLEAN, recvClosed : BOOLEAN, sendClosed : BOOLEAN, buf : Seq(Token)]

NewSocket == [open |-> TRUE, recvClosed |-> FALSE, sendClosed |-> FALSE, buf |-> <<>>]

Close(s) == [s EXCEPT !.open = FALSE, !.recvClosed = TRUE, !.sendClosed = TRUE]

\* Faulty variant: the socket stays open when both directions are closed.
CloseSendOnly(s) == [s EXCEPT !.sendClosed = TRUE]

\* closeRecv() and closeSend(): the second of the two closes the socket.
CloseRecv(s) ==
  IF s.sendClosed THEN Close(s) ELSE [s EXCEPT !.recvClosed = TRUE]

CloseSend(s) ==
  IF s.recvClosed THEN Close(s) ELSE [s EXCEPT !.sendClosed = TRUE]

\* write(), where the connection may have failed.  Data that does not fit in
\* the send buffer is dropped, and the socket does not show it.
Write(s, failed) == IF failed /\ ~s.sendClosed THEN CloseSend(s) ELSE s

\* Faulty variant: the end of the stream goes unnoticed.
FillIgnoringEnd(s, arrived, ended) == [s EXCEPT !.buf = @ \o arrived]

\* readIntoBuffer(), repeated until nothing more arrives: what has arrived is
\* appended, then the end of the stream or an error closes the direction.
Fill(s, arrived, ended) ==
  LET filled == [s EXCEPT !.buf = @ \o arrived]
  IN  IF s.recvClosed THEN s ELSE IF ended THEN CloseRecv(filled) ELSE filled

\* Consuming the first n tokens, as get() does for read() and getline().
Drop(s, n) == [s EXCEPT !.buf = SubSeq(@, n + 1, Len(@))]

\* The two directions and the descriptor agree.
Coherent(s) == s.open = ~(s.recvClosed /\ s.sendClosed)
=============================================================================
