----------------------------- MODULE ByteQueue -----------------------------
(***************************************************************************)
(* What BlockBuffer promises to BufferedSocket: a queue of bytes of any    *)
(* length.  put() appends; get() takes bytes from the front; getline()     *)
(* takes the first line, newline included, or nothing if no line is        *)
(* complete.  Every call is one step.                                      *)
(***************************************************************************)
EXTENDS Sequences, Integers

CONSTANTS Inputs,   \* the byte sequences that are put
          Newline

VARIABLES queue,  \* the bytes put and not taken
          call,   \* the last call that took bytes, if any
          result  \* what it returned

Init == queue = <<>> /\ call = "none" /\ result = <<>>

Take(n) ==
  /\ result' = SubSeq(queue, 1, n)
  /\ queue' = SubSeq(queue, n + 1, Len(queue))

Put == \E s \in Inputs : queue' = queue \o s /\ UNCHANGED <<call, result>>

Get == call' = "get" /\ \E n \in 0 .. Len(queue) : Take(n)

LineEnds == {i \in 1 .. Len(queue) : queue[i] = Newline}

GetLine ==
  /\ call' = "getline"
  /\ \/ \E i \in LineEnds : Take(i) /\ \A j \in LineEnds : i <= j
     \/ LineEnds = {} /\ Take(0)

Next == Put \/ Get \/ GetLine

Spec == Init /\ [][Next]_<<queue, call, result>>
=============================================================================
