---------------------------- MODULE FileTransfer ----------------------------
(***************************************************************************)
(* Files that several sessions pull, push and remove at the same time:     *)
(* PullFileEventHandler, PushFileEventHandler and the commands cat, cd and *)
(* rm.  The agent has one thread, so a step is one event of one session;   *)
(* but a transfer takes many events, and between them other sessions work  *)
(* on the same files and change the working directory of the process.      *)
(*                                                                         *)
(* There is one file name; a directory may hold a file of that name.  An   *)
(* open file is an inode, which outlives its name.  A hash is modelled as  *)
(* the contents it is computed from.  What a session writes to its client  *)
(* may be cut short by write(), which sends what the socket takes.         *)
(***************************************************************************)
EXTENDS Sequences, Integers, FiniteSets

CONSTANTS
  Sessions,   \* sessions, numbered from 1
  Dirs,       \* directories, numbered from 1
  Inodes,     \* numbers of files on the disk (bounds how many there are)
  MaxLen,     \* bound: bytes of a file at first
  Ranges,     \* what pull is asked for: an offset and a size, 0 for the rest
  PushSizes,  \* lengths of pushed files, each within one block of a push
  BlockSize,  \* BLOCK_SIZE of a pull
  MaxOthers   \* bound: cd and rm commands

TransferAssumption ==
  /\ Sessions \subseteq Nat \ {0}
  /\ Dirs # {} /\ Dirs \subseteq Inodes /\ Inodes \subseteq Nat \ {0}
  /\ Ranges \subseteq Nat \X Nat /\ PushSizes \subseteq Nat
  /\ MaxLen \in Nat /\ MaxOthers \in Nat /\ BlockSize \in Nat \ {0}

VARIABLES
  names,     \* the inode in each directory, 0 for none
  content,   \* the bytes of each inode
  cwd,       \* the working directory
  xfer,      \* the transfer of each session
  arrived,   \* payload bytes that have reached the agent
  got,       \* what each client has received
  others,    \* commands besides transfers
  \* history
  slice,     \* the bytes a pull asked for, when it was opened
  disturbed, \* another session has changed what the transfer works on
  cut,       \* a write to the client was not sent in full
  short,     \* a write to the file was not done in full
  failed     \* a read of the file has failed

disk == <<names, content>>
history == <<slice, disturbed, cut, short, failed>>
vars == <<disk, cwd, xfer, arrived, got, others, history>>

\* state: "idle", "pull", "push", or "done".  dir: where the name was resolved,
\* relative: whether it was given without a directory.  size: mSize; moved:
\* mBytesRead or mBytesWritten; pos: the offset of the file.
Idle == [state |-> "idle", kind |-> "none", dir |-> 0, relative |-> FALSE, inode |-> 0,
         start |-> 0, want |-> 0, total |-> 0, size |-> 0, moved |-> 0, pos |-> 0]

Header(n) == <<"header", n>>
Bytes(f) == [i \in 1 .. Len(f) |-> <<"byte", f[i]>>]
Hash(f) == <<"hash", f>>
Error == <<"error", 0>>
Prompt == <<"prompt", 0>>

Hole == 0
Nothing == <<-1>>
Original(d) == [i \in 1 .. MaxLen |-> 100 * d + i]
Payload(s, n) == [i \in 1 .. n |-> 10 * s + i]

Least(m, n) == IF m < n THEN m ELSE n
Most(m, n) == IF m < n THEN n ELSE m

\* PR_Read() at an offset.
ReadAt(f, pos, n) == SubSeq(f, pos + 1, Least(Len(f), pos + n))

\* PR_Write() at an offset; what lies between the end and the offset is zero.
WriteAt(f, pos, bytes) ==
  IF bytes = <<>> THEN f
  ELSE [i \in 1 .. Most(Len(f), pos + Len(bytes)) |->
          IF i > pos /\ i <= pos + Len(bytes) THEN bytes[i - pos]
          ELSE IF i <= Len(f) THEN f[i] ELSE Hole]

Active(s) == xfer[s].state \in {"pull", "push"}
OpenOn(i) == {s \in Sessions : Active(s) /\ xfer[s].inode = i}

Init ==
  /\ names \in [Dirs -> {0} \cup Inodes] /\ \A d \in Dirs : names[d] \in {0, d}
  /\ content = [i \in Inodes |-> IF i \in Dirs THEN Original(i) ELSE <<>>]
  /\ cwd = CHOOSE d \in Dirs : TRUE
  /\ xfer = [s \in Sessions |-> Idle]
  /\ arrived = [s \in Sessions |-> 0]
  /\ got = [s \in Sessions |-> <<>>]
  /\ others = 0
  /\ slice = [s \in Sessions |-> <<>>]
  /\ disturbed = [s \in Sessions |-> FALSE]
  /\ cut = [s \in Sessions |-> FALSE]
  /\ short = [s \in Sessions |-> FALSE]
  /\ failed = [s \in Sessions |-> FALSE]

\* Two calls of BufferedSocket::write(), each of which sends a prefix.
Send(s, m, n) ==
  \E i \in 0 .. Len(m), j \in 0 .. Len(n) :
    /\ got' = [got EXCEPT ![s] = @ \o SubSeq(m, 1, i) \o SubSeq(n, 1, j)]
    /\ cut' = [cut EXCEPT ![s] = @ \/ i + j < Len(m) + Len(n)]

Disturb(T) == disturbed' = [s \in Sessions |-> disturbed[s] \/ s \in T]

\* A data handler that has closed itself is deleted in the same event, and the
\* prompt follows what it has written.
Finish(s, x) ==
  xfer' = [xfer EXCEPT ![s] = [x EXCEPT !.state = "done", !.dir = 0, !.relative = FALSE,
                                        !.inode = 0, !.pos = 0]]
-----------------------------------------------------------------------------
(***************************************************************************)
(* pull and cat.                                                           *)
(***************************************************************************)
\* The size and offset the constructor settles on for a file of n bytes.
Ranged(x, n) ==
  IF n <= x.start THEN [x EXCEPT !.size = 0, !.pos = 0]
  ELSE [x EXCEPT !.size = IF x.want = 0 THEN n - x.start ELSE x.want, !.pos = x.start]

Opened(kind, d, start, want) ==
  LET i == names[d]
      x == [Idle EXCEPT !.state = "pull", !.kind = kind, !.dir = d,
                        !.inode = i, !.start = start, !.want = want,
                        !.total = Len(content[i])]
  IN  Ranged(x, Len(content[i]))

\* The part of a file that was asked for.
Asked(f, start, want) ==
  ReadAt(f, start, IF want = 0 THEN Len(f) ELSE want)

\* pull announces its size, and is finished at once if that is 0; cat has no
\* header and waits for its first event.
OpenPull(s, kind, start, want) ==
  /\ xfer[s].state = "idle"
  /\ \E d \in Dirs :
       /\ names[d] # 0
       /\ LET x == Opened(kind, d, start, want)
          IN  /\ slice' = [slice EXCEPT ![s] = Asked(content[x.inode], start, want)]
              /\ IF kind = "cat"
                   THEN xfer' = [xfer EXCEPT ![s] = x] /\ UNCHANGED <<got, cut>>
                   ELSE IF x.size = 0
                     THEN Finish(s, x) /\ Send(s, <<Header(0)>>, <<Prompt>>)
                     ELSE /\ xfer' = [xfer EXCEPT ![s] = x]
                          /\ Send(s, <<Header(x.size)>>, <<>>)
  /\ UNCHANGED <<disk, cwd, arrived, others, disturbed, short, failed>>

\* A file that is missing, not readable, or cannot be opened for writing.
FailOpen(s) ==
  /\ xfer[s].state = "idle"
  /\ Finish(s, [Idle EXCEPT !.kind = "failed"])
  /\ Send(s, <<Error>>, <<Prompt>>)
  /\ UNCHANGED <<disk, cwd, arrived, others, slice, disturbed, short, failed>>

\* Faulty variants: a whole block whatever is left; the end of the file does
\* not end the transfer.
BlockOfWhole(x) == ReadAt(content[x.inode], x.pos, BlockSize)

\* What PR_Read() returns for the next block.
Block(x) == ReadAt(content[x.inode], x.pos, Least(x.size - x.moved, BlockSize))

ReadNextIgnoringEnd(s) ==
  /\ LET b == Block(xfer[s])
         x == [xfer[s] EXCEPT !.moved = @ + Len(b), !.pos = @ + Len(b)]
     IN  IF x.moved = x.size
           THEN Finish(s, x) /\ Send(s, Bytes(b), <<Prompt>>)
           ELSE xfer' = [xfer EXCEPT ![s] = x] /\ Send(s, Bytes(b), <<>>)
  /\ failed' = failed

\* The next block is sent; the end of the file closes the handler, and so does
\* the last byte announced.
ReadNext(s) ==
  /\ LET b == Block(xfer[s])
         x == [xfer[s] EXCEPT !.moved = @ + Len(b), !.pos = @ + Len(b)]
     IN  IF b = <<>> \/ x.moved = x.size
           THEN Finish(s, x) /\ Send(s, Bytes(b), <<Prompt>>)
           ELSE xfer' = [xfer EXCEPT ![s] = x] /\ Send(s, Bytes(b), <<>>)
  /\ failed' = failed

\* PR_Read() fails, as it does at once for a directory, which can be opened and
\* has a size: the handler is closed, and the client is told nothing but the
\* prompt.
ReadFails(s) ==
  /\ Finish(s, xfer[s]) /\ Send(s, <<>>, <<Prompt>>)
  /\ failed' = [failed EXCEPT ![s] = TRUE]

\* handleEvent() on PR_POLL_WRITE.
PullEvent(s) ==
  /\ xfer[s].state = "pull"
  /\ ReadNext(s) \/ ReadFails(s)
  /\ UNCHANGED <<disk, cwd, arrived, others, slice, disturbed, short>>
-----------------------------------------------------------------------------
(***************************************************************************)
(* push.                                                                   *)
(***************************************************************************)
Free == {i \in Inodes : OpenOn(i) = {} /\ \A d \in Dirs : names[d] # i}

\* Where a name may be: relative names are looked up in the working directory.
Places == {<<d, FALSE>> : d \in Dirs} \cup {<<cwd, TRUE>>}

\* PR_Open() with PR_CREATE_FILE: the file of that name, or a new one.
Created(d) == IF names[d] # 0 THEN {names[d]} ELSE {i \in Free : \A j \in Free : i <= j}

Pushing(d, rel, i, n) ==
  [Idle EXCEPT !.state = "push", !.kind = "push", !.dir = d, !.relative = rel,
               !.inode = i, !.size = n]

OpenPush(s, n) ==
  /\ xfer[s].state = "idle"
  /\ \E p \in Places : \E i \in Created(p[1]) :
       /\ names' = [names EXCEPT ![p[1]] = i]
       /\ content' = [content EXCEPT ![i] = <<>>]
       /\ xfer' = [xfer EXCEPT ![s] = Pushing(p[1], p[2], i, n)]
       /\ Disturb(OpenOn(i))
  /\ UNCHANGED <<cwd, arrived, got, others, slice, cut, short, failed>>

Arrive(s) ==
  /\ xfer[s].state = "push" /\ arrived[s] < xfer[s].size
  /\ arrived' = [arrived EXCEPT ![s] = @ + 1]
  /\ UNCHANGED <<disk, cwd, xfer, got, others, history>>

\* Faulty variant: the hash of what has been received.
HashReceived(x, c) == SubSeq(Payload(CHOOSE s \in Sessions : xfer[s] = x, x.size), 1, x.size)

\* fileHash(mPath): a relative path is looked up again.
FileHash(x, c) ==
  LET d == IF x.relative THEN cwd ELSE x.dir
  IN  IF names[d] = 0 THEN Nothing ELSE c[names[d]]

\* What read() returns until there is no more.
Taken(s) == Least(arrived[s], xfer[s].size) - xfer[s].moved

\* handleEvent() on PR_POLL_READ: all that has arrived is written, as far as
\* PR_Write() goes, and counts as written.
PushEvent(s) ==
  /\ xfer[s].state = "push"
  /\ LET x == xfer[s]
         n == Taken(s)
         new == SubSeq(Payload(s, x.size), x.moved + 1, x.moved + n)
     IN  /\ n > 0 \/ x.size = 0
         /\ \E k \in 0 .. n :
              LET y == [x EXCEPT !.moved = @ + n, !.pos = @ + k]
              IN  /\ content' = [content EXCEPT ![x.inode] =
                                   WriteAt(@, x.pos, SubSeq(new, 1, k))]
                  /\ short' = [short EXCEPT ![s] = @ \/ k < n]
                  /\ Disturb(IF k = 0 THEN {} ELSE OpenOn(x.inode) \ {s})
                  /\ IF y.moved = y.size
                       THEN /\ Finish(s, y)
                            /\ Send(s, <<Hash(FileHash(x, content'))>>, <<Prompt>>)
                       ELSE xfer' = [xfer EXCEPT ![s] = y] /\ UNCHANGED <<got, cut>>
  /\ UNCHANGED <<names, cwd, arrived, others, slice, failed>>
-----------------------------------------------------------------------------
(***************************************************************************)
(* cd and rm of a session that has no transfer going on.                   *)
(***************************************************************************)
Pushers == {s \in Sessions : xfer[s].state = "push"}

Cd(d) ==
  /\ others < MaxOthers /\ \E s \in Sessions : ~Active(s)
  /\ cwd' = d
  /\ others' = others + 1
  /\ Disturb({s \in Pushers : xfer[s].relative /\ cwd # d})
  /\ UNCHANGED <<disk, xfer, arrived, got, slice, cut, short, failed>>

\* PR_Delete(): handlers that have the file open keep it.
Rm(d) ==
  /\ others < MaxOthers /\ \E s \in Sessions : ~Active(s)
  /\ names[d] # 0
  /\ names' = [names EXCEPT ![d] = 0]
  /\ others' = others + 1
  /\ Disturb({s \in Pushers : xfer[s].dir = d})
  /\ UNCHANGED <<content, cwd, xfer, arrived, got, slice, cut, short, failed>>

Next ==
  \/ \E s \in Sessions :
       \/ \E r \in Ranges : OpenPull(s, "pull", r[1], r[2])
       \/ OpenPull(s, "cat", 0, 0)
       \/ FailOpen(s)
       \/ PullEvent(s)
       \/ \E n \in PushSizes : OpenPush(s, n)
       \/ Arrive(s) \/ PushEvent(s)
  \/ \E d \in Dirs : Cd(d) \/ Rm(d)

\* A client that pulls goes on reading, so its socket becomes writable.  Only a
\* read that succeeds is owed: one that fails ends the pull, but need not come.
Fairness == \A s \in Sessions : WF_vars(PullEvent(s) /\ ReadNext(s))

Spec == Init /\ [][Next]_vars
FairSpec == Spec /\ Fairness
-----------------------------------------------------------------------------
Done(s) == xfer[s].state = "done"
Pulled(s) == xfer[s].kind \in {"pull", "cat"}
BytesIn(w) == {i \in 1 .. Len(w) : w[i][1] = "byte"}
Received(s) == Cardinality(BytesIn(got[s]))

\* A pull that nobody disturbs delivers the size, then bytes of the slice that
\* was asked for, from its first and in their order, and the prompt -- although
\* other sessions change the working directory and remove the name meanwhile.
\* They are all of its bytes, unless a read fails.  The size is that of the slice,
\* unless more was asked for than the file had.
PullExact ==
  \A s \in Sessions :
    Done(s) /\ Pulled(s) /\ ~disturbed[s] /\ ~cut[s] =>
      LET x == xfer[s]
          body == Bytes(SubSeq(slice[s], 1, x.moved)) \o <<Prompt>>
      IN  /\ x.moved <= Len(slice[s])
          /\ got[s] = IF x.kind = "cat" THEN body ELSE <<Header(x.size)>> \o body
          /\ ~failed[s] => x.moved = Len(slice[s])
          /\ x.kind = "pull" /\ x.start + x.want <= x.total => x.size = Len(slice[s])

\* A client never receives more of the file than was announced, although the
\* file may grow while it is pulled: it takes what follows for the prompt.
AtMostAnnounced == \A s \in Sessions : Pulled(s) => Received(s) <= xfer[s].size

\* What a client that pulls can count on, disturbed or not.
PullDelivers == PullExact /\ AtMostAnnounced

\* A push that nobody disturbs is answered with the hash of its payload if all
\* of it was written, and with another hash if not: the result of PR_Write() is
\* ignored, and the hash is all that tells.
PushHashTells ==
  \A s \in Sessions :
    Done(s) /\ xfer[s].kind = "push" /\ ~disturbed[s] /\ ~cut[s] =>
      /\ Len(got[s]) = 2 /\ got[s][1][1] = "hash" /\ got[s][2] = Prompt
      /\ got[s][1][2] = Payload(s, xfer[s].size) <=> ~short[s]

\* Every pull ends, whatever happens to the file meanwhile: with the announced
\* bytes, the end of the file or an error, whichever comes first.
PullEnds == \A s \in Sessions : xfer[s].state = "pull" ~> Done(s)
=============================================================================
