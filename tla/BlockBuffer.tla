---------------------------- MODULE BlockBuffer ----------------------------
(***************************************************************************)
(* The receive buffer of a BufferedSocket (src/src/Buffer.cpp): a vector   *)
(* of blocks of one size, a pointer to the next byte to get and one to the *)
(* next byte to put.  put() and get() are loops that copy as much as one   *)
(* block allows; a round of a loop is a step here.  A block is born        *)
(* uninitialised, and a block is allocated as soon as the last one is      *)
(* full.                                                                   *)
(*                                                                         *)
(* allocBlock(), shrink(), advancePutPtr() and the other getline() have no *)
(* caller in the agent, so every block has the same size.                  *)
(***************************************************************************)
EXTENDS Integers, Sequences

CONSTANTS
  Bytes,      \* the bytes that arrive
  Newline,    \* one of them
  Junk,       \* what an uninitialised byte of a block holds
  Inputs,     \* the byte sequences given to put()
  BlockSize,  \* mDefaultBlockSize
  MaxSize     \* bound: bytes in the buffer

ASSUME BufferAssumption ==
  /\ BlockSize \in Nat \ {0} /\ MaxSize \in Nat
  /\ Newline \in Bytes /\ Junk \notin Bytes
  /\ Inputs \subseteq Seq(Bytes)

VARIABLES
  blocks,  \* mBlocks
  getPtr,  \* mGetPtr
  putPtr,  \* mPutPtr
  pc,      \* "idle", or the loop being executed
  input,   \* put(): the bytes still to write
  call,    \* the last of get() and getline() called, if any
  want,    \* get(): the bytes still to take
  out      \* get(): the bytes taken

vars == <<blocks, getPtr, putPtr, pc, input, call, want, out>>

Ptr(b, e) == [block |-> b, elem |-> e]
FreshBlock == [i \in 0 .. BlockSize - 1 |-> Junk]
Least(m, n) == IF m < n THEN m ELSE n

\* The bytes of the buffer by their distance from the start of the first block.
Cell(k) == blocks[1 + k \div BlockSize][k % BlockSize]
Position(p) == p.block * BlockSize + p.elem

\* Faulty variant: the last block does not count.
AvailInFullBlocks == putPtr.block * BlockSize - Position(getPtr)

\* avail(): the lengths of the blocks from getPtr to putPtr, the first without
\* its start and the last without its end.
Avail == Position(putPtr) - Position(getPtr)

NewlinesAt == {k \in Position(getPtr) .. Position(putPtr) - 1 : Cell(k) = Newline}

\* Faulty variant: the newline is not part of the line.
FindWithoutNewline ==
  IF NewlinesAt = {} THEN -1
  ELSE (CHOOSE k \in NewlinesAt : \A j \in NewlinesAt : k <= j) - Position(getPtr)

\* find('\n'): the length of the first line, newline included, or -1.
Find ==
  IF NewlinesAt = {} THEN -1
  ELSE 1 - Position(getPtr) + CHOOSE k \in NewlinesAt : \A j \in NewlinesAt : k <= j
-----------------------------------------------------------------------------
(***************************************************************************)
(* The loops of avail() and find() as they are written, block by block.    *)
(***************************************************************************)
\* The part of a block that holds bytes of the buffer.
Begin(b) == IF b = getPtr.block THEN getPtr.elem ELSE 0
End(b) == IF b = putPtr.block THEN putPtr.elem ELSE BlockSize

AvailLoop ==
  LET avail[b \in getPtr.block .. putPtr.block + 1] ==
        IF b > putPtr.block THEN 0 ELSE End(b) - Begin(b) + avail[b + 1]
  IN  avail[getPtr.block]

\* Block::find()
FindInBlock(b) ==
  LET at == {i \in Begin(b) .. End(b) - 1 : blocks[b + 1][i] = Newline}
  IN  IF at = {} THEN -1 ELSE CHOOSE i \in at : \A j \in at : i <= j

\* From a block on, with the bytes counted so far.
FindLoop ==
  LET find[b \in getPtr.block .. Len(blocks)] ==
        [len \in Nat |->
           IF b = Len(blocks) THEN -1
           ELSE IF FindInBlock(b) = -1 THEN find[b + 1][len + End(b) - Begin(b)]
           ELSE len + FindInBlock(b) - Begin(b) + 1]
  IN  find[getPtr.block][0]
-----------------------------------------------------------------------------
Init ==
  /\ blocks = <<FreshBlock>>
  /\ getPtr = Ptr(0, 0) /\ putPtr = Ptr(0, 0)
  /\ pc = "idle"
  /\ input = <<>> /\ call = "none" /\ want = 0 /\ out = <<>>

Put ==
  /\ pc = "idle"
  /\ \E s \in Inputs : Avail + Len(s) <= MaxSize /\ input' = s
  /\ pc' = "put"
  /\ UNCHANGED <<blocks, getPtr, putPtr, call, want, out>>

\* updateBufferEnd(): where putPtr goes from position e of its block.
AfterPut(e) == IF e = BlockSize THEN Ptr(Len(blocks), 0) ELSE Ptr(putPtr.block, e)

\* One round of put(): part of the input goes to the block of putPtr; if that
\* fills it, updateBufferEnd() appends a block.
PutChunk ==
  /\ pc = "put" /\ input # <<>>
  /\ LET b == putPtr.block + 1
         n == Least(BlockSize - putPtr.elem, Len(input))
         written == [i \in 0 .. BlockSize - 1 |->
                       IF i \in putPtr.elem .. putPtr.elem + n - 1
                         THEN input[1 + i - putPtr.elem] ELSE blocks[b][i]]
         filled == [blocks EXCEPT ![b] = written]
     IN  /\ input' = SubSeq(input, n + 1, Len(input))
         /\ blocks' = IF putPtr.elem + n = BlockSize THEN Append(filled, FreshBlock) ELSE filled
         /\ putPtr' = AfterPut(putPtr.elem + n)
  /\ UNCHANGED <<getPtr, pc, call, want, out>>

EndPut ==
  /\ pc = "put" /\ input = <<>>
  /\ pc' = "idle"
  /\ UNCHANGED <<blocks, getPtr, putPtr, input, call, want, out>>

StartGet(c, n) ==
  /\ pc = "idle"
  /\ pc' = "get"
  /\ call' = c /\ want' = n /\ out' = <<>>
  /\ UNCHANGED <<blocks, getPtr, putPtr, input>>

\* BufferedSocket::read() never asks for more than avail().
Get == \E n \in 0 .. Avail : StartGet("get", n)

GetLine == StartGet("getline", IF Find = -1 THEN 0 ELSE Find)

\* Faulty variant: putPtr still counts the deleted block.
ShiftNothing(p) == p

\* updateBufferStart(): the first block is gone.
Shift(p) == Ptr(p.block - 1, p.elem)

\* One round of get(), bounded by the block but not by putPtr; when the block
\* is used up, updateBufferStart() deletes it.
GetChunk ==
  /\ pc = "get" /\ want > 0 /\ getPtr # putPtr
  /\ LET b == blocks[getPtr.block + 1]
         n == Least(want, BlockSize - getPtr.elem)
     IN  /\ out' = out \o [i \in 1 .. n |-> b[getPtr.elem + i - 1]]
         /\ want' = want - n
         /\ IF getPtr.elem + n = BlockSize
              THEN /\ blocks' = Tail(blocks)
                   /\ getPtr' = Ptr(getPtr.block, 0)
                   /\ putPtr' = Shift(putPtr)
              ELSE /\ getPtr' = Ptr(getPtr.block, getPtr.elem + n)
                   /\ UNCHANGED <<blocks, putPtr>>
  /\ UNCHANGED <<pc, input, call>>

EndGet ==
  /\ pc = "get" /\ (want = 0 \/ getPtr = putPtr)
  /\ pc' = "idle" /\ want' = 0
  /\ UNCHANGED <<blocks, getPtr, putPtr, input, call, out>>

Next == Put \/ PutChunk \/ EndPut \/ Get \/ GetLine \/ GetChunk \/ EndGet

Spec == Init /\ [][Next]_vars
-----------------------------------------------------------------------------
Block == [0 .. BlockSize - 1 -> Bytes \cup {Junk}]
BlockPtr == [block : Nat, elem : 0 .. BlockSize - 1]

TypeOK ==
  /\ blocks \in Seq(Block)
  /\ getPtr \in BlockPtr /\ putPtr \in BlockPtr
  /\ pc \in {"idle", "put", "get"}
  /\ call \in {"none", "get", "getline"}
  /\ input \in Seq(Bytes) /\ want \in Nat /\ out \in Seq(Bytes \cup {Junk})

\* The two pointers stay inside the blocks, in order, and a get() under way
\* wants no more than there is: no round indexes a block that does not exist,
\* no decrement of putPtr.block wraps, and the loop of get() ends because it
\* has all it wants.
PointersSafe ==
  /\ putPtr.block = Len(blocks) - 1
  /\ getPtr.block = 0
  /\ putPtr.block = 0 => getPtr.elem <= putPtr.elem
  /\ want <= Avail

\* avail() and find() count across block boundaries what lies between the two
\* pointers, and nothing of what an uninitialised or used-up part of a block
\* holds.
LoopsAgree == pc = "idle" => Avail = AvailLoop /\ Find = FindLoop

\* The bytes between the pointers.
Contents == [i \in 1 .. Avail |-> Cell(Position(getPtr) + i - 1)]

\* The buffer implements the queue.  A call takes effect when it starts: what
\* put() has still to write already counts as queued, and what get() has still
\* to copy as returned.
Queue == INSTANCE ByteQueue WITH
  queue <- SubSeq(Contents, want + 1, Avail) \o input,
  result <- out \o SubSeq(Contents, 1, want)

\* However the bytes fall into blocks and whatever the blocks held before, get()
\* and getline() return the bytes that were put, in order, each once.
ImplementsQueue == Queue!Spec
=============================================================================
