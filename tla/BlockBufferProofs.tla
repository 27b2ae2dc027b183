------------------------- MODULE BlockBufferProofs -------------------------
(***************************************************************************)
(* For every block size and every input: the pointers of BlockBuffer are   *)
(* safe, the blocks and pointers implement the queue of ByteQueue, and the *)
(* loops of avail() and find() count what lies between the pointers.       *)
(***************************************************************************)
EXTENDS BlockBuffer, SequenceTheorems, WellFoundedInduction, TLAPS

\* A set of numbers that is not empty has a least element.
LEMMA SmallestOf ==
  ASSUME NEW S \in SUBSET Nat, S # {}
  PROVE  \E k \in S : \A j \in S : k <= j
<1> DEFINE R == OpToRel(<, Nat)
<1>1. IsWellFoundedOn(R, Nat)
  BY NatLessThanWellFounded
<1>2. \A x, y \in Nat : <<x, y>> \in R <=> x < y
  BY DEF OpToRel
<1> HIDE DEF R
<1>3. PICK k \in S : \A j \in S : ~ (<<j, k>> \in R)
  BY <1>1, WFMin
<1>4. \A j \in S : k <= j
  <2> TAKE j \in S
  <2>1. j \in Nat /\ k \in Nat
    OBVIOUS
  <2>2. ~ (j < k)
    BY <1>2, <1>3, <2>1
  <2> QED
    BY <2>1, <2>2
<1> QED
  BY <1>4

\* The bytes between two pointers in order, the first in the first block.
LEMMA Distance ==
  ASSUME NEW g \in BlockPtr, NEW p \in BlockPtr, g.block = 0,
         p.block = 0 => g.elem <= p.elem
  PROVE  /\ Position(p) - Position(g) = p.block * BlockSize + p.elem - g.elem
         /\ Position(p) - Position(g) \in Nat
<1>1. p.block \in Nat /\ p.elem \in 0 .. BlockSize - 1 /\ g.elem \in 0 .. BlockSize - 1
  BY DEF BlockPtr
<1>2. BlockSize \in Nat /\ BlockSize >= 1
  BY BufferAssumption
<1>3. PICK m \in Nat : m = p.block * BlockSize
  BY <1>1, <1>2
<1>4. Position(g) = g.elem /\ Position(p) = m + p.elem
  BY <1>1, <1>2, <1>3 DEF Position
<1>5. p.block > 0 => m >= BlockSize
  BY <1>1, <1>2, <1>3
<1>6. p.block = 0 => g.elem <= p.elem
  OBVIOUS
<1>7. m + p.elem - g.elem \in Nat
  <2>1. CASE p.block = 0
    BY <1>1, <1>2, <1>6, <2>1
  <2>2. CASE p.block > 0
    BY <1>1, <1>2, <1>5, <2>2
  <2> QED
    BY <1>1, <2>1, <2>2
<1> QED
  BY <1>1, <1>3, <1>4, <1>7

\* avail() in terms of the two pointers, the first in the first block.
LEMMA AvailIs ==
  ASSUME TypeOK, PointersSafe
  PROVE  /\ Avail = putPtr.block * BlockSize + putPtr.elem - getPtr.elem
         /\ Avail \in Nat
BY Distance DEF TypeOK, PointersSafe, Avail

\* getline() asks get() for no more than there is.
LEMMA FindIsAvailable ==
  ASSUME TypeOK, PointersSafe, Find # -1
  PROVE  Find \in 1 .. Avail
<1> DEFINE IsFirst(k) == k \in NewlinesAt /\ \A j \in NewlinesAt : k <= j
<1>1. Position(getPtr) \in Nat /\ Position(putPtr) \in Nat
  <2> SUFFICES ASSUME NEW p \in BlockPtr PROVE Position(p) \in Nat
    BY DEF TypeOK
  <2>1. p.block \in Nat /\ p.elem \in Nat /\ BlockSize \in Nat
    BY BufferAssumption DEF BlockPtr
  <2>2. p.block * BlockSize \in Nat
    BY <2>1
  <2> QED
    BY <2>1, <2>2 DEF Position
<1>2. NewlinesAt # {} /\ NewlinesAt \in SUBSET Nat
  BY <1>1 DEF Find, NewlinesAt
<1>3. PICK k : IsFirst(k)
  BY <1>2, SmallestOf
<1>4. IsFirst(CHOOSE i : IsFirst(i))
  BY <1>3
<1>5. PICK f \in NewlinesAt : Find = 1 - Position(getPtr) + f
  BY <1>2, <1>4 DEF Find
<1>6. f \in Position(getPtr) .. Position(putPtr) - 1
  BY <1>5 DEF NewlinesAt
<1> QED
  BY <1>1, <1>5, <1>6 DEF Avail
-----------------------------------------------------------------------------
IInv == TypeOK /\ PointersSafe /\ (pc = "put" => want = 0) /\ (pc = "idle" => want = 0)

\* The one block of the constructor.
LEMMA SafeInit == Init => IInv
<1> SUFFICES ASSUME Init PROVE IInv
  OBVIOUS
<1>1. FreshBlock \in Block /\ Len(blocks) = 1 /\ blocks \in Seq(Block)
  BY BufferAssumption DEF Init, FreshBlock, Block
<1>2. TypeOK
  BY <1>1, BufferAssumption DEF Init, TypeOK, BlockPtr, Ptr
<1>3. PointersSafe
  BY <1>1, BufferAssumption DEF Init, PointersSafe, Ptr, Avail, Position
<1> QED
  BY <1>2, <1>3 DEF Init, IInv

\* A step that leaves the blocks and the pointers alone.
LEMMA PointersUnchanged ==
  ASSUME PointersSafe, blocks' = blocks, getPtr' = getPtr, putPtr' = putPtr, want' <= Avail
  PROVE  PointersSafe'
BY DEF PointersSafe, Avail

\* A call of put() moves nothing yet.
LEMMA PutKeepsSafe == IInv /\ Put => IInv'
<1> SUFFICES ASSUME IInv, Put PROVE IInv'
  OBVIOUS
<1>1. input' \in Seq(Bytes)
  BY BufferAssumption DEF Put
<1> QED
  <2>1. TypeOK'
    BY <1>1 DEF Put, IInv, TypeOK
  <2>2. PointersSafe'
    BY PointersUnchanged DEF Put, IInv, PointersSafe
  <2> QED
    BY <2>1, <2>2 DEF IInv, Put

\* What a round of put() writes: so many bytes of the input into one block.
Chunk == Least(BlockSize - putPtr.elem, Len(input))
Written ==
  [i \in 0 .. BlockSize - 1 |->
     IF i \in putPtr.elem .. putPtr.elem + Chunk - 1
       THEN input[1 + i - putPtr.elem] ELSE blocks[putPtr.block + 1][i]]

\* At least one byte, no more than there is room for, and it leaves a block.
LEMMA PutWritesBlock ==
  ASSUME IInv, PutChunk
  PROVE  /\ Chunk \in 1 .. Len(input) /\ putPtr.elem + Chunk \in 1 .. BlockSize
         /\ Written \in Block
<1> DEFINE b == putPtr.block + 1
           n == Chunk
<1>1. /\ BlockSize \in Nat \ {0} /\ putPtr.elem \in 0 .. BlockSize - 1 /\ putPtr.block \in Nat
      /\ input \in Seq(Bytes) /\ blocks \in Seq(Block) /\ Len(input) \in Nat \ {0}
      /\ b \in 1 .. Len(blocks) /\ blocks[b] \in Block
  BY BufferAssumption DEF PutChunk, IInv, TypeOK, PointersSafe, BlockPtr
<1>2. n \in 1 .. Len(input) /\ putPtr.elem + n \in 1 .. BlockSize
  BY <1>1 DEF Least, Chunk
<1>3. \A i \in 0 .. BlockSize - 1 : Written[i] \in Bytes \cup {Junk}
  <2> TAKE i \in 0 .. BlockSize - 1
  <2>1. CASE i \in putPtr.elem .. putPtr.elem + n - 1
    <3> DEFINE l == Len(input)
    <3>0. n \in Nat /\ l \in Nat /\ n <= l /\ putPtr.elem \in Nat
      BY <1>1, <1>2
    <3> HIDE DEF n, l
    <3>1. 1 + i - putPtr.elem \in 1 .. l
      BY <2>1, <3>0
    <3> USE DEF l, n
    <3>2. input[1 + i - putPtr.elem] \in Bytes
      BY <1>1, <3>1
    <3> QED
      BY <2>1, <3>2 DEF Written
  <2>2. CASE i \notin putPtr.elem .. putPtr.elem + n - 1
    BY <1>1, <2>2 DEF Block, Written
  <2> QED
    BY <2>1, <2>2
<1> QED
  BY <1>2, <1>3 DEF Block, Written

\* put() fills the block of putPtr, and appends a block when it is full.
LEMMA PutChunkKeepsSafe == IInv /\ PutChunk => IInv'
<1> SUFFICES ASSUME IInv, PutChunk PROVE IInv'
  OBVIOUS
<1> DEFINE b == putPtr.block + 1
           n == Chunk
           filled == [blocks EXCEPT ![b] = Written]
<1>1. /\ BlockSize \in Nat \ {0} /\ putPtr.elem \in 0 .. BlockSize - 1 /\ putPtr.block \in Nat
      /\ input \in Seq(Bytes) /\ blocks \in Seq(Block) /\ Len(input) \in Nat \ {0}
      /\ b \in 1 .. Len(blocks) /\ blocks[b] \in Block
  BY BufferAssumption DEF PutChunk, IInv, TypeOK, PointersSafe, BlockPtr
<1>2. n \in 1 .. Len(input) /\ putPtr.elem + n \in 1 .. BlockSize
  BY PutWritesBlock
<1>3. Written \in Block
  BY PutWritesBlock
<1>4. filled \in Seq(Block) /\ Len(filled) = Len(blocks)
  BY <1>1, <1>3
<1>5. FreshBlock \in Block
  BY DEF FreshBlock, Block
<1>6. Len(blocks) = putPtr.block + 1 /\ getPtr.block = 0 /\ want = 0
      /\ getPtr.elem \in 0 .. BlockSize - 1 /\ pc' = "put" /\ want' = 0 /\ getPtr' = getPtr /\ out' = out
      /\ (putPtr.block = 0 => getPtr.elem <= putPtr.elem)
  BY DEF PutChunk, IInv, TypeOK, PointersSafe, BlockPtr
<1>7. /\ blocks' \in Seq(Block) /\ Len(blocks') = putPtr'.block + 1
      /\ putPtr'.block \in Nat /\ putPtr' \in BlockPtr
      /\ putPtr'.block = 0 => putPtr.block = 0 /\ putPtr'.elem = putPtr.elem + n
  <2>1. CASE putPtr.elem + n = BlockSize
    <3>1. blocks' = Append(filled, FreshBlock) /\ putPtr' = Ptr(Len(blocks), 0)
      BY <2>1 DEF PutChunk, AfterPut, Chunk, Written
    <3> HIDE DEF filled
    <3>2. blocks' \in Seq(Block) /\ Len(blocks') = Len(blocks) + 1
      BY <1>4, <1>5, <3>1
    <3>3. Ptr(Len(blocks), 0) \in BlockPtr
      BY <1>1, <1>6 DEF Ptr, BlockPtr
    <3> QED
      BY <1>1, <1>6, <3>1, <3>2, <3>3 DEF Ptr
  <2>2. CASE putPtr.elem + n # BlockSize
    <3>1. blocks' = filled /\ putPtr' = Ptr(putPtr.block, putPtr.elem + n)
      BY <2>2 DEF PutChunk, AfterPut, Chunk, Written
    <3>2. Ptr(putPtr.block, putPtr.elem + n) \in BlockPtr
      BY <1>1, <1>2, <2>2 DEF Ptr, BlockPtr
    <3> QED
      BY <1>1, <1>4, <1>6, <3>1, <3>2 DEF Ptr
  <2> QED
    BY <2>1, <2>2
<1>8. input' \in Seq(Bytes)
  <2>1. input' = SubSeq(input, n + 1, Len(input))
    BY DEF PutChunk, Chunk
  <2> HIDE DEF n
  <2>2. n \in Nat /\ n <= Len(input)
    BY <1>1, <1>2
  <2> QED
    BY <1>1, <2>1, <2>2
<1>9. TypeOK'
  <2>1. call' = call /\ getPtr' = getPtr /\ out' = out
    BY DEF PutChunk
  <2> QED
    BY <1>6, <1>7, <1>8, <2>1 DEF IInv, TypeOK
<1>10. PointersSafe'
  <2>1. /\ putPtr'.block = Len(blocks') - 1 /\ getPtr'.block = 0
        /\ putPtr'.block = 0 => getPtr'.elem <= putPtr'.elem
    <3>1. blocks' \in Seq(Block) /\ putPtr'.block \in Nat /\ Len(blocks') \in Nat
      BY <1>7
    <3>2. putPtr'.block = Len(blocks') - 1
      BY <1>7, <3>1
    <3>3. n \in Nat
      BY <1>1, <1>2
    <3> HIDE DEF n
    <3>4. putPtr'.block = 0 => getPtr'.elem <= putPtr'.elem
      BY <1>1, <1>6, <1>7, <3>3
    <3> QED
      BY <1>6, <3>2, <3>4
  <2>2. Avail' \in Nat
    <3>1. getPtr' \in BlockPtr /\ putPtr' \in BlockPtr
      BY <1>9 DEF TypeOK
    <3> QED
      BY <2>1, <3>1, Distance DEF Avail
  <2> QED
    BY <1>6, <2>1, <2>2 DEF PointersSafe
<1> QED
  BY <1>6, <1>9, <1>10 DEF IInv

\* A call of get() or getline() moves nothing yet.
LEMMA StartGetKeepsSafe ==
  ASSUME IInv, NEW c \in {"get", "getline"}, NEW n \in Nat, n <= Avail, StartGet(c, n)
  PROVE  IInv'
<1>1. TypeOK'
  BY DEF StartGet, IInv, TypeOK
<1>2. PointersSafe'
  BY PointersUnchanged DEF StartGet, IInv
<1> QED
  BY <1>1, <1>2 DEF IInv, StartGet

\* get() uses up the first block, and deletes it only when putPtr is past it.
LEMMA GetChunkKeepsSafe == IInv /\ GetChunk => IInv'
<1> SUFFICES ASSUME IInv, GetChunk PROVE IInv'
  OBVIOUS
<1> DEFINE b == blocks[getPtr.block + 1]
           n == Least(want, BlockSize - getPtr.elem)
<1>1. /\ BlockSize \in Nat \ {0} /\ getPtr.elem \in 0 .. BlockSize - 1 /\ getPtr.block = 0
      /\ putPtr.elem \in 0 .. BlockSize - 1 /\ putPtr.block \in Nat /\ Len(blocks) = putPtr.block + 1
      /\ blocks \in Seq(Block) /\ want \in Nat \ {0} /\ out \in Seq(Bytes \cup {Junk})
  BY BufferAssumption DEF GetChunk, IInv, TypeOK, PointersSafe, BlockPtr
<1>2. n \in 1 .. want /\ getPtr.elem + n \in 1 .. BlockSize
  BY <1>1 DEF Least
<1>3. b \in Block
  BY <1>1
<1>4. Avail = putPtr.block * BlockSize + putPtr.elem - getPtr.elem /\ Avail \in Nat /\ want <= Avail
  BY AvailIs DEF IInv, PointersSafe
<1>5. out' \in Seq(Bytes \cup {Junk})
  <2>1. \A i \in 1 .. n : b[getPtr.elem + i - 1] \in Bytes \cup {Junk}
    <3> TAKE i \in 1 .. n
    <3>1. getPtr.elem + i - 1 \in 0 .. BlockSize - 1
      BY <1>1, <1>2
    <3> QED
      BY <1>3, <3>1 DEF Block
  <2>2. [i \in 1 .. n |-> b[getPtr.elem + i - 1]] \in Seq(Bytes \cup {Junk})
    <3>1. n \in Nat
      BY <1>1, <1>2
    <3> QED
      BY <2>1, <3>1
  <2> QED
    BY <1>1, <2>2 DEF GetChunk
<1>6. n \in Nat /\ want \in Nat /\ n <= want /\ want' = want - n
  BY <1>1, <1>2 DEF GetChunk
<1>7. want' \in Nat
  BY <1>6
<1>8. PICK m \in Nat : m = putPtr.block * BlockSize
  BY <1>1
<1>9. want <= m + putPtr.elem - getPtr.elem
  BY <1>4, <1>8
<1>10. CASE getPtr.elem + n = BlockSize
  <2>1. blocks' = Tail(blocks) /\ getPtr' = Ptr(getPtr.block, 0) /\ putPtr' = Shift(putPtr)
    BY <1>10 DEF GetChunk
  <2>0. getPtr.elem + n = BlockSize /\ n <= want /\ n \in Nat /\ want \in Nat
    BY <1>6, <1>10
  <2> HIDE DEF n
  <2>2. putPtr.block > 0
    <3>1. putPtr.block = 0 => m = 0
      BY <1>1, <1>8
    <3> QED
      BY <1>1, <1>9, <2>0, <3>1
  <2>3. blocks' \in Seq(Block) /\ Len(blocks') = Len(blocks) - 1
    BY <1>1, <2>1
  <2>4. TypeOK'
    BY <1>1, <1>5, <1>7, <2>1, <2>2, <2>3 DEF GetChunk, IInv, TypeOK, BlockPtr, Ptr, Shift
  <2>5. Avail' = (putPtr.block - 1) * BlockSize + putPtr.elem
    BY <1>1, <2>1, <2>2 DEF Avail, Position, Ptr, Shift
  <2>6. (putPtr.block - 1) * BlockSize = putPtr.block * BlockSize - BlockSize
        /\ putPtr.block * BlockSize \in Nat
    BY <1>1
  <2>7. want' <= Avail'
    <3>1. Avail' = m - BlockSize + putPtr.elem
      BY <1>1, <1>8, <2>5, <2>6
    <3>2. want' = want - n
      BY <1>6
    <3>3. want - n <= m - BlockSize + putPtr.elem
      BY <1>1, <1>9, <2>0
    <3> QED
      BY <3>1, <3>2, <3>3
  <2>8. PointersSafe'
    BY <1>1, <2>1, <2>2, <2>3, <2>7 DEF PointersSafe, Ptr, Shift
  <2> QED
    BY <2>4, <2>8 DEF IInv, GetChunk
<1>11. CASE getPtr.elem + n # BlockSize
  <2>1. blocks' = blocks /\ getPtr' = Ptr(0, getPtr.elem + n) /\ putPtr' = putPtr
    BY <1>1, <1>11 DEF GetChunk
  <2>2. TypeOK'
    BY <1>1, <1>2, <1>5, <1>11, <1>7, <2>1 DEF GetChunk, IInv, TypeOK, BlockPtr, Ptr
  <2>3. putPtr.block * BlockSize \in Nat
    BY <1>1
  <2>4. Avail' = putPtr.block * BlockSize + putPtr.elem - (getPtr.elem + n)
    BY <1>1, <1>2, <2>1, <2>3 DEF Avail, Position, Ptr
  <2> HIDE DEF n
  <2>5. want' <= Avail' /\ Avail' \in Nat
    <3>1. Avail' = m + putPtr.elem - (getPtr.elem + n)
      BY <1>8, <2>4
    <3>2. want' = want - n /\ n \in Nat /\ want \in Nat /\ n <= want
      BY <1>6
    <3>3. want - n <= m + putPtr.elem - (getPtr.elem + n)
      BY <1>1, <1>9, <3>2
    <3>4. m + putPtr.elem - (getPtr.elem + n) \in Nat
      BY <1>1, <1>9, <3>2
    <3> QED
      BY <3>1, <3>2, <3>3, <3>4
  <2>6. putPtr.block = 0 => getPtr.elem + n <= putPtr.elem
    BY <1>1, <1>2, <2>4, <2>5
  <2>7. PointersSafe'
    BY <1>1, <2>1, <2>5, <2>6 DEF PointersSafe, Ptr
  <2> QED
    BY <2>2, <2>7 DEF IInv, GetChunk
<1> QED
  BY <1>10, <1>11

\* Every round of every loop keeps the pointers safe.
LEMMA SafeStep == IInv /\ [Next]_vars => IInv'
<1> SUFFICES ASSUME IInv, [Next]_vars PROVE IInv'
  OBVIOUS
<1>1. CASE Put
  BY <1>1, PutKeepsSafe
<1>2. CASE PutChunk
  BY <1>2, PutChunkKeepsSafe
<1>3. CASE EndPut
  BY <1>3 DEF EndPut, IInv, TypeOK, PointersSafe, Avail, Position
<1>4. CASE Get
  <2>1. PICK n \in 0 .. Avail : StartGet("get", n)
    BY <1>4 DEF Get
  <2>2. Avail \in Nat
    BY AvailIs DEF IInv
  <2> QED
    BY <2>1, <2>2, StartGetKeepsSafe
<1>5. CASE GetLine
  <2>1. Avail \in Nat
    BY AvailIs DEF IInv
  <2>2. CASE Find = -1
    BY <1>5, <2>1, <2>2, StartGetKeepsSafe DEF GetLine
  <2>3. CASE Find # -1
    <3>1. Find \in 1 .. Avail
      BY <2>3, FindIsAvailable DEF IInv
    <3> QED
      BY <1>5, <2>1, <2>3, <3>1, StartGetKeepsSafe DEF GetLine
  <2> QED
    BY <2>2, <2>3
<1>6. CASE GetChunk
  BY <1>6, GetChunkKeepsSafe
<1>7. CASE EndGet
  <2>1. Avail \in Nat
    BY AvailIs DEF IInv
  <2> QED
    BY <1>7, <2>1, PointersUnchanged DEF EndGet, IInv, TypeOK
<1>8. CASE UNCHANGED vars
  BY <1>8 DEF vars, IInv, TypeOK, PointersSafe, Avail, Position
<1> QED
  BY <1>1, <1>2, <1>3, <1>4, <1>5, <1>6, <1>7, <1>8 DEF Next

\* For every block size, no round of put() or get() uses an index outside the
\* blocks or makes putPtr.block wrap below zero, and get() has all it wants
\* when it reaches putPtr.
THEOREM BufferPointersSafe == Spec => []PointersSafe
<1>1. IInv => PointersSafe
  BY DEF IInv
<1> QED
  BY SafeInit, SafeStep, <1>1, PTL DEF Spec

\* Every block keeps its size, and every variable its type.
THEOREM BufferTypeCorrect == Spec => []TypeOK
<1>1. IInv => TypeOK
  BY DEF IInv
<1> QED
  BY SafeInit, SafeStep, <1>1, PTL DEF Spec
-----------------------------------------------------------------------------
(***************************************************************************)
(* The refinement of ByteQueue.  Cell finds a byte by division, so the     *)
(* rounds of put() and get() are followed cell by cell.                    *)
(***************************************************************************)
Values == Bytes \cup {Junk}

\* A sequence in two parts is the concatenation of the parts.
LEMMA TwoParts ==
  ASSUME NEW T, NEW s \in Seq(T), NEW t \in Seq(T), NEW u \in Seq(T),
         Len(u) = Len(s) + Len(t),
         \A i \in 1 .. Len(s) : u[i] = s[i],
         \A j \in 1 .. Len(t) : u[Len(s) + j] = t[j]
  PROVE  u = s \o t
<1>1. /\ s \o t \in Seq(T) /\ Len(s \o t) = Len(s) + Len(t)
      /\ \A i \in 1 .. Len(s) + Len(t) : (s \o t)[i] = IF i <= Len(s) THEN s[i] ELSE t[i - Len(s)]
  BY ConcatProperties
<1>2. \A i \in 1 .. Len(u) : u[i] = (s \o t)[i]
  <2> TAKE i \in 1 .. Len(u)
  <2>1. Len(s) \in Nat /\ Len(t) \in Nat /\ i \in 1 .. Len(s) + Len(t)
    OBVIOUS
  <2>2. CASE i <= Len(s)
    BY <1>1, <2>1, <2>2
  <2>3. CASE i > Len(s)
    <3>1. i - Len(s) \in 1 .. Len(t) /\ Len(s) + (i - Len(s)) = i /\ ~ (i <= Len(s))
      BY <2>1, <2>3
    <3>2. u[i] = t[i - Len(s)]
      BY <3>1
    <3> QED
      BY <1>1, <2>1, <3>1, <3>2
  <2> QED
    BY <2>1, <2>2, <2>3
<1> QED
  BY <1>1, <1>2, SeqEqual

\* Quotient and remainder of a position are its block and its place there.
LEMMA BlockAndElem ==
  ASSUME NEW q \in Nat, NEW r \in 0 .. BlockSize - 1
  PROVE  /\ q * BlockSize + r \in Nat
         /\ (q * BlockSize + r) \div BlockSize = q
         /\ (q * BlockSize + r) % BlockSize = r
<1>1. BlockSize \in Nat \ {0}
  BY BufferAssumption
<1>2. PICK m \in Nat : m = q * BlockSize
  BY <1>1
<1>3. (q * BlockSize + r) \div BlockSize = q /\ (q * BlockSize + r) % BlockSize = r
  BY <1>1, <1>2, SMTT(30)
<1> QED
  BY <1>1, <1>2, <1>3

\* Every position is in some block.
LEMMA Split ==
  ASSUME NEW k \in Nat
  PROVE  \E q \in Nat, r \in 0 .. BlockSize - 1 : k = q * BlockSize + r
<1>1. BlockSize \in Nat \ {0}
  BY BufferAssumption
<1> DEFINE q == k \div BlockSize
           r == k % BlockSize
<1>2. q \in Nat /\ r \in 0 .. BlockSize - 1 /\ k = (q * BlockSize) + r
  BY <1>1
<1> QED
  BY <1>2

\* A position before one in block p is in block p or before it.
LEMMA InBlockOrBefore ==
  ASSUME NEW q \in Nat, NEW r \in 0 .. BlockSize - 1,
         NEW p \in Nat, NEW e \in 0 .. BlockSize - 1,
         q * BlockSize + r < p * BlockSize + e
  PROVE  q < p \/ (q = p /\ r < e)
<1>1. BlockSize \in Nat \ {0}
  BY BufferAssumption
<1>2. PICK m \in Nat, l \in Nat : m = q * BlockSize /\ l = p * BlockSize
  BY <1>1
<1>3. ~ (q > p)
  <2> SUFFICES ASSUME q > p PROVE FALSE
    OBVIOUS
  <2>1. PICK d \in Nat : q = p + 1 + d
    <3>1. q - p - 1 \in Nat
      OBVIOUS
    <3> QED
      BY <3>1
  <2>2. q * BlockSize = p * BlockSize + BlockSize + d * BlockSize /\ d * BlockSize \in Nat
    BY <1>1, <2>1
  <2>3. m >= l + BlockSize
    BY <1>1, <1>2, <2>2
  <2> QED
    BY <1>1, <1>2, <2>3
<1>4. q = p => r < e
  <2>1. q = p => m = l
    BY <1>2
  <2>2. m + r < l + e
    BY <1>2
  <2> QED
    BY <1>1, <2>1, <2>2
<1>5. q < p \/ q = p
  BY <1>3
<1> QED
  BY <1>4, <1>5

\* Where the two pointers are.
LEMMA Positions ==
  ASSUME TypeOK, PointersSafe
  PROVE  /\ Position(getPtr) = getPtr.elem /\ getPtr.elem \in 0 .. BlockSize - 1
         /\ Position(putPtr) = putPtr.block * BlockSize + putPtr.elem
         /\ putPtr.block \in Nat /\ putPtr.elem \in 0 .. BlockSize - 1
         /\ Position(putPtr) \in Nat /\ BlockSize \in Nat \ {0}
         /\ Avail \in Nat /\ Position(putPtr) = Position(getPtr) + Avail
<1>1. /\ getPtr.elem \in 0 .. BlockSize - 1 /\ getPtr.block = 0
      /\ putPtr.block \in Nat /\ putPtr.elem \in 0 .. BlockSize - 1
  BY DEF TypeOK, PointersSafe, BlockPtr
<1>2. BlockSize \in Nat \ {0}
  BY BufferAssumption
<1>3. putPtr.block * BlockSize \in Nat
  BY <1>1, <1>2
<1>4. Position(getPtr) = getPtr.elem /\ Position(putPtr) = putPtr.block * BlockSize + putPtr.elem
  BY <1>1, <1>2 DEF Position
<1>5. Avail \in Nat /\ Avail = Position(putPtr) - Position(getPtr)
  BY AvailIs DEF Avail
<1>6. Position(getPtr) \in Nat /\ Position(putPtr) \in Nat
  <2>1. PICK m \in Nat : m = putPtr.block * BlockSize
    BY <1>3
  <2> QED
    BY <1>1, <1>2, <1>4, <2>1
<1>7. Position(putPtr) = Position(getPtr) + Avail
  BY <1>5, <1>6
<1> QED
  BY <1>1, <1>2, <1>4, <1>5, <1>6, <1>7

\* The bytes between the pointers are bytes of blocks that exist.
LEMMA ContentsAre ==
  ASSUME TypeOK, PointersSafe
  PROVE  /\ Contents \in Seq(Values) /\ Len(Contents) = Avail
         /\ \A i \in 1 .. Avail : Contents[i] = Cell(getPtr.elem + i - 1)
<1>1. \A i \in 1 .. Avail : Cell(Position(getPtr) + i - 1) \in Values
  <2> TAKE i \in 1 .. Avail
  <2> DEFINE k == Position(getPtr) + i - 1
  <2>1. k \in Nat /\ k < putPtr.block * BlockSize + putPtr.elem
    BY Positions
  <2>2. PICK q \in Nat, r \in 0 .. BlockSize - 1 : k = q * BlockSize + r
    BY <2>1, Split
  <2> HIDE DEF k
  <2>3. q <= putPtr.block
    BY <2>1, <2>2, InBlockOrBefore, Positions
  <2>4. blocks[1 + q] \in Block
    BY <2>3 DEF TypeOK, PointersSafe, BlockPtr
  <2>5. Cell(k) = blocks[1 + q][r]
    BY <2>2, BlockAndElem DEF Cell
  <2>6. Cell(k) \in Values
    BY <2>4, <2>5 DEF Block, Values
  <2> QED
    BY <2>6 DEF k
<1>2. Avail \in Nat
  BY Positions
<1>3. Contents \in Seq(Values) /\ Len(Contents) = Avail
  BY <1>1, <1>2 DEF Contents
<1>4. \A i \in 1 .. Avail : Contents[i] = Cell(getPtr.elem + i - 1)
  BY Positions DEF Contents
<1> QED
  BY <1>3, <1>4

\* The same of the next state.
ContentsSized == Contents \in Seq(Values) /\ Len(Contents) = Avail

LEMMA ContentsPrimed == IInv' => ContentsSized'
<1>1. IInv => ContentsSized
  BY ContentsAre DEF IInv, ContentsSized
<1> QED
  BY <1>1, PTL

\* What a round of put() writes is appended to the contents.
LEMMA PutChunkAppends ==
  ASSUME IInv, PutChunk
  PROVE  \E n \in 1 .. Len(input) :
           /\ input' = SubSeq(input, n + 1, Len(input))
           /\ Contents' = Contents \o SubSeq(input, 1, n)
<1> DEFINE P == putPtr.block
           e == putPtr.elem
           b == putPtr.block + 1
           n == Chunk
           filled == [blocks EXCEPT ![b] = Written]
<1>1. /\ BlockSize \in Nat \ {0} /\ e \in 0 .. BlockSize - 1 /\ P \in Nat
      /\ input \in Seq(Bytes) /\ blocks \in Seq(Block) /\ Len(input) \in Nat \ {0}
      /\ Len(blocks) = P + 1
  BY BufferAssumption DEF PutChunk, IInv, TypeOK, PointersSafe, BlockPtr
<1>2. n \in 1 .. Len(input) /\ e + n \in 1 .. BlockSize
  BY PutWritesBlock
<1>3. \A q \in 0 .. P : blocks'[1 + q] = filled[1 + q]
  <2>1. CASE e + n = BlockSize
    <3>1. blocks' = Append(filled, FreshBlock)
      BY <2>1 DEF PutChunk, Written, Chunk
    <3>2. filled \in Seq(Block) /\ Len(filled) = P + 1
      BY <1>1, PutWritesBlock
    <3> HIDE DEF filled
    <3> QED
      BY <1>1, <3>1, <3>2
  <2>2. CASE e + n # BlockSize
    <3>1. blocks' = filled
      BY <2>2 DEF PutChunk, Written, Chunk
    <3> QED
      BY <3>1
  <2> QED
    BY <2>1, <2>2
<1>4. \A q \in 0 .. P - 1 : blocks'[1 + q] = blocks[1 + q]
  <2> TAKE q \in 0 .. P - 1
  <2>1. 1 + q \in DOMAIN blocks /\ 1 + q # b /\ q \in 0 .. P
    BY <1>1
  <2>2. filled[1 + q] = blocks[1 + q]
    BY <2>1
  <2> QED
    BY <1>3, <2>1, <2>2
<1>5. \A r \in 0 .. BlockSize - 1 :
        blocks'[1 + P][r] = IF r \in e .. e + n - 1 THEN input[1 + r - e] ELSE blocks[1 + P][r]
  <2>1. 1 + P \in DOMAIN blocks /\ 1 + P = b /\ P \in 0 .. P
    BY <1>1
  <2>2. filled[1 + P] = Written
    BY <2>1
  <2>3. blocks'[1 + P] = Written
    BY <1>3, <2>1, <2>2
  <2> QED
    BY <2>1, <2>3 DEF Written
<1>6. getPtr' = getPtr /\ input' = SubSeq(input, n + 1, Len(input))
  BY DEF PutChunk, Chunk
<1>7. TypeOK /\ PointersSafe /\ TypeOK' /\ PointersSafe'
  BY PutChunkKeepsSafe DEF IInv
<1>8. Position(putPtr') = Position(putPtr) + n
  <2>1. CASE e + n = BlockSize
    <3>1. putPtr' = Ptr(P + 1, 0)
      BY <1>1, <2>1 DEF PutChunk, AfterPut, Chunk
    <3>2. (P + 1) * BlockSize + 0 = P * BlockSize + (e + n)
      BY <1>1, <1>2, <2>1
    <3>3. Position(putPtr') = (P + 1) * BlockSize + 0
      BY <3>1 DEF Position, Ptr
    <3>4. n \in Nat
      BY <1>1, <1>2
    <3> HIDE DEF n
    <3>5. PICK m \in Nat : m = P * BlockSize
      BY <1>1
    <3>6. Position(putPtr') = m + (e + n) /\ Position(putPtr) = m + e
      BY <3>2, <3>3, <3>5 DEF Position
    <3> QED
      BY <1>1, <3>4, <3>5, <3>6
  <2>2. CASE e + n # BlockSize
    <3>1. putPtr' = Ptr(P, e + n)
      BY <2>2 DEF PutChunk, AfterPut, Chunk
    <3>2. n \in Nat
      BY <1>1, <1>2
    <3>3. Position(putPtr') = P * BlockSize + (e + n)
      BY <3>1 DEF Position, Ptr
    <3> HIDE DEF n
    <3>4. PICK m \in Nat : m = P * BlockSize
      BY <1>1
    <3> QED
      BY <1>1, <3>2, <3>3, <3>4 DEF Position
  <2> QED
    BY <2>1, <2>2
<1>9. /\ Avail \in Nat /\ getPtr.elem \in Nat
      /\ Position(getPtr) = getPtr.elem /\ Position(putPtr) = getPtr.elem + Avail
      /\ Position(putPtr) = P * BlockSize + e
  BY <1>7, Positions
<1>10. Avail' = Avail + n
  <2>1. n \in Nat
    BY <1>1, <1>2
  <2>2. Avail' = Position(putPtr') - Position(getPtr')
    BY DEF Avail
  <2> HIDE DEF n
  <2> QED
    BY <1>6, <1>8, <1>9, <2>1, <2>2
<1> HIDE DEF filled
<1>11. \A i \in 1 .. Avail : Contents'[i] = Contents[i]
  <2> TAKE i \in 1 .. Avail
  <2>1. PICK k \in Nat : k = getPtr.elem + i - 1 /\ k < P * BlockSize + e
    <3>1. getPtr.elem + i - 1 \in Nat /\ getPtr.elem + i - 1 < getPtr.elem + Avail
      BY <1>9
    <3> QED
      BY <1>9, <3>1
  <2>2. PICK q \in Nat, r \in 0 .. BlockSize - 1 : k = q * BlockSize + r
    BY Split
  <2>0. q * BlockSize + r < P * BlockSize + e
    BY <2>1, <2>2
  <2>3. q < P \/ (q = P /\ r < e)
    BY <1>1, <2>0, InBlockOrBefore
  <2>4. blocks'[1 + q][r] = blocks[1 + q][r]
    <3>1. CASE q < P
      BY <1>1, <1>4, <3>1
    <3>2. CASE q = P /\ r < e
      <4>1. r \notin e .. e + n - 1
        BY <1>1, <3>2
      <4> QED
        BY <1>5, <3>2, <4>1
    <3> QED
      BY <2>3, <3>1, <3>2
  <2>5. k \div BlockSize = q /\ k % BlockSize = r
    BY <2>2, BlockAndElem
  <2>6. Contents[i] = blocks[1 + q][r]
    BY <1>9, <2>1, <2>5 DEF Contents, Cell
  <2>7. Contents'[i] = blocks'[1 + q][r]
    <3>1. i \in 1 .. Avail' /\ Position(getPtr') + i - 1 = k
      <4>1. n \in Nat
        BY <1>1, <1>2
      <4> HIDE DEF n
      <4> QED
        BY <1>6, <1>9, <1>10, <2>1, <4>1
    <3> QED
      BY <2>5, <3>1 DEF Contents, Cell
  <2> QED
    BY <2>4, <2>6, <2>7
<1>12. \A j \in 1 .. n : Contents'[Avail + j] = input[j]
  <2> TAKE j \in 1 .. n
  <2>0. n \in Nat
    BY <1>1, <1>2
  <2>1. e + j - 1 \in 0 .. BlockSize - 1 /\ e + j - 1 \in e .. e + n - 1 /\ 1 + (e + j - 1) - e = j
    <3>1. e + n <= BlockSize
      BY <1>2
    <3> HIDE DEF n
    <3> QED
      BY <1>1, <2>0, <3>1
  <2>2. blocks'[1 + P][e + j - 1] = input[j]
    BY <1>5, <2>1
  <2>3. PICK k \in Nat : k = P * BlockSize + (e + j - 1)
    BY <1>1, <2>1, BlockAndElem
  <2>4. k \div BlockSize = P /\ k % BlockSize = e + j - 1
    BY <1>1, <2>1, <2>3, BlockAndElem
  <2>5. Avail + j \in 1 .. Avail' /\ Position(getPtr') + (Avail + j) - 1 = k
    <3>1. PICK m \in Nat : m = P * BlockSize
      BY <1>1
    <3>2. j \in Nat /\ j >= 1 /\ j <= n
      BY <2>0
    <3>3. m + e = getPtr.elem + Avail /\ k = m + (e + j - 1) /\ Position(getPtr') = getPtr.elem
      BY <1>6, <1>9, <2>3, <3>1
    <3>4. e \in Nat
      BY <1>1
    <3> HIDE DEF n
    <3>5. Avail + j \in 1 .. Avail'
      BY <1>9, <1>10, <2>0, <3>2
    <3>6. getPtr.elem + (Avail + j) - 1 = m + (e + j - 1)
      BY <1>9, <3>2, <3>3, <3>4
    <3> QED
      BY <3>3, <3>5, <3>6
  <2> QED
    BY <2>2, <2>4, <2>5 DEF Contents, Cell
<1>13. /\ Contents \in Seq(Values) /\ Len(Contents) = Avail
       /\ Contents' = [i \in 1 .. Avail' |-> Contents'[i]]
  BY <1>7, ContentsAre DEF Contents
<1>14. SubSeq(input, 1, n) \in Seq(Bytes) /\ Len(SubSeq(input, 1, n)) = n
       /\ \A j \in 1 .. n : SubSeq(input, 1, n)[j] = input[j]
  <2>1. n \in Nat /\ n <= Len(input)
    BY <1>1, <1>2
  <2> HIDE DEF n
  <2> QED
    BY <1>1, <2>1, SubSeqProperties
<1>15. Contents' = Contents \o SubSeq(input, 1, n)
  <2> DEFINE S == SubSeq(input, 1, n)
             C == Contents'
  <2>0. n \in Nat
    BY <1>1, <1>2
  <2>1. S \in Seq(Values) /\ Len(S) = n
    BY <1>14 DEF Values
  <2>2. \A j \in 1 .. n : C[Avail + j] = S[j]
    BY <1>12, <1>14
  <2>3. /\ \A i \in 1 .. Avail : C[i] = Contents[i]
        /\ C = [i \in 1 .. Avail + n |-> C[i]]
    BY <1>10, <1>11, <1>13
  <2> HIDE DEF S, C, n
  <2>4. \A i \in 1 .. Avail + n : C[i] \in Values
    <3> TAKE i \in 1 .. Avail + n
    <3>1. CASE i <= Avail
      <4>1. i \in 1 .. Avail
        BY <1>9, <2>0, <3>1
      <4> QED
        BY <1>13, <2>3, <4>1
    <3>2. CASE i > Avail
      <4>1. i - Avail \in 1 .. n /\ Avail + (i - Avail) = i
        BY <1>9, <2>0, <3>2
      <4>2. C[i] = S[i - Avail]
        BY <2>2, <4>1
      <4> QED
        BY <2>1, <4>1, <4>2
    <3> QED
      BY <1>9, <2>0, <3>1, <3>2
  <2>5. C \in Seq(Values) /\ Len(C) = Avail + n
    <3>1. Avail + n \in Nat
      BY <1>9, <2>0
    <3> QED
      BY <2>3, <2>4, <3>1
  <2>6. C = Contents \o S
    <3>1. /\ Contents \in Seq(Values) /\ S \in Seq(Values) /\ C \in Seq(Values)
          /\ Len(C) = Len(Contents) + Len(S)
          /\ \A i \in 1 .. Len(Contents) : C[i] = Contents[i]
          /\ \A j \in 1 .. Len(S) : C[Len(Contents) + j] = S[j]
      BY <1>13, <2>1, <2>2, <2>3, <2>5
    <3> QED
      BY <3>1, TwoParts
  <2> QED
    BY <2>6 DEF C, S
<1> QED
  BY <1>2, <1>6, <1>15

\* A round of get() takes a part of the contents, from the front.
LEMMA GetChunkTakes ==
  ASSUME IInv, GetChunk
  PROVE  \E n \in 1 .. want :
           /\ want' = want - n /\ want <= Avail
           /\ out' = out \o SubSeq(Contents, 1, n)
           /\ Avail' = Avail - n /\ Contents' = SubSeq(Contents, n + 1, Avail)
<1> DEFINE e == getPtr.elem
           n == Least(want, BlockSize - getPtr.elem)
           taken == [i \in 1 .. n |-> blocks[getPtr.block + 1][getPtr.elem + i - 1]]
<1>1. /\ BlockSize \in Nat \ {0} /\ e \in 0 .. BlockSize - 1 /\ getPtr.block = 0
      /\ want \in Nat \ {0} /\ blocks \in Seq(Block) /\ Len(blocks) = putPtr.block + 1
      /\ putPtr.block \in Nat /\ putPtr.elem \in 0 .. BlockSize - 1
  BY BufferAssumption DEF GetChunk, IInv, TypeOK, PointersSafe, BlockPtr
<1>2. n \in 1 .. want /\ n \in Nat /\ e + n <= BlockSize
  BY <1>1 DEF Least
<1>3. out' = out \o taken /\ want' = want - n
  BY DEF GetChunk
<1>4. TypeOK /\ PointersSafe /\ TypeOK' /\ PointersSafe'
  BY GetChunkKeepsSafe DEF IInv
<1>5. /\ Avail \in Nat /\ want <= Avail /\ Position(getPtr) = e
      /\ Position(putPtr) = e + Avail /\ Position(putPtr) = putPtr.block * BlockSize + putPtr.elem
  BY <1>4, Positions DEF PointersSafe
<1>6. n <= Avail
  <2>1. n <= want
    BY <1>1, <1>2
  <2> HIDE DEF n
  <2> QED
    BY <1>1, <1>2, <1>5, <2>1
<1>7. /\ Contents \in Seq(Values) /\ Len(Contents) = Avail
      /\ \A i \in 1 .. Avail : Contents[i] = Cell(e + i - 1)
  BY <1>4, ContentsAre
<1>8. taken = SubSeq(Contents, 1, n)
  <2>1. \A i \in 1 .. n : Contents[i] = blocks[getPtr.block + 1][e + i - 1]
    <3> TAKE i \in 1 .. n
    <3>1. e + i - 1 \in 0 .. BlockSize - 1 /\ i \in 1 .. Avail
      <4>1. i \in Nat /\ i >= 1 /\ i <= n
        BY <1>2
      <4> HIDE DEF n
      <4> QED
        BY <1>1, <1>2, <1>5, <1>6, <4>1
    <3>2. (0 * BlockSize + (e + i - 1)) \div BlockSize = 0
          /\ (0 * BlockSize + (e + i - 1)) % BlockSize = e + i - 1
      BY <3>1, BlockAndElem
    <3>3. 0 * BlockSize + (e + i - 1) = e + i - 1
      BY <1>1, <3>1
    <3>4. Contents[i] = blocks[1 + 0][e + i - 1]
      BY <1>7, <3>1, <3>2, <3>3 DEF Cell
    <3> QED
      BY <1>1, <3>4
  <2>2. taken = [i \in 1 .. n |-> Contents[i]]
    BY <2>1
  <2> HIDE DEF n
  <2>3. SubSeq(Contents, 1, n) = [i \in 1 .. n |-> Contents[i]]
    BY <1>2, <1>5, <1>6, <1>7
  <2> QED
    BY <2>2, <2>3
<1>9. Position(putPtr') - Position(getPtr') = Avail - n
      /\ \A i \in 1 .. Avail - n :
            blocks'[1 + (Position(getPtr') + i - 1) \div BlockSize][(Position(getPtr') + i - 1) % BlockSize]
              = Contents[n + i]
  <2>1. CASE e + n = BlockSize
    <3>1. blocks' = Tail(blocks) /\ getPtr' = Ptr(0, 0) /\ putPtr' = Ptr(putPtr.block - 1, putPtr.elem)
      BY <1>1, <2>1 DEF GetChunk, Shift
    <3>2. Position(getPtr') = 0
      BY <1>1, <3>1 DEF Position, Ptr
    <3>3. Position(putPtr') = Position(putPtr) - BlockSize
      <4>1. (putPtr.block - 1) * BlockSize = putPtr.block * BlockSize - BlockSize
        BY <1>1
      <4>2. PICK m \in Nat : m = putPtr.block * BlockSize
        BY <1>1
      <4>3. Position(putPtr') = m - BlockSize + putPtr.elem /\ Position(putPtr) = m + putPtr.elem
        BY <3>1, <4>1, <4>2 DEF Position, Ptr
      <4> QED
        BY <1>1, <4>2, <4>3
    <3>4. n \in Nat /\ e \in Nat /\ e + n = BlockSize /\ n <= Avail
      BY <1>1, <1>2, <1>6, <2>1
    <3> HIDE DEF n
    <3>5. Position(putPtr') - Position(getPtr') = Avail - n
      BY <1>1, <1>5, <3>2, <3>3, <3>4
    <3>6. ASSUME NEW i \in 1 .. Avail - n
          PROVE  blocks'[1 + (i - 1) \div BlockSize][(i - 1) % BlockSize] = Contents[n + i]
      <4>0. Avail \in Nat
        BY <1>5
      <4>1. i - 1 \in Nat /\ n + i \in 1 .. Avail /\ e + (n + i) - 1 = BlockSize + (i - 1)
        BY <3>4, <4>0
      <4>2. PICK q \in Nat, r \in 0 .. BlockSize - 1 : i - 1 = q * BlockSize + r
        BY <4>1, Split
      <4>3. (i - 1) \div BlockSize = q /\ (i - 1) % BlockSize = r
        BY <4>2, BlockAndElem
      <4>4. BlockSize + (i - 1) = (q + 1) * BlockSize + r
        <5>1. (q + 1) * BlockSize = q * BlockSize + BlockSize
          BY <1>1
        <5>2. PICK m \in Nat : m = q * BlockSize
          BY <1>1
        <5>3. i - 1 = m + r /\ (q + 1) * BlockSize = m + BlockSize
          BY <4>2, <5>1, <5>2
        <5>4. BlockSize + (i - 1) = (m + BlockSize) + r
          BY <1>1, <4>1, <5>2, <5>3
        <5> QED
          BY <5>3, <5>4
      <4>5. q + 1 \in Nat
        OBVIOUS
      <4>6. ((q + 1) * BlockSize + r) \div BlockSize = q + 1
            /\ ((q + 1) * BlockSize + r) % BlockSize = r
        BY <4>5, BlockAndElem
      <4>7. Contents[n + i] = blocks[1 + (q + 1)][r]
        BY <1>7, <4>1, <4>4, <4>6 DEF Cell
      <4>8. q + 1 <= putPtr.block
        <5>1. PICK k \in Nat : k = (q + 1) * BlockSize + r
          BY <4>5, BlockAndElem
        <5>2. k < e + Avail
          BY <1>5, <3>4, <4>1, <4>4, <5>1
        <5>3. (q + 1) * BlockSize + r < putPtr.block * BlockSize + putPtr.elem
          BY <1>5, <5>1, <5>2
        <5>4. q + 1 < putPtr.block \/ (q + 1 = putPtr.block /\ r < putPtr.elem)
          BY <1>1, <4>5, <5>3, InBlockOrBefore
        <5> QED
          BY <1>1, <5>4
      <4>9. Tail(blocks)[1 + q] = blocks[1 + (q + 1)]
        <5>1. 1 + q \in 1 .. Len(blocks) - 1 /\ Len(blocks) >= 1
          BY <1>1, <4>8
        <5> QED
          BY <1>1, <5>1
      <4> QED
        BY <3>1, <4>3, <4>7, <4>9
    <3>7. \A i \in 1 .. Avail - n : 0 + i - 1 = i - 1
      BY <1>5, <3>4
    <3> QED
      BY <3>2, <3>5, <3>6, <3>7
  <2>2. CASE e + n # BlockSize
    <3>1. blocks' = blocks /\ getPtr' = Ptr(0, e + n) /\ putPtr' = putPtr
      BY <1>1, <2>2 DEF GetChunk
    <3>2. n \in Nat /\ e \in Nat /\ n <= Avail
      BY <1>1, <1>2, <1>6
    <3>3. Position(getPtr') = e + n
      BY <1>1, <1>2, <3>1, <3>2 DEF Position, Ptr
    <3> HIDE DEF n
    <3>4. Position(putPtr') - Position(getPtr') = Avail - n
      BY <1>5, <3>1, <3>2, <3>3
    <3>5. ASSUME NEW i \in 1 .. Avail - n
          PROVE  n + i \in 1 .. Avail /\ e + (n + i) - 1 = e + n + i - 1
      BY <1>5, <3>2
    <3> QED
      BY <1>7, <3>1, <3>3, <3>4, <3>5 DEF Cell
  <2> QED
    BY <2>1, <2>2
<1>10. Avail' = Avail - n /\ Avail - n \in Nat
  <2>1. Avail' = Avail - n
    BY <1>9 DEF Avail
  <2> HIDE DEF n
  <2> QED
    BY <1>2, <1>5, <1>6, <2>1
<1>11. Contents' = [i \in 1 .. Avail - n |-> Contents[n + i]]
  <2>1. \A i \in 1 .. Avail - n : Contents'[i] = Contents[n + i]
    BY <1>9, <1>10 DEF Contents, Cell
  <2>2. Contents' = [i \in 1 .. Avail - n |-> Contents'[i]]
    BY <1>10 DEF Contents
  <2> QED
    BY <2>1, <2>2
<1>12. Contents' = SubSeq(Contents, n + 1, Avail)
  <2>1. n \in Nat /\ n <= Avail
    BY <1>2, <1>6
  <2> HIDE DEF n
  <2>2. SubSeq(Contents, n + 1, Avail) = [i \in 1 .. Avail - n |-> Contents[n + i]]
    <3>1. SubSeq(Contents, n + 1, Avail) = [i \in 1 .. Avail - (n + 1) + 1 |-> Contents[n + 1 + i - 1]]
      BY <1>5, <1>7, <2>1
    <3>2. Avail - (n + 1) + 1 = Avail - n /\ \A i \in 1 .. Avail - n : n + 1 + i - 1 = n + i
      BY <1>5, <2>1
    <3> QED
      BY <3>1, <3>2
  <2> QED
    BY <1>11, <2>2
<1> QED
  BY <1>2, <1>3, <1>5, <1>8, <1>10, <1>12

-----------------------------------------------------------------------------
\* The sequences of ByteQueue.
Queued == SubSeq(Contents, want + 1, Avail) \o input
Returned == out \o SubSeq(Contents, 1, want)

\* What the refinement needs besides: only a put() has input left to write.
InputSpent == pc # "put" => input = <<>>
RInv == IInv /\ InputSpent

LEMMA QueueInv == Spec => []RInv
<1>1. Init => InputSpent
  BY DEF Init, InputSpent
<1>2. IInv /\ InputSpent /\ [Next]_vars => InputSpent'
  <2> SUFFICES ASSUME IInv, InputSpent, [Next]_vars PROVE InputSpent'
    OBVIOUS
  <2> USE DEF InputSpent
  <2> QED
    BY DEF vars, Next, Put, PutChunk, EndPut, Get, GetLine, StartGet, GetChunk, EndGet
<1> QED
  BY SafeInit, SafeStep, <1>1, <1>2, PTL DEF Spec, RInv

\* What is queued and returned between two calls.
LEMMA Resting ==
  ASSUME IInv, want = 0
  PROVE  Queued = Contents \o input /\ Returned = out
<1>1. /\ Contents \in Seq(Values) /\ Len(Contents) = Avail /\ Avail \in Nat
      /\ out \in Seq(Values)
  BY ContentsAre, Positions DEF IInv, TypeOK, Values
<1>2. SubSeq(Contents, 1, Avail) = Contents /\ SubSeq(Contents, 1, 0) = <<>>
  BY <1>1, SubSeqFull, SubSeqEmpty
<1>3. want + 1 = 1
  OBVIOUS
<1> QED
  BY <1>1, <1>2, <1>3, ConcatEmptySeq DEF Queued, Returned

\* Steps that leave the blocks and the pointers alone leave the contents alone.
LEMMA SameContents ==
  ASSUME blocks' = blocks, getPtr' = getPtr, putPtr' = putPtr
  PROVE  Contents' = Contents /\ Avail' = Avail
BY DEF Contents, Avail, Cell, Position

\* The two parts of a sequence.
LEMMA CutInTwo ==
  ASSUME NEW T, NEW s \in Seq(T), NEW n \in 1 .. Len(s)
  PROVE  /\ SubSeq(s, 1, n) \in Seq(T) /\ SubSeq(s, n + 1, Len(s)) \in Seq(T)
         /\ SubSeq(s, 1, n) \o SubSeq(s, n + 1, Len(s)) = s
<1>1. SubSeq(s, 1, n) \in Seq(T) /\ Len(SubSeq(s, 1, n)) = n
      /\ \A i \in 1 .. n : SubSeq(s, 1, n)[i] = s[i]
  OBVIOUS
<1>2. SubSeq(s, n + 1, Len(s)) \in Seq(T) /\ Len(SubSeq(s, n + 1, Len(s))) = Len(s) - n
  OBVIOUS
<1>3. \A j \in 1 .. Len(s) - n : SubSeq(s, n + 1, Len(s))[j] = s[n + j]
  OBVIOUS
<1>4. Len(s) = Len(SubSeq(s, 1, n)) + Len(SubSeq(s, n + 1, Len(s)))
  BY <1>1, <1>2
<1> QED
  BY <1>1, <1>2, <1>3, <1>4, TwoParts

\* To take n and then the rest of w is to take w.
LEMMA TakeInTwo ==
  ASSUME NEW T, NEW C \in Seq(T), NEW w \in 0 .. Len(C), NEW n \in 0 .. w
  PROVE  /\ SubSeq(SubSeq(C, n + 1, Len(C)), w - n + 1, Len(C) - n) = SubSeq(C, w + 1, Len(C))
         /\ SubSeq(C, 1, n) \o SubSeq(SubSeq(C, n + 1, Len(C)), 1, w - n) = SubSeq(C, 1, w)
<1> DEFINE A == Len(C)
           D == SubSeq(C, n + 1, A)
<1>1. A \in Nat /\ w \in Nat /\ n \in Nat /\ n <= w /\ w <= A
  OBVIOUS
<1>2. D = [i \in 1 .. A - n |-> C[n + i]]
  <2> HIDE DEF A
  <2>1. D = [i \in 1 .. A - (n + 1) + 1 |-> C[n + 1 + i - 1]]
    BY <1>1
  <2>2. A - (n + 1) + 1 = A - n /\ \A i \in 1 .. A - n : n + 1 + i - 1 = n + i
    BY <1>1
  <2> QED
    BY <2>1, <2>2
<1>3. \A i \in 1 .. A : C[i] \in T
  OBVIOUS
<1> HIDE DEF A, D
<1>4. SubSeq(D, w - n + 1, A - n) = SubSeq(C, w + 1, A)
  <2>1. SubSeq(D, w - n + 1, A - n) = [i \in 1 .. (A - n) - (w - n + 1) + 1 |-> D[(w - n + 1) + i - 1]]
    BY <1>1
  <2>2. SubSeq(C, w + 1, A) = [i \in 1 .. A - (w + 1) + 1 |-> C[(w + 1) + i - 1]]
    BY <1>1
  <2>3. (A - n) - (w - n + 1) + 1 = A - (w + 1) + 1
    BY <1>1
  <2>4. ASSUME NEW i \in 1 .. A - (w + 1) + 1
        PROVE  D[(w - n + 1) + i - 1] = C[(w + 1) + i - 1]
    <3>1. (w - n + 1) + i - 1 \in 1 .. A - n /\ n + ((w - n + 1) + i - 1) = (w + 1) + i - 1
      BY <1>1
    <3> QED
      BY <1>2, <3>1
  <2> QED
    BY <2>1, <2>2, <2>3, <2>4
<1>5. SubSeq(C, 1, n) \o SubSeq(D, 1, w - n) = SubSeq(C, 1, w)
  <2> DEFINE s == SubSeq(C, 1, n)
             t == SubSeq(D, 1, w - n)
             u == SubSeq(C, 1, w)
  <2>1. \A i \in 1 .. A - n : D[i] = C[n + i] /\ D[i] \in T
    <3> TAKE i \in 1 .. A - n
    <3>1. n + i \in 1 .. A
      BY <1>1
    <3> QED
      BY <1>2, <1>3, <3>1
  <2>2. s \in Seq(T) /\ Len(s) = n /\ \A i \in 1 .. n : s[i] = C[i]
    <3>1. \A i \in 1 .. n : C[i] \in T
      BY <1>1, <1>3
    <3> QED
      BY <1>1, <3>1, SubSeqProperties
  <2>3. u \in Seq(T) /\ Len(u) = w /\ \A i \in 1 .. w : u[i] = C[i]
    <3>1. \A i \in 1 .. w : C[i] \in T
      BY <1>1, <1>3
    <3> QED
      BY <1>1, <3>1, SubSeqProperties
  <2>4. t \in Seq(T) /\ Len(t) = w - n /\ \A i \in 1 .. w - n : t[i] = D[i]
    <3>1. w - n \in Nat /\ w - n <= A - n
      BY <1>1
    <3>2. \A i \in 1 .. w - n : D[i] \in T
      BY <1>1, <2>1, <3>1
    <3> QED
      BY <3>1, <3>2, SubSeqProperties
  <2> HIDE DEF s, t, u
  <2>5. Len(u) = Len(s) + Len(t)
    BY <1>1, <2>2, <2>3, <2>4
  <2>6. \A i \in 1 .. Len(s) : u[i] = s[i]
    BY <1>1, <2>2, <2>3
  <2>7. \A j \in 1 .. Len(t) : u[Len(s) + j] = t[j]
    <3> TAKE j \in 1 .. Len(t)
    <3>1. j \in 1 .. w - n /\ j \in 1 .. A - n /\ n + j \in 1 .. w
      BY <1>1, <2>4
    <3> QED
      BY <2>1, <2>2, <2>3, <2>4, <3>1
  <2>8. u = s \o t
    BY <2>2, <2>3, <2>4, <2>5, <2>6, <2>7, TwoParts
  <2> QED
    BY <2>8 DEF s, t, u
<1> QED
  BY <1>4, <1>5 DEF A, D

\* What a call of get() or getline() takes when it starts.
LEMMA StartGetTakes ==
  ASSUME RInv, NEW c, NEW n \in Nat, StartGet(c, n)
  PROVE  /\ call' = c /\ Len(Queued) = Avail /\ Queued = Contents
         /\ Returned' = SubSeq(Queued, 1, n)
         /\ Queued' = SubSeq(Queued, n + 1, Len(Queued))
<1>1. /\ pc = "idle" /\ want = 0 /\ input = <<>> /\ input' = <<>>
      /\ want' = n /\ out' = <<>> /\ call' = c
  BY DEF StartGet, RInv, IInv, InputSpent
<1>2. Contents \in Seq(Values) /\ Len(Contents) = Avail /\ Avail \in Nat
  BY ContentsAre, Positions DEF RInv, IInv
<1>3. Contents' = Contents /\ Avail' = Avail
  BY SameContents DEF StartGet
<1>4. Queued = Contents
  BY <1>1, <1>2, Resting, ConcatEmptySeq DEF RInv
<1>5. /\ SubSeq(Contents, 1, n) \o <<>> = SubSeq(Contents, 1, n)
      /\ <<>> \o SubSeq(Contents, 1, n) = SubSeq(Contents, 1, n)
      /\ SubSeq(Contents, n + 1, Avail) \o <<>> = SubSeq(Contents, n + 1, Avail)
  OBVIOUS
<1> QED
  BY <1>1, <1>2, <1>3, <1>4, <1>5 DEF Queued, Returned

\* find() looks for the first line end of the queue.
LEMMA FindIsFirstLineEnd ==
  ASSUME TypeOK, PointersSafe, Queued = Contents
  PROVE  /\ Find = -1 <=> Queue!LineEnds = {}
         /\ Find # -1 => Find \in Queue!LineEnds /\ \A j \in Queue!LineEnds : Find <= j
<1> DEFINE e == getPtr.elem
           First(k) == k \in NewlinesAt /\ \A j \in NewlinesAt : k <= j
<1>1. /\ e \in Nat /\ Avail \in Nat /\ Position(getPtr) = e /\ Position(putPtr) = e + Avail
  BY Positions
<1>2. Len(Contents) = Avail /\ \A i \in 1 .. Avail : Contents[i] = Cell(e + i - 1)
  BY ContentsAre
<1>3. Queue!LineEnds = {i \in 1 .. Avail : Contents[i] = Newline}
  BY <1>2 DEF Queue!LineEnds, Queued
<1>4. \A i \in 1 .. Avail : i \in Queue!LineEnds <=> e + i - 1 \in NewlinesAt
  <2> TAKE i \in 1 .. Avail
  <2>1. e + i - 1 \in Position(getPtr) .. Position(putPtr) - 1
    BY <1>1
  <2> QED
    BY <1>2, <1>3, <2>1 DEF NewlinesAt
<1>5. \A k \in NewlinesAt : k \in Nat /\ k - e + 1 \in 1 .. Avail /\ e + (k - e + 1) - 1 = k
  BY <1>1 DEF NewlinesAt
<1>6. NewlinesAt = {} <=> Queue!LineEnds = {}
  <2>1. ASSUME NEW k \in NewlinesAt PROVE k - e + 1 \in Queue!LineEnds
    BY <1>4, <1>5
  <2>2. ASSUME NEW i \in Queue!LineEnds PROVE e + i - 1 \in NewlinesAt
    BY <1>3, <1>4
  <2> QED
    BY <2>1, <2>2
<1>7. CASE NewlinesAt = {}
  BY <1>6, <1>7 DEF Find
<1>8. CASE NewlinesAt # {}
  <2>1. NewlinesAt \in SUBSET Nat
    BY <1>5
  <2>2. PICK k : First(k)
    BY <1>8, <2>1, SmallestOf
  <2>3. First(CHOOSE i : First(i))
    BY <2>2
  <2>4. PICK f \in NewlinesAt : Find = 1 - e + f /\ \A j \in NewlinesAt : f <= j
    BY <1>1, <1>8, <2>3 DEF Find
  <2>5. Find = f - e + 1 /\ Find \in 1 .. Avail
    BY <1>1, <1>5, <2>4
  <2>6. Find \in Queue!LineEnds
    BY <1>4, <1>5, <2>4, <2>5
  <2>7. ASSUME NEW j \in Queue!LineEnds PROVE Find <= j
    <3>1. j \in 1 .. Avail /\ e + j - 1 \in NewlinesAt
      BY <1>3, <1>4
    <3>2. f <= e + j - 1 /\ f \in Nat
      BY <1>5, <2>4, <3>1
    <3> QED
      BY <1>1, <2>5, <3>1, <3>2
  <2> QED
    BY <1>6, <1>8, <2>5, <2>6, <2>7
<1> QED
  BY <1>7, <1>8

\* The empty buffer is the empty queue.
LEMMA QueueInit == Init => Queue!Init
<1> SUFFICES ASSUME Init PROVE Queue!Init
  OBVIOUS
<1>1. IInv /\ want = 0 /\ input = <<>> /\ out = <<>> /\ call = "none" /\ getPtr = putPtr
  BY SafeInit DEF Init
<1>2. Contents \in Seq(Values) /\ Len(Contents) = Avail /\ Avail \in Nat
      /\ Position(putPtr) = Position(getPtr) + Avail /\ Position(getPtr) \in Nat
  BY <1>1, ContentsAre, Positions DEF IInv
<1>3. Avail = 0
  BY <1>1, <1>2
<1>4. Contents = <<>>
  BY <1>2, <1>3, EmptySeq
<1>5. Queued = <<>> /\ Returned = <<>>
  BY <1>1, <1>2, <1>4, Resting, ConcatEmptySeq
<1> QED
  BY <1>1, <1>5 DEF Queue!Init, Queued, Returned

\* Every call of the buffer is a call of the queue, and a round of a loop changes
\* nothing the queue has.
LEMMA QueueStep == RInv /\ [Next]_vars => [Queue!Next]_<<Queued, call, Returned>>
<1> SUFFICES ASSUME RInv, [Next]_vars
             PROVE  \/ Queue!Next
                    \/ Queued' = Queued /\ call' = call /\ Returned' = Returned
  OBVIOUS
<1>0. /\ TypeOK /\ PointersSafe /\ IInv
      /\ Contents \in Seq(Values) /\ Len(Contents) = Avail /\ Avail \in Nat
      /\ input \in Seq(Values) /\ out \in Seq(Values)
  BY ContentsAre, Positions DEF RInv, IInv, TypeOK, Values
<1>i. IInv'
  BY SafeStep DEF RInv
<1>1. CASE Put
  <2>1. pc = "idle" /\ input = <<>> /\ want = 0 /\ want' = 0 /\ out' = out /\ call' = call
    BY <1>1 DEF Put, RInv, IInv, InputSpent
  <2>2. PICK s \in Inputs : input' = s
    BY <1>1 DEF Put
  <2>3. Contents' = Contents /\ Avail' = Avail
    BY <1>1, SameContents DEF Put
  <2>4. Queued = Contents /\ Returned = out
    BY <1>0, <2>1, Resting, ConcatEmptySeq
  <2>5. Queued' = Contents \o s /\ Returned' = out
    <3>1. SubSeq(Contents, 1, Avail) = Contents /\ SubSeq(Contents, 1, 0) = <<>> /\ out \o <<>> = out
      BY <1>0, SubSeqFull, SubSeqEmpty, ConcatEmptySeq
    <3>2. want' + 1 = 1
      BY <2>1
    <3> QED
      BY <2>1, <2>2, <2>3, <3>1, <3>2 DEF Queued, Returned
  <2>6. Queue!Put
    BY <2>1, <2>2, <2>4, <2>5 DEF Queue!Put, Queued, Returned
  <2> QED
    BY <2>6 DEF Queue!Next
<1>2. CASE PutChunk
  <2>1. PICK n \in 1 .. Len(input) : /\ input' = SubSeq(input, n + 1, Len(input))
                                     /\ Contents' = Contents \o SubSeq(input, 1, n)
    BY <1>0, <1>2, PutChunkAppends
  <2>2. want = 0 /\ want' = 0 /\ out' = out /\ call' = call
    BY <1>2 DEF PutChunk, RInv, IInv
  <2>3. Queued = Contents \o input /\ Returned = out
    BY <1>0, <2>2, Resting
  <2>4. Queued' = Contents' \o input' /\ Returned' = out'
    <3>1. SubSeq(Contents', 1, Avail') = Contents'
      <4>1. Contents' \in Seq(Values) /\ Len(Contents') = Avail'
        BY <1>i, ContentsPrimed DEF ContentsSized
      <4> QED
        BY <4>1, SubSeqFull
    <3>2. SubSeq(Contents', 1, 0) = <<>> /\ out \o <<>> = out
      BY <1>0, SubSeqEmpty, ConcatEmptySeq
    <3>3. want' + 1 = 1
      BY <2>2
    <3> QED
      BY <2>2, <3>1, <3>2, <3>3 DEF Queued, Returned
  <2>5. SubSeq(input, 1, n) \o SubSeq(input, n + 1, Len(input)) = input
        /\ SubSeq(input, 1, n) \in Seq(Values) /\ SubSeq(input, n + 1, Len(input)) \in Seq(Values)
    BY <1>0, CutInTwo
  <2>6. Queued' = Queued
    <3> DEFINE written == SubSeq(input, 1, n)
               left == SubSeq(input, n + 1, Len(input))
    <3>1. Contents \in Seq(Values) /\ written \in Seq(Values) /\ left \in Seq(Values)
      BY <1>0, <2>5
    <3>2. Queued' = (Contents \o written) \o left /\ Queued = Contents \o (written \o left)
      BY <2>1, <2>3, <2>4, <2>5
    <3> HIDE DEF written, left
    <3>3. (Contents \o written) \o left = Contents \o (written \o left)
      BY <3>1, ConcatAssociative
    <3> QED
      BY <3>2, <3>3
  <2> QED
    BY <2>2, <2>3, <2>4, <2>6
<1>3. CASE EndPut
  <2>1. Contents' = Contents /\ Avail' = Avail
    BY <1>3, SameContents DEF EndPut
  <2> QED
    BY <1>3, <2>1 DEF EndPut, Queued, Returned
<1>4. CASE Get
  <2>1. PICK n \in 0 .. Avail : StartGet("get", n)
    BY <1>4 DEF Get
  <2>2. n \in Nat
    BY <1>0
  <2>3. /\ call' = "get" /\ Len(Queued) = Avail
        /\ Returned' = SubSeq(Queued, 1, n) /\ Queued' = SubSeq(Queued, n + 1, Len(Queued))
    BY <2>1, <2>2, StartGetTakes
  <2>4. Queue!Get
    BY <2>3 DEF Queue!Get, Queue!Take, Queued, Returned
  <2> QED
    BY <2>4 DEF Queue!Next
<1>5. CASE GetLine
  <2>1. CASE Find = -1
    <3>1. StartGet("getline", 0)
      BY <1>5, <2>1 DEF GetLine
    <3>2. /\ call' = "getline" /\ Queued = Contents
          /\ Returned' = SubSeq(Queued, 1, 0) /\ Queued' = SubSeq(Queued, 0 + 1, Len(Queued))
      BY <3>1, StartGetTakes
    <3>3. Queue!LineEnds = {}
      BY <1>0, <2>1, <3>2, FindIsFirstLineEnd
    <3>4. Queue!GetLine
      BY <3>2, <3>3 DEF Queue!GetLine, Queue!Take, Queued, Returned
    <3> QED
      BY <3>4 DEF Queue!Next
  <2>2. CASE Find # -1
    <3>1. StartGet("getline", Find) /\ Find \in 1 .. Avail
      BY <1>0, <1>5, <2>2, FindIsAvailable DEF GetLine
    <3>2. Find \in Nat
      BY <1>0, <3>1
    <3>3. /\ call' = "getline" /\ Queued = Contents
          /\ Returned' = SubSeq(Queued, 1, Find) /\ Queued' = SubSeq(Queued, Find + 1, Len(Queued))
      BY <3>1, <3>2, StartGetTakes
    <3>4. Find \in Queue!LineEnds /\ \A j \in Queue!LineEnds : Find <= j
      BY <1>0, <2>2, <3>3, FindIsFirstLineEnd
    <3>5. Queue!GetLine
      BY <3>3, <3>4 DEF Queue!GetLine, Queue!Take, Queued, Returned
    <3> QED
      BY <3>5 DEF Queue!Next
  <2> QED
    BY <2>1, <2>2
<1>6. CASE GetChunk
  <2>1. PICK n \in 1 .. want : /\ want' = want - n /\ want <= Avail
                               /\ out' = out \o SubSeq(Contents, 1, n)
                               /\ Avail' = Avail - n /\ Contents' = SubSeq(Contents, n + 1, Avail)
    BY <1>0, <1>6, GetChunkTakes
  <2>2. want \in 0 .. Len(Contents) /\ n \in 0 .. want
    BY <1>0, <2>1 DEF TypeOK
  <2>3. /\ SubSeq(Contents', want' + 1, Avail') = SubSeq(Contents, want + 1, Avail)
        /\ SubSeq(Contents, 1, n) \o SubSeq(Contents', 1, want') = SubSeq(Contents, 1, want)
    BY <1>0, <2>1, <2>2, TakeInTwo
  <2>4. input' = input /\ call' = call
    BY <1>6 DEF GetChunk
  <2>5. SubSeq(Contents, 1, n) \in Seq(Values) /\ SubSeq(Contents', 1, want') \in Seq(Values)
    <3>1. Contents' \in Seq(Values) /\ Len(Contents') = Avail' /\ want' <= Avail' /\ want' \in Nat
      BY <1>i, ContentsPrimed DEF ContentsSized, IInv, TypeOK, PointersSafe
    <3>2. n \in Nat /\ n <= Len(Contents)
      BY <1>0, <2>1, <2>2
    <3> QED
      BY <1>0, <3>1, <3>2
  <2>6. Returned' = Returned
    <3>1. (out \o SubSeq(Contents, 1, n)) \o SubSeq(Contents', 1, want')
            = out \o (SubSeq(Contents, 1, n) \o SubSeq(Contents', 1, want'))
      BY <1>0, <2>5, ConcatAssociative
    <3> QED
      BY <2>1, <2>3, <3>1 DEF Returned
  <2>7. Queued' = Queued
    BY <2>3, <2>4 DEF Queued
  <2> QED
    BY <2>4, <2>6, <2>7
<1>7. CASE EndGet
  <2>1. Contents' = Contents /\ Avail' = Avail
    BY <1>7, SameContents DEF EndGet
  <2>2. want' = want
    <3>1. getPtr = putPtr => Avail = 0
      BY <1>0, Positions
    <3>2. want \in Nat /\ want <= Avail
      BY <1>0 DEF TypeOK, PointersSafe
    <3> QED
      BY <1>7, <3>1, <3>2 DEF EndGet
  <2> QED
    BY <1>7, <2>1, <2>2 DEF EndGet, Queued, Returned
<1>8. CASE UNCHANGED vars
  <2>1. Contents' = Contents /\ Avail' = Avail
    BY <1>8, SameContents DEF vars
  <2> QED
    BY <1>8, <2>1 DEF vars, Queued, Returned
<1> QED
  BY <1>1, <1>2, <1>3, <1>4, <1>5, <1>6, <1>7, <1>8 DEF Next

\* However long the blocks are and whatever they held before, get() and
\* getline() return the bytes that were put, in order, each once.
THEOREM BufferImplementsQueue == Spec => ImplementsQueue
<1>1. RInv /\ [Next]_vars => [Queue!Next]_<<SubSeq(Contents, want + 1, Avail) \o input, call,
                                            out \o SubSeq(Contents, 1, want)>>
  BY QueueStep DEF Queued, Returned
<1> QED
  BY QueueInit, QueueInv, <1>1, PTL DEF Spec, ImplementsQueue, Queue!Spec
-----------------------------------------------------------------------------
(***************************************************************************)
(* The loops of avail() and find().  A loop over the blocks is a recursive *)
(* function; what it yields from each block on is given, shown to satisfy  *)
(* the recursion, and to be the only function that does.                   *)
(***************************************************************************)
\* Two functions that agree on n, and on each number if they agree on the next.
LEMMA Downward ==
  ASSUME NEW n \in Nat, NEW f, NEW g, f[n] = g[n],
         \A b \in 0 .. n - 1 : f[b + 1] = g[b + 1] => f[b] = g[b]
  PROVE  f[0] = g[0]
<1> DEFINE Agree == {b \in 0 .. n : f[b] = g[b]}
<1>1. PICK m \in Agree : \A j \in Agree : m <= j
  <2>1. Agree \in SUBSET Nat /\ n \in Agree
    OBVIOUS
  <2> HIDE DEF Agree
  <2> QED
    BY <2>1, SmallestOf
<1>2. m \in 0 .. n /\ f[m] = g[m]
  OBVIOUS
<1>3. CASE m = 0
  BY <1>2, <1>3
<1>4. CASE m # 0
  <2>1. m - 1 \in 0 .. n - 1 /\ (m - 1) + 1 = m
    BY <1>2, <1>4
  <2>2. f[m - 1] = g[m - 1]
    BY <1>2, <2>1
  <2>3. m - 1 \in Agree
    BY <2>1, <2>2
  <2> QED
    BY <1>1, <1>2, <2>1, <2>3
<1> QED
  BY <1>3, <1>4

\* The pointers and the parts of the blocks, for the loops.
LEMMA Parts ==
  ASSUME TypeOK, PointersSafe
  PROVE  /\ getPtr.block = 0 /\ putPtr.block \in Nat /\ Len(blocks) = putPtr.block + 1
         /\ BlockSize \in Nat \ {0}
         /\ \A b \in 0 .. putPtr.block :
              /\ Begin(b) \in 0 .. BlockSize /\ End(b) \in 0 .. BlockSize /\ Begin(b) <= End(b)
              /\ b # 0 => Begin(b) = 0
              /\ b # putPtr.block => End(b) = BlockSize
<1>1. /\ getPtr.block = 0 /\ putPtr.block \in Nat /\ Len(blocks) = putPtr.block + 1
      /\ BlockSize \in Nat \ {0}
      /\ getPtr.elem \in 0 .. BlockSize - 1 /\ putPtr.elem \in 0 .. BlockSize - 1
      /\ putPtr.block = 0 => getPtr.elem <= putPtr.elem
  BY BufferAssumption DEF TypeOK, PointersSafe, BlockPtr
<1>2. ASSUME NEW b \in 0 .. putPtr.block
      PROVE  /\ Begin(b) \in 0 .. BlockSize /\ End(b) \in 0 .. BlockSize /\ Begin(b) <= End(b)
             /\ b # 0 => Begin(b) = 0
             /\ b # putPtr.block => End(b) = BlockSize
  BY <1>1 DEF Begin, End
<1> QED
  BY <1>1, <1>2

\* avail() adds up to the distance of the pointers.
LEMMA AvailLoopIs ==
  ASSUME TypeOK, PointersSafe
  PROVE  AvailLoop = Avail
<1> DEFINE P == putPtr.block
           IsSum(f) == f = [b \in getPtr.block .. P + 1 |->
                              IF b > P THEN 0 ELSE End(b) - Begin(b) + f[b + 1]]
           Rest(b) == IF b > P THEN 0 ELSE (P - b) * BlockSize + putPtr.elem - Begin(b)
           g == [b \in 0 .. P + 1 |-> Rest(b)]
<1>1. /\ getPtr.block = 0 /\ P \in Nat /\ BlockSize \in Nat \ {0} /\ putPtr.elem \in Nat
      /\ Begin(0) = getPtr.elem /\ End(P) = putPtr.elem
  BY Parts DEF Begin, End, TypeOK, BlockPtr
<1>2. \A b \in 0 .. P : Rest(b) = End(b) - Begin(b) + Rest(b + 1)
  <2> TAKE b \in 0 .. P
  <2>1. Begin(b) \in Nat /\ End(b) \in Nat /\ (b # P => End(b) = BlockSize)
    BY Parts
  <2>2. CASE b = P
    BY <1>1, <2>1, <2>2
  <2>3. CASE b # P
    <3>1. Begin(b + 1) = 0 /\ b + 1 \in 0 .. P
      BY <1>1, <2>3, Parts
    <3>2. PICK d \in Nat : d = P - (b + 1)
      BY <1>1, <3>1
    <3>3. P - b = d + 1 /\ (d + 1) * BlockSize = d * BlockSize + BlockSize /\ d * BlockSize \in Nat
      BY <1>1, <3>2
    <3>4. Rest(b) = d * BlockSize + BlockSize + putPtr.elem - Begin(b)
      BY <1>1, <3>3
    <3>5. Rest(b + 1) = d * BlockSize + putPtr.elem
      BY <1>1, <3>1, <3>2, <3>3
    <3> QED
      BY <1>1, <2>1, <2>3, <3>3, <3>4, <3>5
  <2> QED
    BY <2>2, <2>3
<1>3. Rest(P + 1) = 0
  BY <1>1
<1> HIDE DEF Rest
<1>4. IsSum(g)
  <2>1. \A b \in 0 .. P : b + 1 \in 0 .. P + 1 /\ ~(b > P)
    BY <1>1
  <2>2. \A b \in 0 .. P + 1 : g[b] = IF b > P THEN 0 ELSE End(b) - Begin(b) + g[b + 1]
    <3> TAKE b \in 0 .. P + 1
    <3>1. CASE b = P + 1
      BY <1>1, <1>3, <3>1
    <3>2. CASE b # P + 1
      BY <1>1, <1>2, <2>1, <3>2
    <3> QED
      BY <3>1, <3>2
  <2> QED
    BY <1>1, <2>2
<1> DEFINE f == CHOOSE h : IsSum(h)
<1>5. IsSum(f)
  BY <1>4
<1>6. AvailLoop = f[0]
  BY <1>1 DEF AvailLoop
<1> HIDE DEF f
<1>7. f[0] = g[0]
  <2>1. \A b \in 0 .. P + 1 : f[b] = IF b > P THEN 0 ELSE End(b) - Begin(b) + f[b + 1]
    BY <1>1, <1>5
  <2>2. \A b \in 0 .. P + 1 : g[b] = IF b > P THEN 0 ELSE End(b) - Begin(b) + g[b + 1]
    BY <1>1, <1>4
  <2> HIDE DEF g
  <2>3. f[P + 1] = g[P + 1]
    BY <1>1, <2>1, <2>2
  <2>4. \A b \in 0 .. P : f[b + 1] = g[b + 1] => f[b] = g[b]
    BY <1>1, <2>1, <2>2
  <2>5. P + 1 \in Nat /\ (P + 1) - 1 = P
    BY <1>1
  <2> QED
    BY <2>3, <2>4, <2>5, Downward
<1>8. Rest(0) = P * BlockSize + putPtr.elem - getPtr.elem
  BY <1>1 DEF Rest
<1> QED
  BY <1>1, <1>6, <1>7, <1>8, AvailIs

\* Where the bytes of a block lie among those of the buffer.
LEMMA BlockLies ==
  ASSUME TypeOK, PointersSafe, NEW b \in 0 .. putPtr.block
  PROVE  \E m \in Nat :
           /\ m = b * BlockSize
           /\ Position(getPtr) <= m + Begin(b) /\ m + End(b) <= Position(putPtr)
           /\ b = 0 => m + Begin(b) = Position(getPtr)
           /\ b = putPtr.block => m + End(b) = Position(putPtr)
           /\ b # putPtr.block => m + End(b) = (b + 1) * BlockSize + Begin(b + 1)
<1> DEFINE P == putPtr.block
<1>1. /\ getPtr.block = 0 /\ P \in Nat /\ BlockSize \in Nat \ {0}
      /\ Begin(b) \in 0 .. BlockSize /\ End(b) \in 0 .. BlockSize /\ Begin(b) <= End(b)
      /\ (b # 0 => Begin(b) = 0) /\ (b # P => End(b) = BlockSize)
      /\ Begin(0) = getPtr.elem /\ End(P) = putPtr.elem
  BY Parts DEF Begin, End
<1>2. /\ Position(getPtr) = getPtr.elem /\ getPtr.elem \in 0 .. BlockSize - 1
      /\ Position(putPtr) = P * BlockSize + putPtr.elem /\ putPtr.elem \in 0 .. BlockSize - 1
  BY Positions
<1>3. PICK m \in Nat : m = b * BlockSize
  BY <1>1
<1>4. b = 0 => m = 0
  BY <1>1, <1>3
<1>5. b # 0 => m >= BlockSize
  <2> SUFFICES ASSUME b # 0 PROVE m >= BlockSize
    OBVIOUS
  <2>1. PICK d \in Nat : b = d + 1
    <3>1. b - 1 \in Nat
      BY <1>1
    <3> QED
      BY <3>1
  <2>2. b * BlockSize = d * BlockSize + BlockSize /\ d * BlockSize \in Nat
    BY <1>1, <2>1
  <2> QED
    BY <1>1, <1>3, <2>2
<1>6. Position(getPtr) <= m + Begin(b)
  BY <1>1, <1>2, <1>4, <1>5
<1>7. b = 0 => m + Begin(b) = Position(getPtr)
  BY <1>1, <1>2, <1>4
<1>8. b = P => m + End(b) = Position(putPtr)
  BY <1>1, <1>2, <1>3
<1>9. CASE b = P
  <2>1. m + End(b) <= Position(putPtr)
    BY <1>1, <1>8, <1>9
  <2> QED
    BY <1>3, <1>6, <1>7, <1>8, <1>9, <2>1
<1>10. CASE b # P
  <2>1. (b + 1) * BlockSize = m + BlockSize
    BY <1>1, <1>3
  <2>2. Begin(b + 1) = 0 /\ b + 1 \in 0 .. P
    BY <1>1, <1>10, Parts
  <2>3. PICK d \in Nat : P = b + 1 + d
    <3>1. P - (b + 1) \in Nat /\ P = b + 1 + (P - (b + 1))
      BY <1>1, <2>2
    <3> HIDE DEF P
    <3> QED
      BY <3>1
  <2>4. P * BlockSize = m + BlockSize + d * BlockSize /\ d * BlockSize \in Nat
    BY <1>1, <1>3, <2>1, <2>3
  <2>5. m + End(b) <= Position(putPtr)
    BY <1>1, <1>2, <1>10, <2>4
  <2>6. m + End(b) = (b + 1) * BlockSize + Begin(b + 1)
    BY <1>1, <1>10, <2>1, <2>2
  <2> QED
    BY <1>3, <1>6, <1>7, <1>10, <2>5, <2>6
<1> QED
  BY <1>9, <1>10

\* The newlines from a block on, and the first of them.
NewlinesFrom(b) == {k \in NewlinesAt : k >= b * BlockSize + Begin(b)}
IsLeast(k, S) == k \in S /\ \A j \in S : k <= j
LeastOf(S) == CHOOSE k : IsLeast(k, S)

LEMMA LeastOfIs ==
  ASSUME NEW S \in SUBSET Nat, NEW k, IsLeast(k, S)
  PROVE  LeastOf(S) = k
<1>1. IsLeast(LeastOf(S), S)
  BY DEF LeastOf
<1>2. LeastOf(S) \in Nat /\ k \in Nat /\ LeastOf(S) <= k /\ k <= LeastOf(S)
  BY <1>1 DEF IsLeast
<1> QED
  BY <1>2

\* A newline from a block on is in that block or in a later one.
LEMMA FindInBlockIs ==
  ASSUME TypeOK, PointersSafe, NEW b \in 0 .. putPtr.block
  PROVE  /\ FindInBlock(b) = -1 /\ b = putPtr.block => NewlinesFrom(b) = {}
         /\ FindInBlock(b) = -1 /\ b # putPtr.block => NewlinesFrom(b) = NewlinesFrom(b + 1)
         /\ FindInBlock(b) # -1 =>
              /\ FindInBlock(b) \in Begin(b) .. End(b) - 1
              /\ IsLeast(b * BlockSize + FindInBlock(b), NewlinesFrom(b))
<1>1. PICK m \in Nat :
        /\ m = b * BlockSize
        /\ Position(getPtr) <= m + Begin(b) /\ m + End(b) <= Position(putPtr)
        /\ b = 0 => m + Begin(b) = Position(getPtr)
        /\ b = putPtr.block => m + End(b) = Position(putPtr)
        /\ b # putPtr.block => m + End(b) = (b + 1) * BlockSize + Begin(b + 1)
  BY BlockLies
<1>2. /\ Begin(b) \in Nat /\ End(b) \in Nat /\ Begin(b) <= End(b) /\ End(b) <= BlockSize
      /\ BlockSize \in Nat \ {0} /\ b \in Nat
      /\ Position(getPtr) \in Nat /\ Position(putPtr) \in Nat
  BY Parts, Positions
<1> DEFINE at == {i \in Begin(b) .. End(b) - 1 : blocks[b + 1][i] = Newline}
<1>3. \A i \in Begin(b) .. End(b) - 1 : m + i \in NewlinesFrom(b) <=> i \in at
  <2> TAKE i \in Begin(b) .. End(b) - 1
  <2>1. i \in 0 .. BlockSize - 1
    BY <1>2
  <2>2. Cell(m + i) = blocks[b + 1][i]
    BY <1>1, <1>2, <2>1, BlockAndElem DEF Cell
  <2>3. m + i \in Position(getPtr) .. Position(putPtr) - 1
    BY <1>1, <1>2
  <2>4. m + i >= b * BlockSize + Begin(b)
    BY <1>1, <1>2
  <2> QED
    BY <2>2, <2>3, <2>4 DEF NewlinesFrom, NewlinesAt
<1>4. \A k \in NewlinesFrom(b) : k \in Nat /\ k >= m + Begin(b) /\ k < Position(putPtr)
  BY <1>1, <1>2 DEF NewlinesFrom, NewlinesAt
<1>5. \A k \in NewlinesFrom(b) : k < m + End(b) => k - m \in at
  <2> TAKE k \in NewlinesFrom(b)
  <2> HAVE k < m + End(b)
  <2>1. k - m \in Begin(b) .. End(b) - 1 /\ m + (k - m) = k
    BY <1>2, <1>4
  <2> QED
    BY <1>3, <2>1
<1>6. at \in SUBSET Nat
  BY <1>2
<1>7. CASE at = {}
  <2>1. FindInBlock(b) = -1
    BY <1>7 DEF FindInBlock
  <2> HIDE DEF at
  <2>2. \A k \in NewlinesFrom(b) : k >= m + End(b)
    BY <1>2, <1>4, <1>5, <1>7
  <2>3. b = putPtr.block => NewlinesFrom(b) = {}
    BY <1>1, <1>2, <1>4, <2>2
  <2>4. b # putPtr.block => NewlinesFrom(b) = NewlinesFrom(b + 1)
    <3> SUFFICES ASSUME b # putPtr.block PROVE NewlinesFrom(b) = NewlinesFrom(b + 1)
      OBVIOUS
    <3>1. m + End(b) = (b + 1) * BlockSize + Begin(b + 1)
      BY <1>1
    <3>2. NewlinesFrom(b + 1) = {k \in NewlinesAt : k >= m + End(b)}
      BY <3>1 DEF NewlinesFrom
    <3>3. NewlinesFrom(b) = {k \in NewlinesAt : k >= m + Begin(b)}
      BY <1>1 DEF NewlinesFrom
    <3>4. \A k \in NewlinesAt : k \in Nat
      BY <1>2 DEF NewlinesAt
    <3>5. \A k \in NewlinesAt : k >= m + End(b) => k >= m + Begin(b)
      BY <1>2, <3>4
    <3> QED
      BY <2>2, <3>2, <3>3, <3>5
  <2> QED
    BY <2>1, <2>3, <2>4
<1>8. CASE at # {}
  <2> DEFINE i == CHOOSE n \in at : \A j \in at : n <= j
  <2>1. FindInBlock(b) = i
    BY <1>8 DEF FindInBlock
  <2> HIDE DEF at
  <2>2. i \in at /\ \A j \in at : i <= j
    BY <1>6, <1>8, SmallestOf
  <2> HIDE DEF i
  <2>3. i \in Begin(b) .. End(b) - 1 /\ i \in Nat
    BY <1>6, <2>2 DEF at
  <2>4. m + i \in NewlinesFrom(b)
    BY <1>3, <2>2, <2>3
  <2>5. \A k \in NewlinesFrom(b) : m + i <= k
    <3> TAKE k \in NewlinesFrom(b)
    <3>1. CASE k < m + End(b)
      <4>1. k - m \in at /\ k \in Nat
        BY <1>4, <1>5, <3>1
      <4>2. i <= k - m
        BY <2>2, <4>1
      <4> QED
        BY <2>3, <4>1, <4>2
    <3>2. CASE ~(k < m + End(b))
      BY <1>2, <1>4, <2>3, <3>2
    <3> QED
      BY <3>1, <3>2
  <2>6. i # -1
    BY <2>3
  <2> QED
    BY <1>1, <2>1, <2>3, <2>4, <2>5, <2>6 DEF IsLeast
<1> QED
  BY <1>7, <1>8

\* What find() does with one block, next being what it does from the next on.
FindRound(b, next) ==
  [len \in Nat |->
     IF b = Len(blocks) THEN -1
     ELSE IF FindInBlock(b) = -1 THEN next[len + End(b) - Begin(b)]
     ELSE len + FindInBlock(b) - Begin(b) + 1]

\* find() counts up to the first newline between the pointers.
LEMMA FindLoopIs ==
  ASSUME TypeOK, PointersSafe
  PROVE  FindLoop = Find
<1> DEFINE IsSearch(f) ==
             f = [b \in getPtr.block .. Len(blocks) |-> FindRound(b, f[b + 1])]
           Ahead(b) == LeastOf(NewlinesFrom(b)) - (b * BlockSize + Begin(b)) + 1
           Counted(b, len) ==
             IF b = Len(blocks) \/ NewlinesFrom(b) = {} THEN -1 ELSE len + Ahead(b)
           g == [b \in 0 .. Len(blocks) |-> [len \in Nat |-> Counted(b, len)]]
<1>0. PICK P \in Nat : P = putPtr.block /\ P + 1 = Len(blocks)
  BY Parts
<1>1. /\ getPtr.block = 0 /\ Len(blocks) = P + 1 /\ BlockSize \in Nat \ {0}
      /\ \A b \in 0 .. P : /\ Begin(b) \in Nat /\ End(b) \in Nat
                          /\ b # P + 1 /\ b + 1 \in 0 .. P + 1 /\ b \in 0 .. P + 1 /\ b \in Nat
      /\ \A b \in 0 .. P : \A len \in Nat : len + End(b) - Begin(b) \in Nat
  <2>1. \A b \in 0 .. P : Begin(b) \in Nat /\ End(b) \in Nat /\ Begin(b) <= End(b)
    BY <1>0, Parts
  <2>2. \A b \in 0 .. P : \A len \in Nat : len + End(b) - Begin(b) \in Nat
    <3> TAKE b \in 0 .. P
    <3> TAKE len \in Nat
    <3> QED
      BY <2>1
  <2>3. \A b \in 0 .. P : b # P + 1 /\ b + 1 \in 0 .. P + 1 /\ b \in 0 .. P + 1 /\ b \in Nat
    OBVIOUS
  <2> QED
    BY <1>0, <2>1, <2>2, <2>3, Parts
<1>2. \A S \in SUBSET NewlinesAt : S \in SUBSET Nat
  BY Positions DEF NewlinesAt
<1>3. \A b \in 0 .. P : \A len \in Nat :
        Counted(b, len) = IF FindInBlock(b) = -1 THEN Counted(b + 1, len + End(b) - Begin(b))
                        ELSE len + FindInBlock(b) - Begin(b) + 1
  <2> TAKE b \in 0 .. P
  <2> TAKE len \in Nat
  <2>0. NewlinesFrom(b) \in SUBSET Nat
    BY <1>2 DEF NewlinesFrom
  <2>1. PICK m \in Nat : m = b * BlockSize
    BY <1>1
  <2>2. CASE FindInBlock(b) = -1 /\ b = P
    BY <1>0, <1>1, <2>2, FindInBlockIs
  <2>3. CASE FindInBlock(b) = -1 /\ b # P
    <3>0. b + 1 # P + 1 /\ b + 1 # Len(blocks) /\ b # Len(blocks)
      BY <1>1, <2>3
    <3>1. NewlinesFrom(b) = NewlinesFrom(b + 1)
      BY <1>0, <2>3, FindInBlockIs
    <3>2. CASE NewlinesFrom(b) = {}
      BY <1>1, <2>3, <3>1, <3>2
    <3>3. CASE NewlinesFrom(b) # {}
      <4>1. PICK k \in Nat : LeastOf(NewlinesFrom(b)) = k
        <5>1. PICK k \in NewlinesFrom(b) : \A j \in NewlinesFrom(b) : k <= j
          BY <2>0, <3>3, SmallestOf
        <5>2. IsLeast(k, NewlinesFrom(b)) /\ k \in Nat
          BY <2>0, <5>1 DEF IsLeast
        <5> QED
          BY <2>0, <5>2, LeastOfIs
      <4>2. m + End(b) = (b + 1) * BlockSize + Begin(b + 1)
        BY <1>0, <2>1, <2>3, BlockLies
      <4>3. Ahead(b) = k - (m + Begin(b)) + 1 /\ Ahead(b + 1) = k - (m + End(b)) + 1
        BY <2>1, <3>1, <4>1, <4>2
      <4>4. Begin(b) \in Nat /\ End(b) \in Nat
        BY <1>1
      <4> HIDE DEF Ahead
      <4>5. len + Ahead(b) = len + End(b) - Begin(b) + Ahead(b + 1)
        BY <4>3, <4>4
      <4>6. Counted(b, len) = len + Ahead(b)
            /\ Counted(b + 1, len + End(b) - Begin(b)) = len + End(b) - Begin(b) + Ahead(b + 1)
        BY <3>0, <3>1, <3>3
      <4> QED
        BY <2>3, <4>5, <4>6
    <3> QED
      BY <3>2, <3>3
  <2>4. CASE FindInBlock(b) # -1
    <3>1. PICK i \in Nat : i = FindInBlock(b)
      BY <1>0, <1>1, <2>4, FindInBlockIs
    <3>2. IsLeast(m + i, NewlinesFrom(b))
      BY <1>0, <2>1, <2>4, <3>1, FindInBlockIs
    <3>3. LeastOf(NewlinesFrom(b)) = m + i /\ NewlinesFrom(b) # {}
      BY <2>0, <3>2, LeastOfIs DEF IsLeast
    <3>4. Begin(b) \in Nat /\ b # Len(blocks)
      BY <1>1
    <3>5. Ahead(b) = m + i - (m + Begin(b)) + 1
      BY <2>1, <3>3, <3>4
    <3> HIDE DEF Ahead
    <3>6. len + Ahead(b) = len + i - Begin(b) + 1
      BY <3>5, <3>4
    <3>7. Counted(b, len) = len + Ahead(b)
      BY <3>3, <3>4
    <3> QED
      BY <2>4, <3>1, <3>6, <3>7
  <2> QED
    BY <2>2, <2>3, <2>4
<1>4. \A len \in Nat : Counted(P + 1, len) = -1
  BY <1>1
<1> DEFINE f == CHOOSE h : IsSearch(h)
<1>5. FindLoop = f[getPtr.block][0]
  BY DEF FindLoop, FindRound
<1>6. Find = Counted(0, 0)
  <2>1. PICK e \in Nat : e = 0 * BlockSize + Begin(0) /\ e = Position(getPtr)
    <3>1. 0 \in 0 .. putPtr.block /\ 0 * BlockSize = 0
      BY <1>0, <1>1
    <3>2. PICK m \in Nat : m = 0 * BlockSize /\ m + Begin(0) = Position(getPtr)
      BY <3>1, BlockLies
    <3> QED
      BY <3>1, <3>2, Positions
  <2>2. NewlinesFrom(0) = NewlinesAt
    BY <2>1, Positions DEF NewlinesFrom, NewlinesAt
  <2>3. CASE NewlinesAt = {}
    BY <2>2, <2>3 DEF Find
  <2>4. CASE NewlinesAt # {}
    <3>1. PICK k \in NewlinesAt : \A j \in NewlinesAt : k <= j
      BY <1>2, <2>4, SmallestOf
    <3>2. LeastOf(NewlinesAt) \in NewlinesAt
          /\ LeastOf(NewlinesAt) = CHOOSE n \in NewlinesAt : \A j \in NewlinesAt : n <= j
      BY <3>1 DEF LeastOf, IsLeast
    <3>3. PICK n \in Nat : n = LeastOf(NewlinesAt)
      BY <1>2, <3>2
    <3>4. Find = 1 - e + n
      BY <2>1, <2>4, <3>2, <3>3 DEF Find
    <3>5. 0 # Len(blocks) /\ Ahead(0) = n - e + 1
      BY <1>1, <2>1, <2>2, <3>3
    <3>6. Counted(0, 0) = 0 + Ahead(0)
      BY <2>2, <2>4, <3>5
    <3> HIDE DEF Ahead, Counted
    <3> QED
      BY <3>4, <3>5, <3>6
  <2> QED
    BY <2>3, <2>4
<1> HIDE DEF Counted
<1>7. IsSearch(g)
  <2>1. \A b \in 0 .. P + 1 : g[b] = [len \in Nat |-> Counted(b, len)]
    BY <1>1
  <2> HIDE DEF g
  <2>2. \A b \in 0 .. P + 1 : [len \in Nat |-> Counted(b, len)] = FindRound(b, g[b + 1])
    <3> TAKE b \in 0 .. P + 1
    <3>1. CASE b = P + 1
      BY <1>1, <1>4, <3>1 DEF FindRound
    <3>2. CASE b # P + 1
      <4>1. b \in 0 .. P
        BY <3>2
      <4>2. \A len \in Nat :
              Counted(b, len) = IF FindInBlock(b) = -1 THEN g[b + 1][len + End(b) - Begin(b)]
                                ELSE len + FindInBlock(b) - Begin(b) + 1
        <5> TAKE len \in Nat
        <5> DEFINE next == len + End(b) - Begin(b)
        <5>1. next \in Nat /\ b + 1 \in 0 .. P + 1
          BY <1>1, <4>1
        <5>2. Counted(b, len) = IF FindInBlock(b) = -1 THEN Counted(b + 1, next)
                                ELSE len + FindInBlock(b) - Begin(b) + 1
          BY <1>3, <4>1
        <5> HIDE DEF next
        <5>3. g[b + 1][next] = Counted(b + 1, next)
          BY <2>1, <5>1
        <5>4. Counted(b, len) = IF FindInBlock(b) = -1 THEN g[b + 1][next]
                                ELSE len + FindInBlock(b) - Begin(b) + 1
          BY <5>2, <5>3
        <5> QED
          BY <5>4 DEF next
      <4>3. b # Len(blocks)
        BY <1>1, <4>1
      <4> QED
        BY <4>2, <4>3 DEF FindRound
    <3> QED
      BY <3>1, <3>2
  <2> QED
    BY <1>1, <2>2 DEF g
<1>8. IsSearch(f)
  BY <1>7
<1> HIDE DEF f
<1>9. f[0] = g[0]
  <2>1. \A b \in 0 .. P + 1 : f[b] = FindRound(b, f[b + 1])
    BY <1>1, <1>8
  <2>2. \A b \in 0 .. P + 1 : g[b] = FindRound(b, g[b + 1])
    BY <1>1, <1>7
  <2> HIDE DEF g
  <2>3. f[P + 1] = g[P + 1]
    <3>1. \A next : FindRound(P + 1, next) = [len \in Nat |-> -1]
      BY <1>1 DEF FindRound
    <3> QED
      BY <2>1, <2>2, <3>1
  <2>4. \A b \in 0 .. P : f[b + 1] = g[b + 1] => f[b] = g[b]
    BY <1>1, <2>1, <2>2
  <2>5. PICK n \in Nat : n = P + 1 /\ n - 1 = P
    OBVIOUS
  <2>6. f[n] = g[n] /\ \A b \in 0 .. n - 1 : f[b + 1] = g[b + 1] => f[b] = g[b]
    BY <2>3, <2>4, <2>5
  <2> QED
    BY <2>6, Downward
<1>10. g[0][0] = Counted(0, 0)
  BY <1>1
<1> QED
  BY <1>1, <1>5, <1>6, <1>9, <1>10

\* For every block size and whatever the blocks hold, the loops of avail() and
\* find() count over the blocks what lies between the pointers.
THEOREM LoopsAreRight == Spec => []LoopsAgree
<1>1. IInv => LoopsAgree
  BY AvailLoopIs, FindLoopIs DEF IInv, LoopsAgree
<1> QED
  BY SafeInit, SafeStep, <1>1, PTL DEF Spec
=============================================================================
