------------------------- MODULE FileTransferProofs -------------------------
(***************************************************************************)
(* Proofs about transfers, for any number of sessions, directories and     *)
(* files, any contents, any ranges and any block size: what an undisturbed *)
(* transfer delivers, and what every transfer keeps to.                    *)
(***************************************************************************)
EXTENDS FileTransfer, TLAPS, FiniteSetTheorems, SequenceTheorems

Token == ({"header", "byte", "error", "prompt"} \X Nat) \cup ({"hash"} \X Seq(Int))

Transfers ==
  [state : {"idle", "pull", "push", "done"}, kind : {"none", "pull", "cat", "push", "failed"},
   dir : Nat, relative : BOOLEAN, inode : Nat, start : Nat, want : Nat, total : Nat,
   size : Nat, moved : Nat, pos : Nat]

Types ==
  /\ names \in [Dirs -> {0} \cup Inodes] /\ content \in [Inodes -> Seq(Nat)] /\ cwd \in Dirs
  /\ xfer \in [Sessions -> Transfers]
  /\ arrived \in [Sessions -> Nat] /\ got \in [Sessions -> Seq(Token)]
  /\ slice \in [Sessions -> Seq(Nat)]
  /\ disturbed \in [Sessions -> BOOLEAN]
  /\ cut \in [Sessions -> BOOLEAN] /\ short \in [Sessions -> BOOLEAN]
  /\ failed \in [Sessions -> BOOLEAN]

\* What a client has received before the first byte of its file.
Announced(x) == IF x.kind = "cat" THEN <<>> ELSE <<Header(x.size)>>

\* The range a pull has settled on, in a file f that is still the one it opened.
Settled(x, f) ==
  IF Len(f) <= x.start THEN x.size = 0 /\ x.pos = 0
  ELSE /\ x.size = IF x.want = 0 THEN Len(f) - x.start ELSE x.want
       /\ x.pos = x.start + x.moved

\* A session that has not begun.
Fresh(s) ==
  xfer[s].state = "idle" =>
    /\ got[s] = <<>> /\ arrived[s] = 0 /\ ~cut[s] /\ ~short[s]
    /\ xfer[s].kind = "none"

\* A pull knows what of the slice it has delivered.
Sliced(s) ==
  xfer[s].state = "pull" /\ ~disturbed[s] =>
    LET x == xfer[s]
        f == content[x.inode]
    IN  /\ slice[s] = Asked(f, x.start, x.want) /\ x.total = Len(f)
        /\ Settled(x, f)
        /\ x.moved <= Len(slice[s])
        /\ ~cut[s] => got[s] = Announced(x) \o Bytes(SubSeq(slice[s], 1, x.moved))

Downloading(s) ==
  xfer[s].state = "pull" => xfer[s].kind \in {"pull", "cat"} /\ xfer[s].inode \in Inodes

\* No more bytes are sent than have been read, or read than were announced.
Counted(s) ==
  xfer[s].kind \in {"pull", "cat"} =>
    /\ xfer[s].moved <= xfer[s].size
    /\ IsFiniteSet(BytesIn(got[s])) /\ Received(s) <= xfer[s].moved

\* A push that is not over has taken no more than has arrived.
Uploading(s) ==
  xfer[s].state = "push" =>
    /\ xfer[s].kind = "push" /\ xfer[s].inode \in Inodes /\ xfer[s].dir \in Dirs
    /\ xfer[s].moved <= arrived[s] /\ arrived[s] <= xfer[s].size
    /\ got[s] = <<>> /\ ~cut[s]

\* Its file is found by the path it was given, and holds what has been written:
\* a prefix of the payload unless a write fell short.
Stored(s) ==
  xfer[s].state = "push" /\ ~disturbed[s] =>
    LET x == xfer[s]
        f == content[x.inode]
    IN  /\ names[x.dir] = x.inode /\ (x.relative => cwd = x.dir)
        /\ Len(f) = x.pos
        /\ IF short[s] THEN x.pos < x.moved
           ELSE x.pos = x.moved /\ f = SubSeq(Payload(s, x.size), 1, x.moved)


\* The answers, session by session: PullExact and PushHashTells.
Delivered(s) ==
  Done(s) /\ Pulled(s) /\ ~disturbed[s] /\ ~cut[s] =>
    LET x == xfer[s]
    IN  /\ x.moved <= Len(slice[s])
        /\ got[s] = Announced(x) \o (Bytes(SubSeq(slice[s], 1, x.moved)) \o <<Prompt>>)
        /\ ~failed[s] => x.moved = Len(slice[s])
        /\ x.kind = "pull" /\ x.start + x.want <= x.total => x.size = Len(slice[s])

Told(s) ==
  Done(s) /\ xfer[s].kind = "push" /\ ~disturbed[s] /\ ~cut[s] =>
    /\ Len(got[s]) = 2 /\ got[s][1][1] = "hash" /\ got[s][2] = Prompt
    /\ got[s][1][2] = Payload(s, xfer[s].size) <=> ~short[s]

Going(s) ==
  /\ Fresh(s) /\ Downloading(s) /\ Sliced(s) /\ Counted(s) /\ Uploading(s) /\ Stored(s)
  /\ Delivered(s) /\ Told(s)

Inv == Types /\ \A s \in Sessions : Going(s)
-----------------------------------------------------------------------------
(***************************************************************************)
(* Files, as sequences of bytes.                                           *)
(***************************************************************************)
LEMMA LeastIs ==
  ASSUME NEW m \in Int, NEW n \in Int
  PROVE  /\ Least(m, n) \in Int /\ Least(m, n) <= m /\ Least(m, n) <= n
         /\ Least(m, n) = m \/ Least(m, n) = n
BY DEF Least

\* b is what a has after its first n.
Follows(b, a, n) == n + Len(b) <= Len(a) /\ \A j \in 1 .. Len(b) : b[j] = a[n + j]

\* What a read returns starts at its offset and ends with the file.
LEMMA ReadIs ==
  ASSUME NEW f \in Seq(Nat), NEW pos \in Nat, NEW n \in Nat
  PROVE  LET b == ReadAt(f, pos, n)
         IN  /\ b \in Seq(Nat) /\ Len(b) <= n
             /\ pos <= Len(f) => Len(b) = Least(Len(f) - pos, n) /\ Follows(b, f, pos)
             /\ pos >= Len(f) => b = <<>>
<1> DEFINE e == Least(Len(f), pos + n)
<1>1. e \in Nat /\ e <= Len(f) /\ e <= pos + n
  BY DEF Least
<1>2. ReadAt(f, pos, n) = SubSeq(f, pos + 1, e)
  BY DEF ReadAt
<1>3. pos <= Len(f) => e - pos = Least(Len(f) - pos, n) /\ e >= pos
  BY DEF Least
<1> HIDE DEF e
<1>4. /\ SubSeq(f, pos + 1, e) \in Seq(Nat)
      /\ Len(SubSeq(f, pos + 1, e)) = IF pos + 1 <= e THEN e - pos ELSE 0
      /\ \A j \in 1 .. Len(SubSeq(f, pos + 1, e)) : SubSeq(f, pos + 1, e)[j] = f[pos + j]
  BY <1>1, SubSeqProperties
<1>5. pos >= Len(f) => SubSeq(f, pos + 1, e) = <<>>
  BY <1>1, <1>4, SubSeqEmpty
<1> QED
  BY <1>1, <1>2, <1>3, <1>4, <1>5 DEF Follows

\* Two files with the same bytes are the same.
LEMMA SameFile ==
  ASSUME NEW T, NEW f \in Seq(T), NEW g \in Seq(T), Len(f) = Len(g),
         \A j \in 1 .. Len(f) : f[j] = g[j]
  PROVE  f = g
BY SeqEqual

\* The length of the slice is the size a pull settles on, as far as the file
\* goes.
LEMMA SliceIs ==
  ASSUME NEW f \in Seq(Nat), NEW start \in Nat, NEW want \in Nat
  PROVE  LET a == Asked(f, start, want)
         IN  /\ a \in Seq(Nat)
             /\ IF Len(f) <= start THEN a = <<>>
                ELSE /\ Follows(a, f, start)
                     /\ Len(a) = Least(Len(f) - start, IF want = 0 THEN Len(f) - start ELSE want)
<1>1. PICK n \in Nat : n = IF want = 0 THEN Len(f) ELSE want
  OBVIOUS
<1> DEFINE a == ReadAt(f, start, n)
<1>2. Asked(f, start, want) = a
  BY <1>1 DEF Asked
<1>3. /\ a \in Seq(Nat)
      /\ start <= Len(f) => Len(a) = Least(Len(f) - start, n) /\ Follows(a, f, start)
      /\ start >= Len(f) => a = <<>>
  BY ReadIs
<1> HIDE DEF a
<1>4. CASE Len(f) > start
  BY <1>1, <1>2, <1>3, <1>4 DEF Least
<1>5. CASE Len(f) <= start
  BY <1>2, <1>3, <1>5
<1> QED
  BY <1>4, <1>5

\* The beginning of a sequence.
LEMMA PrefixIs ==
  ASSUME NEW T, NEW a \in Seq(T), NEW n \in 0 .. Len(a)
  PROVE  /\ SubSeq(a, 1, n) \in Seq(T) /\ Len(SubSeq(a, 1, n)) = n
         /\ \A j \in 1 .. n : SubSeq(a, 1, n)[j] = a[j]
OBVIOUS

\* What follows a prefix makes a longer one.
LEMMA PrefixGrows ==
  ASSUME NEW T, NEW a \in Seq(T), NEW b \in Seq(T), NEW n \in Nat, Follows(b, a, n)
  PROVE  SubSeq(a, 1, n + Len(b)) = SubSeq(a, 1, n) \o b
<1> DEFINE u == SubSeq(a, 1, n)
           w == SubSeq(a, 1, n + Len(b))
<1>0. n + Len(b) \in 0 .. Len(a) /\ n \in 0 .. Len(a) /\ Len(b) \in Nat
  BY DEF Follows
<1>1. u \in Seq(T) /\ Len(u) = n /\ \A j \in 1 .. n : u[j] = a[j]
  BY <1>0, PrefixIs
<1>2. w \in Seq(T) /\ Len(w) = n + Len(b) /\ \A j \in 1 .. n + Len(b) : w[j] = a[j]
  BY <1>0, PrefixIs
<1> HIDE DEF u, w
<1>3. /\ u \o b \in Seq(T) /\ Len(u \o b) = n + Len(b)
      /\ \A j \in 1 .. n + Len(b) : (u \o b)[j] = IF j <= n THEN u[j] ELSE b[j - n]
  BY <1>1, ConcatProperties
<1>4. ASSUME NEW j \in 1 .. n + Len(b) PROVE w[j] = (u \o b)[j]
  <2>1. CASE j <= n
    BY <1>1, <1>2, <1>3, <2>1
  <2>2. CASE j > n
    <3>1. j - n \in 1 .. Len(b)
      BY <2>2, <1>0
    <3>2. b[j - n] = a[n + (j - n)]
      BY <3>1 DEF Follows
    <3>3. n + (j - n) = j
      BY <1>0
    <3> QED
      BY <3>2, <3>3, <2>2, <1>2, <1>3
  <2>3. j <= n \/ j > n
    BY <1>0
  <2> QED
    BY <2>1, <2>2, <2>3
<1>5. w = u \o b
  BY <1>2, <1>3, <1>4, SameFile
<1> QED
  BY <1>5 DEF u, w

\* Two parts of a file, one within the other.
LEMMA FollowsWithin ==
  ASSUME NEW f \in Seq(Nat), NEW a \in Seq(Nat), NEW b \in Seq(Nat), NEW start \in Nat,
         NEW n \in Nat, Follows(a, f, start), Follows(b, f, start + n), n + Len(b) <= Len(a)
  PROVE  Follows(b, a, n)
<1> SUFFICES ASSUME NEW j \in 1 .. Len(b) PROVE b[j] = a[n + j]
  BY DEF Follows
<1>1. n + j \in 1 .. Len(a) /\ start + (n + j) = (start + n) + j
  OBVIOUS
<1>2. a[n + j] = f[start + (n + j)]
  BY <1>1 DEF Follows
<1>3. b[j] = f[(start + n) + j]
  BY DEF Follows
<1> QED
  BY <1>1, <1>2, <1>3
-----------------------------------------------------------------------------
(***************************************************************************)
(* What is sent to a client.                                               *)
(***************************************************************************)
\* The bytes of a file as they are sent.
LEMMA BytesAre ==
  ASSUME NEW f \in Seq(Nat)
  PROVE  Bytes(f) \in Seq(Token) /\ Len(Bytes(f)) = Len(f)
         /\ \A j \in 1 .. Len(f) : Bytes(f)[j] = <<"byte", f[j]>>
<1>1. \A j \in 1 .. Len(f) : <<"byte", f[j]>> \in Token
  BY DEF Token
<1> QED
  BY <1>1 DEF Bytes

\* Sending two parts of a file is sending both.
LEMMA BytesConcat ==
  ASSUME NEW a \in Seq(Nat), NEW b \in Seq(Nat)
  PROVE  Bytes(a \o b) = Bytes(a) \o Bytes(b)
<1> DEFINE u == Bytes(a)
           v == Bytes(b)
           w == Bytes(a \o b)
<1>1. u \in Seq(Token) /\ Len(u) = Len(a) /\ \A j \in 1 .. Len(a) : u[j] = <<"byte", a[j]>>
  BY BytesAre
<1>2. v \in Seq(Token) /\ Len(v) = Len(b) /\ \A j \in 1 .. Len(b) : v[j] = <<"byte", b[j]>>
  BY BytesAre
<1>3. /\ a \o b \in Seq(Nat) /\ Len(a \o b) = Len(a) + Len(b)
      /\ \A j \in 1 .. Len(a) + Len(b) : (a \o b)[j] = IF j <= Len(a) THEN a[j] ELSE b[j - Len(a)]
  BY ConcatProperties
<1>4. w \in Seq(Token) /\ Len(w) = Len(a) + Len(b)
      /\ \A j \in 1 .. Len(a) + Len(b) : w[j] = <<"byte", (a \o b)[j]>>
  BY <1>3, BytesAre
<1> HIDE DEF u, v, w
<1>5. /\ u \o v \in Seq(Token) /\ Len(u \o v) = Len(a) + Len(b)
      /\ \A j \in 1 .. Len(a) + Len(b) : (u \o v)[j] = IF j <= Len(a) THEN u[j] ELSE v[j - Len(a)]
  BY <1>1, <1>2, ConcatProperties
<1>6. ASSUME NEW j \in 1 .. Len(a) + Len(b) PROVE w[j] = (u \o v)[j]
  <2>1. CASE j <= Len(a)
    <3>1. j \in 1 .. Len(a)
      BY <2>1
    <3> QED
      BY <3>1, <2>1, <1>1, <1>3, <1>4, <1>5
  <2>2. CASE ~(j <= Len(a))
    <3>1. j - Len(a) \in 1 .. Len(b)
      BY <2>2
    <3> QED
      BY <3>1, <2>2, <1>2, <1>3, <1>4, <1>5
  <2> QED
    BY <2>1, <2>2
<1>7. w = u \o v
  BY <1>4, <1>5, <1>6, SameFile
<1> QED
  BY <1>7 DEF u, v, w

\* What goes around the bytes of a file, and holds none of them.
LEMMA AroundBytes ==
  /\ <<>> \in Seq(Token) /\ BytesIn(<<>>) = {}
  /\ \A n \in Nat : <<Header(n)>> \in Seq(Token) /\ BytesIn(<<Header(n)>>) = {}
  /\ \A h \in Seq(Int) : <<Hash(h)>> \in Seq(Token) /\ BytesIn(<<Hash(h)>>) = {}
  /\ <<Prompt>> \in Seq(Token) /\ BytesIn(<<Prompt>>) = {}
  /\ <<Error>> \in Seq(Token) /\ BytesIn(<<Error>>) = {}
<1>1. <<>> \in Seq(Token) /\ BytesIn(<<>>) = {}
  BY DEF BytesIn
<1>2. ASSUME NEW t \in Token, t[1] # "byte" PROVE <<t>> \in Seq(Token) /\ BytesIn(<<t>>) = {}
  BY <1>2 DEF BytesIn
<1>3. \A n \in Nat : Header(n) \in Token /\ Header(n)[1] # "byte"
  BY DEF Token, Header
<1>4. \A h \in Seq(Int) : Hash(h) \in Token /\ Hash(h)[1] # "byte"
  BY DEF Token, Hash
<1>5. Prompt \in Token /\ Prompt[1] # "byte" /\ Error \in Token /\ Error[1] # "byte"
  BY DEF Token, Prompt, Error
<1> QED
  BY <1>1, <1>2, <1>3, <1>4, <1>5

\* A hash and the prompt can be told apart.
LEMMA HashThenPrompt ==
  ASSUME NEW h \in Seq(Int)
  PROVE  LET g == <<Hash(h)>> \o <<Prompt>>
         IN  Len(g) = 2 /\ g[1][1] = "hash" /\ g[1][2] = h /\ g[2] = Prompt
<1> DEFINE a == <<Hash(h)>>
           b == <<Prompt>>
<1>1. a \in Seq(Token) /\ Len(a) = 1 /\ a[1] = Hash(h)
  BY AroundBytes
<1>2. b \in Seq(Token) /\ Len(b) = 1 /\ b[1] = Prompt
  BY AroundBytes
<1> HIDE DEF a, b
<1>3. /\ Len(a \o b) = Len(a) + Len(b)
      /\ \A i \in 1 .. Len(a) + Len(b) : (a \o b)[i] = IF i <= Len(a) THEN a[i] ELSE b[i - Len(a)]
  BY <1>1, <1>2, ConcatProperties
<1>4. 1 \in 1 .. Len(a) + Len(b) /\ 2 \in 1 .. Len(a) + Len(b) /\ 2 - Len(a) = 1
      /\ 1 <= Len(a) /\ ~(2 <= Len(a))
  BY <1>1, <1>2
<1>5. Len(a \o b) = 2 /\ (a \o b)[1] = Hash(h) /\ (a \o b)[2] = Prompt
  BY <1>1, <1>2, <1>3, <1>4
<1> QED
  BY <1>5 DEF a, b, Hash

\* Two sends of which each may be cut short: the bytes that arrive are the
\* earlier ones and those of the first.
LEMMA SentIs ==
  ASSUME NEW v \in Seq(Token), NEW m \in Seq(Token), NEW n \in Seq(Token),
         NEW i \in 0 .. Len(m), NEW j \in 0 .. Len(n), BytesIn(n) = {},
         NEW q \in Nat, q = Len(m) \/ (q = 0 /\ BytesIn(m) = {})
  PROVE  LET w == v \o SubSeq(m, 1, i) \o SubSeq(n, 1, j)
         IN  /\ w \in Seq(Token)
             /\ ~(i + j < Len(m) + Len(n)) => w = v \o m \o n
             /\ BytesIn(w) \subseteq BytesIn(v) \cup (Len(v) + 1 .. Len(v) + q)
<1> DEFINE a == SubSeq(m, 1, i)
           b == SubSeq(n, 1, j)
<1>1. a \in Seq(Token) /\ Len(a) = i /\ \A k \in 1 .. i : a[k] = m[k]
  BY PrefixIs
<1>2. b \in Seq(Token) /\ Len(b) = j /\ \A k \in 1 .. j : b[k] = n[k]
  BY PrefixIs
<1>3. ~(i + j < Len(m) + Len(n)) => a = m /\ b = n
  <2> SUFFICES ASSUME ~(i + j < Len(m) + Len(n)) PROVE a = m /\ b = n
    OBVIOUS
  <2>1. i = Len(m) /\ j = Len(n)
    OBVIOUS
  <2> HIDE DEF a, b
  <2>2. a = m
    BY <2>1, <1>1, SameFile
  <2>3. b = n
    BY <2>1, <1>2, SameFile
  <2> QED
    BY <2>2, <2>3
<1> HIDE DEF a, b
<1>4. /\ v \o a \in Seq(Token) /\ Len(v \o a) = Len(v) + i
      /\ \A k \in 1 .. Len(v) + i : (v \o a)[k] = IF k <= Len(v) THEN v[k] ELSE a[k - Len(v)]
  BY <1>1, ConcatProperties
<1>5. PICK u \in Seq(Token) : u = v \o a
  BY <1>4
<1> DEFINE w == u \o b
<1>6. /\ w \in Seq(Token) /\ Len(w) = Len(u) + j
      /\ \A k \in 1 .. Len(u) + j : w[k] = IF k <= Len(u) THEN u[k] ELSE b[k - Len(u)]
  BY <1>2, ConcatProperties
<1> HIDE DEF w
<1>7. ASSUME NEW k \in BytesIn(w) PROVE k \in BytesIn(v) \cup (Len(v) + 1 .. Len(v) + q)
  <2>1. k \in 1 .. Len(u) + j /\ w[k][1] = "byte"
    BY <1>6 DEF BytesIn
  <2>2. CASE k > Len(u)
    <3>1. k - Len(u) \in 1 .. j /\ k - Len(u) \in 1 .. Len(n)
      BY <2>1, <2>2
    <3>2. w[k] = n[k - Len(u)]
      BY <3>1, <2>1, <2>2, <1>2, <1>6
    <3>3. k - Len(u) \in BytesIn(n)
      BY <3>1, <3>2, <2>1 DEF BytesIn
    <3> QED
      BY <3>3
  <2>3. CASE k <= Len(u) /\ k > Len(v)
    <3>1. k - Len(v) \in 1 .. i /\ k - Len(v) \in 1 .. Len(m)
      BY <2>1, <2>3, <1>4, <1>5
    <3>2. w[k] = m[k - Len(v)]
      BY <3>1, <2>1, <2>3, <1>1, <1>4, <1>5, <1>6
    <3>3. k - Len(v) \in BytesIn(m)
      BY <3>1, <3>2, <2>1 DEF BytesIn
    <3> QED
      BY <3>1, <3>3, <2>1
  <2>4. CASE k <= Len(u) /\ k <= Len(v)
    <3>1. k \in 1 .. Len(v) /\ w[k] = v[k]
      BY <2>1, <2>4, <1>4, <1>5, <1>6
    <3> QED
      BY <3>1, <2>1 DEF BytesIn
  <2> QED
    BY <2>1, <2>2, <2>3, <2>4
<1>8. /\ w \in Seq(Token)
      /\ ~(i + j < Len(m) + Len(n)) => w = v \o m \o n
      /\ BytesIn(w) \subseteq BytesIn(v) \cup (Len(v) + 1 .. Len(v) + q)
  <2>1. ~(i + j < Len(m) + Len(n)) => w = v \o m \o n
    BY <1>3, <1>5 DEF w
  <2> QED
    BY <1>6, <1>7, <2>1
<1> QED
  BY <1>5, <1>8 DEF w, a, b

\* The bytes received grow by no more than what is sent.
LEMMA Tally ==
  ASSUME NEW S, IsFiniteSet(S), NEW p \in Nat, NEW q \in Nat, NEW R,
         R \subseteq S \cup (p + 1 .. p + q)
  PROVE  IsFiniteSet(R) /\ Cardinality(R) <= Cardinality(S) + q
         /\ Cardinality(R) \in Nat /\ Cardinality(S) \in Nat
<1> DEFINE I == p + 1 .. p + q
           c == Cardinality(S \cap I)
<1>1. IsFiniteSet(I) /\ Cardinality(I) = q
  BY FS_Interval
<1>2. IsFiniteSet(S \cap I) /\ c \in Nat
  BY FS_Subset, FS_CardinalityType
<1>3. /\ IsFiniteSet(S \cup I)
      /\ Cardinality(S \cup I) = Cardinality(S) + Cardinality(I) - c
  BY <1>1, FS_Union
<1>4. IsFiniteSet(R) /\ Cardinality(R) <= Cardinality(S \cup I)
  BY <1>3, FS_Subset
<1>5. Cardinality(S) \in Nat /\ Cardinality(R) \in Nat
  BY <1>4, FS_CardinalityType
<1> HIDE DEF I, c
<1> QED
  BY <1>1, <1>2, <1>3, <1>4, <1>5
-----------------------------------------------------------------------------
(***************************************************************************)
(* The parts of a step.                                                    *)
(***************************************************************************)
\* A transfer that is over keeps what it was about.
LEMMA FinishIs ==
  ASSUME Types, NEW s \in Sessions, NEW x \in Transfers, Finish(s, x)
  PROVE  /\ xfer' \in [Sessions -> Transfers]
         /\ \A t \in Sessions \ {s} : xfer'[t] = xfer[t]
         /\ xfer'[s].state = "done" /\ xfer'[s].kind = x.kind /\ xfer'[s].start = x.start
         /\ xfer'[s].want = x.want /\ xfer'[s].total = x.total /\ xfer'[s].size = x.size
         /\ xfer'[s].moved = x.moved
<1> DEFINE y == [x EXCEPT !.state = "done", !.dir = 0, !.relative = FALSE, !.inode = 0, !.pos = 0]
<1>1. y \in Transfers /\ y.state = "done" /\ y.kind = x.kind /\ y.start = x.start
      /\ y.want = x.want /\ y.total = x.total /\ y.size = x.size /\ y.moved = x.moved
  BY DEF Transfers
<1>2. xfer' = [xfer EXCEPT ![s] = y]
  BY DEF Finish
<1> HIDE DEF y
<1> QED
  BY <1>1, <1>2 DEF Types

\* What two sends that may be cut short do to what the clients have received.
LEMMA SendIs ==
  ASSUME Types, NEW s \in Sessions, NEW m \in Seq(Token), NEW n \in Seq(Token), Send(s, m, n),
         BytesIn(n) = {}, NEW q \in Nat, q = Len(m) \/ (q = 0 /\ BytesIn(m) = {})
  PROVE  /\ got' \in [Sessions -> Seq(Token)] /\ cut' \in [Sessions -> BOOLEAN]
         /\ \A t \in Sessions \ {s} : got'[t] = got[t] /\ cut'[t] = cut[t]
         /\ ~cut'[s] => ~cut[s] /\ got'[s] = got[s] \o m \o n
         /\ IsFiniteSet(BytesIn(got[s])) =>
              /\ IsFiniteSet(BytesIn(got'[s]))
              /\ Cardinality(BytesIn(got'[s])) <= Cardinality(BytesIn(got[s])) + q
              /\ Cardinality(BytesIn(got'[s])) \in Nat /\ Cardinality(BytesIn(got[s])) \in Nat
<1>1. PICK i \in 0 .. Len(m), j \in 0 .. Len(n) :
        /\ got' = [got EXCEPT ![s] = @ \o SubSeq(m, 1, i) \o SubSeq(n, 1, j)]
        /\ cut' = [cut EXCEPT ![s] = @ \/ i + j < Len(m) + Len(n)]
  BY DEF Send
<1>2. got[s] \in Seq(Token)
  BY DEF Types
<1> DEFINE w == got[s] \o SubSeq(m, 1, i) \o SubSeq(n, 1, j)
<1>3. /\ w \in Seq(Token)
      /\ ~(i + j < Len(m) + Len(n)) => w = got[s] \o m \o n
      /\ BytesIn(w) \subseteq BytesIn(got[s]) \cup (Len(got[s]) + 1 .. Len(got[s]) + q)
  BY <1>2, SentIs
<1>4. got' = [got EXCEPT ![s] = w]
  BY <1>1
<1> HIDE DEF w
<1>5. got' \in [Sessions -> Seq(Token)] /\ got'[s] = w /\ \A t \in Sessions \ {s} : got'[t] = got[t]
  BY <1>3, <1>4 DEF Types
<1>6. /\ cut' \in [Sessions -> BOOLEAN] /\ \A t \in Sessions \ {s} : cut'[t] = cut[t]
      /\ ~cut'[s] => ~cut[s] /\ ~(i + j < Len(m) + Len(n))
  <2> DEFINE c == i + j < Len(m) + Len(n)
  <2>1. c \in BOOLEAN /\ cut' = [cut EXCEPT ![s] = cut[s] \/ c]
    BY <1>1
  <2> HIDE DEF c
  <2>2. cut \in [Sessions -> BOOLEAN]
    BY DEF Types
  <2>3. cut' \in [Sessions -> BOOLEAN] /\ (~cut'[s] => ~cut[s] /\ ~c)
        /\ \A t \in Sessions \ {s} : cut'[t] = cut[t]
    BY <2>1, <2>2
  <2> QED
    BY <2>3 DEF c
<1>7. IsFiniteSet(BytesIn(got[s])) =>
        /\ IsFiniteSet(BytesIn(w))
        /\ Cardinality(BytesIn(w)) <= Cardinality(BytesIn(got[s])) + q
        /\ Cardinality(BytesIn(w)) \in Nat /\ Cardinality(BytesIn(got[s])) \in Nat
  <2>1. Len(got[s]) \in Nat
    BY <1>2
  <2> QED
    BY <2>1, <1>3, Tally
<1> QED
  BY <1>3, <1>5, <1>6, <1>7

LEMMA SendsNoByte ==
  ASSUME Types, NEW s \in Sessions, NEW m \in Seq(Token), NEW n \in Seq(Token), Send(s, m, n),
         BytesIn(m) = {}, BytesIn(n) = {}
  PROVE  /\ got' \in [Sessions -> Seq(Token)] /\ cut' \in [Sessions -> BOOLEAN]
         /\ \A t \in Sessions \ {s} : got'[t] = got[t] /\ cut'[t] = cut[t]
         /\ ~cut'[s] => ~cut[s] /\ got'[s] = got[s] \o m \o n
         /\ IsFiniteSet(BytesIn(got[s])) =>
              /\ IsFiniteSet(BytesIn(got'[s]))
              /\ Cardinality(BytesIn(got'[s])) <= Cardinality(BytesIn(got[s]))
<1>1. PICK q \in Nat : q = 0
  OBVIOUS
<1>2. /\ got' \in [Sessions -> Seq(Token)] /\ cut' \in [Sessions -> BOOLEAN]
      /\ \A t \in Sessions \ {s} : got'[t] = got[t] /\ cut'[t] = cut[t]
      /\ ~cut'[s] => ~cut[s] /\ got'[s] = got[s] \o m \o n
      /\ IsFiniteSet(BytesIn(got[s])) =>
           /\ IsFiniteSet(BytesIn(got'[s]))
           /\ Cardinality(BytesIn(got'[s])) <= Cardinality(BytesIn(got[s])) + q
           /\ Cardinality(BytesIn(got'[s])) \in Nat /\ Cardinality(BytesIn(got[s])) \in Nat
  BY <1>1, SendIs
<1> QED
  BY <1>1, <1>2

\* A session keeps going if a step leaves its transfer and its client alone,
\* and the file as it is or else counts as a disturbance.
LEMMA KeepsGoing ==
  ASSUME NEW t \in Sessions, Going(t),
         xfer'[t] = xfer[t], got'[t] = got[t], arrived'[t] = arrived[t],
         slice'[t] = slice[t], cut'[t] = cut[t], short'[t] = short[t], failed'[t] = failed[t],
         disturbed[t] => disturbed'[t],
         Active(t) /\ ~disturbed'[t] => content'[xfer[t].inode] = content[xfer[t].inode],
         xfer[t].state = "push" /\ ~disturbed'[t] =>
           names'[xfer[t].dir] = names[xfer[t].dir]
           /\ (xfer[t].relative => cwd' = cwd \/ cwd' = xfer[t].dir)
  PROVE  Going(t)'
<1>1. Fresh(t)'
  BY DEF Going, Fresh
<1>2. Downloading(t)'
  BY DEF Going, Downloading
<1>3. Sliced(t)'
  BY DEF Going, Sliced, Active
<1>4. Counted(t)'
  BY DEF Going, Counted, Received
<1>5. Uploading(t)'
  BY DEF Going, Uploading
<1>6. Stored(t)'
  BY DEF Going, Stored, Active
<1>7. Delivered(t)'
  BY DEF Going, Delivered, Done, Pulled
<1>8. Told(t)'
  BY DEF Going, Told, Done
<1> QED
  BY <1>1, <1>2, <1>3, <1>4, <1>5, <1>6, <1>7, <1>8 DEF Going

LEMMA WithNothing ==
  ASSUME NEW T, NEW a \in Seq(T)
  PROVE  <<>> \o a = a /\ a \o <<>> = a
BY ConcatEmptySeq

\* Nothing is sent for nothing.
LEMMA NoBytes == Bytes(<<>>) = <<>>
BY DEF Bytes

\* What a pull begins with.
LEMMA OpenedIs ==
  ASSUME TransferAssumption, Types, NEW d \in Dirs, names[d] # 0,
         NEW kind \in {"pull", "cat"}, NEW start \in Nat, NEW want \in Nat
  PROVE  LET x == Opened(kind, d, start, want)
             f == content[names[d]]
         IN  /\ x \in Transfers /\ x.state = "pull" /\ x.kind = kind
             /\ x.inode = names[d] /\ names[d] \in Inodes /\ f \in Seq(Nat)
             /\ x.start = start /\ x.want = want /\ x.total = Len(f) /\ x.moved = 0
             /\ Settled(x, f)
<1>1. PICK i \in Inodes : i = names[d]
  BY DEF Types
<1>2. PICK f \in Seq(Nat) : f = content[i]
  BY <1>1 DEF Types
<1>3. i \in Nat /\ d \in Nat /\ Len(f) \in Nat
  BY <1>1 DEF TransferAssumption
<1> DEFINE x == [Idle EXCEPT !.state = "pull", !.kind = kind, !.dir = d,
                        !.inode = i, !.start = start, !.want = want, !.total = Len(f)]
<1>4. x \in Transfers /\ x.state = "pull" /\ x.kind = kind /\ x.inode = i
      /\ x.start = start /\ x.want = want /\ x.total = Len(f) /\ x.moved = 0
  BY <1>3 DEF Idle, Transfers
<1>5. Opened(kind, d, start, want) = Ranged(x, Len(f))
  BY <1>1, <1>2 DEF Opened
<1> HIDE DEF x
<1>6. CASE Len(f) <= start
  <2> DEFINE y == [x EXCEPT !.size = 0, !.pos = 0]
  <2>1. y \in Transfers /\ y.state = "pull" /\ y.kind = kind /\ y.inode = i
        /\ y.start = start /\ y.want = want /\ y.total = Len(f) /\ y.moved = 0
        /\ y.size = 0 /\ y.pos = 0
    BY <1>4 DEF Transfers
  <2>2. Ranged(x, Len(f)) = y
    BY <1>4, <1>6 DEF Ranged
  <2> HIDE DEF y
  <2> QED
    BY <1>1, <1>2, <1>5, <1>6, <2>1, <2>2 DEF Settled
<1>7. CASE ~(Len(f) <= start)
  <2>1. PICK z \in Nat : z = IF want = 0 THEN Len(f) - start ELSE want
    BY <1>3, <1>7
  <2> DEFINE y == [x EXCEPT !.size = z, !.pos = start]
  <2>2. y \in Transfers /\ y.state = "pull" /\ y.kind = kind /\ y.inode = i
        /\ y.start = start /\ y.want = want /\ y.total = Len(f) /\ y.moved = 0
        /\ y.size = z /\ y.pos = start
    BY <1>4 DEF Transfers
  <2>3. Ranged(x, Len(f)) = y
    BY <1>4, <1>7, <2>1 DEF Ranged
  <2> HIDE DEF y
  <2>4. start = start + 0
    OBVIOUS
  <2> QED
    BY <1>1, <1>2, <1>5, <1>7, <2>1, <2>2, <2>3, <2>4 DEF Settled
<1> QED
  BY <1>6, <1>7
-----------------------------------------------------------------------------
(***************************************************************************)
(* The steps of a session.                                                 *)
(***************************************************************************)
\* A session starts with nothing going on.
LEMMA InitGoing == ASSUME TransferAssumption, Init PROVE Inv
<1>1. \A i \in Inodes : content[i] \in Seq(Nat)
  <2> SUFFICES ASSUME NEW i \in Inodes PROVE content[i] \in Seq(Nat)
    OBVIOUS
  <2>1. \A j \in 1 .. MaxLen : 100 * i + j \in Nat
    BY DEF TransferAssumption
  <2>2. Original(i) \in Seq(Nat)
    BY <2>1 DEF Original, TransferAssumption
  <2>3. <<>> \in Seq(Nat)
    OBVIOUS
  <2> QED
    BY <2>2, <2>3 DEF Init
<1>2. cwd \in Dirs
  BY DEF Init, TransferAssumption
<1>3. Idle \in Transfers /\ Idle.state = "idle" /\ Idle.kind = "none"
  BY DEF Idle, Transfers
<1>4. Types
  <2>1. names \in [Dirs -> {0} \cup Inodes]
    BY DEF Init
  <2>2. content \in [Inodes -> Seq(Nat)]
    BY <1>1 DEF Init
  <2>3. <<>> \in Seq(Token) /\ <<>> \in Seq(Nat)
    OBVIOUS
  <2> QED
    BY <1>2, <1>3, <2>1, <2>2, <2>3 DEF Init, Types
<1>5. ASSUME NEW s \in Sessions PROVE Going(s)
  <2>1. xfer[s] = Idle /\ got[s] = <<>> /\ arrived[s] = 0 /\ ~cut[s] /\ ~short[s]
    BY DEF Init
  <2> QED
    BY <2>1, <1>3
    DEF Going, Fresh, Downloading, Sliced, Counted, Uploading, Stored, Delivered, Told, Done,
        Pulled
<1> QED
  BY <1>4, <1>5 DEF Inv

\* A download in a state it has just come to.
LEMMA OnlyDownloading ==
  ASSUME NEW s \in Sessions, xfer'[s].state = "pull", Downloading(s)', Sliced(s)', Counted(s)'
  PROVE  Going(s)'
BY DEF Going, Fresh, Uploading, Stored, Delivered, Told, Done, Downloading

LEMMA OnlyUploading ==
  ASSUME NEW s \in Sessions, xfer'[s].state = "push", Uploading(s)', Stored(s)'
  PROVE  Going(s)'
BY DEF Going, Fresh, Downloading, Sliced, Counted, Delivered, Told, Done, Uploading

LEMMA OnlyDone ==
  ASSUME NEW s \in Sessions, xfer'[s].state = "done", Counted(s)', Delivered(s)', Told(s)'
  PROVE  Going(s)'
BY DEF Going, Fresh, Downloading, Sliced, Uploading, Stored

\* What opening a file for pull or cat leads to.
LEMMA OpenPullGoing ==
  ASSUME TransferAssumption, Inv, NEW s \in Sessions, NEW kind \in {"pull", "cat"},
         NEW start \in Nat, NEW want \in Nat, OpenPull(s, kind, start, want)
  PROVE  Inv'
<1>1. PICK d \in Dirs :
        /\ names[d] # 0
        /\ LET x == Opened(kind, d, start, want)
           IN  /\ slice' = [slice EXCEPT ![s] = Asked(content[x.inode], start, want)]
               /\ IF kind = "cat"
                    THEN xfer' = [xfer EXCEPT ![s] = x] /\ UNCHANGED <<got, cut>>
                    ELSE IF x.size = 0
                      THEN Finish(s, x) /\ Send(s, <<Header(0)>>, <<Prompt>>)
                      ELSE /\ xfer' = [xfer EXCEPT ![s] = x]
                           /\ Send(s, <<Header(x.size)>>, <<>>)
  BY DEF OpenPull
<1>2. /\ Types /\ Going(s) /\ xfer[s].state = "idle"
      /\ UNCHANGED <<names, content, cwd, arrived, others, disturbed, short, failed>>
  BY DEF OpenPull, Inv, disk
<1>3. got[s] = <<>> /\ ~cut[s] /\ IsFiniteSet(BytesIn(got[s])) /\ Received(s) = 0
      /\ got[s] \in Seq(Token)
  BY <1>2, AroundBytes, FS_EmptySet DEF Going, Fresh, Received, Types
<1> DEFINE x == Opened(kind, d, start, want)
           f == content[names[d]]
           a == Asked(f, start, want)
<1>4. /\ x \in Transfers /\ x.state = "pull" /\ x.kind = kind
      /\ x.inode = names[d] /\ names[d] \in Inodes /\ f \in Seq(Nat)
      /\ x.start = start /\ x.want = want /\ x.total = Len(f) /\ x.moved = 0
      /\ Settled(x, f)
  BY <1>1, <1>2, OpenedIs
<1>5. a \in Seq(Nat) /\ (x.size = 0 => a = <<>>)
  <2>1. a \in Seq(Nat)
        /\ IF Len(f) <= start THEN a = <<>>
           ELSE Len(a) = Least(Len(f) - start, IF want = 0 THEN Len(f) - start ELSE want)
    BY <1>4, SliceIs
  <2>2. x.size = 0 => Len(f) <= start
    BY <1>4 DEF Settled
  <2> QED
    BY <2>1, <2>2
<1>6. slice' = [slice EXCEPT ![s] = a]
  BY <1>1, <1>4
<1>7. slice' \in [Sessions -> Seq(Nat)] /\ slice'[s] = a
      /\ \A t \in Sessions \ {s} : slice'[t] = slice[t]
  BY <1>2, <1>5, <1>6 DEF Types
<1>8. SubSeq(a, 1, 0) = <<>> /\ 0 <= Len(a)
  BY <1>5
<1>9. CASE xfer' = [xfer EXCEPT ![s] = x] /\ got' \in [Sessions -> Seq(Token)]
           /\ cut' \in [Sessions -> BOOLEAN]
           /\ (\A t \in Sessions \ {s} : got'[t] = got[t] /\ cut'[t] = cut[t])
           /\ (~cut'[s] => got'[s] = Announced(x))
           /\ IsFiniteSet(BytesIn(got'[s])) /\ Cardinality(BytesIn(got'[s])) <= 0
  <2> HIDE DEF x, f, a
  <2>1. xfer' \in [Sessions -> Transfers] /\ xfer'[s] = x
        /\ \A t \in Sessions \ {s} : xfer'[t] = xfer[t]
    BY <1>2, <1>4, <1>9 DEF Types
  <2>2. Types'
    BY <1>2, <1>7, <1>9, <2>1 DEF Types
  <2>3. ASSUME NEW t \in Sessions, t # s PROVE Going(t)'
    <3>1. Going(t)
      BY DEF Inv
    <3> QED
      BY <3>1, <2>3, <1>2, <1>7, <1>9, <2>1, KeepsGoing
  <2>4. Downloading(s)'
    BY <1>4, <2>1 DEF Downloading
  <2>5. Counted(s)'
    BY <1>4, <1>9, <2>1 DEF Counted, Received, Transfers
  <2>6. Sliced(s)'
    <3>1. content' = content /\ f = content[x.inode] /\ a = Asked(f, x.start, x.want)
      BY <1>2, <1>4 DEF f, a
    <3>2. Announced(x) \in Seq(Token)
      BY <1>4, AroundBytes DEF Announced, Transfers
    <3>3. Announced(x) \o Bytes(SubSeq(a, 1, x.moved)) = Announced(x)
      BY <1>4, <1>8, <3>2, NoBytes, WithNothing
    <3> QED
      BY <1>4, <1>7, <1>8, <1>9, <2>1, <3>1, <3>3 DEF Sliced
  <2>7. Going(s)'
    BY <1>4, <2>1, <2>4, <2>5, <2>6, OnlyDownloading
  <2> QED
    BY <2>2, <2>3, <2>7 DEF Inv
<1>10. CASE kind = "cat"
  <2>1. xfer' = [xfer EXCEPT ![s] = x] /\ UNCHANGED <<got, cut>>
    BY <1>1, <1>10
  <2>2. Announced(x) = <<>>
    BY <1>4, <1>10 DEF Announced
  <2> HIDE DEF x
  <2> QED
    BY <2>1, <2>2, <1>2, <1>3, <1>9 DEF Types, Received
<1>11. CASE kind # "cat" /\ x.size # 0
  <2>1. xfer' = [xfer EXCEPT ![s] = x] /\ Send(s, <<Header(x.size)>>, <<>>)
    BY <1>1, <1>11
  <2>2. Announced(x) = <<Header(x.size)>> /\ x.size \in Nat
    BY <1>4, <1>11 DEF Announced, Transfers
  <2> HIDE DEF x
  <2> DEFINE m == <<Header(x.size)>>
             n == <<>>
  <2>3. Send(s, m, n) /\ m \in Seq(Token) /\ BytesIn(m) = {} /\ n \in Seq(Token) /\ BytesIn(n) = {}
    BY <2>1, <2>2, AroundBytes
  <2> HIDE DEF m, n
  <2>4. /\ got' \in [Sessions -> Seq(Token)] /\ cut' \in [Sessions -> BOOLEAN]
        /\ \A t \in Sessions \ {s} : got'[t] = got[t] /\ cut'[t] = cut[t]
        /\ ~cut'[s] => got'[s] = got[s] \o m \o n
        /\ IsFiniteSet(BytesIn(got'[s]))
        /\ Cardinality(BytesIn(got'[s])) <= Cardinality(BytesIn(got[s]))
    BY <1>2, <1>3, <2>3, SendsNoByte
  <2>5. got[s] \o m \o n = <<Header(x.size)>>
    BY <1>3, <2>3, WithNothing DEF m, n
  <2> QED
    BY <2>1, <2>2, <2>4, <2>5, <1>3, <1>9 DEF Received
<1>12. CASE kind # "cat" /\ x.size = 0
  <2>1. Finish(s, x) /\ Send(s, <<Header(0)>>, <<Prompt>>)
    BY <1>1, <1>12
  <2> HIDE DEF x, f, a
  <2>2. /\ xfer' \in [Sessions -> Transfers]
        /\ \A t \in Sessions \ {s} : xfer'[t] = xfer[t]
        /\ xfer'[s].state = "done" /\ xfer'[s].kind = "pull" /\ xfer'[s].size = 0
        /\ xfer'[s].moved = 0
    BY <1>2, <1>4, <1>12, <2>1, FinishIs
  <2> DEFINE m == <<Header(0)>>
             n == <<Prompt>>
  <2>3. Send(s, m, n) /\ m \in Seq(Token) /\ BytesIn(m) = {} /\ n \in Seq(Token) /\ BytesIn(n) = {}
    BY <2>1, AroundBytes
  <2> HIDE DEF m, n
  <2>4. /\ got' \in [Sessions -> Seq(Token)] /\ cut' \in [Sessions -> BOOLEAN]
        /\ \A t \in Sessions \ {s} : got'[t] = got[t] /\ cut'[t] = cut[t]
        /\ ~cut'[s] => got'[s] = got[s] \o m \o n
        /\ IsFiniteSet(BytesIn(got'[s]))
        /\ Cardinality(BytesIn(got'[s])) <= Cardinality(BytesIn(got[s]))
    BY <1>2, <1>3, <2>3, SendsNoByte
  <2>5. Types'
    BY <1>2, <1>7, <2>2, <2>4 DEF Types
  <2>6. ASSUME NEW t \in Sessions, t # s PROVE Going(t)'
    <3>1. Going(t)
      BY DEF Inv
    <3> QED
      BY <3>1, <2>6, <1>2, <1>7, <2>2, <2>4, KeepsGoing
  <2>7. Counted(s)'
    BY <1>3, <2>2, <2>4 DEF Counted, Received
  <2>8. Delivered(s)'
    <3>1. slice'[s] = <<>>
      BY <1>5, <1>7, <1>12
    <3>2. Announced(xfer'[s]) = <<Header(0)>>
      BY <2>2 DEF Announced
    <3>3. Bytes(SubSeq(slice'[s], 1, 0)) \o <<Prompt>> = <<Prompt>>
      <4>1. SubSeq(slice'[s], 1, 0) = <<>>
        BY <1>7, <1>8
      <4> QED
        BY <2>3, <4>1, NoBytes, WithNothing DEF n
    <3>4. got[s] \o m \o n = <<Header(0)>> \o <<Prompt>>
      BY <1>3, <2>3, WithNothing DEF m, n
    <3>5. Len(slice'[s]) = 0
      BY <3>1
    <3> HIDE DEF m, n
    <3>6. ~cut'[s] => got'[s] = Announced(xfer'[s]) \o (Bytes(SubSeq(slice'[s], 1, 0)) \o <<Prompt>>)
      BY <2>4, <3>2, <3>3, <3>4
    <3>7. xfer'[s].moved <= Len(slice'[s]) /\ xfer'[s].moved = Len(slice'[s])
          /\ xfer'[s].size = Len(slice'[s])
      BY <2>2, <3>5
    <3> QED
      BY <2>2, <3>6, <3>7 DEF Delivered
  <2>9. Told(s)'
    BY <2>2 DEF Told
  <2>10. Going(s)'
    BY <2>2, <2>7, <2>8, <2>9, OnlyDone
  <2> QED
    BY <2>5, <2>6, <2>10 DEF Inv
<1> QED
  BY <1>10, <1>11, <1>12

\* A command whose file cannot be opened.
LEMMA FailOpenGoing == ASSUME Inv, NEW s \in Sessions, FailOpen(s) PROVE Inv'
<1>1. /\ Types /\ Finish(s, [Idle EXCEPT !.kind = "failed"]) /\ Send(s, <<Error>>, <<Prompt>>)
      /\ UNCHANGED <<names, content, cwd, arrived, others, slice, disturbed, short, failed>>
  BY DEF FailOpen, Inv, disk
<1>2. /\ [Idle EXCEPT !.kind = "failed"] \in Transfers
      /\ [Idle EXCEPT !.kind = "failed"].kind = "failed"
  BY DEF Idle, Transfers
<1>3. /\ xfer' \in [Sessions -> Transfers]
      /\ \A t \in Sessions \ {s} : xfer'[t] = xfer[t]
      /\ xfer'[s].state = "done" /\ xfer'[s].kind = "failed"
  BY <1>1, <1>2, FinishIs
<1>4. /\ got' \in [Sessions -> Seq(Token)] /\ cut' \in [Sessions -> BOOLEAN]
      /\ \A t \in Sessions \ {s} : got'[t] = got[t] /\ cut'[t] = cut[t]
  <2> DEFINE m == <<Error>>
             n == <<Prompt>>
  <2>1. Send(s, m, n) /\ m \in Seq(Token) /\ BytesIn(m) = {} /\ n \in Seq(Token) /\ BytesIn(n) = {}
    BY <1>1, AroundBytes
  <2> HIDE DEF m, n
  <2> QED
    BY <1>1, <2>1, SendsNoByte
<1>5. Types'
  BY <1>1, <1>3, <1>4 DEF Types
<1>6. ASSUME NEW t \in Sessions, t # s PROVE Going(t)'
  <2>1. Going(t)
    BY DEF Inv
  <2> QED
    BY <2>1, <1>1, <1>3, <1>4, <1>6, KeepsGoing
<1>7. Going(s)'
  BY <1>3, OnlyDone DEF Counted, Delivered, Told, Pulled
<1> QED
  BY <1>5, <1>6, <1>7 DEF Inv

\* What settling on a range says of the slice.
LEMMA SettledIs ==
  ASSUME NEW x \in Transfers, NEW f \in Seq(Nat), NEW a, a = Asked(f, x.start, x.want),
         Settled(x, f)
  PROVE  IF Len(f) <= x.start THEN a = <<>> /\ x.size = 0 /\ x.pos = 0
         ELSE /\ Follows(a, f, x.start) /\ Len(a) = Least(Len(f) - x.start, x.size)
              /\ x.pos = x.start + x.moved
              /\ x.size = IF x.want = 0 THEN Len(f) - x.start ELSE x.want
<1>1. PICK start \in Nat, want \in Nat : start = x.start /\ want = x.want
  BY DEF Transfers
<1> DEFINE c == Asked(f, start, want)
<1>2. IF Len(f) <= start THEN c = <<>>
      ELSE /\ Follows(c, f, start)
           /\ Len(c) = Least(Len(f) - start, IF want = 0 THEN Len(f) - start ELSE want)
  BY SliceIs
<1>3. a = c
  BY <1>1
<1> HIDE DEF c
<1> QED
  BY <1>1, <1>2, <1>3 DEF Settled

\* What the next block of a download is, and what it says of an undisturbed one.
LEMMA BlockOf ==
  ASSUME TransferAssumption, Types, NEW s \in Sessions, Going(s), xfer[s].state = "pull"
  PROVE  LET x == xfer[s]
             b == Block(x)
             a == slice[s]
         IN  /\ x \in Transfers /\ x.inode \in Inodes /\ x.kind \in {"pull", "cat"}
             /\ a \in Seq(Nat) /\ b \in Seq(Nat) /\ x.moved + Len(b) <= x.size
             /\ ~disturbed[s] =>
                  /\ x.moved + Len(b) <= Len(a)
                  /\ SubSeq(a, 1, x.moved + Len(b)) = SubSeq(a, 1, x.moved) \o b
                  /\ b = <<>> \/ x.moved + Len(b) = x.size =>
                       x.moved + Len(b) = Len(a) /\ SubSeq(a, 1, x.moved + Len(b)) = a
<1> DEFINE x == xfer[s]
           a == slice[s]
<1>1. x \in Transfers /\ a \in Seq(Nat) /\ x.inode \in Inodes /\ x.kind \in {"pull", "cat"}
      /\ x.moved <= x.size
  BY DEF Types, Going, Downloading, Counted
<1>2. PICK f \in Seq(Nat) : f = content[x.inode]
  BY <1>1 DEF Types
<1>3. x.moved \in Nat /\ x.size \in Nat /\ x.pos \in Nat /\ x.start \in Nat /\ x.want \in Nat
  BY <1>1 DEF Transfers
<1>4. BlockSize \in Nat \ {0}
  BY DEF TransferAssumption
<1>5. Least(x.size - x.moved, BlockSize) \in Nat
      /\ Least(x.size - x.moved, BlockSize) <= x.size - x.moved
  BY <1>1, <1>3, <1>4 DEF Least
<1> DEFINE b == ReadAt(f, x.pos, Least(x.size - x.moved, BlockSize))
<1>6. Block(x) = b
  BY <1>2 DEF Block
<1>7. b \in Seq(Nat) /\ Len(b) <= Least(x.size - x.moved, BlockSize)
  BY <1>3, <1>5, ReadIs
<1>8. x.moved + Len(b) <= x.size
  <2> HIDE DEF b
  <2> QED
    BY <1>3, <1>5, <1>7
<1>9. ASSUME ~disturbed[s]
      PROVE  /\ Follows(b, a, x.moved)
             /\ b = <<>> \/ x.moved + Len(b) = x.size => x.moved + Len(b) = Len(a)
  <2>1. a = Asked(f, x.start, x.want) /\ Settled(x, f) /\ x.moved <= Len(a)
    BY <1>2, <1>9 DEF Going, Sliced
  <2>2. CASE Len(f) <= x.start
    <3>1. a = <<>> /\ x.size = 0
      BY <2>1, <2>2, <1>1, SettledIs
    <3>2. x.moved = 0 /\ Len(b) = 0
      <4> HIDE DEF b
      <4> QED
        BY <3>1, <1>3, <1>7, <1>8
    <3> HIDE DEF b, x, a
    <3> QED
      BY <3>1, <3>2, <1>7 DEF Follows
  <2>3. CASE ~(Len(f) <= x.start)
    <3>1. /\ Follows(a, f, x.start) /\ Len(a) = Least(Len(f) - x.start, x.size)
          /\ x.pos = x.start + x.moved
      BY <2>1, <2>3, <1>1, SettledIs
    <3> HIDE DEF x, a, b
    <3>2. PICK start \in Nat, size \in Nat, moved \in Nat, n \in Nat :
            /\ start = x.start /\ size = x.size /\ moved = x.moved
            /\ n = Least(x.size - x.moved, BlockSize)
      BY <1>3, <1>5
    <3>3. Len(f) > start /\ Follows(a, f, start) /\ moved <= Len(a) /\ a \in Seq(Nat)
      BY <2>1, <2>3, <3>1, <3>2, <1>1
    <3>4. Len(a) <= size /\ Len(a) <= Len(f) - start /\ (Len(a) = size \/ Len(a) = Len(f) - start)
      BY <3>1, <3>2 DEF Least
    <3>5. n <= size - moved /\ (n = 0 => size = moved)
      BY <3>2, <1>4 DEF Least
    <3>6. /\ b \in Seq(Nat) /\ Len(b) = Least(Len(f) - (start + moved), n)
          /\ Follows(b, f, start + moved)
      <4>1. start + moved <= Len(f) /\ start + moved \in Nat
        BY <3>3, <3>4
      <4>2. b = ReadAt(f, start + moved, n)
        BY <3>1, <3>2 DEF b
      <4> QED
        BY <4>1, <4>2, ReadIs
    <3>7. Len(b) <= Len(f) - (start + moved) /\ Len(b) <= n
          /\ (Len(b) = Len(f) - (start + moved) \/ Len(b) = n)
      BY <3>6 DEF Least
    <3>8. moved + Len(b) <= Len(a)
      BY <3>3, <3>4, <3>5, <3>6, <3>7
    <3>9. Follows(b, a, moved)
      BY <3>3, <3>6, <3>8, FollowsWithin
    <3>10. b = <<>> => moved + Len(b) = Len(a)
      <4> SUFFICES ASSUME Len(b) = 0 PROVE moved = Len(a)
        BY <3>3
      <4>1. CASE Len(f) = start + moved
        BY <3>3, <3>4, <4>1
      <4>2. CASE n = 0
        BY <3>3, <3>4, <3>5, <4>2
      <4> QED
        BY <4>1, <4>2, <3>7
    <3>11. moved + Len(b) = size => moved + Len(b) = Len(a)
      BY <3>3, <3>4, <3>6, <3>8
    <3> QED
      BY <3>2, <3>9, <3>10, <3>11
  <2> QED
    BY <2>2, <2>3
<1>10. ASSUME ~disturbed[s]
       PROVE  /\ x.moved + Len(b) <= Len(a)
              /\ SubSeq(a, 1, x.moved + Len(b)) = SubSeq(a, 1, x.moved) \o b
              /\ b = <<>> \/ x.moved + Len(b) = x.size =>
                   x.moved + Len(b) = Len(a) /\ SubSeq(a, 1, x.moved + Len(b)) = a
  <2> HIDE DEF a, b, x
  <2>1. SubSeq(a, 1, x.moved + Len(b)) = SubSeq(a, 1, x.moved) \o b
    BY <1>1, <1>3, <1>7, <1>9, <1>10, PrefixGrows
  <2>2. SubSeq(a, 1, Len(a)) = a
    BY <1>1
  <2> QED
    BY <2>1, <2>2, <1>9, <1>10 DEF Follows
<1> HIDE DEF b
<1> QED
  BY <1>1, <1>6, <1>7, <1>8, <1>10

\* The size announced is that of the slice, unless more was asked for.
LEMMA SizeIs ==
  ASSUME NEW s \in Sessions, Types, Going(s), xfer[s].state = "pull", ~disturbed[s],
         xfer[s] \in Transfers, xfer[s].inode \in Inodes, slice[s] \in Seq(Nat),
         xfer[s].start + xfer[s].want <= xfer[s].total
  PROVE  xfer[s].size = Len(slice[s])
<1> DEFINE x == xfer[s]
           a == slice[s]
<1>1. PICK f \in Seq(Nat) : f = content[x.inode]
  BY DEF Types
<1>2. a = Asked(f, x.start, x.want) /\ x.total = Len(f) /\ Settled(x, f)
  BY <1>1 DEF Going, Sliced
<1>3. x.start \in Nat /\ x.want \in Nat /\ x.size \in Nat
  BY DEF Transfers
<1>4. x.start + x.want <= Len(f)
  BY <1>2
<1>5. IF Len(f) <= x.start THEN a = <<>> /\ x.size = 0
      ELSE /\ Len(a) = Least(Len(f) - x.start, x.size)
           /\ x.size = IF x.want = 0 THEN Len(f) - x.start ELSE x.want
  BY <1>2, SettledIs
<1> HIDE DEF x, a
<1>6. CASE Len(f) <= x.start
  <2>1. Len(a) = 0
    BY <1>5, <1>6
  <2> QED
    BY <2>1, <1>5, <1>6 DEF x, a
<1>7. CASE ~(Len(f) <= x.start)
  <2>1. x.size <= Len(f) - x.start
    BY <1>3, <1>4, <1>5, <1>7
  <2>2. Least(Len(f) - x.start, x.size) = x.size
    BY <2>1, <1>3 DEF Least
  <2> QED
    BY <2>2, <1>5, <1>7 DEF x, a
<1> QED
  BY <1>6, <1>7

\* The next block, or the end.
LEMMA ReadNextGoing ==
  ASSUME TransferAssumption, Inv, NEW s \in Sessions, PullEvent(s), ReadNext(s) PROVE Inv'
<1> DEFINE x == xfer[s]
           a == slice[s]
           b == Block(x)
           y == [x EXCEPT !.moved = @ + Len(b), !.pos = @ + Len(b)]
<1>1. /\ Types /\ Going(s) /\ x.state = "pull"
      /\ IF b = <<>> \/ y.moved = y.size
           THEN Finish(s, y) /\ Send(s, Bytes(b), <<Prompt>>)
           ELSE xfer' = [xfer EXCEPT ![s] = y] /\ Send(s, Bytes(b), <<>>)
      /\ UNCHANGED <<names, content, cwd, arrived, others, slice, disturbed, short, failed>>
  BY DEF PullEvent, ReadNext, Inv, disk
<1>2. /\ x \in Transfers /\ x.inode \in Inodes /\ x.kind \in {"pull", "cat"}
      /\ a \in Seq(Nat) /\ b \in Seq(Nat) /\ x.moved + Len(b) <= x.size
      /\ ~disturbed[s] =>
           /\ x.moved + Len(b) <= Len(a)
           /\ SubSeq(a, 1, x.moved + Len(b)) = SubSeq(a, 1, x.moved) \o b
           /\ b = <<>> \/ x.moved + Len(b) = x.size =>
                x.moved + Len(b) = Len(a) /\ SubSeq(a, 1, x.moved + Len(b)) = a
  BY <1>1, BlockOf
<1> HIDE DEF b
<1>3. /\ y \in Transfers /\ y.state = "pull" /\ y.kind = x.kind /\ y.inode = x.inode
      /\ y.start = x.start /\ y.want = x.want /\ y.total = x.total /\ y.size = x.size
      /\ y.moved = x.moved + Len(b) /\ y.pos = x.pos + Len(b)
  <2> HIDE DEF x
  <2>1. Len(b) \in Nat /\ x.moved + Len(b) \in Nat /\ x.pos + Len(b) \in Nat
    BY <1>1, <1>2 DEF Transfers
  <2> QED
    BY <1>1, <1>2, <2>1 DEF Transfers
<1>4. got[s] \in Seq(Token) /\ IsFiniteSet(BytesIn(got[s]))
      /\ Cardinality(BytesIn(got[s])) <= x.moved
  BY <1>1, <1>2 DEF Types, Going, Counted, Received
<1>5. PICK n \in Seq(Token) :
        /\ n = IF b = <<>> \/ y.moved = y.size THEN <<Prompt>> ELSE <<>>
        /\ BytesIn(n) = {} /\ Send(s, Bytes(b), n)
  BY <1>1, AroundBytes
<1> HIDE DEF y
<1>6. Bytes(b) \in Seq(Token) /\ Len(Bytes(b)) = Len(b) /\ Len(b) \in Nat
  BY <1>2, BytesAre
<1>7. /\ got' \in [Sessions -> Seq(Token)] /\ cut' \in [Sessions -> BOOLEAN]
      /\ \A t \in Sessions \ {s} : got'[t] = got[t] /\ cut'[t] = cut[t]
      /\ ~cut'[s] => ~cut[s] /\ got'[s] = got[s] \o Bytes(b) \o n
      /\ IsFiniteSet(BytesIn(got'[s]))
      /\ Cardinality(BytesIn(got'[s])) <= Cardinality(BytesIn(got[s])) + Len(b)
      /\ Cardinality(BytesIn(got'[s])) \in Nat /\ Cardinality(BytesIn(got[s])) \in Nat
  BY <1>1, <1>4, <1>5, <1>6, SendIs
<1>8. /\ xfer' \in [Sessions -> Transfers]
      /\ \A t \in Sessions \ {s} : xfer'[t] = xfer[t]
      /\ xfer'[s].kind = x.kind /\ xfer'[s].start = x.start
      /\ xfer'[s].want = x.want /\ xfer'[s].total = x.total /\ xfer'[s].size = x.size
      /\ xfer'[s].moved = x.moved + Len(b)
      /\ IF b = <<>> \/ y.moved = y.size THEN xfer'[s].state = "done" ELSE xfer'[s] = y
  <2> HIDE DEF x
  <2>1. CASE b = <<>> \/ y.moved = y.size
    <3>1. Finish(s, y)
      BY <1>1, <2>1
    <3> QED
      BY <1>1, <1>3, <2>1, <3>1, FinishIs
  <2>2. CASE ~(b = <<>> \/ y.moved = y.size)
    <3>1. xfer' = [xfer EXCEPT ![s] = y]
      BY <1>1, <2>2
    <3>2. xfer \in [Sessions -> Transfers]
      BY <1>1 DEF Types
    <3> QED
      BY <1>3, <2>2, <3>1, <3>2
  <2> QED
    BY <2>1, <2>2
<1>9. Types'
  BY <1>1, <1>7, <1>8 DEF Types
<1>10. ASSUME NEW t \in Sessions, t # s PROVE Going(t)'
  <2>1. Going(t)
    BY DEF Inv
  <2> QED
    BY <2>1, <1>1, <1>7, <1>8, <1>10, KeepsGoing
<1>11. Counted(s)'
  <2>1. x.moved \in Nat /\ x.size \in Nat
    BY <1>2 DEF Transfers
  <2> HIDE DEF x
  <2>2. Cardinality(BytesIn(got'[s])) <= x.moved + Len(b)
    BY <2>1, <1>4, <1>6, <1>7
  <2> QED
    BY <2>1, <2>2, <1>2, <1>7, <1>8 DEF Counted, Received
<1>12. ~disturbed[s] /\ ~cut'[s] =>
         got'[s] = Announced(x) \o (Bytes(SubSeq(a, 1, x.moved + Len(b))) \o n)
  <2> SUFFICES ASSUME ~disturbed[s], ~cut'[s]
               PROVE  got'[s] = Announced(x) \o (Bytes(SubSeq(a, 1, x.moved + Len(b))) \o n)
    OBVIOUS
  <2>1. got[s] = Announced(x) \o Bytes(SubSeq(a, 1, x.moved)) /\ x.moved <= Len(a)
    BY <1>1, <1>7 DEF Going, Sliced
  <2>2. SubSeq(a, 1, x.moved) \in Seq(Nat)
    <3>1. x.moved \in 0 .. Len(a)
      BY <2>1, <1>2 DEF Transfers
    <3> QED
      BY <1>2, <3>1, PrefixIs
  <2>3. Announced(x) \in Seq(Token)
    BY <1>2, AroundBytes DEF Announced, Transfers
  <2> DEFINE u == Bytes(SubSeq(a, 1, x.moved))
             h == Announced(x)
             c == Bytes(b)
  <2>4. u \in Seq(Token) /\ Bytes(SubSeq(a, 1, x.moved + Len(b))) = u \o c
    BY <1>2, <2>2, BytesAre, BytesConcat
  <2>5. h \in Seq(Token) /\ u \in Seq(Token) /\ c \in Seq(Token)
    BY <1>6, <2>3, <2>4
  <2>6. got[s] = h \o u /\ got'[s] = got[s] \o c \o n
    BY <1>7, <2>1
  <2> HIDE DEF u, h, c
  <2>7. (h \o u) \o c = h \o (u \o c)
    BY <2>5, ConcatAssociative
  <2> DEFINE w == u \o c
  <2>8. w \in Seq(Token)
    BY <2>5
  <2> HIDE DEF w
  <2>9. (h \o w) \o n = h \o (w \o n)
    BY <2>5, <2>8, ConcatAssociative
  <2> QED
    BY <2>4, <2>6, <2>7, <2>9 DEF h, w
<1>13. CASE b = <<>> \/ y.moved = y.size
  <2>1. n = <<Prompt>> /\ xfer'[s].state = "done"
    BY <1>5, <1>8, <1>13
  <2>2. Delivered(s)'
    <3> SUFFICES ASSUME ~disturbed'[s], ~cut'[s]
                 PROVE  LET z == xfer'[s]
                        IN  /\ z.moved <= Len(slice'[s])
                            /\ got'[s] = Announced(z) \o (Bytes(SubSeq(slice'[s], 1, z.moved)) \o <<Prompt>>)
                            /\ z.moved = Len(slice'[s])
                            /\ z.start + z.want <= z.total => z.size = Len(slice'[s])
      BY DEF Delivered
    <3>1. x.moved + Len(b) = Len(a) /\ slice'[s] = a /\ ~disturbed[s]
      BY <1>1, <1>2, <1>3, <1>13
    <3>2. Announced(xfer'[s]) = Announced(x)
      BY <1>8 DEF Announced
    <3>3. got'[s] = Announced(xfer'[s]) \o (Bytes(SubSeq(a, 1, x.moved + Len(b))) \o <<Prompt>>)
      BY <1>12, <2>1, <3>1, <3>2
    <3>4. x.start + x.want <= x.total => x.size = Len(a)
      BY <1>1, <1>2, <3>1, SizeIs
    <3> QED
      BY <1>8, <3>1, <3>3, <3>4
  <2>3. Told(s)'
    BY <1>2, <1>8 DEF Told
  <2> QED
    BY <1>9, <1>10, <1>11, <2>1, <2>2, <2>3, OnlyDone DEF Inv
<1>14. CASE ~(b = <<>> \/ y.moved = y.size)
  <2>1. n = <<>> /\ xfer'[s] = y
    BY <1>5, <1>8, <1>14
  <2>2. Downloading(s)'
    BY <1>2, <1>3, <2>1 DEF Downloading
  <2>3. Sliced(s)'
    <3> SUFFICES ASSUME ~disturbed'[s]
                 PROVE  /\ slice'[s] = Asked(content'[y.inode], y.start, y.want)
                        /\ y.total = Len(content'[y.inode]) /\ Settled(y, content'[y.inode])
                        /\ y.moved <= Len(slice'[s])
                        /\ ~cut'[s] =>
                             got'[s] = Announced(y) \o Bytes(SubSeq(slice'[s], 1, y.moved))
      BY <2>1 DEF Sliced
    <3>1. ~disturbed[s] /\ slice'[s] = a /\ content' = content
      BY <1>1
    <3>2. /\ a = Asked(content[x.inode], x.start, x.want) /\ x.total = Len(content[x.inode])
          /\ Settled(x, content[x.inode])
      BY <1>1, <3>1 DEF Going, Sliced
    <3>3. y.moved <= Len(a)
      BY <1>2, <1>3, <3>1
    <3>4. Announced(y) = Announced(x)
      BY <1>3 DEF Announced
    <3>5. Bytes(SubSeq(a, 1, x.moved + Len(b))) \o n = Bytes(SubSeq(a, 1, x.moved + Len(b)))
      <4>1. x.moved + Len(b) \in 0 .. Len(a)
        <5>1. x.moved \in Nat /\ x.moved + Len(b) <= Len(a) /\ Len(a) \in Nat
          BY <1>2, <3>1 DEF Transfers
        <5> HIDE DEF x, a
        <5> QED
          BY <5>1, <1>6
      <4>2. SubSeq(a, 1, x.moved + Len(b)) \in Seq(Nat)
        BY <1>2, <4>1, PrefixIs
      <4> QED
        BY <2>1, <4>2, BytesAre, WithNothing
    <3>6. ~cut'[s] => got'[s] = Announced(y) \o Bytes(SubSeq(slice'[s], 1, y.moved))
      BY <1>3, <1>12, <3>1, <3>4, <3>5
    <3>7. Settled(y, content[x.inode])
      <4> DEFINE l == Len(content[x.inode])
      <4>1. CASE l <= x.start
        <5>1. x.size = 0 /\ x.pos = 0
          BY <3>2, <4>1 DEF Settled
        <5>2. Len(b) = 0
          BY <5>1, <1>2, <1>6 DEF Transfers
        <5> QED
          BY <1>3, <4>1, <5>1, <5>2 DEF Settled
      <4>2. CASE ~(l <= x.start)
        <5>1. x.pos = x.start + x.moved /\ x.size = IF x.want = 0 THEN l - x.start ELSE x.want
          BY <3>2, <4>2 DEF Settled
        <5>2. x.start \in Nat /\ x.moved \in Nat
          BY <1>2 DEF Transfers
        <5>3. (x.start + x.moved) + Len(b) = x.start + (x.moved + Len(b))
          BY <5>2, <1>6
        <5> HIDE DEF x
        <5> QED
          BY <1>3, <4>2, <5>1, <5>3 DEF Settled
      <4> QED
        BY <4>1, <4>2
    <3> QED
      BY <1>3, <3>1, <3>2, <3>3, <3>6, <3>7
  <2>4. xfer'[s].state = "pull"
    BY <2>1, <1>3
  <2> QED
    BY <1>9, <1>10, <1>11, <2>2, <2>3, <2>4, OnlyDownloading DEF Inv
<1> QED
  BY <1>13, <1>14

\* A read that fails ends a pull with what has been delivered so far.
LEMMA ReadFailsGoing ==
  ASSUME TransferAssumption, Inv, NEW s \in Sessions, PullEvent(s), ReadFails(s) PROVE Inv'
<1> DEFINE x == xfer[s]
           a == slice[s]
           m == <<>>
           n == <<Prompt>>
<1>1. /\ Types /\ Going(s) /\ x.state = "pull" /\ Finish(s, x) /\ Send(s, m, n)
      /\ failed' = [failed EXCEPT ![s] = TRUE]
      /\ UNCHANGED <<names, content, cwd, arrived, others, slice, disturbed, short>>
  BY DEF PullEvent, ReadFails, Inv, disk
<1>2. /\ x \in Transfers /\ x.inode \in Inodes /\ x.kind \in {"pull", "cat"} /\ a \in Seq(Nat)
      /\ failed' \in [Sessions -> BOOLEAN] /\ failed'[s]
      /\ \A t \in Sessions \ {s} : failed'[t] = failed[t]
  BY <1>1 DEF Types, Going, Downloading
<1>3. m \in Seq(Token) /\ BytesIn(m) = {} /\ n \in Seq(Token) /\ BytesIn(n) = {}
  BY AroundBytes
<1> HIDE DEF m, n
<1>4. got[s] \in Seq(Token) /\ IsFiniteSet(BytesIn(got[s]))
      /\ Cardinality(BytesIn(got[s])) <= x.moved /\ x.moved <= x.size
  BY <1>1, <1>2 DEF Types, Going, Counted, Received
<1>5. /\ got' \in [Sessions -> Seq(Token)] /\ cut' \in [Sessions -> BOOLEAN]
      /\ \A t \in Sessions \ {s} : got'[t] = got[t] /\ cut'[t] = cut[t]
      /\ ~cut'[s] => ~cut[s] /\ got'[s] = got[s] \o m \o n
      /\ IsFiniteSet(BytesIn(got'[s]))
      /\ Cardinality(BytesIn(got'[s])) <= Cardinality(BytesIn(got[s]))
      /\ Cardinality(BytesIn(got'[s])) \in Nat /\ Cardinality(BytesIn(got[s])) \in Nat
  BY <1>1, <1>3, <1>4, SendsNoByte, FS_CardinalityType
<1>6. /\ xfer' \in [Sessions -> Transfers]
      /\ \A t \in Sessions \ {s} : xfer'[t] = xfer[t]
      /\ xfer'[s].kind = x.kind /\ xfer'[s].start = x.start
      /\ xfer'[s].want = x.want /\ xfer'[s].total = x.total /\ xfer'[s].size = x.size
      /\ xfer'[s].moved = x.moved /\ xfer'[s].state = "done"
  BY <1>1, <1>2, FinishIs
<1>7. Types'
  BY <1>1, <1>2, <1>5, <1>6 DEF Types
<1>8. ASSUME NEW t \in Sessions, t # s PROVE Going(t)'
  <2>1. Going(t)
    BY DEF Inv
  <2> QED
    BY <2>1, <1>1, <1>2, <1>5, <1>6, <1>8, KeepsGoing
<1>9. Counted(s)'
  <2>1. x.moved \in Nat
    BY <1>2 DEF Transfers
  <2> HIDE DEF x
  <2> QED
    BY <1>4, <1>5, <1>6, <2>1 DEF Counted, Received
<1>10. Delivered(s)'
  <2> SUFFICES ASSUME ~disturbed'[s], ~cut'[s]
               PROVE  LET y == xfer'[s]
                      IN  /\ y.moved <= Len(slice'[s])
                          /\ got'[s] = Announced(y) \o (Bytes(SubSeq(slice'[s], 1, y.moved)) \o <<Prompt>>)
                          /\ y.start + y.want <= y.total => y.size = Len(slice'[s])
    BY <1>2 DEF Delivered
  <2>1. ~disturbed[s] /\ slice'[s] = a
    BY <1>1
  <2>2. got[s] = Announced(x) \o Bytes(SubSeq(a, 1, x.moved)) /\ x.moved <= Len(a)
    BY <1>1, <1>5, <2>1 DEF Going, Sliced
  <2>3. Announced(xfer'[s]) = Announced(x)
    BY <1>6 DEF Announced
  <2> DEFINE h == Announced(x)
             u == Bytes(SubSeq(a, 1, x.moved))
  <2>4. h \in Seq(Token) /\ u \in Seq(Token)
    <3>1. x.moved \in 0 .. Len(a) /\ x.size \in Nat
      BY <1>2, <2>2 DEF Transfers
    <3>2. SubSeq(a, 1, x.moved) \in Seq(Nat)
      BY <1>2, <3>1, PrefixIs
    <3> QED
      BY <3>1, <3>2, BytesAre, AroundBytes DEF Announced
  <2>5. got'[s] = (h \o u) \o m \o n /\ (h \o u) \o m = h \o u
    <3>1. h \o u \in Seq(Token)
      BY <2>4
    <3> QED
      BY <1>5, <2>2, <3>1, WithNothing DEF m
  <2> HIDE DEF h, u
  <2>6. (h \o u) \o n = h \o (u \o n)
    BY <1>3, <2>4, ConcatAssociative
  <2>7. got'[s] = h \o (u \o n)
    BY <2>5, <2>6
  <2>8. x.start + x.want <= x.total => x.size = Len(a)
    BY <1>1, <1>2, <2>1, SizeIs
  <2> QED
    BY <1>6, <2>1, <2>2, <2>3, <2>7, <2>8 DEF h, u, n
<1>11. Told(s)'
  BY <1>2, <1>6 DEF Told
<1> QED
  BY <1>6, <1>7, <1>8, <1>9, <1>10, <1>11, OnlyDone DEF Inv

\* Either way an event of a pull ends.
LEMMA PullEventGoing ==
  ASSUME TransferAssumption, Inv, NEW s \in Sessions, PullEvent(s) PROVE Inv'
BY ReadNextGoing, ReadFailsGoing DEF PullEvent
-----------------------------------------------------------------------------
\* Writing at the end of a file appends; writing nothing changes nothing.
LEMMA WriteIs ==
  ASSUME NEW f \in Seq(Nat), NEW pos \in Nat, NEW w \in Seq(Nat)
  PROVE  /\ WriteAt(f, pos, w) \in Seq(Nat)
         /\ w = <<>> => WriteAt(f, pos, w) = f
         /\ Len(f) = pos => WriteAt(f, pos, w) = f \o w
<1>1. CASE w = <<>>
  BY <1>1, WithNothing DEF WriteAt
<1>2. CASE w # <<>>
  <2>1. PICK l \in Nat : l = Most(Len(f), pos + Len(w)) /\ pos + Len(w) <= l
                         /\ (Len(f) = pos => l = Len(f) + Len(w))
    <3>1. PICK k \in Nat : k = Len(f)
      OBVIOUS
    <3>2. PICK e \in Nat : e = pos + Len(w) /\ pos <= e
      OBVIOUS
    <3>3. Most(k, e) \in Nat /\ e <= Most(k, e) /\ (k = pos => Most(k, e) = e)
      BY <3>2 DEF Most
    <3> QED
      BY <3>1, <3>2, <3>3
  <2> DEFINE g == [j \in 1 .. l |-> IF j > pos /\ j <= pos + Len(w) THEN w[j - pos]
                                    ELSE IF j <= Len(f) THEN f[j] ELSE Hole]
  <2>2. WriteAt(f, pos, w) = g
    BY <1>2, <2>1 DEF WriteAt
  <2>3. \A j \in 1 .. l : g[j] \in Nat
    <3> SUFFICES ASSUME NEW j \in 1 .. l PROVE g[j] \in Nat
      OBVIOUS
    <3>1. CASE j > pos /\ j <= pos + Len(w)
      <4>1. j - pos \in 1 .. Len(w)
        BY <3>1
      <4> QED
        BY <3>1, <4>1
    <3>2. CASE ~(j > pos /\ j <= pos + Len(w)) /\ j <= Len(f)
      <4>1. j \in 1 .. Len(f)
        BY <3>2
      <4> QED
        BY <3>2, <4>1
    <3>3. CASE ~(j > pos /\ j <= pos + Len(w)) /\ ~(j <= Len(f))
      BY <3>3 DEF Hole
    <3> QED
      BY <3>1, <3>2, <3>3
  <2>4. g \in Seq(Nat) /\ Len(g) = l
    BY <2>3
  <2>5. ASSUME Len(f) = pos PROVE g = f \o w
    <3>1. /\ f \o w \in Seq(Nat) /\ Len(f \o w) = l
          /\ \A j \in 1 .. l : (f \o w)[j] = IF j <= Len(f) THEN f[j] ELSE w[j - Len(f)]
      BY <2>1, <2>5, ConcatProperties
    <3>2. \A j \in 1 .. l : g[j] = (f \o w)[j]
      BY <2>1, <2>5, <3>1
    <3> HIDE DEF g
    <3> QED
      BY <2>4, <3>1, <3>2, SameFile
  <2> HIDE DEF g
  <2> QED
    BY <1>2, <2>2, <2>4, <2>5
<1> QED
  BY <1>1, <1>2

LEMMA PayloadIs ==
  ASSUME TransferAssumption, NEW s \in Sessions, NEW n \in Nat
  PROVE  Payload(s, n) \in Seq(Nat) /\ Len(Payload(s, n)) = n
<1>1. \A j \in 1 .. n : 10 * s + j \in Nat
  BY DEF TransferAssumption
<1> QED
  BY <1>1 DEF Payload

\* A new upload: the file of that name, or a new one, emptied.
LEMMA OpenPushGoing ==
  ASSUME TransferAssumption, Inv, NEW s \in Sessions, NEW n \in Nat, OpenPush(s, n)
  PROVE  Inv'
<1>1. PICK p \in Places : \E i \in Created(p[1]) :
        /\ names' = [names EXCEPT ![p[1]] = i]
        /\ content' = [content EXCEPT ![i] = <<>>]
        /\ xfer' = [xfer EXCEPT ![s] = Pushing(p[1], p[2], i, n)]
        /\ Disturb(OpenOn(i))
  BY DEF OpenPush
<1>2. PICK i \in Created(p[1]) :
        /\ names' = [names EXCEPT ![p[1]] = i]
        /\ content' = [content EXCEPT ![i] = <<>>]
        /\ xfer' = [xfer EXCEPT ![s] = Pushing(p[1], p[2], i, n)]
        /\ Disturb(OpenOn(i))
  BY <1>1
<1>3. /\ Types /\ Going(s) /\ xfer[s].state = "idle"
      /\ UNCHANGED <<cwd, arrived, got, slice, cut, short, failed>>
  BY DEF OpenPush, Inv
<1>4. PICK d \in Dirs, rel \in BOOLEAN : p[1] = d /\ p[2] = rel /\ (rel => cwd = d)
  <2>1. CASE p \in {<<e, FALSE>> : e \in Dirs}
    <3>1. PICK e \in Dirs : p = <<e, FALSE>>
      BY <2>1
    <3> QED
      BY <3>1
  <2>2. CASE p = <<cwd, TRUE>>
    BY <2>2, <1>3 DEF Types
  <2> QED
    BY <2>1, <2>2 DEF Places
<1>5. i \in Inodes /\ (names[d] # 0 => i = names[d])
  BY <1>3, <1>4 DEF Created, Free, Types
<1> DEFINE y == Pushing(d, rel, i, n)
<1>6. y \in Transfers /\ y.state = "push" /\ y.kind = "push" /\ y.dir = d /\ y.relative = rel
      /\ y.inode = i /\ y.size = n /\ y.moved = 0 /\ y.pos = 0
  <2>1. d \in Nat /\ i \in Nat
    BY <1>5 DEF TransferAssumption
  <2> QED
    BY <2>1 DEF Pushing, Idle, Transfers
<1>7. xfer' = [xfer EXCEPT ![s] = y]
  BY <1>2, <1>4
<1> HIDE DEF y
<1>8. xfer' \in [Sessions -> Transfers] /\ xfer'[s] = y
      /\ \A t \in Sessions \ {s} : xfer'[t] = xfer[t]
  BY <1>3, <1>6, <1>7 DEF Types
<1>9. /\ disturbed' \in [Sessions -> BOOLEAN]
      /\ \A t \in Sessions : disturbed'[t] = (disturbed[t] \/ t \in OpenOn(i))
  BY <1>2, <1>3 DEF Disturb, Types
<1>10. /\ content' \in [Inodes -> Seq(Nat)] /\ content'[i] = <<>>
       /\ \A j \in Inodes \ {i} : content'[j] = content[j]
  <2>1. <<>> \in Seq(Nat)
    OBVIOUS
  <2> QED
    BY <1>2, <1>3, <1>5, <2>1 DEF Types
<1>11. /\ names' \in [Dirs -> {0} \cup Inodes] /\ names'[d] = i
       /\ \A e \in Dirs \ {d} : names'[e] = names[e]
  BY <1>2, <1>3, <1>4, <1>5 DEF Types
<1>12. Types'
  BY <1>3, <1>8, <1>9, <1>10, <1>11 DEF Types
<1>13. ASSUME NEW t \in Sessions, t # s PROVE Going(t)'
  <2>1. Going(t)
    BY DEF Inv
  <2>2. Active(t) => xfer[t].inode \in Inodes
    BY <2>1 DEF Going, Active, Downloading, Uploading
  <2>3. Active(t) /\ ~disturbed'[t] => content'[xfer[t].inode] = content[xfer[t].inode]
    BY <2>2, <1>9, <1>10 DEF OpenOn
  <2>4. ASSUME xfer[t].state = "push", ~disturbed'[t]
        PROVE  names'[xfer[t].dir] = names[xfer[t].dir]
    <3>1. ~disturbed[t] /\ xfer[t].dir \in Dirs /\ xfer[t].inode \in Inodes
          /\ names[xfer[t].dir] = xfer[t].inode
      BY <2>1, <2>4, <1>9 DEF Going, Stored, Uploading
    <3>2. 0 \notin Inodes
      BY DEF TransferAssumption
    <3> QED
      BY <3>1, <3>2, <1>5, <1>11
  <2> QED
    BY <2>1, <2>3, <2>4, <1>3, <1>8, <1>9, <1>13, KeepsGoing
<1>14. Going(s)'
  <2>1. got[s] = <<>> /\ ~cut[s] /\ ~short[s] /\ arrived[s] = 0
    BY <1>3 DEF Going, Fresh
  <2>2. Uploading(s)'
    BY <2>1, <1>3, <1>5, <1>6, <1>8 DEF Uploading
  <2>3. SubSeq(Payload(s, n), 1, 0) = <<>>
    BY PayloadIs
  <2>4. Stored(s)'
    <3>1. content'[i] = SubSeq(Payload(s, n), 1, 0) /\ Len(content'[i]) = 0 /\ ~short'[s]
      BY <2>1, <2>3, <1>3, <1>10
    <3>2. names'[d] = i /\ (rel => cwd' = d)
      BY <1>3, <1>4, <1>11
    <3> QED
      BY <3>1, <3>2, <1>6, <1>8 DEF Stored
  <2> QED
    BY <2>2, <2>4, <1>6, <1>8, OnlyUploading
<1> QED
  BY <1>12, <1>13, <1>14 DEF Inv

\* Payload arrives.
LEMMA ArriveGoing == ASSUME Inv, NEW s \in Sessions, Arrive(s) PROVE Inv'
<1>1. /\ Types /\ Going(s) /\ xfer[s].state = "push" /\ arrived[s] < xfer[s].size
      /\ arrived' = [arrived EXCEPT ![s] = @ + 1]
      /\ UNCHANGED <<names, content, cwd, xfer, got, slice, disturbed, cut, short, failed>>
  BY DEF Arrive, Inv, disk, history
<1>2. /\ arrived' \in [Sessions -> Nat] /\ arrived'[s] = arrived[s] + 1
      /\ \A t \in Sessions \ {s} : arrived'[t] = arrived[t]
  BY <1>1 DEF Types
<1>3. Types'
  BY <1>1, <1>2 DEF Types
<1>4. ASSUME NEW t \in Sessions, t # s PROVE Going(t)'
  <2>1. Going(t)
    BY DEF Inv
  <2> QED
    BY <2>1, <1>1, <1>2, <1>4, KeepsGoing
<1>5. Uploading(s)'
  <2>1. xfer[s].moved \in Nat /\ xfer[s].size \in Nat /\ arrived[s] \in Nat
    BY <1>1 DEF Types, Transfers
  <2> QED
    BY <2>1, <1>1, <1>2 DEF Going, Uploading
<1>6. Stored(s)'
  BY <1>1 DEF Going, Stored
<1>7. Going(s)'
  BY <1>1, <1>5, <1>6, OnlyUploading
<1> QED
  BY <1>3, <1>4, <1>7 DEF Inv

\* A change of directory counts as a disturbance of the uploads it misleads.
LEMMA CdGoing == ASSUME Inv, NEW d \in Dirs, Cd(d) PROVE Inv'
<1>1. /\ Types /\ cwd' = d /\ Disturb({s \in Pushers : xfer[s].relative /\ cwd # d})
      /\ UNCHANGED <<names, content, xfer, arrived, got, slice, cut, short, failed>>
  BY DEF Cd, Inv, disk
<1>2. /\ disturbed' \in [Sessions -> BOOLEAN]
      /\ \A t \in Sessions :
           disturbed'[t] = (disturbed[t] \/ t \in {s \in Pushers : xfer[s].relative /\ cwd # d})
  BY <1>1 DEF Disturb, Types
<1>3. Types'
  BY <1>1, <1>2 DEF Types
<1>4. ASSUME NEW t \in Sessions PROVE Going(t)'
  <2>1. Going(t)
    BY DEF Inv
  <2>2. xfer[t].state = "push" /\ ~disturbed'[t] => (xfer[t].relative => cwd' = cwd)
    BY <1>1, <1>2 DEF Pushers
  <2> QED
    BY <2>1, <2>2, <1>1, <1>2, KeepsGoing
<1> QED
  BY <1>3, <1>4 DEF Inv

\* So does the removal of a file that is being uploaded.
LEMMA RmGoing == ASSUME Inv, NEW d \in Dirs, Rm(d) PROVE Inv'
<1>1. /\ Types /\ names' = [names EXCEPT ![d] = 0]
      /\ Disturb({s \in Pushers : xfer[s].dir = d})
      /\ UNCHANGED <<content, cwd, xfer, arrived, got, slice, cut, short, failed>>
  BY DEF Rm, Inv
<1>2. /\ disturbed' \in [Sessions -> BOOLEAN]
      /\ \A t \in Sessions :
           disturbed'[t] = (disturbed[t] \/ t \in {s \in Pushers : xfer[s].dir = d})
  BY <1>1 DEF Disturb, Types
<1>3. names' \in [Dirs -> {0} \cup Inodes] /\ \A e \in Dirs \ {d} : names'[e] = names[e]
  BY <1>1 DEF Types
<1>4. Types'
  BY <1>1, <1>2, <1>3 DEF Types
<1>5. ASSUME NEW t \in Sessions PROVE Going(t)'
  <2>1. Going(t)
    BY DEF Inv
  <2>2. xfer[t].state = "push" => xfer[t].dir \in Dirs
    BY <2>1 DEF Going, Uploading
  <2>3. xfer[t].state = "push" /\ ~disturbed'[t] => names'[xfer[t].dir] = names[xfer[t].dir]
    BY <2>2, <1>2, <1>3 DEF Pushers
  <2> QED
    BY <2>1, <2>3, <1>1, <1>2, KeepsGoing
<1> QED
  BY <1>4, <1>5 DEF Inv

\* What an upload finds to write, and what the file becomes.
LEMMA Writing ==
  ASSUME TransferAssumption, Types, NEW s \in Sessions, Going(s), xfer[s].state = "push",
         NEW k \in 0 .. Taken(s)
  PROVE  LET x == xfer[s]
             n == Taken(s)
             w == SubSeq(SubSeq(Payload(s, x.size), x.moved + 1, x.moved + n), 1, k)
             f == WriteAt(content[x.inode], x.pos, w)
         IN  /\ n \in Nat /\ x.moved + n = arrived[s] /\ x.moved + n <= x.size
             /\ w \in Seq(Nat) /\ f \in Seq(Nat)
             /\ k = 0 => f = content[x.inode]
             /\ ~disturbed[s] =>
                  /\ names[x.dir] = x.inode /\ (x.relative => cwd = x.dir)
                  /\ Len(f) = x.pos + k
                  /\ IF short[s] \/ k < n THEN x.pos + k < x.moved + n
                     ELSE /\ x.pos + k = x.moved + n
                          /\ f = SubSeq(Payload(s, x.size), 1, x.moved + n)
<1> DEFINE x == xfer[s]
           P == Payload(s, x.size)
<1>1. x \in Transfers /\ x.inode \in Inodes /\ x.moved <= arrived[s] /\ arrived[s] <= x.size
      /\ arrived[s] \in Nat
  BY DEF Types, Going, Uploading
<1>2. x.moved \in Nat /\ x.size \in Nat /\ x.pos \in Nat
  BY <1>1 DEF Transfers
<1>3. PICK n \in Nat : n = Taken(s) /\ x.moved + n = arrived[s] /\ x.moved + n <= x.size
  BY <1>1, <1>2 DEF Taken, Least
<1>4. P \in Seq(Nat) /\ Len(P) = x.size
  BY <1>2, PayloadIs
<1> DEFINE v == SubSeq(P, x.moved + 1, x.moved + n)
           w == SubSeq(v, 1, k)
           c == content[x.inode]
           f == WriteAt(c, x.pos, w)
<1> HIDE DEF P
<1>5. v \in Seq(Nat) /\ Len(v) = n /\ Follows(v, P, x.moved)
  <2>1. PICK m \in Nat : m = x.moved
    BY <1>2
  <2>2. v = SubSeq(P, m + 1, m + n) /\ m + n <= Len(P)
    BY <2>1, <1>3, <1>4
  <2>3. v \in Seq(Nat) /\ Len(v) = n /\ \A j \in 1 .. n : v[j] = P[m + j]
    <3>1. \A j \in m + 1 .. m + n : P[j] \in Nat
      BY <2>2, <1>4
    <3> HIDE DEF v
    <3>2. /\ SubSeq(P, m + 1, m + n) \in Seq(Nat)
          /\ Len(SubSeq(P, m + 1, m + n)) = IF m + 1 <= m + n THEN m + n - (m + 1) + 1 ELSE 0
          /\ \A j \in 1 .. m + n - (m + 1) + 1 :
               SubSeq(P, m + 1, m + n)[j] = P[m + 1 + j - 1]
      BY <3>1, SubSeqProperties
    <3> QED
      BY <2>2, <3>2
  <2> HIDE DEF v
  <2> QED
    BY <2>1, <2>2, <2>3 DEF Follows
<1> HIDE DEF v
<1>6. k \in 0 .. Len(v) /\ k \in Nat /\ k <= n
  BY <1>3, <1>5
<1>7. w \in Seq(Nat) /\ Len(w) = k /\ (k = 0 => w = <<>>) /\ (k = n => w = v)
  <2>1. w \in Seq(Nat) /\ Len(w) = k
    BY <1>5, <1>6, PrefixIs
  <2>2. SubSeq(v, 1, Len(v)) = v
    BY <1>5
  <2> QED
    BY <2>1, <2>2, <1>5
<1>8. c \in Seq(Nat)
  BY <1>1 DEF Types
<1> HIDE DEF w, c
<1>9. f \in Seq(Nat) /\ (w = <<>> => f = c) /\ (Len(c) = x.pos => f = c \o w)
  BY <1>2, <1>7, <1>8, WriteIs
<1> HIDE DEF f
<1>10. ASSUME ~disturbed[s]
       PROVE  /\ names[x.dir] = x.inode /\ (x.relative => cwd = x.dir)
              /\ Len(f) = x.pos + k
              /\ IF short[s] \/ k < n THEN x.pos + k < x.moved + n
                 ELSE /\ x.pos + k = x.moved + n /\ f = SubSeq(P, 1, x.moved + n)
  <2>1. /\ names[x.dir] = x.inode /\ (x.relative => cwd = x.dir)
        /\ Len(c) = x.pos
        /\ IF short[s] THEN x.pos < x.moved
           ELSE x.pos = x.moved /\ c = SubSeq(P, 1, x.moved)
    BY <1>10 DEF Going, Stored, c, P
  <2> HIDE DEF x
  <2>2. f = c \o w /\ Len(f) = x.pos + k
    <3>1. c \in Seq(Nat) /\ w \in Seq(Nat)
      BY <1>7, <1>8
    <3>2. Len(c \o w) = Len(c) + Len(w)
      BY <3>1, ConcatProperties
    <3> QED
      BY <2>1, <3>2, <1>7, <1>9
  <2>3. ASSUME short[s] \/ k < n PROVE x.pos + k < x.moved + n
    <3>1. x.pos <= x.moved /\ (short[s] => x.pos < x.moved)
      BY <2>1, <1>2
    <3> QED
      BY <2>3, <3>1, <1>2, <1>3, <1>6
  <2>4. ASSUME ~(short[s] \/ k < n)
        PROVE  x.pos + k = x.moved + n /\ f = SubSeq(P, 1, x.moved + n)
    <3>1. k = n /\ x.pos = x.moved /\ c = SubSeq(P, 1, x.moved)
      BY <2>1, <2>4, <1>3, <1>6
    <3>2. SubSeq(P, 1, x.moved + Len(v)) = SubSeq(P, 1, x.moved) \o v
      BY <1>2, <1>4, <1>5, PrefixGrows
    <3> QED
      BY <2>2, <3>1, <3>2, <1>5, <1>7
  <2> QED
    BY <2>1, <2>2, <2>3, <2>4
<1> QED
  BY <1>3, <1>7, <1>9, <1>10 DEF f, w, v, c, P

\* Writing what has arrived, as far as the disk takes it, and the hash after
\* the last of it.
LEMMA PushEventGoing ==
  ASSUME TransferAssumption, Inv, NEW s \in Sessions, PushEvent(s) PROVE Inv'
<1> DEFINE x == xfer[s]
           n == Taken(s)
           w(k) == SubSeq(SubSeq(Payload(s, x.size), x.moved + 1, x.moved + n), 1, k)
           z(k) == [x EXCEPT !.moved = @ + n, !.pos = @ + k]
<1>1. PICK k \in 0 .. n :
        /\ content' = [content EXCEPT ![x.inode] = WriteAt(@, x.pos, w(k))]
        /\ short' = [short EXCEPT ![s] = @ \/ k < n]
        /\ Disturb(IF k = 0 THEN {} ELSE OpenOn(x.inode) \ {s})
        /\ IF z(k).moved = z(k).size
             THEN Finish(s, z(k)) /\ Send(s, <<Hash(FileHash(x, content'))>>, <<Prompt>>)
             ELSE xfer' = [xfer EXCEPT ![s] = z(k)] /\ UNCHANGED <<got, cut>>
  BY DEF PushEvent
<1>2. /\ Types /\ Going(s) /\ x.state = "push"
      /\ UNCHANGED <<names, cwd, arrived, slice, failed>>
  BY DEF PushEvent, Inv
<1> DEFINE f == WriteAt(content[x.inode], x.pos, w(k))
           y == z(k)
           P == Payload(s, x.size)
<1>3. /\ n \in Nat /\ x.moved + n = arrived[s] /\ x.moved + n <= x.size
      /\ f \in Seq(Nat)
      /\ k = 0 => f = content[x.inode]
      /\ ~disturbed[s] =>
           /\ names[x.dir] = x.inode /\ (x.relative => cwd = x.dir)
           /\ Len(f) = x.pos + k
           /\ IF short[s] \/ k < n THEN x.pos + k < x.moved + n
              ELSE x.pos + k = x.moved + n /\ f = SubSeq(P, 1, x.moved + n)
  BY <1>2, Writing
<1>4. /\ x \in Transfers /\ x.inode \in Inodes /\ x.kind = "push" /\ x.dir \in Dirs
      /\ got[s] = <<>> /\ ~cut[s] /\ arrived[s] <= x.size /\ arrived[s] \in Nat
  BY <1>2 DEF Types, Going, Uploading
<1>5. /\ content' \in [Inodes -> Seq(Nat)] /\ content'[x.inode] = f
      /\ \A j \in Inodes \ {x.inode} : content'[j] = content[j]
  <2>1. content' = [content EXCEPT ![x.inode] = f] /\ content \in [Inodes -> Seq(Nat)]
    BY <1>1, <1>2 DEF Types
  <2> HIDE DEF f
  <2> QED
    BY <2>1, <1>3, <1>4
<1>6. y \in Transfers /\ y.state = "push" /\ y.kind = "push" /\ y.dir = x.dir
      /\ y.relative = x.relative /\ y.inode = x.inode /\ y.size = x.size
      /\ y.moved = x.moved + n /\ y.pos = x.pos + k
  <2> HIDE DEF x, n
  <2>1. x.moved + n \in Nat /\ x.pos + k \in Nat
    BY <1>3, <1>4 DEF Transfers
  <2> QED
    BY <1>2, <1>4, <2>1 DEF Transfers
<1>7. IF y.moved = y.size
        THEN Finish(s, y) /\ Send(s, <<Hash(FileHash(x, content'))>>, <<Prompt>>)
        ELSE xfer' = [xfer EXCEPT ![s] = y] /\ UNCHANGED <<got, cut>>
  BY <1>1
<1>8. /\ short' \in [Sessions -> BOOLEAN] /\ (short'[s] <=> short[s] \/ k < n)
      /\ \A t \in Sessions \ {s} : short'[t] = short[t]
  <2> DEFINE c == k < n
  <2>1. c \in BOOLEAN /\ short' = [short EXCEPT ![s] = short[s] \/ c]
    BY <1>1
  <2>2. short \in [Sessions -> BOOLEAN]
    BY <1>2 DEF Types
  <2> HIDE DEF c
  <2>3. short' \in [Sessions -> BOOLEAN] /\ (short'[s] <=> short[s] \/ c)
        /\ \A t \in Sessions \ {s} : short'[t] = short[t]
    BY <2>1, <2>2
  <2> QED
    BY <2>3 DEF c
<1>9. /\ disturbed' \in [Sessions -> BOOLEAN] /\ disturbed'[s] = disturbed[s]
      /\ \A t \in Sessions : disturbed[t] => disturbed'[t]
      /\ \A t \in Sessions \ {s} : k # 0 /\ t \in OpenOn(x.inode) => disturbed'[t]
  <2> DEFINE T == IF k = 0 THEN {} ELSE OpenOn(x.inode) \ {s}
  <2>1. Disturb(T) /\ disturbed \in [Sessions -> BOOLEAN]
    BY <1>1, <1>2 DEF Types
  <2>2. s \notin T /\ \A t \in Sessions \ {s} : k # 0 /\ t \in OpenOn(x.inode) => t \in T
    OBVIOUS
  <2> HIDE DEF T
  <2>3. /\ disturbed' \in [Sessions -> BOOLEAN]
        /\ \A t \in Sessions : disturbed'[t] = (disturbed[t] \/ t \in T)
    BY <2>1 DEF Disturb
  <2> QED
    BY <2>1, <2>2, <2>3
<1> HIDE DEF f, y, P, w, z, n
<1>10. PICK h \in Seq(Int) : h = FileHash(x, content') /\ (~disturbed[s] => h = f)
  <2>1. FileHash(x, content') \in Seq(Int)
    <3>1. PICK e \in Dirs : e = IF x.relative THEN cwd ELSE x.dir
      BY <1>2, <1>4 DEF Types
    <3>2. FileHash(x, content') = IF names[e] = 0 THEN Nothing ELSE content'[names[e]]
      BY <3>1 DEF FileHash
    <3>3. Nothing \in Seq(Int)
      BY DEF Nothing
    <3>4. names[e] # 0 => content'[names[e]] \in Seq(Nat)
      BY <1>2, <1>5 DEF Types
    <3>5. Seq(Nat) \subseteq Seq(Int)
      OBVIOUS
    <3> QED
      BY <3>2, <3>3, <3>4, <3>5
  <2>2. ~disturbed[s] => FileHash(x, content') = f
    <3>1. 0 \notin Inodes
      BY DEF TransferAssumption
    <3> HIDE DEF x
    <3> QED
      BY <3>1, <1>3, <1>4, <1>5 DEF FileHash
  <2> QED
    BY <2>1, <2>2
<1>11. CASE y.moved = y.size
  <2>1. Finish(s, y) /\ Send(s, <<Hash(h)>>, <<Prompt>>)
    BY <1>7, <1>10, <1>11
  <2>2. /\ xfer' \in [Sessions -> Transfers]
        /\ \A t \in Sessions \ {s} : xfer'[t] = xfer[t]
        /\ xfer'[s].state = "done" /\ xfer'[s].kind = "push" /\ xfer'[s].size = x.size
    BY <1>2, <1>6, <2>1, FinishIs
  <2>3. /\ got' \in [Sessions -> Seq(Token)] /\ cut' \in [Sessions -> BOOLEAN]
        /\ \A t \in Sessions \ {s} : got'[t] = got[t] /\ cut'[t] = cut[t]
        /\ ~cut'[s] => got'[s] = <<Hash(h)>> \o <<Prompt>>
    <3> DEFINE a == <<Hash(h)>>
               b == <<Prompt>>
    <3>1. Send(s, a, b) /\ a \in Seq(Token) /\ BytesIn(a) = {} /\ b \in Seq(Token)
          /\ BytesIn(b) = {}
      BY <2>1, AroundBytes
    <3> HIDE DEF a, b
    <3>3. /\ got' \in [Sessions -> Seq(Token)] /\ cut' \in [Sessions -> BOOLEAN]
          /\ \A t \in Sessions \ {s} : got'[t] = got[t] /\ cut'[t] = cut[t]
          /\ ~cut'[s] => got'[s] = got[s] \o a \o b
      BY <1>2, <3>1, SendsNoByte
    <3>4. got[s] \o a = a
      BY <1>4, <3>1, WithNothing
    <3> QED
      BY <3>3, <3>4 DEF a, b
  <2>4. Types'
    BY <1>2, <1>5, <1>8, <1>9, <2>2, <2>3 DEF Types
  <2>5. ASSUME NEW t \in Sessions, t # s PROVE Going(t)'
    <3>1. Going(t)
      BY DEF Inv
    <3>2. Active(t) => xfer[t].inode \in Inodes
      BY <3>1 DEF Going, Active, Downloading, Uploading
    <3>3. Active(t) /\ ~disturbed'[t] => content'[xfer[t].inode] = content[xfer[t].inode]
      BY <3>2, <2>5, <1>3, <1>5, <1>9 DEF OpenOn
    <3> QED
      BY <3>1, <3>3, <2>5, <1>2, <1>8, <1>9, <2>2, <2>3, KeepsGoing
  <2>6. Told(s)'
    <3> SUFFICES ASSUME ~disturbed'[s], ~cut'[s]
                 PROVE  h = Payload(s, x.size) <=> ~short'[s]
      BY <2>2, <2>3, HashThenPrompt DEF Told
    <3>1. h = f /\ x.moved + n = x.size
      BY <1>6, <1>9, <1>10, <1>11
    <3>2. P \in Seq(Nat) /\ Len(P) = x.size /\ SubSeq(P, 1, x.size) = P
      <4>1. x.size \in Nat
        BY <1>4 DEF Transfers
      <4>2. P \in Seq(Nat) /\ Len(P) = x.size
        BY <4>1, PayloadIs DEF P
      <4>3. SubSeq(P, 1, Len(P)) = P
        BY <4>2
      <4> QED
        BY <4>2, <4>3
    <3>3. CASE short'[s]
      <4>1. Len(f) = x.pos + k /\ x.pos + k < x.moved + n
        BY <3>3, <1>3, <1>8, <1>9
      <4>2. x.pos \in Nat /\ x.size \in Nat
        BY <1>4 DEF Transfers
      <4>3. Len(f) # Len(P)
        BY <3>1, <3>2, <4>1, <4>2
      <4> QED
        BY <3>1, <3>3, <4>3 DEF P
    <3>4. CASE ~short'[s]
      <4>1. f = SubSeq(P, 1, x.moved + n)
        BY <3>4, <1>3, <1>8, <1>9
      <4> QED
        BY <3>1, <3>2, <3>4, <4>1 DEF P
    <3> QED
      BY <3>3, <3>4
  <2>7. Counted(s)' /\ Delivered(s)'
    BY <2>2 DEF Counted, Delivered, Pulled
  <2> QED
    BY <2>2, <2>4, <2>5, <2>6, <2>7, OnlyDone DEF Inv
<1>12. CASE y.moved # y.size
  <2>1. xfer' = [xfer EXCEPT ![s] = y] /\ UNCHANGED <<got, cut>>
    BY <1>7, <1>12
  <2>2. /\ xfer' \in [Sessions -> Transfers] /\ xfer'[s] = y
        /\ \A t \in Sessions \ {s} : xfer'[t] = xfer[t]
    BY <1>2, <1>6, <2>1 DEF Types
  <2>3. Types'
    BY <1>2, <1>5, <1>8, <1>9, <2>1, <2>2 DEF Types
  <2>4. ASSUME NEW t \in Sessions, t # s PROVE Going(t)'
    <3>1. Going(t)
      BY DEF Inv
    <3>2. Active(t) => xfer[t].inode \in Inodes
      BY <3>1 DEF Going, Active, Downloading, Uploading
    <3>3. Active(t) /\ ~disturbed'[t] => content'[xfer[t].inode] = content[xfer[t].inode]
      BY <3>2, <2>4, <1>3, <1>5, <1>9 DEF OpenOn
    <3> QED
      BY <3>1, <3>3, <2>4, <1>2, <1>8, <1>9, <2>1, <2>2, KeepsGoing
  <2>5. Uploading(s)'
    BY <1>2, <1>3, <1>4, <1>6, <2>1, <2>2 DEF Uploading
  <2>6. Stored(s)'
    <3> SUFFICES ASSUME ~disturbed'[s]
                 PROVE  /\ names'[y.dir] = y.inode /\ (y.relative => cwd' = y.dir)
                        /\ Len(content'[y.inode]) = y.pos
                        /\ IF short'[s] THEN y.pos < y.moved
                           ELSE /\ y.pos = y.moved
                                /\ content'[y.inode] = SubSeq(Payload(s, y.size), 1, y.moved)
      BY <2>2 DEF Stored
    <3> HIDE DEF x
    <3> QED
      BY <1>2, <1>3, <1>5, <1>6, <1>8, <1>9 DEF P
  <2>7. Going(s)'
    BY <1>6, <2>2, <2>5, <2>6, OnlyUploading
  <2> QED
    BY <2>3, <2>4, <2>7 DEF Inv
<1> QED
  BY <1>11, <1>12
-----------------------------------------------------------------------------
\* Every step keeps every transfer going.
LEMMA InvStep == ASSUME TransferAssumption, Inv, [Next]_vars PROVE Inv'
<1>1. CASE UNCHANGED vars
  <2>1. Types'
    BY <1>1 DEF vars, disk, history, Inv, Types
  <2>2. ASSUME NEW t \in Sessions PROVE Going(t)'
    <3>1. Going(t)
      BY DEF Inv
    <3> QED
      BY <3>1, <1>1, KeepsGoing DEF vars, disk, history
  <2> QED
    BY <2>1, <2>2 DEF Inv
<1>2. ASSUME NEW s \in Sessions, NEW r \in Ranges, OpenPull(s, "pull", r[1], r[2]) PROVE Inv'
  <2>1. r[1] \in Nat /\ r[2] \in Nat
    BY DEF TransferAssumption
  <2> QED
    BY <1>2, <2>1, OpenPullGoing
<1>3. ASSUME NEW s \in Sessions, OpenPull(s, "cat", 0, 0) PROVE Inv'
  BY <1>3, OpenPullGoing
<1>4. ASSUME NEW s \in Sessions, NEW n \in PushSizes, OpenPush(s, n) PROVE Inv'
  BY <1>4, OpenPushGoing DEF TransferAssumption
<1> QED
  BY <1>1, <1>2, <1>3, <1>4, FailOpenGoing, PullEventGoing, ArriveGoing, PushEventGoing,
     CdGoing, RmGoing
  DEF Next

\* The inductive invariant behind the theorems.
LEMMA InvAlways == ASSUME TransferAssumption PROVE Spec => []Inv
<1>1. Init => Inv
  BY InitGoing
<1>2. Inv /\ [Next]_vars => Inv'
  BY InvStep
<1> QED
  BY <1>1, <1>2, PTL DEF Spec

\* An undisturbed download delivers what was asked for, byte for byte, whatever
\* other sessions do to the directory and the name of its file, and if a read
\* fails, as much of it as had been read; and a client is never sent more of a
\* file than was announced to it, whatever happens.
THEOREM PullsDeliver == ASSUME TransferAssumption PROVE Spec => []PullDelivers
<1>1. Inv => PullDelivers
  <2> SUFFICES ASSUME Inv PROVE PullDelivers
    OBVIOUS
  <2>1. ASSUME NEW s \in Sessions, Done(s), Pulled(s), ~disturbed[s], ~cut[s]
        PROVE  LET x == xfer[s]
                   body == Bytes(SubSeq(slice[s], 1, x.moved)) \o <<Prompt>>
               IN  /\ x.moved <= Len(slice[s])
                   /\ got[s] = IF x.kind = "cat" THEN body ELSE <<Header(x.size)>> \o body
                   /\ ~failed[s] => x.moved = Len(slice[s])
                   /\ x.kind = "pull" /\ x.start + x.want <= x.total => x.size = Len(slice[s])
    <3> DEFINE x == xfer[s]
               body == Bytes(SubSeq(slice[s], 1, x.moved)) \o <<Prompt>>
    <3>1. /\ x.moved <= Len(slice[s])
          /\ got[s] = Announced(x) \o body
          /\ ~failed[s] => x.moved = Len(slice[s])
          /\ x.kind = "pull" /\ x.start + x.want <= x.total => x.size = Len(slice[s])
      BY <2>1 DEF Inv, Going, Delivered
    <3>2. body \in Seq(Token)
      <4>1. slice[s] \in Seq(Nat) /\ xfer[s] \in Transfers
        BY DEF Inv, Types
      <4>3. x.moved \in 0 .. Len(slice[s])
        BY <3>1, <4>1 DEF Transfers
      <4>2. SubSeq(slice[s], 1, x.moved) \in Seq(Nat)
        BY <4>1, <4>3, PrefixIs
      <4>4. PICK u \in Seq(Token) : u = Bytes(SubSeq(slice[s], 1, x.moved))
        BY <4>2, BytesAre
      <4>5. PICK n \in Seq(Token) : n = <<Prompt>>
        BY AroundBytes
      <4>6. u \o n \in Seq(Token)
        BY ConcatProperties
      <4> QED
        BY <4>4, <4>5, <4>6
    <3>3. <<>> \o body = body
      BY <3>2, WithNothing
    <3> QED
      BY <3>1, <3>3 DEF Announced
  <2>2. PullExact
    BY <2>1 DEF PullExact
  <2>3. ASSUME NEW s \in Sessions, Pulled(s) PROVE Received(s) <= xfer[s].size
    <3>1. IsFiniteSet(BytesIn(got[s])) /\ Received(s) <= xfer[s].moved
          /\ xfer[s].moved <= xfer[s].size
      BY <2>3 DEF Inv, Going, Counted, Pulled
    <3>2. Received(s) \in Nat /\ xfer[s].moved \in Nat /\ xfer[s].size \in Nat
      BY <3>1, FS_CardinalityType DEF Received, Inv, Types, Transfers
    <3> QED
      BY <3>1, <3>2
  <2> QED
    BY <2>2, <2>3 DEF PullDelivers, AtMostAnnounced
<1> QED
  BY <1>1, InvAlways, PTL

\* The hash in the answer to an undisturbed push is that of the payload if and
\* only if every write to its file was done in full.
THEOREM HashesTell == ASSUME TransferAssumption PROVE Spec => []PushHashTells
<1>1. Inv => PushHashTells
  BY DEF Inv, Going, Told, PushHashTells
<1> QED
  BY <1>1, InvAlways, PTL
-----------------------------------------------------------------------------
(***************************************************************************)
(* That pulls come to an end: a bound of the events that are left.         *)
(***************************************************************************)
ToCome(s) == IF xfer[s].state = "pull" THEN xfer[s].size - xfer[s].moved + 1 ELSE 0

LEMMA ToComeIsNumber == ASSUME Inv, NEW s \in Sessions PROVE ToCome(s) \in Nat
<1>1. CASE xfer[s].state = "pull"
  <2>1. xfer[s].kind \in {"pull", "cat"}
    BY <1>1 DEF Inv, Going, Downloading
  <2>2. xfer[s].moved <= xfer[s].size
    BY <2>1 DEF Inv, Going, Counted
  <2>3. xfer[s] \in Transfers
    BY DEF Inv, Types
  <2>4. xfer[s].moved \in Nat /\ xfer[s].size \in Nat
    BY <2>3 DEF Transfers
  <2> QED
    BY <1>1, <2>2, <2>4 DEF ToCome
<1>2. CASE xfer[s].state # "pull"
  BY <1>2 DEF ToCome
<1> QED
  BY <1>1, <1>2

\* An event moves at least a byte, or is the last one.
LEMMA EventAdvances ==
  ASSUME TransferAssumption, Inv, NEW s \in Sessions, PullEvent(s)
  PROVE  ToCome(s)' < ToCome(s)
<1> DEFINE x == xfer[s]
           b == Block(x)
           y == [x EXCEPT !.moved = @ + Len(b), !.pos = @ + Len(b)]
<1>1. /\ Types /\ Going(s) /\ x.state = "pull"
      /\ \/ IF b = <<>> \/ y.moved = y.size THEN Finish(s, y)
            ELSE xfer' = [xfer EXCEPT ![s] = y]
         \/ Finish(s, x)
  BY DEF PullEvent, ReadNext, ReadFails, Inv
<1>2. x \in Transfers /\ b \in Seq(Nat) /\ x.moved + Len(b) <= x.size
  BY <1>1, BlockOf
<1>3. xfer \in [Sessions -> Transfers]
  BY <1>1 DEF Types
<1> HIDE DEF b
<1>4. Len(b) \in Nat /\ (b # <<>> => Len(b) > 0)
  BY <1>2, EmptySeq, LenProperties
<1>5. x.moved \in Nat /\ x.size \in Nat /\ x.pos \in Nat
  BY <1>2 DEF Transfers
<1>6. x.moved + Len(b) \in Nat /\ x.pos + Len(b) \in Nat
  BY <1>4, <1>5
<1>7. /\ y \in Transfers /\ y.state = "pull" /\ y.size = x.size /\ y.moved = x.moved + Len(b)
  <2> HIDE DEF x
  <2> QED
    BY <1>1, <1>2, <1>6 DEF Transfers
<1>8. ToCome(s) = x.size - x.moved + 1
  BY <1>1 DEF ToCome
<1> HIDE DEF y
<1>9. CASE Finish(s, x) \/ Finish(s, y)
  <2>1. xfer'[s].state = "done"
    <3> HIDE DEF x
    <3> QED
      BY <1>1, <1>2, <1>7, <1>9, FinishIs
  <2>2. ToCome(s)' = 0
    BY <2>1 DEF ToCome
  <2>3. x.size - x.moved + 1 > 0
    BY <1>2, <1>4, <1>5
  <2> QED
    BY <1>8, <2>2, <2>3
<1>10. CASE b # <<>> /\ xfer' = [xfer EXCEPT ![s] = y]
  <2>1. xfer'[s] = y
    BY <1>1, <1>3, <1>10
  <2>2. ToCome(s)' = y.size - y.moved + 1
    BY <1>7, <2>1 DEF ToCome
  <2> HIDE DEF x
  <2>3. x.size - (x.moved + Len(b)) + 1 < x.size - x.moved + 1
    BY <1>4, <1>5, <1>10
  <2> QED
    BY <1>7, <1>8, <2>2, <2>3
<1> QED
  BY <1>1, <1>9, <1>10

\* No event of another session touches a pull, and none of its own session but
\* this one.
LEMMA OnlyItsEvents ==
  ASSUME Inv, NEW s \in Sessions, xfer[s].state = "pull", [Next]_vars, ~PullEvent(s)
  PROVE  xfer'[s] = xfer[s]
<1>0. xfer \in [Sessions -> Transfers]
  BY DEF Inv, Types
<1>1. CASE UNCHANGED vars
  BY <1>1 DEF vars
<1>2. ASSUME NEW t \in Sessions, NEW a, NEW n, NEW kind, OpenPull(t, kind, a, n)
      PROVE  xfer'[s] = xfer[s]
  <2>1. t # s
    BY <1>2 DEF OpenPull
  <2>2. \E y : xfer' = [xfer EXCEPT ![t] = y]
    BY <1>2 DEF OpenPull, Finish
  <2> QED
    BY <1>0, <2>1, <2>2
<1>3. ASSUME NEW t \in Sessions, FailOpen(t) PROVE xfer'[s] = xfer[s]
  BY <1>0, <1>3 DEF FailOpen, Finish
<1>4. ASSUME NEW t \in Sessions, PullEvent(t) PROVE xfer'[s] = xfer[s]
  <2>1. \E y : xfer' = [xfer EXCEPT ![t] = y]
    BY <1>4 DEF PullEvent, ReadNext, ReadFails, Finish
  <2> QED
    BY <1>0, <1>4, <2>1
<1>5. ASSUME NEW t \in Sessions, NEW n, OpenPush(t, n) PROVE xfer'[s] = xfer[s]
  <2>1. t # s
    BY <1>5 DEF OpenPush
  <2>2. \E y : xfer' = [xfer EXCEPT ![t] = y]
    BY <1>5 DEF OpenPush
  <2> QED
    BY <1>0, <2>1, <2>2
<1>6. ASSUME NEW t \in Sessions, PushEvent(t) PROVE xfer'[s] = xfer[s]
  <2>1. t # s
    BY <1>6 DEF PushEvent
  <2>2. \E y : xfer' = [xfer EXCEPT ![t] = y]
    BY <1>6 DEF PushEvent, Finish
  <2> QED
    BY <1>0, <2>1, <2>2
<1>7. ASSUME NEW t \in Sessions, Arrive(t) PROVE xfer'[s] = xfer[s]
  BY <1>7 DEF Arrive
<1>8. ASSUME NEW d \in Dirs, Cd(d) \/ Rm(d) PROVE xfer'[s] = xfer[s]
  BY <1>8 DEF Cd, Rm
<1> QED
  BY <1>1, <1>2, <1>3, <1>4, <1>5, <1>6, <1>7, <1>8 DEF Next

\* Whatever happens to its file, a pull has only so many events before it: each
\* lowers a number, and nothing raises it again, a file that grows least of all
\* (PullFileEventHandler::handleEvent()).
THEOREM PullsAreBounded ==
  ASSUME TransferAssumption
  PROVE  Spec => /\ [](\A s \in Sessions : ToCome(s) \in Nat)
                 /\ [][\A s \in Sessions :
                         /\ PullEvent(s) => ToCome(s)' < ToCome(s)
                         /\ xfer[s].state = "pull" /\ ~PullEvent(s) => xfer'[s] = xfer[s]]_vars
<1> DEFINE Advances ==
             \A s \in Sessions :
               /\ PullEvent(s) => ToCome(s)' < ToCome(s)
               /\ xfer[s].state = "pull" /\ ~PullEvent(s) => xfer'[s] = xfer[s]
<1>1. Inv => \A s \in Sessions : ToCome(s) \in Nat
  BY ToComeIsNumber
<1>2. Inv /\ [Next]_vars => [Advances]_vars
  BY EventAdvances, OnlyItsEvents
<1> QED
  BY <1>1, <1>2, InvAlways, PTL DEF Spec
=============================================================================
