-------------------------- MODULE RemoveTreeProofs --------------------------
(***************************************************************************)
(* What rmdr removes and what its answer tells, for any tree, any links,   *)
(* rights and bounds, while other processes remove, make and move files,   *)
(* directories and links and replace links, at any time and any number of  *)
(* times.                                                                  *)
(***************************************************************************)
EXTENDS RemoveTree, WellFoundedInduction, SequenceTheorems, TLAPS

Dest(n) == IF n \in Links THEN target[n] ELSE n

Frame == [path : Seq(Nodes), dir : Nodes, left : SUBSET Nodes]

Types ==
  /\ parent \in [Nodes -> Nodes \cup {Top, Absent}] /\ IsTree(parent)
  /\ target \in Targets
  /\ pc \in {"call", "open", "read", "done", "crashed"}
  /\ arg \in Seq(Nodes) /\ arg # <<>>
  /\ stack \in Seq(Frame) /\ open = Len(stack)
  /\ pc = "read" => stack # <<>>
  /\ silent \in BOOLEAN /\ others \in Nat
  /\ removed \in SUBSET Nodes /\ \A n \in removed : parent[n] = Absent

\* What is known of the tree at first.
Started ==
  /\ start.parent \in Shapes
  /\ start.tree = Below(start.parent, Argument, {})

\* Every path begins with the argument, and what is open is a directory.
Descended(frame) == frame.path # <<>> /\ frame.path[1] = Argument /\ Kind[frame.dir] = "dir"

Descending ==
  /\ \A i \in DOMAIN stack : Descended(stack[i])
  /\ pc \in {"call", "open"} => arg[1] = Argument

\* The outermost call is that of the argument, and if it says nothing the
\* argument is not where it was.
Outermost ==
  /\ IF stack = <<>> THEN pc \in {"call", "open"} => arg = <<Argument>>
                     ELSE stack[1].path = <<Argument>>
  /\ pc = "done" /\ silent /\ DirArgument => parent[Argument] # Top

Inv == Types /\ Started /\ Descending /\ Outermost

\* The premise of CleanRun, before rmdr is done.
Clean ==
  /\ DirArgument /\ others = 0 /\ unwritable = {}
  /\ \A l \in Links \cap InTree : target[l] \notin Dirs

\* The directory that the one in frame i is in, and the entry of it that is being
\* dealt with.
ParentOf(i) == IF i = 1 THEN Top ELSE stack[i - 1].dir
Busy(i) ==
  IF i < Len(stack) THEN {stack[i + 1].dir} ELSE IF pc = "read" THEN {} ELSE {Last(arg)}

\* The open directories are each in the one before, and of what is in them all
\* but the entry being dealt with is left to read.
Stacked(i) ==
  /\ Len(stack[i].path) = i /\ \A k \in 1 .. i : stack[i].path[k] = stack[k].dir
  /\ stack[i].dir \in InTree /\ Kind[stack[i].dir] = "dir"
  /\ parent[stack[i].dir] = ParentOf(i)
  /\ \A n \in stack[i].left : start.parent[n] = stack[i].dir
  /\ Entries(stack[i].dir) \subseteq stack[i].left \cup Busy(i)

Calling ==
  /\ stack # <<>> => /\ arg = Append(Last(stack).path, Last(arg))
                     /\ start.parent[Last(arg)] = Last(stack).dir
  /\ pc = "open" => Kind[Last(arg)] = "dir"

Orderly ==
  /\ silent
  /\ \A n \in Nodes : parent[n] = IF n \in removed THEN Absent ELSE start.parent[n]
  /\ \A i \in DOMAIN stack : Stacked(i)
  /\ pc \in {"call", "open"} => Calling
  /\ pc = "done" => Argument \in removed

CleanInv == Clean => Orderly
-----------------------------------------------------------------------------
\* Sets of natural numbers have a least element.
LEMMA SmallestOf ==
  ASSUME NEW S \in SUBSET Nat, S # {}
  PROVE  \E k \in S : \A j \in S : k <= j
<1> DEFINE R == OpToRel(<, Nat)
<1>1. IsWellFoundedOn(R, Nat)
  BY NatLessThanWellFounded
<1>2. \A x, y \in Nat : <<x, y>> \in R <=> x < y
  BY DEF OpToRel
<1> HIDE DEF R
<1>3. PICK k \in S : \A j \in S : ~ (<<j, k>> \in R)
  BY <1>1, WFMin
<1>4. \A j \in S : k <= j
  <2> TAKE j \in S
  <2>1. j \in Nat /\ k \in Nat
    OBVIOUS
  <2>2. ~ (j < k)
    BY <1>2, <1>3, <2>1
  <2> QED
    BY <2>1, <2>2
<1> QED
  BY <1>4

(***************************************************************************)
(* What is below a node.                                                   *)
(***************************************************************************)
LEMMA LinkTypes ==
  ASSUME TreeAssumption, target \in Targets
  PROVE  /\ Links = {n \in Nodes : Kind[n] = "link"}
         /\ \A l \in Links : target[l] \in Nodes \cup {Absent}
BY DEF TreeAssumption, Links

\* It is a closed set of nodes with the node in it,
LEMMA BelowIsClosed ==
  ASSUME TreeAssumption, target \in Targets, NEW p, NEW d \in Nodes, NEW L \in SUBSET Links
  PROVE  /\ d \in Below(p, d, L)
         /\ Below(p, d, L) \subseteq Nodes
         /\ Closed(p, Below(p, d, L), L)
BY LinkTypes DEF Below, Closed

\* and the least one.
LEMMA BelowIsLeast ==
  ASSUME NEW p, NEW d, NEW L, NEW S \in SUBSET Nodes, d \in S, Closed(p, S, L)
  PROVE  Below(p, d, L) \subseteq S
BY DEF Below

\* What is below a node in the tree, but for the node itself, is in a directory
\* that is below it.
LEMMA ParentIsBelow ==
  ASSUME TreeAssumption, target \in Targets, NEW p, NEW d \in Nodes,
         NEW n \in Below(p, d, {}), n # d
  PROVE  p[n] \in Below(p, d, {})
<1> DEFINE B == Below(p, d, {})
<1>1. d \in B /\ B \subseteq Nodes /\ Closed(p, B, {})
  BY BelowIsClosed
<1> HIDE DEF B
<1>2. SUFFICES ASSUME p[n] \notin B PROVE FALSE
  BY DEF B
<1>3. Closed(p, B \ {n}, {})
  BY <1>1, <1>2 DEF Closed
<1>4. B \subseteq B \ {n}
  BY <1>1, <1>3, BelowIsLeast DEF B
<1> QED
  BY <1>4 DEF B

\* What is below something that is below a node is below the node.
LEMMA BelowBelow ==
  ASSUME TreeAssumption, target \in Targets, NEW p, NEW d \in Nodes, NEW L \in SUBSET Links,
         NEW e \in Below(p, d, L)
  PROVE  Below(p, e, L) \subseteq Below(p, d, L)
BY BelowIsClosed, BelowIsLeast

\* No directory of a tree is below what is in it.
LEMMA NoCircle ==
  ASSUME TreeAssumption, target \in Targets, NEW p, IsTree(p), NEW n \in Nodes
  PROVE  p[n] \notin Below(p, n, {})
<1> DEFINE B == Below(p, n, {})
<1>1. n \in B /\ B \subseteq Nodes
  BY BelowIsClosed
<1>2. \A m \in B : m # n => p[m] \in B
  BY ParentIsBelow
<1>3. \E m \in B : p[m] \notin B
  <2> HIDE DEF B
  <2> QED
    BY <1>1 DEF IsTree
<1> QED
  BY <1>2, <1>3

\* What can be reached from a node is below it, or below a node that a
\* link leads to which can be reached.
LEMMA ReachedByTreeOrLink ==
  ASSUME TreeAssumption, target \in Targets, NEW p, NEW a \in Nodes,
         NEW n \in Below(p, a, Links), n \notin Below(p, a, {})
  PROVE  \E l \in Links \cap Below(p, a, Links) :
           target[l] # Absent /\ n \in Below(p, target[l], Links)
<1> DEFINE T == Below(p, a, {})
           R == Below(p, a, Links)
           Via(y) == \E l \in Links \cap R : target[l] # Absent /\ y \in Below(p, target[l], Links)
           Y == {y \in R : y \in T \/ Via(y)}
<1>1. /\ a \in R /\ R \subseteq Nodes /\ Closed(p, R, Links)
      /\ a \in T /\ T \subseteq Nodes /\ Closed(p, T, {})
  BY BelowIsClosed
<1>2. \A l \in Links : target[l] # Absent =>
        /\ target[l] \in Nodes
        /\ target[l] \in Below(p, target[l], Links)
        /\ Closed(p, Below(p, target[l], Links), Links)
  BY LinkTypes, BelowIsClosed
<1>3. Closed(p, Y, Links)
  <2> HIDE DEF T, R
  <2>1. ASSUME NEW m \in Nodes, p[m] \in Y PROVE m \in Y
    <3>1. m \in R
      BY <1>1, <2>1 DEF Closed
    <3>2. CASE p[m] \in T
      BY <1>1, <3>1, <3>2 DEF Closed
    <3>3. CASE Via(p[m])
      BY <1>2, <3>1, <3>3 DEF Closed
    <3> QED
      BY <2>1, <3>2, <3>3
  <2>2. ASSUME NEW l \in Links \cap Y, target[l] # Absent PROVE target[l] \in Y
    BY <1>1, <1>2, <2>2 DEF Closed
  <2> QED
    BY <2>1, <2>2 DEF Closed
<1>4. R \subseteq Y
  <2>1. a \in Y /\ Y \in SUBSET Nodes
    BY <1>1
  <2> HIDE DEF Y
  <2> QED
    BY <1>3, <2>1, BelowIsLeast
<1> QED
  BY <1>4

\* What is in a directory that can be reached is below the node, or
\* strictly below a node that a link leads to.
LEMMA EntryOfReached ==
  ASSUME TreeAssumption, target \in Targets, NEW p, IsTree(p), NEW a \in Nodes,
         NEW n \in Nodes, p[n] \in Below(p, a, Links)
  PROVE  n \in Below(p, a, {}) \cup Led(p, a)
<1> DEFINE T == Below(p, a, {})
           R == Below(p, a, Links)
           N == Below(p, n, Links)
           Z == {z \in N : z \in Below(p, n, {}) \/ n \notin Below(p, z, Links)}
<1> SUFFICES ASSUME n \notin T, n \notin Led(p, a) PROVE FALSE
  OBVIOUS
<1>1. n \in R /\ R \subseteq Nodes /\ Closed(p, R, Links) /\ Closed(p, T, {})
  BY BelowIsClosed DEF Closed
<1>2. N \subseteq R
  BY <1>1, BelowBelow
<1>3. \A l \in Links \cap R : target[l] # Absent /\ n \in Below(p, target[l], Links) => n = target[l]
  BY DEF Led
<1>4. \A l \in Links : target[l] # Absent => target[l] \in Nodes
  BY LinkTypes
<1>5. n \in N /\ N \subseteq Nodes /\ Closed(p, N, Links)
  BY BelowIsClosed
<1>6. n \in Below(p, n, {}) /\ Closed(p, Below(p, n, {}), {})
  BY BelowIsClosed
<1>7. Closed(p, Z, Links)
  <2>1. ASSUME NEW m \in Nodes, p[m] \in Z PROVE m \in Z
    <3>1. m \in N
      BY <1>5, <2>1 DEF Closed
    <3>2. CASE p[m] \in Below(p, n, {})
      BY <1>6, <3>1, <3>2 DEF Closed
    <3>3. CASE n \notin Below(p, p[m], Links)
      <4>1. p[m] \in Nodes
        BY <1>5, <2>1
      <4>2. m \in Below(p, p[m], Links)
        BY <4>1, BelowIsClosed DEF Closed
      <4>3. n \notin Below(p, m, Links)
        BY <3>3, <4>1, <4>2, BelowBelow
      <4> QED
        BY <3>1, <4>3
    <3> QED
      BY <2>1, <3>2, <3>3
  <2>2. ASSUME NEW l \in Links \cap Z, target[l] # Absent PROVE target[l] \in Z
    <3>1. target[l] \in N
      BY <1>5, <2>2 DEF Closed
    <3>2. n \notin Below(p, target[l], Links) \/ n = target[l]
      BY <1>2, <1>3, <2>2
    <3> QED
      BY <1>6, <3>1, <3>2
  <2> QED
    BY <2>1, <2>2 DEF Closed
<1>8. N \subseteq Z
  <2>1. n \in Z /\ Z \in SUBSET Nodes
    BY <1>5, <1>6
  <2> HIDE DEF Z
  <2> QED
    BY <1>7, <2>1, BelowIsLeast
<1>9. PICK l \in Links \cap R : target[l] # Absent /\ n \in Below(p, target[l], Links)
  BY <1>1, ReachedByTreeOrLink
<1>10. p[n] \notin T
  BY <1>1 DEF Closed
<1>11. PICK k \in Links \cap R : target[k] # Absent /\ p[n] \in Below(p, target[k], Links)
  BY <1>10, ReachedByTreeOrLink
<1>12. n \in Below(p, target[k], Links) /\ target[k] = n
  BY <1>3, <1>4, <1>11, BelowIsClosed DEF Closed
<1>13. p[n] \in Z /\ p[n] \in Nodes
  BY <1>5, <1>8, <1>11, <1>12
<1>14. n \in Below(p, p[n], Links)
  BY <1>13, BelowIsClosed DEF Closed
<1>15. p[n] \in Below(p, n, {})
  BY <1>13, <1>14
<1> QED
  BY <1>15, NoCircle
-----------------------------------------------------------------------------
(***************************************************************************)
(* Where a path leads.                                                     *)
(***************************************************************************)
Root == {[at |-> Top, links |-> 0]}

\* f is the walk along a path.
IsWalk(f, path, k) ==
  f = [i \in 0 .. k |-> IF i = 0 THEN Root ELSE Walk(f[i - 1], path[i])]

\* There is a walk along every path,
LEMMA WalkExists ==
  ASSUME NEW path, NEW k \in Nat
  PROVE  \E f : IsWalk(f, path, k)
<1> DEFINE Without == {j \in Nat : \A f : ~IsWalk(f, path, j)}
<1>1. SUFFICES ASSUME Without # {} PROVE FALSE
  OBVIOUS
<1>2. PICK j \in Without : \A i \in Without : j <= i
  BY <1>1, SmallestOf
<1>3. CASE j = 0
  <2> DEFINE f == [i \in 0 .. 0 |-> Root]
  <2>1. IsWalk(f, path, 0)
    BY DEF IsWalk
  <2> QED
    BY <1>2, <1>3, <2>1
<1>4. CASE j # 0
  <2>1. j - 1 \in Nat /\ j - 1 \notin Without
    BY <1>2, <1>4
  <2>2. PICK g : IsWalk(g, path, j - 1)
    BY <2>1
  <2> DEFINE f == [i \in 0 .. j |-> IF i = j THEN Walk(g[j - 1], path[j]) ELSE g[i]]
  <2>3. f[0] = Root
    BY <1>4, <2>1, <2>2 DEF IsWalk
  <2>4. \A i \in 1 .. j : f[i] = Walk(f[i - 1], path[i])
    BY <1>4, <2>1, <2>2 DEF IsWalk
  <2>5. IsWalk(f, path, j)
    BY <1>4, <2>3, <2>4 DEF IsWalk
  <2> QED
    BY <1>2, <2>5
<1> QED
  BY <1>3, <1>4

\* and only one.
LEMMA WalkUnique ==
  ASSUME NEW path, NEW q, NEW k \in Nat, NEW m \in Nat, k <= m,
         \A i \in 1 .. k : path[i] = q[i],
         NEW f, NEW g, IsWalk(f, path, k), IsWalk(g, q, m)
  PROVE  f[k] = g[k]
<1> DEFINE Differ == {i \in 0 .. k : f[i] # g[i]}
<1>1. SUFFICES ASSUME Differ # {} PROVE FALSE
  OBVIOUS
<1>2. PICK j \in Differ : \A i \in Differ : j <= i
  <2>1. Differ \in SUBSET Nat
    OBVIOUS
  <2> HIDE DEF Differ
  <2> QED
    BY <1>1, <2>1, SmallestOf
<1>3. /\ f[0] = Root /\ g[0] = Root
      /\ \A i \in 1 .. k : f[i] = Walk(f[i - 1], path[i]) /\ g[i] = Walk(g[i - 1], path[i])
  BY DEF IsWalk
<1>4. j \in 1 .. k /\ j - 1 \in 0 .. k /\ j - 1 \notin Differ
  BY <1>2, <1>3
<1>5. f[j - 1] = g[j - 1]
  BY <1>4
<1> QED
  BY <1>2, <1>3, <1>4, <1>5

\* A path leads one name further than the path without its last name.
LEMMA OneNameFurther ==
  ASSUME NEW path \in Seq(Nodes)
  PROVE  /\ path = <<>> => Walked(path) = Root
         /\ path # <<>> => Walked(path) = Walk(Walked(Front(path)), Last(path))
<1> DEFINE W(p) == CHOOSE f : IsWalk(f, p, Len(p))
<1>1. \A p \in Seq(Nodes) : Walked(p) = W(p)[Len(p)] /\ IsWalk(W(p), p, Len(p))
  <2> TAKE p \in Seq(Nodes)
  <2>1. IsWalk(W(p), p, Len(p))
    BY WalkExists
  <2>2. Walked(p) = W(p)[Len(p)]
    BY DEF Walked, IsWalk, Root
  <2> QED
    BY <2>1, <2>2
<1> HIDE DEF W
<1>2. CASE path = <<>>
  <2>1. Len(path) = 0 /\ IsWalk(W(path), path, 0)
    BY <1>1, <1>2
  <2>2. W(path)[0] = Root
    BY <2>1 DEF IsWalk
  <2> QED
    BY <1>1, <1>2, <2>1, <2>2
<1>3. CASE path # <<>>
  <2>1. PICK k \in Nat : k + 1 = Len(path)
    <3>1. Len(path) \in Nat \ {0}
      BY <1>3
    <3> QED
      BY <3>1
  <2>2. Front(path) \in Seq(Nodes) /\ Len(Front(path)) = k
        /\ \A i \in 1 .. k : Front(path)[i] = path[i]
    BY <2>1 DEF Front
  <2>3. W(Front(path))[k] = W(path)[k]
    BY <1>1, <2>1, <2>2, WalkUnique
  <2>4. W(path)[k + 1] = Walk(W(path)[k], path[k + 1])
    BY <1>1, <2>1 DEF IsWalk
  <2> QED
    BY <1>1, <2>1, <2>2, <2>3, <2>4 DEF Last
<1> QED
  BY <1>2, <1>3

\* A path leads to what something leads to that has its last name and is where
\* the path without it leads.
LEMMA LeadsTo ==
  ASSUME TreeAssumption, NEW path \in Seq(Nodes), path # <<>>, NEW d \in Resolve(path)
  PROVE  \E e \in Resolve(Front(path)) : \E m \in Called(e, Last(path)) : d = Dest(m) /\ d # Absent
<1>1. PICK w \in Walk(Walked(Front(path)), Last(path)) : d = w.at
  BY OneNameFurther DEF Resolve
<1>2. PICK v \in Walked(Front(path)) : \E m \in Called(v.at, Last(path)) : Followed(v, m) /\ w = Further(v, m)
  BY <1>1 DEF Walk
<1>3. PICK m \in Called(v.at, Last(path)) : Followed(v, m) /\ w = Further(v, m)
  BY <1>2
<1>4. d = Dest(m)
  <2>1. CASE m \in Links
    BY <1>1, <1>3, <2>1 DEF Further, Dest
  <2>2. CASE m \notin Links
    BY <1>1, <1>3, <2>2 DEF Further, Dest
  <2> QED
    BY <2>1, <2>2
<1>5. d # Absent
  <2>1. m \in Nodes
    BY <1>3 DEF Called, Entries
  <2> QED
    BY <1>3, <1>4, <2>1 DEF Followed, Dest, TreeAssumption
<1>6. v.at \in Resolve(Front(path))
  BY <1>2 DEF Resolve
<1> QED
  BY <1>3, <1>4, <1>5, <1>6

\* The working directory.
LEMMA NowhereElse == Resolve(<<>>) = {Top}
<1>1. <<>> \in Seq(Nodes)
  OBVIOUS
<1>2. Walked(<<>>) = {[at |-> Top, links |-> 0]}
  BY <1>1, OneNameFurther DEF Root
<1>3. {w.at : w \in {[at |-> Top, links |-> 0]}} = {Top}
  OBVIOUS
<1> QED
  BY <1>2, <1>3 DEF Resolve

\* The parts of a path of more than one name.
LEMMA FrontParts ==
  ASSUME NEW path \in Seq(Nodes), path # <<>>
  PROVE  /\ Front(path) \in Seq(Nodes) /\ Len(Front(path)) = Len(path) - 1
         /\ Len(path) \in Nat \ {0}
         /\ Len(path) = 1 => Front(path) = <<>> /\ Last(path) = path[1]
         /\ Len(path) # 1 => Front(path) # <<>> /\ Front(path)[1] = path[1]
<1>1. PICK k \in Nat : k + 1 = Len(path)
  <2>1. Len(path) - 1 \in Nat /\ (Len(path) - 1) + 1 = Len(path)
    OBVIOUS
  <2> QED
    BY <2>1
<1>2. /\ Front(path) \in Seq(Nodes) /\ Len(Front(path)) = k
      /\ \A i \in 1 .. k : Front(path)[i] = path[i]
  BY <1>1 DEF Front
<1> QED
  BY <1>1, <1>2 DEF Last

\* What a path that begins with the argument leads to can be reached from what
\* has the name of the argument.
LEMMA ResolvedIsReached ==
  ASSUME TreeAssumption, target \in Targets,
         NEW path \in Seq(Nodes), path # <<>>, path[1] = Argument, NEW d \in Resolve(path)
  PROVE  \E a \in Called(Top, Argument) : d \in Below(parent, a, Links)
<1> DEFINE Reached(e) == \E a \in Called(Top, Argument) : e \in Below(parent, a, Links)
           Astray(q) == q # <<>> /\ q[1] = Argument /\ \E e \in Resolve(q) : ~Reached(e)
           Bad == {j \in Nat : \E q \in Seq(Nodes) : Len(q) = j /\ Astray(q)}
<1>1. SUFFICES ASSUME Bad # {} PROVE FALSE
  OBVIOUS
<1>2. PICK j \in Bad : \A i \in Bad : j <= i
  <2>1. Bad \in SUBSET Nat
    OBVIOUS
  <2> HIDE DEF Bad
  <2> QED
    BY <1>1, <2>1, SmallestOf
<1>3. PICK q \in Seq(Nodes) : Len(q) = j /\ Astray(q)
  BY <1>2
<1>4. PICK e \in Resolve(q) : ~Reached(e)
  BY <1>3
<1>5. q # <<>> /\ q[1] = Argument
  BY <1>3
<1>6. PICK c \in Resolve(Front(q)) : \E m \in Called(c, Last(q)) : e = Dest(m) /\ e # Absent
  BY <1>5, LeadsTo
<1>7. PICK m \in Called(c, Last(q)) : e = Dest(m) /\ e # Absent
  BY <1>6
<1>8. m \in Nodes /\ parent[m] = c
  BY <1>7 DEF Called, Entries
<1>9. PICK a \in Called(Top, Argument) : m \in Below(parent, a, Links)
  <2>1. CASE Len(q) = 1
    <3>1. c = Top /\ Last(q) = Argument
      BY <1>5, <1>6, <2>1, FrontParts, NowhereElse
    <3>2. m \in Called(Top, Argument)
      BY <1>7, <3>1
    <3> QED
      BY <1>8, <3>2, BelowIsClosed
  <2>2. CASE Len(q) # 1
    <3>1. /\ Front(q) \in Seq(Nodes) /\ Front(q) # <<>> /\ Front(q)[1] = Argument
          /\ Len(Front(q)) = j - 1 /\ j - 1 \in Nat
      BY <1>3, <1>5, <2>2, FrontParts
    <3>2. j - 1 \notin Bad
      BY <1>2, <3>1
    <3>3. Reached(c)
      BY <1>6, <3>1, <3>2
    <3>4. PICK a \in Called(Top, Argument) : c \in Below(parent, a, Links)
      BY <3>3
    <3>5. a \in Nodes
      BY DEF Called, Entries
    <3>6. Closed(parent, Below(parent, a, Links), Links)
      BY <3>5, BelowIsClosed
    <3> QED
      BY <1>8, <3>4, <3>6 DEF Closed
  <2> QED
    BY <2>1, <2>2
<1>10. a \in Nodes
  BY DEF Called, Entries
<1>11. Closed(parent, Below(parent, a, Links), Links)
  BY <1>10, BelowIsClosed
<1>12. e \in Below(parent, a, Links)
  BY <1>7, <1>9, <1>11 DEF Dest, Closed
<1> QED
  BY <1>4, <1>12
-----------------------------------------------------------------------------
(***************************************************************************)
(* The steps.                                                              *)
(***************************************************************************)
\* What only depends on what does not change.
LEMMA SameStart ==
  ASSUME UNCHANGED constants
  PROVE  /\ Started => Started'
         /\ start' = start /\ unwritable' = unwritable
         /\ DirArgument' <=> DirArgument
<1>1. start' = start /\ unwritable' = unwritable
  BY DEF constants
<1>2. Below(start.parent, Argument, {})' = Below(start.parent, Argument, {})
  BY <1>1 DEF Below, Closed
<1>3. Started => Started'
  BY <1>1, <1>2 DEF Started
<1> QED
  BY <1>1, <1>3 DEF DirArgument

LEMMA DirsAre ==
  ASSUME TreeAssumption
  PROVE  /\ Absent \notin Dirs /\ Top \in Dirs /\ Top \notin Nodes
         /\ \A d \in Dirs : d = Top \/ (d \in Nodes /\ Kind[d] = "dir")
BY DEF TreeAssumption, Dirs

\* What delete and rmdir can remove is in reach.
LEMMA RemovedIsWithin ==
  ASSUME TreeAssumption, Inv, NEW path \in Seq(Nodes), path # <<>>, path[1] = Argument,
         NEW n \in Removable(path)
  PROVE  n \in Exposed /\ n \in Nodes
<1>1. PICK d \in Resolve(Front(path)) : d \in Dirs /\ n \in Called(d, Last(path))
  BY DEF Removable
<1>2. n \in Nodes /\ parent[n] = d
  BY <1>1 DEF Called, Entries
<1>3. PICK a \in Called(Top, Argument) : n \in Below(parent, a, {}) \cup Led(parent, a)
  <2>1. CASE Len(path) = 1
    <3>1. n \in Called(Top, Argument)
      BY <1>1, <2>1, FrontParts, NowhereElse
    <3> QED
      BY <1>2, <3>1, BelowIsClosed DEF Inv, Types
  <2>2. CASE Len(path) # 1
    <3>1. PICK a \in Called(Top, Argument) : d \in Below(parent, a, Links)
      BY <1>1, <2>2, FrontParts, ResolvedIsReached DEF Inv, Types
    <3>2. a \in Nodes
      BY DEF Called, Entries
    <3> QED
      BY <1>2, <3>1, <3>2, EntryOfReached DEF Inv, Types
  <2> QED
    BY <2>1, <2>2
<1> QED
  BY <1>2, <1>3 DEF Exposed

\* A tree from which something is taken that has nothing in it is a tree.
LEMMA LessIsTree ==
  ASSUME TreeAssumption, NEW p, IsTree(p), NEW S \in SUBSET Nodes,
         NEW q \in [Nodes -> Nodes \cup {Top, Absent}],
         \A n \in Nodes : q[n] = IF n \in S THEN Absent ELSE p[n],
         \A n \in Nodes : p[n] \notin S
  PROVE  IsTree(q)
<1>1. \A n \in Nodes : q[n] \in Nodes => Kind[q[n]] = "dir" /\ q[q[n]] # Absent
  <2> TAKE n \in Nodes
  <2>1. q[n] \in Nodes => q[n] = p[n] /\ p[n] \notin S
    BY DEF TreeAssumption
  <2> QED
    BY <2>1 DEF IsTree
<1>2. \A m, n \in Nodes : Name[m] = Name[n] /\ q[m] = q[n] /\ q[n] # Absent => m = n
  BY DEF IsTree
<1>3. \A R \in SUBSET Nodes : R # {} => \E n \in R : q[n] \notin R
  <2> TAKE R \in SUBSET Nodes
  <2>1. HAVE R # {}
  <2>2. PICK n \in R : p[n] \notin R
    BY <2>1 DEF IsTree
  <2>3. q[n] \in {p[n], Absent} /\ Absent \notin R
    BY DEF TreeAssumption
  <2> QED
    BY <2>2, <2>3
<1> QED
  BY <1>1, <1>2, <1>3 DEF IsTree

\* Nothing is below what is not a directory.
LEMMA FileIsEmpty ==
  ASSUME TreeAssumption, NEW p, IsTree(p), NEW n \in Nodes, Kind[n] # "dir"
  PROVE  Below(p, n, {}) \subseteq {n}
<1>1. Closed(p, {n}, {})
  BY DEF Closed, IsTree
<1> QED
  BY <1>1, BelowIsLeast

\* A tree in which something is put into a directory that is not below it, and in
\* which its name is free, is a tree.
LEMMA MoreIsTree ==
  ASSUME TreeAssumption, target \in Targets, NEW p, IsTree(p), NEW n \in Nodes, NEW d \in Dirs,
         d # Top => p[d] # Absent,
         Kind[n] = "dir" => d \notin Below(p, n, {}),
         \A m \in Nodes : p[m] = d => Name[m] # Name[n],
         NEW q \in [Nodes -> Nodes \cup {Top, Absent}],
         \A m \in Nodes : q[m] = IF m = n THEN d ELSE p[m]
  PROVE  IsTree(q)
<1> DEFINE B == Below(p, n, {})
<1>1. n \in B /\ B \subseteq Nodes /\ Closed(p, B, {})
  BY BelowIsClosed
<1>2. d \notin B /\ d # n /\ d # Absent /\ (d = Top \/ (d \in Nodes /\ Kind[d] = "dir"))
  BY <1>1, DirsAre, FileIsEmpty
<1> HIDE DEF B
<1>3. \A m \in Nodes : q[m] \in Nodes => Kind[q[m]] = "dir" /\ q[q[m]] # Absent
  <2> TAKE m \in Nodes
  <2>1. CASE m = n
    BY <1>2, <2>1, DirsAre
  <2>2. CASE m # n
    BY <1>2, <2>2 DEF IsTree
  <2> QED
    BY <2>1, <2>2
<1>4. \A m, k \in Nodes : Name[m] = Name[k] /\ q[m] = q[k] /\ q[k] # Absent => m = k
  BY DEF IsTree
<1>5. \A R \in SUBSET Nodes : R # {} => \E m \in R : q[m] \notin R
  <2> TAKE R \in SUBSET Nodes
  <2>1. HAVE R # {}
  <2>2. CASE R \subseteq B
    <3>1. CASE n \in R
      BY <1>2, <2>2, <3>1
    <3>2. CASE n \notin R
      <4>1. PICK m \in R : p[m] \notin R
        BY <2>1 DEF IsTree
      <4> QED
        BY <3>2, <4>1
    <3> QED
      BY <3>1, <3>2
  <2>3. CASE ~(R \subseteq B)
    <3>1. PICK m \in R \ B : p[m] \notin R \ B
      <4>1. R \ B \in SUBSET Nodes /\ R \ B # {}
        BY <2>3
      <4> QED
        BY <4>1 DEF IsTree
    <3>2. p[m] \notin B
      BY <1>1, <3>1 DEF Closed
    <3>3. q[m] = p[m]
      BY <1>1, <3>1
    <3> QED
      BY <3>1, <3>2, <3>3
  <2> QED
    BY <2>2, <2>3
<1> QED
  BY <1>3, <1>4, <1>5 DEF IsTree

\* What is taken away is gone, and nothing else.
LEMMA Taking ==
  ASSUME TreeAssumption, Inv, NEW S \in SUBSET Nodes, TakeAway(S),
         \A n \in S : Entries(n) = {}
  PROVE  /\ parent' \in [Nodes -> Nodes \cup {Top, Absent}] /\ IsTree(parent')
         /\ removed' = removed \cup S /\ removed' \in SUBSET Nodes
         /\ \A n \in removed' : parent'[n] = Absent
         /\ \A n \in Nodes : parent'[n] = IF n \in S THEN Absent ELSE parent[n]
<1>1. \A n \in Nodes : parent'[n] = IF n \in S THEN Absent ELSE parent[n]
  BY DEF TakeAway
<1>2. parent' \in [Nodes -> Nodes \cup {Top, Absent}]
  BY DEF TakeAway, Inv, Types
<1>3. removed' = removed \cup S /\ removed' \in SUBSET Nodes
  BY DEF TakeAway, Inv, Types
<1>4. \A n \in removed' : parent'[n] = Absent
  BY <1>1, <1>3 DEF Inv, Types
<1>5. IsTree(parent')
  <2>1. \A n \in Nodes : parent[n] \notin S
    BY DEF Entries
  <2> QED
    BY <1>1, <1>2, <2>1, LessIsTree DEF Inv, Types
<1> QED
  BY <1>1, <1>2, <1>3, <1>4, <1>5

LEMMA InitInv == ASSUME TreeAssumption, Init PROVE Inv
<1>1. /\ start.parent = parent /\ parent \in Shapes /\ IsTree(parent)
      /\ start.tree = Below(parent, Argument, {}) /\ Argument \in Nodes
  BY DEF Init, TreeAssumption
<1>2. Types
  BY <1>1 DEF Init, Types, IsTree
<1>3. Started
  BY <1>1 DEF Started
<1>4. Descending /\ Outermost
  BY DEF Init, Descending, Outermost
<1> QED
  BY <1>2, <1>3, <1>4 DEF Inv

\* A directory can be resolved where it is.
LEMMA ArgumentIsFound ==
  ASSUME TreeAssumption, Inv, parent[Argument] = Top, Kind[Argument] = "dir"
  PROVE  IsDir(<<Argument>>)
<1> DEFINE w == [at |-> Top, links |-> 0]
<1>1. Argument \in Nodes /\ Argument \notin Links /\ Argument \in Dirs
  BY LinkTypes DEF TreeAssumption, Inv, Types, Dirs
<1>2. <<Argument>> \in Seq(Nodes) /\ <<Argument>> # <<>> /\ Last(<<Argument>>) = Argument
  BY <1>1 DEF Last
<1>3. Front(<<Argument>>) = <<>>
  BY <1>2 DEF Front
<1>4. <<>> \in Seq(Nodes)
  OBVIOUS
<1>5. Walked(<<Argument>>) = Walk({w}, Argument)
  BY <1>2, <1>3, <1>4, OneNameFurther DEF Root
<1>6. Argument \in Called(w.at, Argument) /\ Followed(w, Argument)
  BY <1>1 DEF Called, Entries, Followed
<1>7. Further(w, Argument).at = Argument
  BY <1>1 DEF Further
<1> HIDE DEF w
<1>8. Further(w, Argument) \in Walk({w}, Argument)
  BY <1>6 DEF Walk
<1>9. Argument \in Resolve(<<Argument>>)
  BY <1>5, <1>7, <1>8 DEF Resolve
<1> QED
  BY <1>1, <1>9 DEF IsDir

\* isDir() and rm() of a path.
LEMMA CallKeeps ==
  ASSUME TreeAssumption, Inv, Call
  PROVE  Inv' /\ \A n \in removed' \ removed : n \in Exposed
<1> USE DEF Inv
<1>1. UNCHANGED constants /\ UNCHANGED <<target, arg, stack, open, silent, others>>
  BY DEF Call
<1>2. CASE IsDir(arg)
  <2>1. pc = "call" /\ pc' = "open" /\ UNCHANGED <<parent, removed>>
    BY <1>2 DEF Call
  <2>2. Types'
    BY <1>1, <2>1 DEF Types
  <2>3. Descending'
    BY <1>1, <2>1 DEF Descending
  <2>4. Outermost'
    BY <1>1, <2>1, SameStart DEF Outermost
  <2> QED
    BY <1>1, <2>1, <2>2, <2>3, <2>4, SameStart
<1>3. CASE ~IsDir(arg)
  <2>1. pc = "call" /\ Return(stack) /\ TakeAway(Unlinked(arg))
    BY <1>3 DEF Call
  <2>2. \A n \in Unlinked(arg) : n \in Exposed /\ n \in Nodes /\ Kind[n] # "dir"
    BY <2>1, RemovedIsWithin DEF Unlinked, Types, Descending
  <2>3. Unlinked(arg) \in SUBSET Nodes /\ \A n \in Unlinked(arg) : Entries(n) = {}
    BY <2>2 DEF Types, IsTree, Entries
  <2>4. /\ parent' \in [Nodes -> Nodes \cup {Top, Absent}] /\ IsTree(parent')
        /\ removed' = removed \cup Unlinked(arg) /\ removed' \in SUBSET Nodes
        /\ \A n \in removed' : parent'[n] = Absent
        /\ \A n \in Nodes : parent'[n] = IF n \in Unlinked(arg) THEN Absent ELSE parent[n]
    BY <2>1, <2>3, Taking
  <2>5. pc' \in {"done", "read"} /\ (pc' = "done" <=> stack = <<>>)
    BY <2>1 DEF Return
  <2>6. Types'
    BY <1>1, <2>4, <2>5 DEF Types
  <2>7. Descending'
    BY <1>1, <2>5 DEF Descending
  <2>8. Outermost'
    <3>1. start' = start /\ (DirArgument' <=> DirArgument)
      BY <1>1, SameStart
    <3>2. ASSUME stack = <<>>, DirArgument PROVE parent'[Argument] # Top
      <4>1. arg = <<Argument>>
        BY <2>1, <3>2 DEF Outermost
      <4>2. Argument \in Nodes
        BY DEF TreeAssumption
      <4>3. parent[Argument] # Top
        BY <1>3, <3>2, <4>1, ArgumentIsFound DEF DirArgument
      <4> QED
        BY <2>4, <4>2, <4>3 DEF TreeAssumption
    <3> QED
      BY <1>1, <2>1, <2>5, <3>1, <3>2 DEF Outermost
  <2> QED
    BY <1>1, <2>2, <2>4, <2>6, <2>7, <2>8, SameStart
<1> QED
  BY <1>2, <1>3

\* PR_OpenDir().
LEMMA OpenKeeps == ASSUME TreeAssumption, Inv, Open PROVE Inv' /\ removed' = removed
<1> USE DEF Inv
<1>1. /\ UNCHANGED constants /\ UNCHANGED <<parent, target, arg, silent, others, removed>>
      /\ pc = "open"
  BY DEF Open
<1>2. ASSUME NEW d \in Resolve(arg), CanOpen(d),
             stack' = Append(stack, [path |-> arg, dir |-> d, left |-> Entries(d)]),
             open' = open + 1, pc' = "read"
      PROVE  Inv'
  <2> DEFINE frame == [path |-> arg, dir |-> d, left |-> Entries(d)]
  <2>1. arg \in Seq(Nodes) /\ arg # <<>> /\ arg[1] = Argument
    BY <1>1 DEF Types, Descending
  <2>2. d \in Nodes /\ Kind[d] = "dir"
    <3>1. PICK e \in Resolve(Front(arg)) : \E m \in Called(e, Last(arg)) : d = Dest(m) /\ d # Absent
      BY <2>1, LeadsTo
    <3>2. PICK m \in Nodes : d = Dest(m) /\ d # Absent
      BY <3>1 DEF Called, Entries
    <3>3. d \in Nodes
      BY <3>2, LinkTypes DEF Dest, Types
    <3> QED
      BY <1>2, <3>3, DirsAre DEF CanOpen
  <2>3. Entries(d) \in SUBSET Nodes
    BY DEF Entries
  <2>4. frame \in Frame /\ Descended(frame)
    BY <2>1, <2>2, <2>3 DEF Frame, Descended
  <2>5. frame.path = arg
    OBVIOUS
  <2> HIDE DEF frame
  <2>6. /\ stack' \in Seq(Frame) /\ Len(stack') = Len(stack) + 1 /\ stack' # <<>>
        /\ \A i \in DOMAIN stack' :
              stack'[i] = frame \/ (i \in DOMAIN stack /\ stack'[i] = stack[i])
        /\ stack'[1] = IF stack = <<>> THEN frame ELSE stack[1]
    BY <1>2, <2>4 DEF Types, frame
  <2>7. Types'
    BY <1>1, <1>2, <2>6 DEF Types
  <2>8. Descending'
    BY <1>1, <1>2, <2>4, <2>6 DEF Descending
  <2>9. Outermost'
    BY <1>1, <1>2, <2>5, <2>6 DEF Outermost
  <2> QED
    BY <1>1, <2>7, <2>8, <2>9, SameStart
<1>3. CASE pc' = "crashed" /\ UNCHANGED <<stack, open>>
  <2>1. Types'
    BY <1>1, <1>3 DEF Types
  <2>2. Descending' /\ Outermost'
    BY <1>1, <1>3, SameStart DEF Descending, Outermost
  <2> QED
    BY <1>1, <2>1, <2>2, SameStart
<1> QED
  BY <1>1, <1>2, <1>3 DEF Open

\* A frame with other entries left.
LEMMA FrameWith ==
  ASSUME NEW frame \in Frame, NEW S \in SUBSET Nodes
  PROVE  /\ [frame EXCEPT !.left = S] \in Frame
         /\ [frame EXCEPT !.left = S].path = frame.path
         /\ [frame EXCEPT !.left = S].dir = frame.dir
         /\ [frame EXCEPT !.left = S].left = S
BY DEF Frame

\* The directory read last.
LEMMA TopFrame ==
  ASSUME Inv, stack # <<>>
  PROVE  /\ Len(stack) \in DOMAIN stack /\ Last(stack) = stack[Len(stack)]
         /\ Last(stack) \in Frame /\ Descended(Last(stack))
BY DEF Inv, Types, Descending, Last

\* PR_ReadDir().
LEMMA ReadKeeps == ASSUME TreeAssumption, Inv, Read PROVE Inv' /\ removed' = removed
<1> USE DEF Inv
<1>1. UNCHANGED constants /\ UNCHANGED <<parent, target, open, silent, others, removed>>
      /\ pc = "read" /\ pc' = "call" /\ stack # <<>>
  BY DEF Read, Types
<1>2. PICK n \in Last(stack).left :
        /\ arg' = Append(Last(stack).path, n)
        /\ stack' = [stack EXCEPT ![Len(stack)].left = @ \ {n}]
  BY DEF Read
<1>3. Last(stack) \in Frame /\ Descended(Last(stack)) /\ Last(stack) = stack[Len(stack)]
  BY <1>1, TopFrame
<1>4. arg' \in Seq(Nodes) /\ arg' # <<>> /\ arg'[1] = Argument
  <2>1. PICK path \in Seq(Nodes) : path = Last(stack).path /\ path # <<>> /\ path[1] = Argument
    BY <1>3 DEF Frame, Descended
  <2>2. n \in Nodes
    BY <1>3 DEF Frame
  <2> QED
    BY <1>2, <2>1, <2>2
<1>5. /\ stack' \in Seq(Frame) /\ Len(stack') = Len(stack) /\ stack' # <<>>
      /\ \A i \in DOMAIN stack' :
           i \in DOMAIN stack /\ stack'[i].path = stack[i].path /\ stack'[i].dir = stack[i].dir
  <2>1. PICK k \in DOMAIN stack : k = Len(stack)
    BY <1>1, TopFrame
  <2>2. stack[k] \in Frame /\ stack[k].left \ {n} \in SUBSET Nodes
    BY <1>3, <2>1 DEF Frame
  <2>3. PICK frame \in Frame :
          /\ frame = [stack[k] EXCEPT !.left = stack[k].left \ {n}]
          /\ frame.path = stack[k].path /\ frame.dir = stack[k].dir
    BY <2>2, FrameWith
  <2>4. stack' = [stack EXCEPT ![k] = frame]
    BY <1>2, <2>1, <2>3
  <2> QED
    BY <1>1, <2>1, <2>3, <2>4 DEF Types
<1>6. Types'
  BY <1>1, <1>4, <1>5 DEF Types
<1>7. \A i \in DOMAIN stack' : Descended(stack'[i])
  BY <1>5 DEF Descending, Descended
<1>8. Descending'
  BY <1>1, <1>4, <1>7 DEF Descending
<1>9. Outermost'
  BY <1>1, <1>5 DEF Outermost, Types
<1> QED
  BY <1>1, <1>6, <1>8, <1>9, SameStart

\* PR_CloseDir() and PR_RmDir().
LEMMA CloseKeeps ==
  ASSUME TreeAssumption, Inv, Close
  PROVE  Inv' /\ \A n \in removed' \ removed : n \in Exposed
<1> USE DEF Inv
<1> DEFINE path == Last(stack).path
           gone == RmDir(path)
<1>1. /\ UNCHANGED constants /\ UNCHANGED <<target, arg, others>>
      /\ pc = "read" /\ stack # <<>> /\ open' = open - 1
      /\ TakeAway(gone) /\ silent' = (silent /\ gone # {})
      /\ stack' = Front(stack) /\ Return(Front(stack))
  BY DEF Close, Types, SilentAfter
<1>2. path \in Seq(Nodes) /\ path # <<>> /\ path[1] = Argument
  BY <1>1, TopFrame DEF Frame, Descended
<1>3. \A n \in gone : n \in Exposed /\ n \in Nodes /\ Entries(n) = {}
  BY <1>2, RemovedIsWithin DEF RmDir
<1>4. path = <<Argument>> => \A n \in gone : n \in Called(Top, Argument)
  <2> SUFFICES ASSUME path = <<Argument>> PROVE \A n \in gone : n \in Called(Top, Argument)
    OBVIOUS
  <2>1. Len(path) = 1
    OBVIOUS
  <2>2. Front(path) = <<>> /\ Last(path) = Argument
    BY <1>2, <2>1, FrontParts
  <2> QED
    BY <2>2, NowhereElse DEF RmDir, Removable
<1> HIDE DEF gone
<1>5. /\ parent' \in [Nodes -> Nodes \cup {Top, Absent}] /\ IsTree(parent')
      /\ removed' = removed \cup gone /\ removed' \in SUBSET Nodes
      /\ \A n \in removed' : parent'[n] = Absent
      /\ \A n \in Nodes : parent'[n] = IF n \in gone THEN Absent ELSE parent[n]
  <2>1. gone \in SUBSET Nodes
    BY <1>3
  <2> QED
    BY <1>1, <1>3, <2>1, Taking
<1>6. /\ stack' \in Seq(Frame) /\ Len(stack') = Len(stack) - 1
      /\ \A i \in DOMAIN stack' : i \in DOMAIN stack /\ stack'[i] = stack[i]
      /\ stack' = <<>> <=> Len(stack) = 1
  <2>1. Len(stack) \in Nat \ {0} /\ stack \in Seq(Frame) /\ stack' = SubSeq(stack, 1, Len(stack) - 1)
    BY <1>1 DEF Types, Front
  <2>2. PICK k \in Nat : k = Len(stack) - 1
    BY <2>1
  <2>3. /\ stack' \in Seq(Frame) /\ Len(stack') = k
        /\ \A i \in 1 .. k : stack'[i] = stack[i]
    BY <2>1, <2>2
  <2>4. stack' = <<>> <=> k = 0
    BY <2>3
  <2>5. DOMAIN stack' = 1 .. k /\ DOMAIN stack = 1 .. Len(stack)
    BY <2>1, <2>3
  <2> QED
    BY <2>1, <2>2, <2>3, <2>4, <2>5
<1>7. pc' \in {"done", "read"} /\ (pc' = "done" <=> stack' = <<>>)
  BY <1>1 DEF Return
<1>8. Types'
  <2>1. silent' \in BOOLEAN
    BY <1>1 DEF Types
  <2> QED
    BY <1>1, <1>5, <1>6, <1>7, <2>1 DEF Types
<1>9. Descending'
  BY <1>1, <1>6, <1>7 DEF Descending
<1>10. Outermost'
  <2>1. stack' # <<>> => stack'[1] = stack[1]
    BY <1>6 DEF Types
  <2>2. ASSUME stack' = <<>>, silent' PROVE parent'[Argument] # Top
    <3>1. path = <<Argument>>
      BY <1>1, <1>6, <2>2, TopFrame DEF Outermost
    <3>2. PICK n \in gone : n \in Nodes /\ parent[n] = Top /\ Name[n] = Name[Argument]
      BY <1>1, <1>4, <2>2, <3>1 DEF Called, Entries
    <3>3. Argument \in Nodes /\ Top # Absent
      BY DEF TreeAssumption
    <3>4. parent[Argument] = Top => n = Argument
      BY <3>2, <3>3 DEF Types, IsTree
    <3> QED
      BY <1>5, <3>2, <3>3, <3>4
  <2> QED
    BY <1>1, <1>7, <2>1, <2>2 DEF Outermost
<1> QED
  BY <1>1, <1>3, <1>5, <1>8, <1>9, <1>10, SameStart

\* Another process removes something.
LEMMA OtherRemovesKeeps ==
  ASSUME TreeAssumption, Inv, NEW n \in Nodes, OtherRemoves(n), Others PROVE Inv'
<1> USE DEF Inv
<1>1. /\ UNCHANGED constants /\ UNCHANGED <<target, pc, arg, stack, open, silent, removed>>
      /\ pc # "done" /\ others' = others + 1 /\ Entries(n) = {}
  BY DEF Others, OtherRemoves, Running
<1>2. /\ parent' \in [Nodes -> Nodes \cup {Top, Absent}]
      /\ \A m \in Nodes : parent'[m] = IF m \in {n} THEN Absent ELSE parent[m]
  BY DEF OtherRemoves, Types
<1>3. IsTree(parent')
  <2>1. {n} \in SUBSET Nodes /\ \A m \in Nodes : parent[m] \notin {n}
    BY <1>1 DEF Entries
  <2> QED
    BY <1>2, <2>1, LessIsTree DEF Types
<1>4. Types'
  BY <1>1, <1>2, <1>3 DEF Types
<1>5. Descending' /\ Outermost'
  BY <1>1, SameStart DEF Descending, Outermost
<1> QED
  BY <1>1, <1>4, <1>5, SameStart

\* Another process makes or moves something.
LEMMA OtherPutsKeeps ==
  ASSUME TreeAssumption, Inv, NEW n \in Nodes, NEW d \in Dirs, OtherPuts(n, d), Others PROVE Inv'
<1> USE DEF Inv
<1>1. /\ UNCHANGED constants /\ UNCHANGED <<target, pc, arg, open, silent, removed>>
      /\ pc # "done" /\ others' = others + 1 /\ n \notin removed /\ Called(d, n) = {}
      /\ d # Top => parent[d] # Absent
      /\ Kind[n] = "dir" => d \notin Below(parent, n, {})
  BY DEF Others, OtherPuts, Running
<1>2. /\ parent' \in [Nodes -> Nodes \cup {Top, Absent}]
      /\ \A m \in Nodes : parent'[m] = IF m = n THEN d ELSE parent[m]
  BY DirsAre DEF OtherPuts, Types
<1>3. IsTree(parent')
  <2>1. \A m \in Nodes : parent[m] = d => Name[m] # Name[n]
    BY <1>1 DEF Called, Entries
  <2> QED
    BY <1>1, <1>2, <2>1, MoreIsTree DEF Types
<1>4. /\ stack' \in Seq(Frame) /\ Len(stack') = Len(stack) /\ DOMAIN stack' = DOMAIN stack
      /\ \A i \in DOMAIN stack' : stack'[i].path = stack[i].path /\ stack'[i].dir = stack[i].dir
  <2>1. PICK seen : stack' = [i \in DOMAIN stack |->
                   CASE i \in seen -> [stack[i] EXCEPT !.left = @ \cup {n}]
                     [] stack[i].dir = d /\ i \notin seen -> [stack[i] EXCEPT !.left = @ \ {n}]
                     [] OTHER -> stack[i]]
    BY DEF OtherPuts
  <2>2. stack \in Seq(Frame) /\ DOMAIN stack = 1 .. Len(stack) /\ Len(stack) \in Nat
    BY DEF Types
  <2>3. \A i \in 1 .. Len(stack) :
          /\ stack'[i] \in Frame
          /\ stack'[i].path = stack[i].path /\ stack'[i].dir = stack[i].dir
    <3> TAKE i \in 1 .. Len(stack)
    <3>1. PICK frame \in Frame : frame = stack[i]
      BY <2>2
    <3>2. PICK more \in SUBSET Nodes : more = frame.left \cup {n}
      BY <3>1 DEF Frame
    <3>3. PICK less \in SUBSET Nodes : less = frame.left \ {n}
      BY <3>1 DEF Frame
    <3>4. \/ stack'[i] = frame
          \/ \E S \in SUBSET Nodes : stack'[i] = [frame EXCEPT !.left = S]
      BY <2>1, <2>2, <3>1, <3>2, <3>3
    <3>5. CASE stack'[i] = frame
      BY <3>1, <3>5
    <3>6. CASE \E S \in SUBSET Nodes : stack'[i] = [frame EXCEPT !.left = S]
      <4>1. PICK S \in SUBSET Nodes : stack'[i] = [frame EXCEPT !.left = S]
        BY <3>6
      <4>2. PICK f \in Frame : /\ f = [frame EXCEPT !.left = S]
                               /\ f.path = frame.path /\ f.dir = frame.dir
        BY FrameWith
      <4>3. stack'[i] = f
        BY <4>1, <4>2
      <4> QED
        BY <3>1, <4>2, <4>3
    <3> QED
      BY <3>4, <3>5, <3>6
  <2>4. stack' \in [1 .. Len(stack) -> Frame]
    BY <2>1, <2>2, <2>3
  <2>5. stack' \in Seq(Frame) /\ Len(stack') = Len(stack) /\ DOMAIN stack' = DOMAIN stack
    BY <2>2, <2>4
  <2> QED
    BY <2>2, <2>3, <2>5
<1>5. Types'
  <2>1. pc = "read" => stack' # <<>>
    BY <1>4 DEF Types
  <2>2. \A m \in removed : parent'[m] = Absent
    BY <1>1, <1>2 DEF Types
  <2> QED
    BY <1>1, <1>2, <1>3, <1>4, <2>1, <2>2 DEF Types
<1>6. Descending'
  <2>1. \A i \in DOMAIN stack' : Descended(stack'[i])
    BY <1>4 DEF Descending, Descended
  <2> QED
    BY <1>1, <2>1 DEF Descending
<1>7. Outermost'
  <2>1. (stack' = <<>> <=> stack = <<>>) /\ (stack # <<>> => stack'[1].path = stack[1].path)
    BY <1>4 DEF Types
  <2> QED
    BY <1>1, <2>1 DEF Outermost
<1> QED
  BY <1>1, <1>5, <1>6, <1>7, SameStart

\* Another process replaces links.
LEMMA OtherRelinksKeeps == ASSUME TreeAssumption, Inv, OtherRelinks, Others PROVE Inv'
<1>1. /\ UNCHANGED constants /\ UNCHANGED <<parent, pc, arg, stack, open, silent, removed>>
      /\ pc # "done" /\ others' = others + 1 /\ target' \in Targets
  BY DEF Others, OtherRelinks, Running
<1>2. Types'
  BY <1>1 DEF Inv, Types
<1>3. Descending' /\ Outermost'
  BY <1>1, SameStart DEF Inv, Descending, Outermost
<1> QED
  BY <1>1, <1>2, <1>3, SameStart DEF Inv

LEMMA InvKept ==
  ASSUME TreeAssumption, Inv, [Next]_vars
  PROVE  Inv' /\ \A n \in removed' \ removed : n \in Exposed
<1>1. CASE UNCHANGED vars
  <2>1. /\ UNCHANGED constants
        /\ UNCHANGED <<parent, target, pc, arg, stack, open, silent, others, removed>>
    BY <1>1 DEF vars
  <2>2. Types'
    BY <2>1 DEF Inv, Types
  <2>3. Descending' /\ Outermost'
    BY <2>1, SameStart DEF Inv, Descending, Outermost
  <2> QED
    BY <2>1, <2>2, <2>3, SameStart DEF Inv
<1>2. CASE Step
  BY <1>2, CallKeeps, OpenKeeps, ReadKeeps, CloseKeeps DEF Step
<1>3. CASE Others
  <2>1. removed' = removed
    BY <1>3 DEF Others
  <2> QED
    BY <1>3, <2>1, OtherRemovesKeeps, OtherPutsKeeps, OtherRelinksKeeps DEF Others
<1> QED
  BY <1>1, <1>2, <1>3 DEF Next

\* If the argument is not where it was, all that was below it is gone or below
\* something that was moved: nothing is in a directory that is gone.
LEMMA AllGone ==
  ASSUME TreeAssumption, Inv, DirArgument, parent[Argument] # Top
  PROVE  \A n \in InTree : parent[n] = Absent \/ \E m \in Nodes : Moved(m) /\ n \in Below(parent, m, {})
<1> DEFINE Carried(n) == \E m \in Nodes : Moved(m) /\ n \in Below(parent, m, {})
           S == {n \in InTree : parent[n] = Absent \/ Carried(n)}
<1>1. Argument \in Nodes
  BY DEF TreeAssumption
<1>2. /\ InTree = Below(start.parent, Argument, {})
      /\ Argument \in InTree /\ InTree \subseteq Nodes /\ Closed(start.parent, InTree, {})
  BY <1>1, BelowIsClosed DEF Inv, Types, Started, InTree
<1>3. \A m \in Nodes : m \in Below(parent, m, {}) /\ Closed(parent, Below(parent, m, {}), {})
  BY BelowIsClosed DEF Inv, Types
<1>4. \A n \in Nodes : parent[n] \in {start.parent[n], Absent} \/ Carried(n)
  BY <1>3 DEF Moved
<1>5. Closed(start.parent, S, {})
  <2> SUFFICES ASSUME NEW n \in Nodes, start.parent[n] \in S PROVE parent[n] = Absent \/ Carried(n)
    BY <1>2 DEF Closed
  <2>1. SUFFICES ASSUME parent[n] = start.parent[n] PROVE Carried(n)
    BY <1>4
  <2>2. parent[parent[n]] # Absent
    BY <1>2, <2>1 DEF Inv, Types, IsTree
  <2>3. Carried(parent[n])
    BY <2>1, <2>2
  <2> QED
    BY <1>3, <2>3 DEF Closed
<1>6. S \in SUBSET Nodes /\ Argument \in S
  <2>1. parent[Argument] = Absent \/ Carried(Argument)
    BY <1>1, <1>4 DEF DirArgument
  <2> QED
    BY <1>2, <2>1
<1> HIDE DEF S
<1>7. InTree \subseteq S
  BY <1>2, <1>5, <1>6, BelowIsLeast
<1> QED
  BY <1>7 DEF S
-----------------------------------------------------------------------------
(***************************************************************************)
(* A tree that no one else works on.                                       *)
(***************************************************************************)
\* A path of directories each in the one before.
Straight(path) ==
  \A k \in 1 .. Len(path) :
    Kind[path[k]] = "dir" /\ parent[path[k]] = IF k = 1 THEN Top ELSE path[k - 1]

LEMMA StraightFront ==
  ASSUME NEW path \in Seq(Nodes), path # <<>>, Straight(path)
  PROVE  /\ Front(path) \in Seq(Nodes) /\ Len(Front(path)) = Len(path) - 1
         /\ Straight(Front(path))
         /\ Last(path) \in Nodes /\ Kind[Last(path)] = "dir"
         /\ parent[Last(path)] = IF Front(path) = <<>> THEN Top ELSE Last(Front(path))
<1>1. PICK k \in Nat : k + 1 = Len(path)
  <2>1. Len(path) - 1 \in Nat /\ (Len(path) - 1) + 1 = Len(path)
    OBVIOUS
  <2> QED
    BY <2>1
<1>2. /\ Front(path) \in Seq(Nodes) /\ Len(Front(path)) = k
      /\ \A i \in 1 .. k : Front(path)[i] = path[i]
  BY <1>1 DEF Front
<1>3. Straight(Front(path))
  BY <1>1, <1>2 DEF Straight
<1>4. Last(path) = path[k + 1] /\ path[k + 1] \in Nodes
  BY <1>1 DEF Last
<1>5. Front(path) = <<>> <=> k = 0
  BY <1>2
<1>6. k # 0 => Last(Front(path)) = path[k]
  BY <1>2 DEF Last
<1>7. Kind[path[k + 1]] = "dir" /\ parent[path[k + 1]] = IF k = 0 THEN Top ELSE path[k]
  BY <1>1 DEF Straight
<1> QED
  BY <1>1, <1>2, <1>3, <1>4, <1>5, <1>6, <1>7

\* What is in a directory is the only one there that has its name.
LEMMA OnlyOneCalled ==
  ASSUME TreeAssumption, Inv, NEW n \in Nodes, parent[n] # Absent
  PROVE  Called(parent[n], n) = {n}
BY DEF Inv, Types, IsTree, Called, Entries

\* It leads to its last name.
LEMMA StraightLeads ==
  ASSUME TreeAssumption, Inv, NEW path \in Seq(Nodes), Straight(path)
  PROVE  Walked(path) = {[at |-> IF path = <<>> THEN Top ELSE Last(path), links |-> 0]}
<1> DEFINE End(q) == IF q = <<>> THEN Top ELSE Last(q)
           Leads(q) == Walked(q) = {[at |-> End(q), links |-> 0]}
           Bad == {j \in Nat : \E q \in Seq(Nodes) : Len(q) = j /\ Straight(q) /\ ~Leads(q)}
<1>1. SUFFICES ASSUME Bad # {} PROVE FALSE
  OBVIOUS
<1>2. PICK j \in Bad : \A i \in Bad : j <= i
  <2>1. Bad \in SUBSET Nat
    OBVIOUS
  <2> HIDE DEF Bad
  <2> QED
    BY <1>1, <2>1, SmallestOf
<1>3. PICK q \in Seq(Nodes) : Len(q) = j /\ Straight(q) /\ ~Leads(q)
  BY <1>2
<1>4. q # <<>>
  BY <1>3, OneNameFurther DEF Root
<1>5. /\ Front(q) \in Seq(Nodes) /\ Len(Front(q)) = j - 1 /\ Straight(Front(q))
      /\ Last(q) \in Nodes /\ Kind[Last(q)] = "dir" /\ parent[Last(q)] = End(Front(q))
  BY <1>3, <1>4, StraightFront
<1>6. Leads(Front(q))
  <2>1. j - 1 \in Nat /\ j - 1 \notin Bad
    BY <1>2, <1>5
  <2> QED
    BY <1>5, <2>1
<1> DEFINE w == [at |-> End(Front(q)), links |-> 0]
<1>7. Walked(q) = Walk({w}, Last(q))
  BY <1>3, <1>4, <1>6, OneNameFurther
<1>8. Last(q) \notin Links /\ parent[Last(q)] = w.at
  BY <1>5, LinkTypes DEF Inv, Types
<1>9. Called(w.at, Last(q)) = {Last(q)}
  <2>1. w.at # Absent
    <3>1. CASE Front(q) = <<>>
      BY <3>1 DEF TreeAssumption
    <3>2. CASE Front(q) # <<>>
      BY <1>5, <3>2, StraightFront DEF TreeAssumption
    <3> QED
      BY <3>1, <3>2
  <2> HIDE DEF w
  <2> QED
    BY <1>5, <1>8, <2>1, OnlyOneCalled
<1>10. Followed(w, Last(q)) /\ Further(w, Last(q)) = [at |-> Last(q), links |-> 0]
  BY <1>8 DEF Followed, Further
<1> HIDE DEF w
<1>11. Walk({w}, Last(q)) = {[at |-> Last(q), links |-> 0]}
  <2>1. {k \in Called(w.at, Last(q)) : Followed(w, k)} = {Last(q)}
    BY <1>9, <1>10
  <2> QED
    BY <1>10, <2>1 DEF Walk
<1> QED
  BY <1>3, <1>4, <1>7, <1>11

\* The path of an open directory leads there.
LEMMA StackedLeads ==
  ASSUME TreeAssumption, Inv, Orderly, NEW i \in DOMAIN stack
  PROVE  /\ stack[i].path \in Seq(Nodes) /\ stack[i].path # <<>> /\ Len(stack[i].path) = i
         /\ i \in Nat \ {0} /\ stack[i].dir \in Nodes
         /\ Straight(stack[i].path) /\ Last(stack[i].path) = stack[i].dir
         /\ Resolve(stack[i].path) = {stack[i].dir}
<1> DEFINE path == stack[i].path
<1>1. i \in Nat \ {0} /\ DOMAIN stack = 1 .. Len(stack) /\ stack[i] \in Frame /\ Len(stack) \in Nat
  BY DEF Inv, Types
<1>2. path \in Seq(Nodes) /\ stack[i].dir \in Nodes
  BY <1>1 DEF Frame
<1>3. Len(path) = i /\ \A k \in 1 .. i : path[k] = stack[k].dir
  BY DEF Orderly, Stacked
<1>4. Straight(path)
  <2> SUFFICES ASSUME NEW k \in 1 .. i
               PROVE  Kind[path[k]] = "dir" /\ parent[path[k]] = IF k = 1 THEN Top ELSE path[k - 1]
    BY <1>3 DEF Straight
  <2>1. k \in DOMAIN stack /\ path[k] = stack[k].dir
    BY <1>1, <1>3
  <2>2. Kind[stack[k].dir] = "dir" /\ parent[stack[k].dir] = ParentOf(k)
    BY <2>1 DEF Orderly, Stacked
  <2>3. k # 1 => path[k - 1] = stack[k - 1].dir
    BY <1>1, <1>3
  <2> QED
    BY <2>1, <2>2, <2>3 DEF ParentOf
<1> HIDE DEF path
<1>5. path # <<>> /\ Last(path) = stack[i].dir
  BY <1>1, <1>2, <1>3 DEF Last
<1>6. Resolve(path) = {stack[i].dir}
  <2>1. Walked(path) = {[at |-> stack[i].dir, links |-> 0]}
    BY <1>2, <1>4, <1>5, StraightLeads
  <2>2. {w.at : w \in {[at |-> stack[i].dir, links |-> 0]}} = {stack[i].dir}
    OBVIOUS
  <2> QED
    BY <2>1, <2>2 DEF Resolve
<1> QED
  BY <1>1, <1>2, <1>3, <1>4, <1>5, <1>6 DEF path

\* What is appended to a path is its last name.
LEMMA AppendParts ==
  ASSUME NEW path \in Seq(Nodes), NEW n \in Nodes
  PROVE  /\ Front(Append(path, n)) = path /\ Last(Append(path, n)) = n
         /\ Append(path, n) \in Seq(Nodes) /\ Append(path, n) # <<>>
         /\ Len(Append(path, n)) = Len(path) + 1
         /\ \A k \in 1 .. Len(path) : Append(path, n)[k] = path[k]
         /\ Append(path, n)[Len(path) + 1] = n
BY DEF Front, Last

\* What is dealt with is in the tree,
LEMMA CalledInTree ==
  ASSUME TreeAssumption, Inv, Orderly, Clean, pc \in {"call", "open"}
  PROVE  Last(arg) \in InTree /\ Last(arg) \in Nodes
<1>1. Argument \in Nodes
  BY DEF TreeAssumption
<1>2. /\ Argument \in InTree /\ InTree \subseteq Nodes /\ Closed(start.parent, InTree, {})
  <2>1. target \in Targets /\ InTree = Below(start.parent, Argument, {})
    BY DEF Inv, Types, Started, InTree
  <2>2. {} \in SUBSET Links
    OBVIOUS
  <2> QED
    BY <1>1, <2>1, <2>2, BelowIsClosed
<1>3. Last(arg) \in Nodes
  BY DEF Inv, Types, Last
<1>4. CASE stack = <<>>
  <2>1. arg = <<Argument>>
    BY <1>4 DEF Inv, Outermost
  <2> QED
    BY <1>2, <2>1 DEF Last
<1>5. CASE stack # <<>>
  <2>1. start.parent[Last(arg)] = Last(stack).dir /\ Last(stack).dir \in InTree
    BY <1>5, TopFrame DEF Orderly, Calling, Stacked
  <2> QED
    BY <1>2, <1>3, <2>1 DEF Closed
<1> QED
  BY <1>3, <1>4, <1>5

\* and the only one of its name where its path leads.
LEMMA CalledAlone ==
  ASSUME TreeAssumption, Inv, Orderly, Clean, pc \in {"call", "open"},
         NEW e \in Resolve(Front(arg)), NEW m \in Called(e, Last(arg))
  PROVE  m = Last(arg) /\ e # Absent
<1>1. /\ m \in Nodes /\ parent[m] = e /\ Name[m] = Name[Last(arg)]
      /\ parent[m] \in {start.parent[m], Absent}
  BY DEF Called, Entries, Orderly
<1>2. Last(arg) \in Nodes
  BY CalledInTree
<1>3. start.parent[Last(arg)] = e /\ e # Absent
  <2>1. CASE stack = <<>>
    <3>1. arg = <<Argument>> /\ Argument \in Nodes
      BY <2>1 DEF Inv, Outermost, TreeAssumption
    <3>2. arg \in Seq(Nodes) /\ arg # <<>> /\ Len(arg) = 1 /\ arg[1] = Argument
      BY <3>1 DEF Inv, Types
    <3>3. Front(arg) = <<>> /\ Last(arg) = Argument
      BY <3>2, FrontParts
    <3> QED
      BY <3>3, NowhereElse DEF Clean, DirArgument, TreeAssumption
  <2>2. CASE stack # <<>>
    <3>1. PICK k \in DOMAIN stack : Last(stack) = stack[k]
      BY <2>2, TopFrame
    <3>2. stack[k].path \in Seq(Nodes) /\ Resolve(stack[k].path) = {stack[k].dir} /\ stack[k].dir \in Nodes
      BY StackedLeads
    <3>3. PICK path \in Seq(Nodes) : path = stack[k].path
      BY <3>2
    <3>4. arg = Append(path, Last(arg))
      BY <2>2, <3>1, <3>3 DEF Orderly, Calling
    <3>5. Front(arg) = path
      BY <1>2, <3>4, AppendParts
    <3> QED
      BY <2>2, <3>1, <3>2, <3>3, <3>5 DEF Orderly, Calling, TreeAssumption
  <2> QED
    BY <2>1, <2>2
<1>4. start.parent[m] = e
  BY <1>1, <1>3
<1>5. IsTree(start.parent)
  BY DEF Inv, Started, TreeAssumption
<1> QED
  BY <1>1, <1>2, <1>3, <1>4, <1>5 DEF IsTree

\* The tree is as it was but for what rmdr has removed.
LEMMA StillClean ==
  ASSUME TreeAssumption, Inv, Inv', Clean', UNCHANGED constants, UNCHANGED <<target, others>>
  PROVE  Clean
BY SameStart DEF Clean, InTree, constants, Links, Dirs

\* What is taken away leaves the tree as it was but for what was removed.
LEMMA TakingClean ==
  ASSUME TreeAssumption, Inv, Orderly, NEW S \in SUBSET Nodes, TakeAway(S), UNCHANGED constants
  PROVE  /\ \A n \in Nodes : parent'[n] = IF n \in removed' THEN Absent ELSE start'.parent[n]
         /\ \A n \in Nodes : parent'[n] = IF n \in S THEN Absent ELSE parent[n]
         /\ removed' = removed \cup S
         /\ \A d : d # Absent => Entries(d)' \subseteq Entries(d)
BY SameStart DEF TakeAway, Orderly, Entries

LEMMA InitClean == ASSUME TreeAssumption, Init PROVE CleanInv
<1>1. start.parent = parent /\ IsTree(parent)
  BY DEF Init, TreeAssumption
<1> QED
  BY <1>1 DEF Init, CleanInv, Orderly, Calling, IsTree

\* What is at hand is a directory, or it is removed.
LEMMA CallRemoves ==
  ASSUME TreeAssumption, Inv, Orderly, Clean, pc = "call", stack # <<>>, ~IsDir(arg),
         Last(arg) \in Entries(Last(stack).dir)
  PROVE  Unlinked(arg) = {Last(arg)} /\ Kind[Last(arg)] # "dir"
<1> DEFINE n == Last(arg)
           d == Last(stack).dir
<1>1. PICK k \in DOMAIN stack : Last(stack) = stack[k] /\ k = Len(stack)
  BY TopFrame
<1>2. /\ Last(stack).path \in Seq(Nodes) /\ Len(Last(stack).path) = k /\ k \in Nat \ {0}
      /\ Last(stack).path # <<>>
      /\ Straight(Last(stack).path) /\ Last(Last(stack).path) = d
      /\ Resolve(Last(stack).path) = {d}
      /\ d \in Nodes /\ Kind[d] = "dir"
  BY <1>1, StackedLeads DEF Orderly, Stacked
<1>3. n \in Nodes /\ parent[n] = d
  BY DEF Entries
<1>4. arg = Append(Last(stack).path, n)
  BY DEF Orderly, Calling
<1>5. Front(arg) = Last(stack).path /\ arg \in Seq(Nodes) /\ Len(arg) = k + 1 /\ arg[k + 1] = n
      /\ \A i \in 1 .. k : arg[i] = Last(stack).path[i]
  <2>1. PICK path \in Seq(Nodes) : path = Last(stack).path
    BY <1>2
  <2>2. PICK m \in Nodes : m = n
    BY <1>3
  <2>3. arg = Append(path, m) /\ Len(path) = k
    BY <1>2, <1>4, <2>1, <2>2
  <2> HIDE DEF n
  <2>4. /\ Front(arg) = path /\ arg \in Seq(Nodes) /\ Len(arg) = k + 1 /\ arg[k + 1] = m
        /\ \A i \in 1 .. k : arg[i] = path[i]
    BY <2>3, AppendParts
  <2> QED
    BY <2>1, <2>2, <2>4
<1>6. Kind[n] # "dir"
  <2>1. SUFFICES ASSUME Kind[n] = "dir" PROVE FALSE
    OBVIOUS
  <2>2. Last(stack).path[k] = d
    BY <1>2 DEF Last
  <2>3. Straight(arg)
    BY <1>2, <1>3, <1>5, <2>1, <2>2 DEF Straight
  <2>4. Walked(arg) = {[at |-> n, links |-> 0]}
    BY <1>5, <2>3, StraightLeads DEF Inv, Types
  <2>5. n \in Resolve(arg)
    BY <2>4 DEF Resolve
  <2> QED
    BY <1>3, <2>1, <2>5 DEF IsDir, Dirs
<1>7. Removable(arg) = {n}
  <2>1. d \in Dirs \ unwritable
    BY <1>2 DEF Clean, Dirs
  <2>2. Called(d, n) = {n}
    <3>1. parent[n] # Absent
      BY <1>2, <1>3 DEF TreeAssumption
    <3> HIDE DEF n, d
    <3> QED
      BY <1>3, <3>1, OnlyOneCalled
  <2>3. (Resolve(Front(arg)) \cap Dirs) \ unwritable = {d}
    BY <1>2, <1>5, <2>1
  <2> QED
    BY <2>2, <2>3 DEF Removable
<1> QED
  BY <1>6, <1>7 DEF Unlinked

LEMMA CallClean == ASSUME TreeAssumption, Inv, Orderly, Clean, Call PROVE Orderly'
<1>1. UNCHANGED constants /\ UNCHANGED <<target, arg, stack, open, silent, others>> /\ pc = "call"
      /\ start' = start
  BY SameStart DEF Call
<1>2. Last(arg) \in InTree /\ Last(arg) \in Nodes
  BY <1>1, CalledInTree
<1>3. CASE IsDir(arg)
  <2>1. pc' = "open" /\ UNCHANGED <<parent, removed>>
    BY <1>3 DEF Call
  <2>2. Kind[Last(arg)] = "dir"
    <3>1. PICK d \in Resolve(arg) : d \in Dirs
      BY <1>3 DEF IsDir
    <3>2. d = Dest(Last(arg))
      BY <1>1, <3>1, LeadsTo, CalledAlone DEF Inv, Types
    <3>3. Last(arg) \notin Links
      BY <1>2, <3>1, <3>2 DEF Clean, Dest
    <3> QED
      BY <1>2, <3>1, <3>2, <3>3, DirsAre DEF Dest
  <2>3. \A i : Stacked(i) => Stacked(i)'
    BY <1>1, <2>1 DEF Stacked, ParentOf, Busy, Entries, InTree
  <2> QED
    BY <1>1, <2>1, <2>2, <2>3 DEF Orderly, Calling
<1>4. CASE ~IsDir(arg)
  <2> DEFINE S == Unlinked(arg)
  <2>1. Return(stack) /\ TakeAway(S)
    BY <1>4 DEF Call
  <2>2. S \in SUBSET Nodes /\ S \subseteq {Last(arg)} /\ \A n \in S : Kind[n] # "dir"
    BY <1>1, <1>2, CalledAlone DEF Unlinked, Removable
  <2>3. stack # <<>> /\ Last(arg) \in Entries(Last(stack).dir) => S = {Last(arg)}
    BY <1>1, <1>4, CallRemoves
  <2> HIDE DEF S
  <2>4. /\ \A n \in Nodes : parent'[n] = IF n \in removed' THEN Absent ELSE start'.parent[n]
        /\ \A n \in Nodes : parent'[n] = IF n \in S THEN Absent ELSE parent[n]
        /\ removed' = removed \cup S
        /\ \A d : d # Absent => Entries(d)' \subseteq Entries(d)
    BY <1>1, <2>1, <2>2, TakingClean
  <2>5. pc' \in {"done", "read"} /\ (pc' = "done" <=> stack = <<>>)
    BY <2>1 DEF Return
  <2>6. ASSUME NEW i \in DOMAIN stack PROVE Stacked(i)'
    <3>1. Stacked(i) /\ stack # <<>> /\ pc' = "read"
      BY <1>1, <2>5, <2>6 DEF Orderly, Inv, Types
    <3>2. stack[i].dir \in Nodes /\ stack[i].dir # Absent
      BY StackedLeads DEF TreeAssumption
    <3>3. parent'[stack[i].dir] = parent[stack[i].dir]
      BY <2>2, <2>4, <3>1, <3>2 DEF Stacked
    <3>4. Entries(stack[i].dir)' \subseteq stack[i].left \cup Busy(i)'
      <4>1. CASE i < Len(stack)
        BY <1>1, <2>4, <3>1, <3>2, <4>1 DEF Stacked, Busy
      <4>2. CASE ~(i < Len(stack))
        <5>1. stack[i] = Last(stack)
          <6>1. i = Len(stack)
            BY <4>2 DEF Inv, Types
          <6> QED
            BY <6>1 DEF Last
        <5>2. Entries(stack[i].dir) \subseteq stack[i].left \cup {Last(arg)}
          BY <1>1, <3>1, <4>2 DEF Stacked, Busy
        <5>3. ASSUME NEW n \in Entries(stack[i].dir)' PROVE n \in stack[i].left
          <6>1. n \in Nodes /\ parent'[n] = stack[i].dir /\ n \in Entries(stack[i].dir)
            BY <1>1, <2>4, <3>2, <5>3 DEF Entries
          <6>2. n \notin S
            BY <2>4, <3>2, <6>1
          <6> QED
            BY <2>3, <3>1, <5>1, <5>2, <6>1, <6>2
        <5> QED
          BY <1>1, <5>3 DEF Entries
      <4> QED
        BY <4>1, <4>2
    <3> QED
      BY <1>1, <3>1, <3>3, <3>4 DEF Stacked, ParentOf, InTree
  <2>7. ASSUME stack = <<>> PROVE Argument \in removed'
    <3>1. arg = <<Argument>> /\ Argument \in Nodes
      BY <1>1, <2>7 DEF Inv, Outermost, TreeAssumption
    <3>2. parent[Argument] # Top
      BY <1>4, <3>1, ArgumentIsFound DEF Clean, DirArgument
    <3>3. Argument \in removed
      BY <3>1, <3>2 DEF Orderly, Clean, DirArgument
    <3> QED
      BY <2>4, <3>3
  <2> QED
    BY <1>1, <2>4, <2>5, <2>6, <2>7 DEF Orderly
<1> QED
  BY <1>3, <1>4

LEMMA OpenClean == ASSUME TreeAssumption, Inv, Orderly, Clean, Open PROVE Orderly'
<1>1. /\ UNCHANGED constants /\ UNCHANGED <<parent, target, arg, silent, others, removed>>
      /\ pc = "open" /\ start' = start
  BY SameStart DEF Open
<1>2. Last(arg) \in InTree /\ Last(arg) \in Nodes /\ Kind[Last(arg)] = "dir"
  BY <1>1, CalledInTree DEF Orderly, Calling
<1>3. ASSUME NEW d \in Resolve(arg),
             stack' = Append(stack, [path |-> arg, dir |-> d, left |-> Entries(d)]),
             pc' = "read"
      PROVE  Orderly'
  <2> DEFINE frame == [path |-> arg, dir |-> d, left |-> Entries(d)]
  <2>1. d = Last(arg) /\ parent[d] # Absent
    <3>1. Last(arg) \notin Links
      BY <1>2, LinkTypes DEF Inv, Types
    <3>2. PICK e \in Resolve(Front(arg)) : \E m \in Called(e, Last(arg)) : d = Dest(m)
      BY LeadsTo DEF Inv, Types
    <3>3. PICK m \in Called(e, Last(arg)) : d = Dest(m)
      BY <3>2
    <3>4. m = Last(arg) /\ e # Absent /\ parent[m] = e
      BY <1>1, CalledAlone DEF Called, Entries
    <3> QED
      BY <3>1, <3>3, <3>4 DEF Dest
  <2>2. d \notin removed /\ parent[d] = start.parent[d]
    BY <1>2, <2>1, DirsAre DEF Orderly
  <2>3. PICK k \in Nat : k = Len(stack) /\ DOMAIN stack = 1 .. k /\ (stack = <<>> <=> k = 0)
    BY DEF Inv, Types
  <2>4. /\ Len(stack') = k + 1 /\ DOMAIN stack' = 1 .. k + 1 /\ stack'[k + 1] = frame
        /\ \A i \in 1 .. k : stack'[i] = stack[i]
    BY <1>3, <2>3 DEF Inv, Types
  <2>5. Len(arg) = k + 1 /\ arg[k + 1] = d /\ \A i \in 1 .. k : arg[i] = stack[i].dir
    <3>1. CASE k = 0
      <4>1. arg = <<Argument>>
        BY <1>1, <2>3, <3>1 DEF Inv, Outermost
      <4> QED
        BY <2>1, <3>1, <4>1 DEF Last
    <3>2. CASE k # 0
      <4>1. k \in DOMAIN stack /\ Last(stack) = stack[k]
        BY <2>3, <3>2 DEF Last
      <4>2. /\ stack[k].path \in Seq(Nodes) /\ Len(stack[k].path) = k
            /\ \A i \in 1 .. k : stack[k].path[i] = stack[i].dir
        BY <4>1, StackedLeads DEF Orderly, Stacked
      <4>3. arg = Append(stack[k].path, d) /\ d \in Nodes
        BY <1>1, <1>2, <2>1, <2>3, <3>2, <4>1 DEF Orderly, Calling
      <4> QED
        BY <4>2, <4>3
    <3> QED
      BY <3>1, <3>2
  <2>6. parent[d] = IF k = 0 THEN Top ELSE stack[k].dir
    <3>1. CASE k = 0
      <4>1. arg = <<Argument>>
        BY <1>1, <2>3, <3>1 DEF Inv, Outermost
      <4>2. d = Argument
        BY <2>1, <4>1 DEF Last
      <4> QED
        BY <2>2, <3>1, <4>2 DEF Clean, DirArgument
    <3>2. CASE k # 0
      <4>1. Last(stack) = stack[k]
        BY <2>3 DEF Last
      <4> QED
        BY <1>1, <2>1, <2>2, <2>3, <3>2, <4>1 DEF Orderly, Calling
    <3> QED
      BY <3>1, <3>2
  <2>7. ASSUME NEW i \in 1 .. k PROVE Stacked(i)'
    <3>1. Stacked(i) /\ stack'[i] = stack[i] /\ i \in DOMAIN stack /\ i < k + 1
      BY <2>3, <2>4 DEF Orderly
    <3>2. \A j \in 1 .. i : stack'[j] = stack[j]
      BY <2>4
    <3>3. ParentOf(i)' = ParentOf(i)
      BY <2>4 DEF ParentOf
    <3>4. Busy(i)' = Busy(i)
      <4>1. CASE i < k
        BY <2>3, <2>4, <4>1 DEF Busy
      <4>2. CASE i = k
        <5>1. Busy(i) = {Last(arg)}
          BY <1>1, <2>3, <4>2 DEF Busy
        <5>2. i < Len(stack') /\ stack'[i + 1].dir = d
          BY <2>4, <4>2
        <5>3. Busy(i)' = {d}
          BY <5>2 DEF Busy
        <5> QED
          BY <2>1, <5>1, <5>3
      <4> QED
        BY <4>1, <4>2
    <3> QED
      BY <1>1, <3>1, <3>2, <3>3, <3>4 DEF Stacked, Entries, InTree
  <2>8. Stacked(k + 1)'
    <3>1. /\ stack'[k + 1].path = arg /\ stack'[k + 1].dir = d
          /\ stack'[k + 1].left = Entries(d)
      BY <2>4
    <3>2. \A i \in 1 .. k + 1 : arg[i] = stack'[i].dir
      BY <2>4, <2>5, <3>1
    <3>3. ParentOf(k + 1)' = IF k = 0 THEN Top ELSE stack[k].dir
      BY <2>4 DEF ParentOf
    <3>4. \A n \in Entries(d) : start.parent[n] = d
      <4>1. d # Absent
        BY <1>2, <2>1 DEF TreeAssumption
      <4> QED
        BY <4>1 DEF Entries, Orderly
    <3>5. Entries(d)' = Entries(d)
      BY <1>1 DEF Entries
    <3> HIDE DEF frame
    <3> QED
      BY <1>1, <1>2, <2>1, <2>5, <2>6, <3>1, <3>2, <3>3, <3>4, <3>5 DEF Stacked, InTree
  <2>9. \A i \in DOMAIN stack' : Stacked(i)'
    BY <2>4, <2>7, <2>8
  <2> QED
    BY <1>1, <1>3, <2>9 DEF Orderly
<1>4. CASE pc' = "crashed" /\ UNCHANGED stack
  <2>1. \A i : Stacked(i) => Stacked(i)'
    BY <1>1, <1>4 DEF Stacked, ParentOf, Busy, Entries, InTree
  <2> QED
    BY <1>1, <1>4, <2>1 DEF Orderly
<1> QED
  BY <1>3, <1>4 DEF Open

LEMMA ReadClean == ASSUME TreeAssumption, Inv, Orderly, Clean, Read PROVE Orderly'
<1>1. UNCHANGED constants /\ UNCHANGED <<parent, target, open, silent, others, removed>>
      /\ pc = "read" /\ pc' = "call" /\ stack # <<>> /\ start' = start
  BY SameStart DEF Read, Inv, Types
<1>2. PICK k \in Nat \ {0} : k = Len(stack) /\ DOMAIN stack = 1 .. k /\ Last(stack) = stack[k]
  BY <1>1 DEF Inv, Types, Last
<1>3. PICK n \in stack[k].left :
        /\ arg' = Append(stack[k].path, n)
        /\ stack' = [stack EXCEPT ![k].left = @ \ {n}]
  BY <1>2 DEF Read
<1>4. stack[k] \in Frame /\ stack[k].path \in Seq(Nodes) /\ n \in Nodes
  <2>1. stack[k] \in Frame
    BY <1>2 DEF Inv, Types
  <2> QED
    BY <1>3, <2>1 DEF Frame
<1>5. Last(arg') = n
  BY <1>3, <1>4, AppendParts
<1>6. /\ DOMAIN stack' = 1 .. k /\ Len(stack') = k
      /\ \A i \in 1 .. k : stack'[i].path = stack[i].path /\ stack'[i].dir = stack[i].dir
      /\ \A i \in 1 .. k : stack'[i].left = IF i = k THEN stack[k].left \ {n} ELSE stack[i].left
  <2>1. stack \in Seq(Frame)
    BY DEF Inv, Types
  <2>2. stack[k].left \ {n} \in SUBSET Nodes
    BY <1>4 DEF Frame
  <2>3. PICK frame \in Frame :
          /\ frame = [stack[k] EXCEPT !.left = stack[k].left \ {n}]
          /\ frame.path = stack[k].path /\ frame.dir = stack[k].dir
          /\ frame.left = stack[k].left \ {n}
    BY <1>4, <2>2, FrameWith
  <2>4. stack' = [stack EXCEPT ![k] = frame]
    BY <1>2, <1>3, <2>3
  <2> QED
    BY <1>2, <2>1, <2>3, <2>4
<1>7. ASSUME NEW i \in 1 .. k PROVE Stacked(i)'
  <2>1. Stacked(i)
    BY <1>2 DEF Orderly
  <2>2. ParentOf(i)' = ParentOf(i)
    BY <1>6 DEF ParentOf
  <2>3. Busy(i)' = IF i = k THEN {n} ELSE Busy(i)
    <3>1. CASE i = k
      <4>1. ~(i < Len(stack')) /\ pc' # "read"
        BY <1>1, <1>6, <3>1
      <4> QED
        BY <1>5, <3>1, <4>1 DEF Busy
    <3>2. CASE i # k
      <4>1. i < Len(stack) /\ i < Len(stack') /\ stack'[i + 1].dir = stack[i + 1].dir
        BY <1>2, <1>6, <3>2
      <4> QED
        BY <3>2, <4>1 DEF Busy
    <3> QED
      BY <3>1, <3>2
  <2>4. i = k => Busy(i) = {}
    BY <1>1, <1>2 DEF Busy
  <2>5. \A j \in 1 .. i : stack'[j].dir = stack[j].dir
    BY <1>6
  <2>6. Entries(stack[i].dir)' = Entries(stack[i].dir)
    BY <1>1, <1>6 DEF Entries
  <2>7. Entries(stack[i].dir) \subseteq stack'[i].left \cup Busy(i)'
    BY <1>6, <2>1, <2>3, <2>4 DEF Stacked
  <2>8. stack'[i].left \subseteq stack[i].left
    BY <1>6
  <2> QED
    BY <1>1, <1>6, <2>1, <2>2, <2>5, <2>6, <2>7, <2>8 DEF Stacked, InTree, Entries
<1>8. Calling'
  <2>1. Last(stack') = stack'[k]
    BY <1>6 DEF Last
  <2>2. start.parent[n] = stack[k].dir
    BY <1>2, <1>3 DEF Orderly, Stacked
  <2> QED
    <3>1. Last(stack').path = stack[k].path /\ Last(stack').dir = stack[k].dir
      BY <1>6, <2>1
    <3>2. arg' = Append(Last(stack').path, Last(arg')) /\ start'.parent[Last(arg')] = Last(stack').dir
      BY <1>1, <1>3, <1>5, <2>2, <3>1
    <3> QED
      BY <1>1, <3>2 DEF Calling
<1> QED
  BY <1>1, <1>6, <1>7, <1>8 DEF Orderly

LEMMA CloseClean == ASSUME TreeAssumption, Inv, Orderly, Clean, Close PROVE Orderly'
<1>1. PICK k \in Nat \ {0} : k = Len(stack) /\ DOMAIN stack = 1 .. k /\ Last(stack) = stack[k]
  BY DEF Close, Inv, Types, Last
<1> DEFINE path == stack[k].path
           d == stack[k].dir
           gone == RmDir(path)
<1>2. /\ UNCHANGED constants /\ UNCHANGED <<target, arg, others>> /\ start' = start
      /\ pc = "read" /\ NoEntry(stack[k])
      /\ TakeAway(gone) /\ silent' = (silent /\ gone # {})
      /\ stack' = Front(stack) /\ Return(Front(stack))
  BY <1>1, SameStart DEF Close, SilentAfter
<1>3. Stacked(k) /\ k \in DOMAIN stack
  BY <1>1 DEF Orderly
<1>4. Entries(d) = {}
  <2>1. Busy(k) = {}
    BY <1>1, <1>2 DEF Busy
  <2> QED
    BY <1>2, <1>3, <2>1 DEF Stacked, NoEntry
<1>5. /\ path \in Seq(Nodes) /\ path # <<>> /\ Len(path) = k
      /\ Straight(path) /\ Last(path) = d /\ d \in Nodes /\ Kind[d] = "dir"
  BY <1>3, StackedLeads DEF Stacked
<1>6. Removable(path) = {d}
  <2> DEFINE e == IF Front(path) = <<>> THEN Top ELSE Last(Front(path))
  <2>1. /\ Front(path) \in Seq(Nodes) /\ Straight(Front(path)) /\ parent[d] = e
    BY <1>5, StraightFront
  <2>2. Walked(Front(path)) = {[at |-> e, links |-> 0]}
    BY <2>1, StraightLeads
  <2>3. Resolve(Front(path)) = {e}
    <3> HIDE DEF e
    <3>1. {w.at : w \in {[at |-> e, links |-> 0]}} = {e}
      OBVIOUS
    <3> QED
      BY <2>2, <3>1 DEF Resolve
  <2>4. e \in Dirs \ unwritable
    <3>1. CASE Front(path) = <<>>
      BY <3>1, DirsAre DEF Clean
    <3>2. CASE Front(path) # <<>>
      BY <2>1, <3>2, StraightFront DEF Clean, Dirs
    <3> QED
      BY <3>1, <3>2
  <2> HIDE DEF e
  <2>5. Called(e, d) = {d}
    BY <1>5, <2>1, <2>4, DirsAre, OnlyOneCalled
  <2>6. (Resolve(Front(path)) \cap Dirs) \ unwritable = {e}
    BY <2>3, <2>4
  <2> QED
    BY <1>5, <2>5, <2>6 DEF Removable
<1>7. gone = {d}
  BY <1>4, <1>5, <1>6 DEF RmDir
<1> HIDE DEF gone
<1>8. /\ \A n \in Nodes : parent'[n] = IF n \in removed' THEN Absent ELSE start'.parent[n]
      /\ \A n \in Nodes : parent'[n] = IF n = d THEN Absent ELSE parent[n]
      /\ removed' = removed \cup {d}
      /\ \A c : c # Absent => Entries(c)' \subseteq Entries(c)
  BY <1>2, <1>5, <1>7, TakingClean
<1>9. /\ DOMAIN stack' = 1 .. k - 1 /\ Len(stack') = k - 1
      /\ \A i \in 1 .. k - 1 : stack'[i] = stack[i]
      /\ stack' = <<>> <=> k = 1
  <2>1. stack \in Seq(Frame) /\ stack' = SubSeq(stack, 1, k - 1) /\ k - 1 \in Nat
    BY <1>1, <1>2 DEF Inv, Types, Front
  <2>2. Len(stack') = k - 1 /\ DOMAIN stack' = 1 .. k - 1 /\ \A i \in 1 .. k - 1 : stack'[i] = stack[i]
    BY <1>1, <2>1
  <2>3. stack' = <<>> <=> k - 1 = 0
    <3>1. stack' \in Seq(Frame)
      BY <1>1, <2>1
    <3> QED
      BY <2>2, <3>1
  <2> QED
    BY <2>2, <2>3
<1>10. pc' \in {"done", "read"} /\ (pc' = "done" <=> k = 1)
  BY <1>2, <1>9 DEF Return
<1>11. ASSUME NEW i \in 1 .. k - 1 PROVE Stacked(i)'
  <2>1. Stacked(i) /\ i \in DOMAIN stack /\ i < k /\ i + 1 \in DOMAIN stack /\ stack'[i] = stack[i]
    BY <1>1, <1>9 DEF Orderly
  <2>2. stack[i].dir \in Nodes /\ stack[i + 1].dir \in Nodes /\ stack[i].dir # Absent
    BY <2>1, StackedLeads DEF TreeAssumption
  <2>3. parent[stack[i + 1].dir] = stack[i].dir
    <3>1. parent[stack[i + 1].dir] = ParentOf(i + 1)
      BY <2>1 DEF Orderly, Stacked
    <3>2. i + 1 # 1 /\ (i + 1) - 1 = i
      BY <1>1
    <3> QED
      BY <3>1, <3>2 DEF ParentOf
  <2>4. stack[i].dir # d
    BY <1>4, <2>2, <2>3 DEF Entries
  <2>5. parent'[stack[i].dir] = parent[stack[i].dir]
    BY <1>8, <2>2, <2>4
  <2>6. ParentOf(i)' = ParentOf(i) /\ \A j \in 1 .. i : stack'[j] = stack[j]
    BY <1>9 DEF ParentOf
  <2>7. pc' = "read"
    BY <1>10
  <2>8. Entries(stack[i].dir)' \subseteq stack[i].left \cup Busy(i)'
    <3>1. Busy(i) = {stack[i + 1].dir}
      BY <1>1, <2>1 DEF Busy
    <3>2. CASE i = k - 1
      <4>1. Busy(i) = {d}
        BY <3>1, <3>2
      <4>2. d \notin Entries(stack[i].dir)'
        BY <1>5, <1>8, <1>9, <2>2 DEF Entries
      <4>3. Entries(stack[i].dir)' \subseteq Entries(stack[i].dir)
        <5>1. PICK c : c = stack[i].dir
          OBVIOUS
        <5>2. Entries(c)' \subseteq Entries(c)
          BY <1>8, <2>2, <5>1
        <5>3. stack'[i].dir = c
          BY <2>1, <5>1
        <5> QED
          BY <5>1, <5>2, <5>3 DEF Entries
      <4> QED
        BY <2>1, <4>1, <4>2, <4>3 DEF Stacked
    <3>3. CASE i # k - 1
      <4>1. Busy(i)' = Busy(i)
        <5>1. i < Len(stack') /\ stack'[i + 1] = stack[i + 1]
          BY <1>9, <3>3
        <5> QED
          BY <3>1, <5>1 DEF Busy
      <4>2. Entries(stack[i].dir)' \subseteq Entries(stack[i].dir)
        <5>1. PICK c : c = stack[i].dir
          OBVIOUS
        <5>2. Entries(c)' \subseteq Entries(c)
          BY <1>8, <2>2, <5>1
        <5>3. stack'[i].dir = c
          BY <2>1, <5>1
        <5> QED
          BY <5>1, <5>2, <5>3 DEF Entries
      <4> QED
        BY <2>1, <4>1, <4>2 DEF Stacked
    <3> QED
      BY <3>2, <3>3
  <2> QED
    BY <1>2, <2>1, <2>5, <2>6, <2>8 DEF Stacked, InTree
<1>12. k = 1 => Argument \in removed'
  <2>1. SUFFICES ASSUME k = 1 PROVE d = Argument
    BY <1>8
  <2>2. path = <<Argument>>
    BY <1>1, <2>1 DEF Inv, Outermost
  <2> QED
    BY <1>5, <2>2 DEF Last
<1> QED
  BY <1>2, <1>7, <1>8, <1>9, <1>10, <1>11, <1>12 DEF Orderly

LEMMA CleanKept == ASSUME TreeAssumption, Inv, Inv', CleanInv, [Next]_vars PROVE CleanInv'
<1> SUFFICES ASSUME Clean' PROVE Orderly'
  BY DEF CleanInv
<1>1. CASE UNCHANGED vars
  <2>1. UNCHANGED constants /\ UNCHANGED <<parent, target, pc, arg, stack, open, silent, others, removed>>
    BY <1>1 DEF vars
  <2>2. Orderly /\ start' = start
    BY <2>1, StillClean, SameStart DEF CleanInv
  <2>3. \A i : Stacked(i) => Stacked(i)'
    BY <2>1, <2>2 DEF Stacked, ParentOf, Busy, Entries, InTree
  <2> QED
    BY <2>1, <2>2, <2>3 DEF Orderly, Calling
<1>2. CASE Step
  <2>1. UNCHANGED constants /\ UNCHANGED <<target, others>>
    BY <1>2 DEF Step, Call, Open, Read, Close
  <2>2. Clean /\ Orderly
    BY <2>1, StillClean DEF CleanInv
  <2> QED
    BY <1>2, <2>2, CallClean, OpenClean, ReadClean, CloseClean DEF Step
<1>3. CASE Others
  <2>1. others' = others + 1 /\ others \in Nat
    BY <1>3 DEF Others, Inv, Types
  <2> QED
    BY <2>1 DEF Clean
<1> QED
  BY <1>1, <1>2, <1>3 DEF Next

\* An empty answer tells that all is gone, and on a tree no one else works on it
\* is empty.
LEMMA InvTells == ASSUME TreeAssumption, Inv, CleanInv PROVE AnswerTells
<1>1. SilentMeansGone
  BY AllGone DEF SilentMeansGone, Inv, Outermost
<1>2. CleanRun
  <2> SUFFICES ASSUME pc = "done", Clean PROVE silent /\ InTree \subseteq removed
    BY DEF CleanRun, Clean
  <2>1. Orderly /\ silent /\ DirArgument
    BY DEF CleanInv, Orderly, Clean
  <2>2. \A n \in InTree : parent[n] = Absent
    <3>1. \A m \in Nodes : ~Moved(m)
      BY <2>1 DEF Orderly, Moved
    <3> QED
      BY <2>1, <3>1, AllGone DEF Inv, Outermost
  <2>3. ASSUME NEW n \in InTree PROVE n \in removed
    <3>1. Argument \in Nodes
      BY DEF TreeAssumption
    <3>2. InTree = Below(start.parent, Argument, {}) /\ InTree \subseteq Nodes
      BY <3>1, BelowIsClosed DEF Inv, Types, Started, InTree
    <3>3. start.parent[n] # Absent
      <4>1. CASE n = Argument
        BY <2>1, <4>1 DEF DirArgument, TreeAssumption
      <4>2. CASE n # Argument
        <5>1. start.parent[n] \in InTree
          BY <3>1, <3>2, <4>2, ParentIsBelow DEF Inv, Types
        <5> QED
          BY <3>2, <5>1 DEF TreeAssumption
      <4> QED
        BY <4>1, <4>2
    <3> QED
      BY <2>1, <2>2, <3>2, <3>3 DEF Orderly
  <2> QED
    BY <2>1, <2>3
<1> QED
  BY <1>1, <1>2 DEF AnswerTells
-----------------------------------------------------------------------------
\* What rmdr removes is, when it is removed, below what has the name of the argument
\* or strictly below something that a link in reach of it leads to; however other
\* processes change the tree and the links between two calls.
THEOREM RemovesOnlyBelow == ASSUME TreeAssumption PROVE Spec => OnlyBelow
<1>1. Init => Inv
  BY InitInv
<1>2. Inv /\ [Next]_vars => Inv' /\ [\A n \in removed' \ removed : n \in Exposed]_vars
  BY InvKept
<1> QED
  BY <1>1, <1>2, PTL DEF Spec, OnlyBelow

\* An empty answer to rmdr means that the directory is gone with all that was below
\* it, but for what other processes have moved and what is in that; and a tree that
\* no one else works on, with the rights that are needed and without a link to a
\* directory, goes as a whole and without a word.
THEOREM AnswersTell == ASSUME TreeAssumption PROVE Spec => []AnswerTells
<1>1. Init => Inv /\ CleanInv
  BY InitInv, InitClean
<1>2. Inv /\ CleanInv /\ [Next]_vars => Inv' /\ CleanInv'
  BY InvKept, CleanKept
<1>3. Inv /\ CleanInv => AnswerTells
  BY InvTells
<1> QED
  BY <1>1, <1>2, <1>3, PTL DEF Spec
=============================================================================
