----------------------------- MODULE RemoveTree -----------------------------
(***************************************************************************)
(* The command rmdr: do_rmdr() removes a directory with all it holds.  The *)
(* recursion is a stack of frames, one for each directory that is open.    *)
(* Calls name files by their whole path, and a path is resolved anew at    *)
(* every call: symbolic links in it are followed, and another process may  *)
(* have changed the tree meanwhile.                                        *)
(*                                                                         *)
(* A node is a directory, a file or a link, and keeps its name wherever it *)
(* is moved; others may have the same one, and take its place.  A path is  *)
(* a sequence of names, from the directory the agent works in: each is     *)
(* written as a node that has it, and stands for whatever has it now.      *)
(***************************************************************************)
EXTENDS Integers, Sequences, FiniteSets, SequencesExt

CONSTANTS
  Nodes,       \* what may be in the tree
  Kind,        \* Kind[n]: "dir", "file" or "link"
  Name,        \* Name[n]: the name of a node
  Top,         \* the working directory, which is not in Nodes
  Absent,      \* the parent of what is nowhere, the target of a dangling link
  Shapes,      \* the trees there may be at first: the parent of each node
  Targets,     \* where the links may lead: a directory, a file or Absent
  Unwritables, \* sets of directories the agent has no right to write
  Unreadables, \* sets of directories it has no right to read
  Argument,    \* the argument of rmdr
  MaxLinks,    \* links that a path may hold (the kernel's bound)
  MaxOpen,     \* descriptors the process has left for directories
  MaxOthers    \* bound: changes made by other processes

\* What is in a directory is in one that is in the tree, with a name of its own,
\* and there are no circles.
IsTree(p) ==
  /\ p \in [Nodes -> Nodes \cup {Top, Absent}]
  /\ \A n \in Nodes : p[n] \in Nodes => Kind[p[n]] = "dir" /\ p[p[n]] # Absent
  /\ \A m, n \in Nodes : Name[m] = Name[n] /\ p[m] = p[n] /\ p[n] # Absent => m = n
  /\ \A S \in SUBSET Nodes : S # {} => \E n \in S : p[n] \notin S

TreeAssumption ==
  /\ Kind \in [Nodes -> {"dir", "file", "link"}]
  /\ Top \notin Nodes /\ Absent \notin Nodes \cup {Top}
  /\ \A p \in Shapes : IsTree(p)
  /\ Targets \subseteq [{n \in Nodes : Kind[n] = "link"} -> Nodes \cup {Absent}]
  /\ \A t \in Targets : \A l \in DOMAIN t : t[l] # Absent => Kind[t[l]] # "link"
  /\ Argument \in Nodes
  /\ MaxLinks \in Nat /\ MaxOpen \in Nat /\ MaxOthers \in Nat

VARIABLES
  parent,     \* the directory each node is in
  target,     \* where each link leads
  unwritable,
  unreadable,
  pc,         \* "call", "open", "read", "done" or "crashed"
  arg,        \* the path of the call that is about to begin
  stack,      \* [path, dir, left] for each directory that is open
  open,       \* descriptors in use for directories
  silent,     \* nothing has been written to out
  others,     \* changes made by other processes
  \* history
  start,      \* what there was at first
  removed     \* what the agent has removed

constants == <<unwritable, unreadable, start>>
vars == <<constants, parent, target, pc, arg, stack, open, silent, others, removed>>

Links == DOMAIN target
Dirs == {n \in Nodes : Kind[n] = "dir"} \cup {Top}
Entries(d) == {n \in Nodes : parent[n] = d}

\* A set of nodes with all that is in its directories and all that the links L
\* in it lead to, in a tree p.
Closed(p, S, L) ==
  /\ \A n \in Nodes : p[n] \in S => n \in S
  /\ \A l \in L \cap S : target[l] # Absent => target[l] \in S

\* What is below a node, itself included.
Below(p, d, L) ==
  LET around == {S \in SUBSET Nodes : d \in S /\ Closed(p, S, L)}
  IN  {n \in Nodes : \A S \in around : n \in S}

\* What is strictly below a node that a link leads to, if the link is one that
\* can be reached from a.
Led(p, a) ==
  LET reached == {l \in Links \cap Below(p, a, Links) : target[l] # Absent}
  IN  UNION {Below(p, target[l], Links) \ {target[l]} : l \in reached}

\* What is in directory d by the name of n.
Called(d, n) == {m \in Entries(d) : Name[m] = Name[n]}

\* What is below the argument, and strictly below a directory that some link in
\* it leads to: what rmdr goes through.
Exposed == UNION {Below(parent, a, {}) \cup Led(parent, a) : a \in Called(Top, Argument)}

Init ==
  /\ parent \in Shapes
  /\ target \in Targets
  /\ start = [parent |-> parent, tree |-> Below(parent, Argument, {})]
  /\ unwritable \in Unwritables /\ unreadable \in Unreadables
  /\ pc = "call" /\ arg = <<Argument>>
  /\ stack = <<>> /\ open = 0 /\ silent = TRUE
  /\ others = 0 /\ removed = {}
-----------------------------------------------------------------------------
(***************************************************************************)
(* What a path names.                                                      *)
(***************************************************************************)
\* Where a path leads is a set of one node, or of none.  One name further: a
\* link is followed, unless it leads nowhere or there have been too many.
Followed(w, n) == n \in Links => w.links < MaxLinks /\ target[n] # Absent /\ parent[target[n]] # Absent
Further(w, n) ==
  IF n \in Links THEN [at |-> target[n], links |-> w.links + 1] ELSE [w EXCEPT !.at = n]
Walk(W, n) ==
  UNION {{Further(w, m) : m \in {k \in Called(w.at, n) : Followed(w, k)}} : w \in W}

Walked(path) ==
  LET walk[i \in 0 .. Len(path)] ==
        IF i = 0 THEN {[at |-> Top, links |-> 0]} ELSE Walk(walk[i - 1], path[i])
  IN  walk[Len(path)]

Resolve(path) == {w.at : w \in Walked(path)}

\* unlink() and rmdir() do not follow the last name.
Removable(path) ==
  UNION {Called(d, Last(path)) : d \in (Resolve(Front(path)) \cap Dirs) \ unwritable}

\* isDir(): PR_GetFileInfo() follows links.
IsDir(path) == Resolve(path) \cap Dirs # {}

Unlinked(path) == {n \in Removable(path) : Kind[n] # "dir"}

\* Faulty variant: the path is resolved first.
RmDirResolved(path) == {d \in Resolve(path) \cap Dirs : Entries(d) = {}}

RmDir(path) == {n \in Removable(path) : Kind[n] = "dir" /\ Entries(n) = {}}

TakeAway(S) ==
  /\ parent' = [n \in Nodes |-> IF n \in S THEN Absent ELSE parent[n]]
  /\ removed' = removed \cup S
-----------------------------------------------------------------------------
(***************************************************************************)
(* do_rmdr().                                                              *)
(***************************************************************************)
Return(s) == pc' = IF s = <<>> THEN "done" ELSE "read"

\* isDir(), and rm() for all that is not a directory: rm() returns its error,
\* which is dropped.
Call ==
  /\ pc = "call"
  /\ IF IsDir(arg)
       THEN pc' = "open" /\ UNCHANGED <<parent, removed>>
       ELSE /\ Return(stack)
            /\ TakeAway(Unlinked(arg))
  /\ UNCHANGED <<constants, target, arg, stack, open, silent, others>>

CanOpen(d) == d \in Dirs \ unreadable /\ open < MaxOpen

\* PR_OpenDir(): its result goes to PR_ReadDir() unchecked.
Open ==
  /\ pc = "open"
  /\ \/ \E d \in Resolve(arg) :
          /\ CanOpen(d)
          /\ stack' = Append(stack, [path |-> arg, dir |-> d, left |-> Entries(d)])
          /\ open' = open + 1
          /\ pc' = "read"
     \/ /\ \A d \in Resolve(arg) : ~CanOpen(d)
        /\ pc' = "crashed" /\ UNCHANGED <<stack, open>>
  /\ UNCHANGED <<constants, parent, target, arg, silent, others, removed>>

\* Faulty variant: every entry is looked for from the beginning.
ReadAnew ==
  /\ pc = "read"
  /\ \E n \in Entries(Last(stack).dir) :
       /\ arg' = Append(Last(stack).path, n)
       /\ stack' = [stack EXCEPT ![Len(stack)].left = Entries(Last(stack).dir)]
  /\ pc' = "call"
  /\ UNCHANGED <<constants, parent, target, open, silent, others, removed>>

\* PR_ReadDir() returns each entry once, in any order, and perhaps one that is
\* no longer there.
Read ==
  /\ pc = "read"
  /\ \E n \in Last(stack).left :
       /\ arg' = Append(Last(stack).path, n)
       /\ stack' = [stack EXCEPT ![Len(stack)].left = @ \ {n}]
  /\ pc' = "call"
  /\ UNCHANGED <<constants, parent, target, open, silent, others, removed>>

\* Faulty variant: the result of PR_RmDir() is dropped, as that of PR_Delete()
\* is.
SilentAnyway(S) == silent

\* PR_ReadDir() returns NULL when no entry is left that still exists.
NoEntry(frame) == frame.left \cap Entries(frame.dir) = {}
SilentAfter(S) == silent /\ S # {}

\* PR_CloseDir(), PR_RmDir(), and the return to the frame below.
Close ==
  /\ pc = "read" /\ NoEntry(Last(stack))
  /\ open' = open - 1
  /\ LET gone == RmDir(Last(stack).path)
     IN  TakeAway(gone) /\ silent' = SilentAfter(gone)
  /\ stack' = Front(stack) /\ Return(Front(stack))
  /\ UNCHANGED <<constants, target, arg, others>>
-----------------------------------------------------------------------------
(***************************************************************************)
(* Other processes: each change is one call of theirs.                     *)
(***************************************************************************)
OtherRemoves(n) ==
  /\ parent[n] # Absent /\ Entries(n) = {}
  /\ parent' = [parent EXCEPT ![n] = Absent]
  /\ UNCHANGED <<target, stack>>

\* What is nowhere is made, what is somewhere is moved, with all that is in it, to
\* a directory where its name is free.  A stream of that directory may return it
\* or not.
OtherPuts(n, d) ==
  /\ n \notin removed /\ Called(d, n) = {}
  /\ d # Top => parent[d] # Absent
  /\ Kind[n] = "dir" => d \notin Below(parent, n, {})
  /\ parent' = [parent EXCEPT ![n] = d]
  /\ \E seen \in SUBSET {i \in DOMAIN stack : stack[i].dir = d} :
       stack' = [i \in DOMAIN stack |->
                   CASE i \in seen -> [stack[i] EXCEPT !.left = @ \cup {n}]
                     [] stack[i].dir = d /\ i \notin seen -> [stack[i] EXCEPT !.left = @ \ {n}]
                     [] OTHER -> stack[i]]
  /\ UNCHANGED target

\* Links are replaced by others that lead elsewhere.
OtherRelinks == target' \in Targets /\ UNCHANGED <<parent, stack>>

Running == pc \notin {"done", "crashed"}
Others ==
  /\ Running /\ others < MaxOthers
  /\ others' = others + 1
  /\ \/ \E n \in Nodes : OtherRemoves(n) \/ \E d \in Dirs : OtherPuts(n, d)
     \/ OtherRelinks
  /\ UNCHANGED <<constants, pc, arg, open, silent, removed>>

Step == Call \/ Open \/ Read \/ Close
Next == Step \/ Others

Spec == Init /\ [][Next]_vars
\* The agent does nothing else until the command is done.
FairSpec == Spec /\ WF_vars(Step)
-----------------------------------------------------------------------------
DirArgument == start.parent[Argument] = Top /\ Kind[Argument] = "dir"
InTree == start.tree

TypeOK ==
  /\ parent \in [Nodes -> Nodes \cup {Top, Absent}]
  /\ pc \in {"call", "open", "read", "done", "crashed"}
  /\ open = Len(stack)
  /\ \A i \in DOMAIN stack : stack[i].dir \in Dirs /\ stack[i].left \subseteq Nodes
  /\ \A n \in removed : parent[n] = Absent

\* Whatever rmdr removes is then below its argument, or strictly below a directory
\* that some link in reach of it leads to: the contents of such a directory are
\* lost although it is elsewhere, but the directory itself stays.
OnlyBelow == [][\A n \in removed' \ removed : n \in Exposed]_vars

\* An empty answer to rmdr of a directory means that it is gone with all that
\* was below it, although the errors of the files in it are dropped: but for what
\* another process has moved, and what is in it.
Moved(n) == parent[n] \notin {start.parent[n], Absent}
SilentMeansGone ==
  pc = "done" /\ silent /\ DirArgument =>
    \A n \in InTree :
      parent[n] = Absent \/ \E m \in Nodes : Moved(m) /\ n \in Below(parent, m, {})

\* A tree that no one else works on, with the rights that are needed and no
\* link to a directory, goes as a whole and without a word.
CleanRun ==
  /\ pc = "done" /\ DirArgument /\ others = 0 /\ unwritable = {}
  /\ \A l \in Links \cap InTree : target[l] \notin Dirs
  => silent /\ InTree \subseteq removed

\* What the answer to rmdr says is so.
AnswerTells == SilentMeansGone /\ CleanRun

\* What may stop the agent: a directory it cannot open, that it may not read,
\* that was removed since isDir(), or that is one too many on a path.
CannotOpen == others > 0 \/ unreadable # {} \/ Len(stack) = MaxOpen

\* rmdr ends, also in a tree with a link to a directory that is around it,
\* because the kernel refuses to follow more than MaxLinks; and nothing but a
\* directory that cannot be opened stops the agent in it.
Ends == <>(pc = "done" \/ (pc = "crashed" /\ CannotOpen))
=============================================================================
