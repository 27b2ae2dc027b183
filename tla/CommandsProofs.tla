--------------------------- MODULE CommandsProofs ---------------------------
(***************************************************************************)
(* Of exec and rmdr, together: for any variables, values and number of     *)
(* assignments, what exec restores of the environment and what its child   *)
(* inherits; for any line, what exec takes from it; and for any line,      *)
(* environment and tree, the types of all three parts.                     *)
(***************************************************************************)
EXTENDS MCCommands, RemoveTreeProofs, FiniteSetTheorems

\* The string that getenv() yields as a backup, and what is put back for it.
Saved(v) == IF v = Unset THEN Empty ELSE v
PutBack(b) == IF b = Empty THEN Unset ELSE b

Once(n) == \A j, k \in Places(n) : j = k

EnvShape ==
  /\ env \in Environments /\ original \in Environments
  /\ given \in Seq(Names \X Values) /\ backup \in Seq(Values)
  /\ i \in 1 .. Len(given) + 1 /\ stage \in {"set", "restore", "done"}
  /\ Len(backup) = IF stage = "set" THEN i - 1 ELSE Len(given)
  /\ stage = "done" => i = Len(given) + 1

\* A variable the command does not assign is never touched.
OthersUntouched == \A n \in Names : Places(n) = {} => env[n] = original[n]

\* The backup of a variable assigned once is its original value,
BackupsRight ==
  \A k \in 1 .. Len(backup) : Once(NameAt(k)) => backup[k] = Saved(original[NameAt(k)])

\* because it has not changed before the loop reaches it;
UnreachedUntouched ==
  stage = "set" => \A k \in i .. Len(given) : Once(NameAt(k)) => env[NameAt(k)] = original[NameAt(k)]

\* and once the second loop has passed it, it is back.
PassedRestored ==
  stage # "set" => \A k \in 1 .. i - 1 :
    Once(NameAt(k)) => env[NameAt(k)] = PutBack(Saved(original[NameAt(k)]))

EnvInv == EnvShape /\ OthersUntouched /\ BackupsRight /\ UnreachedUntouched /\ PassedRestored
-----------------------------------------------------------------------------
\* An assignment names a variable and a value, and two assignments of a variable
\* that is assigned once are the same.
LEMMA Assigned ==
  ASSUME EnvShape, NEW k \in 1 .. Len(given)
  PROVE  /\ NameAt(k) \in Names /\ ValueAt(k) \in Values
         /\ k \in Places(NameAt(k))
         /\ \A j \in 1 .. Len(given) :
              NameAt(j) = NameAt(k) /\ Once(NameAt(k)) => j = k
<1>1. given[k] \in Names \X Values
  BY DEF EnvShape
<1> QED
  BY <1>1 DEF NameAt, ValueAt, Places, Once

\* The rounds are within the command and the backup.
LEMMA Rounds ==
  ASSUME EnvShape
  PROVE  /\ Len(given) \in Nat /\ i \in Nat \ {0} /\ i <= Len(given) + 1
         /\ Len(backup) \in Nat
         /\ stage = "set" => Len(backup) = i - 1
         /\ stage # "set" => Len(backup) = Len(given)
         /\ stage = "done" => i = Len(given) + 1
<1>1. Len(given) \in Nat /\ Len(backup) \in Nat
  BY DEF EnvShape
<1>2. i \in 1 .. Len(given) + 1
  BY DEF EnvShape
<1>3. i \in Nat \ {0} /\ i <= Len(given) + 1
  BY <1>1, <1>2
<1> QED
  BY <1>1, <1>3 DEF EnvShape

\* The environment exec finds.
LEMMA InvInit == EnvInit => EnvInv
<1> SUFFICES ASSUME EnvInit PROVE EnvInv
  OBVIOUS
<1>1. given \in Seq(Names \X Values)
  <2>1. PICK n \in 0 .. MaxVars : given \in [1 .. n -> Names \X Values]
    BY DEF EnvInit, Assignments
  <2>2. n \in Nat
    BY <2>1
  <2> QED
    BY <2>1, <2>2, SeqDef
<1>2. backup \in Seq(Values) /\ Len(backup) = 0
  BY DEF EnvInit
<1>3. Len(given) \in Nat
  BY <1>1
<1>4. EnvShape
  BY <1>1, <1>2, <1>3 DEF EnvInit, EnvShape
<1> QED
  BY <1>2, <1>4
  DEF EnvInit, EnvInv, OthersUntouched, BackupsRight, UnreachedUntouched, PassedRestored

\* The places of a variable depend on the command alone.
LEMMA SameCommand ==
  ASSUME given' = given
  PROVE  /\ \A n : Places(n)' = Places(n) /\ Once(n)' = Once(n)
         /\ \A k : NameAt(k)' = NameAt(k)
BY DEF Places, Once, NameAt

\* Setting a variable and recording what it was.
LEMMA SetKeepsInv == ASSUME EnvInv, EnvAssumption, Set PROVE EnvInv'
<1> DEFINE old == env[NameAt(i)]
<1>0. /\ i \in Nat \ {0} /\ Len(given) \in Nat /\ i <= Len(given) /\ i \in 1 .. Len(given)
      /\ Len(backup) = i - 1
  <2>1. i <= Len(given) /\ stage = "set"
    BY DEF Set
  <2>2. i \in Nat \ {0} /\ Len(given) \in Nat /\ Len(backup) = i - 1
    BY <2>1, Rounds DEF EnvInv
  <2> QED
    BY <2>1, <2>2
<1>1. /\ stage = "set" /\ stage' = stage /\ i' = i + 1 /\ given' = given /\ original' = original
      /\ backup' = Append(backup, Saved(old)) /\ env' = [env EXCEPT ![NameAt(i)] = ValueAt(i)]
  BY DEF Set, Setenv, Saved
<1>2. NameAt(i) \in Names /\ ValueAt(i) \in Values /\ i \in Places(NameAt(i))
  BY <1>0, <1>1, Assigned DEF EnvInv
<1>3. Saved(old) \in Values
  BY <1>2 DEF Saved, EnvInv, EnvShape, Environments, EnvAssumption
<1>4. /\ backup' \in Seq(Values) /\ Len(backup') = i /\ backup'[i] = Saved(old)
      /\ \A k \in 1 .. i - 1 : backup'[k] = backup[k]
  BY <1>0, <1>1, <1>3 DEF EnvInv, EnvShape
<1>5. env' \in Environments /\ env'[NameAt(i)] = ValueAt(i)
      /\ \A n \in Names : n # NameAt(i) => env'[n] = env[n]
  BY <1>0, <1>1, <1>2 DEF EnvInv, EnvShape, Environments
<1>6. EnvShape'
  BY <1>0, <1>1, <1>4, <1>5 DEF EnvInv, EnvShape
<1>7. OthersUntouched'
  BY <1>0, <1>1, <1>2, <1>5, SameCommand DEF EnvInv, OthersUntouched
<1>8. BackupsRight'
  <2> SUFFICES ASSUME NEW k \in 1 .. i, Once(NameAt(k))
               PROVE  backup'[k] = Saved(original[NameAt(k)])
    BY <1>0, <1>1, <1>4, SameCommand DEF BackupsRight, Saved
  <2>1. CASE k = i
    BY <1>0, <1>1, <1>4, <2>1 DEF EnvInv, UnreachedUntouched
  <2>2. CASE k # i
    BY <1>0, <1>1, <1>4, <2>2 DEF EnvInv, EnvShape, BackupsRight
  <2> QED
    BY <2>1, <2>2
<1>9. UnreachedUntouched'
  <2> SUFFICES ASSUME NEW k \in i + 1 .. Len(given), Once(NameAt(k))
               PROVE  env'[NameAt(k)] = original[NameAt(k)]
    BY <1>0, <1>1, SameCommand DEF UnreachedUntouched
  <2>1. k \in 1 .. Len(given) /\ k \in i .. Len(given) /\ k # i
    BY <1>0, <1>1
  <2>2. NameAt(k) # NameAt(i) /\ NameAt(k) \in Names
    BY <1>0, <1>1, <2>1, Assigned DEF EnvInv
  <2>3. env[NameAt(k)] = original[NameAt(k)]
    BY <1>0, <1>1, <2>1 DEF EnvInv, UnreachedUntouched
  <2> QED
    BY <1>5, <2>2, <2>3
<1> QED
  BY <1>0, <1>1, <1>6, <1>7, <1>8, <1>9 DEF EnvInv, PassedRestored

\* Putting one variable back.
LEMMA RestoreKeepsInv == ASSUME EnvInv, EnvAssumption, Restore PROVE EnvInv'
<1>0. /\ i \in Nat \ {0} /\ Len(given) \in Nat /\ i <= Len(given) /\ i \in 1 .. Len(given)
      /\ Len(backup) = Len(given)
  <2>1. i <= Len(given) /\ stage = "restore"
    BY DEF Restore
  <2>2. i \in Nat \ {0} /\ Len(given) \in Nat /\ Len(backup) = Len(given)
    BY <2>1, Rounds DEF EnvInv
  <2> QED
    BY <2>1, <2>2
<1>1. /\ stage = "restore" /\ stage' = stage /\ i' = i + 1 /\ given' = given
      /\ original' = original /\ backup' = backup
      /\ env' = [env EXCEPT ![NameAt(i)] = PutBack(backup[i])]
  BY DEF Restore, PutBack
<1>2. NameAt(i) \in Names /\ i \in Places(NameAt(i)) /\ Len(backup) = Len(given)
  BY <1>0, <1>1, Assigned DEF EnvInv, EnvShape
<1>3. PutBack(backup[i]) \in Values \cup {Unset}
  BY <1>0, <1>1, <1>2 DEF PutBack, EnvInv, EnvShape
<1>4. env' \in Environments /\ env'[NameAt(i)] = PutBack(backup[i])
      /\ \A n \in Names : n # NameAt(i) => env'[n] = env[n]
  BY <1>0, <1>1, <1>2, <1>3 DEF EnvInv, EnvShape, Environments
<1>5. EnvShape'
  BY <1>0, <1>1, <1>2, <1>4 DEF EnvInv, EnvShape
<1>6. OthersUntouched'
  BY <1>0, <1>1, <1>2, <1>4, SameCommand DEF EnvInv, OthersUntouched
<1>7. BackupsRight'
  BY <1>0, <1>1, SameCommand DEF EnvInv, BackupsRight, Saved
<1>8. PassedRestored'
  <2> SUFFICES ASSUME NEW k \in 1 .. i, Once(NameAt(k))
               PROVE  env'[NameAt(k)] = PutBack(Saved(original[NameAt(k)]))
    BY <1>0, <1>1, SameCommand DEF PassedRestored, PutBack, Saved
  <2>1. CASE k = i
    <3>1. backup[i] = Saved(original[NameAt(i)])
      BY <1>0, <1>1, <1>2, <2>1 DEF EnvInv, BackupsRight
    <3> QED
      BY <1>4, <2>1, <3>1
  <2>2. CASE k # i
    <3>1. k \in 1 .. Len(given) /\ k \in 1 .. i - 1
      BY <1>0, <1>1, <2>2
    <3>2. NameAt(k) # NameAt(i) /\ NameAt(k) \in Names
      BY <1>0, <1>1, <2>2, <3>1, Assigned DEF EnvInv
    <3>3. env[NameAt(k)] = PutBack(Saved(original[NameAt(k)]))
      BY <1>0, <1>1, <3>1 DEF EnvInv, PassedRestored
    <3> QED
      BY <1>4, <3>2, <3>3
  <2> QED
    BY <2>1, <2>2
<1> QED
  BY <1>0, <1>1, <1>5, <1>6, <1>7, <1>8 DEF EnvInv, UnreachedUntouched

\* Launching the subprocess, and the end.
LEMMA LaunchKeepsInv == ASSUME EnvInv, Launch \/ Finish PROVE EnvInv'
<1>1. /\ Len(given) \in Nat /\ i = Len(given) + 1 /\ UNCHANGED <<env, given, backup, original>>
      /\ \/ stage = "set" /\ stage' = "restore" /\ i' = 1
         \/ stage = "restore" /\ stage' = "done" /\ i' = i
  BY DEF Launch, Finish, EnvInv, EnvShape
<1>2. EnvShape'
  BY <1>1 DEF EnvInv, EnvShape
<1>3. OthersUntouched' /\ BackupsRight'
  BY <1>1, SameCommand DEF EnvInv, OthersUntouched, BackupsRight, Saved
<1>4. PassedRestored'
  BY <1>1, SameCommand DEF EnvInv, PassedRestored, PutBack, Saved
<1> QED
  BY <1>1, <1>2, <1>3, <1>4 DEF EnvInv, UnreachedUntouched

\* The inductive invariant behind the theorem.
LEMMA InvAlways == EnvSpec => []EnvInv
<1>1. EnvInv /\ [EnvNext]_envVars => EnvInv'
  <2> SUFFICES ASSUME EnvInv, [EnvNext]_envVars PROVE EnvInv'
    OBVIOUS
  <2>1. CASE UNCHANGED envVars
    <3>1. UNCHANGED <<env, given, backup, i, stage, original>>
      BY <2>1 DEF envVars
    <3> QED
      BY <3>1, SameCommand
      DEF EnvInv, EnvShape, OthersUntouched, BackupsRight, UnreachedUntouched, PassedRestored,
          Saved, PutBack
  <2> QED
    BY <2>1, SetKeepsInv, RestoreKeepsInv, LaunchKeepsInv, EnvAssumption DEF EnvNext
<1> QED
  BY <1>1, InvInit, PTL DEF EnvSpec
-----------------------------------------------------------------------------
(***************************************************************************)
(* What the subprocess sees.                                               *)
(***************************************************************************)
\* An environment in which the first m assignments have been made: the last one
\* of a variable counts.
Holds(e, m) ==
  /\ \A n \in Names : (\A k \in 1 .. m : NameAt(k) # n) => e[n] = original[n]
  /\ \A k \in 1 .. m :
       (\A j \in 1 .. m : NameAt(j) = NameAt(k) => j <= k) => e[NameAt(k)] = ValueAt(k)

ChildInv == IF stage = "set" THEN Holds(env, i - 1) ELSE Holds(child, Len(given))

\* One more assignment.
LEMMA SetHolds == ASSUME EnvInv, ChildInv, Set PROVE Holds(env', i)
<1>1. /\ i \in Nat \ {0} /\ i \in 1 .. Len(given) /\ stage = "set"
  <2>1. i <= Len(given) /\ stage = "set"
    BY DEF Set
  <2> QED
    BY <2>1, Rounds DEF EnvInv
<1>2. Holds(env, i - 1)
  BY <1>1 DEF ChildInv
<1>3. NameAt(i) \in Names
  BY <1>1, Assigned DEF EnvInv
<1>4. env'[NameAt(i)] = ValueAt(i) /\ \A n \in Names : n # NameAt(i) => env'[n] = env[n]
  BY <1>3 DEF Set, Setenv, EnvInv, EnvShape, Environments
<1>5. ASSUME NEW n \in Names, \A k \in 1 .. i : NameAt(k) # n
      PROVE  env'[n] = original[n]
  BY <1>1, <1>2, <1>4, <1>5 DEF Holds
<1>6. ASSUME NEW k \in 1 .. i, \A j \in 1 .. i : NameAt(j) = NameAt(k) => j <= k
      PROVE  env'[NameAt(k)] = ValueAt(k)
  <2>1. CASE k = i
    BY <1>4, <2>1
  <2>2. CASE k # i
    <3>1. k \in 1 .. i - 1 /\ k \in 1 .. Len(given) /\ NameAt(k) # NameAt(i)
      BY <1>1, <1>6, <2>2
    <3>2. NameAt(k) \in Names
      BY <3>1, Assigned DEF EnvInv
    <3>3. env[NameAt(k)] = ValueAt(k)
      BY <1>1, <1>2, <1>6, <3>1 DEF Holds
    <3> QED
      BY <1>4, <3>1, <3>2, <3>3
  <2> QED
    BY <2>1, <2>2
<1> QED
  BY <1>5, <1>6 DEF Holds

\* The child's environment is that of the first loop at its end.
LEMMA ChildInvAlways == EnvSpec => []ChildInv
<1>1. EnvInit => ChildInv
  BY DEF EnvInit, ChildInv, Holds
<1>2. EnvInv /\ ChildInv /\ [EnvNext]_envVars => ChildInv'
  <2> SUFFICES ASSUME EnvInv, ChildInv, [EnvNext]_envVars PROVE ChildInv'
    OBVIOUS
  <2>1. CASE Set
    <3>1. /\ stage = "set" /\ stage' = stage /\ i' = i + 1 /\ i \in Nat
          /\ given' = given /\ original' = original
      BY <2>1, Rounds DEF Set, EnvInv
    <3>2. i' - 1 = i
      BY <3>1
    <3>3. Holds(env', i)
      BY <2>1, SetHolds
    <3> QED
      BY <3>1, <3>2, <3>3 DEF ChildInv, Holds, NameAt, ValueAt
  <2>2. CASE Launch
    <3>1. /\ stage = "set" /\ stage' = "restore" /\ child' = env
          /\ given' = given /\ original' = original /\ i - 1 = Len(given)
      BY <2>2, Rounds DEF Launch, EnvInv
    <3> QED
      BY <3>1 DEF ChildInv, Holds, NameAt, ValueAt
  <2>3. CASE Restore \/ Finish
    <3>1. /\ stage # "set" /\ stage' # "set"
          /\ UNCHANGED <<given, original, child>>
      BY <2>3 DEF Restore, Finish
    <3> QED
      BY <3>1 DEF ChildInv, Holds, NameAt, ValueAt
  <2>4. CASE UNCHANGED envVars
    <3>1. UNCHANGED <<env, given, i, stage, original, child>>
      BY <2>4 DEF envVars
    <3> QED
      BY <3>1 DEF ChildInv, Holds, NameAt, ValueAt
  <2> QED
    BY <2>1, <2>2, <2>3, <2>4 DEF EnvNext
<1> QED
  BY <1>1, <1>2, InvAlways, PTL DEF EnvSpec

\* A set of naturals below a bound has a largest element.
LEMMA LargestOf ==
  ASSUME NEW m \in Nat, NEW S \in SUBSET (1 .. m), S # {}
  PROVE  \E k \in S : \A j \in S : j <= k
<1> DEFINE R == OpToRel(<, Nat)
           D == {m - k : k \in S}
<1>1. IsWellFoundedOn(R, Nat)
  BY NatLessThanWellFounded
<1>2. \A x, y \in Nat : <<x, y>> \in R <=> x < y
  BY DEF OpToRel
<1>3. \A k \in S : k \in Nat /\ k <= m /\ m - k \in Nat /\ m - k \in D
  OBVIOUS
<1>4. D \in SUBSET Nat /\ D # {}
  BY <1>3
<1> HIDE DEF R
<1>5. PICK d \in D : \A e \in D : ~ (<<e, d>> \in R)
  <2> HIDE DEF D
  <2> QED
    BY <1>1, <1>4, WFMin
<1>6. PICK k \in S : d = m - k
  BY <1>5
<1>7. \A j \in S : ~ (m - j < d)
  BY <1>2, <1>3, <1>4, <1>5
<1>8. \A j \in S : j <= k
  BY <1>3, <1>6, <1>7
<1> QED
  BY <1>8

\* The subprocess of exec inherits the last value given to each variable, and
\* every other variable as the agent has it.
THEOREM ChildInherits == EnvSpec => []ChildSeesAssignments
<1>1. EnvInv /\ ChildInv => ChildSeesAssignments
  <2> SUFFICES ASSUME EnvInv, Holds(child, Len(given)), NEW n \in Names
               PROVE  child[n] = IF Places(n) = {} THEN original[n]
                        ELSE ValueAt(CHOOSE k \in Places(n) : \A j \in Places(n) : j <= k)
    BY DEF ChildSeesAssignments, ChildInv
  <2>1. CASE Places(n) = {}
    BY <2>1 DEF Holds, Places
  <2>2. CASE Places(n) # {}
    <3> DEFINE IsLast(k) == \A j \in Places(n) : j <= k
               last == CHOOSE k \in Places(n) : IsLast(k)
    <3>1. \E k \in Places(n) : IsLast(k)
      <4>1. Len(given) \in Nat /\ Places(n) \in SUBSET (1 .. Len(given))
        BY Rounds DEF EnvInv, Places
      <4> QED
        BY <2>2, <4>1, LargestOf
    <3>2. last \in Places(n) /\ IsLast(last)
      BY <3>1
    <3>3. child[n] = ValueAt(last)
      BY <3>2 DEF Holds, Places
    <3> QED
      BY <2>2, <3>3
  <2> QED
    BY <2>1, <2>2
<1> QED
  BY <1>1, InvAlways, ChildInvAlways, PTL
-----------------------------------------------------------------------------
\* exec puts back every variable that its command assigns at most once and that
\* was not empty.
THEOREM RestoresEnvironment == EnvSpec => []RestoredIfAssignedOnce
<1>1. EnvInv => RestoredIfAssignedOnce
  <2> SUFFICES ASSUME EnvInv, stage = "done", NEW n \in Names,
                      \A j, k \in Places(n) : j = k, original[n] # Empty
               PROVE  env[n] = original[n]
    BY DEF RestoredIfAssignedOnce
  <2>1. CASE Places(n) = {}
    BY <2>1 DEF EnvInv, OthersUntouched
  <2>2. CASE Places(n) # {}
    <3>1. PICK k \in 1 .. Len(given) : NameAt(k) = n
      BY <2>2 DEF Places
    <3>2. env[n] = PutBack(Saved(original[n]))
      BY <3>1 DEF EnvInv, EnvShape, PassedRestored, Once
    <3> QED
      BY <3>2 DEF PutBack, Saved
  <2> QED
    BY <2>1, <2>2
<1> QED
  BY <1>1, InvAlways, PTL
-----------------------------------------------------------------------------
(***************************************************************************)
(* The words of a line and the items of a list: strtok() takes one run of  *)
(* characters after the other.                                             *)
(***************************************************************************)
\* r is what is behind the first p characters of s, which end with a delimiter
\* if they are neither none nor all.
Behind(s, c, p, r) ==
  /\ Len(r) = Len(s) - p /\ \A k \in 1 .. Len(r) : r[k] = s[p + k]
  /\ p = 0 \/ p = Len(s) \/ s[p] = c

\* The starts of runs up to p.
UpTo(s, c, p) == {j \in Starts(s, c) : j <= p}

\* strtok() has taken n runs of s, and r is where it goes on.
Reached(s, c, r, n) ==
  \E p \in 0 .. Len(s) : Behind(s, c, p, r) /\ Cardinality(UpTo(s, c, p)) = n

\* Where the next token begins and ends.
LEMMA TokenAt ==
  ASSUME NEW s \in Strings, NEW c, HasToken(s, c)
  PROVE  /\ From(s, c) \in 1 .. Len(s) /\ s[From(s, c)] # c
         /\ \A j \in 1 .. From(s, c) - 1 : s[j] = c
         /\ Until(s, c) \in From(s, c) + 1 .. Len(s) + 1
         /\ Until(s, c) <= Len(s) => s[Until(s, c)] = c
         /\ \A j \in From(s, c) .. Until(s, c) - 1 : s[j] # c
<1> DEFINE N == NonDelimiters(s, c)
           D == {k \in From(s, c) .. Len(s) : s[k] = c} \cup {Len(s) + 1}
<1>1. Len(s) \in Nat /\ DOMAIN s = 1 .. Len(s)
  BY DEF Strings
<1>2. N \in SUBSET Nat /\ N # {} /\ N = {k \in 1 .. Len(s) : s[k] # c}
  BY <1>1 DEF HasToken, NonDelimiters
<1>3. From(s, c) \in N /\ \A j \in N : From(s, c) <= j
  <2>1. \E k \in N : \A j \in N : k <= j
    BY <1>2, SmallestOf
  <2> QED
    BY <2>1 DEF From, Smallest
<1>4. From(s, c) \in 1 .. Len(s) /\ s[From(s, c)] # c
  BY <1>2, <1>3
<1>5. \A j \in 1 .. From(s, c) - 1 : s[j] = c
  <2> SUFFICES ASSUME NEW j \in 1 .. From(s, c) - 1, s[j] # c PROVE FALSE
    OBVIOUS
  <2>1. j \in N /\ j < From(s, c)
    BY <1>1, <1>2, <1>4
  <2> QED
    BY <2>1, <1>3, <1>4
<1>6. D \in SUBSET Nat /\ D # {}
  BY <1>1, <1>4
<1>7. Until(s, c) \in D /\ \A j \in D : Until(s, c) <= j
  <2>1. \E k \in D : \A j \in D : k <= j
    BY <1>6, SmallestOf
  <2> QED
    BY <2>1 DEF Until, Smallest
<1>8. Until(s, c) \in From(s, c) .. Len(s) + 1 /\ (Until(s, c) <= Len(s) => s[Until(s, c)] = c)
  BY <1>1, <1>4, <1>7
<1>9. Until(s, c) # From(s, c)
  BY <1>1, <1>4, <1>8
<1>10. \A j \in From(s, c) .. Until(s, c) - 1 : s[j] # c
  <2> SUFFICES ASSUME NEW j \in From(s, c) .. Until(s, c) - 1, s[j] = c PROVE FALSE
    OBVIOUS
  <2>1. j \in D /\ j < Until(s, c)
    BY <1>1, <1>4, <1>8
  <2> QED
    BY <2>1, <1>1, <1>4, <1>7, <1>8
<1> QED
  BY <1>1, <1>4, <1>5, <1>8, <1>9, <1>10

\* There are finitely many starts.
LEMMA StartsFinite ==
  ASSUME NEW s \in Strings, NEW c
  PROVE  /\ Starts(s, c) \in SUBSET (1 .. Len(s)) /\ IsFiniteSet(Starts(s, c))
         /\ Cardinality(Starts(s, c)) \in Nat
         /\ \A a : IsFiniteSet(UpTo(s, c, a)) /\ Cardinality(UpTo(s, c, a)) \in Nat
<1>1. Len(s) \in Nat /\ DOMAIN s = 1 .. Len(s)
  BY DEF Strings
<1>2. Starts(s, c) \in SUBSET (1 .. Len(s))
  BY <1>1 DEF Starts
<1>3. IsFiniteSet(Starts(s, c))
  <2>1. IsFiniteSet(1 .. Len(s))
    BY <1>1, FS_Interval
  <2> QED
    BY <2>1, <1>2, FS_Subset
<1>4. \A a : IsFiniteSet(UpTo(s, c, a))
  BY <1>3, FS_Subset DEF UpTo
<1> QED
  BY <1>2, <1>3, <1>4, FS_CardinalityType

\* There are as many runs as starts.
LEMMA RunsLen ==
  ASSUME NEW s \in Strings, NEW c
  PROVE  Len(Runs(s, c)) = Cardinality(Starts(s, c))
<1> DEFINE n == Cardinality(Starts(s, c))
           R == {Runs(s, c)[k] : k \in 1 .. n}
<1>1. n \in Nat
  BY StartsFinite
<1>2. Runs(s, c) \in [1 .. n -> R]
  BY DEF Runs
<1> HIDE DEF n, R
<1>3. Runs(s, c) \in Seq(R)
  BY <1>1, <1>2, SeqDef
<1>4. 1 .. Len(Runs(s, c)) = 1 .. n /\ Len(Runs(s, c)) \in Nat
  BY <1>2, <1>3, LenProperties
<1> QED
  BY <1>1, <1>4 DEF n

\* A start is that of the run of its number.
LEMMA StartIs ==
  ASSUME NEW s \in Strings, NEW c, NEW a \in Starts(s, c)
  PROVE  Start(s, c, Cardinality(UpTo(s, c, a))) = a
<1>1. Starts(s, c) \in SUBSET (1 .. Len(s)) /\ Len(s) \in Nat
  BY StartsFinite DEF Strings
<1>2. \A x, y \in Starts(s, c) :
        x < y => Cardinality(UpTo(s, c, x)) < Cardinality(UpTo(s, c, y))
  <2> SUFFICES ASSUME NEW x \in Starts(s, c), NEW y \in Starts(s, c), x < y
               PROVE  Cardinality(UpTo(s, c, x)) < Cardinality(UpTo(s, c, y))
    OBVIOUS
  <2>1. UpTo(s, c, x) \in SUBSET UpTo(s, c, y) /\ UpTo(s, c, x) # UpTo(s, c, y)
    BY <1>1 DEF UpTo
  <2>2. Cardinality(UpTo(s, c, x)) <= Cardinality(UpTo(s, c, y))
        /\ Cardinality(UpTo(s, c, x)) # Cardinality(UpTo(s, c, y))
    BY <2>1, StartsFinite, FS_Subset
  <2> QED
    BY <2>2, StartsFinite
<1>3. \A x \in Starts(s, c) : Cardinality(UpTo(s, c, x)) = Cardinality(UpTo(s, c, a)) => x = a
  <2> SUFFICES ASSUME NEW x \in Starts(s, c), x # a,
                      Cardinality(UpTo(s, c, x)) = Cardinality(UpTo(s, c, a))
               PROVE  FALSE
    OBVIOUS
  <2>1. x < a \/ a < x
    BY <1>1
  <2> QED
    BY <2>1, <1>2, StartsFinite
<1> QED
  BY <1>3 DEF Start, UpTo

\* A run ends where the next delimiter, or the end, is.
LEMMA StopIs ==
  ASSUME NEW s \in Strings, NEW c, NEW a \in 1 .. Len(s), NEW e \in a .. Len(s),
         \A k \in a .. e : s[k] # c, e < Len(s) => s[e + 1] = c
  PROVE  Stop(s, c, a) = e
<1>1. Len(s) \in Nat
  BY DEF Strings
<1> DEFINE EndsRun(j) == (\A k \in a .. j : s[k] # c) /\ (j < Len(s) => s[j + 1] = c)
<1>2. EndsRun(e)
  OBVIOUS
<1>3. \A j \in a .. Len(s) : EndsRun(j) => j = e
  <2> SUFFICES ASSUME NEW j \in a .. Len(s), EndsRun(j), j # e PROVE FALSE
    OBVIOUS
  <2>1. CASE j < e
    <3>1. j + 1 \in a .. e /\ j < Len(s)
      BY <2>1, <1>1
    <3> QED
      BY <3>1
  <2>2. CASE e < j
    <3>1. e + 1 \in a .. j /\ e < Len(s)
      BY <2>2, <1>1
    <3> QED
      BY <3>1
  <2> QED
    BY <2>1, <2>2, <1>1
<1>4. Stop(s, c, a) = CHOOSE j \in a .. Len(s) : EndsRun(j)
  BY DEF Stop
<1> HIDE DEF EndsRun
<1> QED
  BY <1>2, <1>3, <1>4

\* What strtok() cuts out next is the next run, and it goes on behind it.
LEMMA NextRun ==
  ASSUME NEW s \in Strings, NEW c, NEW r \in Strings, NEW n \in Nat,
         Reached(s, c, r, n), HasToken(r, c)
  PROVE  /\ n + 1 \in 1 .. Len(Runs(s, c)) /\ Runs(s, c)[n + 1] = Token(r, c)
         /\ Token(r, c) \in Strings /\ Token(r, c) # <<>>
         /\ After(r, c) \in Strings /\ Reached(s, c, After(r, c), n + 1)
<1>1. Len(s) \in Nat /\ DOMAIN s = 1 .. Len(s) /\ Len(r) \in Nat /\ DOMAIN r = 1 .. Len(r)
  BY DEF Strings
<1>2. PICK p \in 0 .. Len(s) : Behind(s, c, p, r) /\ Cardinality(UpTo(s, c, p)) = n
  BY DEF Reached
<1> DEFINE f == From(r, c)
           u == Until(r, c)
           a == p + f
           q == IF u <= Len(r) THEN p + u ELSE Len(s)
<1>3. /\ f \in 1 .. Len(r) /\ r[f] # c /\ \A j \in 1 .. f - 1 : r[j] = c
      /\ u \in f + 1 .. Len(r) + 1 /\ (u <= Len(r) => r[u] = c)
      /\ \A j \in f .. u - 1 : r[j] # c
  BY TokenAt
<1>4. Len(r) = Len(s) - p /\ \A k \in 1 .. Len(r) : r[k] = s[p + k]
  BY <1>2 DEF Behind
<1> HIDE DEF f, u
<1>n. /\ Len(s) \in Nat /\ Len(r) \in Nat /\ p \in Nat /\ f \in Nat /\ u \in Nat
      /\ Len(s) = p + Len(r) /\ 1 <= f /\ f < u /\ u <= Len(r) + 1
  BY <1>1, <1>3, <1>4
<1>5. /\ a \in 1 .. Len(s) /\ s[a] # c /\ \A j \in p + 1 .. a - 1 : s[j] = c
      /\ p + u - 1 \in a .. Len(s) /\ \A j \in a .. p + u - 1 : s[j] # c
      /\ p + u - 1 < Len(s) => s[p + u] = c
  <2>1. \A j \in p + 1 .. Len(s) : j - p \in 1 .. Len(r) /\ r[j - p] = s[j]
    <3> SUFFICES ASSUME NEW j \in p + 1 .. Len(s)
                 PROVE  j - p \in 1 .. Len(r) /\ r[j - p] = s[j]
      OBVIOUS
    <3>1. j - p \in 1 .. Len(r) /\ p + (j - p) = j
      BY <1>1, <1>4
    <3> QED
      BY <3>1, <1>4
  <2>2. a \in 1 .. Len(s) /\ a \in p + 1 .. Len(s) /\ a - p = f
    BY <1>1, <1>3, <1>4
  <2>3. s[a] # c
    BY <2>1, <2>2, <1>3
  <2>4. \A j \in p + 1 .. a - 1 : s[j] = c
    <3> TAKE j \in p + 1 .. a - 1
    <3>1. j \in p + 1 .. Len(s) /\ j - p \in 1 .. f - 1
      BY <2>2, <1>1
    <3> QED
      BY <3>1, <2>1, <1>3
  <2>5. p + u - 1 \in a .. Len(s)
    BY <1>1, <1>3, <1>4
  <2>6. \A j \in a .. p + u - 1 : s[j] # c
    <3> TAKE j \in a .. p + u - 1
    <3>1. j \in p + 1 .. Len(s) /\ j - p \in f .. u - 1
      BY <2>2, <2>5, <1>1, <1>3
    <3> QED
      BY <3>1, <2>1, <1>3
  <2>7. p + u - 1 < Len(s) => s[p + u] = c
    <3> HAVE p + u - 1 < Len(s)
    <3>1. p + u \in p + 1 .. Len(s) /\ (p + u) - p = u /\ u <= Len(r)
      BY <1>1, <1>3, <1>4
    <3> QED
      BY <3>1, <2>1, <1>3
  <2> QED
    BY <2>2, <2>3, <2>4, <2>5, <2>6, <2>7
<1>6. a \in Starts(s, c)
  <2>1. a > 1 => s[a - 1] = c
    <3> HAVE a > 1
    <3>1. CASE f > 1
      BY <3>1, <1>1, <1>3, <1>5
    <3>2. CASE f = 1
      <4>1. p # 0 /\ p # Len(s)
        BY <3>2, <1>n
      <4>2. s[p] = c /\ a - 1 = p
        BY <4>1, <3>2, <1>2 DEF Behind
      <4> QED
        BY <4>2
    <3> QED
      BY <3>1, <3>2, <1>3
  <2> QED
    BY <2>1, <1>1, <1>5 DEF Starts
<1>7. Stop(s, c, a) = p + u - 1
  BY <1>1, <1>3, <1>5, StopIs
<1>8. UpTo(s, c, a) = UpTo(s, c, p) \cup {a} /\ a \notin UpTo(s, c, p)
  <2>1. \A j \in Starts(s, c) : j \in 1 .. Len(s) /\ s[j] # c
    BY <1>1 DEF Starts
  <2>2. \A j \in Starts(s, c) : j <= a => j <= p \/ j = a
    BY <2>1, <1>1, <1>5
  <2>3. p < a
    BY <1>1, <1>3
  <2> QED
    BY <2>1, <2>2, <2>3, <1>1, <1>6 DEF UpTo
<1>9. UpTo(s, c, q) = UpTo(s, c, a)
  <2>1. \A j \in Starts(s, c) : j \in 1 .. Len(s) /\ s[j] # c /\ (j > 1 => s[j - 1] = c)
    BY <1>1 DEF Starts
  <2>2. a <= q /\ q \in 0 .. Len(s)
    BY <1>1, <1>3, <1>4, <1>5
  <2>3. \A j \in Starts(s, c) : j <= q => j <= a
    <3> SUFFICES ASSUME NEW j \in Starts(s, c), j <= q, a < j PROVE FALSE
      BY <2>1, <1>5
    <3>1. j \in 1 .. Len(s) /\ s[j - 1] = c /\ s[j] # c
      BY <2>1, <1>5
    <3>2. j - 1 \in a .. p + u - 1
      BY <3>1, <1>n
    <3> QED
      BY <3>1, <3>2, <1>5
  <2> QED
    BY <2>1, <2>2, <2>3, <1>5 DEF UpTo
<1>10. Cardinality(UpTo(s, c, a)) = n + 1
  BY <1>2, <1>8, StartsFinite, FS_AddElement
<1>11. n + 1 \in 1 .. Cardinality(Starts(s, c))
  <2>1. UpTo(s, c, a) \in SUBSET Starts(s, c)
    BY DEF UpTo
  <2>2. Cardinality(UpTo(s, c, a)) <= Cardinality(Starts(s, c))
    BY <2>1, StartsFinite, FS_Subset
  <2> QED
    BY <2>2, <1>10, StartsFinite
<1>12. Runs(s, c)[n + 1] = SubSeq(s, a, p + u - 1)
  <2>1. Start(s, c, n + 1) = a
    BY <1>6, <1>10, StartIs
  <2> QED
    BY <2>1, <1>7, <1>11 DEF Runs
<1>13. /\ Token(r, c) \in Strings /\ Len(Token(r, c)) = u - f
       /\ \A k \in 1 .. u - f : Token(r, c)[k] = r[f + k - 1]
  <2>1. Token(r, c) = SubSeq(r, f, u - 1)
    BY DEF Token, f, u
  <2>2. \A k \in f .. u - 1 : r[k] \in Characters
    BY <1>n DEF Strings
  <2>3. f \in Int /\ u - 1 \in Int /\ f <= u - 1 /\ (u - 1) - f + 1 = u - f
    BY <1>n
  <2> QED
    BY <2>1, <2>2, <2>3, SubSeqProperties DEF Strings
<1>14. Token(r, c) = SubSeq(s, a, p + u - 1)
  <2>1. \A k \in a .. p + u - 1 : s[k] \in Characters
    BY <1>n DEF Strings
  <2>2. a \in Int /\ p + u - 1 \in Int /\ a <= p + u - 1 /\ (p + u - 1) - a + 1 = u - f
    BY <1>n
  <2>3. /\ SubSeq(s, a, p + u - 1) \in Strings /\ Len(SubSeq(s, a, p + u - 1)) = u - f
        /\ \A k \in 1 .. u - f : SubSeq(s, a, p + u - 1)[k] = s[a + k - 1]
    BY <2>1, <2>2, SubSeqProperties DEF Strings
  <2>4. \A k \in 1 .. u - f : SubSeq(s, a, p + u - 1)[k] = Token(r, c)[k]
    <3> TAKE k \in 1 .. u - f
    <3>1. f + k - 1 \in 1 .. Len(r) /\ a + k - 1 = p + (f + k - 1)
      BY <1>n
    <3> QED
      BY <3>1, <2>3, <1>4, <1>13
  <2> QED
    BY <2>3, <2>4, <1>13, SeqEqual DEF Strings
<1>15. /\ After(r, c) \in Strings
       /\ Len(After(r, c)) = Len(s) - q
       /\ \A k \in 1 .. Len(After(r, c)) : After(r, c)[k] = s[q + k]
  <2>1. After(r, c) = SubSeq(r, u + 1, Len(r))
    BY DEF After, u
  <2>2. \A k \in u + 1 .. Len(r) : r[k] \in Characters
    BY <1>n DEF Strings
  <2>3. u + 1 \in Int /\ Len(r) \in Int
    BY <1>n
  <2>4. /\ After(r, c) \in Strings
        /\ Len(After(r, c)) = IF u + 1 <= Len(r) THEN Len(r) - (u + 1) + 1 ELSE 0
        /\ \A k \in 1 .. Len(r) - (u + 1) + 1 : After(r, c)[k] = r[u + 1 + k - 1]
    BY <2>1, <2>2, <2>3, SubSeqProperties DEF Strings
  <2>5. Len(After(r, c)) = Len(s) - q
    <3>1. Len(After(r, c)) = IF u + 1 <= Len(r) THEN Len(r) - (u + 1) + 1 ELSE 0
      BY <2>4
    <3>2. CASE u + 1 <= Len(r)
      <4>1. q = p + u
        BY <3>2, <1>n
      <4> QED
        BY <4>1, <3>1, <3>2, <1>n
    <3>3. CASE ~(u + 1 <= Len(r))
      <4>1. q = Len(s)
        BY <3>3, <1>n
      <4> QED
        BY <4>1, <3>1, <3>3, <1>n
    <3> QED
      BY <3>2, <3>3
  <2>6. \A k \in 1 .. Len(After(r, c)) : After(r, c)[k] = s[q + k]
    <3> TAKE k \in 1 .. Len(After(r, c))
    <3>1. u + 1 <= Len(r)
      BY <2>4, <1>n
    <3>2. k \in 1 .. Len(r) - (u + 1) + 1
      BY <3>1, <2>4
    <3>3. u + k \in 1 .. Len(r) /\ p + (u + k) = q + k /\ u + 1 + k - 1 = u + k
      BY <3>1, <3>2, <1>n
    <3>4. After(r, c)[k] = r[u + k]
      BY <3>2, <3>3, <2>4
    <3> QED
      BY <3>3, <3>4, <1>4
  <2> QED
    BY <2>4, <2>5, <2>6
<1>16. Reached(s, c, After(r, c), n + 1)
  <2>1. q \in 0 .. Len(s) /\ (q = Len(s) \/ s[q] = c)
    <3>1. CASE u <= Len(r)
      <4>1. p + u - 1 < Len(s) /\ p + u \in 0 .. Len(s)
        BY <3>1, <1>n
      <4> QED
        BY <4>1, <3>1, <1>5
    <3>2. CASE ~(u <= Len(r))
      BY <3>2, <1>n
    <3> QED
      BY <3>1, <3>2
  <2>2. Behind(s, c, q, After(r, c)) /\ Cardinality(UpTo(s, c, q)) = n + 1
    BY <2>1, <1>9, <1>10, <1>15 DEF Behind
  <2> QED
    BY <2>1, <2>2 DEF Reached
<1>17. Len(Runs(s, c)) = Cardinality(Starts(s, c))
  BY RunsLen
<1>18. Token(r, c) # <<>>
  BY <1>13, <1>n
<1> QED
  BY <1>11, <1>12, <1>13, <1>14, <1>15, <1>16, <1>17, <1>18

\* When strtok() finds no more, there is no more.
LEMMA LastRun ==
  ASSUME NEW s \in Strings, NEW c, NEW r \in Strings, NEW n,
         Reached(s, c, r, n), ~HasToken(r, c)
  PROVE  n = Len(Runs(s, c))
<1>1. Len(s) \in Nat /\ DOMAIN s = 1 .. Len(s) /\ Len(r) \in Nat /\ DOMAIN r = 1 .. Len(r)
  BY DEF Strings
<1>2. PICK p \in 0 .. Len(s) : Behind(s, c, p, r) /\ Cardinality(UpTo(s, c, p)) = n
  BY DEF Reached
<1>3. \A k \in 1 .. Len(s) - p : s[p + k] = c
  BY <1>1, <1>2 DEF Behind, HasToken, NonDelimiters
<1>4. \A j \in Starts(s, c) : j <= p
  <2> SUFFICES ASSUME NEW j \in Starts(s, c), ~(j <= p) PROVE FALSE
    OBVIOUS
  <2>1. j \in 1 .. Len(s) /\ s[j] # c
    BY <1>1 DEF Starts
  <2>2. j - p \in 1 .. Len(s) - p /\ p + (j - p) = j
    BY <2>1, <1>1
  <2> QED
    BY <2>1, <2>2, <1>3
<1>5. UpTo(s, c, p) = Starts(s, c)
  BY <1>4 DEF UpTo
<1> QED
  BY <1>2, <1>5, RunsLen

\* At first strtok() has taken nothing.
LEMMA ReachedFirst ==
  ASSUME NEW s \in Strings, NEW c
  PROVE  Reached(s, c, s, 0)
<1>1. Len(s) \in Nat /\ DOMAIN s = 1 .. Len(s)
  BY DEF Strings
<1>2. UpTo(s, c, 0) = {}
  BY <1>1 DEF UpTo, Starts
<1>3. Cardinality(UpTo(s, c, 0)) = 0
  BY <1>2, FS_EmptySet
<1>4. Behind(s, c, 0, s) /\ 0 \in 0 .. Len(s)
  BY <1>1 DEF Behind
<1> QED
  BY <1>3, <1>4 DEF Reached

\* What strtok() cuts out is not empty.
LEMMA TokenTypes ==
  ASSUME NEW r \in Strings, NEW c, HasToken(r, c)
  PROVE  Token(r, c) \in Strings /\ Token(r, c) # <<>> /\ After(r, c) \in Strings
BY ReachedFirst, NextRun

\* Two sequences of the same runs are the same.
LEMMA RunsAre ==
  ASSUME NEW s \in Strings, NEW c, NEW ws \in Seq(Strings), Len(ws) = Len(Runs(s, c)),
         \A k \in 1 .. Len(ws) : ws[k] = Runs(s, c)[k]
  PROVE  ws = Runs(s, c)
<1> DEFINE n == Cardinality(Starts(s, c))
<1>1. n \in Nat /\ Len(ws) = n
  BY StartsFinite, RunsLen
<1>2. DOMAIN Runs(s, c) = 1 .. n /\ Runs(s, c) = [k \in 1 .. n |-> Runs(s, c)[k]]
  BY DEF Runs
<1>3. DOMAIN ws = 1 .. n /\ ws = [k \in 1 .. n |-> ws[k]]
  BY <1>1
<1> HIDE DEF n
<1> QED
  BY <1>1, <1>2, <1>3
-----------------------------------------------------------------------------
(***************************************************************************)
(* What exec has taken from a well-formed line.                            *)
(***************************************************************************)
Items == Runs(Plain, Comma)

\* The first words,
WordsTaken ==
  /\ Reached(line, Blank, rest, Len(args)) /\ Len(args) <= Len(Words)
  /\ \A k \in 1 .. Len(args) : args[k] = Words[k]

\* the first items of the list,
ItemsTaken ==
  /\ Len(envs) <= Len(Items)
  /\ \A k \in 1 .. Len(envs) : Says(Items[k], envs[k])

\* and all of them, with the program first of what is left.
ListTaken ==
  IF Assigns
    THEN args = Tail(Words) /\ Len(envs) = Len(Items) /\ ItemsTaken
    ELSE envs = <<>> /\ args = <<Plain>> \o Tail(Words)

TakenSoFar ==
  /\ step \notin {"usage", "crashed"}
  /\ step \in {"words", "quotes"} => envs = <<>>
  /\ step = "words" => WordsTaken
  /\ step = "quotes" => args = Words
  /\ step # "words" => Words \in Seq(Strings) /\ Plain \in Strings
  /\ step \in {"items", "item"} =>
       Assigns /\ args = <<Plain>> \o Tail(Words) /\ ItemsTaken
  /\ step = "items" => Reached(Plain, Comma, rest, Len(envs))
  /\ step = "item" =>
       /\ Len(envs) < Len(Items) /\ item = Items[Len(envs) + 1]
       /\ Reached(Plain, Comma, rest, Len(envs) + 1)
  /\ step = "prog" => ListTaken
  /\ step = "done" => Taken

LineInv ==
  /\ LineTypeOK
  /\ step \in {"quotes", "items", "item"} => args # <<>>
  /\ WellFormed => TakenSoFar
-----------------------------------------------------------------------------
\* The line that has been received.
LEMMA LineFirst == ASSUME CharacterAssumption, LineInit PROVE LineInv
<1>1. line \in Strings
  <2>1. PICK n \in 0 .. MaxLine : line \in [1 .. n -> Characters]
    BY DEF LineInit
  <2>2. n \in Nat
    BY <2>1 DEF CharacterAssumption
  <2> QED
    BY <2>1, <2>2, SeqDef DEF Strings
<1>2. LineTypeOK
  <2>1. <<>> \in Strings /\ <<>> \in Seq(Strings) /\ <<>> \in Seq(Strings \X Strings)
    BY EmptySeq DEF Strings
  <2>2. DOMAIN args = {}
    BY DEF LineInit
  <2> QED
    BY <1>1, <2>1, <2>2 DEF LineInit, LineTypeOK
<1>3. WordsTaken
  <2>1. Len(args) = 0 /\ Len(Words) \in Nat
    BY <1>1, RunsLen, StartsFinite DEF LineInit, Words
  <2>2. Reached(line, Blank, rest, 0)
    BY <1>1, ReachedFirst DEF LineInit
  <2> QED
    BY <2>1, <2>2 DEF WordsTaken
<1> QED
  BY <1>2, <1>3 DEF LineInv, TakenSoFar, LineInit

\* A round of the loop of the constructor.
LEMMA WordTakes == ASSUME LineInv, Word PROVE LineInv'
<1> USE DEF LineInv
<1>1. /\ line \in Strings /\ rest \in Strings /\ args \in Seq(Strings) /\ step = "words"
      /\ line' = line /\ item' = item /\ envs' = envs /\ prog' = prog
  BY DEF LineTypeOK, Word
<1>2. WellFormed' = WellFormed /\ Words' = Words /\ Plain' = Plain
  BY <1>1 DEF WellFormed, Assigns, Plain, Quoted, Words
<1>3. CASE HasToken(rest, Blank)
  <2>1. args' = Append(args, Token(rest, Blank)) /\ rest' = After(rest, Blank) /\ step' = step
    BY <1>3 DEF Word
  <2>2. Token(rest, Blank) \in Strings /\ Token(rest, Blank) # <<>> /\ rest' \in Strings
    BY <1>1, <1>3, <2>1, TokenTypes
  <2>3. /\ args' \in Seq(Strings) /\ Len(args') = Len(args) + 1 /\ Len(args) \in Nat
        /\ \A k \in 1 .. Len(args) : args'[k] = args[k]
        /\ args'[Len(args) + 1] = Token(rest, Blank)
    BY <1>1, <2>1, <2>2, AppendProperties
  <2>4. LineTypeOK'
    <3>1. \A k \in DOMAIN args' : args'[k] # <<>>
      <4> TAKE k \in DOMAIN args'
      <4>1. k \in 1 .. Len(args) \/ k = Len(args) + 1
        BY <2>3
      <4>2. CASE k \in 1 .. Len(args)
        BY <4>2, <1>1, <2>3 DEF LineTypeOK
      <4> QED
        BY <4>1, <4>2, <2>2, <2>3
    <3> QED
      BY <3>1, <1>1, <2>1, <2>2, <2>3 DEF LineTypeOK
  <2>5. WellFormed => TakenSoFar'
    <3> HAVE WellFormed
    <3>1. Reached(line, Blank, rest, Len(args)) /\ \A k \in 1 .. Len(args) : args[k] = Words[k]
      BY <1>1 DEF TakenSoFar, WordsTaken
    <3>2. /\ Len(args) + 1 \in 1 .. Len(Words) /\ Words[Len(args) + 1] = Token(rest, Blank)
          /\ Reached(line, Blank, rest', Len(args) + 1)
      BY <3>1, <1>1, <1>3, <2>1, <2>3, NextRun DEF Words
    <3>3. \A k \in 1 .. Len(args') : args'[k] = Words[k]
      <4> TAKE k \in 1 .. Len(args')
      <4>1. k \in 1 .. Len(args) \/ k = Len(args) + 1
        BY <2>3
      <4> QED
        BY <4>1, <3>1, <3>2, <2>3
    <3>4. WordsTaken'
      BY <1>1, <1>2, <2>3, <3>2, <3>3 DEF WordsTaken
    <3> QED
      BY <3>4, <1>1, <2>1 DEF TakenSoFar
  <2> QED
    BY <2>1, <2>4, <2>5, <1>1, <1>2
<1>4. CASE ~HasToken(rest, Blank)
  <2>1. args' = args /\ rest' = rest /\ step' = IF args = <<>> THEN "usage" ELSE "quotes"
    BY <1>4 DEF Word
  <2>2. LineTypeOK'
    BY <2>1, <1>1 DEF LineTypeOK
  <2>3. WellFormed => TakenSoFar'
    <3> HAVE WellFormed
    <3>1. Reached(line, Blank, rest, Len(args)) /\ \A k \in 1 .. Len(args) : args[k] = Words[k]
      BY <1>1 DEF TakenSoFar, WordsTaken
    <3>2. Len(args) = Len(Words)
      BY <3>1, <1>1, <1>4, LastRun DEF Words
    <3>3. args = Words
      BY <3>1, <3>2, <1>1, RunsAre DEF Words
    <3>4. Words # <<>>
      BY DEF WellFormed
    <3>5. Plain \in Strings
      <4>1. Words[1] \in Strings
        BY <3>3, <3>4, <1>1
      <4>2. Len(Words[1]) \in Nat /\ \A k \in 2 .. Len(Words[1]) - 1 : Words[1][k] \in Characters
        BY <4>1 DEF Strings
      <4>3. SubSeq(Words[1], 2, Len(Words[1]) - 1) \in Strings
        BY <4>2, SubSeqProperties DEF Strings
      <4> QED
        BY <4>1, <4>3 DEF Plain
    <3> QED
      BY <3>3, <3>4, <3>5, <2>1, <1>1, <1>2 DEF TakenSoFar
  <2> QED
    BY <2>1, <2>2, <2>3, <1>2
<1> QED
  BY <1>3, <1>4

\* The quotes are taken off.
LEMMA QuotesTake == ASSUME LineInv, Quotes PROVE LineInv'
<1> USE DEF LineInv
<1>1. /\ line \in Strings /\ rest \in Strings /\ args \in Seq(Strings) /\ step = "quotes"
      /\ envs \in Seq(Strings \X Strings)
      /\ line' = line /\ item' = item /\ envs' = envs /\ prog' = prog
  BY DEF LineTypeOK, Quotes
<1>2. WellFormed' = WellFormed /\ Words' = Words /\ Plain' = Plain /\ Assigns' = Assigns
  BY <1>1 DEF WellFormed, Assigns, Plain, Quoted, Words
<1>3. args # <<>> /\ args[1] \in Strings /\ Len(args) \in Nat /\ 1 \in DOMAIN args
      /\ Tail(args) \in Seq(Strings)
  BY <1>1
<1> DEFINE bare == IF args[1][1] = Quote THEN SubSeq(args[1], 2, Len(args[1]) - 1) ELSE args[1]
<1>4. bare \in Strings
  <2>1. Len(args[1]) \in Nat /\ \A k \in 2 .. Len(args[1]) - 1 : args[1][k] \in Characters
    BY <1>3 DEF Strings
  <2>2. SubSeq(args[1], 2, Len(args[1]) - 1) \in Strings
    BY <2>1, SubSeqProperties DEF Strings
  <2> QED
    BY <2>2, <1>3
<1>5. \/ step' = "crashed" /\ rest' = rest /\ args' = args
         /\ args[1][1] = Quote /\ Len(args[1]) = 1
      \/ step' = AfterQuotes(bare) /\ rest' = bare /\ args' = [args EXCEPT ![1] = bare]
  <2>1. args = [args EXCEPT ![1] = args[1]]
    BY <1>3
  <2> QED
    BY <2>1 DEF Quotes
<1> HIDE DEF bare
<1>6. args' \in Seq(Strings) /\ args' # <<>> /\ Len(args') = Len(args) /\ rest' \in Strings
  <2>1. CASE args' = args
    BY <2>1, <1>1, <1>3, <1>4, <1>5
  <2>2. CASE args' = [args EXCEPT ![1] = bare]
    <3>1. /\ args' \in Seq(Strings) /\ Len(args') = Len(args) /\ Len(args) # 0
      BY <2>2, <1>1, <1>3, <1>4, ExceptSeq
    <3> QED
      BY <3>1, <1>1, <1>4, <1>5
  <2> QED
    BY <2>1, <2>2, <1>5
<1>7. step' \in {"crashed", "items", "prog"}
  BY <1>5 DEF AfterQuotes
<1>8. LineTypeOK'
  BY <1>1, <1>6, <1>7 DEF LineTypeOK
<1>9. WellFormed => TakenSoFar'
  <2> HAVE WellFormed
  <2>1. args = Words /\ Words \in Seq(Strings) /\ Plain \in Strings /\ envs = <<>>
    BY <1>1 DEF TakenSoFar
  <2>2. bare = Plain
    BY <2>1 DEF bare, Plain, Quoted
  <2>3. ~(args[1][1] = Quote /\ Len(args[1]) = 1)
    <3>1. Quoted => Len(Words[1]) > 1
      BY DEF WellFormed
    <3>2. Quoted => Len(args[1]) # 1
      <4>1. Len(args[1]) \in Nat
        BY <1>3 DEF Strings
      <4>2. \A n \in Nat : n > 1 => n # 1
        OBVIOUS
      <4> QED
        BY <3>1, <4>1, <4>2, <2>1
    <3> QED
      BY <3>2, <2>1 DEF Quoted
  <2>4. step' = AfterQuotes(Plain) /\ rest' = Plain /\ args' = [args EXCEPT ![1] = Plain]
    BY <1>5, <2>2, <2>3
  <2>5. args' = <<Plain>> \o Tail(Words)
    <3>1. args' \in Seq(Strings) /\ Len(args') = Len(args)
          /\ \A k \in 1 .. Len(args) : args'[k] = IF k = 1 THEN Plain ELSE args[k]
      BY <2>1, <2>4, <1>3, ExceptSeq
    <3>2. /\ Tail(Words) \in Seq(Strings) /\ Len(Tail(Words)) = Len(args) - 1
          /\ \A k \in 1 .. Len(args) - 1 : Tail(Words)[k] = args[k + 1]
      BY <2>1, <1>3, HeadTailProperties
    <3>3. <<Plain>> \in Seq(Strings) /\ Len(<<Plain>>) = 1 /\ <<Plain>>[1] = Plain
      BY <2>1
    <3>4. /\ <<Plain>> \o Tail(Words) \in Seq(Strings)
          /\ Len(<<Plain>> \o Tail(Words)) = Len(args)
          /\ \A k \in 1 .. Len(args) : (<<Plain>> \o Tail(Words))[k] =
               IF k = 1 THEN Plain ELSE Tail(Words)[k - 1]
      BY <3>2, <3>3, <1>3, ConcatProperties
    <3>5. \A k \in 1 .. Len(args) : args'[k] = (<<Plain>> \o Tail(Words))[k]
      <4> TAKE k \in 1 .. Len(args)
      <4>1. CASE k = 1
        BY <4>1, <3>1, <3>4
      <4>2. CASE k # 1
        <5>1. k - 1 \in 1 .. Len(args) - 1 /\ (k - 1) + 1 = k
          BY <4>2, <1>3
        <5> QED
          BY <4>2, <5>1, <3>1, <3>2, <3>4
      <4> QED
        BY <4>1, <4>2
    <3> QED
      BY <3>1, <3>4, <3>5, SeqEqual
  <2>6. Assigns <=> step' = "items"
    BY <2>4 DEF AfterQuotes, Assigns
  <2>7. Len(envs) = 0 /\ Len(Items) \in Nat
    BY <2>1, RunsLen, StartsFinite DEF Items
  <2>8. ItemsTaken' /\ Items' = Items
    BY <2>1, <2>7, <1>1, <1>2 DEF ItemsTaken, Items
  <2>9. Reached(Plain, Comma, Plain, 0)
    BY <2>1, ReachedFirst
  <2>10. step' = "items" \/ step' = "prog"
    BY <2>4 DEF AfterQuotes
  <2>11. step' = "prog" => ListTaken'
    BY <2>1, <2>5, <2>6, <1>1, <1>2 DEF ListTaken
  <2> QED
    BY <2>1, <2>4, <2>5, <2>6, <2>7, <2>8, <2>9, <2>10, <2>11, <1>1, <1>2 DEF TakenSoFar
<1> QED
  BY <1>2, <1>6, <1>8, <1>9

\* The next item of the list.
LEMMA ItemTakes == ASSUME LineInv, Item PROVE LineInv'
<1> USE DEF LineInv
<1>1. /\ line \in Strings /\ rest \in Strings /\ args \in Seq(Strings) /\ args # <<>>
      /\ step = "items" /\ envs \in Seq(Strings \X Strings) /\ Len(envs) \in Nat
      /\ line' = line /\ envs' = envs /\ prog' = prog
  BY DEF LineTypeOK, Item
<1>2. /\ WellFormed' = WellFormed /\ Words' = Words /\ Plain' = Plain /\ Assigns' = Assigns
      /\ Items' = Items
  BY <1>1 DEF WellFormed, Assigns, Plain, Quoted, Words, Items
<1>3. ItemsTaken' = ItemsTaken
  BY <1>1, <1>2 DEF ItemsTaken
<1>4. CASE HasToken(rest, Comma)
  <2>1. /\ item' = Token(rest, Comma) /\ rest' = After(rest, Comma) /\ step' = "item"
        /\ args' = args
    BY <1>4 DEF Item
  <2>2. item' \in Strings /\ item' # <<>> /\ rest' \in Strings
    BY <1>1, <1>4, <2>1, TokenTypes
  <2>3. LineTypeOK'
    BY <1>1, <2>1, <2>2 DEF LineTypeOK
  <2>4. WellFormed => TakenSoFar'
    <3> HAVE WellFormed
    <3>1. /\ Reached(Plain, Comma, rest, Len(envs)) /\ Plain \in Strings
          /\ Words \in Seq(Strings) /\ Assigns /\ args = <<Plain>> \o Tail(Words) /\ ItemsTaken
      BY <1>1 DEF TakenSoFar
    <3>2. /\ Len(envs) + 1 \in 1 .. Len(Items) /\ Items[Len(envs) + 1] = item'
          /\ Reached(Plain, Comma, rest', Len(envs) + 1)
      BY <3>1, <1>1, <1>4, <2>1, NextRun DEF Items
    <3>3. Len(envs) < Len(Items)
      <4>1. Len(Items) \in Nat
        BY <3>1, RunsLen, StartsFinite DEF Items
      <4> QED
        BY <4>1, <3>2, <1>1
    <3> QED
      BY <3>1, <3>2, <3>3, <2>1, <1>1, <1>2, <1>3 DEF TakenSoFar
  <2> QED
    BY <2>1, <2>3, <2>4, <1>1, <1>2
<1>5. CASE ~HasToken(rest, Comma)
  <2>1. args' = Tail(args) /\ step' = "prog" /\ item' = item /\ rest' = rest
    BY <1>5 DEF Item
  <2>2. args' \in Seq(Strings)
    BY <2>1, <1>1
  <2>3. LineTypeOK'
    BY <1>1, <2>1, <2>2 DEF LineTypeOK
  <2>4. WellFormed => TakenSoFar'
    <3> HAVE WellFormed
    <3>1. /\ Reached(Plain, Comma, rest, Len(envs)) /\ Plain \in Strings
          /\ Words \in Seq(Strings) /\ Assigns /\ args = <<Plain>> \o Tail(Words) /\ ItemsTaken
      BY <1>1 DEF TakenSoFar
    <3>2. Len(envs) = Len(Items)
      BY <3>1, <1>1, <1>5, LastRun DEF Items
    <3>3. Words # <<>>
      BY DEF WellFormed
    <3>4. args' = Tail(Words)
      <4>1. Tail(Words) \in Seq(Strings)
        BY <3>1, <3>3, HeadTailProperties
      <4>2. /\ <<Plain>> \o Tail(Words) \in Seq(Strings) /\ Len(Tail(Words)) \in Nat
            /\ Len(<<Plain>> \o Tail(Words)) = 1 + Len(Tail(Words))
            /\ \A k \in 1 .. Len(Tail(Words)) : (<<Plain>> \o Tail(Words))[k + 1] = Tail(Words)[k]
        BY <4>1, <3>1
      <4>3. /\ args' \in Seq(Strings) /\ Len(args') = Len(Tail(Words))
            /\ \A k \in 1 .. Len(args') : args'[k] = Tail(Words)[k]
        BY <4>2, <3>1, <2>1, <1>1, HeadTailProperties
      <4> QED
        BY <4>1, <4>3, SeqEqual
    <3>5. ListTaken'
      BY <3>1, <3>2, <3>4, <1>1, <1>2, <1>3 DEF ListTaken
    <3> QED
      BY <3>1, <3>5, <2>1, <1>1, <1>2 DEF TakenSoFar
  <2> QED
    BY <2>1, <2>3, <2>4, <1>2
<1> QED
  BY <1>4, <1>5

\* An item is split at its first equals sign.
LEMMA SplitSays ==
  ASSUME NEW s \in Strings, EqualsIn(s) # {}
  PROVE  Split(s) \in Strings \X Strings /\ Says(s, Split(s))
<1> DEFINE e == Smallest(EqualsIn(s))
           x == SubSeq(s, 1, e - 1)
           y == SubSeq(s, e + 1, Len(s))
<1>1. Len(s) \in Nat /\ DOMAIN s = 1 .. Len(s) /\ \A k \in 1 .. Len(s) : s[k] \in Characters
  BY DEF Strings
<1>2. EqualsIn(s) \in SUBSET Nat /\ EqualsIn(s) = {k \in 1 .. Len(s) : s[k] = Equals}
  BY <1>1 DEF EqualsIn
<1>3. e \in EqualsIn(s) /\ \A j \in EqualsIn(s) : e <= j
  <2>1. \E k \in EqualsIn(s) : \A j \in EqualsIn(s) : k <= j
    BY <1>2, SmallestOf
  <2> QED
    BY <2>1 DEF Smallest
<1> HIDE DEF e
<1>4. e \in 1 .. Len(s) /\ s[e] = Equals
  BY <1>2, <1>3
<1>5. /\ x \in Strings /\ Len(x) = e - 1 /\ \A k \in 1 .. e - 1 : x[k] = s[k]
  <2>1. Len(x) = IF 1 <= e - 1 THEN (e - 1) - 1 + 1 ELSE 0
    BY <1>1, <1>4, SubSeqProperties
  <2>2. x \in Strings /\ \A k \in 1 .. (e - 1) - 1 + 1 : x[k] = s[1 + k - 1]
    BY <1>1, <1>4, SubSeqProperties DEF Strings
  <2>3. \A k \in 1 .. e - 1 : x[k] = s[k]
    <3> TAKE k \in 1 .. e - 1
    <3>1. k \in 1 .. (e - 1) - 1 + 1 /\ 1 + k - 1 = k
      BY <1>4
    <3> QED
      BY <3>1, <2>2
  <2> QED
    BY <2>1, <2>2, <2>3, <1>4
<1>6. /\ y \in Strings /\ Len(y) = Len(s) - e /\ \A k \in 1 .. Len(s) - e : y[k] = s[e + k]
  <2>1. Len(y) = IF e + 1 <= Len(s) THEN Len(s) - (e + 1) + 1 ELSE 0
    BY <1>1, <1>4, SubSeqProperties
  <2>2. y \in Strings /\ \A k \in 1 .. Len(s) - (e + 1) + 1 : y[k] = s[e + 1 + k - 1]
    BY <1>1, <1>4, SubSeqProperties DEF Strings
  <2>3. \A k \in 1 .. Len(s) - e : y[k] = s[e + k]
    <3> TAKE k \in 1 .. Len(s) - e
    <3>1. k \in 1 .. Len(s) - (e + 1) + 1 /\ e + 1 + k - 1 = e + k
      BY <1>1, <1>4
    <3> QED
      BY <3>1, <2>2
  <2>4. Len(y) = Len(s) - e
    <3>1. e \in Nat /\ Len(s) \in Nat /\ e <= Len(s)
      BY <1>1, <1>4
    <3>2. CASE e + 1 <= Len(s)
      BY <3>1, <3>2, <2>1
    <3>3. CASE e = Len(s)
      BY <3>1, <3>3, <2>1
    <3>4. e + 1 <= Len(s) \/ e = Len(s)
      BY <3>1
    <3> QED
      BY <3>2, <3>3, <3>4
  <2> QED
    BY <2>2, <2>3, <2>4
<1> HIDE DEF x, y
<1>7. s = x \o <<Equals>> \o y
  <2> DEFINE T == Characters \cup {Equals}
             z == x \o <<Equals>>
  <2>1. x \in Seq(T) /\ y \in Seq(T) /\ <<Equals>> \in Seq(T) /\ s \in Seq(T)
    BY <1>5, <1>6, SeqMonotonic DEF Strings
  <2>2. Len(<<Equals>>) = 1 /\ <<Equals>>[1] = Equals
    OBVIOUS
  <2>3. /\ z \in Seq(T) /\ Len(z) = e
        /\ \A k \in 1 .. e : z[k] = IF k <= e - 1 THEN x[k] ELSE Equals
    BY <2>1, <2>2, <1>4, <1>5, ConcatProperties
  <2> HIDE DEF z
  <2>4. /\ z \o y \in Seq(T) /\ Len(z \o y) = Len(s)
        /\ \A k \in 1 .. Len(s) : (z \o y)[k] = IF k <= e THEN z[k] ELSE y[k - e]
    <3>1. e \in Nat /\ e <= Len(s) /\ e + Len(y) = Len(s)
      BY <1>1, <1>4, <1>6
    <3>2. z \o y \in Seq(T) /\ Len(z \o y) = Len(s)
      BY <3>1, <2>1, <2>3, ConcatProperties
    <3>3. \A k \in 1 .. Len(z) + Len(y) : (z \o y)[k] = IF k <= Len(z) THEN z[k] ELSE y[k - Len(z)]
      BY <2>1, <2>3, ConcatProperties
    <3> QED
      BY <3>1, <3>2, <3>3, <2>3
  <2>5. \A k \in 1 .. Len(s) : (z \o y)[k] = s[k]
    <3> TAKE k \in 1 .. Len(s)
    <3>1. CASE k <= e - 1
      BY <3>1, <2>3, <2>4, <1>4, <1>5
    <3>2. CASE k = e
      BY <3>2, <2>3, <2>4, <1>4
    <3>3. CASE k > e
      <4>1. k - e \in 1 .. Len(s) - e /\ e + (k - e) = k
        BY <3>3, <1>1, <1>4
      <4> QED
        BY <3>3, <4>1, <2>4, <1>4, <1>6
    <3>4. k \in Nat /\ e \in Nat
      BY <1>1, <1>4
    <3>5. k <= e - 1 \/ k = e \/ k > e
      BY <3>4
    <3> QED
      BY <3>1, <3>2, <3>3, <3>5
  <2>6. z \o y = s
    BY <2>1, <2>4, <2>5, SeqEqual
  <2> QED
    BY <2>6 DEF z
<1>8. \A k \in DOMAIN x : x[k] # Equals
  <2> SUFFICES ASSUME NEW k \in DOMAIN x, x[k] = Equals PROVE FALSE
    OBVIOUS
  <2>1. k \in 1 .. e - 1 /\ s[k] = Equals
    BY <1>4, <1>5 DEF Strings
  <2>2. k \in EqualsIn(s)
    BY <2>1, <1>1, <1>2, <1>4
  <2> QED
    BY <2>1, <2>2, <1>3, <1>4
<1>9. Split(s) = <<x, y>>
  BY DEF Split, x, y, e
<1>10. Split(s) \in Strings \X Strings /\ Split(s)[1] = x /\ Split(s)[2] = y
  BY <1>5, <1>6, <1>9
<1> QED
  BY <1>7, <1>8, <1>10 DEF Says

\* A round of the loop over the items.
LEMMA AssignTakes == ASSUME LineInv, Assign PROVE LineInv'
<1> USE DEF LineInv
<1>1. /\ line \in Strings /\ item \in Strings /\ args \in Seq(Strings) /\ args # <<>>
      /\ step = "item" /\ envs \in Seq(Strings \X Strings) /\ Len(envs) \in Nat
      /\ line' = line /\ rest' = rest /\ args' = args /\ item' = item /\ prog' = prog
  BY DEF LineTypeOK, Assign
<1>2. /\ WellFormed' = WellFormed /\ Words' = Words /\ Plain' = Plain /\ Assigns' = Assigns
      /\ Items' = Items
  BY <1>1 DEF WellFormed, Assigns, Plain, Quoted, Words, Items
<1>3. CASE EqualsIn(item) = {}
  <2>1. envs' = envs /\ step' = step
    BY <1>3 DEF Assign
  <2>2. LineTypeOK'
    BY <1>1, <2>1 DEF LineTypeOK
  <2>3. ~WellFormed
    <3> SUFFICES ASSUME WellFormed PROVE FALSE
      OBVIOUS
    <3>1. Assigns /\ Len(envs) < Len(Items) /\ item = Items[Len(envs) + 1] /\ Plain \in Strings
      BY <1>1 DEF TakenSoFar
    <3>2. Len(envs) + 1 \in DOMAIN Items
      <4>1. Len(Items) = Cardinality(Starts(Plain, Comma)) /\ Len(Items) \in Nat
        BY <3>1, RunsLen, StartsFinite DEF Items
      <4>2. DOMAIN Items = 1 .. Len(Items)
        BY <4>1 DEF Items, Runs
      <4> QED
        BY <4>1, <4>2, <3>1, <1>1
    <3>3. \E k \in DOMAIN item : item[k] = Equals
      BY <3>1, <3>2 DEF WellFormed, Items
    <3> QED
      BY <3>3, <1>3 DEF EqualsIn
  <2> QED
    BY <1>1, <1>2, <2>1, <2>2, <2>3
<1>4. CASE EqualsIn(item) # {}
  <2>1. envs' = Append(envs, Split(item)) /\ step' = "items"
    BY <1>4 DEF Assign
  <2>2. Split(item) \in Strings \X Strings /\ Says(item, Split(item))
    BY <1>1, <1>4, SplitSays
  <2>3. /\ envs' \in Seq(Strings \X Strings) /\ Len(envs') = Len(envs) + 1
        /\ \A k \in 1 .. Len(envs) : envs'[k] = envs[k]
        /\ envs'[Len(envs) + 1] = Split(item)
    BY <1>1, <2>1, <2>2, AppendProperties
  <2>4. LineTypeOK'
    BY <1>1, <2>1, <2>3 DEF LineTypeOK
  <2>5. WellFormed => TakenSoFar'
    <3> HAVE WellFormed
    <3>1. /\ Len(envs) < Len(Items) /\ item = Items[Len(envs) + 1] /\ Plain \in Strings
          /\ Words \in Seq(Strings) /\ Assigns /\ args = <<Plain>> \o Tail(Words)
          /\ Reached(Plain, Comma, rest, Len(envs) + 1)
          /\ \A k \in 1 .. Len(envs) : Says(Items[k], envs[k])
      BY <1>1 DEF TakenSoFar, ItemsTaken
    <3>2. Len(envs') <= Len(Items)
      <4>1. Len(Items) \in Nat
        BY <3>1, RunsLen, StartsFinite DEF Items
      <4> QED
        BY <4>1, <3>1, <2>3, <1>1
    <3>3. \A k \in 1 .. Len(envs') : Says(Items[k], envs'[k])
      <4> TAKE k \in 1 .. Len(envs')
      <4>1. k \in 1 .. Len(envs) \/ k = Len(envs) + 1
        BY <2>3, <1>1
      <4> QED
        BY <4>1, <2>2, <2>3, <3>1
    <3>4. ItemsTaken'
      BY <3>2, <3>3, <1>2 DEF ItemsTaken
    <3>5. Reached(Plain, Comma, rest, Len(envs'))
      BY <3>1, <2>3
    <3> QED
      BY <3>1, <3>4, <3>5, <2>1, <1>1, <1>2 DEF TakenSoFar
  <2> QED
    BY <1>1, <1>2, <2>1, <2>4, <2>5
<1> QED
  BY <1>3, <1>4

\* The program.
LEMMA ProgramTakes == ASSUME LineInv, Program PROVE LineInv'
<1> USE DEF LineInv
<1>1. /\ line \in Strings /\ args \in Seq(Strings) /\ step = "prog"
      /\ envs \in Seq(Strings \X Strings) /\ Len(envs) \in Nat
      /\ line' = line /\ rest' = rest /\ item' = item /\ envs' = envs
  BY DEF LineTypeOK, Program
<1>2. /\ WellFormed' = WellFormed /\ Words' = Words /\ Plain' = Plain /\ Assigns' = Assigns
      /\ Items' = Items
  BY <1>1 DEF WellFormed, Assigns, Plain, Quoted, Words, Items
<1>3. WellFormed => args # <<>>
  <2> HAVE WellFormed
  <2>1. ListTaken /\ Words \in Seq(Strings) /\ Plain \in Strings
    BY <1>1 DEF TakenSoFar
  <2>2. CASE Assigns
    <3>1. args = Tail(Words) /\ Words # <<>>
      BY <2>1, <2>2 DEF ListTaken, WellFormed
    <3>2. Len(args) = Len(Words) - 1
      BY <3>1, <2>1, HeadTailProperties
    <3>3. Len(Words) > 1 /\ Len(Words) \in Nat
      BY <2>1, <2>2 DEF WellFormed
    <3>4. Len(args) # 0
      BY <3>2, <3>3
    <3> QED
      BY <3>4
  <2>3. CASE ~Assigns
    <3>1. args = <<Plain>> \o Tail(Words) /\ Words # <<>>
      BY <2>1, <2>3 DEF ListTaken, WellFormed
    <3>2. Tail(Words) \in Seq(Strings) /\ <<Plain>> \in Seq(Strings)
      BY <3>1, <2>1, HeadTailProperties
    <3>3. Len(args) = 1 + Len(Tail(Words)) /\ Len(Tail(Words)) \in Nat
      BY <3>1, <3>2
    <3>4. Len(args) # 0
      BY <3>3
    <3> QED
      BY <3>4
  <2> QED
    BY <2>2, <2>3
<1>4. CASE args = <<>>
  <2>1. step' = "crashed" /\ prog' = prog /\ args' = args
    BY <1>4 DEF Program
  <2>2. LineTypeOK'
    BY <1>1, <2>1 DEF LineTypeOK
  <2> QED
    BY <1>2, <1>3, <1>4, <2>1, <2>2
<1>5. CASE args # <<>>
  <2>1. prog' = Head(args) /\ args' = Tail(args) /\ step' = "done"
    BY <1>5 DEF Program
  <2>2. prog' \in Strings /\ args' \in Seq(Strings)
    BY <1>1, <1>5, <2>1, HeadTailProperties
  <2>3. LineTypeOK'
    BY <1>1, <2>1, <2>2 DEF LineTypeOK
  <2>4. <<prog'>> \o args' = args
    <3>1. /\ <<prog'>> \in Seq(Strings) /\ Len(<<prog'>>) = 1 /\ <<prog'>>[1] = prog'
          /\ Len(args) \in Nat /\ Len(args) # 0
      BY <1>1, <1>5, <2>2
    <3>2. Len(args') = Len(args) - 1 /\ \A k \in 1 .. Len(args') : args'[k] = args[k + 1]
      BY <1>1, <1>5, <2>1, HeadTailProperties
    <3>3. /\ <<prog'>> \o args' \in Seq(Strings)
          /\ Len(<<prog'>> \o args') = Len(args)
          /\ \A k \in 1 .. Len(args) : (<<prog'>> \o args')[k] =
               IF k = 1 THEN prog' ELSE args'[k - 1]
      BY <2>2, <3>1, <3>2, ConcatProperties
    <3>4. \A k \in 1 .. Len(args) : (<<prog'>> \o args')[k] = args[k]
      <4> TAKE k \in 1 .. Len(args)
      <4>1. CASE k = 1
        BY <4>1, <3>3, <2>1
      <4>2. CASE k # 1
        <5>1. k - 1 \in 1 .. Len(args) - 1 /\ (k - 1) + 1 = k
          BY <4>2, <3>1
        <5> QED
          BY <4>2, <5>1, <3>2, <3>3
      <4> QED
        BY <4>1, <4>2
    <3> QED
      BY <1>1, <3>3, <3>4, SeqEqual
  <2>5. WellFormed => TakenSoFar'
    <3> HAVE WellFormed
    <3>1. ListTaken /\ Words \in Seq(Strings) /\ Plain \in Strings
      BY <1>1 DEF TakenSoFar
    <3>2. Taken'
      <4>1. CASE Assigns
        <5>1. /\ args = Tail(Words) /\ Len(envs) = Len(Items)
              /\ \A k \in 1 .. Len(envs) : Says(Items[k], envs[k])
          BY <3>1, <4>1 DEF ListTaken, ItemsTaken
        <5>2. DOMAIN envs = 1 .. Len(envs)
          BY <1>1
        <5> QED
          BY <4>1, <5>1, <5>2, <2>4, <1>1, <1>2 DEF Taken, Items
      <4>2. CASE ~Assigns
        BY <3>1, <4>2, <2>4, <1>1, <1>2 DEF ListTaken, Taken
      <4> QED
        BY <4>1, <4>2
    <3> QED
      BY <3>1, <3>2, <2>1, <1>2 DEF TakenSoFar
  <2> QED
    BY <1>2, <2>1, <2>3, <2>5
<1> QED
  BY <1>4, <1>5

\* Every step of exec keeps the invariant.
LEMMA LineKept == ASSUME LineInv, [LineNext]_lineVars PROVE LineInv'
<1>1. CASE Word
  BY <1>1, WordTakes
<1>2. CASE Quotes
  BY <1>2, QuotesTake
<1>3. CASE Item
  BY <1>3, ItemTakes
<1>4. CASE Assign
  BY <1>4, AssignTakes
<1>5. CASE Program
  BY <1>5, ProgramTakes
<1>6. CASE UNCHANGED lineVars
  BY <1>6 DEF lineVars, LineInv, LineTypeOK, TakenSoFar, WordsTaken, ItemsTaken, ListTaken, Items,
     Taken, WellFormed, Assigns, Plain, Quoted, Words
<1> QED
  BY <1>1, <1>2, <1>3, <1>4, <1>5, <1>6 DEF LineNext

LEMMA LineAlways == ASSUME CharacterAssumption PROVE LineSpec => []LineInv
<1>1. LineInit => LineInv
  BY LineFirst
<1>2. LineInv /\ [LineNext]_lineVars => LineInv'
  BY LineKept
<1> QED
  BY <1>1, <1>2, PTL DEF LineSpec

\* exec() and the constructor of CommandLine take from every well-formed line, of
\* any length and with any number of assignments and arguments, what it says:
\* each word and each item is found once and in order, split at its first
\* equals sign, and the program is the word behind the assignments.
THEOREM LinesAreTaken == ASSUME CharacterAssumption PROVE LineSpec => []TakenAsWritten
<1>1. LineInv => TakenAsWritten
  BY DEF LineInv, TakenSoFar, TakenAsWritten
<1> QED
  BY <1>1, LineAlways, PTL
-----------------------------------------------------------------------------
(***************************************************************************)
(* That the loops of exec come to an end: a bound of the rounds that are   *)
(* left.  Each loop begins with at most the whole line before it, and each *)
(* token shortens what is before strtok().                                 *)
(***************************************************************************)
Loop == 2 * Len(line) + 4
Left ==
  2 * Len(rest) +
    CASE step = "words" -> 4 * Loop
      [] step = "quotes" -> 3 * Loop
      [] step = "item" -> 2 * Loop + 1
      [] step = "items" -> 2 * Loop
      [] step = "prog" -> Loop
      [] OTHER -> 0

\* Neither what is before strtok() nor a word is longer than the line.
Short ==
  /\ Len(rest) <= Len(line)
  /\ \A k \in DOMAIN args : Len(args[k]) <= Len(line)

LEMMA Shortens ==
  ASSUME NEW s \in Strings, NEW c, HasToken(s, c)
  PROVE  Len(After(s, c)) < Len(s) /\ Len(Token(s, c)) <= Len(s)
<1> DEFINE a == From(s, c)
           b == Until(s, c)
           l == Len(s)
<1>1. l \in Nat /\ DOMAIN s = 1 .. l /\ \A j \in 1 .. l : s[j] \in Characters
  BY LenProperties, ElementOfSeq DEF Strings
<1>2. a \in 1 .. l /\ b \in a + 1 .. l + 1
  BY TokenAt
<1> HIDE DEF a, b, l
<1>3. a \in Int /\ b \in Int /\ b - 1 \in Int /\ b + 1 \in Int /\ 1 <= a /\ a <= b - 1 /\ b - 1 <= l
  BY <1>1, <1>2
<1>4. (\A j \in a .. b - 1 : j \in 1 .. l) /\ (\A j \in b + 1 .. l : j \in 1 .. l)
  BY <1>1, <1>3
<1>5. (\A j \in a .. b - 1 : s[j] \in Characters) /\ (\A j \in b + 1 .. l : s[j] \in Characters)
  BY <1>1, <1>4
<1>6. Len(Token(s, c)) = IF a <= b - 1 THEN b - 1 - a + 1 ELSE 0
  BY <1>3, <1>5, SubSeqProperties DEF Token, a, b
<1>7. Len(After(s, c)) = IF b + 1 <= l THEN l - (b + 1) + 1 ELSE 0
  <2>1. l \in Int
    BY <1>1
  <2> QED
    BY <1>3, <1>5, <2>1, SubSeqProperties DEF After, b, l
<1>8. Len(Token(s, c)) <= l
  BY <1>1, <1>3, <1>6
<1>9. Len(After(s, c)) < l
  BY <1>1, <1>3, <1>7
<1> QED
  BY <1>8, <1>9 DEF l

LEMMA LeftIsNumber ==
  ASSUME LineTypeOK
  PROVE  Left \in Nat /\ Loop \in Nat /\ Len(rest) \in Nat /\ Len(line) \in Nat
<1>1. Len(rest) \in Nat /\ Len(line) \in Nat
  BY LenProperties DEF LineTypeOK, Strings
<1>2. Loop \in Nat
  BY <1>1 DEF Loop
<1> QED
  BY <1>1, <1>2 DEF Left

LEMMA WordShortens ==
  ASSUME LineInv, LineInv', Short, Word
  PROVE  Short' /\ Left' < Left
<1>1. /\ line \in Strings /\ rest \in Strings /\ args \in Seq(Strings) /\ step = "words" /\ line' = line
      /\ Len(rest) \in Nat /\ Len(line) \in Nat /\ Loop \in Nat /\ Loop' = Loop
      /\ Len(rest) <= Len(line)
  BY LeftIsNumber DEF LineInv, LineTypeOK, Word, Loop, Short
<1>2. Left = 2 * Len(rest) + 4 * Loop
  BY <1>1 DEF Left
<1>3. CASE HasToken(rest, Blank)
  <2>1. args' = Append(args, Token(rest, Blank)) /\ rest' = After(rest, Blank) /\ step' = step
    BY <1>3 DEF Word
  <2>2. Len(rest') < Len(rest) /\ Len(Token(rest, Blank)) <= Len(rest) /\ Len(rest') \in Nat
        /\ Len(Token(rest, Blank)) \in Nat /\ Token(rest, Blank) \in Strings
    BY <1>1, <1>3, <2>1, Shortens, TokenTypes, LenProperties DEF Strings
  <2>3. Left' = 2 * Len(rest') + 4 * Loop
    BY <1>1, <2>1 DEF Left
  <2>4. Left' < Left
    BY <1>1, <1>2, <2>2, <2>3
  <2>5. Len(rest') <= Len(line) /\ Len(Token(rest, Blank)) <= Len(line)
    BY <1>1, <2>2
  <2>6. /\ DOMAIN args = 1 .. Len(args) /\ Len(args) \in Nat /\ DOMAIN args' = 1 .. Len(args) + 1
        /\ \A k \in 1 .. Len(args) : args'[k] = args[k]
        /\ args'[Len(args) + 1] = Token(rest, Blank)
    BY <1>1, <2>1, <2>2, AppendProperties, LenProperties
  <2>7. \A k \in DOMAIN args' : k \in DOMAIN args \/ k = Len(args) + 1
    BY <2>6
  <2>8. \A k \in DOMAIN args' : Len(args'[k]) <= Len(line)
    BY <2>5, <2>6, <2>7 DEF Short
  <2> QED
    BY <1>1, <2>4, <2>5, <2>8 DEF Short
<1>4. CASE ~HasToken(rest, Blank)
  <2>1. step' \in {"usage", "quotes"} /\ args' = args /\ rest' = rest
    BY <1>4 DEF Word
  <2>2. Left' = 2 * Len(rest) + 3 * Loop \/ Left' = 2 * Len(rest) + 0
    BY <1>1, <2>1 DEF Left
  <2>3. Loop >= 4
    BY <1>1 DEF Loop
  <2>4. Left' < Left
    BY <1>1, <1>2, <2>2, <2>3
  <2> QED
    BY <1>1, <2>1, <2>4 DEF Short
<1> QED
  BY <1>3, <1>4

\* The items begin with the first word, which is no longer than the line.
LEMMA QuotesShorten ==
  ASSUME LineInv, LineInv', Short, Quotes
  PROVE  Short' /\ Left' < Left
<1>1. /\ line \in Strings /\ rest \in Strings /\ args \in Seq(Strings) /\ step = "quotes" /\ line' = line
      /\ Len(rest) \in Nat /\ Len(line) \in Nat /\ Loop \in Nat /\ Loop' = Loop
      /\ Len(rest) <= Len(line) /\ args # <<>>
  BY LeftIsNumber DEF LineInv, LineTypeOK, Quotes, Loop, Short
<1>2. Left = 2 * Len(rest) + 3 * Loop /\ Loop = 2 * Len(line) + 4
  BY <1>1 DEF Left, Loop
<1>3. /\ Len(args) \in Nat /\ 1 \in 1 .. Len(args) /\ DOMAIN args = 1 .. Len(args)
      /\ args[1] \in Strings /\ Len(args[1]) <= Len(line)
  <2>1. Len(args) \in Nat /\ Len(args) # 0 /\ DOMAIN args = 1 .. Len(args)
    BY <1>1, EmptySeq, LenProperties
  <2>2. 1 \in 1 .. Len(args)
    BY <2>1
  <2> QED
    BY <1>1, <2>1, <2>2, ElementOfSeq DEF Short
<1> DEFINE first == args[1]
<1>4. Len(first) \in Nat
  BY <1>3, LenProperties DEF Strings
<1>5. CASE first[1] # Quote
  <2>1. step' = AfterQuotes(first) /\ rest' = first /\ args' = args
    BY <1>5 DEF Quotes
  <2>2. step' \in {"items", "prog"}
    BY <2>1 DEF AfterQuotes
  <2>3. Left' = 2 * Len(first) + 2 * Loop \/ Left' = 2 * Len(first) + Loop
    BY <1>1, <2>1, <2>2 DEF Left
  <2>4. Left' < Left
    BY <1>1, <1>2, <1>3, <1>4, <2>3
  <2> QED
    BY <1>1, <1>3, <2>1, <2>4 DEF Short
<1>6. CASE first[1] = Quote /\ Len(first) = 1
  <2>1. step' = "crashed" /\ args' = args /\ rest' = rest
    BY <1>6 DEF Quotes
  <2>2. Left' = 2 * Len(rest) + 0
    BY <2>1 DEF Left
  <2>3. Left' < Left
    BY <1>1, <1>2, <2>2
  <2> QED
    BY <1>1, <2>1, <2>3 DEF Short
<1>7. CASE first[1] = Quote /\ Len(first) # 1
  <2> DEFINE bare == SubSeq(first, 2, Len(first) - 1)
  <2>1. args' = [args EXCEPT ![1] = bare] /\ rest' = bare /\ step' = AfterQuotes(bare)
    BY <1>7 DEF Quotes
  <2>2. Len(bare) \in Nat /\ Len(bare) <= Len(first)
    <3>1. \A j \in 2 .. Len(first) - 1 : j \in 1 .. Len(first)
      BY <1>4
    <3>2. \A j \in 2 .. Len(first) - 1 : first[j] \in Characters
      BY <1>3, <3>1, ElementOfSeq DEF Strings
    <3>3. 2 \in Int /\ Len(first) - 1 \in Int
      BY <1>4
    <3>4. Len(bare) = IF 2 <= Len(first) - 1 THEN Len(first) - 1 - 2 + 1 ELSE 0
      BY <3>2, <3>3, SubSeqProperties
    <3> QED
      BY <1>4, <3>4
  <2> HIDE DEF bare
  <2>3. step' \in {"items", "prog"}
    BY <2>1 DEF AfterQuotes
  <2>4. Left' = 2 * Len(bare) + 2 * Loop \/ Left' = 2 * Len(bare) + Loop
    BY <1>1, <2>1, <2>3 DEF Left
  <2>5. Left' < Left /\ Len(bare) <= Len(line)
    BY <1>1, <1>2, <1>3, <1>4, <2>2, <2>4
  <2>6. DOMAIN args' = DOMAIN args /\ \A k \in DOMAIN args : args'[k] = IF k = 1 THEN bare ELSE args[k]
    BY <2>1
  <2>7. \A k \in DOMAIN args' : Len(args'[k]) <= Len(line)
    BY <2>5, <2>6 DEF Short
  <2> QED
    BY <1>1, <2>1, <2>5, <2>7 DEF Short
<1> QED
  BY <1>5, <1>6, <1>7

\* All words but the first are kept.
LEMMA TailIsShort ==
  ASSUME NEW as \in Seq(Strings), as # <<>>, NEW n \in Nat, \A k \in DOMAIN as : Len(as[k]) <= n
  PROVE  \A k \in DOMAIN Tail(as) : Len(Tail(as)[k]) <= n
<1>1. /\ Tail(as) \in Seq(Strings) /\ Len(Tail(as)) = Len(as) - 1
      /\ \A k \in 1 .. Len(Tail(as)) : Tail(as)[k] = as[k + 1]
  BY HeadTailProperties
<1>2. Len(as) \in Nat /\ DOMAIN as = 1 .. Len(as) /\ DOMAIN Tail(as) = 1 .. Len(Tail(as))
  BY <1>1, LenProperties
<1> DEFINE m == Len(as)
           l == Len(Tail(as))
<1>3. \A k \in 1 .. l : k + 1 \in 1 .. m
  <2>1. m \in Nat /\ l = m - 1
    BY <1>1, <1>2
  <2> HIDE DEF m, l
  <2> QED
    BY <2>1
<1> QED
  BY <1>1, <1>2, <1>3

LEMMA RestShortens ==
  ASSUME LineInv, LineInv', Short, Item \/ (Assign /\ lineVars' # lineVars) \/ Program
  PROVE  Short' /\ Left' < Left
<1>1. /\ line \in Strings /\ rest \in Strings /\ args \in Seq(Strings) /\ line' = line
      /\ Len(rest) \in Nat /\ Len(line) \in Nat /\ Loop \in Nat /\ Loop' = Loop
      /\ Len(rest) <= Len(line) /\ Loop >= 4
  <2>1. line \in Strings /\ rest \in Strings /\ args \in Seq(Strings) /\ LineTypeOK
    BY DEF LineInv, LineTypeOK
  <2>2. line' = line
    BY DEF Item, Assign, Program
  <2>3. Len(rest) \in Nat /\ Len(line) \in Nat /\ Len(rest) <= Len(line)
    BY <2>1, LeftIsNumber DEF Short
  <2>4. Loop \in Nat /\ Loop >= 4 /\ Loop' = Loop
    BY <2>2, <2>3 DEF Loop
  <2> QED
    BY <2>1, <2>2, <2>3, <2>4
<1>2. CASE Item /\ HasToken(rest, Comma)
  <2>1. step = "items" /\ step' = "item" /\ rest' = After(rest, Comma) /\ args' = args
    BY <1>2 DEF Item
  <2>2. Len(rest') < Len(rest) /\ Len(rest') \in Nat
    BY <1>1, <1>2, <2>1, Shortens, TokenTypes, LenProperties DEF Strings
  <2>3. Left = 2 * Len(rest) + 2 * Loop /\ Left' = 2 * Len(rest') + (2 * Loop + 1)
    BY <1>1, <2>1 DEF Left
  <2>4. Left' < Left /\ Len(rest') <= Len(line)
    BY <1>1, <2>2, <2>3
  <2> QED
    BY <1>1, <2>1, <2>4 DEF Short
<1>3. CASE Item /\ ~HasToken(rest, Comma)
  <2>1. step = "items" /\ step' = "prog" /\ rest' = rest /\ args' = Tail(args) /\ args # <<>>
    BY <1>3 DEF Item, LineInv
  <2>2. Left = 2 * Len(rest) + 2 * Loop /\ Left' = 2 * Len(rest) + Loop
    BY <1>1, <2>1 DEF Left
  <2>3. Left' < Left
    BY <1>1, <2>2
  <2>4. \A k \in DOMAIN args' : Len(args'[k]) <= Len(line)
    BY <1>1, <2>1, TailIsShort DEF Short
  <2> QED
    BY <1>1, <2>1, <2>3, <2>4 DEF Short
<1>4. CASE Assign /\ lineVars' # lineVars
  <2>1. step = "item" /\ step' = "items" /\ rest' = rest /\ args' = args
    BY <1>4 DEF Assign, lineVars
  <2>2. Left = 2 * Len(rest) + (2 * Loop + 1) /\ Left' = 2 * Len(rest) + 2 * Loop
    BY <1>1, <2>1 DEF Left
  <2>3. Left' < Left
    BY <1>1, <2>2
  <2> QED
    BY <1>1, <2>1, <2>3 DEF Short
<1>5. CASE Program
  <2>1. /\ step = "prog" /\ step' \in {"crashed", "done"} /\ rest' = rest
        /\ args' = args \/ (args # <<>> /\ args' = Tail(args))
    BY <1>5 DEF Program
  <2>2. Left = 2 * Len(rest) + Loop /\ Left' = 2 * Len(rest) + 0
    BY <1>1, <2>1 DEF Left
  <2>3. Left' < Left
    BY <1>1, <2>2
  <2>4. \A k \in DOMAIN args' : Len(args'[k]) <= Len(line)
    BY <1>1, <2>1, TailIsShort DEF Short
  <2> QED
    BY <1>1, <2>1, <2>3, <2>4 DEF Short
<1> QED
  BY <1>2, <1>3, <1>4, <1>5

\* Every round of the loops of exec, on any line, well-formed or not, brings the
\* end nearer: the bound of the rounds left is a number that each step lowers.
\* The one exception is the item without an equals sign, whose round changes
\* nothing (CommandEventHandler.cpp:395).
THEOREM RoundsAreBounded ==
  ASSUME CharacterAssumption
  PROVE  LineSpec => [](Left \in Nat) /\ [][Left' < Left]_lineVars
<1>1. LineInit => Short
  BY DEF LineInit, Short
<1>2. LineInv /\ LineInv' /\ Short /\ [LineNext]_lineVars => Short' /\ [Left' < Left]_lineVars
  <2> SUFFICES ASSUME LineInv, LineInv', Short, [LineNext]_lineVars
               PROVE  Short' /\ [Left' < Left]_lineVars
    OBVIOUS
  <2>1. CASE lineVars' = lineVars
    BY <2>1 DEF lineVars, Short
  <2>2. CASE Word
    BY <2>2, WordShortens
  <2>3. CASE Quotes
    BY <2>3, QuotesShorten
  <2>4. CASE lineVars' # lineVars /\ (Item \/ Assign \/ Program)
    BY <2>4, RestShortens
  <2> QED
    BY <2>1, <2>2, <2>3, <2>4 DEF LineNext
<1>3. LineInv => Left \in Nat
  BY LeftIsNumber DEF LineInv
<1> QED
  BY <1>1, <1>2, <1>3, LineAlways, PTL DEF LineSpec
-----------------------------------------------------------------------------
(***************************************************************************)
(* The commands together.  A step of one leaves the variables of the       *)
(* others alone, so that what is proved of each holds of them all.         *)
(***************************************************************************)
\* The types of the environment and of what exec says of it.
LEMMA EnvTypesKept ==
  ASSUME EnvInv, EnvInv', EnvTypeOK, [EnvNext]_envVars
  PROVE  EnvTypeOK'
<1>1. /\ env' \in Environments /\ original' \in Environments /\ backup' \in Seq(Values)
      /\ stage' \in {"set", "restore", "done"} /\ i' \in 1 .. Len(given') + 1
  BY DEF EnvInv, EnvShape
<1>2. given' = given
  BY DEF EnvNext, Set, Launch, Restore, Finish, envVars
<1>3. child' \in {child, env}
  BY DEF EnvNext, Set, Launch, Restore, Finish, envVars
<1>4. given' \in Assignments /\ child' \in Environments
  BY <1>2, <1>3 DEF EnvTypeOK, Assignments
<1> QED
  BY <1>1, <1>4 DEF EnvTypeOK

LEMMA EnvTypesAlways == EnvSpec => []EnvTypeOK
<1>1. EnvInit => EnvTypeOK
  <2> SUFFICES ASSUME EnvInit PROVE EnvTypeOK
    OBVIOUS
  <2>1. EnvInv
    BY InvInit
  <2> QED
    BY <2>1 DEF EnvInit, EnvTypeOK, EnvInv, EnvShape
<1>2. EnvInv /\ EnvInv' /\ EnvTypeOK /\ [EnvNext]_envVars => EnvTypeOK'
  BY EnvTypesKept
<1> QED
  BY <1>1, <1>2, InvAlways, PTL DEF EnvSpec

\* The types of rmdr are part of its invariant.
LEMMA TreeTypesAlways == ASSUME TreeAssumption PROVE Spec => []TypeOK
<1>1. Inv => TypeOK
  <2> SUFFICES ASSUME Inv PROVE TypeOK
    OBVIOUS
  <2>1. /\ parent \in [Nodes -> Nodes \cup {Top, Absent}]
        /\ pc \in {"call", "open", "read", "done", "crashed"}
        /\ stack \in Seq(Frame) /\ open = Len(stack)
        /\ \A n \in removed : parent[n] = Absent
    BY DEF Inv, Types
  <2>2. \A k \in DOMAIN stack : stack[k].dir \in Dirs /\ stack[k].left \subseteq Nodes
    <3> TAKE k \in DOMAIN stack
    <3>1. stack[k] \in Frame
      BY <2>1
    <3>2. Kind[stack[k].dir] = "dir"
      BY DEF Inv, Descending, Descended
    <3> QED
      BY <3>1, <3>2 DEF Frame, Dirs
  <2> QED
    BY <2>1, <2>2 DEF TypeOK
<1>2. Init => Inv
  BY InitInv
<1>3. Inv /\ [Next]_vars => Inv'
  BY InvKept
<1> QED
  BY <1>1, <1>2, <1>3, PTL DEF Spec

\* A step of the commands is one of each part, or leaves it alone.
LEMMA EachByItself ==
  /\ CommandsInit => EnvInit /\ LineInit /\ Init
  /\ [CommandsNext]_commandsVars => [EnvNext]_envVars /\ [LineNext]_lineVars /\ [Next]_vars
<1>1. CommandsInit => EnvInit /\ LineInit /\ Init
  BY DEF CommandsInit
<1>2. CommandsNext => [EnvNext]_envVars /\ [LineNext]_lineVars /\ [Next]_vars
  BY DEF CommandsNext, LineStep, EnvironmentStep, RmdrStep, OthersStep, Next
<1>3. UNCHANGED commandsVars => UNCHANGED <<envVars, lineVars, vars>>
  BY DEF commandsVars
<1> QED
  BY <1>1, <1>2, <1>3

\* The types of exec and rmdr: what strtok() cuts out of a line is never empty, the
\* backup of the environment keeps pace with the loops, and the descriptors of
\* rmdr are those of the directories it is in.
THEOREM CommandsTyped == CommandsSpec => []CommandsTypeOK
<1>1. CommandsSpec => EnvSpec /\ LineSpec /\ Spec
  BY EachByItself, PTL DEF CommandsSpec, EnvSpec, LineSpec, Spec
<1>2. LineInv => LineTypeOK
  BY DEF LineInv
<1>3. LineSpec => []LineTypeOK
  BY <1>2, LineAlways, ArgsAssumed, PTL
<1>4. Spec => []TypeOK
  BY TreeTypesAlways, TreeAssumed
<1>5. EnvTypeOK /\ LineTypeOK /\ TypeOK => CommandsTypeOK
  BY DEF CommandsTypeOK
<1> QED
  BY <1>1, <1>3, <1>4, <1>5, EnvTypesAlways, PTL
=============================================================================
