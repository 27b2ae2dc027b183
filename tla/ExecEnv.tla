------------------------------ MODULE ExecEnv ------------------------------
(***************************************************************************)
(* The environment of the agent around popen() in the constructor of       *)
(* SubprocessEventHandler: exec sets the variables of its first argument,  *)
(* launches the subprocess, which inherits the environment, and puts back  *)
(* what was there.  A round of each of the two loops is a step.            *)
(***************************************************************************)
EXTENDS Integers, Sequences

CONSTANTS
  Names,    \* environment variables
  Values,   \* what a variable may hold
  Empty,    \* the empty string, one of them
  Unset,    \* getenv() returns NULL
  MaxVars   \* bound: assignments of one command

ASSUME EnvAssumption ==
  /\ Empty \in Values /\ Unset \notin Values
  /\ MaxVars \in Nat

VARIABLES
  env,       \* the environment of the agent
  given,     \* envNames and envValues
  backup,    \* what getenv() returned, a string
  i,         \* the round of the loop
  stage,
  original,  \* history: the environment before exec
  child      \* history: the environment popen() passed on

envVars == <<env, given, backup, i, stage, original, child>>

Environments == [Names -> Values \cup {Unset}]
Assignments == UNION {[1 .. n -> Names \X Values] : n \in 0 .. MaxVars}

NameAt(k) == given[k][1]
ValueAt(k) == given[k][2]

EnvInit ==
  /\ env \in Environments /\ original = env /\ child = env
  /\ given \in Assignments
  /\ backup = <<>> /\ i = 1
  /\ stage = "set"

\* setenv() replaces the value that is there; without its last argument it
\* would not (faulty variant).
SetenvKeeping(n, v) == env' = [env EXCEPT ![n] = IF @ = Unset THEN v ELSE @]

Setenv(n, v) == env' = [env EXCEPT ![n] = v]

\* Faulty variant: the NULL of getenv() is stored.
SetStoringNull ==
  /\ stage = "set" /\ i <= Len(given)
  /\ backup' = Append(backup, env[NameAt(i)])
  /\ Setenv(NameAt(i), ValueAt(i))
  /\ i' = i + 1
  /\ UNCHANGED <<given, stage, original, child>>

\* The backup cannot tell a variable that is not set from an empty one.
Set ==
  /\ stage = "set" /\ i <= Len(given)
  /\ backup' = Append(backup, IF env[NameAt(i)] = Unset THEN Empty ELSE env[NameAt(i)])
  /\ Setenv(NameAt(i), ValueAt(i))
  /\ i' = i + 1
  /\ UNCHANGED <<given, stage, original, child>>

Launch ==
  /\ stage = "set" /\ i > Len(given)
  /\ child' = env
  /\ i' = 1
  /\ stage' = "restore"
  /\ UNCHANGED <<env, given, backup, original>>

\* Faulty variant: what was not set before keeps the value of the subprocess.
RestoreSetOnly ==
  /\ stage = "restore" /\ i <= Len(given)
  /\ env' = IF backup[i] = Empty THEN env ELSE [env EXCEPT ![NameAt(i)] = backup[i]]
  /\ i' = i + 1
  /\ UNCHANGED <<given, backup, stage, original, child>>

\* The restoration runs in the order of the assignments.
Restore ==
  /\ stage = "restore" /\ i <= Len(given)
  /\ env' = [env EXCEPT ![NameAt(i)] = IF backup[i] = Empty THEN Unset ELSE backup[i]]
  /\ i' = i + 1
  /\ UNCHANGED <<given, backup, stage, original, child>>

Finish ==
  /\ stage = "restore" /\ i > Len(given)
  /\ stage' = "done"
  /\ UNCHANGED <<env, given, backup, i, original, child>>

EnvNext == Set \/ Launch \/ Restore \/ Finish

EnvSpec == EnvInit /\ [][EnvNext]_envVars
-----------------------------------------------------------------------------
Places(n) == {k \in 1 .. Len(given) : NameAt(k) = n}

EnvTypeOK ==
  /\ env \in Environments /\ original \in Environments /\ child \in Environments
  /\ given \in Assignments /\ backup \in Seq(Values)
  /\ i \in 1 .. Len(given) + 1
  /\ stage \in {"set", "restore", "done"}

\* The subprocess sees the last value given to each variable, and every other
\* variable as the agent has it.
ChildSeesAssignments ==
  stage # "set" => \A n \in Names :
    child[n] = IF Places(n) = {} THEN original[n]
               ELSE ValueAt(CHOOSE k \in Places(n) : \A j \in Places(n) : j <= k)

\* A variable that the command assigns at most once, and that was not empty, is
\* afterwards what it was before.
RestoredIfAssignedOnce ==
  stage = "done" => \A n \in Names :
    (\A j, k \in Places(n) : j = k) /\ original[n] # Empty => env[n] = original[n]

\* SubprocessEventHandler.cpp:42 and 57: "set the env envVars and backup the old
\* vals", "restore the env".  Afterwards the environment is what it was.
Restored == stage = "done" => env = original
=============================================================================
