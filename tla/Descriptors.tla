---------------------------- MODULE Descriptors ----------------------------
(***************************************************************************)
(* The descriptors of the agent's process, of which the system allows a    *)
(* fixed number: who opens one, who closes it, who forgets to, and what    *)
(* becomes of the agent when there are none left.  NSPR and stdio report   *)
(* that by a null pointer; some callers look at it and some do not.        *)
(*                                                                         *)
(* A step is one call of a handler, at the end of which the descriptors    *)
(* that it opens and closes itself are free again.  Commands and their     *)
(* protocol are in CommandSession; here a session is only what it holds.   *)
(***************************************************************************)
EXTENDS Integers, FiniteSets

CONSTANTS
  Connections,  \* connections of either port
  Limit,     \* descriptors the process may have besides the standard ones
  Depth,     \* bound: nested directories that rmdr has open at a time
  AtStart    \* how many may be forgotten before the loop

Acceptors == 2
Forgetful == {"kill", "memory", "abandoned"}
Transfers == {"pull", "push", "exec"}

\* exec and the helpers that run a program need both ends of a pipe for a while.
Needs == [k \in Transfers |-> IF k = "exec" THEN 2 ELSE 1]
Queries == {1, 2}

ASSUME DescriptorsAssumption ==
  /\ IsFiniteSet(Connections)
  /\ Limit \in Nat /\ Depth \in Nat \ {0} /\ AtStart \in Nat
  /\ Acceptors + AtStart < Limit

VARIABLES
  session,  \* what each connection does: "none", "idle" or a transfer
  used,     \* descriptors in use
  crashed,
  \* history
  start,    \* those forgotten before the loop
  lost,     \* those forgotten since, by cause
  refused   \* a command or a connection wanted one more than there was

descriptorsVars == <<session, used, crashed, start, lost, refused>>

Fits(n) == used + n <= Limit

DescriptorsInit ==
  /\ session = [h \in Connections |-> "none"]
  /\ start \in 0 .. AtStart
  /\ used = Acceptors + start
  /\ crashed = FALSE
  /\ lost = [k \in Forgetful |-> 0]
  /\ refused = FALSE

\* A null pointer that is used, and one that is answered with a warning.
UseNull ==
  /\ crashed' = TRUE /\ refused' = TRUE
  /\ UNCHANGED <<session, used, start, lost>>

Refuse ==
  /\ refused' = TRUE
  /\ UNCHANGED <<session, used, crashed, start, lost>>

Lose(k) == lost' = [lost EXCEPT ![k] = @ + 1]
-----------------------------------------------------------------------------
(***************************************************************************)
(* Connections and transfers.                                              *)
(***************************************************************************)
\* The acceptor does not look at what PR_Accept() returned.
Accept(h) ==
  /\ session[h] = "none"
  /\ \/ /\ Fits(1)
        /\ session' = [session EXCEPT ![h] = "idle"]
        /\ used' = used + 1
        /\ UNCHANGED <<crashed, start, lost, refused>>
     \/ ~Fits(1) /\ UseNull

Begin(h, k) ==
  /\ session[h] = "idle"
  /\ \/ /\ Fits(Needs[k])
        /\ session' = [session EXCEPT ![h] = k]
        /\ used' = used + 1
        /\ UNCHANGED <<crashed, start, lost, refused>>
     \/ ~Fits(Needs[k]) /\ Refuse

\* Faulty variant: the data handler is deleted and its file stays open.
CompleteOpen(h) ==
  /\ session[h] \in Transfers
  /\ session' = [session EXCEPT ![h] = "idle"]
  /\ UNCHANGED <<used, crashed, start, lost, refused>>

\* A data handler closes itself before it is deleted.
Complete(h) ==
  /\ session[h] \in Transfers
  /\ session' = [session EXCEPT ![h] = "idle"]
  /\ used' = used - 1
  /\ UNCHANGED <<crashed, start, lost, refused>>

\* The client has ended its side, or quits: the session closes its socket.
Leave(h) ==
  /\ session[h] = "idle"
  /\ session' = [session EXCEPT ![h] = "none"]
  /\ used' = used - 1
  /\ UNCHANGED <<crashed, start, lost, refused>>

\* The client ends its side during a push, or together with the command that
\* starts a transfer: the data handler is deleted and not closed.
Abandon(h, k) ==
  /\ \/ session[h] = "push" /\ k = "push" /\ used' = used - 1
     \/ session[h] = "idle" /\ Fits(Needs[k]) /\ used' = used
  /\ session' = [session EXCEPT ![h] = "none"]
  /\ Lose("abandoned")
  /\ UNCHANGED <<crashed, start, refused>>
-----------------------------------------------------------------------------
(***************************************************************************)
(* Commands that are done in one call.                                     *)
(***************************************************************************)
Commanding == \E h \in Connections : session[h] = "idle"

\* kill does not close /proc, and does not look at whether it could be opened.
Kill ==
  /\ Commanding
  /\ \/ /\ Fits(1)
        /\ used' = used + 1
        /\ Lose("kill")
        /\ refused' = (refused \/ ~Fits(2))
        /\ UNCHANGED <<session, crashed, start>>
     \/ ~Fits(1) /\ UseNull

\* info memory does not close /proc/meminfo.
Memory ==
  /\ Commanding
  /\ \/ /\ Fits(1)
        /\ used' = used + 1
        /\ Lose("memory")
        /\ UNCHANGED <<session, crashed, start, refused>>
     \/ ~Fits(1) /\ Refuse

\* The helpers of info, ps and hash close what they open, and answer an empty
\* string or a warning if they cannot.
Query ==
  /\ Commanding
  /\ \E n \in Queries : ~Fits(n)
  /\ Refuse

\* ls and rmdr close the directories they open, and do not look at whether they
\* could; rmdr has as many open as it is deep.
Directories ==
  /\ Commanding
  /\ \E n \in 1 .. Depth : ~Fits(n)
  /\ UseNull

DescriptorsNext ==
  /\ ~crashed
  /\ \/ \E h \in Connections :
          \/ Accept(h) \/ Complete(h) \/ Leave(h)
          \/ \E k \in Transfers : Begin(h, k) \/ Abandon(h, k)
     \/ Kill \/ Memory \/ Query \/ Directories

DescriptorsSpec == DescriptorsInit /\ [][DescriptorsNext]_descriptorsVars
-----------------------------------------------------------------------------
TypeOK ==
  /\ session \in [Connections -> {"none", "idle"} \cup Transfers]
  /\ used \in Acceptors .. Limit
  /\ crashed \in BOOLEAN /\ refused \in BOOLEAN
  /\ start \in 0 .. AtStart
  /\ lost \in [Forgetful -> Nat]

Lost == lost["kill"] + lost["memory"] + lost["abandoned"]

\* What one call may need beyond what the sessions hold.
Passing == IF Depth > 2 THEN Depth ELSE 2

\* What is left to forget if every session works at once.
Spare == Limit - Acceptors - start - 2 * Cardinality(Connections) - Passing

\* The agent runs short of descriptors, refuses a command or crashes for it,
\* only after kill, info memory and clients that left in mid-transfer have made
\* it forget all that it has to spare: clients that do without may go on for
\* ever.
ShortOnlyIfForgotten == refused \/ crashed => Lost > Spare
=============================================================================
