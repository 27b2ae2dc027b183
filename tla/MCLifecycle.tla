---------------------------- MODULE MCLifecycle ----------------------------
(***************************************************************************)
(* The start of the agent for TLC: its life from one start to the next     *)
(* (Lifecycle), and the reading of the ini file (IniFile) and the writing  *)
(* of the query (QueryUrl) that are one step of it, Register.  A behaviour *)
(* is one of the three while the others rest: all that Lifecycle sees of   *)
(* the other two is whether a query is sent.                               *)
(***************************************************************************)
EXTENDS Lifecycle, IniFile, QueryUrl

CONSTANTS a1, a2

MCAddresses == {a1, a2}

\* The default of the heartbeat, the largest port that fits, the smallest that
\* does not, and a number that is no port and becomes the default.
MCPorts == {20700, 32767, 32768, 86236}

\* The codes of the signs that a query is made of; two digits are enough to
\* tell them apart.
MCHex ==
  [c \in {"&", "=", "%"} |->
     CASE c = "&" -> <<"2", "2">> [] c = "=" -> <<"2", "5">> [] OTHER -> <<"5", "2">>]

VARIABLE part  \* the one at work

ASSUME IniAssumed == IniAssumption
ASSUME UrlAssumed == UrlAssumption

startVars == <<part, vars, iniVars, queryVars>>

StartInit ==
  /\ part \in {"life", "ini", "query"}
  /\ (part # "life" => testRoot = StartDir /\ args = [k \in Kinds |-> 32767]) /\ Init
  /\ (part # "ini" => file = Missing) /\ IniInit
  /\ (IF part = "query" THEN SomeData ELSE pairs = <<>>) /\ Unwritten

LifeStep == part = "life" /\ Next /\ UNCHANGED <<part, iniVars, queryVars>>
IniStep == part = "ini" /\ IniNext /\ UNCHANGED <<part, vars, queryVars>>
QueryStep == part = "query" /\ QueryNext /\ UNCHANGED <<part, vars, iniVars>>

StartNext == LifeStep \/ IniStep \/ QueryStep

StartSpec == StartInit /\ [][StartNext]_startVars
=============================================================================
