----------------------------- MODULE MCCommands -----------------------------
(***************************************************************************)
(* The commands exec and rmdr for TLC.  exec takes its line apart          *)
(* (ExecArguments), and changes and restores the environment around the    *)
(* subprocess (ExecEnv); a line that TLC can enumerate is too short for    *)
(* more than two assignments, so that the second part starts from any list *)
(* of them.  rmdr removes a directory (RemoveTree).  A behaviour is one of *)
(* these three while the others rest: a session runs a command at a time.  *)
(*                                                                         *)
(* The tree of rmdr is a directory r with a directory d, a file f in it    *)
(* and a link l somewhere below r; a directory o elsewhere with a file g.  *)
(* Another process may also make a link s that is called d.                *)
(***************************************************************************)
EXTENDS ExecArguments, ExecEnv, RemoveTree

MCKind == [r |-> "dir", d |-> "dir", f |-> "file", l |-> "link",
           o |-> "dir", g |-> "file", s |-> "link"]
MCNodes == DOMAIN MCKind
MCName == [n \in MCNodes |-> IF n = "s" THEN "d" ELSE n]

Shape(f, l) == [r |-> "top", d |-> "r", f |-> f, l |-> l, o |-> "top", g |-> "o",
                s |-> "absent"]
NoTree == [Shape("d", "absent") EXCEPT !["r"] = "absent", !["d"] = "absent", !["f"] = "absent"]
MCShapes == {Shape(f, l) : f \in {"r", "d"}, l \in {"r", "d", "absent"}} \cup {NoTree}
MCTargets == {[l |-> t, s |-> "o"] : t \in {"r", "d", "f", "o", "absent"}}

\* Bound: other processes change a tree that can be read, and change it again only
\* if it was one of these and its links are; two changes put one thing in the
\* place of another.
FewShapes == {Shape("d", l) : l \in {"d", "absent"}}
FewTargets == {[l |-> t, s |-> "o"] : t \in {"r", "o"}}
Changeable ==
  /\ unreadable = {}
  /\ others > 0 => start.parent \in FewShapes /\ target \in FewTargets /\ unwritable = {}

VARIABLE part  \* the one at work

ASSUME ArgsAssumed == CharacterAssumption
ASSUME TreeAssumed == TreeAssumption

commandsVars == <<part, envVars, lineVars, vars>>

CommandsInit ==
  /\ part \in {"line", "environment", "rmdr"}
  /\ (part # "environment" => given = <<>> /\ env = [n \in Names |-> Unset]) /\ EnvInit
  /\ (part # "line" => line = <<>>) /\ LineInit
  /\ (part # "rmdr" => /\ parent = NoTree /\ target = [l |-> "absent", s |-> "o"]
                       /\ unwritable = {} /\ unreadable = {})
  /\ Init

LineStep == part = "line" /\ LineNext /\ UNCHANGED <<part, envVars, vars>>
EnvironmentStep == part = "environment" /\ EnvNext /\ UNCHANGED <<part, lineVars, vars>>
RmdrStep == part = "rmdr" /\ Step /\ UNCHANGED <<part, envVars, lineVars>>
OthersStep ==
  part = "rmdr" /\ Changeable /\ Others /\ UNCHANGED <<part, envVars, lineVars>>

CommandsNext == LineStep \/ EnvironmentStep \/ RmdrStep \/ OthersStep

\* The agent does nothing else until the command is done.
CommandsSpec ==
  /\ CommandsInit /\ [][CommandsNext]_commandsVars
  /\ WF_commandsVars(LineStep) /\ WF_commandsVars(RmdrStep)

\* Types; what strtok() cuts out of a line is never empty; and the descriptors
\* of rmdr are those of the directories it is in.
CommandsTypeOK == EnvTypeOK /\ LineTypeOK /\ TypeOK

\* Both commands end.  exec gets through every well-formed line; rmdr also if a
\* link in the tree leads around in a circle, and only a directory that it
\* cannot open stops the agent in it.
CommandsEnd == LineEnds /\ (part = "rmdr" => Ends)
=============================================================================
