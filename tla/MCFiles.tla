------------------------------ MODULE MCFiles -------------------------------
(***************************************************************************)
(* What sessions hold open, for TLC: the descriptors of the process        *)
(* (Descriptors) and the files they transfer (FileTransfer).  Each has its *)
(* own view of a session, so a behaviour is one of either while the other  *)
(* rests.                                                                  *)
(***************************************************************************)
EXTENDS Descriptors, FileTransfer

MCRanges == {<<1, 0>>, <<1, 4>>}

ASSUME TransfersAssumed == TransferAssumption

VARIABLE part \* the one at work

filesVars == <<part, descriptorsVars, vars>>

FilesInit ==
  /\ part \in {"descriptors", "transfer"}
  /\ (part # "descriptors" => start = 0) /\ DescriptorsInit
  /\ (part # "transfer" => names = <<0, 0>>) /\ Init

DescriptorsStep == part = "descriptors" /\ DescriptorsNext /\ UNCHANGED <<part, vars>>
TransferStep == part = "transfer" /\ Next /\ UNCHANGED <<part, descriptorsVars>>
PullStep(s) ==
  part = "transfer" /\ PullEvent(s) /\ ReadNext(s) /\ UNCHANGED <<part, descriptorsVars>>

FilesNext == DescriptorsStep \/ TransferStep

\* The fairness of FairSpec.
FilesSpec ==
  /\ FilesInit /\ [][FilesNext]_filesVars
  /\ \A s \in Sessions : WF_filesVars(PullStep(s))
=============================================================================
