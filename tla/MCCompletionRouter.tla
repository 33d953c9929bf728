------------------------ MODULE MCCompletionRouter ------------------------
(***************************************************************************)
(* Instances of CompletionRouter for TLC.                                  *)
(***************************************************************************)
EXTENDS CompletionRouter, TLC

AllFollowup == [t \in Tasks |-> "Followup"]

AllHeld == [t \in Tasks |-> "HoldForNextTurn"]

RouterSymmetry == Permutations(Routers)
===========================================================================
