---------------------------- MODULE MCToolBatch ----------------------------
(***************************************************************************)
(* Instances of ToolBatch for TLC.                                         *)
(***************************************************************************)
EXTENDS ToolBatch

\* The settle writes of the earlier turns were lost.
Ledger == [i \in Ids |-> IF i \in Earlier THEN "Started" ELSE "none"]
=============================================================================
