------------------------- MODULE MCDriverTaskStore -------------------------
(***************************************************************************)
(* Instances of DriverTaskStore for TLC.                                   *)
(***************************************************************************)
EXTENDS DriverTaskStore
=============================================================================
