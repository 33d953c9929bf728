-------------------------- MODULE MCDeliveryDrain --------------------------
(***************************************************************************)
(* Two workers in two processes serve one parent with two completions.     *)
(***************************************************************************)
EXTENDS DeliveryDrain
=============================================================================
