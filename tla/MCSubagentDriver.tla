-------------------------- MODULE MCSubagentDriver --------------------------
(***************************************************************************)
(* Two calls for one task, each through any of two drivers that share an   *)
(* in-flight map and one that has its own.                                 *)
(***************************************************************************)
EXTENDS SubagentDriver, TLC

CONSTANTS c1, c2, d1, d2, d3, g1, g2

TwoGroups == (d1 :> g1) @@ (d2 :> g1) @@ (d3 :> g2)
=============================================================================
