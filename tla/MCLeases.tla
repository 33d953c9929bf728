------------------------------ MODULE MCLeases ------------------------------
(***************************************************************************)
(* Instances of Leases for TLC.                                            *)
(***************************************************************************)
EXTENDS Leases, TLC

CONSTANTS a1, a2, a3

\* Two incarnations of one holder, and a holder of its own.
TwoIncarnations == (a1 :> "h1") @@ (a2 :> "h1") @@ (a3 :> "h2")
\* The two incarnations behave alike.
IncarnationSymmetry == Permutations({a1, a2})
=============================================================================
