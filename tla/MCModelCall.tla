---------------------------- MODULE MCModelCall ----------------------------
(***************************************************************************)
(* Instances of ModelCall for TLC.                                         *)
(***************************************************************************)
EXTENDS ModelCall, TLC

\* "a" is bound by default and the chain names it twice; "b" has a larger
\* window; "d", which heads the chain, does not resolve; "x" is steered to from
\* outside.  Only "a" identifies itself to the cache.
Named == <<"d", "a", "b", "a">>
Spares == <<"d", "b">>
Built == {[hosted |-> FALSE, wrap |-> w] : w \in {"none", "retry", "fallback"}}
         \cup {[hosted |-> TRUE, wrap |-> "fallback"]}
Identities == [m \in {"a", "b", "d", "x"} |-> IF m = "a" THEN m ELSE NoIdentity]
Windows == ("a" :> 1) @@ ("b" :> 2) @@ ("d" :> 0) @@ ("x" :> 0)
=============================================================================
