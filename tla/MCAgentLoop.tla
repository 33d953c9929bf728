---------------------------- MODULE MCAgentLoop ----------------------------
(* Small instances of AgentLoop. *)
EXTENDS AgentLoop

\* One of each recovery; two retries of a truncated tool call.
MCRetries == [b \in Budgets |-> IF b \in {"cut"} THEN 2 ELSE 1]
=============================================================================
