-------------------------- MODULE CompletionOutbox --------------------------
(***************************************************************************)
(* The outbox that CompletionRouter and its DriverCompletionStore promise  *)
(* to whoever delivers completions (tinyagents-tasks, completions/         *)
(* router.rs and driver.rs): at-least-once delivery through claims.  A     *)
(* completion is claimed by one deliverer at a time; only a deliverer      *)
(* whose claim lasts settles it; it is given up after MaxAttempts claims   *)
(* and not before.  Stores, gates, generations, tokens and leases are how  *)
(* the code earns this and are not part of it.                             *)
(***************************************************************************)
EXTENDS Naturals

CONSTANTS Records, MaxAttempts

VARIABLE box

\* claim: nobody's, somebody's, or lost, when the one who has it went away
\* without a word and the claim has to expire.
Pending(n, claim) == [state |-> "Pending", attempts |-> n, claim |-> claim]

Settled(s) == [state |-> s, attempts |-> 0, claim |-> "none"]

Absent == Settled("Absent")

Init == box \in [Records -> {Absent, Pending(0, "none")}]

-----------------------------------------------------------------------------
(* What may become of one completion: e before the step, f after it.       *)

Publish(e, f) == e = Absent /\ f = Pending(0, "none")

\* Every claim counts, up to the number that is looked at.
Counted(n) == IF n < MaxAttempts THEN n + 1 ELSE n

Claim(e, f) ==
    /\ e.state = "Pending" /\ e.claim = "none"
    /\ \E c \in {"held", "lost"} : f = Pending(Counted(e.attempts), c)

Lose(e, f) == e.claim = "held" /\ f = Pending(e.attempts, "lost")

\* The claim is released, its turn failed, or it expired: the attempt stays
\* counted.
GiveBack(e, f) == e.claim \in {"held", "lost"} /\ f = Pending(e.attempts, "none")

Deliver(e, f) == e.claim = "held" /\ f = Settled("Delivered")

GiveUp(e, f) == e.claim = "held" /\ e.attempts = MaxAttempts /\ f = Settled("GaveUp")

\* Whatever it is by now: a tombstone may come late.
Withdraw(e, f) == f = Settled("Tombstoned")

Compact(e, f) == e.state \in {"Delivered", "GaveUp", "Tombstoned"} /\ f = Absent

Move(e, f) ==
    \/ Publish(e, f) \/ Claim(e, f) \/ Lose(e, f) \/ GiveBack(e, f)
    \/ Deliver(e, f) \/ GiveUp(e, f) \/ Withdraw(e, f) \/ Compact(e, f)

\* A batch moves several completions at once.
Next == \A r \in Records : box'[r] = box[r] \/ Move(box[r], box'[r])

Spec == Init /\ [][Next]_box
=============================================================================
