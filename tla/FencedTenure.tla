---------------------------- MODULE FencedTenure ----------------------------
(***************************************************************************)
(* What the code expects of a fence: a lock that is held in tenures, each  *)
(* of which is lost for good once another one begins.  Whoever lost one    *)
(* may not know it yet, but nothing it does makes the tenure current       *)
(* again.  Leases earns this with holders, epochs and compare-and-swap     *)
(* (tinyagents-storage-kit, primitives/leases.rs); the gates of            *)
(* CompletionRouter and the thread lease of DeliveryDrain are used as such *)
(* a lock.                                                                 *)
(***************************************************************************)
CONSTANTS Locks,    \* independent locks
          Actors,   \* who may hold them
          Mates     \* pairs whose first may join a tenure of the second

\* The tenure each actor has of each lock: none, the current one, or one that is
\* over.
VARIABLE hold

Init == hold = [k \in Locks |-> [a \in Actors |-> "none"]]

-----------------------------------------------------------------------------
(* What may become of the tenures of one lock: h before the step, g after. *)

Over(h) == [b \in Actors |-> IF h[b] = "none" THEN "none" ELSE "lost"]

\* A new tenure: every other is over.
Grant(h, g, a) == g = [Over(h) EXCEPT ![a] = "current"]

\* Into the tenure that is current, if it is a mate's or nobody has it any more.
Join(h, g, a) ==
    /\ \A b \in Actors \ {a} : h[b] = "current" => <<a, b>> \in Mates
    /\ g = [h EXCEPT ![a] = "current"]

\* The tenure ends under whoever has it.
Expire(h, g) == g = Over(h)

\* Given up, dropped or forgotten by its holder.
Drop(h, g, a) == g = [h EXCEPT ![a] = "none"]

Move(h, g) ==
    \/ \E a \in Actors : Grant(h, g, a) \/ Join(h, g, a) \/ Drop(h, g, a)
    \/ Expire(h, g)

Next == \A k \in Locks : hold'[k] = hold[k] \/ Move(hold[k], hold'[k])

Spec == Init /\ [][Next]_hold
=============================================================================
