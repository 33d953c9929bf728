------------------------------- MODULE Leases -------------------------------
(***************************************************************************)
(* One lease of Leases (crates/tinyagents-storage-kit/src/primitives/      *)
(* leases.rs), and the resource its write condition fences.                *)
(*                                                                         *)
(* Every operation is a compare-and-swap loop of Repo::update: it reads    *)
(* the record, decides by its own clock, and writes if nobody wrote in     *)
(* between.  Actors are incarnations of holders; two of them may go by the *)
(* same holder string.  Clocks are off by at most Skew.                    *)
(***************************************************************************)
EXTENDS Naturals

CONSTANTS Actors,     \* incarnations that use the lease
          HolderOf,   \* the holder string each goes by
          Plain,      \* the actors that call acquire; the others acquire_with
          TTL,        \* ttl_ms
          Skew,       \* how far a clock may be from the backend's
          MaxEpoch,   \* the largest epoch (u64::MAX in the code)
          MaxTime     \* bound: the clock stops here

Holders == {HolderOf[a] : a \in Actors}
NoHolder == "no holder"

ASSUME PlainAssumption == Plain \subseteq Actors
ASSUME HolderAssumption ==
    NoHolder \notin Holders /\ HolderOf = [a \in Actors |-> HolderOf[a]]
ASSUME NumberAssumption ==
    /\ TTL \in Nat \ {0} /\ Skew \in Nat
    /\ MaxEpoch \in Nat \ {0} /\ MaxTime \in Nat

VARIABLES lease,      \* the stored Body
          now,        \* the backend's clock
          call,       \* the call each actor is in the middle of
          tenure,     \* epoch of the Lease each actor was given last, 0: none
          written,    \* the last fenced write: its epoch and its author
          retired     \* the key will not be acquired again

vars == <<lease, now, call, tenure, written, retired>>

LeaseEpoch == 0 .. MaxEpoch
Instant == 0 .. MaxTime + Skew + TTL

Body == [holder : Holders \cup {NoHolder}, epoch : LeaseEpoch, expires : Instant,
         released : BOOLEAN]

NoLease == [holder |-> NoHolder, epoch |-> 0, expires |-> 0, released |-> FALSE]

Operation == {"acquire", "acquire_with", "renew", "release", "compact"}

\* at is the clock release read before its loop; raced says a swap was lost;
\* stale says somebody wrote the record after this call read it.
CallState == [op : Operation \cup {"none"}, phase : {"idle", "read", "swap"},
              at : 0 .. MaxTime + Skew, raced : BOOLEAN, stale : BOOLEAN, next : Body]

IdleCall == [op |-> "none", phase |-> "idle", at |-> 0, raced |-> FALSE,
             stale |-> FALSE, next |-> NoLease]

Init ==
    /\ lease = NoLease
    /\ now = 0
    /\ call = [a \in Actors |-> IdleCall]
    /\ tenure = [a \in Actors |-> 0]
    /\ written = [epoch |-> 0, author |-> NoHolder]
    /\ retired = FALSE

-----------------------------------------------------------------------------
\* What an actor's clock may show.
Clock(n) == {t \in 0 .. MaxTime + Skew : n <= t + Skew /\ t <= n + Skew}

\* LeaseRecord::is_live
Live(body, t) == body.expires > t /\ ~body.released

\* Leases::deadline
Deadline(t) == t + TTL

\* The record is this actor's tenure: holder and epoch of its Lease.
OwnTenure(a) == lease.holder = HolderOf[a] /\ lease.epoch = tenure[a]

\* Mutated form: a live record of the same holder is always a dead leftover.
HeldForEagerly(a, t) == Live(lease, t) /\ lease.holder # HolderOf[a]

\* acquire_with answers Held: another holder, a competing call that won the
\* race, or a caller that knows an epoch that is over.
HeldFor(a, t) ==
    /\ Live(lease, t)
    /\ ~OwnTenure(a)
    /\ lease.holder # HolderOf[a] \/ call[a].raced \/ tenure[a] # 0

\* The closure of Repo::update declines.
Declines(a, t) ==
    CASE call[a].op = "acquire" -> Live(lease, t) /\ lease.holder # HolderOf[a]
      [] call[a].op = "acquire_with" -> HeldFor(a, t)
      [] call[a].op = "compact" -> ~OwnTenure(a)
      [] OTHER -> ~(OwnTenure(a) /\ Live(lease, t))

\* The record is the caller's own live tenure, extended in place.
Reentrant(a, t) ==
    /\ Live(lease, t)
    /\ lease.holder = HolderOf[a]
    /\ call[a].op = "acquire" \/ OwnTenure(a)

\* Mutated form: a released lease goes on in its epoch.
GrantedEpochKept(a, t) ==
    IF Reentrant(a, t) \/ lease.released THEN lease.epoch ELSE lease.epoch + 1

\* A new tenure continues the epoch of the record it replaces.
GrantedEpoch(a, t) == IF Reentrant(a, t) THEN lease.epoch ELSE lease.epoch + 1

\* checked_add of the epoch fails.
Overflows(a, t) ==
    call[a].op \in {"acquire", "acquire_with"} /\ GrantedEpoch(a, t) > MaxEpoch

NextBody(a, t) ==
    CASE call[a].op = "renew" -> [lease EXCEPT !.expires = Deadline(t)]
      [] call[a].op = "release" -> [lease EXCEPT !.expires = t, !.released = TRUE]
      [] call[a].op = "compact" -> NoLease
      [] OTHER -> [holder |-> HolderOf[a], epoch |-> GrantedEpoch(a, t),
                   expires |-> Deadline(t), released |-> FALSE]

-----------------------------------------------------------------------------
(***************************************************************************)
(* A call: start, read and decide, swap.                                   *)
(***************************************************************************)
Acquires(op) == op \in {"acquire", "acquire_with"}

\* compact comes with its caller's promise that nothing acquires the key again.
Start(a, op) ==
    /\ call[a].phase = "idle"
    /\ op = "acquire" => a \in Plain
    /\ op = "acquire_with" => a \notin Plain
    /\ Acquires(op) => ~retired
    /\ ~Acquires(op) => tenure[a] # 0
    /\ op = "compact" => \A b \in Actors : ~Acquires(call[b].op)
    /\ retired' = (retired \/ op = "compact")
    /\ \E t \in Clock(now) :
         call' = [call EXCEPT ![a] =
                    [IdleCall EXCEPT !.op = op, !.phase = "read",
                                     !.at = IF op = "release" THEN t ELSE 0]]
    /\ UNCHANGED <<lease, now, tenure, written>>

\* release read its clock before the loop; the others read it in the closure.
DecisionTime(a) == IF call[a].op = "release" THEN {call[a].at} ELSE Clock(now)

\* The read is refused, or the next epoch does not fit.
ReadDeclined(a) ==
    /\ call[a].phase = "read"
    /\ \E t \in DecisionTime(a) : Declines(a, t) \/ Overflows(a, t)
    /\ call' = [call EXCEPT ![a] = IdleCall]
    /\ UNCHANGED <<lease, now, tenure, written, retired>>

ReadAccepted(a) ==
    /\ call[a].phase = "read"
    /\ \E t \in DecisionTime(a) :
         /\ ~Declines(a, t) /\ ~Overflows(a, t)
         /\ call' = [call EXCEPT ![a] = [@ EXCEPT !.phase = "swap", !.stale = FALSE,
                                                  !.next = NextBody(a, t)]]
    /\ UNCHANGED <<lease, now, tenure, written, retired>>

\* Precondition::Version, or Absent: nobody wrote since the read.
SwapHolds(a) == ~call[a].stale

SwapWon(a) ==
    /\ call[a].phase = "swap"
    /\ SwapHolds(a)
    /\ lease' = call[a].next
    /\ call' = [b \in Actors |->
                  IF b = a THEN IdleCall
                  ELSE [call[b] EXCEPT !.stale = @ \/ call[b].phase = "swap"]]
    /\ tenure' = [tenure EXCEPT ![a] = IF Acquires(call[a].op) THEN call[a].next.epoch ELSE @]
    /\ UNCHANGED <<now, written, retired>>

SwapLost(a) ==
    /\ call[a].phase = "swap"
    /\ ~SwapHolds(a)
    /\ call' = [call EXCEPT ![a] = [@ EXCEPT !.phase = "read", !.raced = TRUE,
                                             !.stale = FALSE, !.next = NoLease]]
    /\ UNCHANGED <<lease, now, tenure, written, retired>>

\* A storage error, an exhausted retry budget or a dropped future.
CallFails(a) ==
    /\ call[a].phase # "idle"
    /\ call' = [call EXCEPT ![a] = IdleCall]
    /\ UNCHANGED <<lease, now, tenure, written, retired>>

\* The incarnation dies, or drops its Lease; a new one starts from nothing.
Forget(a) ==
    /\ tenure[a] # 0 \/ call[a].phase # "idle"
    /\ tenure' = [tenure EXCEPT ![a] = 0]
    /\ call' = [call EXCEPT ![a] = IdleCall]
    /\ UNCHANGED <<lease, now, written, retired>>

-----------------------------------------------------------------------------
\* Mutated form: the condition names the holder and not the epoch.
FenceByHolder(a) == lease.holder = HolderOf[a] /\ Live(lease, now)

\* Lease::write_condition, judged by the backend as it writes.
Fence(a) == OwnTenure(a) /\ Live(lease, now)

\* A write to the fenced resource by whoever still has the Lease, even one that
\* knows it has lost it.
FencedWrite(a) ==
    /\ tenure[a] # 0
    /\ Fence(a)
    /\ written' = [epoch |-> tenure[a], author |-> a]
    /\ UNCHANGED <<lease, now, call, tenure, retired>>

Tick ==
    /\ now < MaxTime
    /\ now' = now + 1
    /\ UNCHANGED <<lease, call, tenure, written, retired>>

Next ==
    \/ \E a \in Actors :
         \/ \E op \in Operation : Start(a, op)
         \/ ReadDeclined(a)
         \/ ReadAccepted(a)
         \/ SwapWon(a)
         \/ SwapLost(a)
         \/ CallFails(a)
         \/ Forget(a)
         \/ FencedWrite(a)
    \/ Tick

Spec == Init /\ [][Next]_vars

-----------------------------------------------------------------------------
(***************************************************************************)
(* Properties.                                                             *)
(***************************************************************************)
\* The types of the record, the calls and the actors' knowledge.
TypeOK ==
    /\ lease \in Body
    /\ now \in 0 .. MaxTime
    /\ call \in [Actors -> CallState]
    /\ tenure \in [Actors -> LeaseEpoch]
    /\ written \in [epoch : LeaseEpoch, author : Actors \cup {NoHolder}]
    /\ retired \in BOOLEAN

\* An epoch is given to one incarnation.  Two share it only if they go by the
\* same holder string and one of them used acquire, which treats any live record
\* of its holder as its own.
UniqueTenure ==
    \A a, b \in Actors :
       a # b /\ tenure[a] # 0 /\ tenure[a] = tenure[b]
          => HolderOf[a] = HolderOf[b] /\ (a \in Plain \/ b \in Plain)

\* Fenced writes come tenure by tenure: once a later tenure has written, no
\* writer of an earlier one gets through, however late it is.
FencedWritesAdvance ==
    [][written' # written =>
         \/ written'.epoch > written.epoch
         \/ /\ written'.epoch = written.epoch
            /\ HolderOf[written'.author] = HolderOf[written.author]]_vars

\* A tenure that every clock still calls live is cut short only by a fresh
\* incarnation of its own holder, never by another holder, by a competing call
\* that lost its race, or by an actor that holds an epoch that is over.
LiveTenureProtected ==
    [][/\ ~lease.released /\ lease.expires > now + Skew
       /\ lease'.epoch # lease.epoch /\ ~retired
       => \E a \in Actors :
            /\ call[a].op = "acquire_with" /\ ~call[a].raced
            /\ HolderOf[a] = lease.holder /\ tenure[a] = 0
            /\ tenure'[a] = lease'.epoch]_vars

\* While the key is in use its epoch never goes back, and the holder changes
\* only together with the epoch.
EpochAdvances ==
    [][lease' # lease /\ ~retired =>
         \/ lease'.epoch = lease.epoch + 1
         \/ lease'.epoch = lease.epoch /\ lease'.holder = lease.holder]_vars

\* The lease as a fence: a tenure is current as long as the record names its
\* holder and its epoch.  An incarnation that uses acquire joins the tenure of
\* another one of its holder.
TenureOf(a) == IF tenure[a] = 0 THEN "none" ELSE IF OwnTenure(a) THEN "current" ELSE "lost"

Tenures == [k \in {"lease"} |-> [a \in Actors |-> TenureOf(a)]]

SameHolder == {p \in Actors \X Actors : p[1] \in Plain /\ HolderOf[p[1]] = HolderOf[p[2]]}

Fenced == INSTANCE FencedTenure WITH Locks <- {"lease"}, Mates <- SameHolder, hold <- Tenures

\* Whatever the clocks show, whoever races whom and whatever is forgotten, a
\* tenure that was superseded or compacted away is never current again.
ImplementsFence == Fenced!Spec
=============================================================================
