--------------------------- MODULE DeliveryDrain ---------------------------
(***************************************************************************)
(* Host-driven delivery of completions: CompletionDelivery::drain          *)
(* (tinyagents-tasks, completions/delivery.rs), fenced by a renewable      *)
(* DurableThreadDeliveryLease (completions/durable_lease.rs), for one      *)
(* parent thread served by several workers.                                *)
(*                                                                         *)
(* A claim of a record is named by the attempt it began: each claim adds   *)
(* one to the record's attempts, and its receipt keeps that number where   *)
(* the code draws a token.  A tenure of the lease is named by whether it   *)
(* is the current one, where the code compares epochs.  Faults are counted *)
(* in one ghost, so that what goes wrong can be charged to them.           *)
(***************************************************************************)
EXTENDS Naturals, FiniteSets

CONSTANTS Workers,      \* delivery workers, in one or in several processes
          Records,      \* completions of the parent
          BatchSize,    \* CompletionDeliveryConfig::batch_size
          MaxAttempts,  \* CompletionRouter::max_attempts
          MaxFaults     \* bound: faults

ASSUME BatchAssumption == BatchSize \in Nat \ {0}
ASSUME AttemptsAssumption == MaxAttempts \in Nat \ {0}
ASSUME FaultsAssumption == MaxFaults \in Nat

VARIABLES pc,       \* where each worker's drain is
          batch,    \* the receipts of BatchClaim: attempt per record, 0 for none
          rec,      \* the router's records
          lease,    \* the thread's lease in storage: free, live or lapsed
          hold,     \* the tenure of each worker's handle
          adm,      \* the handle's admission channel
          rel,      \* tenures whose release is spawned and has not run
          faults,   \* ghost: faults so far
          gone,     \* the drain's gave_up: records mark_failed gave up on
          noted,    \* records the host was told of by write_undelivered
          crashed,  \* ghost: a worker's process stopped mid-drain
          turns     \* ghost: successful delivery turns, per record

vars == <<pc, batch, rec, lease, hold, adm, rel, gone, noted, crashed, faults, turns>>
fence == <<lease, hold, adm, rel>>
drain == <<pc, batch, rec, gone, noted, crashed, turns>>
giveup == <<gone, noted, crashed>>

Tenures == {"none", "current", "lost"}

\* fresh: the claim's visible_after has not passed.
RecordState == [state : {"Absent", "Pending", "Delivered", "GaveUp"}, attempts : Nat,
                fresh : BOOLEAN]

NoBatch == [r \in Records |-> 0]

Init ==
    /\ pc = [w \in Workers |-> "idle"]
    /\ batch = [w \in Workers |-> NoBatch]
    /\ rec = [r \in Records |-> [state |-> "Absent", attempts |-> 0, fresh |-> FALSE]]
    /\ lease = "free"
    /\ hold = [w \in Workers |-> "none"]
    /\ adm = [w \in Workers |-> FALSE]
    /\ rel = [w \in Workers |-> "none"]
    /\ gone = [w \in Workers |-> {}]
    /\ noted = {}
    /\ crashed = FALSE
    /\ faults = 0
    /\ turns = [r \in Records |-> 0]

Fault ==
    /\ faults < MaxFaults
    /\ faults' = faults + 1

(***************************************************************************)
(* The router, as the drain uses it.                                       *)
(***************************************************************************)
\* Mutated form: a record that was ever claimed is left alone.
ClaimableOnce(r) == rec[r].state = "Pending" /\ rec[r].attempts = 0

Claimable(r) == rec[r].state = "Pending" /\ ~rec[r].fresh

Claimed(s) ==
    [r \in Records |-> IF r \in s THEN [rec[r] EXCEPT !.attempts = rec[r].attempts + 1,
                                                      !.fresh = TRUE]
                       ELSE rec[r]]

\* resolve_claim answers only the claim that still owns the record.
Owns(w, r) ==
    /\ batch[w][r] # 0
    /\ batch[w][r] = rec[r].attempts
    /\ rec[r].fresh
    /\ rec[r].state = "Pending"

InBatch(w) == {r \in Records : batch[w][r] # 0}

\* The receipts of s resolved with the outcome how[r].
Resolved(w, s, how) ==
    [r \in Records |-> IF r \in s /\ Owns(w, r)
                       THEN [rec[r] EXCEPT !.state = how[r], !.fresh = FALSE]
                       ELSE rec[r]]

Delivered == [r \in Records |-> "Delivered"]

\* Mutated form: one attempt more than max_attempts.
FailedLate ==
    [r \in Records |-> IF rec[r].attempts > MaxAttempts THEN "GaveUp" ELSE "Pending"]

Failed == [r \in Records |-> IF rec[r].attempts >= MaxAttempts THEN "GaveUp" ELSE "Pending"]

Released == [r \in Records |-> "Pending"]

(***************************************************************************)
(* DurableThreadDeliveryLease.                                             *)
(***************************************************************************)
Acquirable == lease # "live"

Superseded(h) == [w \in Workers |-> IF h[w] = "none" THEN "none" ELSE "lost"]

\* Mutated form: the lease is granted to whoever asks and kept by who has it.
AcquireShared(w) ==
    /\ pc[w] = "idle"
    /\ lease' = "live"
    /\ hold' = [hold EXCEPT ![w] = "current"]
    /\ adm' = [adm EXCEPT ![w] = TRUE]
    /\ pc' = [pc EXCEPT ![w] = "wait"]
    /\ UNCHANGED <<batch, rec, rel, faults, turns, giveup>>

\* try_acquire: a new tenure, which every earlier one is compared against and
\* fails, and its renewer.
Acquire(w) ==
    /\ pc[w] = "idle"
    /\ Acquirable
    /\ lease' = "live"
    /\ hold' = [Superseded(hold) EXCEPT ![w] = "current"]
    /\ rel' = Superseded(rel)
    /\ adm' = [adm EXCEPT ![w] = TRUE]
    /\ pc' = [pc EXCEPT ![w] = "wait"]
    /\ UNCHANGED <<batch, rec, faults, turns, giveup>>

TenureOver(w) == hold[w] = "lost" \/ lease = "lapsed"

\* The renewer finds the tenure over and closes admission for good.  A renewal
\* that succeeds changes nothing here.
RenewRefused(w) ==
    /\ adm[w]
    /\ TenureOver(w)
    /\ adm' = [adm EXCEPT ![w] = FALSE]
    /\ UNCHANGED <<drain, lease, hold, rel, faults>>

\* A renewal meets a storage error: admission closes on a tenure that holds.
RenewErrs(w) ==
    /\ adm[w]
    /\ Fault
    /\ adm' = [adm EXCEPT ![w] = FALSE]
    /\ UNCHANGED <<drain, lease, hold, rel>>

\* The renewer misses its moment.  Without a renewer the lease just ends.
Renewed == \E w \in Workers : hold[w] = "current" /\ adm[w]

LeaseLapses ==
    /\ lease = "live"
    /\ ~Renewed
    /\ lease' = "lapsed"
    /\ UNCHANGED <<drain, hold, adm, rel, faults>>

RenewalMissed ==
    /\ lease = "live"
    /\ Renewed
    /\ Fault
    /\ lease' = "lapsed"
    /\ UNCHANGED <<drain, hold, adm, rel>>

\* The spawned release runs, late perhaps: it names its own tenure.
ReleaseLands(w) ==
    /\ rel[w] # "none"
    /\ lease' = IF rel[w] = "current" THEN "free" ELSE lease
    /\ rel' = [rel EXCEPT ![w] = "none"]
    /\ UNCHANGED <<drain, hold, adm, faults>>

(***************************************************************************)
(* drain.                                                                  *)
(***************************************************************************)
\* The drain returns: BatchClaim has released what it still held, then the
\* lease handle is dropped, which closes admission and spawns the release.
Return(w, records) ==
    /\ rec' = records
    /\ batch' = [batch EXCEPT ![w] = NoBatch]
    /\ gone' = [gone EXCEPT ![w] = {}]
    /\ pc' = [pc EXCEPT ![w] = "idle"]
    /\ adm' = [adm EXCEPT ![w] = FALSE]
    /\ hold' = [hold EXCEPT ![w] = "none"]
    /\ rel' = [rel EXCEPT ![w] = hold[w]]
    /\ UNCHANGED <<lease, crashed, turns>>

GoTo(w, there) ==
    /\ pc' = [pc EXCEPT ![w] = there]
    /\ UNCHANGED <<fence, crashed>>

\* Every point where the code asks the fence, and returns when it is closed.
\* The release of BatchClaim reaches the receipts of s: one that fails is not
\* reported, and its claim is left to expire.
Fenced(w) ==
    /\ pc[w] \in {"wait", "claim", "turn", "ok", "failed", "backoff"}
    /\ ~adm[w]
    /\ \E s \in SUBSET InBatch(w) : Return(w, Resolved(w, s, Released))
    /\ UNCHANGED <<noted, faults>>

\* The debounce is over and the parent is free.
Ready(w) ==
    /\ pc[w] = "wait"
    /\ adm[w]
    /\ GoTo(w, "claim")
    /\ UNCHANGED <<batch, rec, gone, noted, faults, turns>>

\* DeliveryOutcome::ParentBusy.
ParentBusy(w) ==
    /\ pc[w] = "wait"
    /\ adm[w]
    /\ Return(w, rec)
    /\ UNCHANGED <<noted, faults>>

\* Which records a claim takes: as many as the batch has room for.
Batches ==
    LET open == {r \in Records : Claimable(r)}
    IN  {s \in SUBSET open : \/ s = open /\ Cardinality(s) <= BatchSize
                             \/ Cardinality(s) = BatchSize}

ClaimBatch(w) ==
    /\ pc[w] = "claim"
    /\ adm[w]
    /\ \E s \in Batches \ {{}} :
          /\ rec' = Claimed(s)
          /\ batch' = [batch EXCEPT ![w] = [r \in Records |-> IF r \in s THEN rec[r].attempts + 1
                                                               ELSE 0]]
    /\ GoTo(w, "turn")
    /\ UNCHANGED <<gone, noted, faults, turns>>

NothingToClaim(w) ==
    /\ pc[w] = "claim"
    /\ adm[w]
    /\ {} \in Batches
    /\ Return(w, rec)
    /\ UNCHANGED <<noted, faults>>

\* A row's write fails after those of s: their claims belong to nobody.
ClaimFails(w) ==
    /\ pc[w] = "claim"
    /\ adm[w]
    /\ Fault
    /\ \E s \in UNION {SUBSET b : b \in Batches} : Return(w, Claimed(s))
    /\ UNCHANGED noted

\* deliver() is awaited.
BeginTurn(w) ==
    /\ pc[w] = "turn"
    /\ adm[w]
    /\ GoTo(w, "delivering")
    /\ UNCHANGED <<batch, rec, gone, noted, faults, turns>>

EndTurn(w, outcome) ==
    /\ pc[w] = "delivering"
    /\ turns' = IF outcome = "failed" THEN turns
                ELSE [r \in Records |-> IF r \in InBatch(w) THEN turns[r] + 1 ELSE turns[r]]
    /\ GoTo(w, outcome)
    /\ UNCHANGED <<batch, rec, gone, noted, faults>>

\* mark_delivered; a receipt that no longer owns its record changes nothing.
Acknowledge(w) ==
    /\ pc[w] = "ok"
    /\ adm[w]
    /\ rec' = Resolved(w, InBatch(w), Delivered)
    /\ batch' = [batch EXCEPT ![w] = NoBatch]
    /\ GoTo(w, "claim")
    /\ UNCHANGED <<gone, noted, faults, turns>>

\* mark_delivered fails after the receipts of s.  BatchClaim releases the
\* others on the way out, those of u: a release that fails is not reported.
AcknowledgeFails(w) ==
    /\ pc[w] = "ok"
    /\ adm[w]
    /\ Fault
    /\ \E s \in SUBSET InBatch(w) : \E u \in SUBSET (InBatch(w) \ s) :
          Return(w, [r \in Records |-> CASE r \in s -> Resolved(w, s, Delivered)[r]
                                         [] r \in u -> Resolved(w, u, Released)[r]
                                         [] OTHER   -> rec[r]])
    /\ UNCHANGED noted

\* mark_failed answers the receipts of s; one it fails on keeps its claim, and
\* the drain forgets it all the same (claim.clear).
MarkFailed(w, s) ==
    /\ pc[w] = "failed"
    /\ adm[w]
    /\ rec' = Resolved(w, s, Failed)
    /\ gone' = [gone EXCEPT ![w] = {r \in s : Owns(w, r) /\ Failed[r] = "GaveUp"}]
    /\ GoTo(w, "writing")
    /\ UNCHANGED <<batch, noted, turns>>

TurnFailed(w) ==
    /\ MarkFailed(w, InBatch(w))
    /\ UNCHANGED faults

MarkFailedFails(w) ==
    /\ Fault
    /\ \E s \in SUBSET InBatch(w) : MarkFailed(w, s)

\* Mutated form: only a batch given up as a whole is written down.
WriteUndeliveredWhole(w) == noted' = IF gone[w] = InBatch(w) THEN noted \cup gone[w] ELSE noted

WriteUndelivered(w) == noted' = noted \cup gone[w]

\* The host is told what was given up; then the drain ends when that is the
\* whole batch or the fence closed, and waits to claim again otherwise.
AfterFailure(w) ==
    /\ pc[w] = "writing"
    /\ WriteUndelivered(w)
    /\ \/ /\ gone[w] = InBatch(w) \/ ~adm[w]
          /\ Return(w, rec)
       \/ /\ gone[w] # InBatch(w)
          /\ adm[w]
          /\ batch' = [batch EXCEPT ![w] = NoBatch]
          /\ gone' = [gone EXCEPT ![w] = {}]
          /\ GoTo(w, "backoff")
          /\ UNCHANGED <<rec, turns>>
    /\ UNCHANGED faults

BackoffOver(w) ==
    /\ pc[w] = "backoff"
    /\ adm[w]
    /\ GoTo(w, "claim")
    /\ UNCHANGED <<batch, rec, gone, noted, faults, turns>>

(***************************************************************************)
(* What the environment does.                                              *)
(***************************************************************************)
\* The router records a finished child of the parent.
Publish(r) ==
    /\ rec[r].state = "Absent"
    /\ rec' = [rec EXCEPT ![r].state = "Pending"]
    /\ UNCHANGED <<pc, batch, fence, giveup, faults, turns>>

\* The process stops: nothing is released, neither claims nor the lease.
Crash(w) ==
    /\ pc[w] # "idle"
    /\ Fault
    /\ crashed' = TRUE
    /\ pc' = [pc EXCEPT ![w] = "idle"]
    /\ batch' = [batch EXCEPT ![w] = NoBatch]
    /\ gone' = [gone EXCEPT ![w] = {}]
    /\ hold' = [hold EXCEPT ![w] = "none"]
    /\ adm' = [adm EXCEPT ![w] = FALSE]
    /\ UNCHANGED <<rec, lease, rel, noted, turns>>

\* The host drops the drain's future at one of its awaits.  BatchClaim's Drop releases
\* the receipts of s, that of the lease handle its lease.
DrainDropped(w) ==
    /\ pc[w] \in {"wait", "delivering", "backoff"}
    /\ Fault
    /\ \E s \in SUBSET InBatch(w) : Return(w, Resolved(w, s, Released))
    /\ UNCHANGED noted

\* A claim's visible_after passes.  Of a claim some drain still works on, only
\* when the drain is slower than CLAIM_VISIBILITY.
InHand(r) == \E w \in Workers : pc[w] # "writing" /\ Owns(w, r)

ClaimExpires(r) ==
    /\ rec[r].fresh
    /\ ~InHand(r)
    /\ rec' = [rec EXCEPT ![r].fresh = FALSE]
    /\ UNCHANGED <<pc, batch, fence, giveup, faults, turns>>

ClaimOutlived(r) ==
    /\ InHand(r)
    /\ Fault
    /\ rec' = [rec EXCEPT ![r].fresh = FALSE]
    /\ UNCHANGED <<pc, batch, fence, giveup, turns>>

DrainStep(w) ==
    \/ Fenced(w) \/ Ready(w) \/ ClaimBatch(w) \/ NothingToClaim(w)
    \/ BeginTurn(w) \/ EndTurn(w, "ok") \/ EndTurn(w, "failed")
    \/ Acknowledge(w) \/ TurnFailed(w) \/ AfterFailure(w) \/ BackoffOver(w)

Next ==
    \/ \E w \in Workers : \/ Acquire(w) \/ RenewRefused(w) \/ RenewErrs(w) \/ ReleaseLands(w)
                          \/ DrainStep(w) \/ ParentBusy(w) \/ Crash(w) \/ DrainDropped(w)
                          \/ ClaimFails(w) \/ AcknowledgeFails(w) \/ MarkFailedFails(w)
    \/ LeaseLapses \/ RenewalMissed
    \/ \E r \in Records : Publish(r) \/ ClaimExpires(r) \/ ClaimOutlived(r)

Spec == Init /\ [][Next]_vars

\* Tasks are polled until they are done, the host's turns end, time passes, and
\* the host starts drains again and again, some of which find the parent free.
FairSpec ==
    /\ Spec
    /\ \A w \in Workers : /\ WF_vars(DrainStep(w))
                          /\ SF_vars(Ready(w))
                          /\ WF_vars(Acquire(w))
                          /\ WF_vars(RenewRefused(w))
                          /\ WF_vars(ReleaseLands(w))
    /\ WF_vars(LeaseLapses)
    /\ \A r \in Records : WF_vars(ClaimExpires(r))


(***************************************************************************)
(* Properties.                                                             *)
(***************************************************************************)
PCs == {"idle", "wait", "claim", "turn", "delivering", "ok", "failed", "writing", "backoff"}

\* Types.  A record is in one of the three states the router knows.
TypeOK ==
    /\ pc \in [Workers -> PCs]
    /\ batch \in [Workers -> [Records -> Nat]]
    /\ rec \in [Records -> RecordState]
    /\ lease \in {"free", "live", "lapsed"}
    /\ hold \in [Workers -> Tenures]
    /\ adm \in [Workers -> BOOLEAN]
    /\ rel \in [Workers -> Tenures]
    /\ gone \in [Workers -> SUBSET Records]
    /\ noted \subseteq Records
    /\ crashed \in BOOLEAN
    /\ faults \in 0..MaxFaults
    /\ turns \in [Records -> Nat]

\* A completion marked delivered was delivered, and a second delivery turn for
\* it is always paid for by a fault: a lost tenure, a claim outlived, a failed
\* acknowledgement or a crash.  Without faults every turn is the only one, by
\* drain's claims and the receipts mark_delivered resolves.
DuplicatesExplained ==
    \A r \in Records :
        LET heard == \/ rec[r].state = "Delivered"
                     \/ \E w \in Workers : pc[w] = "ok" /\ Owns(w, r)
        IN  /\ rec[r].state = "Delivered" => turns[r] > 0
            /\ turns[r] <= faults + (IF heard THEN 1 ELSE 0)

\* max_attempts bounds how often a record is claimed, but for claims that
\* ended without mark_failed: each costs one fault, since release and expiry
\* keep the attempt counted and only a failed turn gives up.
AttemptsExplained == \A r \in Records : rec[r].attempts <= MaxAttempts + faults

\* Two drains are inside the host's turn of one thread only after a fault let
\* the lease lapse under a turn: the fence is asked before and after deliver,
\* never during it.
OverlapNeedsLapse ==
    \A v, w \in Workers :
        (v # w /\ pc[v] = "delivering" /\ pc[w] = "delivering") => faults > 0

\* What the host sees of a thread's delivery more than once, a completion in a
\* second turn or a second turn at the same time, is paid for by a fault.
ExtraTurnsExplained == DuplicatesExplained /\ OverlapNeedsLapse

\* A completion given up on is written down by the drain that gave up, or that
\* drain has it in hand: only a crash between mark_failed's durable transition
\* and write_undelivered loses it, and nothing ever offers it again.
GiveUpIsWritten ==
    \A r \in Records :
        LET told == r \in noted \/ \E w \in Workers : r \in gone[w]
        IN  /\ told => rec[r].state = "GaveUp"
            /\ rec[r].state = "GaveUp" => told \/ crashed

\* The records as an outbox.  A claim is somebody's while a worker's receipt owns
\* it; attempts are looked at up to MaxAttempts.
Held(r) == \E w \in Workers : Owns(w, r)

ClaimOf(r) == IF ~rec[r].fresh THEN "none" ELSE IF Held(r) THEN "held" ELSE "lost"

Entry(r) ==
    IF rec[r].state = "Pending"
    THEN [state |-> "Pending", claim |-> ClaimOf(r),
          attempts |-> IF rec[r].attempts < MaxAttempts THEN rec[r].attempts ELSE MaxAttempts]
    ELSE [state |-> rec[r].state, attempts |-> 0, claim |-> "none"]

box == [r \in Records |-> Entry(r)]

Outbox == INSTANCE CompletionOutbox

\* What the drains do with the router's records is what the router lets be done
\* with them: CompletionRouter implements the same outbox.
ImplementsOutbox == Outbox!Spec

\* The drains use the thread's lease as the fence that Leases implements.
Fence == INSTANCE FencedTenure
         WITH Locks <- {"thread"}, Actors <- Workers, Mates <- {}, hold <- [k \in {"thread"} |-> hold]

ImplementsFence == Fence!Spec

\* Every completion is delivered or given up on in the end: no fault leaves a
\* claim or a lease that nobody can take over.
RecordsSettle ==
    \A r \in Records : (rec[r].state = "Pending") ~> (rec[r].state \in {"Delivered", "GaveUp"})
=============================================================================
