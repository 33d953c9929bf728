-------------------------- MODULE CompletionRouter --------------------------
(***************************************************************************)
(* CompletionRouter (crates/tinyagents-tasks/src/completions/router.rs):   *)
(* several routers hand finished children to their parents through one     *)
(* shared durable store (completions/driver.rs).                           *)
(*                                                                         *)
(* What keeps routers apart is in the store.  Every write is fenced by a   *)
(* per-parent gate, a lease that only one router holds and that may expire *)
(* while it is held; delivery of a record is owned through a claim token   *)
(* that may expire too; and a parent's life is cut into generations by a   *)
(* marker record whose epoch grows with every stop, delete and resume.     *)
(*                                                                         *)
(* A router call that makes a single fenced write is one step, taken when  *)
(* the gate is free: nothing it read under the gate can change before the  *)
(* write, and if the gate is lost the write does not happen.  Calls that   *)
(* make several writes, keep the gate across an await, or read before they *)
(* hold the gate are modelled write by write.                              *)
(*                                                                         *)
(* Time is abstracted to the moments that matter: a gate or a claim simply *)
(* expires.  Attempts are counted up to MaxAttempts, beyond which no       *)
(* decision looks.                                                         *)
(***************************************************************************)
EXTENDS Naturals, FiniteSets

CONSTANTS Tasks,        \* child task ids, the dedupe key of a completion
          Parents,      \* parent keys
          Routers,      \* router processes sharing the store
          Lane,         \* the notify mode of each task's completion
          Legacy,       \* tasks recorded before lifecycle markers existed
          MaxAttempts,  \* CompletionRouter::max_attempts
          MaxEpoch,     \* bound: parents are not stopped or resumed past it
          MaxToken      \* bound: claim tokens in circulation at one time

ASSUME TasksAssumption == Tasks # {}
ASSUME ModeAssumption ==
    Lane \in [Tasks -> {"Followup", "HoldForNextTurn", "Off"}]
ASSUME LegacyAssumption == Legacy \subseteq Tasks
ASSUME BoundAssumption ==
    MaxAttempts \in Nat \ {0} /\ MaxEpoch \in Nat \ {0} /\ MaxToken \in Nat \ {0}
ASSUME ParentAssumption == Parents # {} /\ "no parent" \notin Parents

VARIABLES records,    \* the store: latest completion record of each task
          marker,     \* the store: lifecycle marker of each parent
          gate,       \* the store: parent gates, and who holds them
          op,         \* the call each router is in the middle of
          receipts,   \* claim receipts the users of each router hold
          attached,   \* the live parents of each router
          queue,      \* messages pushed onto live parents' queues
          child,      \* the generation each child was admitted into, 0: none
          sealed      \* ghost: latest epoch of a parent of which a close finished

store == <<records, marker, gate>>
local == <<op, receipts, attached, queue, child>>
vars  == <<store, local, sealed>>

NoRouter == "no router"

ASSUME RouterAssumption == NoRouter \notin Routers

Epoch == 0 .. MaxEpoch

(***************************************************************************)
(* CompletionRecord.  token 0 is "no claim"; fresh says the claim is still *)
(* visible only to its owner (visible_after lies ahead).                   *)
(***************************************************************************)
CompletionState == {"Absent", "Pending", "Delivered", "GaveUp", "Tombstoned"}

CompletionRecord == [state : CompletionState, parent : Parents \cup {"no parent"},
                     epoch : Epoch, attempts : 0 .. MaxAttempts,
                     token : 0 .. MaxToken, fresh : BOOLEAN]

NoRecord == [state |-> "Absent", parent |-> "no parent", epoch |-> 0, attempts |-> 0,
             token |-> 0, fresh |-> FALSE]

\* CompletionRecord::tombstone_stub
TombstoneStub == [NoRecord EXCEPT !.state = "Tombstoned"]

CompletionReceipt == [task : Tasks, parent : Parents, epoch : Epoch,
                      token : 1 .. MaxToken]

\* A queued message and the admission that travels with it.
Message == [task : Tasks, parent : Parents, epoch : Epoch]

\* ParentLifecycleStatus, read from the marker.
Marker == [status : {"None", "Open", "Stopped", "Deleted"}, epoch : Epoch]

Call == [name : {"idle", "record", "close", "tombstone", "permit"},
         parent : Parents \cup {"no parent"},
         task : Tasks,
         epoch : Epoch,
         token : 0 .. MaxToken,
         seen : CompletionRecord]

IdleCall == [name |-> "idle", parent |-> "no parent", task |-> CHOOSE t \in Tasks : TRUE,
             epoch |-> 0, token |-> 0, seen |-> NoRecord]

Init ==
    /\ \E p \in Parents :
         records = [t \in Tasks |->
                      IF t \in Legacy
                      THEN [NoRecord EXCEPT !.state = "Pending", !.parent = p]
                      ELSE NoRecord]
    /\ marker = [p \in Parents |-> [status |-> "None", epoch |-> 0]]
    /\ gate = [p \in Parents |-> NoRouter]
    /\ op = [r \in Routers |-> IdleCall]
    /\ receipts = [r \in Routers |-> {}]
    /\ attached = [r \in Routers |-> {}]
    /\ queue = [r \in Routers |-> {}]
    /\ child = [t \in Tasks |-> 0]
    /\ sealed = [p \in Parents |-> 0]

-----------------------------------------------------------------------------
(***************************************************************************)
(* The gate and the lifecycle marker.                                      *)
(***************************************************************************)
Idle(r) == op[r].name = "idle"

\* acquire_parent_gate succeeds: nobody holds the gate, or it expired.
GateFree(p) == gate[p] = NoRouter

\* The fence of every write a call makes after its first one: the lease still
\* carries this holder and has not expired.
HoldsGate(r) == gate[op[r].parent] = r

\* The call ends; the guard's Drop releases the gate if it still holds it.
Finish(r) ==
    /\ op' = [op EXCEPT ![r] = IdleCall]
    /\ gate' = IF op[r].parent \in Parents /\ gate[op[r].parent] = r
               THEN [gate EXCEPT ![op[r].parent] = NoRouter] ELSE gate

\* Mutated form: any open generation will do.
IsOpenSomehow(p, e) == marker[p].status = "Open"

IsOpen(p, e) == marker[p] = [status |-> "Open", epoch |-> e]

Closed(p) == marker[p].status \in {"Stopped", "Deleted"}

(***************************************************************************)
(* admit_child_locked: the generation a child or a claim is admitted into. *)
(* First sight of a parent opens generation 1 and takes the records from   *)
(* before the markers into it.  For an open parent the marker is rewritten *)
(* with the same content.                                                  *)
(***************************************************************************)
AdmittedEpoch(p) == IF marker[p].status = "None" THEN 1 ELSE marker[p].epoch

AdmittedMarker(p) ==
    [marker EXCEPT ![p] = [status |-> "Open", epoch |-> AdmittedEpoch(p)]]

AdmittedRecords(p) ==
    [t \in Tasks |->
       IF marker[p].status = "None" /\ records[t].parent = p /\ records[t].epoch = 0
       THEN [records[t] EXCEPT !.epoch = 1] ELSE records[t]]

-----------------------------------------------------------------------------
(***************************************************************************)
(* Claims.                                                                 *)
(***************************************************************************)
\* A fresh uuid: a token no receipt carries.
TokensInUse == UNION {{rc.token : rc \in receipts[r]} : r \in Routers}
               \cup {op[r].token : r \in Routers}

FreshToken(k) == k = CHOOSE n \in (1 .. MaxToken) \ TokensInUse :
                       \A m \in (1 .. MaxToken) \ TokensInUse : n <= m

TokensLeft(n) == Cardinality((1 .. MaxToken) \ TokensInUse) >= n

\* Mutated form: only the first claim is ever granted.
ClaimableOnce(rec, p, e) ==
    rec.parent = p /\ rec.epoch = e /\ rec.state = "Pending" /\ rec.token = 0

\* The filter of claim_pending and claim_task.
Claimable(rec, p, e) ==
    /\ rec.parent = p
    /\ rec.epoch = e
    /\ rec.state = "Pending"
    /\ ~rec.fresh

Claimed(rec, k) ==
    [rec EXCEPT !.attempts = IF @ < MaxAttempts THEN @ + 1 ELSE @,
                !.token = k, !.fresh = TRUE]

\* Mutated form: any receipt for the record settles it.
OwnsAnyToken(rec, rc) ==
    rec.parent = rc.parent /\ rec.epoch = rc.epoch /\ rec.state = "Pending"

\* The check of resolve_claim: still pending, same generation, and the token
\* still owns the record and has not expired.
Owns(rec, rc) ==
    /\ rec.parent = rc.parent
    /\ rec.epoch = rc.epoch
    /\ rec.state = "Pending"
    /\ rec.token = rc.token
    /\ rec.fresh

Resolved(rec, how) ==
    [rec EXCEPT !.token = 0, !.fresh = FALSE,
                !.state = CASE how = "Delivered" -> "Delivered"
                            [] how = "Failed" /\ rec.attempts >= MaxAttempts -> "GaveUp"
                            [] OTHER -> @]

-----------------------------------------------------------------------------
(***************************************************************************)
(* admit_child_generation: the host asks which generation a child it is    *)
(* about to start belongs to.                                              *)
(***************************************************************************)
AdmitChild(r, t, p) ==
    /\ Idle(r) /\ GateFree(p) /\ ~Closed(p)
    /\ child[t] = 0 /\ records[t].state = "Absent"
    /\ records' = AdmittedRecords(p)
    /\ marker' = AdmittedMarker(p)
    /\ child' = [child EXCEPT ![t] = AdmittedEpoch(p)]
    /\ UNCHANGED <<gate, op, receipts, attached, queue, sealed>>

\* The admission's own writes and nothing after them: a record that turns out
\* Suppressed, Duplicate or IdCollision, a claim that finds nothing, or a call
\* that loses its gate or its process right after admitting.
AdmitOnly(r, p) ==
    /\ Idle(r) /\ GateFree(p) /\ ~Closed(p)
    /\ records' = AdmittedRecords(p)
    /\ marker' = AdmittedMarker(p)
    /\ UNCHANGED <<gate, local, sealed>>

\* The gate is lost between the upgrades of several unversioned records: the
\* marker is not written, and the next first sight goes on from here.
AdmitPartly(r, p, t) ==
    /\ Idle(r) /\ GateFree(p) /\ marker[p].status = "None"
    /\ records[t].parent = p /\ records[t].epoch = 0
    /\ records' = [records EXCEPT ![t].epoch = 1]
    /\ UNCHANGED <<marker, gate, local, sealed>>

(***************************************************************************)
(* record: store the completion of a finished child and, for a live        *)
(* parent, claim it and push it onto the parent's queue.                   *)
(***************************************************************************)
\* A child of an earlier generation, or one that carries no generation although
\* the parent has been stopped and reopened since.
StaleChild(t, p) ==
    \/ child[t] # 0 /\ child[t] # AdmittedEpoch(p)
    \/ child[t] = 0 /\ marker[p].status # "None" /\ marker[p].epoch > 1

\* Precondition::Absent of insert_if_absent, and the look-up before it.
Insertable(t) == records[t].state = "Absent"

\* insert_if_absent stores the completion as pending in the open generation.
\* A follow-up for a live parent goes on to be pushed, under the same gate.
RecordInsert(r, t, p) ==
    /\ Idle(r) /\ GateFree(p) /\ ~Closed(p)
    /\ Insertable(t)
    /\ ~StaleChild(t, p)
    /\ records' = [AdmittedRecords(p) EXCEPT ![t] =
                     [NoRecord EXCEPT !.state = "Pending", !.parent = p,
                                      !.epoch = AdmittedEpoch(p)]]
    /\ marker' = AdmittedMarker(p)
    /\ IF Lane[t] = "Followup" /\ p \in attached[r]
       THEN /\ op' = [op EXCEPT ![r] = [IdleCall EXCEPT !.name = "record",
                         !.parent = p, !.task = t, !.epoch = AdmittedEpoch(p)]]
            /\ gate' = [gate EXCEPT ![p] = r]
       ELSE UNCHANGED <<op, gate>>
    /\ UNCHANGED <<receipts, attached, queue, child, sealed>>

\* claim_task, unless the record was taken away in the meantime.
RecordClaim(r) ==
    LET t == op[r].task IN
    /\ op[r].name = "record" /\ op[r].token = 0
    /\ HoldsGate(r)
    /\ IF Claimable(records[t], op[r].parent, op[r].epoch)
       THEN /\ TokensLeft(1)
            /\ \E k \in 1 .. MaxToken :
                 /\ FreshToken(k)
                 /\ records' = [records EXCEPT ![t] = Claimed(@, k)]
                 /\ op' = [op EXCEPT ![r].token = k]
                 /\ receipts' = [receipts EXCEPT ![r] = @ \cup
                      {[task |-> t, parent |-> op[r].parent,
                        epoch |-> op[r].epoch, token |-> k]}]
            /\ UNCHANGED gate
       ELSE Finish(r) /\ UNCHANGED <<records, receipts>>
    /\ UNCHANGED <<marker, attached, queue, child, sealed>>

\* gate.renew, then push_guarded.
RecordPush(r) ==
    /\ op[r].name = "record" /\ op[r].token # 0
    /\ HoldsGate(r)
    /\ queue' = [queue EXCEPT ![r] = @ \cup
         {[task |-> op[r].task, parent |-> op[r].parent, epoch |-> op[r].epoch]}]
    /\ Finish(r)
    /\ UNCHANGED <<records, marker, receipts, attached, child, sealed>>

\* The gate expired before the call was done: its next store operation, or the
\* renewal before the push, fails and the call returns an error.  What it wrote
\* stays; a claim it made is released by its receipt or by expiry.
GateLost(r) ==
    /\ op[r].name \in {"record", "close"}
    /\ ~HoldsGate(r)
    /\ op' = [op EXCEPT ![r] = IdleCall]
    /\ UNCHANGED <<store, receipts, attached, queue, child, sealed>>

(***************************************************************************)
(* claim_pending, begin_turn and pull: lease what is pending in the open   *)
(* generation.  The batch is cut to max and each record is written by      *)
(* itself; if a later write fails the call returns an error, and the       *)
(* claims it made belong to nobody until they expire.                      *)
(***************************************************************************)
Claim(r, p, t, told) ==
    LET rec == AdmittedRecords(p)[t] IN
    /\ Idle(r) /\ GateFree(p) /\ ~Closed(p)
    /\ Claimable(rec, p, AdmittedEpoch(p))
    /\ TokensLeft(1)
    /\ marker' = AdmittedMarker(p)
    /\ \E k \in 1 .. MaxToken :
         /\ FreshToken(k)
         /\ records' = [AdmittedRecords(p) EXCEPT ![t] = Claimed(rec, k)]
         /\ receipts' = IF told
              THEN [receipts EXCEPT ![r] = @ \cup
                     {[task |-> t, parent |-> p,
                       epoch |-> AdmittedEpoch(p), token |-> k]}]
              ELSE receipts
    /\ UNCHANGED <<gate, op, attached, queue, child, sealed>>

(***************************************************************************)
(* mark_delivered, mark_failed and release: settle one receipt.            *)
(***************************************************************************)
Resolve(r, rc, how) ==
    /\ Idle(r) /\ GateFree(rc.parent)
    /\ rc \in receipts[r]
    /\ receipts' = [receipts EXCEPT ![r] = @ \ {rc}]
    /\ IF Owns(records[rc.task], rc)
       THEN records' = [records EXCEPT ![rc.task] = Resolved(@, how)]
       ELSE UNCHANGED records
    /\ UNCHANGED <<marker, gate, op, attached, queue, child, sealed>>

\* The receipt is gone without a write: a dropped future, or a mark_failed or
\* release whose gate could not be had.
LoseReceipt(r, rc) ==
    /\ Idle(r)
    /\ rc \in receipts[r]
    /\ receipts' = [receipts EXCEPT ![r] = @ \ {rc}]
    /\ UNCHANGED <<store, op, attached, queue, child, sealed>>

(***************************************************************************)
(* tombstone: the record is read before any gate is held, and the copy     *)
(* read is what is written back.                                           *)
(***************************************************************************)
TombstoneRead(r, t) ==
    /\ Idle(r)
    /\ records[t].state \in {"Absent", "Pending"}
    /\ op' = [op EXCEPT ![r] = [IdleCall EXCEPT !.name = "tombstone", !.task = t,
                                !.parent = records[t].parent, !.seen = records[t]]]
    /\ UNCHANGED <<store, receipts, attached, queue, child, sealed>>

\* Suppressed: the parent's gate is had and the tombstoned copy is put.
TombstoneSuppress(r) ==
    /\ op[r].name = "tombstone" /\ op[r].seen.state = "Pending"
    /\ GateFree(op[r].parent)
    /\ records' = [records EXCEPT ![op[r].task] =
                     [op[r].seen EXCEPT !.state = "Tombstoned"]]
    /\ op' = [op EXCEPT ![r] = IdleCall]
    /\ UNCHANGED <<marker, gate, receipts, attached, queue, child, sealed>>

\* Reserved: a stub under the task's own gate.
TombstoneReserve(r) ==
    /\ op[r].name = "tombstone" /\ op[r].seen.state = "Absent"
    /\ records' = [records EXCEPT ![op[r].task] = TombstoneStub]
    /\ op' = [op EXCEPT ![r] = IdleCall]
    /\ UNCHANGED <<marker, gate, receipts, attached, queue, child, sealed>>

\* PARENT_GATE_WAIT runs out.
TombstoneTimeout(r) ==
    /\ op[r].name = "tombstone"
    /\ op' = [op EXCEPT ![r] = IdleCall]
    /\ UNCHANGED <<store, receipts, attached, queue, child, sealed>>

(***************************************************************************)
(* cancel_parent and delete_parent: move the marker to a new epoch, then   *)
(* withdraw what is pending, one fenced write each.                        *)
(***************************************************************************)
Close(r, p, how) ==
    /\ Idle(r) /\ GateFree(p)
    /\ marker[p].status # "Deleted"
    /\ marker[p].epoch < MaxEpoch
    /\ marker' = [marker EXCEPT ![p] = [status |-> how, epoch |-> @.epoch + 1]]
    /\ attached' = [attached EXCEPT ![r] = @ \ {p}]
    /\ op' = [op EXCEPT ![r] = [IdleCall EXCEPT !.name = "close", !.parent = p,
                                              !.epoch = marker[p].epoch + 1]]
    /\ gate' = [gate EXCEPT ![p] = r]
    /\ UNCHANGED <<records, receipts, queue, child, sealed>>

\* A parent that is deleted already is only detached.
CloseDeleted(r, p) ==
    /\ Idle(r) /\ GateFree(p)
    /\ marker[p].status = "Deleted"
    /\ attached' = [attached EXCEPT ![r] = @ \ {p}]
    /\ UNCHANGED <<store, op, receipts, queue, child, sealed>>

\* Mutated form: what somebody is delivering is left alone.
PendingUnclaimed(p) ==
    {t \in Tasks : records[t].state = "Pending" /\ records[t].parent = p /\ ~records[t].fresh}

PendingOf(p) == {t \in Tasks : records[t].state = "Pending" /\ records[t].parent = p}

CloseWithdraw(r, t) ==
    /\ op[r].name = "close"
    /\ HoldsGate(r)
    /\ t \in PendingOf(op[r].parent)
    /\ records' = [records EXCEPT ![t].state = "Tombstoned"]
    /\ UNCHANGED <<marker, gate, local, sealed>>

\* Nothing is left to write, so the gate is not asked for again: the close returns Ok
\* also when the gate has expired and the parent was reopened or closed meanwhile.
CloseDone(r) ==
    /\ op[r].name = "close"
    /\ PendingOf(op[r].parent) = {}
    /\ Finish(r)
    /\ sealed' = [sealed EXCEPT ![op[r].parent] = IF @ < op[r].epoch THEN op[r].epoch ELSE @]
    /\ UNCHANGED <<records, marker, receipts, attached, queue, child>>

Resumable(p) == marker[p].status \in {"None", "Stopped"}

(***************************************************************************)
(* resume_parent: a new open generation, unless the parent is open already *)
(* or deleted.                                                             *)
(***************************************************************************)
Resume(r, p) ==
    /\ Idle(r) /\ GateFree(p)
    /\ Resumable(p)
    /\ marker[p].epoch < MaxEpoch
    /\ marker' = [marker EXCEPT ![p] = [status |-> "Open", epoch |-> @.epoch + 1]]
    /\ UNCHANGED <<records, gate, local, sealed>>

(***************************************************************************)
(* attach_parent and detach_parent; detaching releases this router's own   *)
(* receipts for the parent, unless the gate cannot be had.                 *)
(***************************************************************************)
Attach(r, p) ==
    /\ Idle(r)
    /\ p \notin attached[r]
    /\ attached' = [attached EXCEPT ![r] = @ \cup {p}]
    /\ UNCHANGED <<store, op, receipts, queue, child, sealed>>

Detach(r, p) ==
    /\ Idle(r) /\ p \in attached[r]
    /\ attached' = [attached EXCEPT ![r] = @ \ {p}]
    /\ \/ /\ GateFree(p)
          /\ records' = [t \in Tasks |->
               IF \E rc \in receipts[r] : rc.task = t /\ rc.parent = p /\ Owns(records[t], rc)
               THEN Resolved(records[t], "Release") ELSE records[t]]
          /\ receipts' = [receipts EXCEPT ![r] = {rc \in @ : rc.parent # p}]
       \/ UNCHANGED <<records, receipts>>
    /\ UNCHANGED <<marker, gate, op, queue, child, sealed>>

(***************************************************************************)
(* CompletionAdmission: a queued message crosses into the parent's turn    *)
(* under a permit that holds the gate, if its generation is still open.    *)
(* Otherwise, or if the gate cannot be had, the queue drops it.            *)
(***************************************************************************)
AdmitMessage(r, msg) ==
    /\ Idle(r)
    /\ msg \in queue[r]
    /\ queue' = [queue EXCEPT ![r] = @ \ {msg}]
    /\ \/ /\ GateFree(msg.parent)
          /\ IsOpen(msg.parent, msg.epoch)
          /\ op' = [op EXCEPT ![r] = [IdleCall EXCEPT !.name = "permit",
                         !.parent = msg.parent, !.task = msg.task,
                         !.epoch = msg.epoch]]
          /\ gate' = [gate EXCEPT ![msg.parent] = r]
       \/ UNCHANGED <<op, gate>>
    /\ UNCHANGED <<records, marker, receipts, attached, child, sealed>>

\* The turn has taken the message and drops the permit.
DropPermit(r) ==
    /\ op[r].name = "permit"
    /\ Finish(r)
    /\ UNCHANGED <<records, marker, receipts, attached, queue, child, sealed>>

-----------------------------------------------------------------------------
(***************************************************************************)
(* Time, compaction and restarts.                                          *)
(***************************************************************************)
\* PARENT_GATE_TTL runs out, whether or not the holder is still at work.
GateExpires(p) ==
    /\ ~GateFree(p)
    /\ gate' = [gate EXCEPT ![p] = NoRouter]
    /\ UNCHANGED <<records, marker, local, sealed>>

\* CLAIM_VISIBILITY runs out.
ClaimExpires(t) ==
    /\ records[t].fresh
    /\ records' = [records EXCEPT ![t].fresh = FALSE]
    /\ UNCHANGED <<marker, gate, local, sealed>>

\* compact drops a settled record; the task starts a new life.
Compact(t) ==
    /\ records[t].state \in {"Delivered", "GaveUp", "Tombstoned"}
    /\ records' = [records EXCEPT ![t] = NoRecord]
    /\ UNCHANGED <<marker, gate, local, sealed>>

\* A router's process dies; its gate, if any, stays held until it expires.
Restart(r) ==
    /\ op[r] # IdleCall \/ receipts[r] # {} \/ attached[r] # {} \/ queue[r] # {}
    /\ op' = [op EXCEPT ![r] = IdleCall]
    /\ receipts' = [receipts EXCEPT ![r] = {}]
    /\ attached' = [attached EXCEPT ![r] = {}]
    /\ queue' = [queue EXCEPT ![r] = {}]
    /\ UNCHANGED <<store, child, sealed>>

-----------------------------------------------------------------------------
\* A receipt does not stay around: its holder settles or drops it.
SpendReceipt(r) ==
    \E rc \in receipts[r] :
       \/ \E how \in {"Delivered", "Failed", "Release"} : Resolve(r, rc, how)
       \/ LoseReceipt(r, rc)

\* A settlement in time: the receipt still owns its record.
Settles(r) ==
    \E rc \in receipts[r], how \in {"Delivered", "Failed"} :
       Owns(records[rc.task], rc) /\ Resolve(r, rc, how)

ClaimSome(r) ==
    \E p \in Parents, t \in Tasks : Claim(r, p, t, TRUE)

CallProgress(r) ==
    \/ RecordClaim(r) \/ RecordPush(r) \/ GateLost(r) \/ CloseDone(r) \/ DropPermit(r)
    \/ TombstoneSuppress(r) \/ TombstoneReserve(r) \/ TombstoneTimeout(r)
    \/ \E t \in Tasks : CloseWithdraw(r, t)

Next ==
    \/ \E r \in Routers :
          \/ CallProgress(r)
          \/ SpendReceipt(r)
          \/ ClaimSome(r)
          \/ Restart(r)
          \/ \E msg \in queue[r] : AdmitMessage(r, msg)
          \/ \E t \in Tasks : TombstoneRead(r, t)
          \/ \E p \in Parents :
                \/ Close(r, p, "Stopped")
                \/ Close(r, p, "Deleted")
                \/ CloseDeleted(r, p)
                \/ Resume(r, p)
                \/ AdmitOnly(r, p)
                \/ Attach(r, p)
                \/ Detach(r, p)
                \/ \E t \in Tasks :
                      \/ AdmitChild(r, t, p)
                      \/ AdmitPartly(r, p, t)
                      \/ RecordInsert(r, t, p)
                      \/ Claim(r, p, t, FALSE)
    \/ \E p \in Parents : GateExpires(p)
    \/ \E t \in Tasks : ClaimExpires(t) \/ Compact(t)

Spec == Init /\ [][Next]_vars

(***************************************************************************)
(* Calls under way go on and time passes.  A host that keeps serving its   *)
(* parents claims what it can and, of the claims it gets again and again,  *)
(* manages to settle one before it expires: strong fairness, because       *)
(* expiry, restarts and other routers may come first any number of times.  *)
(***************************************************************************)
Fairness ==
    /\ \A r \in Routers : WF_vars(CallProgress(r))
    /\ \A p \in Parents : WF_vars(GateExpires(p))
    /\ \A t \in Tasks : WF_vars(ClaimExpires(t))
    /\ \A r \in Routers : SF_vars(SpendReceipt(r))
    /\ SF_vars(\E r \in Routers : ClaimSome(r))
    /\ SF_vars(\E r \in Routers : Settles(r))

FairSpec == Spec /\ Fairness

-----------------------------------------------------------------------------
(***************************************************************************)
(* Properties.                                                             *)
(***************************************************************************)
\* The types of the store and of the routers' local state.
TypeOK ==
    /\ records \in [Tasks -> CompletionRecord]
    /\ marker \in [Parents -> Marker]
    /\ gate \in [Parents -> Routers \cup {NoRouter}]
    /\ op \in [Routers -> Call]
    /\ receipts \in [Routers -> SUBSET CompletionReceipt]
    /\ attached \in [Routers -> SUBSET Parents]
    /\ queue \in [Routers -> SUBSET Message]
    /\ child \in [Tasks -> Epoch]
    /\ sealed \in [Parents -> Epoch]

\* After cancel_parent or delete_parent has returned Ok, nothing recorded in an
\* earlier generation is pending any more, whatever records, claims, expired
\* gates and resumes happened around it: a reopened parent never hears of the
\* children of the life before.
CloseIsComplete ==
    \A t \in Tasks, p \in Parents :
       records[t].state = "Pending" /\ records[t].parent = p
          => records[t].epoch >= sealed[p]

\* A claim is granted only to a completion of the generation that is open at
\* that moment, although the router read the marker one store operation before.
ClaimsAreCurrent ==
    [][\A t \in Tasks :
         records'[t].state = "Pending" /\ records'[t].fresh /\ ~records[t].fresh
            => /\ records'[t].parent \in Parents
               /\ marker'[records'[t].parent] =
                     [status |-> "Open", epoch |-> records'[t].epoch]]_vars

\* A message crosses into a parent's turn only in its own generation: while the
\* permit's gate lasts the parent cannot be stopped, deleted or reopened.
PermitIsCurrent ==
    \A r \in Routers :
       op[r].name = "permit" /\ gate[op[r].parent] = r
          => marker[op[r].parent] = [status |-> "Open", epoch |-> op[r].epoch]

\* A claim that has not expired ends only by its own receipt or because the
\* completion is withdrawn; a late settlement by a router whose claim expired
\* and was taken over never disturbs the new owner.
ClaimEndsWithItsHolder ==
    [][\A t \in Tasks :
         records[t].state = "Pending" /\ records[t].fresh
         /\ records'[t].token # records[t].token
            => \/ records'[t].state = "Tombstoned"
               \/ \E r \in Routers : \E rc \in receipts[r] \ receipts'[r] :
                     rc.task = t /\ rc.token = records[t].token]_vars

\* What was settled is never pending again: a completion is redelivered neither
\* after its acknowledgement nor after the router gave it up or withdrew it
\* (until compaction forgets it).
SettledNeverPending ==
    [][\A t \in Tasks :
         records[t].state \in {"Delivered", "GaveUp", "Tombstoned"}
            => records'[t].state # "Pending"]_vars

\* A child's completion is only ever stored in the generation that admitted the
\* child; a child that outlived its parent's stop is dropped.
ChildGeneration ==
    \A t \in Tasks :
       records[t].state = "Pending" /\ child[t] # 0 /\ t \notin Legacy
          => records[t].epoch = child[t]

\* Markers only move forward, and a deleted parent stays deleted.
MarkerAdvances ==
    [][\A p \in Parents :
         /\ marker'[p] # marker[p] => marker'[p].epoch > marker[p].epoch
         /\ marker[p].status = "Deleted" => marker'[p] = marker[p]]_vars

\* A pending completion of the open generation is not forgotten: it is settled,
\* withdrawn, or its generation ends.
Deliverable(t) ==
    /\ records[t].state = "Pending"
    /\ records[t].parent \in Parents
    /\ IsOpen(records[t].parent, records[t].epoch)

DeliverableSettles == \A t \in Tasks : Deliverable(t) ~> ~Deliverable(t)

\* The records as an outbox.  A claim is somebody's while a receipt owns it.
Held(t) == \E r \in Routers : \E rc \in receipts[r] : rc.task = t /\ Owns(records[t], rc)

ClaimOf(t) == IF ~records[t].fresh THEN "none" ELSE IF Held(t) THEN "held" ELSE "lost"

Entry(t) ==
    IF records[t].state = "Pending"
    THEN [state |-> "Pending", attempts |-> records[t].attempts, claim |-> ClaimOf(t)]
    ELSE [state |-> records[t].state, attempts |-> 0, claim |-> "none"]

box == [t \in Tasks |-> Entry(t)]

Outbox == INSTANCE CompletionOutbox WITH Records <- Tasks

\* Through every interleaving of routers, expired gates, generations and lost
\* receipts each record goes through the life CompletionOutbox describes.
ImplementsOutbox == Outbox!Spec

\* The parents' gates as fences: a call that took its parent's gate has a tenure
\* of it until the call ends, and the tenure is over when the gate has expired.
Tenure(p, r) ==
    IF op[r].name \in {"record", "close", "permit"} /\ op[r].parent = p
    THEN IF gate[p] = r THEN "current" ELSE "lost"
    ELSE "none"

Gates == [p \in Parents |-> [r \in Routers |-> Tenure(p, r)]]

Gate == INSTANCE FencedTenure WITH Locks <- Parents, Actors <- Routers, Mates <- {}, hold <- Gates

\* The routers take, lose and leave their parents' gates the way Leases lets them.
ImplementsFence == Gate!Spec

\* What TombstoneOutcome says of its values: Suppressed is "A pending completion
\* was withdrawn", and a record that "was already delivered" is AlreadyFinal.
\* So tombstone() never withdraws what a holder was told it delivered.
DeliveredIsFinal ==
    [][\A t \in Tasks :
         records[t].state = "Delivered" => records'[t].state # "Tombstoned"]_vars
=============================================================================
