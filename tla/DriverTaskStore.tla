-------------------------- MODULE DriverTaskStore --------------------------
(***************************************************************************)
(* DriverTaskStore (crates/tinyagents-tasks/src/driver_store.rs) over the  *)
(* compare-and-swap loop of Repo::update (crates/tinyagents-storage-kit/   *)
(* src/primitives/repo.rs), used by several executors at once and by       *)
(* reconcile_orphaned_tasks (reconcile.rs) after a restart.                *)
(*                                                                         *)
(* One call of a transition is three storage operations: read the record,  *)
(* write it back if nobody wrote in between (else start over, up to        *)
(* Attempts times), then insert the history snapshot of the revision it    *)
(* committed.  A process may die between any two of them.                  *)
(*                                                                         *)
(* A task document is rewritten by every committed transition and never    *)
(* deleted, so the version the backend compares moves exactly with rev and *)
(* rev stands for both.                                                    *)
(***************************************************************************)
EXTENDS Naturals

CONSTANTS Tasks,       \* task ids
          Executors,   \* callers of the store in the processes that run tasks
          Sweeper,     \* the caller that runs reconcile_orphaned_tasks
          Attempts,    \* RetryPolicy::attempts
          MaxRev       \* bound: executors start no call past this revision

ASSUME TasksAssumption == Tasks # {}
ASSUME AttemptsAssumption == Attempts \in Nat \ {0}
ASSUME MaxRevAssumption == MaxRev \in Nat
ASSUME SweeperAssumption == Sweeper \notin Executors

VARIABLES docs,      \* tasks.records: the latest record of a task and its rev
          history,   \* tasks.history: the snapshots, each with its rev
          call,      \* the call each caller is in the middle of
          orphans,   \* the sweep's list: statuses of the records still to settle
          report,    \* the sweep's ReconcileReport
          settled,   \* ghost: calls that returned Ok with a terminal record
          dropped    \* ghost: revisions whose snapshot will never be written

vars == <<docs, history, call, orphans, report, settled, dropped>>

\* The record type and the transition functions, shared with the promise.
Abstract == INSTANCE TaskStore WITH tasks <- [t \in Tasks |-> docs[t].rec]

Callers == Executors \cup {Sweeper}

Doc == [rec : Abstract!Record, rev : Nat]

NoDoc == [rec |-> Abstract!NoTask, rev |-> 0]

\* modify's locals: the transition, the task, the document the closure saw (in
\* "swap"), the document this call committed (in "snapshot"), lost swaps.
Call == [pc : {"idle", "read", "swap", "snapshot"},
         op : Abstract!Transitions \cup {"insert"},
         task : Tasks,
         doc : Doc,
         attempt : Nat]

IdleCall == [pc |-> "idle", op |-> "insert", task |-> CHOOSE t \in Tasks : TRUE,
             doc |-> NoDoc, attempt |-> 0]

Outcome == {"none", "Cancelled", "Failed", "Error"}

Idle(c) == call[c].pc = "idle"

Init ==
    /\ docs = [t \in Tasks |-> NoDoc]
    /\ history = [t \in Tasks |-> {}]
    /\ call = [c \in Callers |-> IdleCall]
    /\ orphans = [t \in Tasks |-> "none"]
    /\ report = [t \in Tasks |-> "none"]
    /\ settled = [t \in Tasks |-> 0]
    /\ dropped = [t \in Tasks |-> {}]

-----------------------------------------------------------------------------
(***************************************************************************)
(* Returning from a call.  reconcile_orphaned_tasks turns the result of    *)
(* its own calls into the report and goes on with the next orphan.         *)
(***************************************************************************)
\* Mutated form: a failed transition is left out of the report.
ReconcileOutcomeUnreported(op, ok) ==
    IF ~ok THEN "none"
    ELSE IF op = "mark_cancelled" THEN "Cancelled" ELSE "Failed"

\* Mutated form: the result of the store call is ignored.
ReconcileOutcomeIgnoringErrors(op, ok) ==
    IF op = "mark_cancelled" THEN "Cancelled" ELSE "Failed"

ReconcileOutcome(op, ok) ==
    CASE ~ok -> "Error"
      [] ok /\ op = "mark_cancelled" -> "Cancelled"
      [] ok /\ op # "mark_cancelled" -> "Failed"

Return(c, ok) ==
    /\ call' = [call EXCEPT ![c] = IdleCall]
    /\ IF c = Sweeper
       THEN /\ report' = [report EXCEPT ![call[c].task] =
                            ReconcileOutcome(call[c].op, ok)]
            /\ orphans' = [orphans EXCEPT ![call[c].task] = "none"]
       ELSE UNCHANGED <<report, orphans>>

(***************************************************************************)
(* DriverTaskStore::insert: the first write demands that no record exists. *)
(***************************************************************************)
Insert(c, t) ==
    /\ Idle(c)
    /\ docs[t].rev = 0
    /\ LET doc == [rec |-> Abstract!PendingRecord, rev |-> 1] IN
         /\ docs' = [docs EXCEPT ![t] = doc]
         /\ call' = [call EXCEPT ![c] = [pc |-> "snapshot", op |-> "insert",
                                         task |-> t, doc |-> doc, attempt |-> 0]]
    /\ UNCHANGED <<history, orphans, report, settled, dropped>>

(***************************************************************************)
(* DriverTaskStore::modify, step by step.                                  *)
(***************************************************************************)
Begin(c, op, t) ==
    /\ Idle(c)
    /\ call' = [call EXCEPT ![c] = [pc |-> "read", op |-> op, task |-> t,
                                    doc |-> NoDoc, attempt |-> 0]]

\* An executor calls a transition of the store.
Start(c, op, t) ==
    /\ docs[t].rev < MaxRev
    /\ Begin(c, op, t)
    /\ UNCHANGED <<docs, history, orphans, report, settled, dropped>>

\* update reads the record and the closure accepts the transition.
ReadAccepted(c) ==
    /\ call[c].pc = "read"
    /\ Abstract!Allowed(call[c].op, docs[call[c].task].rec)
    /\ call' = [call EXCEPT ![c].pc = "swap", ![c].doc = docs[call[c].task]]
    /\ UNCHANGED <<docs, history, orphans, report, settled, dropped>>

\* The closure finds no record or refuses: update writes nothing.
ReadRefused(c) ==
    /\ call[c].pc = "read"
    /\ ~Abstract!Allowed(call[c].op, docs[call[c].task].rec)
    /\ Return(c, FALSE)
    /\ UNCHANGED <<docs, history, settled, dropped>>

\* Mutated form: an unconditional put.
SwapHoldsAlways(c) == call[c].pc = "swap"

\* The backend's conditional put (Precondition::Version): the write happens
\* only if the record is still the one the closure saw.
SwapHolds(c) == docs[call[c].task].rev = call[c].doc.rev

SwapWon(c) ==
    /\ call[c].pc = "swap"
    /\ SwapHolds(c)
    /\ LET t   == call[c].task
           doc == [rec |-> Abstract!After(call[c].op, call[c].doc.rec),
                   rev |-> call[c].doc.rev + 1]
       IN /\ docs' = [docs EXCEPT ![t] = doc]
          /\ call' = [call EXCEPT ![c].pc = "snapshot", ![c].doc = doc]
    /\ UNCHANGED <<history, orphans, report, settled, dropped>>

SwapLost(c) ==
    /\ call[c].pc = "swap"
    /\ ~SwapHolds(c)
    /\ IF call[c].attempt + 1 < Attempts
       THEN /\ call' = [call EXCEPT ![c].pc = "read", ![c].doc = NoDoc,
                                    ![c].attempt = @ + 1]
            /\ UNCHANGED <<orphans, report>>
       ELSE Return(c, FALSE)
    /\ UNCHANGED <<docs, history, settled, dropped>>

\* Mutated form: the snapshot is taken from the record as it is by now.
SnapshotOfCurrent(c) ==
    /\ call[c].pc = "snapshot"
    /\ LET t   == call[c].task
           doc == [call[c].doc EXCEPT !.rec = docs[t].rec]
       IN /\ history' = [history EXCEPT ![t] = @ \cup {doc}]
          /\ settled' = settled
    /\ Return(c, TRUE)
    /\ UNCHANGED <<docs, dropped>>

\* snapshot: a revision that already has one keeps it.
Snapshot(c) ==
    /\ call[c].pc = "snapshot"
    /\ LET t   == call[c].task
           doc == call[c].doc
       IN /\ history' = IF \E h \in history[t] : h.rev = doc.rev THEN history
                        ELSE [history EXCEPT ![t] = @ \cup {doc}]
          /\ settled' = IF Abstract!Terminal(doc.rec)
                        THEN [settled EXCEPT ![t] = @ + 1] ELSE settled
    /\ Return(c, TRUE)
    /\ UNCHANGED <<docs, dropped>>

\* The snapshot's write fails: the transition stands but the call returns Err.
SnapshotFails(c) ==
    /\ call[c].pc = "snapshot"
    /\ dropped' = [dropped EXCEPT ![call[c].task] = @ \cup {call[c].doc.rev}]
    /\ Return(c, FALSE)
    /\ UNCHANGED <<docs, history, settled>>

\* The process of an executor dies; whatever its call had not written is lost.
Crash(c) ==
    /\ ~Idle(c)
    /\ dropped' = IF call[c].pc = "snapshot"
                  THEN [dropped EXCEPT ![call[c].task] = @ \cup {call[c].doc.rev}]
                  ELSE dropped
    /\ call' = [call EXCEPT ![c] = IdleCall]
    /\ UNCHANGED <<docs, history, orphans, report, settled>>

-----------------------------------------------------------------------------
(***************************************************************************)
(* reconcile_orphaned_tasks: list the live records once, then settle them  *)
(* one after the other, choosing the transition by the status listed.      *)
(***************************************************************************)
SweepList ==
    /\ Idle(Sweeper)
    /\ \A t \in Tasks : orphans[t] = "none"
    /\ orphans' = [t \in Tasks |-> IF Abstract!Live(docs[t].rec)
                                   THEN docs[t].rec.status ELSE "none"]
    /\ report' = [t \in Tasks |-> "none"]
    /\ UNCHANGED <<docs, history, call, settled, dropped>>

SweepTransition(status) ==
    IF status = "CancelRequested" THEN "mark_cancelled" ELSE "fail"

SweepTask(t) ==
    /\ orphans[t] # "none"
    /\ Begin(Sweeper, SweepTransition(orphans[t]), t)
    /\ UNCHANGED <<docs, history, orphans, report, settled, dropped>>

-----------------------------------------------------------------------------
CallStep(c) == ReadAccepted(c) \/ ReadRefused(c) \/ SwapWon(c) \/ SwapLost(c)
               \/ Snapshot(c) \/ SnapshotFails(c)

Next ==
    \/ \E c \in Executors, t \in Tasks :
          Insert(c, t) \/ \E op \in Abstract!Transitions : Start(c, op, t)
    \/ \E c \in Callers : CallStep(c)
    \/ \E c \in Executors : Crash(c)
    \/ SweepList
    \/ \E t \in Tasks : SweepTask(t)

Spec == Init /\ [][Next]_vars

(***************************************************************************)
(* The sweep runs in a live process: its loop and its calls go on.         *)
(* Executors get no fairness, they are the ones that die.                  *)
(***************************************************************************)
FairSpec == Spec /\ WF_vars(CallStep(Sweeper)) /\ WF_vars(\E t \in Tasks : SweepTask(t))

-----------------------------------------------------------------------------
(***************************************************************************)
(* Properties.                                                             *)
(***************************************************************************)
\* The types of the collections, the calls in flight and the sweep.
TypeOK ==
    /\ docs \in [Tasks -> Doc]
    /\ history \in [Tasks -> SUBSET Doc]
    /\ call \in [Callers -> Call]
    /\ orphans \in [Tasks -> Abstract!LiveStatus \cup {"none"}]
    /\ report \in [Tasks -> Outcome]
    /\ settled \in [Tasks -> Nat]
    /\ dropped \in [Tasks -> SUBSET Nat]

\* "two executors racing to settle one task cannot both succeed": at most one
\* of the calls that race to settle a task is told it settled it, whatever the
\* interleaving of their reads, swaps and snapshots.
OneSettler == \A t \in Tasks : settled[t] <= 1

\* The driver keeps the atomic store's promise: every step of its read, swap
\* and snapshot is one abstract transition or none.
ImplementsTaskStore == Abstract!Spec

\* No lost update through a stale read: a task whose cancellation was recorded
\* never leaves it for anything but Cancelled or Abandoned, even when the
\* executor's completion read the record before the cancellation landed.
CancelIsHonoured ==
    [][\A t \in Tasks :
         docs[t].rec.status = "CancelRequested" =>
            docs'[t].rec.status \in {"CancelRequested", "Cancelled", "Abandoned"}]_vars

\* history() is a timeline: one snapshot per revision, the newest is the record
\* itself, and neighbouring snapshots are one legal transition apart.  One is
\* missing only while its writer is still about to write it or because that
\* writer died or its insert failed.
HistoryIsTimeline ==
    \A t \in Tasks :
       /\ \A h \in history[t] : h.rev <= docs[t].rev
       /\ \A h \in history[t] : h.rev = docs[t].rev => h = docs[t]
       /\ \A h, k \in history[t] :
             /\ h.rev = k.rev => h = k
             /\ k.rev = h.rev + 1 =>
                   \E op \in Abstract!Transitions :
                      /\ Abstract!Allowed(op, h.rec)
                      /\ k.rec = Abstract!After(op, h.rec)
       /\ \A rev \in 1 .. docs[t].rev :
             \/ rev \in {h.rev : h \in history[t]}
             \/ rev \in dropped[t]
             \/ \E c \in Callers : /\ call[c].pc = "snapshot"
                                   /\ call[c].task = t
                                   /\ call[c].doc.rev = rev

\* A task the report calls Cancelled or Failed is terminal (is_settled).
ReportedIsSettled ==
    \A t \in Tasks : report[t] \in {"Cancelled", "Failed"} =>
       Abstract!Terminal(docs[t].rec)

\* Every record the sweep listed ends terminal, or its transition is reported
\* as Error; the sweep never hangs on one.
SweepSettles ==
    \A t \in Tasks :
       orphans[t] # "none" ~> Abstract!Terminal(docs[t].rec) \/ report[t] = "Error"
=============================================================================
