-------------------------- MODULE DetachedRegistry --------------------------
(***************************************************************************)
(* DetachedTaskRegistry and the SteeringRegistry it shares with the        *)
(* executors (crates/tinyagents-tasks/src/runtime.rs, steering_registry.rs)*)
(*                                                                         *)
(* A run is one executor with its status channel, cancellation token and   *)
(* perhaps an abort handle; it is registered under a task id.  The         *)
(* registry's map and the map of steering handles have a mutex each, and   *)
(* every removal takes the first, lets go of it, and then the second: the  *)
(* calls of several threads interleave between the two.                    *)
(***************************************************************************)
EXTENDS Naturals, FiniteSets

CONSTANTS Runs,        \* executors that may be registered
          Tasks,       \* task ids
          TaskOf,      \* the id a run is registered under
          Spawned,     \* the runs registered with an abort handle (register)
          Managed,     \* the runs of register_cooperative_managed
          Owners,      \* owner ids
          OwnerOf,     \* the owner a run is registered for
          Callers,     \* threads that call the registry
          ActsFor,     \* the owner id a thread passes
          SoftCap      \* soft_cap

NoRun == "no run"

ASSUME RunAssumption ==
    /\ NoRun \notin Runs
    /\ TaskOf \in [Runs -> Tasks] /\ OwnerOf \in [Runs -> Owners]
    /\ Spawned \subseteq Runs /\ Managed \subseteq Runs \ Spawned
ASSUME CallerAssumption == ActsFor \in [Callers -> Owners]
ASSUME CapAssumption == SoftCap \in Nat \ {0}

VARIABLES entries,     \* the run registered under each task id
          steering,    \* the run whose steering handle is registered for the id
          status,      \* what the status channel of a run shows
          token,       \* the cancellation token of a run
          started,     \* the runs that have registered their steering handle
          announced,   \* the runs on_abort was called for
          aborted,     \* the runs whose abort handle was used
          call         \* the call each thread is in the middle of

vars == <<entries, steering, status, token, started, announced, aborted, call>>
executors == <<status, token, started, announced, aborted>>

NoneOr(S) == S \cup {NoRun}

\* "new": not yet offered; "terminal": is_terminal holds of the last value;
\* "closed": the sender is gone and the last value is not terminal.
Status == {"new", "running", "terminal", "closed"}

\* "held": the registry can still trip it; "tripped": cancelled; "released":
\* dropped without being cancelled.
Token == {"held", "tripped", "released"}

\* run: the run the call works for.  todo: ids whose steering handle it has
\* still to deregister, after which it goes on at then.  ids: what is left
\* of the list of cancel_where.
CallState == [op : {"idle", "sweep", "insert", "wait", "remove", "deregister",
                    "trip", "announce", "abort", "cancel"},
              run : NoneOr(Runs), todo : SUBSET Tasks, ids : SUBSET Tasks,
              then : {"idle", "insert", "trip"}]

\* A call that is at op, and one that has handles to deregister first.
At(op, run, ids) == [op |-> op, run |-> run, todo |-> {}, ids |-> ids, then |-> "idle"]
Deregistering(todo, then, run, ids) ==
    [op |-> "deregister", run |-> run, todo |-> todo, ids |-> ids, then |-> then]

IdleCall == At("idle", NoRun, {})

Init ==
    /\ entries = [t \in Tasks |-> NoRun]
    /\ steering = [t \in Tasks |-> NoRun]
    /\ status = [r \in Runs |-> "new"]
    /\ token = [r \in Runs |-> "held"]
    /\ started = {}
    /\ announced = {}
    /\ aborted = {}
    /\ call = [c \in Callers |-> IdleCall]

-----------------------------------------------------------------------------
(* The rules the operations share.                                         *)

\* is_settled: the last status is terminal, or nobody will publish another.
IsSettled(r) == status[r] \in {"terminal", "closed"}

\* Mutated form: a sweep takes whatever is registered.
SweepableAll == {t \in Tasks : entries[t] # NoRun}

\* The ids sweep_terminal removes.
Sweepable == {t \in Tasks : entries[t] # NoRun /\ IsSettled(entries[t])}

Registered == {t \in Tasks : entries[t] # NoRun}

\* The ids a thread may name without Unknown or NotOwned.
Owned(c) == {t \in Registered : OwnerOf[entries[t]] = ActsFor[c]}

Continue(c, to) == call' = [call EXCEPT ![c] = to]

\* What cancel_where does once a task is dealt with; a plain cancel has an
\* empty list.
Rest(ids) == IF ids = {} THEN IdleCall ELSE At("cancel", NoRun, ids)

\* Entries leave the map under the lock; their handles follow after it.
Takes(c, ts, then, run, ids) ==
    /\ entries' = [t \in Tasks |-> IF t \in ts THEN NoRun ELSE entries[t]]
    /\ Continue(c, Deregistering(ts, then, run, ids))
    /\ UNCHANGED <<steering, executors>>

-----------------------------------------------------------------------------
(* Registration.                                                           *)

\* register_entry up to the soft cap: an executor exists from here on.
RegisterChecks(c) ==
    /\ call[c] = IdleCall
    /\ \E r \in Runs :
        /\ status[r] = "new"
        /\ status' = [status EXCEPT ![r] = "running"]
        /\ Continue(c, IF r \notin Managed /\ Cardinality(Registered) >= SoftCap
                       THEN At("sweep", r, {}) ELSE At("insert", r, {}))
    /\ UNCHANGED <<entries, steering, token, started, announced, aborted>>

RegisterSweeps(c) ==
    /\ call[c].op = "sweep"
    /\ Takes(c, Sweepable, "insert", call[c].run, {})

RegisterInserts(c) ==
    /\ call[c].op = "insert"
    /\ entries[TaskOf[call[c].run]] = NoRun
    /\ entries' = [entries EXCEPT ![TaskOf[call[c].run]] = call[c].run]
    /\ Continue(c, IdleCall)
    /\ UNCHANGED <<steering, executors>>

\* DuplicateComponent: the caller gives up the executor it wanted to register.
RegisterRefused(c) ==
    /\ call[c].op = "insert"
    /\ entries[TaskOf[call[c].run]] # NoRun
    /\ status' = [status EXCEPT ![call[c].run] =
                      IF @ = "running" THEN "closed" ELSE @]
    /\ Continue(c, IdleCall)
    /\ UNCHANGED <<entries, steering, token, started, announced, aborted>>

-----------------------------------------------------------------------------
(* Waiting.                                                                *)

\* wait_until: the receiver is cloned under the lock.
WaitStarts(c) ==
    /\ call[c] = IdleCall
    /\ \E t \in Owned(c) :
        Continue(c, At("wait", entries[t], {}))
    /\ UNCHANGED <<entries, steering, executors>>

\* The status is terminal, or changed() fails because the sender is gone.
Wakes(r) == IsSettled(r)

WaitWakes(c) ==
    /\ call[c].op = "wait"
    /\ Wakes(call[c].run)
    /\ Continue(c, At("remove", call[c].run, {}))
    /\ UNCHANGED <<entries, steering, executors>>

WaitTimesOut(c) ==
    /\ call[c].op = "wait"
    /\ Continue(c, IdleCall)
    /\ UNCHANGED <<entries, steering, executors>>

\* remove: whatever the id names by now.
WaitRemoves(c) ==
    /\ call[c].op = "remove"
    /\ Takes(c, {TaskOf[call[c].run]}, "idle", NoRun, {})

-----------------------------------------------------------------------------
(* Removal of settled entries, and the second half of every removal.       *)

\* sweep_terminal called by itself.
Sweeps(c) ==
    /\ call[c] = IdleCall
    /\ Takes(c, Sweepable, "idle", NoRun, {})

\* prune_terminal_trusted
Prunes(c) ==
    /\ call[c] = IdleCall
    /\ \E t \in Sweepable : Takes(c, {t}, "idle", NoRun, {})

Deregisters(c) ==
    /\ call[c].op = "deregister"
    /\ \E t \in call[c].todo :
        /\ steering' = [steering EXCEPT ![t] = NoRun]
        /\ Continue(c, Deregistering(call[c].todo \ {t}, call[c].then, call[c].run, call[c].ids))
    /\ UNCHANGED <<entries, executors>>

Deregistered(c) ==
    /\ call[c].op = "deregister" /\ call[c].todo = {}
    /\ Continue(c, IF call[c].then = "idle" THEN IdleCall
                   ELSE At(call[c].then, call[c].run, call[c].ids))
    /\ UNCHANGED <<entries, steering, executors>>

-----------------------------------------------------------------------------
(* Cancellation.                                                           *)

\* take_and_cancel of the entry under t; ids is what cancel_where goes on to.
TakesEntry(c, t, ids) ==
    /\ entries[t] # NoRun
    /\ Takes(c, {t}, "trip", entries[t], ids)

Cancels(c) ==
    /\ call[c] = IdleCall
    /\ \E t \in Owned(c) : TakesEntry(c, t, {})

CancelsTrusted(c) ==
    /\ call[c] = IdleCall
    /\ \E t \in Tasks : TakesEntry(c, t, {})

\* cancel_where: the ids are listed under the lock; the predicate on the
\* metadata picks the runs of a parent, and cancel_all's every run.
CancelWhereLists(c) ==
    /\ call[c] = IdleCall
    /\ \E P \in {Runs} \cup {{r \in Runs : OwnerOf[r] = o} : o \in Owners} :
        Continue(c, Rest({t \in Registered : entries[t] \in P}))
    /\ UNCHANGED <<entries, steering, executors>>

\* Each id of the list is then cancelled without a look at the metadata.
CancelWhereTakes(c) ==
    /\ call[c].op = "cancel"
    /\ \E t \in call[c].ids : TakesEntry(c, t, call[c].ids \ {t})

\* cancel_trusted answered Unknown, which filter_map skips.
CancelWhereSkips(c) ==
    /\ call[c].op = "cancel"
    /\ \E t \in call[c].ids :
        entries[t] = NoRun /\ Continue(c, Rest(call[c].ids \ {t}))
    /\ UNCHANGED <<entries, steering, executors>>

Trip(r) == token' = [token EXCEPT ![r] = IF @ = "held" THEN "tripped" ELSE @]

\* Mutated form: a run that was told to stop is not aborted.
TripsOnly(c) ==
    /\ call[c].op = "trip"
    /\ Trip(call[c].run)
    /\ Continue(c, Rest(call[c].ids))
    /\ UNCHANGED <<entries, steering, status, started, announced, aborted>>

Trips(c) ==
    /\ call[c].op = "trip"
    /\ Trip(call[c].run)
    /\ Continue(c, IF call[c].run \in Spawned THEN At("announce", call[c].run, call[c].ids)
                   ELSE Rest(call[c].ids))
    /\ UNCHANGED <<entries, steering, status, started, announced, aborted>>

\* The observer hears of every run that is still live.
ToAnnounce(r) == IF IsSettled(r) THEN {} ELSE {r}

Announces(c) ==
    /\ call[c].op = "announce"
    /\ announced' = announced \cup ToAnnounce(call[c].run)
    /\ Continue(c, At("abort", call[c].run, call[c].ids))
    /\ UNCHANGED <<entries, steering, status, token, started, aborted>>

Aborts(c) ==
    /\ call[c].op = "abort"
    /\ aborted' = aborted \cup {call[c].run}
    /\ Continue(c, Rest(call[c].ids))
    /\ UNCHANGED <<entries, steering, status, token, started, announced>>

\* cancel_cooperative: the entry stays.
CancelsCooperatively(c) ==
    /\ call[c] = IdleCall
    /\ \E t \in Owned(c) : ~IsSettled(entries[t]) /\ Trip(entries[t])
    /\ UNCHANGED <<entries, steering, status, started, announced, aborted, call>>

-----------------------------------------------------------------------------
(* The executor of a run.                                                  *)

\* SteeringRegistry::register replaces what is there.
RegistersSteering(r) ==
    /\ status[r] = "running" /\ r \notin started
    /\ steering' = [steering EXCEPT ![TaskOf[r]] = r]
    /\ started' = started \cup {r}
    /\ UNCHANGED <<entries, status, token, announced, aborted, call>>

\* release_cancellation_trusted, which an executor calls as it settles: it
\* names the task id, not the run.
ReleasesCancellation(r) ==
    /\ status[r] = "running"
    /\ entries[TaskOf[r]] # NoRun
    /\ token[entries[TaskOf[r]]] = "held"
    /\ token' = [token EXCEPT ![entries[TaskOf[r]]] = "released"]
    /\ UNCHANGED <<entries, steering, status, started, announced, aborted, call>>

Publishes(r) ==
    /\ status[r] = "running"
    /\ status' = [status EXCEPT ![r] = "terminal"]
    /\ UNCHANGED <<entries, steering, token, started, announced, aborted, call>>

\* The executor ends, is aborted or panics: its sender is dropped.
DropsSender(r) ==
    /\ status[r] = "running"
    /\ status' = [status EXCEPT ![r] = "closed"]
    /\ UNCHANGED <<entries, steering, token, started, announced, aborted, call>>

-----------------------------------------------------------------------------
(* The specification.                                                      *)

\* A call that has begun goes on; only a wait depends on the executor.
Proceeds(c) ==
    \/ RegisterSweeps(c) \/ RegisterInserts(c) \/ RegisterRefused(c)
    \/ WaitWakes(c) \/ WaitRemoves(c)
    \/ Deregisters(c) \/ Deregistered(c)
    \/ CancelWhereTakes(c) \/ CancelWhereSkips(c)
    \/ Trips(c) \/ Announces(c) \/ Aborts(c)

Next ==
    \/ \E c \in Callers :
        \/ Proceeds(c)
        \/ RegisterChecks(c) \/ WaitStarts(c) \/ WaitTimesOut(c)
        \/ Sweeps(c) \/ Prunes(c)
        \/ Cancels(c) \/ CancelsTrusted(c) \/ CancelWhereLists(c)
        \/ CancelsCooperatively(c)
    \/ \E r \in Runs :
        RegistersSteering(r) \/ ReleasesCancellation(r) \/ Publishes(r) \/ DropsSender(r)

Spec == Init /\ [][Next]_vars

\* Threads run; an aborted future is dropped by the tokio runtime.  Nothing
\* is asked of an executor that was not aborted.
Fairness ==
    /\ \A c \in Callers : WF_vars(Proceeds(c))
    /\ \A r \in Runs : WF_vars(r \in aborted /\ DropsSender(r))

LiveSpec == Spec /\ Fairness

-----------------------------------------------------------------------------
(* Properties.                                                             *)

TypeOK ==
    /\ entries \in [Tasks -> NoneOr(Runs)]
    /\ steering \in [Tasks -> NoneOr(Runs)]
    /\ status \in [Runs -> Status]
    /\ token \in [Runs -> Token]
    /\ started \subseteq Runs
    /\ announced \subseteq Runs
    /\ aborted \subseteq Runs
    /\ call \in [Callers -> CallState]

\* A call is about to register r, or has taken it out to cancel it.
InHand(r) == \E c \in Callers :
    /\ call[c].run = r
    /\ \/ call[c].op \in {"sweep", "insert", "trip"}
       \/ call[c].op = "deregister" /\ call[c].then \in {"insert", "trip"}

\* A run that is still going, that nobody has told to stop, and that nobody can
\* find: not under its id, nor in the hands of a registration or a cancellation.
Stray(r) ==
    /\ status[r] = "running" /\ token[r] = "held"
    /\ entries[TaskOf[r]] # r /\ ~InHand(r)

\* A step that makes a stray of a run is the pruning of a wait that watched another,
\* settled run.
OnlyLateWaitsLose ==
    \A r \in Runs : ~Stray(r) /\ Stray(r)' =>
        \E c \in Callers : WaitRemoves(c) /\ call[c].run # r /\ IsSettled(call[c].run)

\* However ids are used, a live run is lost in one way only: its id was resumed,
\* and a wait that watched an earlier run of the id, settled by now, prunes by the
\* id (remove, after the lock was let go).  sweep_terminal, prune_terminal_trusted,
\* take_and_cancel and register_entry lose none.
LostToALateWait == [][OnlyLateWaitsLose]_vars

\* A run that is aborted while it is live was announced to on_abort before:
\* the observer settles the durable record nobody else will settle.
AbortIsAnnounced ==
    \A r \in aborted : r \in announced \/ IsSettled(r)

\* What a step takes off the list of cancel_where: an id under which the call takes
\* the registered run, to trip it next, or under which none is registered.
OnlyDealtWithLeaves ==
    \A c \in Callers : \A t \in call[c].ids \ call'[c].ids :
        \/ entries[t] = NoRun
        \/ /\ entries'[t] = NoRun
           /\ call'[c].run = entries[t] /\ call'[c].then = "trip"

\* cancel_where passes over no run: whatever finishes, is pruned or is registered
\* while it works, each id of its list is cancelled or names nothing.
CancelWhereMissesNone == [][OnlyDealtWithLeaves]_vars

\* A wait comes back once its run is settled, also when the executor died
\* without a terminal status.
WaitReturns ==
    \A c \in Callers, r \in Runs :
        (call[c].op = "wait" /\ call[c].run = r /\ IsSettled(r)) ~> (call[c].op # "wait")

\* A run that a call is going to cancel: it has taken the entry out, or it has the
\* id on the list of cancel_where.
Taken(r) == \E c \in Callers :
    call[c].run = r /\ (call[c].op = "trip" \/ call[c].then = "trip")

Listed(r) == entries[TaskOf[r]] = r /\ \E c \in Callers : TaskOf[r] \in call[c].ids

\* A run that cancel, cancel_where or cancel_all has taken out ends, when it has an
\* abort handle.  One that has none is told to end through its token, if that was
\* not released before the call took the run: an executor releases it when it is
\* settling already.  And a run on the list of cancel_where does not stay registered.
CancelTakesEffect ==
    \A r \in Runs :
        /\ Taken(r) /\ r \in Spawned ~> IsSettled(r)
        /\ Taken(r) /\ token[r] # "released" ~> IsSettled(r) \/ token[r] = "tripped"
        /\ Listed(r) ~> entries[TaskOf[r]] # r

\* The calls of other threads do what they are for in the end, whatever the executors
\* do and whoever resumes the id: a wait returns, a cancellation takes effect.
CallsTakeEffect == WaitReturns /\ CancelTakesEffect
=============================================================================
