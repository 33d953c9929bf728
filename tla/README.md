# TinyAgents: a TLA+ model of the agent loop and of detached tasks

TinyAgents runs agents: a loop that asks a model, runs the tools it calls and asks again. An agent
may start child agents ("detached tasks"), which are remembered durably and whose completions are
delivered to the parent. This project models the two places where the program's own control is
hard: the crate `tinyagents-tasks` with the storage primitives of `tinyagents-storage-kit` and the
sub-agent driver of `tinyagents-orchestration`, where
several processes and threads meet over shared state, and the agent loop of `tinyagents-harness`
with its tool batches and model calls, where one run meets retries, pauses, crashes, limits and a
host that interferes. Paths below are relative to `crates/` of the repository.

Contents: [inventory](#inventory), [modules](#modules-and-the-code-they-model), [runs](#runs),
[fairness](#fairness), [proofs](#what-is-proved), [findings](#where-code-and-documentation-disagree),
[limits](#what-is-only-model-checked-and-what-is-not-modelled), [plan](#plan),
[how to run](#how-to-run).

## Inventory

| Part | State | Operations | Interacts with |
| --- | --- | --- | --- |
| Task model and `TaskStore` (`tinyagents-tasks/src/store.rs`, `types.rs`) | one record per task: status, result, error, times | insert and ten transitions (`mark_running` ... `kill`, `set_timeout_ms`), each refused from the wrong status | executors, the sweep, orchestration |
| Durable task store (`driver_store.rs`, storage-kit `primitives/repo.rs`) | a versioned document per task, a history collection | the same transitions as compare-and-swap loops, followed by a history snapshot | several processes through one backend |
| Reconciliation (`reconcile.rs`) | a listing and a report | after a restart, settle every record that is still live | the durable store, while executors may still run |
| Completion router (`completions/router.rs`, `driver.rs`, `admission.rs`, `lifecycle.rs`) | completion records, claim tokens, per-parent lifecycle markers and gates; in-process queues of live parents | record, claim, push, acknowledge, fail, release, tombstone, stop, delete, reopen, admit | other routers on the same store, parents' run queues |
| Delivery drain (`completions/delivery.rs`), durable thread lease (`completions/durable_lease.rs`) | a batch of claims, the records given up on; a lease renewed in the background and its admission channel | wait until the parent is idle, claim, deliver, acknowledge or fail, report what was given up; acquire, renew, lose, release | the router's claims, leases, the host's delivery turn |
| Leases (storage-kit `primitives/leases.rs`) | holder, epoch, expiry, released flag | acquire, acquire_with, renew, release, compact; a write condition for other writes | the gate of the router, delivery threads, migrations, run claims |
| Detached task registry (`runtime.rs`, `steering_registry.rs`) | live executors by task id: status channel, token, abort handle, owner; a second map of steering handles | register, wait, sweep, prune, cancel (owned, trusted, by predicate, cooperative), release | executors, waiting threads, steering |
| Agent loop (`tinyagents-harness/src/agent_loop/run_loop.rs`, `turn_control.rs`, `mixed_turn.rs`, `turn_recovery.rs` and others) | working transcript, limits, recovery counters, open turn, final response | one turn after another: checkpoint, dispatch, classify the reply, recover, run tools, finish | model call, tool batch, observers, the host |
| Run queue, steering, middleware control | queued messages per lane, steering inbox, pending control | inject, queue, pause, resume, cancel, jump, stop | the loop's checkpoints |
| Tool batches and tool-effect ledger (`agent_loop/tools.rs`, `entry.rs`, effects) | the calls of one assistant row: budget slots, announced calls, deferred requests; durable effect rows | admit, announce, execute (serially or concurrently), fold, defer, resume, reconcile after a crash | tools, hooks, the host that decides on deferred calls |
| Model call (`agent_loop/model_call.rs`, retry and failover, `middleware/library/resilience.rs`) | attempt counters, visited models, idle strikes, models written off, response cache | look up, attempt, watch the stream, retry, walk the fallback chain, rebind, store | providers, stream consumers, other runs through the cache |
| Router pool, store registry, store migration (`completions/registry.rs`, `store_registry.rs`, `router.rs`) | one router or store per key | get or create, migrate to another store | the router |
| Sub-agent driver and persistence (`tinyagents-orchestration/src/subagent/driver.rs`, `document_persistence.rs`, `completion.rs`; harness `cache/singleflight.rs`) | a durable record per task key (pause or terminal), a cache of terminals per driver, a map of calls in flight | run: look up, lead or follow, load, plan, execute, retry, persist by compare-and-swap, report | the completion router, hosts that resume and cancel, drivers in other processes |
| Sub-agent jobs, sessions (`tinyagents-orchestration`) | jobs, controls, sessions, root leases | spawn, settle, cancel, resume, steer | registry, task store, driver, router |
| Session ledger, transcripts, turn state (`tinyagents-session`) | runs, messages, reservations | append, claim, recover | leases, repo |
| Rest of the harness: middleware library, nested dispatch, turn runner, trace export | text, wiring, exports | | the loop, as hooks, replies and results |
| Runtime, live worker, hooks, definitions, registry, tools | configuration and wiring | | |

What is hard to get right here, and hard to test, is listed line by line under `hazards` in
`PROJECT.json`. In short:

- **compare-and-swap loops** decide from a record they read and write it back later; a lost swap
  re-runs the decision, a process can die between the write and what should follow it;
- **leases expire while they are held**: the holder finds out late, and its writes must be fenced;
- **claims expire while a delivery is under way**: the late acknowledgement must not touch the claim
  of the next owner;
- **stops and reopenings of a parent** race with children that finish, with routers that already
  read the marker, and with closes that were cut short;
- **two mutexes, or none, for what belongs together** in the registry: entry and steering handle,
  a waiter's look and its removal;
- **one task is run through several drivers**: they share some of a cache, a map of calls in flight
  and a durable record, and each call may be cancelled, dropped or fenced off at any await;
- **clocks disagree** between processes that judge the same expiry;
- **a batch of tool calls ends in many ways at once**: answered, failed, deferred, refused, cut off by
  a crash, with ids a provider may repeat, and every one of them owes an event, a budget slot and a
  row;
- **a run is bent at every checkpoint**: recoveries pop replies off the transcript while observers
  mirror it, the host injects messages meanwhile, and each exit must close what is open;
- **retries are nested three deep**: the loop's, the chain's and the middleware's, over streams of
  which a consumer has already seen a part.

What makes each part correct, and is stated as a property: a settled task stays settled and only one
caller is told it settled it; the durable store looks atomic; nothing of an earlier life of a parent
reaches a later one; a claim ends with its holder; a completion is neither forgotten nor delivered
twice without a fault to blame; an epoch belongs to one incarnation and fenced writes come in order;
no live executor is lost from the registry; every caller of a sub-agent task, and its parent, hear
what the durable record says; a tool with effects is not run again behind the host's
back; the next request has an answer for every call; observers can rebuild the transcript and the
final stream; attempts do not multiply and the cache is not poisoned; every run, batch and
completion comes to an end.

## Modules and the code they model

Each component has a module with its state and actions and an `MC` module with the constants of the
instances; the theorems are in `Proofs` modules. DriverTaskStoreProofs also carries the theorems of
TaskStore, the promise the store implements, and of DetachedRegistry, which keeps the executors of
the tasks. Operators after "Mutated form" are deliberately wrong variants of the definition that
follows them; no specification uses them. They are what the `mutants` of `PROJECT.json` put in place
of the definition to show that a property can fail.

Four modules are abstract: they say what a part promises and have no step of the code in them.
TaskStore is implemented by DriverTaskStore, ResumableTask by SubagentDriver, CompletionOutbox by
CompletionRouter and by DeliveryDrain, FencedTenure by Leases, by the gates of CompletionRouter and by
the thread lease of DeliveryDrain. The last two are where components meet: what a user of claims or of a
lease relies on and what its provider gives are the same specification.

### TaskStore

The promise of the `TaskStore` trait, and of `InMemoryTaskStore` with its mutex: one variable, the
map from task id to record, and every transition one step. A record keeps the fields transitions
read or write, with error texts reduced to where they came from (a question, a failure, an
abandonment). `Allowed` is the status check of each function, `After` the record it leaves; `Settle`
is the shared tail of `complete`, `fail` and `timeout`, where a requested cancellation wins.

### DriverTaskStore

The same transitions over a backend. A call is `Start`, then `ReadAccepted` or `ReadRefused`, then
`SwapWon` or `SwapLost` (back to the read, up to `Attempts` times), then `Snapshot` or
`SnapshotFails`; an executor may `Crash` between any two. The version the backend compares moves
exactly with `rev`, so `rev` stands for both. `SweepList` and `SweepTask` are
`reconcile_orphaned_tasks`, which uses the same calls. Two ghosts: `settled` counts the calls that
returned `Ok` with a terminal record, `dropped` the revisions whose snapshot will never be written.
The module shows that it implements TaskStore: `ImplementsTaskStore` is TaskStore's specification
under the map `tasks <- [t |-> docs[t].rec]`, checked and proved.

### CompletionRouter

Several routers over one durable completion store. Store state: the latest record of each task with
its claim (`token`, `fresh`), the marker of each parent (status and epoch), the gate of each parent.
Local state: the call a router is in, receipts its users hold, attached parents, queued messages.
A router call that makes one fenced write is one action, taken when the gate is free: what it read
under the gate cannot change before the write, and the write fails if the gate was lost. Calls that
write several times (`close_parent`, first sight), keep the gate across an await (the admission
permit), or read before they hold the gate (`tombstone`, `record`) are modelled write by write.
`GateExpires` and `ClaimExpires` may strike at any time; `Crash` and lost answers leave claims and
gates behind.

Abstractions. The gate is the lease of module Leases with a fresh holder per call. Tokens are unique
random ids in the code; in the model a token is used again only when neither a receipt nor a call
carries it. Attempts are counted to `MaxAttempts`, beyond which no decision looks. `put_fenced` takes
its version precondition from a read of its own, so it guards nothing the caller read before; that
is kept. `cancel_all_parents` is a sequence of closes, `release_all` of releases. The in-process copy
of a parent's lifecycle is a read-through of the marker and is left out.

### Leases

One lease record and the resource its write condition fences. Actors are incarnations of holders;
several may go by the same holder string, which is what `acquire_with` is about (a fresh incarnation
may take over what a dead one left, but must not evict a live competitor it just lost a race to).
Each operation reads the record, decides by its own clock, and writes if nobody wrote in between
(`Repo::update`). `now` is the backend's clock and every actor's clock is within `Skew` of it.
`release` reads its clock once before the loop, the others in each round. A write that is committed
but whose answer is lost is `SwapWon` followed by `Forget`. `compact` deletes the record; the
caller's duty not to use the key again is the flag `retired`. `MaxEpoch` plays `u64::MAX`, at which
the code returns an error.

### FencedTenure

What a fence is for those who work behind one: an actor has no tenure of a lock, the current one, or one
that is over. A new tenure ends every other (`Grant`), the current one may be joined only by mates
(`Join`), end under its holder (`Expire`) or be given up (`Drop`); nothing leads from a tenure that is
over back to a current one. In Leases a tenure is an epoch an incarnation knows, compared with the
record's (`TenureOf`), and mates are incarnations of one holder string of which the second comer used
`acquire`; in CompletionRouter it is a call that took its parent's gate (`Tenure`), in DeliveryDrain a
worker's handle of the thread lease. The last two have no mates. Each module defines its map and
`ImplementsFence`.

### CompletionOutbox

What the router and its store promise to a deliverer, record by record: published, claimed by one
holder at a time, the claim lost, given back or expired, delivered, given up, withdrawn, compacted. An
entry keeps the state, the attempts while it is pending, and whose the claim is: nobody's, somebody's,
or lost, when no receipt is left that could settle it. `ImplementsOutbox` in CompletionRouter and in
DeliveryDrain map their records to entries (`Entry`): in the first a claim is held while a receipt
matches it in parent, generation and token, in the second while it is the attempt a
worker's receipt names.

### DetachedRegistry

Threads that call `DetachedTaskRegistry`, and the executors behind the entries. A run is one
executor with its status channel, token and perhaps an abort handle. Each lock region is one action:
registration is check, sweep, insert; a wait is a look under the lock, a wake-up without it, and a
removal by task id; a cancellation takes the entry, deregisters the handle, trips the token, calls
the observer, aborts. `cancel_where` works through the list of ids it made under the lock. The
status channel keeps what the registry can see of it: running, terminal, or closed without a
terminal value. `TaskOf` says under which id a run is registered; two runs with one id are a task
that was resumed or retried.

### DeliveryDrain

`CompletionDelivery::drain` for one parent thread, run by several workers in one or several processes,
under `DurableThreadDeliveryLease`. It composes what CompletionRouter and Leases promise: a claim is
named by the attempt it began (each claim adds one to the record's attempts, where the code draws a
token), a tenure by whether it is the current one (where the code compares epochs). A drain polls,
acquires, claims a batch, asks the fence, delivers, asks the fence again, acknowledges or fails,
reports what was given up, and backs off; the claims left are released when its batch is dropped, also
by a host that drops the drain at one of its awaits (`DrainDropped`, counted as a fault).
Storage may err at each call, the host's turn may fail, the renewer may be refused, the lease may
lapse and be taken over, and the release that a drop spawns may run late. The ghost `faults` counts
what went wrong, so that duplicates and extra attempts can be charged to it.

Left out: the process-local `ThreadDeliveryLeases` (`delivery.rs:592`) and the host's busy gate, which
only delay a drain; the explicit `release()` and `cancel_on_loss`, which tells the turn of the same
loss through a token.

### ResumableTask

What the drivers of one task key promise together: the task stands at a pause or at none, a call opens it
and continues from a pause, commits a pause or the outcome in one step and only if the task still
stands where the call picked it up, and returns what it committed, what was committed by others, or a
failure. No call opens a task that is finished. There are no caches, leaders or followers in it:
`ImplementsResumableTask` says that those cannot be noticed, except as failures.

### SubagentDriver

The calls of `SubagentDriver::run` that name one task key, through several drivers. A driver has its
own cache of terminal outcomes; a group of drivers shares an in-flight map
(`with_shared_in_flight`); all of them share the durable record of `DocumentSubagentPersistence`,
whose pause and terminal are written by compare-and-swap on the pause the writer expects. Outcomes
and resume states are named by the call that produced them, so "whose answer is this" can be asked.
Each await is a step. Consecutive looks at the token with no other shared state between them are
merged: a token tripped between them is one tripped before the first or after the second.
`commit_or_cancel` is one step, since its select is biased towards the token and the document store
commits within one poll. `Fails` stands for whatever may end a call at an await: the turn's fence, a
storage, planner or admission error, a dropped future. A task may be found paused by an `Earlier`
process, and a host may supply any resume state it was shown.

Left out: the counters of `SpawnAdmission` (guards that give back what they took when dropped),
import of legacy records, timeouts and outcome policies beyond the kind of outcome they leave.

### ToolBatch

The tool calls of one assistant row. A concurrent batch moves all its calls through admission,
announcement, execution window and fold together; a serial batch, and an approved call of a resumed
one, does the same with one call at a time. A row of the transcript is the id of the call it answers,
or `FollowUp` for the user message a result asked for. Hooks and screens may err at every step, tools
may ask the host for approval, a result or a pause, and the process may crash anywhere: what survives
is the ledger and the part of the transcript the host is sure to have. `resume_deferred` and
`reconcile_tool_effects` start from those. `rows` is the transcript behind the assistant row; of the
turns before it the model keeps the ids their tool rows answer (`Earlier`) and the ledger as they left
it (`LedgerBefore`), because `reconcile_tool_effects` collects answered ids from the whole transcript
while `pending_tool_calls` counts rows behind the assistant row only. `stage` tells whose decisions on
deferred calls are being applied: `settle_deferred` asks the handler once after a batch and once after
a resume by the host.

Left out: discovery and promotion of tools, offloading of outputs, calls that tools make themselves,
and how the ledger rows are stored.

### AgentLoop

One run of `run_loop_body`. The transcript is a sequence of row kinds; a reply asks for no call, one
tool call, one structured-output call or both, and may be empty, cut off or withheld. Each recovery
of `TurnRecovery`, the mixed turn, the natural finish with its queue and the checkpoints that read
steering and middleware control are actions of their own. `mirror` is what an observer builds from
the lifecycle events alone. What a tool call goes through is the subject of ToolBatch, what a model
call goes through that of ModelCall; here each is one step. A policy field that no property relates
across turns is a choice where the code reads it.

Left out: `JumpTo(Tools)`, `UpdateState` and `Continue`, which change nothing the model keeps; steering
that redirects, sets metadata or switches the model; guarded admission of queued items and the Collect
lane; deferred results given at the start of a run (see ToolBatch).

### ModelCall

One logical model call after another: cache lookup, attempts on a model, stream watchdog and idle
breaker, the walk along the fallback chain, rebinding, cache write, and around them `RetryMiddleware`
or `ModelFallbackMiddleware`. An error is its class for `retry::decide`; fragments are counted, not
kept; elapsed time is nondeterministic, so an attempt may exhaust its own ceiling or the run's. A
failure and the decision about it are one step, as there is no await between them. `view` is a
consumer that drops what it holds at every `RetryScheduled`. A call whose cache read and write both
fail is a call without a cache. The key folds the identity a model declares, `CacheIdentity`, and for
every model that declares none the same marker (`cache/key.rs:195`). There are two retry budgets:
`MaxAttempts`, the loop's, capped by `RunLimits`, and `MaxTries`, that of `RetryMiddleware`, which
consults its own policy and is not capped (`resilience.rs:65`).

Left out: the content of fragments (scrubbing, thinking blocks, recovery of tool calls from text),
prompt-cache breakpoints, the timeout and rate-limit middleware.

## Runs

Every run finishes within three minutes with two workers.

| Run | Instance | Shows |
| --- | --- | --- |
| `driver_races` | 1 task, 2 executors and the sweep, 2 attempts, executors start no call past revision 2 | one settler, history a timeline, a report that matches the record, refinement of TaskStore; each orphan listed ends terminal or is reported as an error |
| `router_generations` | 1 task, 1 parent, 2 routers, epochs to 3, 2 tokens | a close that returned Ok left nothing behind, permits are of the current generation, a claim ends only by its holder or its expiry |
| `router_liveness` | 1 task recorded before or after the markers, 2 routers, 2 attempts | a deliverable completion is settled or given up |
| `lease_races` | 2 incarnations of one holder, 1 other holder, skew 1, ttl 1, epochs to 2 | one owner per epoch, fenced writes in order, live tenures protected |
| `detached_resumption` | 2 runs under one id, one of them managed, 2 threads of one owner, soft cap 1 (275,228 states) | only a late wait loses a live run (`LostToALateWait`); waits return and cancellation takes effect (`CallsTakeEffect`) |
| `delivery_drain` | 2 workers, 2 completions, batches of 2, 2 attempts, 1 fault (69,208 states) | duplicates, extra attempts and overlapping turns are paid for by a fault, what is given up is written down, every completion settles |
| `subagent_driver` | 2 calls of a task that may be paused, 3 drivers in 2 groups, 1 retry, 2 faults (520,027 states) | callers, caches and parent agree with the durable record, the drivers together implement ResumableTask, a finished task is not reopened by its driver, every call returns |
| `tool_batch` | 2 calls whose ids may be equal, one id used by an earlier turn, one call replayable, cap 2, 1 crash, 2 resumes (2.1 million states) | events pair, slots and answers are accounted for, the transcript is the fold of the calls, no unsafe effect is repeated without a decision, the batch settles |
| `agent_loop` | 3 model calls, 1 tool, 1 permit, every budget 1 or 2, one interference by the host of up to 2 messages (1.9 million states) | observers mirror the transcript, turns and calls are closed on every path, host messages are kept, the run ends |
| `model_call` | 2 calls of one run or of two that share the cache; chain d, a, b, a with d unresolvable; a steered model outside it; 4 harness builds; one model with a cache identity and two usable ones without; 2 attempts of the loop, 3 of the middleware, breaker at 2, 1 fragment per attempt (4.8 million states) | fragments are the answer's, attempts do not multiply, the cache keeps its model's identity, models written off are a last resort |

Two more runs, `tombstone_race` and `tool_pairing`, end in a violation that is the point of them; see
[below](#where-code-and-documentation-disagree).

Why the bounds are enough. A race on one record needs two writers and a third party, so one task
suffices where the code treats tasks independently; two completions are used where one call works
through several (the drain's batch). Two lost swaps exhaust `Attempts = 2` and reach the error path.
Calls begun before revision 2 end later, so a record goes through its insertion and up to three more
writes, one of them the sweep's. Epochs to 3 are open, stopped, open again, and one more step. Two
tokens make a claim, its expiry and the claim of a second router. A lease needs two epochs for a
takeover. A soft cap of one is reached by the second registration.
The registry's runs share one id, which is what makes its races; a list of `cancel_where` with several ids is
left to the theorem on it (`CancelWhereMissesNone`). One fault in the drain separates
what happens with and without one: the properties count faults, so a duplicate that costs none, or
two that cost one, would show. Two calls of a sub-agent task, one
of them perhaps resuming what an earlier process paused, make a leader and a follower, two resumptions
of one pause, or a winner and a loser, through the same driver, two that share a map, or two that do
not; each may be cut short and the other still show it. Two tool calls are a call and its sibling, which is all the fold
distinguishes, with an id of their own, a common one or one of an earlier turn, and a crash between two resumes needs both of them. Three model calls are a discarded reply, its replacement
and one after it. A chain of four with a repeated name makes the walk meet a model it has visited, one
it cannot resolve and one it can. Every bound is a constant named in its module, and the theorems
below do not depend on the values.

Deadlock is checked except in `lease_races`, where a bounded clock and a retired key allow no
further step, in `agent_loop`, where a run that ended stops, and in `model_call` and `subagent_driver`, where calls are
bounded. ToolBatch has a step of its own for a batch that is over, so there a stuck batch would show.

## Fairness

- `driver_races`: weak fairness of the sweep's own steps. The sweep runs in a live process;
  executors get none, they are the ones that die.
- `router_liveness`: weak fairness of calls under way and of the expiry of gates and claims (time
  passes), strong fairness of claiming, of spending a receipt, and of settling. Strong, because
  expiry and other routers may come first any number of times; it says that a host that keeps
  serving its parents again and again gets a claim and settles one before it expires. A host whose
  deliveries always take longer than the 30 s a claim lasts does not satisfy it, and there the code
  promises nothing.
- `detached_resumption`: weak fairness of each thread's calls under way, and of the end of an aborted
  future, which the async runtime drops. Executors that were not aborted may run for ever, and a
  wait without a timeout on them does too.
- `delivery_drain`: weak fairness of a drain's steps, of acquisition, of noticing a refused renewal, of
  a spawned release and of the lapse of leases and claims nobody renews; strong fairness of `Ready`:
  the host starts drains again and again, and finds its parent idle again and again. It includes that a
  delivery turn ends.
- `subagent_driver`: weak fairness of each call that has begun: the runtime polls it and its executor
  returns. Nothing is assumed of the host, nor that a leader succeeds.
- `tool_batch`: weak fairness of the batch's driver: every await completes, as tools run under a
  timeout or are the host's own responsibility.
- `agent_loop`: weak fairness of the loop's steps: the executor polls the run, provider and tool
  return or time out. The host owes nothing.
- `model_call` checks safety only; `AttemptsBounded` and the growing set of visited names are what
  bounds a call.

## What is proved

Every invariant and action property that a run checks, with liveness the only exception, is a theorem,
and so are a few that no run checks (marked with a star: types, and statements a theorem covers for
all instances). They hold for every value of the constants (any tasks, routers, actors, calls, chains,
bounds), from the named assumptions of the modules only: sets are non-empty where the code needs an
element, limits are positive or numbers, sentinel values lie outside the sets they mark. The theorems
about DetachedRegistry are stated of an instance of that module and name its assumptions as hypotheses.

None of the properties is inductive as it stands. For each component this says what has to be known
besides; the invariants named are definitions of the `Proofs` modules. TLC checked them, or the
refinement they serve, on the instance of the run before the proof. Four kinds of theorem say that a
detailed specification implements an abstract one: the initial states map to initial states and every
step, under the invariant, to a step or a stutter.

**TaskStore** (in DriverTaskStoreProofs): type\*, `Coherent`\*, `SettledIsFinal`\*. `Coherent` is
inductive together with the type. `DurableCoherent`\* carries it over to the durable store along the
refinement.

**DriverTaskStore**: type\*, `OneSettler`, `CancelIsHonoured`\*, `HistoryIsTimeline`,
`ReportedIsSettled`, and `Refinement` (`Spec => Abstract!Spec`). The inductive invariant says what a
call that is about to swap knows: if the revision it read is still the stored one then the document it
read is the stored one, and it was allowed to make its transition (`SwapKnows`). For one settler it
adds that a call between its successful swap and its return is the only one that made the record
terminal (`SettlerKnows`, `OneSettlerAtWork`, `SettledKnows`). With `SwapKnows` a won swap is exactly
one abstract transition and every other step a stutter. The history speaks of revisions that exist in
three places, the record, the snapshots and the calls about to write one: all copies of a revision are
equal, neighbours are one accepted transition apart, and every revision has a copy or was lost
(`TimelineInv`). The report needs that a call of the sweep which got through committed a terminal
record, which no transition accepts again.

**CompletionRouter**: type\*, `CloseIsComplete`, `PermitIsCurrent`, `ChildGeneration`\*, and the action
properties `MarkerAdvances`\*, `SettledNeverPending`\*, `ClaimsAreCurrent`\*, `ClaimEndsWithItsHolder`, and the
refinements `ImplementsOutbox`\* and `ImplementsFence`\*. The
invariant relates a call under way to the marker while it holds the gate (`GateIsCurrent`: the
generation the call works for is the marker's, since every change of the marker needs the gate) and
bounds what an unfinished close has still to withdraw (`CloseBound`). `CloseIsComplete` is
inductive only with both: without the first a record could be inserted under a stale generation
behind the close, without the second the ghost `sealed` could advance too early. For the outbox
every step is shown to leave a record alone or to take, free, end, withdraw, insert or compact it
(`Moved`); the hard steps are admissions, which rewrite the generation of records that may be claimed.
They disturb no claim, since a claim that lasts is of a parent that has its marker already
(`FreshAdmitted`). For the fence a step begins a call at a free gate, ends one, lets a gate expire or
leaves calls and gates as they are (`GateSteps`), and each of these is read off at one parent at a time.

**Leases**: type\*, `UniqueTenure`, `FencedWritesAdvance`,
`LiveTenureProtected`, `EpochAdvances`\*, and the refinement `ImplementsFence`\*. The invariant: nobody knows of a later epoch than the
record's, and who knows the current one goes by the record's holder (`TenureBound`); a swap that will
succeed was computed from the present record and, if it starts a new tenure, was justified
(`SwapKnows`); the last fenced write is not of a later epoch than the record (`WrittenBound`). `ImplementsFence`
follows from the first two: a swap that raises the epoch ends every tenure known before, one that keeps
it is the holder's own, and compaction ends all of them for good.

**DeliveryDrain**: type\*, `GiveUpIsWritten`, `ExtraTurnsExplained`, `AttemptsExplained`, and the
refinements `ImplementsOutbox`\* and `ImplementsFence`\*. The two `Explained`
compare counters with the number of faults, and a fault may be felt long after it happened. The
invariant is a budget (`BudgetInv`): the drains that will end at the fence because their tenure is over
(`Doomed`), the batches whose claim was lost before their turn (`Stale`), the turns nobody has
acknowledged and the claims that ended unmarked are together at most the faults so far. Every step is
shown to be paid for (`Paid`): it costs nothing, it is a fault itself, or it spends a doomed drain. That
rests on receipts that name no claim twice (`ReceiptInv`) and on there being one current tenure, in a
handle or in a pending release (`LeaseInv`). The outbox rests on the
receipts as well: with them every step takes, loses, frees or ends the claim of a record for the one
worker that had it, or leaves the record alone (`Moved`). The fence needs no more than the types.

**DetachedRegistry** (in DriverTaskStoreProofs): type\*, `AbortIsAnnounced`\*, `LostToALateWait`\*
and `CancelWhereMissesNone`\*, all of them however ids are used: the proofs assume nothing of a host that
resumes, retries or offers an id twice. The invariant adds that a wait prunes only after it saw
its run settle (`RemovesSettled`), which makes the run it loses another one, and that only a
cancellation has a list (`ListsOnlyToCancel`). That no live run is ever lost is not true of the code: see the
observation on `wait_until` below, the one exception `LostToALateWait` leaves.

**SubagentDriver**: type\*, `AnswersAgree`, `CommitsAreAChain`\*, `FinishedIsNotReopened`,
`CompletionIsTheTerminal`, the action property `Durable`\*, and the refinement
`ImplementsResumableTask`. `AnswersAgree` needs the same of answers
that are staged or published to followers, and that a saved pause stays until the terminal, so that
whoever loses a race finds a winner (`AgreeInv`). The chain needs that the record has moved on from the
pause each committed call continued (`ChainInv`). A finished task stays closed because the call that
recorded the terminal holds its in-flight entry until its driver's cache is filled, unless it failed on
its way back (`LeaderInv`, `WinnerInv`), and the second look at the cache comes under that entry. A
failure shadows no pause of its own in-flight map because the failing call leads there until it returns,
so that no other call of the map saves one (`PauseInv`). The
refinement needs to know of every call what it has committed and what its answer, staged, published or
returned, stands for (`OwnInv`): a call past its commit carries its own outcome or fails, and every
other answer names a pause that was saved or the terminal.

**ToolBatch**: type\*, `Paired`, `SlotsAreAccounted`, `AnsweredOnce`, `LeftAnswered`,
`TranscriptIsFold`, `RerunIsDecided`. What the calls in hand may be in each phase (`PhaseInv`), that a
queued call is queued once and untouched (`TodoInv`) and that the collected requests are the filed calls
(`DeferInv`) come first. Even the type needs `Paired` and the budget: that counters do not go below zero
is not a matter of types. `AnsweredOnce` is inductive as an account (`OwedInv`): rows of an id plus
calls of it that are queued, in hand or filed are at most the calls of the id, and exactly as many while
the batch is worked on; a resume opens the account again with what `pending_tool_calls` returns, which
is counted in `PendingCount`. `LeftAnswered` follows from that account with what the votes stand for
(`CoverInv`, `VoteInv`) and what a reconciliation has looked at, for ids of the row, of earlier turns
or shared by two calls alike (`ReconcileInv`). `TranscriptIsFold`
needs that answered calls precede those in hand and these the queue (`OrderInv`). `RerunIsDecided`: an
execution that may have landed is behind its call, and when the run can be resumed the call has a row
(`RowInv`, `LandInv`), so `pending_tool_calls` does not return it unless it shares its id.

**AgentLoop**: type\*, `Shape`\*, `MirrorAgrees`, `TurnsPaired`, `ExitIsEarned`, `HostMessagesKept`,
`CallsAreAnswered`, and the counts (`CountInv`\*: the cap on model calls, and a permit held during the
provider call only). The centre is `ReplyInv`: while a reply is in hand its row ends the transcript, so
what a recovery pops is that row and never the seed or a message of the host. `CallsAreAnswered` says
that all but the reply in hand is complete (`CallInv`), a fact about every row of a transcript of any
length that is kept when rows are appended, popped or put in front. `ExitIsEarned` needs that a
discarded reply leaves a call to replace it until that call is counted (`EndInv`).

**ModelCall**: type\*, `CacheKeepsItsModel`, `AttemptsBounded`, `FragmentsAreTheAnswers`,
`WrittenOffIsLastResort`, for any identities and any two retry budgets. `AttemptsBounded` is a budget again: what earlier base calls spent, plus
what the present one spent on the model in hand, while a model not yet visited has had only what
earlier base calls gave it (`AskInv`). The consumer's view is exact during an attempt and empty
between two (`ViewInv`). For the last resort, the walk that passes over models written off has met only
hopeless names and, with each of them but the last, its successor (`SkipInv`): when no name is left,
everything that can be reached has been met, whatever names the chain repeats.

Counting arguments use the cardinality theorems of the library; where a proof needs a first position or
a least number, that comes from the well-foundedness of `<` on the naturals, as a fact about sets: the
library's induction theorems take an operator as parameter, which the provers do not instantiate.

## Where code and documentation disagree

| Run | What the code does |
| --- | --- |
| `tombstone_race` | `tombstone` writes back the pending copy it read before it held the gate; a delivery acknowledged in between goes from `Delivered` to `Tombstoned`, and the caller is told a pending completion was withdrawn. (The branch that found no record has the same gap: its stub, put under the gate of the task and not of the parent, overwrites whatever was recorded and delivered meanwhile.) |
| `tool_pairing` | In a concurrent batch an error while one call is folded (`after_tool`, the output screen, recovery) leaves the fold at once: the calls behind it were announced and run, but get no terminal event, stay in `active_tool_calls` and keep their ledger rows started. `tools.rs:36` promises one terminal partner for every start. |

Observations made while modelling, which no run of its own states:

- **Tasks.** The sweep reports `Failed` with its reason also when its `fail` settled the record as
  `Cancelled` (`reconcile.rs:141`, against `:30` and `:54`). `wait_until` removes the entry by task id
  after the wait (`runtime.rs:700`, against `types.rs:444`): if the task was resumed under its id
  meanwhile, the entry and the steering handle of the running task go. `LostToALateWait` says that this
  is the only way a live run is lost; a steering handle can also be lost to any removal of an earlier
  entry of the id, whose second half comes after the resumed run registered its own.
- **Completions.** `resume_parent` on a parent without a marker opens generation 1 and leaves records
  from before the markers in generation 0, which no claim matches (`router.rs:943`, against `:1033`).
  `renew` judges liveness before its conditional write, so a renewal decided in time and written late
  makes a lapsed lease live again, where `leases.rs:289` says it never does; nobody is harmed, since
  the swap fails if anybody took the lease over.
- **Delivery.** An acknowledgement that settles nothing (`Ok(0)`) is still counted as delivered
  (`delivery.rs:305`). A delivery turn that hangs keeps its lease renewed for ever, so `RecordsSettle`
  assumes that turns end. A crash between `mark_failed` and `write_undelivered` loses the notice: the
  exception in `GiveUpIsWritten`.
- **Sub-agent driver.** The comment "Do not reopen that task after its in-flight entry has been removed"
  (`driver.rs:301`) holds for one driver: the second look goes to the driver's own cache, so with a
  shared in-flight map a task finished through another driver of the process is executed once more, and
  its result discarded. That is the exception in `FinishedIsNotReopened`. A lease lost between the
  durable terminal and `record_completion` turns the run into `Err(Cancelled)` and the completion is
  never recorded (`driver.rs:630`, against "never fails the run" at `:170`). A token tripped before the
  first check of `run_reserved` expects no pause (`driver.rs:342`), so cancelling a paused task that way
  answers `PauseExisting` and leaves it paused. "A failed record here would shadow the eventual finish"
  (`driver.rs:610`), but the guard below that comment looks at the pause the call expected when it was
  loaded: a call that found none and fails after a call of another in-flight map (another process, say)
  has paused the task reports `Failed`, and the router keeps that. `FailureShadowsNoPause` says that a
  pause of the call's own map is never shadowed, and leaves this case as its exception; without the
  exception TLC shows it.
- **Tool batches.** Follow-ups of answered siblings come before the rows of deferred calls
  (`tools.rs:1423`, `:2310`), so `TranscriptIsFold` speaks of batches without deferral. A resume excludes
  the ids it names from reconciliation (`entry.rs:234`), so a crash during it leaves the decision to
  the host once more: an exception in `RerunIsDecided`. Where two calls share an id and the earlier one
  was deferred, `pending_tool_calls` counts the row of the later one for the earlier (`run_loop.rs:1587`),
  so the approval of the deferred call runs the later one a second time: the other exception. Two pending calls with one id cannot both be
  resumed (`turn_control.rs:216`). A started call of a replayable tool is left unanswered "so the normal
  loop re-executes it exactly as it would a fresh call" (`tools.rs:2447`, also `effects.rs:26` and
  `docs/modules/harness/tool-effects.md:124`), and the event says `re_execute`; but a run entered
  without deferred results goes straight to the model (`run_loop.rs:252`), nothing executes the call,
  and the next request has a call without an answer. `NextIsAnswered` excepts these calls; without the
  exception TLC shows the request after one crash. `reconcile_tool_effects` collects the
  answered ids of the whole transcript (`tools.rs:2509`), where `pending_tool_calls` looks behind the
  assistant row: a started call that must not be replayed is left unanswered, and its row stays
  started, when an earlier turn, or an earlier call of the batch, has an answer for the same id. Those
  are the other exceptions. A failing `host_invocation_binding` leaves by `?` without
  `fail_tool_call` (`tools.rs:1470`, `:1507`).
- **Agent loop.** A reply whose single call is the structured output is retried without an answer to
  that call: the exception in `CallsAreAnswered`. `JumpTo(End)` keeps the final response of an earlier
  finish (`turn_control.rs:341`), so `FinalIsCurrent`, a part of `ExitIsEarned`, speaks of runs that finish of themselves. The
  Graceful strategy swallows a `JumpTo(Model)` raised in its turn (`mixed_turn.rs:143`).
- **Model call.** `ModelFallbackMiddleware` starts a streamed call over without `RetryScheduled`
  (`resilience.rs:183`), so a consumer cannot tell what to discard; `FallbackSelected` is no substitute,
  since another middleware emits it after success (`workload.rs:89`). It is excluded from
  `FragmentsAreTheAnswers`. The documentation of `max_consecutive_stream_idle_timeouts` speaks of
  `LimitExceeded`, the code returns `StreamIdleTimeout`. `limits/types.rs:60` and the comment at
  `model_call.rs:877` call `max_retries_per_call` "a hard ceiling a looser `RetryPolicy` cannot exceed",
  but the loop leaves retrying to a registered `RetryMiddleware` and that one never asks
  `max_attempts_capped_at`: with a policy of three attempts it asks a model three times where the run
  allows two. `AttemptsBounded` therefore bounds each harness by the layer that retries in it, and with
  `asks[m] <= MaxAttempts` in its place TLC shows the third attempt. Models without a cache identity
  share a key, so a hit can be the answer of another of them; `cache/key.rs:179` promises only that
  models which do identify themselves are not served across, and `CacheKeepsItsModel` says as much.
  `next_after` looks for the first occurrence of
  a name, so a name repeated in the chain hides what stands behind the repetition.

## What is only model-checked, and what is not modelled

Only model-checked: liveness (`SweepSettles`, `DeliverableSettles`,
`CallsTakeEffect`, `RecordsSettle`, `CallsReturn`, `BatchSettles`, `RunEnds`), since fairness and
ENABLED are outside what the prover handles; and the two violations, which are counterexamples.

Not modelled, and why:

- migration of a live router to another store (`router.rs:380`), router pools, the process-local
  fallback for completion stores that cannot claim: they need a second store, planned;
- `wait_many` beyond its parts, request-id windows of steering, reads (`snapshots`,
  `steering_handle`) that change nothing;
- in the harness, what the module sections list as left out. A row the host's tool-change notice
  puts in front while a turn is open shifts where `TurnCompleted` starts counting; it needs row
  positions the loop's model does not keep;
- lock poisoning: every operation returns an error and changes nothing;
- conversions between status enums, DTOs and message formatting: total functions without steps;
- sub-agent jobs and sessions, the session ledger and the migration runner: planned as compositions of the
  registry, the store and the leases;
- the rest of the harness and the runtime, live, hooks, definition, registry and tool crates: mostly
  text transformation, configuration and wiring. Providers, network, files and models are I/O whose
  outcome is arbitrary.

The workspace has about 180,000 lines, most of them adapters, data types, catalogues and text
handling without a protocol; the model covers the parts where steps of several actors, or of one actor
and its failures, have to fit together.

## Plan

Done: TaskStore, DriverTaskStore with its refinement, CompletionRouter, Leases, DetachedRegistry,
DeliveryDrain, SubagentDriver, ToolBatch, AgentLoop and ModelCall, with runs and with proofs of every
safety property the runs check; ResumableTask, CompletionOutbox and FencedTenure, with proofs that the
components on both sides of each implement it. Next:

1. **One composed specification** of drain, router and leases, with the variables of all three: the
   refinements show that what the drain does with claims and with its lease, and the router with its
   gates, is within what the provider's specification allows as well, each for itself and for safety.
   That the provider allows every step its users take at that moment, and liveness across the
   boundary, are not shown.
2. **SubagentJobs** (`tinyagents-orchestration/src/subagent/invocation/jobs.rs`): the adapter that
   keeps controls, registry and steering together under one lock order; it composes DetachedRegistry
   and SubagentDriver and shows whether its discipline rules the late wait of `LostToALateWait` out.
3. **StoreMigration** (`replace_store_if_current`, `admission.rs`, `completions/registry.rs`): calls
   against the old store while records are copied. Abstract specification: one completion store.
4. **MigrationLease** and **RunClaims** (`migration_lease.rs`, session `run_ledger`): further users of
   Leases, one with heartbeats, one with a reusable holder string.
5. **Nested tool dispatch**: calls that tools make through the loop, and their budget.

## How to run

    tlc -workers 2 -config DriverTaskStore.cfg MCDriverTaskStore
    tlapm DriverTaskStoreProofs.tla

The `Proofs` modules are AgentLoopProofs, CompletionRouterProofs, DeliveryDrainProofs,
DriverTaskStoreProofs, LeasesProofs, ModelCallProofs, SubagentDriverProofs and
ToolBatchProofs; each is checked by itself, in one to ten minutes.

Each run's module and configuration are listed in `PROJECT.json`, with the source lines every
definition stands for.
