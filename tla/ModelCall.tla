----------------------------- MODULE ModelCall -----------------------------
(***************************************************************************)
(* One logical model call of the agent loop (tinyagents-harness,           *)
(* agent_loop/model_call.rs): the response cache, the attempts on one      *)
(* model, the fallback chain, the stream watchdog and its breaker, and     *)
(* around them the middleware that retries or falls back                   *)
(* (middleware/library/resilience.rs).  A run makes several calls; runs    *)
(* share the response cache.                                               *)
(*                                                                         *)
(* An error is its class for retry::decide.  A streamed fragment is        *)
(* counted, not kept: what matters is which attempt a fragment a consumer  *)
(* still holds came from.  Elapsed time is nondeterministic: an attempt    *)
(* may run out of its per-call ceiling or of the run's remaining time.     *)
(***************************************************************************)
EXTENDS Naturals, Sequences, FiniteSets

CONSTANTS Models,       \* model names
          Bound,        \* the models the loop binds a call to
          Steered,      \* those of them a steering command chose
          Chain,        \* FallbackPolicy::models
          Fallbacks,    \* ModelFallbackMiddleware::fallbacks
          Usable,       \* names that resolve to an eligible model
          CacheIdentity, \* ChatModel::cache_identity, NoIdentity for None
          Window,       \* max_input_tokens of a profile, 0 when it declares none
          Harnesses,    \* whether a host routes, and the middleware around the call
          MaxAttempts,  \* the loop's attempts per model: RetryPolicy capped by RunLimits
          MaxTries,     \* attempts of RetryMiddleware: its own policy, which nothing caps
          MaxIdle,      \* max_consecutive_stream_idle_timeouts, 0 for off
          MaxDeltas,    \* bound: fragments of one attempt
          MaxCalls      \* bound: logical calls

ASSUME ModelsAssumption ==
    Steered \subseteq Bound /\ Bound \subseteq Usable /\ Usable \subseteq Models
ASSUME ChainAssumption == Chain \in Seq(Models) /\ Fallbacks \in Seq(Models)
ASSUME WindowAssumption == Window \in [Models -> Nat]
ASSUME HarnessesAssumption ==
    Harnesses \subseteq [hosted : BOOLEAN, wrap : {"none", "retry", "fallback"}]
ASSUME LimitsAssumption ==
    MaxAttempts \in Nat \ {0} /\ MaxTries \in Nat \ {0} /\ MaxIdle \in Nat
ASSUME BoundsAssumption == MaxDeltas \in Nat /\ MaxCalls \in Nat

VARIABLES pc,
          harness,    \* what the run's harness is built with
          streaming,  \* whether the run streams
          call,       \* the request: the model bound and its use of the cache
          target,     \* the binding of the base call
          cur,        \* current_name: the model that is asked
          visited,    \* names already attempted or passed over
          cursor,     \* where select_fallback is in the chain
          attempt,    \* attempt number on the current model
          tries,      \* attempts, or fallbacks tried, of the wrapping middleware
          err,        \* the class of the error in hand, "ok" for none
          emitted,    \* deltas_emitted
          answer,     \* the response
          strikes,    \* stream_idle_timeouts_by_model
          skipped,    \* skipped_models: written off for this run
          cache,      \* the response cache
          cancelled,  \* the cancellation token
          calls,      \* ghost: logical calls so far, against MaxCalls
          asks,       \* ghost: attempts per model, of the logical call or since
                      \* ModelFallbackMiddleware turned to its next name
          view        \* a consumer that drops what it holds at RetryScheduled: stale
                      \* tells that fragments of an earlier attempt are left, shown
                      \* counts the current attempt's, sent what that attempt emitted

locals == <<cur, visited, cursor, attempt, emitted>>
request == <<harness, streaming, call, calls>>
runVars == <<strikes, skipped, cache, cancelled>>
vars == <<pc, request, target, locals, tries, err, answer, runVars, asks, view>>

NoModel == "none"

\* from_chain_head: the walk begins before the first entry.
ChainHead == "head"

ASSUME NamesAssumption == NoModel \notin Models /\ ChainHead \notin Models

NoEntry == [by |-> NoModel, streamed |-> FALSE, blank |-> FALSE]

NoAnswer == [by |-> NoModel, blank |-> FALSE, cached |-> FALSE]

\* strict: a blank answer is worth a retry (should_skip_empty_response_cache).
\* A call that leaves the cache alone is one whose read and write fail.
Requests == [bound : Bound, strict : BOOLEAN]

\* A model that declines to identify itself, and what scoped_cache_key folds
\* for every one that does.
NoIdentity == "undeclared"
AnonymousModel == "anonymous-model"

FoldedIdentity(m) == IF CacheIdentity[m] = NoIdentity THEN AnonymousModel ELSE CacheIdentity[m]

Keys == {FoldedIdentity(m) : m \in Models} \X BOOLEAN

Key == <<FoldedIdentity(target), streaming>>

NothingSeen == [stale |-> FALSE, shown |-> 0, sent |-> 0]

\* What a consumer drops at RetryScheduled.
Discarded == [view EXCEPT !.stale = FALSE, !.shown = 0]

\* A new attempt emits under the same call id.
Reopened == [stale |-> view.stale \/ view.shown > 0, shown |-> 0, sent |-> 0]

Init ==
    /\ pc = "idle"
    /\ harness \in Harnesses
    /\ streaming = FALSE
    /\ call = [bound |-> NoModel, strict |-> FALSE]
    /\ target = NoModel
    /\ cur = NoModel /\ visited = {} /\ cursor = NoModel /\ attempt = 0 /\ emitted = 0
    /\ tries = 0 /\ calls = 0
    /\ err = "ok"
    /\ answer = NoAnswer
    /\ strikes = [m \in Models |-> 0]
    /\ skipped = {}
    /\ cache = [k \in Keys |-> NoEntry]
    /\ cancelled = FALSE
    /\ asks = [m \in Models |-> 0]
    /\ view = NothingSeen

(***************************************************************************)
(* The logical call.                                                       *)
(***************************************************************************)
Begins(r) ==
    /\ pc \in {"idle", "returned"}
    /\ calls < MaxCalls
    /\ call' = r
    /\ target' = r.bound
    /\ tries' = 0
    /\ err' = "ok" /\ answer' = NoAnswer
    /\ calls' = calls + 1
    /\ asks' = [m \in Models |-> 0]
    /\ view' = NothingSeen
    /\ pc' = "lookup"
    /\ UNCHANGED <<locals, cache>>

\* The next call of a run, which ends with an error of any call.
NextCall(r) ==
    /\ Begins(r)
    /\ pc = "returned"
    /\ err = "ok"
    /\ ~cancelled
    /\ UNCHANGED <<harness, streaming, strikes, skipped, cancelled>>

\* The first call of the next run: a fresh LimitTracker over the same cache.
FirstCall(r, streams) ==
    /\ Begins(r)
    /\ streaming' = streams
    /\ UNCHANGED harness
    /\ strikes' = [m \in Models |-> 0]
    /\ skipped' = {}
    /\ cancelled' = FALSE

(***************************************************************************)
(* RetryMiddleware and ModelFallbackMiddleware, which decide in one step   *)
(* with the return of the base call they wrap.                             *)
(***************************************************************************)
Transient(kind) == kind \in {"transient", "calltimeout"}

\* RetryMiddleware::wrap_model: RetryScheduled, backoff, and the whole base
\* call again, cache and chain included.
RetryBase(kind) ==
    /\ harness.wrap = "retry"
    /\ Transient(kind)
    /\ tries + 1 < MaxTries
    /\ tries' = tries + 1
    /\ view' = Discarded
    /\ err' = "ok"
    /\ pc' = "pause"
    /\ UNCHANGED <<target, asks>>

\* ModelFallbackMiddleware::wrap_model: FallbackSelected and the next name.
SelectFallback(kind) ==
    /\ harness.wrap = "fallback"
    /\ Transient(kind)
    /\ tries < Len(Fallbacks)
    /\ tries' = tries + 1
    /\ asks' = [m \in Models |-> 0]
    /\ err' = "ok"
    /\ pc' = "rebind"
    /\ UNCHANGED <<target, view>>

\* The logical call returns the error.
CallFails(kind) ==
    /\ CASE harness.wrap = "none" -> TRUE
         [] harness.wrap = "retry" -> ~Transient(kind) \/ tries + 1 >= MaxTries
         [] harness.wrap = "fallback" -> ~Transient(kind) \/ tries >= Len(Fallbacks)
    /\ pc' = "returned"
    /\ err' = kind
    /\ target' = NoModel /\ tries' = 0
    /\ asks' = [m \in Models |-> 0]
    /\ view' = NothingSeen

\* The locals of invoke_model_resolving go out of scope.
Unwinds == cur' = NoModel /\ visited' = {} /\ cursor' = NoModel /\ attempt' = 0 /\ emitted' = 0

\* The base call returns an error to what wraps it.
BaseFails(kind) ==
    /\ Unwinds
    /\ RetryBase(kind) \/ SelectFallback(kind) \/ CallFails(kind)
    /\ UNCHANGED <<request, answer, cache, cancelled>>

\* The base call, and with it the logical call, returns the answer.
BaseAnswers(by, blank, cached) ==
    /\ Unwinds
    /\ answer' = [by |-> by, blank |-> blank, cached |-> cached]
    /\ err' = "ok"
    /\ tries' = 0
    /\ asks' = [m \in Models |-> 0]
    /\ pc' = "returned"
    /\ UNCHANGED <<request, target, skipped, cancelled>>

PauseEnds ==
    /\ pc = "pause"
    /\ pc' = "lookup"
    /\ UNCHANGED <<request, target, locals, tries, asks, err, answer, runVars, view>>

CancelledInPause ==
    /\ pc = "pause"
    /\ cancelled
    /\ CallFails("cancelled")
    /\ UNCHANGED <<request, locals, answer, runVars>>

\* rebind: a name that does not resolve keeps the captured binding; a host
\* may route the pin as it sees fit.
Rebind ==
    /\ pc = "rebind"
    /\ LET name == Fallbacks[tries]
       IN  target' \in (IF name \in Usable THEN {name} ELSE {})
                       \cup (IF name \notin Usable \/ harness.hosted THEN {call.bound} ELSE {})
    /\ pc' = "lookup"
    /\ UNCHANGED <<request, locals, tries, asks, err, answer, runVars, view>>

RebindFails ==
    /\ pc = "rebind"
    /\ \E kind \in {"timeout", "calltimeout"} \cup (IF cancelled THEN {"cancelled"} ELSE {})
                   \cup (IF harness.hosted THEN {"transient", "fatal"} ELSE {}) : BaseFails(kind)
    /\ UNCHANGED <<strikes, skipped>>

(***************************************************************************)
(* invoke_model_with_retry: the cache around the base call.                *)
(***************************************************************************)
\* An entry is served unless it is blank and the request may retry a blank.
Hit ==
    /\ cache[Key] # NoEntry
    /\ ~(call.strict /\ cache[Key].blank)

\* replay_cached_response_as_deltas hands the answer over in n fragments.
Replayed(n) == IF streaming THEN [Reopened EXCEPT !.shown = n, !.sent = n] ELSE view

ServeHit(n) ==
    /\ pc = "lookup"
    /\ Hit
    /\ view' = Replayed(n)
    /\ BaseAnswers(cache[Key].by, cache[Key].blank, TRUE)
    /\ UNCHANGED <<strikes, cache>>

\* A delta hook errs during the replay, before or after a fragment.
ReplayFails(kind) ==
    /\ pc = "lookup"
    /\ Hit
    /\ streaming
    /\ BaseFails(kind)
    /\ UNCHANGED <<strikes, skipped>>

\* fallback_starts_at_chain_head, or the model's own place.
WalkFrom(m) ==
    IF m \in Steered /\ m = call.bound /\ \A i \in DOMAIN Chain : Chain[i] # m
    THEN ChainHead ELSE m

\* A miss, a failed read (which is treated as one), or no cache in play:
\* invoke_model_resolving.  A model written off earlier in the run is passed
\* over while a fallback can answer.
Miss ==
    /\ pc = "lookup"
    /\ cur' = target
    /\ visited' = {target}
    /\ attempt' = 0 /\ emitted' = 0
    /\ IF target \in skipped /\ ~harness.hosted
       THEN pc' = "skipping" /\ cursor' = WalkFrom(target)
       ELSE pc' = "try" /\ cursor' = NoModel
    /\ UNCHANGED <<request, target, tries, err, answer, runVars, asks, view>>

\* Mutated form: whoever answered, the answer is kept under the key.
KeepsAny(blank) == ~(call.strict /\ blank)

\* Only the keyed model's answer is stored, and no blank that may be retried.
Keeps(blank) == ~(call.strict /\ blank) /\ cur = target

(***************************************************************************)
(* One attempt.                                                            *)
(***************************************************************************)
\* The token is looked at and the provider asked.
Ask ==
    /\ pc = "try"
    /\ ~cancelled
    /\ asks' = [asks EXCEPT ![cur] = @ + 1]
    /\ view' = Reopened
    /\ pc' = "asking"
    /\ UNCHANGED <<request, target, locals, tries, err, answer, runVars>>

CancelledBeforeAsking ==
    /\ pc = "try"
    /\ cancelled
    /\ BaseFails("cancelled")
    /\ UNCHANGED <<strikes, skipped>>

\* An item of the stream.  The scrubber may swallow output, and hooks may make
\* a fragment of an item that carried none: shown says that consumers get a
\* fragment, output that the provider sent one.
StreamItem(shown, output) ==
    /\ pc = "asking"
    /\ streaming
    /\ view.sent < MaxDeltas
    /\ view' = IF shown THEN [view EXCEPT !.shown = @ + 1, !.sent = @ + 1] ELSE view
    /\ emitted' = IF shown THEN emitted + 1 ELSE emitted
    /\ strikes' = IF output THEN [strikes EXCEPT ![cur] = 0] ELSE strikes
    /\ UNCHANGED <<pc, request, target, cur, visited, cursor, attempt, tries, asks, err, answer,
                   skipped, cache, cancelled>>

\* The answer, and the write of it to the cache, which may fail and then costs
\* nothing but the entry.
Answers(blank) ==
    /\ pc = "asking"
    /\ BaseAnswers(cur, blank, FALSE)
    /\ \/ /\ Keeps(blank)
          /\ cache' = [cache EXCEPT ![Key] = [by |-> cur, streamed |-> streaming, blank |-> blank]]
       \/ UNCHANGED cache
    /\ strikes' = IF streaming THEN [strikes EXCEPT ![cur] = 0] ELSE strikes
    /\ UNCHANGED view

(***************************************************************************)
(* Retry, fallback or surface: retry::decide, in one step with the failure *)
(* of the attempt.                                                         *)
(***************************************************************************)
\* stream_idle_breaker_error.
Tripped(kind) == kind = "calltimeout" /\ MaxIdle > 0 /\ strikes'[cur] >= MaxIdle

\* Mutated form: the loop retries under a retrying middleware too.
RetrySameTwice(kind) == Transient(kind) /\ ~Tripped(kind) /\ attempt + 1 < MaxAttempts

\* A middleware that overrides retry retries the whole base call instead.
RetrySame(kind) ==
    /\ Transient(kind)
    /\ ~Tripped(kind)
    /\ attempt + 1 < MaxAttempts
    /\ harness.wrap # "retry"

\* RetryScheduled, then the backoff.
ScheduleRetry(kind) ==
    /\ RetrySame(kind)
    /\ attempt' = attempt + 1
    /\ emitted' = 0
    /\ view' = Discarded
    /\ pc' = "backoff"
    /\ UNCHANGED <<request, target, cur, visited, cursor, tries, asks, err, answer, skipped, cache,
                   cancelled>>

\* Errors another model cannot help with, and runs whose host owns routing.
Surfaces(kind) ==
    /\ ~RetrySame(kind)
    /\ kind \in {"limit", "timeout"} \/ harness.hosted
    /\ BaseFails(IF Tripped(kind) THEN "idle" ELSE kind)
    /\ UNCHANGED skipped

\* The model is given up on, for good after a permanent credential error, and
\* the chain is consulted.
ConsultChain(kind) ==
    /\ ~RetrySame(kind)
    /\ kind \notin {"limit", "timeout"}
    /\ ~harness.hosted
    /\ err' = IF Tripped(kind) THEN "idle" ELSE kind
    /\ skipped' = IF kind = "authpermanent" THEN skipped \cup {cur} ELSE skipped
    /\ cursor' = WalkFrom(cur)
    /\ pc' = "selecting"
    /\ UNCHANGED <<request, target, cur, visited, attempt, emitted, tries, asks, answer, cache,
                   cancelled, view>>

AttemptFails(kind) ==
    /\ pc = "asking"
    /\ ScheduleRetry(kind) \/ Surfaces(kind) \/ ConsultChain(kind)

\* transient: what is_retryable calls so; fatal: the other errors that another
\* model may not meet (Auth, Billing, ModelNotFound, Format, EmptyResponse).
ProviderFails(kind) ==
    /\ UNCHANGED strikes
    /\ AttemptFails(kind)

\* with_call_budget elapses: which error depends on the bound in force.
RunsOut(kind) ==
    /\ UNCHANGED strikes
    /\ AttemptFails(kind)

\* The watchdog fires before the first output event or between two.  Strikes
\* beyond MaxIdle make no difference and are not counted.
GoesIdle ==
    /\ pc = "asking"
    /\ streaming
    /\ strikes' = [strikes EXCEPT ![cur] = IF @ < MaxIdle THEN @ + 1 ELSE @]
    /\ AttemptFails("calltimeout")

CancelledWhileAsking ==
    /\ cancelled
    /\ UNCHANGED strikes
    /\ AttemptFails("cancelled")

BackoffEnds ==
    /\ pc = "backoff"
    /\ pc' = "try"
    /\ UNCHANGED <<request, target, locals, tries, asks, err, answer, runVars, view>>

CancelledInBackoff ==
    /\ pc = "backoff"
    /\ cancelled
    /\ BaseFails("cancelled")
    /\ UNCHANGED <<strikes, skipped>>

(***************************************************************************)
(* select_fallback: one candidate after the other, each resolved in turn.  *)
(***************************************************************************)
\* The entry after the first one that bears the name.
NextAfter(name) ==
    LET at == {i \in DOMAIN Chain : Chain[i] = name}
        first == CHOOSE i \in at : \A j \in at : i <= j
    IN  IF at = {} \/ first = Len(Chain) THEN NoModel ELSE Chain[first + 1]

NextName ==
    IF cursor # ChainHead THEN NextAfter(cursor) ELSE IF Chain = <<>> THEN NoModel ELSE Chain[1]

\* The walk ends at a name it has met before.
Remains == NextName # NoModel /\ NextName \notin visited

\* Context overflow needs a window that is declared and larger.
Roomier(m) == Window[cur] # 0 /\ Window[m] > Window[cur]

\* Mutated form: models written off are offered again.
CandidateStill(m) == m \in Usable /\ (err = "overflow" => Roomier(m))

Candidate(m) ==
    /\ m \in Usable
    /\ m \notin skipped
    /\ err = "overflow" => Roomier(m)

Selecting == pc \in {"skipping", "selecting"}

PassOver ==
    /\ Selecting
    /\ Remains
    /\ ~Candidate(NextName)
    /\ visited' = visited \cup {NextName}
    /\ cursor' = NextName
    /\ UNCHANGED <<pc, request, target, cur, attempt, emitted, tries, asks, err, answer, runVars,
                   view>>

\* Mutated form: a fallback says nothing to the consumers of the stream.
MarkedNever == view

\* RetryScheduled once more when the model given up on had emitted anything.
Marked == IF streaming /\ emitted > 0 THEN Discarded ELSE view

FallBack ==
    /\ Selecting
    /\ Remains
    /\ Candidate(NextName)
    /\ visited' = visited \cup {NextName}
    /\ cur' = NextName
    /\ cursor' = NoModel
    /\ view' = Marked
    /\ attempt' = 0 /\ emitted' = 0
    /\ err' = "ok"
    /\ pc' = "try"
    /\ UNCHANGED <<request, target, tries, asks, answer, runVars>>

\* Nobody is left: a model passed over is asked all the same,
NoSubstitute ==
    /\ pc = "skipping"
    /\ ~Remains
    /\ pc' = "try"
    /\ cursor' = NoModel
    /\ UNCHANGED <<request, target, cur, visited, attempt, emitted, tries, asks, err, answer,
                   runVars, view>>

\* a model that failed has its error returned.
ChainExhausted ==
    /\ pc = "selecting"
    /\ ~Remains
    /\ BaseFails(err)
    /\ UNCHANGED <<strikes, skipped>>

\* Resolution errs, or runs out of time, or meets the cancellation.
SelectionFails ==
    /\ Selecting
    /\ Remains
    /\ \E kind \in {"transient", "fatal", "timeout"} \cup (IF cancelled THEN {"cancelled"} ELSE {}) :
          BaseFails(kind)
    /\ UNCHANGED <<strikes, skipped>>

\* The host cancels the run.
Cancel ==
    /\ pc \notin {"idle", "returned"}
    /\ ~cancelled
    /\ cancelled' = TRUE
    /\ UNCHANGED <<pc, request, target, locals, tries, asks, err, answer, strikes, skipped, cache,
                   view>>

Next ==
    \/ \E r \in Requests : NextCall(r) \/ \E streams \in BOOLEAN : FirstCall(r, streams)
    \/ \E n \in 0..MaxDeltas : ServeHit(n)
    \/ \E kind \in {"transient", "fatal"} : ReplayFails(kind)
    \/ Miss \/ Ask \/ CancelledBeforeAsking
    \/ \E blank \in BOOLEAN : Answers(blank)
    \/ \E kind \in {"transient", "fatal", "authpermanent", "overflow", "limit"} : ProviderFails(kind)
    \/ \E kind \in {"timeout", "calltimeout"} : RunsOut(kind)
    \/ GoesIdle \/ CancelledWhileAsking \/ BackoffEnds \/ CancelledInBackoff
    \/ PassOver \/ FallBack \/ NoSubstitute \/ ChainExhausted \/ SelectionFails
    \/ PauseEnds \/ CancelledInPause \/ Rebind \/ RebindFails
    \/ \E b \in {<<TRUE, TRUE>>, <<TRUE, FALSE>>, <<FALSE, TRUE>>} : StreamItem(b[1], b[2])
    \/ Cancel

Spec == Init /\ [][Next]_vars

(***************************************************************************)
(* Properties.                                                             *)
(***************************************************************************)
Kinds == {"ok", "transient", "fatal", "authpermanent", "overflow", "limit", "timeout",
          "calltimeout", "idle", "cancelled"}

PCs == {"idle", "lookup", "skipping", "try", "asking", "backoff",
        "selecting", "pause", "rebind", "returned"}

\* Types.
TypeOK ==
    /\ pc \in PCs
    /\ harness \in Harnesses
    /\ streaming \in BOOLEAN
    /\ call \in Requests \cup {[bound |-> NoModel, strict |-> FALSE]}
    /\ target \in Models \cup {NoModel}
    /\ cur \in Models \cup {NoModel}
    /\ cursor \in Models \cup {NoModel, ChainHead}
    /\ visited \subseteq Models
    /\ attempt \in Nat /\ tries \in Nat /\ emitted \in Nat /\ calls \in Nat
    /\ err \in Kinds
    /\ cancelled \in BOOLEAN
    /\ answer \in [by : Models \cup {NoModel}, blank : BOOLEAN, cached : BOOLEAN]
    /\ strikes \in [Models -> Nat]
    /\ skipped \subseteq Models
    /\ cache \in [Keys -> [by : Models \cup {NoModel}, streamed : BOOLEAN, blank : BOOLEAN]]
    /\ asks \in [Models -> Nat]
    /\ view \in [stale : BOOLEAN, shown : Nat, sent : Nat]

\* A consumer that drops what it has at every RetryScheduled is left, when a
\* streamed call returns, with the fragments of the attempt that answered, all
\* of them and no others: whatever attempts died on the way, on whichever
\* models, and also when the answer is replayed from the cache.  Not so under
\* ModelFallbackMiddleware, which starts over without that event.
FragmentsAreTheAnswers ==
    (pc = "returned" /\ err = "ok" /\ streaming /\ harness.wrap # "fallback") =>
        ~view.stale /\ view.shown = view.sent

\* Retries do not multiply: one logical call asks a model at most as often as
\* the one layer that retries allows, RetryMiddleware by its own policy when
\* there is one and the loop otherwise, repeated names of the chain included.
\* The ceiling of RunLimits is part of the loop's allowance only.
\* ModelFallbackMiddleware begins the count anew with every name it tries.
AttemptsBounded ==
    \A m \in Models : asks[m] <= IF harness.wrap = "retry" THEN MaxTries ELSE MaxAttempts

\* A key of the response cache holds only what a model of its own identity
\* answered in its own mode, whichever model answered in the end.  So a hit
\* is another model's answer only where scoped_cache_key cannot tell the two
\* apart (models that decline to identify themselves share one marker), and
\* it is never a blank the request would retry.
CacheKeepsItsModel ==
    /\ \A k \in Keys :
          cache[k] # NoEntry => FoldedIdentity(cache[k].by) = k[1] /\ cache[k].streamed = k[2]
    /\ (pc = "returned" /\ err = "ok" /\ answer.cached) =>
          /\ FoldedIdentity(answer.by) = FoldedIdentity(target)
          /\ call.strict => ~answer.blank

\* The first name select_fallback can meet after m, if any.
FirstNames(m) ==
    IF WalkFrom(m) = ChainHead THEN {Chain[i] : i \in DOMAIN Chain \cap {1}} ELSE {NextAfter(m)}

\* The names it can meet: they are in every set that holds the first and, with
\* each of its names but m, the one that follows.
Beyond(m) ==
    {x \in Models \ {m} :
        \A S \in SUBSET (Models \cup {NoModel}) :
            FirstNames(m) \subseteq S /\ (\A y \in S \ {m} : NextAfter(y) \in S) => x \in S}

\* A model written off for the run is asked again only as the model the call
\* is bound to, and only when no other model of the chain could answer (the
\* skip hint of invoke_model_resolving), or when the host routes.
WrittenOffIsLastResort ==
    (pc = "asking" /\ cur \in skipped /\ ~harness.hosted) =>
        /\ cur = target
        /\ \A m \in Beyond(cur) : m \in skipped \/ m \notin Usable
=============================================================================
