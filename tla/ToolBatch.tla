----------------------------- MODULE ToolBatch -----------------------------
(***************************************************************************)
(* The tool calls of one assistant row (crates/tinyagents-harness/src/     *)
(* agent_loop/tools.rs): admission, announcement, execution, fold, the     *)
(* deferral of calls and their resumption (turn_control.rs, entry.rs), and *)
(* the tool-effect ledger with which a resumed run judges what a crash     *)
(* interrupted.                                                            *)
(*                                                                         *)
(* A concurrent batch moves all its calls through the phases together; a   *)
(* serial batch, and an approved call of a resumed one, does the same with *)
(* one call at a time.  A row of the transcript is the id of the call it   *)
(* answers, or FollowUp for the user message a result asked for.           *)
(***************************************************************************)
EXTENDS Naturals, Sequences, FiniteSets

CONSTANTS N,              \* number of calls of the row
          Safe,           \* the calls whose tool declares ToolReplay::Safe
          Ids,            \* call ids; a provider may give one id to two calls
          Earlier,        \* ids that tool rows of earlier turns already answer
          LedgerBefore,   \* the ledger as those turns left it, lost settles included
          MaxToolCalls,   \* the tool-call cap of the run
          Concurrency,    \* max_tool_concurrency
          Policies,       \* LedgerFailure settings: "Abort", "Continue" or both
          MaxCrashes,     \* bound: processes that die
          MaxResumes      \* bound: calls of resume_deferred

FollowUp == "user"

ASSUME NAssumption == N \in Nat \ {0}
ASSUME SafeAssumption == Safe \subseteq 1..N
ASSUME IdsAssumption == FollowUp \notin Ids
ASSUME EarlierAssumption == Earlier \subseteq Ids
ASSUME CapAssumption == MaxToolCalls \in Nat
ASSUME ConcurrencyAssumption == Concurrency \in Nat \ {0}
ASSUME PolicyAssumption == Policies \subseteq {"Abort", "Continue"}
ASSUME BoundsAssumption == MaxCrashes \in Nat /\ MaxResumes \in Nat

VARIABLES pc,         \* the phase the driver of the batch is in
          mode,       \* "serial" or "concurrent"
          stage,      \* "batch", "resume" while the host's decisions on deferred
                      \* calls are applied, "handled" while the handler's are
          id,         \* the id of each call, chosen by the provider
          policy,     \* the ledger's on_failure setting
          st,         \* how far each call has come in this process
          todo,       \* calls still to take up, in order
          count,      \* LimitTracker::tool_calls, from the start of the batch
          active,     \* status.active_tool_calls: occurrences of each id
          started,    \* ToolStarted events of each call in this process
          terminal,   \* their terminal partners
          rows,       \* the transcript after the assistant row
          follow,     \* follow-ups held back until the last tool row
          votes,      \* ctx.terminate_votes
          deferred,   \* DeferredToolRequests being collected
          results,    \* ids of DeferredToolResults not used yet
          whole,      \* resumes_whole_batch
          ledger,     \* durable: the ToolEffectStatus of each id
          unresolved, \* the ids reconcile_tool_effects read as started
          named,      \* the ids the running resume excludes from reconciliation
          requests,   \* durable: the ids the last Deferred exit handed to the host
          saved,      \* durable: length of the transcript the host is sure to have
          landed,     \* ghost: executions of a call whose effect may have landed
          voted,      \* ghost: the calls whose last answer of this process asked to
                      \* terminate
          crashes, resumes

given == <<id, policy>>
ghosts == <<landed, voted>>
bounds == <<crashes, resumes>>
host == <<unresolved, named, requests, saved, crashes, resumes>>

vars == <<pc, mode, stage, id, policy, st, todo, count, active, started, terminal, rows,
          follow, votes, deferred, results, whole, ledger, unresolved, named,
          requests, saved, landed, voted, crashes, resumes>>

Calls == 1..N

\* ToolEffectStatus, and "none" for an id without a row.
EffectStatus == {"none", "Started", "Completed", "Failed", "Interrupted", "Deferred"}

ASSUME LedgerAssumption ==
    /\ LedgerBefore \in [Ids -> EffectStatus]
    /\ \A i \in Ids \ Earlier : LedgerBefore[i] = "none"

(***************************************************************************)
(* The way of a call: ResolvedToolCall gives it Tool, Deferral or an       *)
(* answer (Kept or Free, by what became of its budget slot); a Tool is     *)
(* Started, Running and has an outcome; the fold leaves it Answered,       *)
(* Failed or Filed.                                                        *)
(***************************************************************************)
Answers == {"Kept", "Free"}
Outcomes == {"Ok", "Fatal", "Paused"}
Flying == {"Started", "Running"} \cup Outcomes
InGroup == Answers \cup Flying \cup {"Deferral", "Tool"}

Group == {c \in Calls : st[c] \in InGroup}

\* c is the first call of S in the order of the row.
Leads(c, S) == c \in S /\ \A d \in S : c <= d

NoDeferred == [approvals |-> <<>>, calls |-> <<>>]

RowsOf(i, seq) == Cardinality({k \in DOMAIN seq : seq[k] = i})

\* Occurrences of c's id up to and including c, in the order of the row.
Rank(c) == Cardinality({d \in 1..c : id[d] = id[c]})

\* Mutated form: the later call takes the answer.
PendingFirst(c, seq) ==
    Cardinality({d \in c..N : id[d] = id[c]}) > RowsOf(id[c], seq)

\* pending_tool_calls: answers are counted per id, the earlier call takes one.
Pending(c, seq) == Rank(c) > RowsOf(id[c], seq)

\* How many calls of S come up to c, c included.
Place(c, S) == Cardinality({d \in S : d <= c})

\* The calls of S in the order of the row.
InOrder(S) == [k \in 1..Cardinality(S) |-> CHOOSE c \in S : Place(c, S) = k]

PendingToolCalls(seq) == InOrder({c \in Calls : Pending(c, seq)})

Busy == {"admit", "announce", "execute", "fold", "settle", "resolve", "reconcile"}

NewProcess ==
    /\ st' = [c \in Calls |-> "todo"]
    /\ count' = 0
    /\ active' = [i \in Ids |-> 0]
    /\ started' = [c \in Calls |-> 0]
    /\ terminal' = [c \in Calls |-> 0]
    /\ follow' = <<>>
    /\ votes' = <<>>
    /\ deferred' = NoDeferred
    /\ results' = {}
    /\ whole' = FALSE
    /\ stage' = "batch"
    /\ voted' = {}

Init ==
    /\ pc = "admit"
    /\ mode \in IF N > 1 THEN {"serial", "concurrent"} ELSE {"serial"}
    /\ stage = "batch"
    /\ id \in [Calls -> Ids]
    /\ policy \in Policies
    /\ st = [c \in Calls |-> "todo"]
    /\ todo = InOrder(Calls)
    /\ count = 0
    /\ active = [i \in Ids |-> 0]
    /\ started = [c \in Calls |-> 0]
    /\ terminal = [c \in Calls |-> 0]
    /\ rows = <<>>
    /\ follow = <<>>
    /\ votes = <<>>
    /\ deferred = NoDeferred
    /\ results = {}
    /\ whole = FALSE
    /\ ledger = LedgerBefore
    /\ unresolved = {}
    /\ named = {}
    /\ requests = {}
    /\ saved = 0
    /\ landed = [c \in Calls |-> 0]
    /\ voted = {}
    /\ crashes = 0
    /\ resumes = 0

(***************************************************************************)
(* Phase 1: admit_tool_call.  A slot of the cap is recorded first and      *)
(* given back when the rules, a hook or the host refuse or defer the call; *)
(* a call answered with a correction keeps it, a call cut off by a length  *)
(* stop never takes one.                                                   *)
(***************************************************************************)
Admitted(s, slots) ==
    /\ pc = "admit"
    /\ st' = [st EXCEPT ![Head(todo)] = s]
    /\ count' = count + slots
    /\ todo' = Tail(todo)
    /\ pc' = IF mode = "serial" \/ Tail(todo) = <<>> THEN "announce" ELSE "admit"
    /\ UNCHANGED <<mode, stage, given, active, started, terminal, rows, follow, votes,
                   deferred, results, whole, ledger, host, ghosts>>

AdmitTool == count < MaxToolCalls /\ Admitted("Tool", 1)

AdmitCorrection == count < MaxToolCalls /\ Admitted("Kept", 1)

AdmitRefusal == count < MaxToolCalls /\ Admitted("Free", 0)

AdmitTruncated == stage = "batch" /\ Admitted("Free", 0)

AdmitDeferral == count < MaxToolCalls /\ Admitted("Deferral", 0)

\* Cancellation, the deadline, the spent cap, or an error of a hook or gate.
AdmitFails ==
    /\ pc = "admit"
    /\ pc' = "failed"
    /\ UNCHANGED <<mode, stage, given, st, todo, count, active, started, terminal, rows,
                   follow, votes, deferred, results, whole, ledger, host, ghosts>>

(***************************************************************************)
(* Phase 2: start_tool_call announces a call, record_tool_effect_started   *)
(* journals it before it runs.  When the journal refuses and the policy is *)
(* Abort, every call announced so far gets its terminal event.             *)
(***************************************************************************)
ToolStarted(c) ==
    /\ started' = [started EXCEPT ![c] = @ + 1]
    /\ active' = [active EXCEPT ![id[c]] = @ + 1]

Announce(c) ==
    /\ pc = "announce"
    /\ Leads(c, {d \in Calls : st[d] = "Tool"})
    /\ ToolStarted(c)
    /\ st' = [st EXCEPT ![c] = "Started"]
    /\ \/ ledger' = [ledger EXCEPT ![id[c]] = "Started"]
       \/ policy = "Continue" /\ ledger' = ledger
    /\ UNCHANGED <<pc, mode, stage, given, todo, count, terminal, rows, follow, votes,
                   deferred, results, whole, host, ghosts>>

\* fail_tool_call for the calls of S: release_active_tool_call removes one
\* occurrence of the id for each.
FailAll(S) ==
    /\ st' = [c \in Calls |-> IF c \in S THEN "Failed" ELSE st[c]]
    /\ terminal' = [c \in Calls |-> IF c \in S THEN terminal[c] + 1 ELSE terminal[c]]

\* Mutated form: every occurrence of the id is dropped.
ActiveWithoutAny(act, S) ==
    [i \in Ids |-> IF \E c \in S : id[c] = i THEN 0 ELSE act[i]]

ActiveWithout(act, S) ==
    [i \in Ids |-> act[i] - Cardinality({c \in S : id[c] = i})]

AnnounceFails(c) ==
    /\ pc = "announce"
    /\ policy = "Abort"
    /\ Leads(c, {d \in Calls : st[d] = "Tool"})
    /\ LET S == {d \in Calls : st[d] = "Started"} \cup {c}
       IN  /\ FailAll(S)
           /\ started' = [started EXCEPT ![c] = @ + 1]
           /\ active' = ActiveWithout([active EXCEPT ![id[c]] = @ + 1], S)
    /\ pc' = "failed"
    /\ UNCHANGED <<mode, stage, given, todo, count, rows, follow, votes, deferred,
                   results, whole, ledger, host, ghosts>>

Announced ==
    /\ pc = "announce"
    /\ \A c \in Calls : st[c] # "Tool"
    /\ pc' = "execute"
    /\ UNCHANGED <<mode, stage, given, st, todo, count, active, started, terminal, rows,
                   follow, votes, deferred, results, whole, ledger, host, ghosts>>

(***************************************************************************)
(* Phase 3: buffered(n) polls futures in order, at most n of those whose   *)
(* result it has not yielded, and yields in order.                         *)
(***************************************************************************)
Yielded(d) == \A e \in Calls : (e <= d /\ st[e] \in Flying) => st[e] \in Outcomes

InWindow(c) ==
    Cardinality({d \in Calls : d < c /\ st[d] \in Flying /\ ~Yielded(d)}) < Concurrency

Poll(c) ==
    /\ pc = "execute"
    /\ st[c] = "Started"
    /\ InWindow(c)
    /\ st' = [st EXCEPT ![c] = "Running"]
    /\ landed' = [landed EXCEPT ![c] = @ + 1]
    /\ UNCHANGED <<pc, mode, stage, given, todo, count, active, started, terminal, rows,
                   follow, votes, deferred, results, whole, ledger, host, voted>>

\* A result, a fatal error (the run budget's timeout included), or a deferral
\* raised by the tool before its effect.
Return(c, o) ==
    /\ pc = "execute"
    /\ st[c] = "Running"
    /\ st' = [st EXCEPT ![c] = o]
    /\ landed' = [landed EXCEPT ![c] = IF o = "Paused" THEN @ - 1 ELSE @]
    /\ UNCHANGED <<pc, mode, stage, given, todo, count, active, started, terminal, rows,
                   follow, votes, deferred, results, whole, ledger, host, voted>>

Executed ==
    /\ pc = "execute"
    /\ \A c \in Calls : st[c] \notin {"Started", "Running"}
    /\ pc' = "fold"
    /\ UNCHANGED <<mode, stage, given, st, todo, count, active, started, terminal, rows,
                   follow, votes, deferred, results, whole, ledger, host, ghosts>>

(***************************************************************************)
(* Phase 4: the fold, in call order.  A settle write is best effort.       *)
(***************************************************************************)
Settled(S, s) ==
    ledger' \in {l \in [Ids -> EffectStatus] :
                    \A i \in Ids : \/ l[i] = ledger[i]
                                   \/ l[i] = s /\ \E c \in S : id[c] = i}

\* Mutated form: a follow-up is appended with its row.
AnswerAtOnce(c) ==
    /\ st' = [st EXCEPT ![c] = "Answered"]
    /\ rows' \in {Append(rows, id[c]), rows \o <<id[c], FollowUp>>}
    /\ terminal' = [terminal EXCEPT ![c] = @ + 1]
    /\ follow' = follow
    /\ \E v \in BOOLEAN :
          /\ votes' = Append(votes, v)
          /\ voted' = IF v THEN voted \cup {c} ELSE voted \ {c}

\* finish_tool_call once after_tool and the output screen let the result pass.
Answer(c) ==
    /\ st' = [st EXCEPT ![c] = "Answered"]
    /\ rows' = Append(rows, id[c])
    /\ terminal' = [terminal EXCEPT ![c] = @ + 1]
    /\ follow' \in {follow, Append(follow, FollowUp)}
    /\ \E v \in BOOLEAN :
          /\ votes' = Append(votes, v)
          /\ voted' = IF v THEN voted \cup {c} ELSE voted \ {c}

\* recover_tool_call: no tool ran, the same events and the same pipeline.
Recover(c) ==
    /\ started' = [started EXCEPT ![c] = @ + 1]
    /\ \/ Answer(c) /\ pc' = pc
       \/ /\ FailAll({c})
          /\ pc' = "failed"
          /\ UNCHANGED <<rows, follow, votes, voted>>
    /\ UNCHANGED active

FoldAnswer(c) ==
    /\ pc = "fold"
    /\ Leads(c, Group)
    /\ st[c] \in Answers
    /\ Recover(c)
    /\ UNCHANGED <<mode, stage, given, todo, count, deferred, results, whole, ledger,
                   host, landed>>

\* defer_tool_call files the request as an approval or as an external call.
File(c) ==
    /\ st' = [st EXCEPT ![c] = "Filed"]
    /\ deferred' \in {[deferred EXCEPT !.approvals = Append(@, c)],
                      [deferred EXCEPT !.calls = Append(@, c)]}

FoldDeferral(c) ==
    /\ pc = "fold"
    /\ Leads(c, Group)
    /\ st[c] = "Deferral"
    /\ File(c)
    /\ UNCHANGED <<pc, mode, stage, given, todo, count, active, started, terminal, rows,
                   follow, votes, results, whole, ledger, host, ghosts>>

\* Mutated form: a call that pauses while it runs keeps its slot.
FoldPausedCounts(c) ==
    /\ pc = "fold"
    /\ Leads(c, Group)
    /\ st[c] = "Paused"
    /\ File(c)
    /\ Settled({c}, "Deferred")
    /\ terminal' = [terminal EXCEPT ![c] = @ + 1]
    /\ active' = ActiveWithout(active, {c})
    /\ UNCHANGED <<pc, mode, stage, given, todo, count, started, rows, follow, votes,
                   results, whole, host, ghosts>>

\* defer_started_tool_call: the pause is the terminal partner of ToolStarted and
\* gives the slot back.
FoldPaused(c) ==
    /\ pc = "fold"
    /\ Leads(c, Group)
    /\ st[c] = "Paused"
    /\ File(c)
    /\ Settled({c}, "Deferred")
    /\ terminal' = [terminal EXCEPT ![c] = @ + 1]
    /\ active' = ActiveWithout(active, {c})
    /\ count' = count - 1
    /\ UNCHANGED <<pc, mode, stage, given, todo, started, rows, follow, votes, results,
                   whole, host, ghosts>>

FoldOk(c) ==
    /\ pc = "fold"
    /\ Leads(c, Group)
    /\ st[c] = "Ok"
    /\ Settled({c}, "Completed")
    /\ active' = ActiveWithout(active, {c})
    /\ Answer(c)
    /\ UNCHANGED <<pc, mode, stage, given, todo, count, started, deferred, results, whole,
                   host, landed>>

\* after_tool or the screening fails: this call has its terminal event, the
\* error leaves the fold.
FoldOkFails(c) ==
    /\ pc = "fold"
    /\ Leads(c, Group)
    /\ st[c] = "Ok"
    /\ Settled({c}, "Completed")
    /\ active' = ActiveWithout(active, {c})
    /\ FailAll({c})
    /\ pc' = "failed"
    /\ UNCHANGED <<mode, stage, given, todo, count, started, rows, follow, votes, deferred,
                   results, whole, host, ghosts>>

\* A fatal execution error aborts the siblings that were started with it.
FoldFatal(c) ==
    /\ pc = "fold"
    /\ Leads(c, Group)
    /\ st[c] = "Fatal"
    /\ LET S == {d \in Calls : st[d] \in Outcomes}
       IN  /\ Settled(S, "Failed")
           /\ FailAll(S)
           /\ active' = ActiveWithout(active, S)
    /\ pc' = "failed"
    /\ UNCHANGED <<mode, stage, given, todo, count, started, rows, follow, votes, deferred,
                   results, whole, host, ghosts>>

FoldNext ==
    /\ pc = "fold"
    /\ Group = {}
    /\ todo # <<>>
    /\ pc' = IF stage = "batch" THEN "admit" ELSE "resolve"
    /\ UNCHANGED <<mode, stage, given, st, todo, count, active, started, terminal, rows,
                   follow, votes, deferred, results, whole, ledger, host, ghosts>>

(***************************************************************************)
(* The end of a batch: append_follow_ups, settle_batch_termination, then   *)
(* settle_deferred.                                                        *)
(***************************************************************************)
Unanimous ==
    /\ deferred = NoDeferred
    /\ stage # "batch" => whole
    /\ votes # <<>>
    /\ \A k \in DOMAIN votes : votes[k]

EndBatch ==
    /\ \/ pc = "fold" /\ Group = {}
       \/ pc = "resolve"
    /\ todo = <<>>
    /\ rows' = rows \o follow
    /\ follow' = <<>>
    /\ votes' = <<>>
    /\ pc' = IF Unanimous THEN "ended" ELSE "settle"
    /\ UNCHANGED <<mode, stage, given, st, todo, count, active, started, terminal,
                   deferred, results, whole, ledger, host, ghosts>>

Continue ==
    /\ pc = "settle"
    /\ deferred = NoDeferred
    /\ pc' = "next"
    /\ UNCHANGED <<mode, stage, given, st, todo, count, active, started, terminal, rows,
                   follow, votes, deferred, results, whole, ledger, host, ghosts>>

\* LoopExit::Deferred: no handler, or a call the handler approved deferred again.
\* The host has run.messages and the requests.
ExitDeferred ==
    /\ pc = "settle"
    /\ deferred # NoDeferred
    /\ pc' = "deferred"
    /\ saved' = Len(rows)
    /\ requests' = {id[c] : c \in {d \in Calls : st[d] = "Filed"}}
    /\ UNCHANGED <<mode, stage, given, st, todo, count, active, started, terminal, rows,
                   follow, votes, deferred, results, whole, ledger, unresolved, named,
                   ghosts, bounds>>

\* apply_deferred_results: every pending call must be resolved by the decisions R,
\* the host's (by = "resume") or the handler's (by = "handled").
ApplyDeferredResults(pending, R, by) ==
    /\ IF \A k \in DOMAIN pending : id[pending[k]] \in R
       THEN /\ pc' = "resolve"
            /\ todo' = pending
            /\ st' = [c \in Calls |-> IF st[c] = "Filed" THEN "todo" ELSE st[c]]
       ELSE /\ pc' = "failed"
            /\ UNCHANGED <<todo, st>>
    /\ results' = R
    /\ whole' = (Len(pending) = N)
    /\ mode' = "serial"
    /\ stage' = by
    /\ votes' = <<>>
    /\ deferred' = NoDeferred

\* Mutated form: the handler is asked again about what was deferred again.
HandleDeferredAgain ==
    /\ pc = "settle"
    /\ deferred # NoDeferred
    /\ \E R \in SUBSET {id[c] : c \in {d \in Calls : st[d] = "Filed"}} :
          ApplyDeferredResults(deferred.approvals \o deferred.calls, R, "handled")
    /\ UNCHANGED <<given, count, active, started, terminal, rows, follow, ledger, host,
                   ghosts>>

\* A DeferredToolHandler answers inside the run, after a batch and after a resume by
\* the host alike; it may leave calls out.  settle_deferred asks it once: what defers
\* again goes to the host.
HandleDeferred ==
    /\ pc = "settle"
    /\ stage # "handled"
    /\ deferred # NoDeferred
    /\ \E R \in SUBSET {id[c] : c \in {d \in Calls : st[d] = "Filed"}} :
          ApplyDeferredResults(deferred.approvals \o deferred.calls, R, "handled")
    /\ UNCHANGED <<given, count, active, started, terminal, rows, follow, ledger, host,
                   ghosts>>

\* A host result or a denial.
ResolveAnswer ==
    /\ pc = "resolve"
    /\ todo # <<>>
    /\ id[Head(todo)] \in results
    /\ Recover(Head(todo))
    /\ results' = results \ {id[Head(todo)]}
    /\ todo' = Tail(todo)
    /\ UNCHANGED <<mode, stage, given, count, deferred, whole, ledger, host, landed>>

\* An approval: the call goes through execute_tool_serially.
ResolveApprove ==
    /\ pc = "resolve"
    /\ todo # <<>>
    /\ id[Head(todo)] \in results
    /\ pc' = "admit"
    /\ results' = results \ {id[Head(todo)]}
    /\ UNCHANGED <<mode, stage, given, st, todo, count, active, started, terminal, rows,
                   follow, votes, deferred, whole, ledger, host, ghosts>>

\* The decision was used up by an earlier call of the same id: expect() panics.
ResolvePanics ==
    /\ pc = "resolve"
    /\ todo # <<>>
    /\ id[Head(todo)] \notin results
    /\ pc' = "panicked"
    /\ UNCHANGED <<mode, stage, given, st, todo, count, active, started, terminal, rows,
                   follow, votes, deferred, results, whole, ledger, host, ghosts>>

(***************************************************************************)
(* Across processes.  A crash keeps the ledger and some prefix of the      *)
(* transcript, at least what the host already had.  The host comes back    *)
(* with resume_deferred and decisions for requests it was handed, or, when *)
(* nothing is known of a deferral, with reconcile_tool_effects alone       *)
(* before it enters the loop again.                                        *)
(***************************************************************************)
Crash ==
    /\ pc \in Busy
    /\ crashes < MaxCrashes
    /\ crashes' = crashes + 1
    /\ pc' = "down"
    /\ \E k \in saved..Len(rows) :
          /\ rows' = SubSeq(rows, 1, k)
          /\ saved' = k
    /\ NewProcess
    /\ todo' = <<>>
    /\ UNCHANGED <<mode, given, ledger, unresolved, named, requests, landed, resumes>>

\* Mutated form: rows already there are not looked at.
UnansweredOrNot(excluded) == InOrder({c \in Calls : id[c] \notin excluded})

\* The calls the reconciliation looks at.  already_answered is the set of the ids of
\* every tool row of the transcript, those of earlier turns included.
Unanswered(excluded) ==
    InOrder({c \in Calls : /\ RowsOf(id[c], rows) = 0
                           /\ id[c] \notin Earlier
                           /\ id[c] \notin excluded})

StartReconcile(excluded) ==
    /\ pc' = "reconcile"
    /\ todo' = Unanswered(excluded)
    /\ unresolved' = {i \in Ids : ledger[i] = "Started"}
    /\ named' = excluded
    /\ NewProcess

ResumeDeferred ==
    /\ pc \in {"deferred", "down"}
    /\ requests # {}
    /\ resumes < MaxResumes
    /\ resumes' = resumes + 1
    /\ \E R \in (SUBSET requests) \ {{}} : StartReconcile(R)
    /\ UNCHANGED <<mode, given, rows, ledger, requests, saved, landed, crashes>>

Reenter ==
    /\ pc = "down"
    /\ requests = {}
    /\ StartReconcile({})
    /\ UNCHANGED <<mode, given, rows, ledger, requests, saved, landed, bounds>>

\* Mutated form: only replayable calls are answered.
ReconcileCallSwapped ==
    /\ pc = "reconcile"
    /\ todo # <<>>
    /\ todo' = Tail(todo)
    /\ LET c == Head(todo)
       IN  IF id[c] \in unresolved /\ c \in Safe
           THEN rows' = Append(rows, id[c]) /\ Settled({c}, "Interrupted")
           ELSE UNCHANGED <<rows, ledger>>
    /\ UNCHANGED <<pc, mode, stage, given, st, count, active, started, terminal, follow,
                   votes, deferred, results, whole, host, ghosts>>

\* One unanswered call: a started effect that must not be replayed is answered
\* "interrupted before settlement"; everything else is left alone.
ReconcileCall ==
    /\ pc = "reconcile"
    /\ todo # <<>>
    /\ todo' = Tail(todo)
    /\ LET c == Head(todo)
       IN  IF id[c] \in unresolved /\ c \notin Safe
           THEN rows' = Append(rows, id[c]) /\ Settled({c}, "Interrupted")
           ELSE UNCHANGED <<rows, ledger>>
    /\ UNCHANGED <<pc, mode, stage, given, st, count, active, started, terminal, follow,
                   votes, deferred, results, whole, host, ghosts>>

\* The read of the ledger fails.
ReconcileFails ==
    /\ pc = "reconcile"
    /\ todo = Unanswered(named)
    /\ pc' = "failed"
    /\ UNCHANGED <<mode, stage, given, st, todo, count, active, started, terminal, rows,
                   follow, votes, deferred, results, whole, ledger, host, ghosts>>

\* run_loop_body with deferred results: pending_tool_calls must find some.  What the
\* reconciliation read is dropped, the decisions go to apply_deferred_results.
ResumeLoop ==
    /\ pc = "reconcile"
    /\ todo = <<>>
    /\ named # {}
    /\ IF PendingToolCalls(rows) = <<>>
       THEN /\ pc' = "failed"
            /\ UNCHANGED <<mode, stage, st, todo, votes, deferred, results, whole>>
       ELSE ApplyDeferredResults(PendingToolCalls(rows), named, "resume")
    /\ unresolved' = {}
    /\ named' = {}
    /\ UNCHANGED <<given, count, active, started, terminal, rows, follow, ledger, requests,
                   saved, ghosts, bounds>>

\* run_loop_body without them goes to the model with the transcript as it is.
ReenterLoop ==
    /\ pc = "reconcile"
    /\ todo = <<>>
    /\ named = {}
    /\ pc' = "next"
    /\ UNCHANGED <<mode, stage, given, st, todo, count, active, started, terminal, rows,
                   follow, votes, deferred, results, whole, ledger, host, ghosts>>

Admit == AdmitTool \/ AdmitCorrection \/ AdmitRefusal \/ AdmitTruncated
         \/ AdmitDeferral \/ AdmitFails

Fold(c) == FoldAnswer(c) \/ FoldDeferral(c) \/ FoldPaused(c) \/ FoldOk(c)
           \/ FoldOkFails(c) \/ FoldFatal(c)

CallStep(c) == Announce(c) \/ AnnounceFails(c) \/ Poll(c) \/ Fold(c)
               \/ \E o \in Outcomes : Return(c, o)

BatchStep == Announced \/ Executed \/ FoldNext \/ EndBatch \/ Continue
             \/ ExitDeferred \/ HandleDeferred \/ ResolveAnswer \/ ResolveApprove
             \/ ResolvePanics \/ ReconcileCall \/ ReconcileFails \/ ResumeLoop
             \/ ReenterLoop

Drive == Admit \/ BatchStep \/ \E c \in Calls : CallStep(c)

Quiescent ==
    /\ pc \in {"next", "ended", "failed", "panicked", "deferred", "down"}
    /\ UNCHANGED vars

Next == Drive \/ Crash \/ ResumeDeferred \/ Reenter \/ Quiescent

Spec == Init /\ [][Next]_vars

\* Every await of the driver completes: hooks and ledger answer, a tool returns or
\* the run budget ends it.
FairSpec == Spec /\ WF_vars(Drive)
-----------------------------------------------------------------------------
StateOf == {"todo", "Answered", "Failed", "Filed"} \cup InGroup

TypeOK ==
    /\ pc \in Busy \cup {"next", "ended", "failed", "panicked", "deferred", "down"}
    /\ mode \in {"serial", "concurrent"}
    /\ stage \in {"batch", "resume", "handled"}
    /\ id \in [Calls -> Ids]
    /\ policy \in Policies
    /\ st \in [Calls -> StateOf]
    /\ todo \in Seq(Calls)
    /\ count \in Nat
    /\ active \in [Ids -> Nat]
    /\ started \in [Calls -> Nat]
    /\ terminal \in [Calls -> Nat]
    /\ rows \in Seq(Ids \cup {FollowUp})
    /\ follow \in Seq({FollowUp})
    /\ votes \in Seq(BOOLEAN)
    /\ deferred \in [approvals : Seq(Calls), calls : Seq(Calls)]
    /\ results \subseteq Ids
    /\ whole \in BOOLEAN
    /\ ledger \in [Ids -> EffectStatus]
    /\ unresolved \subseteq Ids
    /\ named \subseteq Ids
    /\ requests \subseteq Ids
    /\ saved \in 0..Len(rows)
    /\ landed \in [Calls -> Nat]
    /\ voted \subseteq Calls
    /\ crashes \in 0..MaxCrashes
    /\ resumes \in 0..MaxResumes

Open(c) == started[c] > terminal[c]

\* When the driver stops, a call is left announced and unanswered in one case only:
\* the fold of a concurrent batch failed on an earlier call whose tool had returned
\* (finish_tool_call's error leaves execute_tools_concurrently by `?`).
OpenOnlyAfterFoldFailure ==
    pc \notin Busy =>
        \A c \in Calls : Open(c) =>
            /\ pc = "failed" /\ mode = "concurrent"
            /\ st[c] \in Outcomes
            /\ \E d \in Calls : d < c /\ st[d] = "Failed"

\* active_tool_calls holds each id as often as it has calls that were announced and
\* not closed, two calls that share an id included, no call is closed twice, and
\* none is left open but by a failed fold (tools.rs "Started/terminal pairing",
\* release_active_tool_call).
Paired ==
    /\ \A c \in Calls : terminal[c] <= started[c] /\ started[c] <= terminal[c] + 1
    /\ \A i \in Ids : active[i] = Cardinality({c \in Calls : id[c] = i /\ Open(c)})
    /\ OpenOnlyAfterFoldFailure

\* A stopped run leaves no call announced and unanswered: the pairing invariant of
\* the module documentation (tools.rs:34).
EveryStartIsAnswered == pc \notin Busy => \A c \in Calls : ~Open(c)

\* The budget: the cap is never passed, every call in flight holds one slot, and a
\* call that was refused, deferred or paused holds none, through rollbacks at
\* admission and in the fold and re-admission after an approval.
SlotsAreAccounted ==
    pc # "failed" =>
        /\ count <= MaxToolCalls
        /\ Cardinality({c \in Calls : st[c] \in Flying \cup {"Kept", "Tool"}}) <= count
        /\ count <= Cardinality({c \in Calls : st[c] \notin {"todo", "Filed", "Free", "Deferral"}})

\* No call is answered twice, whatever was answered before a pause or a crash and
\* synthesized or resumed after it (a provider rejects a second row for a call).
AnsweredOnce ==
    \A i \in Ids : RowsOf(i, rows) <= Cardinality({c \in Calls : id[c] = i})

\* As long as nothing was deferred or lost, the tool rows of the batch are those of
\* the folded calls in the order of the row, and every follow-up is behind them.
TranscriptIsFold ==
    (stage = "batch" /\ crashes = 0 /\ resumes = 0) =>
        LET done == InOrder({c \in Calls : st[c] = "Answered"})
        IN  /\ Len(rows) >= Len(done)
            /\ \A k \in DOMAIN rows :
                  rows[k] = IF k <= Len(done) THEN id[done[k]] ELSE FollowUp

\* The model is called again with every call answered.  Only after a crash may a call
\* be unanswered, and of the calls whose effect is recorded as started only two kinds:
\* a replayable one, which reconcile_tool_effects leaves "so the normal loop
\* re-executes it" although a run entered without decisions goes to the model first
\* (run_loop.rs:252), and one whose id an answer of this or of an earlier turn bears,
\* which the reconciliation takes for answered (tools.rs:2509).
NextIsAnswered ==
    pc = "next" =>
        \A c \in Calls : Pending(c, rows) =>
            /\ crashes > 0
            /\ \/ c \in Safe
               \/ ledger[id[c]] # "Started"
               \/ RowsOf(id[c], rows) > 0
               \/ id[c] \in Earlier

\* A batch ends the run only when every call of the assistant row has an answer and
\* each of them asked to terminate in the process that ends it, also when the batch
\* was paused and resumed (settle_batch_termination).
TerminationIsUnanimous ==
    pc = "ended" => \A c \in Calls : ~Pending(c, rows) /\ c \in voted

\* However a batch is left, by the next model call or by ending the run, the calls
\* of its row are answered and have agreed to it.
LeftAnswered == NextIsAnswered /\ TerminationIsUnanimous

\* A tool that must not be replayed runs a second time only when the host decided on
\* its call a second time, after a crash cut the first resume short: no pause, resume
\* or reconciliation of its own re-runs it (effects.rs ToolReplay::Never).  Where an
\* earlier call has the same id and was deferred, pending_tool_calls gives it the
\* answer of the later one, and the approval runs the later one again.
RerunIsDecided ==
    \A c \in Calls \ Safe :
        landed[c] > 1 => \/ resumes > 1
                         \/ resumes = 1 /\ \E d \in Calls : d < c /\ id[d] = id[c]

\* A batch comes to an end, whatever mix of calls answers, fails and pauses.
BatchSettles == pc \in Busy ~> pc \notin Busy
=============================================================================
