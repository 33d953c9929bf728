--------------------------- MODULE SubagentDriver ---------------------------
(***************************************************************************)
(* SubagentDriver (tinyagents-orchestration, subagent/driver.rs) with its  *)
(* DocumentSubagentPersistence, for the calls that name one task key.      *)
(*                                                                         *)
(* Each driver caches the terminal outcomes it met.  Drivers of one group  *)
(* share a SharedFlightMap (with_shared_in_flight); drivers of different   *)
(* groups, in other processes perhaps, meet only in the durable record.    *)
(* An outcome is named by the call whose execution produced it, and so is  *)
(* the resume state of a pause, which the code compares by value.          *)
(***************************************************************************)
EXTENDS Naturals, FiniteSets

CONSTANTS Calls,       \* invocations of run, in all drivers
          Drivers,
          Groups,      \* in-flight maps
          GroupOf,     \* the map of a driver
          MaxRetries,  \* retries of a transient failure
          MaxFaults    \* bound: cancellations and failures

NoCall == "none"
Earlier == "earlier"   \* a call of an earlier process

ASSUME CallAssumption == {NoCall, Earlier} \cap Calls = {}
ASSUME GroupAssumption == GroupOf \in [Drivers -> Groups]
ASSUME BoundAssumption == MaxRetries \in Nat /\ MaxFaults \in Nat

VARIABLES call,        \* the invocations
          tok,         \* the calls whose cancellation token is tripped
          pub,         \* the result published on the entry a call leads
          rec,         \* the LifecycleRecord of the key
          cache,       \* terminal_outcomes, per driver
          flight,      \* the leader registered in each in-flight map
          completion,  \* the router's record for the task, the first one kept
          saved,       \* ghost: the calls whose pause was made durable
          late,        \* ghost: the calls launched though a terminal was durable
          dropped,     \* ghost: the calls whose record the router failed to keep
          faults       \* ghost: cancellations and failures so far

vars == <<call, tok, pub, rec, cache, flight, completion, saved, late, dropped,
          faults>>
shared == <<rec, cache, completion, saved, late, dropped, faults>>

\* Incomplete persists, caches and reports as Completed does; a policy timeout
\* and a budget overrun are Incomplete.
Kinds == {"Completed", "Cancelled", "Paused"}
Outcome == [kind : Kinds, by : Calls \cup {Earlier}]
NoOutcome == [kind |-> "none", by |-> NoCall]

\* PauseSaved: PauseCommitted or PauseReplaced.  Lost: a compare-and-swap lost
\* without a durable winner.  Err: every other error.
Dispositions == {"TerminalInserted", "TerminalExisting", "PauseSaved", "PauseExisting",
                 "ObserverCancelled", "Lost", "Err"}
Answer == [disp : Dispositions, out : Outcome \cup {NoOutcome}]
NoAnswer == [disp |-> "none", out |-> NoOutcome]
Failure(disp) == [disp |-> disp, out |-> NoOutcome]
Terminal(out) == [disp |-> "TerminalExisting", out |-> out]

Phases == {"new", "lookup", "claim", "follow", "recheck", "load", "planned", "run", "backoff",
           "error", "persist", "terminal_winner", "pause_winner", "pause", "cache", "record",
           "done"}

\* resume: expected_pause.  leads: the entry the call waits for, its own when
\* it is the leader.
CallState == [pc : Phases, driver : Drivers \cup {"none"}, resume : Calls \cup {NoCall, Earlier},
              kind : Kinds \cup {"none"}, origin : BOOLEAN, attempt : 0..MaxRetries,
              leads : Calls \cup {NoCall}, ans : Answer \cup {NoAnswer}]

NewCall == [pc |-> "new", driver |-> "none", resume |-> NoCall, kind |-> "none",
            origin |-> FALSE, attempt |-> 0, leads |-> NoCall, ans |-> NoAnswer]

Init ==
    /\ call = [c \in Calls |-> NewCall]
    /\ tok = {}
    /\ pub = [c \in Calls |-> NoAnswer]
    /\ \E p \in {NoCall, Earlier} :
        /\ rec = [pause |-> p, terminal |-> NoOutcome]
        /\ saved = {p} \ {NoCall}
    /\ cache = [d \in Drivers |-> NoOutcome]
    /\ flight = [g \in Groups |-> NoCall]
    /\ completion = NoOutcome
    /\ late = {}
    /\ dropped = {}
    /\ faults = 0

-----------------------------------------------------------------------------
(* Steps of a call.                                                        *)

Group(c) == GroupOf[call[c].driver]
Leads(c) == call[c].leads = c

GoTo(c, pc) ==
    /\ call' = [call EXCEPT ![c].pc = pc]
    /\ UNCHANGED <<tok, pub, flight>>

\* Mutated form: a leader that ends without a result only retires its entry.
PublishedResults(c, a) ==
    IF Leads(c) /\ a.disp # "Err" THEN [pub EXCEPT ![c] = a] ELSE pub

\* LeaderReservation: finish, or the drop of an unfinished one.
Published(c, a) == IF Leads(c) THEN [pub EXCEPT ![c] = a] ELSE pub

\* The call returns a; a leader publishes it and then retires its entry.
Return(c, a) ==
    /\ call' = [call EXCEPT ![c].pc = "done", ![c].ans = a]
    /\ pub' = Published(c, a)
    /\ flight' = IF Leads(c) THEN [flight EXCEPT ![Group(c)] = NoCall] ELSE flight
    /\ tok' = tok \ {c}

\* The answer is known and there are steps left before it is returned.
Stage(c, a, pc) ==
    /\ call' = [call EXCEPT ![c].ans = a, ![c].pc = pc]
    /\ UNCHANGED <<tok, pub, flight>>

-----------------------------------------------------------------------------
(* run: the caches, the durable terminal and the in-flight map.            *)

\* Resume states a host has been shown; it may supply one of them.
Shown == (saved \cap {Earlier}) \cup {call[x].ans.out.by : x \in {y \in Calls :
             call[y].pc = "done" /\ call[y].ans.disp \in {"PauseSaved", "PauseExisting"}}}

Begins(c) ==
    /\ call[c].pc = "new"
    /\ \E d \in Drivers, r \in {NoCall} \cup Shown :
        LET begun == [NewCall EXCEPT !.driver = d, !.resume = r]
        IN  call' = [call EXCEPT ![c] =
                IF cache[d] # NoOutcome
                THEN [begun EXCEPT !.pc = "done", !.ans = Terminal(cache[d])]
                ELSE [begun EXCEPT !.pc = "lookup"]]
    /\ UNCHANGED <<tok, pub, flight, shared>>

LoadsTerminal(c) ==
    /\ call[c].pc = "lookup"
    /\ IF rec.terminal # NoOutcome THEN Stage(c, Terminal(rec.terminal), "cache")
                                   ELSE GoTo(c, "claim")
    /\ UNCHANGED shared

\* SharedFlightMap::claim
Claims(c) ==
    /\ call[c].pc = "claim"
    /\ IF flight[Group(c)] = NoCall
       THEN /\ flight' = [flight EXCEPT ![Group(c)] = c]
            /\ call' = [call EXCEPT ![c].pc = "recheck", ![c].leads = c]
       ELSE /\ call' = [call EXCEPT ![c].pc = "follow", ![c].leads = flight[Group(c)]]
            /\ UNCHANGED flight
    /\ UNCHANGED <<tok, pub, shared>>

\* What a follower makes of its leader's result.
Followed(a) ==
    CASE a.disp \in {"PauseSaved", "PauseExisting"} -> [a EXCEPT !.disp = "PauseExisting"]
      [] a.disp \in {"TerminalInserted", "TerminalExisting"} -> Terminal(a.out)
      [] OTHER -> a

\* wait_or_cancel
Follows(c) ==
    /\ call[c].pc = "follow"
    /\ pub[call[c].leads] # NoAnswer
    /\ Return(c, Followed(pub[call[c].leads]))
    /\ UNCHANGED shared

\* The select is biased: a cancellation wins over a result published meanwhile.
StopsFollowing(c) ==
    /\ call[c].pc = "follow"
    /\ c \in tok
    /\ Return(c, Failure("ObserverCancelled"))
    /\ UNCHANGED shared

\* Cancelled before anything was loaded: no pause is expected, whatever the
\* caller supplied.
Reserved(c) ==
    IF c \in tok
    THEN /\ call' = [call EXCEPT ![c].pc = "persist", ![c].kind = "Cancelled",
                                 ![c].resume = NoCall]
         /\ UNCHANGED <<tok, pub, flight>>
    ELSE GoTo(c, "load")

\* Mutated form: the leader does not look at the cache again.
RechecksNothing(c) ==
    /\ call[c].pc = "recheck"
    /\ Reserved(c)
    /\ UNCHANGED shared

Rechecks(c) ==
    /\ call[c].pc = "recheck"
    /\ IF cache[call[c].driver] # NoOutcome
       THEN Return(c, Terminal(cache[call[c].driver]))
       ELSE Reserved(c)
    /\ UNCHANGED shared

-----------------------------------------------------------------------------
(* run_reserved.                                                           *)

\* The lifecycle ends in kind and has to be persisted.
Ends(c, kind) ==
    /\ call' = [call EXCEPT ![c].pc = "persist", ![c].kind = kind, ![c].attempt = 0]
    /\ UNCHANGED <<tok, pub, flight>>

\* The pause is read, unless the caller supplied one; a call that was not
\* cancelled meanwhile reserves with SpawnAdmission and is planned, and either
\* may refuse.
Loads(c) ==
    /\ call[c].pc = "load"
    /\ call' = [call EXCEPT ![c].resume = IF @ = NoCall THEN rec.pause ELSE @,
                            ![c].pc = IF c \in tok THEN "persist" ELSE "planned",
                            ![c].kind = IF c \in tok THEN "Cancelled" ELSE @]
    /\ UNCHANGED <<tok, pub, flight, shared>>

\* The planner has named a notify mode, or none: CompletionOrigin.  The child
\* is launched unless it was cancelled by now.
Launches(c) ==
    /\ call[c].pc = "planned"
    /\ \E o \in BOOLEAN :
        call' = [call EXCEPT ![c].origin = o,
                             ![c].pc = IF c \in tok THEN "persist" ELSE "run",
                             ![c].kind = IF c \in tok THEN "Cancelled" ELSE @]
    /\ late' = IF c \notin tok /\ rec.terminal # NoOutcome THEN late \cup {c} ELSE late
    /\ UNCHANGED <<tok, pub, flight, rec, cache, completion, saved, dropped, faults>>

\* The executor returns an outcome, or cancels its own token.
Executes(c) ==
    /\ call[c].pc = "run"
    /\ \E k \in Kinds : Ends(c, IF c \in tok THEN "Cancelled" ELSE k)
    /\ UNCHANGED shared

\* The executor returns an error that is not retried.
ExecutorFails(c) ==
    /\ call[c].pc = "run"
    /\ IF c \in tok THEN Ends(c, "Cancelled") ELSE GoTo(c, "error")
    /\ UNCHANGED shared

\* may_retry of a transient failure.
Retries(c) ==
    /\ call[c].pc = "run"
    /\ c \notin tok
    /\ call[c].attempt < MaxRetries
    /\ call' = [call EXCEPT ![c].pc = "backoff", ![c].attempt = @ + 1]
    /\ UNCHANGED <<tok, pub, flight, shared>>

BacksOff(c) ==
    /\ call[c].pc = "backoff"
    /\ IF c \in tok THEN Ends(c, "Cancelled") ELSE GoTo(c, "run")
    /\ UNCHANGED shared

\* deliver: the router keeps the first record of the task, or fails, which is
\* only logged.
Delivers(c, kind) ==
    \/ /\ completion' = IF completion = NoOutcome THEN [kind |-> kind, by |-> c] ELSE completion
       /\ UNCHANGED dropped
    \/ /\ dropped' = dropped \cup {c}
       /\ UNCHANGED completion

\* Mutated form: a failed continuation is reported too.
ReportsErrorsOfAll(c) ==
    /\ call[c].pc = "error"
    /\ IF call[c].origin THEN Delivers(c, "Failed") ELSE UNCHANGED <<completion, dropped>>
    /\ Return(c, Failure("Err"))
    /\ UNCHANGED <<rec, cache, saved, late, faults>>

ReportsError(c) ==
    /\ call[c].pc = "error"
    /\ IF call[c].origin /\ call[c].resume = NoCall
       THEN Delivers(c, "Failed") ELSE UNCHANGED <<completion, dropped>>
    /\ Return(c, Failure("Err"))
    /\ UNCHANGED <<rec, cache, saved, late, faults>>

-----------------------------------------------------------------------------
(* persist, persist_cancelled and the durable record.                      *)

\* Mutated form: a pause is replaced by whoever resumed any pause.
MatchesAnyPause(c) == (rec.pause = NoCall) = (call[c].resume = NoCall)

\* The compare-and-swap of save_pause and record_terminal.
Matches(c) == rec.pause = call[c].resume

\* commit_or_cancel: cancellation is looked at first.
Committing(c) == IF c \in tok THEN "Cancelled" ELSE call[c].kind

\* save_pause answers Inserted or Replaced.
SavesPause(c) ==
    /\ call[c].pc = "persist" /\ Committing(c) = "Paused"
    /\ rec.terminal = NoOutcome /\ Matches(c)
    /\ rec' = [rec EXCEPT !.pause = c]
    /\ saved' = saved \cup {c}
    /\ Stage(c, [disp |-> "PauseSaved", out |-> [kind |-> "Paused", by |-> c]], "record")
    /\ UNCHANGED <<cache, completion, late, dropped, faults>>

\* record_terminal answers Inserted.
RecordsTerminal(c) ==
    /\ call[c].pc = "persist" /\ Committing(c) # "Paused"
    /\ rec.terminal = NoOutcome /\ Matches(c)
    /\ LET out == [kind |-> Committing(c), by |-> c]
       IN  /\ rec' = [pause |-> NoCall, terminal |-> out]
           /\ Stage(c, [disp |-> "TerminalInserted", out |-> out], "cache")
    /\ UNCHANGED <<cache, completion, saved, late, dropped, faults>>

\* Either answers that another call was first.
LosesRace(c) ==
    /\ call[c].pc = "persist"
    /\ \/ rec.terminal # NoOutcome /\ GoTo(c, "terminal_winner")
       \/ rec.terminal = NoOutcome /\ ~Matches(c) /\ GoTo(c, "pause_winner")
    /\ UNCHANGED shared

\* A read of the durable terminal that goes on at otherwise when there is none.
ReadsTerminal(c, otherwise) ==
    IF rec.terminal # NoOutcome THEN Stage(c, Terminal(rec.terminal), "cache") ELSE otherwise

LoadsTerminalWinner(c) ==
    /\ call[c].pc = "terminal_winner"
    /\ ReadsTerminal(c, Return(c, Failure("Lost")))
    /\ UNCHANGED shared

\* load_pause_winner: the terminal, the pause, and, when the pause has gone
\* meanwhile, the terminal once more.
LoadsPauseWinner(c) ==
    /\ call[c].pc = "pause_winner"
    /\ ReadsTerminal(c, GoTo(c, "pause"))
    /\ UNCHANGED shared

\* Mutated form: the terminal is not read again.
LoadsPauseOnce(c) ==
    /\ call[c].pc = "pause"
    /\ IF rec.terminal = NoOutcome /\ rec.pause # NoCall
       THEN Stage(c, [disp |-> "PauseExisting", out |-> [kind |-> "Paused", by |-> rec.pause]],
                  "record")
       ELSE Return(c, Failure("Lost"))
    /\ UNCHANGED shared

LoadsPause(c) ==
    /\ call[c].pc = "pause"
    /\ IF rec.terminal = NoOutcome /\ rec.pause # NoCall
       THEN Stage(c, [disp |-> "PauseExisting", out |-> [kind |-> "Paused", by |-> rec.pause]],
                  "record")
       ELSE GoTo(c, "terminal_winner")
    /\ UNCHANGED shared

\* cache_terminal.  Before the claim that is all; a leader goes on to the router.
CachesTerminal(c) ==
    /\ call[c].pc = "cache"
    /\ cache' = [cache EXCEPT ![call[c].driver] = call[c].ans.out]
    /\ IF Leads(c) THEN GoTo(c, "record") ELSE Return(c, call[c].ans)
    /\ UNCHANGED <<rec, completion, saved, late, dropped, faults>>

\* record_completion: the winner of the terminal write reports; a pause is no
\* completion.
Records(c) ==
    /\ call[c].pc = "record"
    /\ IF call[c].origin /\ call[c].ans.disp = "TerminalInserted"
       THEN Delivers(c, call[c].ans.out.kind) ELSE UNCHANGED <<completion, dropped>>
    /\ Return(c, call[c].ans)
    /\ UNCHANGED <<rec, cache, saved, late, faults>>

-----------------------------------------------------------------------------
(* The host.                                                               *)

Fault ==
    /\ faults < MaxFaults
    /\ faults' = faults + 1
    /\ UNCHANGED <<rec, cache, completion, saved, late, dropped>>

\* A token tripped before the call is one tripped at its first step.
Cancels(c) ==
    /\ call[c].pc \notin {"new", "done"}
    /\ c \notin tok
    /\ tok' = tok \cup {c}
    /\ Fault
    /\ UNCHANGED <<call, pub, flight>>

\* At any await: the turn's lease is lost (await_with_turn_fence), storage,
\* planner or admission answer with an error, or the caller drops the future.
Fails(c) ==
    /\ call[c].pc \notin {"new", "done"}
    /\ Return(c, Failure("Err"))
    /\ Fault

-----------------------------------------------------------------------------
(* The specification.                                                      *)

Step(c) ==
    \/ LoadsTerminal(c) \/ Claims(c) \/ Follows(c) \/ StopsFollowing(c) \/ Rechecks(c)
    \/ Loads(c) \/ Launches(c)
    \/ Executes(c) \/ ExecutorFails(c) \/ Retries(c) \/ BacksOff(c) \/ ReportsError(c)
    \/ SavesPause(c) \/ RecordsTerminal(c) \/ LosesRace(c)
    \/ LoadsTerminalWinner(c) \/ LoadsPauseWinner(c) \/ LoadsPause(c)
    \/ CachesTerminal(c) \/ Records(c)

Next == \E c \in Calls : Begins(c) \/ Step(c) \/ Cancels(c) \/ Fails(c)

Spec == Init /\ [][Next]_vars

\* The runtime polls every future, and an executor returns in the end.
FairSpec == Spec /\ \A c \in Calls : WF_vars(Step(c))

-----------------------------------------------------------------------------
(* Properties.                                                             *)

TypeOK ==
    /\ call \in [Calls -> CallState]
    /\ tok \subseteq Calls
    /\ pub \in [Calls -> Answer \cup {NoAnswer}]
    /\ rec \in [pause : Calls \cup {NoCall, Earlier}, terminal : Outcome \cup {NoOutcome}]
    /\ cache \in [Drivers -> Outcome \cup {NoOutcome}]
    /\ flight \in [Groups -> Calls \cup {NoCall}]
    /\ completion \in [kind : Kinds \cup {"Failed"}, by : Calls] \cup {NoOutcome}
    /\ saved \subseteq Calls \cup {Earlier}
    /\ late \subseteq Calls
    /\ dropped \subseteq Calls
    /\ faults \in 0..MaxFaults

\* Every caller that is told of a terminal is told of the durable one, every
\* cache holds that one, no caller is given an output the record refused
\* (load_pause_winner), and no race ends without a winner.
AnswersAgree ==
    /\ \A d \in Drivers : cache[d] \in {NoOutcome, rec.terminal}
    /\ \A c \in Calls : call[c].pc = "done" =>
        /\ call[c].ans.disp \in {"TerminalInserted", "TerminalExisting"} =>
               call[c].ans.out = rec.terminal
        /\ call[c].ans.disp \in {"PauseSaved", "PauseExisting"} => call[c].ans.out.by \in saved
        /\ call[c].ans.disp # "Lost"

\* What reached the record is one chain: no two calls continued from the same
\* pause, or from none ("competing continuations receive Existing").
Committed == saved \cup ({rec.terminal.by} \ {NoCall})

CommitsAreAChain ==
    \A c, e \in Committed \ {Earlier} : call[c].resume = call[e].resume => c = e

\* A finished task is not executed again through the driver that finished it,
\* unless the call that finished it failed on its way back ("Do not reopen
\* that task after its in-flight entry has been removed").
FinishedIsNotReopened ==
    \A c \in late :
        \/ call[c].driver # call[rec.terminal.by].driver
        \/ call[rec.terminal.by].ans.disp = "Err"

\* The parent hears what the record says, or of the failure of a call that
\* continued no pause; and it hears, when the call that finished the task
\* returned and the router did not fail.
ReportIsExplained ==
    /\ \/ completion \in {NoOutcome, rec.terminal}
       \/ completion.kind = "Failed" /\ call[completion.by].resume = NoCall
    /\ \A c \in Calls \ dropped :
        call[c].pc = "done" /\ call[c].origin /\ call[c].ans.disp = "TerminalInserted" =>
            completion # NoOutcome

\* A call that found no pause and may still report a failure.
Unpaused(c) == call[c].pc \in {"planned", "run", "backoff", "error"} /\ call[c].resume = NoCall

\* The guard of the failed record looks at what the call expected when it was
\* loaded, not at the record.  The pause it may shadow all the same is one that
\* a call of another in-flight map has saved meanwhile, never one of its own.
FailureShadowsNoPause ==
    \A c \in Calls : Unpaused(c) =>
        \/ rec.pause = NoCall
        \/ rec.pause \in Calls /\ Group(rec.pause) # Group(c)

\* What the parent hears of the task is explained by the record, or is the
\* failure of a fresh call that no pause of its own in-flight map outlives ("a
\* failed record here would shadow the eventual finish").
CompletionIsTheTerminal == ReportIsExplained /\ FailureShadowsNoPause

\* The object the drivers share, as a client sees it.  A call has opened the
\* task once its lookup found no terminal; a call that has committed is named
\* by the record or by a saved pause.
Opened(c) == call[c].pc \notin {"new", "lookup", "done"} /\ (call[c].pc = "cache" => Leads(c))

Phase(c) ==
    CASE call[c].pc = "done" -> "returned"
      [] call[c].pc # "done" /\ ~Opened(c) -> "idle"
      [] Opened(c) /\ c \notin Committed -> "open"
      [] Opened(c) /\ c \in Committed -> "committed"

Result(a) ==
    [result |-> CASE a.disp \in {"TerminalInserted", "TerminalExisting"} -> "terminal"
                  [] a.disp \in {"PauseSaved", "PauseExisting"} -> "paused"
                  [] a.disp = "none" -> "none"
                  [] OTHER -> "failed",
     out |-> a.out]

phase == [c \in Calls |-> Phase(c)]
from == [c \in Calls |-> IF Opened(c) THEN call[c].resume ELSE NoCall]
answer == [c \in Calls |-> Result(IF call[c].pc = "done" THEN call[c].ans ELSE NoAnswer)]

Task == INSTANCE ResumableTask WITH
            Kinds <- Kinds \ {"Paused"}, None <- NoCall,
            head <- rec.pause, pauses <- saved, outcome <- rec.terminal

\* Whatever the caches, the in-flight maps and the lost races do, the drivers
\* together behave as one task: every continuation commits at most once, from
\* the pause it continued; the end is recorded once; whoever starts after it is
\* told of it and executes nothing; nobody is told what was not committed.
ImplementsResumableTask == Task!Spec

\* Every call returns, a follower too when its leader was dropped.
CallsReturn == \A c \in Calls : call[c].pc # "new" ~> call[c].pc = "done"
=============================================================================
