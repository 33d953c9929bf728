----------------------------- MODULE AgentLoop -----------------------------
(***************************************************************************)
(* One run of the agent loop (crates/tinyagents-harness/src/agent_loop/):  *)
(* the turns of run_loop_body, the recoveries of unusable replies, the     *)
(* checkpoints for steering and middleware control, and the lifecycle      *)
(* events from which an observer mirrors the transcript.                   *)
(*                                                                         *)
(* The transcript is a sequence of row kinds.  A reply asks for no call,   *)
(* for one tool call, for one structured-output call, or for both; what    *)
(* happens to the tool call is the subject of module ToolBatch, here it is *)
(* one step.  A policy field that no property relates across turns (the    *)
(* end strategy, the limit behaviour, error_on_empty_response, the queue   *)
(* mode) is a choice where the code reads it.                              *)
(***************************************************************************)
EXTENDS Naturals, Sequences, FiniteSets

CONSTANTS MaxModelCalls,  \* the model-call cap of the run
          Retries,        \* the policy's recovery budgets, see Budgets
          Tools,          \* tool names
          Permits,        \* calls the host's budget gate admits at a time
          MaxBatch,       \* bound: commands or messages the host sends at a time
          MaxEvents       \* bound: times the host sends, controls that hooks raise and
                          \* changes of the tool set, together

\* truncated_empty_retries and _nudges, TRUNCATED_CLOCK_NUDGE_LIMIT,
\* empty_response_retries, dropped_tool_call_nudges (also the limit of the
\* separate count for withheld calls), truncated_tool_call_retries and
\* output_retry.max_attempts.
Budgets == {"dead", "nudge", "clock", "empty", "dropped", "cut", "output"}
Counters == (Budgets \ {"clock"}) \cup {"withheld"}

ASSUME CapAssumption == MaxModelCalls \in Nat
ASSUME RetriesAssumption == Retries \in [Budgets -> Nat]
ASSUME PermitsAssumption == Permits \in Nat \ {0}
ASSUME EventsAssumption == MaxBatch \in Nat /\ MaxEvents \in Nat

VARIABLES pc,
          rows,       \* the working transcript
          reply,      \* the response in hand
          answered,   \* run.model_calls
          calls,      \* LimitTracker::model_calls
          free,       \* permits left at the host's budget gate
          control,    \* ctx.control: the pending MiddlewareControl
          final,      \* run.final_response: {}, or the reply it came from
          exit,       \* LoopExit, or "error"
          used,       \* the counters of TurnRecovery, and output retries
          cutNames,   \* truncated_tool_names
          cutRepeat,  \* truncated_repeat_names
          announced,  \* TurnTracker::announced
          turn,       \* TurnTracker::turn
          open,       \* TurnTracker::open: rows before the open turn, or Closed
          mirror,     \* an observer's transcript, built from lifecycle events
          completed,  \* TurnCompleted events
          inbox,      \* queued SteeringCommands
          lanes,      \* the run queue: messages per lane
          events,     \* ghost: events so far, against MaxEvents
          sent,       \* ghost: messages the host injected or queued
          discarded   \* ghost: the last reply was thrown away to ask again

turnVars == <<announced, turn, open, mirror, completed>>
recovery == <<used, cutNames, cutRepeat>>
hostVars == <<inbox, lanes, sent>>
counts == <<answered, calls, free>>
ghosts == <<events, discarded>>
ended == <<final, exit>>

vars == <<pc, rows, reply, answered, calls, free, control, final, exit, used, cutNames,
          cutRepeat, announced, turn, open, mirror, completed, inbox, lanes, events, sent,
          discarded>>

Closed == 0

SeedLen == 1

Lanes == {"Steer", "Followup"}

Commands == {"Cancel", "Pause", "Resume", "Inject"}

\* The name of the structured-output call, beside the tools.
Schema == "schema"

\* Replies by what the loop tells apart, and the row each leaves.  "blank" is
\* a reply without text that no recovery took up.
TextReplies == {"final", "badText", "empty", "dead", "deadInCall", "withheld", "dropped",
                "continue", "blank"}
StructReplies == {"struct", "badStruct", "cutStruct"}
CallReplies == {"tools", "cutTools"}
BothReplies == {"both", "cutBoth", "cutAll", "graceful"}
Replies == (TextReplies \cup StructReplies \cup CallReplies \cup BothReplies)
               \ {"blank", "graceful"}

\* Replies a length stop cut off inside a call; the schema call was cut in the latter.
CutReplies == {"cutTools", "cutBoth", "cutStruct", "cutAll"}
SchemaCut == {"cutStruct", "cutAll"}

RowOf(r) == CASE r \in TextReplies -> "text"
              [] r \in StructReplies -> "structured"
              [] r \in CallReplies -> "calls"
              [] r \in BothReplies -> "both"

AssistantRows == {"text", "structured", "calls", "both"}

\* "host" rows are injected or queued by the host; "user" rows are the input,
\* the loop's own nudges and follow-ups of tools.
Rows == AssistantRows \cup {"user", "host", "system", "tool"}

CallsOf(row) == CASE row \in {"structured", "calls"} -> 1
                  [] row = "both" -> 2
                  [] OTHER -> 0

Last(s) == s[Len(s)]
Front(s) == SubSeq(s, 1, Len(s) - 1)

\* n copies of a row.
Times(row, n) == [k \in 1..n |-> row]

Count(s, row) == Cardinality({k \in DOMAIN s : s[k] = row})

MinOf(a, b) == IF a < b THEN a ELSE b
MaxOf(a, b) == IF a < b THEN b ELSE a

Init ==
    /\ pc = "start"
    /\ rows = Times("user", SeedLen)
    /\ reply = "none"
    /\ answered = 0
    /\ calls = 0
    /\ free = Permits
    /\ control = "none"
    /\ final = {}
    /\ exit = "none"
    /\ used = [b \in Counters |-> 0]
    /\ cutNames = {}
    /\ cutRepeat = {}
    /\ announced = SeedLen
    /\ turn = 0
    /\ open = Closed
    /\ mirror = rows
    /\ completed = 0
    /\ inbox = <<>>
    /\ lanes = [l \in Lanes |-> 0]
    /\ events = 0
    /\ sent = 0
    /\ discarded = FALSE

(***************************************************************************)
(* TurnTracker.  The observer appends what MessageAppended announces, pops *)
(* once per MessageRetracted and reads the transcript again on             *)
(* TranscriptRewritten.                                                    *)
(***************************************************************************)
Flush(r) ==
    /\ mirror' = mirror \o SubSeq(r, announced + 1, Len(r))
    /\ announced' = Len(r)

CloseTurn(r) ==
    /\ Flush(r)
    /\ open' = Closed
    /\ completed' = IF open = Closed THEN completed ELSE completed + 1
    /\ UNCHANGED turn

\* Mutated form: the turn left open is forgotten.
StartTurnOver ==
    /\ Flush(rows)
    /\ turn' = turn + 1
    /\ open' = Len(rows)
    /\ UNCHANGED completed

\* start_turn closes the turn a recovery left open.
StartTurn ==
    /\ Flush(rows)
    /\ turn' = turn + 1
    /\ open' = Len(rows)
    /\ completed' = IF open = Closed THEN completed ELSE completed + 1

\* Mutated form: the row goes without an event.
RetractSilently ==
    /\ announced' = MinOf(announced, Len(rows) - 1)
    /\ open' = MinOf(open, Len(rows) - 1)
    /\ UNCHANGED <<turn, completed, mirror>>

\* retract_to, called with the length that messages.pop() left.
Retract ==
    LET keep == MaxOf(Len(rows) - 1, SeedLen)
        gone == IF announced > keep THEN announced - keep ELSE 0
    IN  /\ mirror' = SubSeq(mirror, 1, Len(mirror) - gone)
        /\ announced' = MinOf(announced, keep)
        /\ open' = MinOf(open, Len(rows) - 1)
        /\ UNCHANGED <<turn, completed>>

(***************************************************************************)
(* TurnRecovery.                                                           *)
(***************************************************************************)
ResetNudges(u) == [u EXCEPT !["dropped"] = 0, !["withheld"] = 0, !["empty"] = 0]

\* reset_after_final, and reset_after_tool_turn(false).  Output retries are
\* counted over the run.
ResetCounters(u) == [ResetNudges(u) EXCEPT !["cut"] = 0, !["dead"] = 0, !["nudge"] = 0]

ResetAll ==
    /\ used' = ResetCounters(used)
    /\ cutNames' = {}
    /\ cutRepeat' = {}

Spend(b) ==
    /\ used' = [used EXCEPT ![b] = used[b] + 1]
    /\ UNCHANGED <<cutNames, cutRepeat>>

\* remaining_model_calls() > 0.
CallsRemain == calls < MaxModelCalls

(***************************************************************************)
(* Middleware control.  request_control keeps the strongest request;       *)
(* apply_pending_control takes it at the next checkpoint.                  *)
(***************************************************************************)
Rank(c) == CASE c = "none" -> 0
             [] c \in {"model", "end"} -> 2
             [] c = "stop" -> 3
             [] c = "interrupt" -> 4

Controls == {"none", "model", "end", "stop", "interrupt"}

Requested(c) == IF Rank(c) > Rank(control) THEN c ELSE control

Event ==
    /\ events < MaxEvents
    /\ events' = events + 1

\* A hook runs, and may raise control.
RunHook ==
    \/ UNCHANGED <<control, events>>
    \/ Event /\ \E c \in Controls \ {"none"} : control' = Requested(c)

\* Mutated form: the calls of a reply that is cut short are left as they are.
CloseNothing(r) == r

\* close_unanswered_tool_calls.
CloseUnanswered(r) == r \o Times("tool", CallsOf(Last(r)))

Leave(e) ==
    /\ pc' = "exit"
    /\ exit' = e

\* apply_pending_control: the outcomes that end the run.
StopRun ==
    /\ control' = "none"
    /\ \/ /\ control = "end"
          /\ rows' = CloseUnanswered(rows)
          /\ final' = IF final = {} THEN {answered} ELSE final
          /\ Leave("ended")
       \/ /\ control = "stop"
          /\ rows' = CloseUnanswered(rows)
          /\ final' = {answered}
          /\ Leave("stopped")
       \/ /\ control = "interrupt"
          /\ Leave("error")
          /\ UNCHANGED <<rows, final>>

\* apply_pending_control where the caller goes on to `onward'.
Checkpoint(onward) ==
    \/ /\ control = "none"
       /\ pc' = onward
       /\ UNCHANGED <<control, rows, final, exit>>
    \/ /\ control = "model"
       /\ control' = "none"
       /\ rows' = CloseUnanswered(rows)
       /\ pc' = "top"
       /\ UNCHANGED <<final, exit>>
    \/ StopRun

(***************************************************************************)
(* Steering and the run queue.                                             *)
(***************************************************************************)
\* The commands of a drained batch that are applied: up to the first Cancel.
Applied(batch) ==
    LET cancels == {k \in DOMAIN batch : batch[k] = "Cancel"}
    IN  IF cancels = {} THEN batch
        ELSE SubSeq(batch, 1, (CHOOSE k \in cancels : \A j \in cancels : k <= j) - 1)

Cancelled(batch) == Len(Applied(batch)) < Len(batch)

\* The latch after a batch: the last Pause or Resume decides.  A latched pause
\* ends the run at this checkpoint, so none is latched before it.
Latched(batch) ==
    \E k \in DOMAIN batch : /\ batch[k] = "Pause"
                            /\ \A j \in (k + 1)..Len(batch) : batch[j] # "Resume"

\* apply_pending_steering and the callers' match on its outcome.
ApplySteering(onward) ==
    LET batch == Applied(inbox)
    IN  /\ inbox' = <<>>
        /\ rows' = rows \o Times("host", Count(batch, "Inject"))
        /\ \/ Cancelled(inbox) /\ Leave("error")
           \/ ~Cancelled(inbox) /\ Latched(batch) /\ Leave("paused")
           \/ ~Cancelled(inbox) /\ ~Latched(batch) /\ pc' = onward /\ UNCHANGED exit

\* Mutated form: one message is applied and the lane emptied.
TakeLaneOfOne(l) ==
    /\ lanes[l] > 0
    /\ rows' = Append(rows, "host")
    /\ lanes' = [lanes EXCEPT ![l] = 0]

\* take_admitted: QueueMode takes one message or the whole lane.  Guarded
\* messages, which may be refused admission, are left out.
TakeLane(l) ==
    \E n \in {1, lanes[l]} :
        /\ lanes[l] > 0
        /\ rows' = rows \o Times("host", n)
        /\ lanes' = [lanes EXCEPT ![l] = lanes[l] - n]

(***************************************************************************)
(* The top of an iteration, up to the dispatch of a model call.            *)
(***************************************************************************)
Begin ==
    /\ pc = "start"
    /\ RunHook
    /\ pc' = "top"
    /\ UNCHANGED <<rows, reply, counts, ended, recovery, turnVars, hostVars, discarded>>

Steer ==
    /\ pc = "top"
    /\ ApplySteering("control")
    /\ UNCHANGED <<reply, counts, control, final, recovery, turnVars, lanes, sent, ghosts>>

CheckTop ==
    /\ pc = "control"
    /\ Checkpoint("count")
    /\ UNCHANGED <<reply, counts, recovery, turnVars, hostVars, ghosts>>

\* try_record_model_call; past the cap the policy stops with the partial run
\* or fails.
CountCall ==
    /\ pc = "count"
    /\ calls' = calls + 1
    /\ \/ CallsRemain /\ pc' = "request" /\ discarded' = FALSE /\ UNCHANGED exit
       \/ ~CallsRemain /\ UNCHANGED discarded /\ \E e \in {"limit", "error"} : Leave(e)
    /\ UNCHANGED <<rows, reply, answered, free, control, final, recovery, turnVars, hostVars, events>>

\* Pending rows are announced, then a change of the tool set is declared: as a
\* row at the end, or in the leading system row, which is folded into or
\* inserted.  before_model may raise control.
PrepareRequest ==
    /\ pc = "request"
    /\ pc' = "gate"
    /\ \/ Flush(rows) /\ RunHook /\ UNCHANGED rows
       \/ /\ Event
          /\ UNCHANGED control
          /\ \/ Flush(rows) /\ rows' = Append(rows, "system")
             \/ /\ rows[1] # "system"
                /\ rows' = <<"system">> \o rows
                /\ mirror' = rows'
                /\ announced' = Len(rows')
    /\ UNCHANGED <<reply, counts, ended, recovery, turn, open, completed, hostVars, discarded>>

CheckBeforeDispatch ==
    /\ pc = "gate"
    /\ Checkpoint("admit")
    /\ UNCHANGED <<reply, counts, recovery, turnVars, hostVars, ghosts>>

\* admit_host_budget, start_turn, ModelStarted.
Dispatch ==
    /\ pc = "admit"
    /\ free > 0
    /\ free' = free - 1
    /\ StartTurn
    /\ pc' = "model"
    /\ UNCHANGED <<rows, reply, answered, calls, control, ended, recovery, hostVars, events, discarded>>

(***************************************************************************)
(* The reply.                                                              *)
(***************************************************************************)
\* Mutated form: the permit is kept while the tools run.
KeepPermit == UNCHANGED free

\* The permit guards the provider call only: it is given back before
\* after_model, the tools and the next turn.
DropPermit == free' = free + 1

\* The reply arrives; the model wrap and after_model may raise control.
ReceiveReply(r) ==
    /\ pc = "model"
    /\ answered' = answered + 1
    /\ DropPermit
    /\ rows' = Append(rows, RowOf(r))
    /\ Flush(rows')
    /\ reply' = r
    /\ RunHook
    /\ pc' = "replied"
    /\ UNCHANGED <<calls, ended, recovery, turn, open, completed, hostVars, discarded>>

\* The call fails, or after_model rejects the reply.
ModelFails ==
    /\ pc = "model"
    /\ free' = free + 1
    /\ answered' \in {answered, answered + 1}
    /\ Leave("error")
    /\ UNCHANGED <<rows, reply, calls, control, final, recovery, turnVars, hostVars, ghosts>>

CheckReply ==
    /\ pc = "replied"
    /\ Checkpoint("reply")
    /\ reply' = IF pc' = "reply" THEN reply ELSE "none"
    /\ UNCHANGED <<counts, recovery, turnVars, hostVars, ghosts>>

(***************************************************************************)
(* recover_unusable_response, for a reply without tool calls.              *)
(***************************************************************************)
\* A recovered turn goes through the checkpoints of a new iteration.
Again == pc' = "top"

\* The reply's row is popped and retracted, and the model asked again.
AskAgain(nudge) ==
    /\ rows' = Front(rows) \o nudge
    /\ Retract
    /\ discarded' = TRUE
    /\ Again
    /\ reply' = "none"
    /\ UNCHANGED <<counts, control, ended, hostVars, events>>

\* A recovery that is spent or out of calls leaves the reply to what follows.
TakenAs(kinds) ==
    /\ reply' \in kinds
    /\ UNCHANGED <<pc, rows, counts, control, ended, recovery, turnVars, hostVars, ghosts>>

\* The reply is popped for good and the run fails.
PopAndFail ==
    /\ rows' = Front(rows)
    /\ Retract
    /\ Leave("error")
    /\ reply' = "none"
    /\ UNCHANGED <<counts, control, final, hostVars, ghosts>>

RecoverWithheld ==
    /\ pc = "reply"
    /\ reply = "withheld"
    /\ LET again == used["withheld"] < Retries["dropped"] /\ CallsRemain
       IN  \/ again /\ Spend("withheld") /\ AskAgain(<<"user">>)
           \/ ~again /\ TakenAs({"final", "blank", "empty", "dead", "badText", "continue"})

\* Mutated form: the retry is sent without asking what the cap has left.
RetryDeadUncapped ==
    /\ pc = "reply"
    /\ reply \in {"dead", "deadInCall"}
    /\ used["dead"] < Retries["dead"]
    /\ Spend("dead")
    /\ AskAgain(<<>>)

\* Truncated-empty replies: a retry, or a nudge, while the clock has room for
\* it.  The clock is not modelled: it may refuse either at any time.
RetryDead ==
    /\ pc = "reply"
    /\ reply \in {"dead", "deadInCall"}
    /\ used["dead"] < Retries["dead"]
    /\ CallsRemain
    /\ Spend("dead")
    /\ AskAgain(<<>>)

NudgeDead ==
    /\ pc = "reply"
    /\ reply \in {"dead", "deadInCall"}
    /\ \/ used["nudge"] < Retries["nudge"]
       \/ Retries["nudge"] > 0 /\ used["nudge"] < Retries["clock"]
    /\ CallsRemain
    /\ Spend("nudge")
    /\ AskAgain(<<"user">>)

GiveUpDead ==
    /\ pc = "reply"
    /\ \/ reply = "deadInCall" /\ PopAndFail /\ UNCHANGED recovery
       \/ reply = "dead" /\ TakenAs({"blank", "dropped", "badText", "continue"})

RecoverEmpty ==
    /\ pc = "reply"
    /\ reply = "empty"
    /\ LET again == used["empty"] < Retries["empty"] /\ CallsRemain
       IN  \/ again /\ Spend("empty") /\ AskAgain(<<>>)
           \/ ~again /\ TakenAs({"blank"})

\* A dropped call keeps its row.  Out of calls, the loop's own limit check
\* follows and nothing is appended.
RecoverDropped ==
    /\ pc = "reply"
    /\ reply = "dropped"
    /\ \/ /\ used["dropped"] < Retries["dropped"]
          /\ pc' = "top"
          /\ \/ CallsRemain /\ Spend("dropped") /\ rows' = Append(rows, "user")
             \/ ~CallsRemain /\ UNCHANGED <<rows, recovery>>
          /\ reply' = "none"
          /\ UNCHANGED <<counts, control, ended, turnVars, hostVars, ghosts>>
       \/ /\ used["dropped"] >= Retries["dropped"]
          /\ TakenAs({"final", "blank", "badText", "continue"})

(***************************************************************************)
(* A reply without tool calls that is taken as it is.                      *)
(***************************************************************************)
ContinueTurn ==
    /\ pc = "reply"
    /\ reply = "continue"
    /\ ResetAll
    /\ rows' = Append(rows, "user")
    /\ pc' = "top"
    /\ reply' = "none"
    /\ UNCHANGED <<counts, control, ended, turnVars, hostVars, ghosts>>

\* Schema-invalid or rejected output: asked for again, or the run fails.
RejectOutput ==
    /\ pc = "reply"
    /\ reply \in {"badText", "badStruct"}
    /\ cutNames' = {}
    /\ cutRepeat' = {}
    /\ \/ /\ used["output"] < Retries["output"]
          /\ used' = [ResetCounters(used) EXCEPT !["output"] = used["output"] + 1]
          /\ rows' = Append(rows, "user")
          /\ pc' = "top"
          /\ UNCHANGED exit
       \/ used' = ResetCounters(used) /\ Leave("error") /\ UNCHANGED rows
    /\ reply' = "none"
    /\ UNCHANGED <<counts, control, final, turnVars, hostVars, ghosts>>

\* run.final_response = Some(response).
RecordFinal == final' = {answered}

AcceptReply ==
    /\ pc = "reply"
    /\ reply \in {"final", "struct", "blank"}
    /\ ResetAll
    /\ RecordFinal
    /\ CloseTurn(rows)
    /\ pc' = "settle"
    /\ reply' = "none"
    /\ UNCHANGED <<rows, counts, control, exit, hostVars, ghosts>>

\* error_on_empty_response.
RefuseBlank ==
    /\ pc = "reply"
    /\ reply = "blank"
    /\ ResetAll
    /\ PopAndFail

(***************************************************************************)
(* Replies with tool calls.  Calls cut off by a length stop are refused    *)
(* first (reject_truncated_tool_calls).                                    *)
(***************************************************************************)
CutName(t) == IF reply \in SchemaCut THEN Schema ELSE t

\* The name was cut off again after its warning, or the budget is spent.
CutIsHopeless(t) == CutName(t) \in cutRepeat \/ used["cut"] >= Retries["cut"]

FailCut(t) ==
    /\ pc = "reply"
    /\ reply \in CutReplies
    /\ CutIsHopeless(t)
    /\ PopAndFail
    /\ UNCHANGED recovery

\* A cut schema call fails the whole turn: every call is answered, after_tool
\* included, and queued steering applied; the turn stays open.  A cut tool call is answered by its
\* batch.
RefuseCut(t) ==
    /\ pc = "reply"
    /\ reply \in CutReplies
    /\ ~CutIsHopeless(t)
    /\ cutRepeat' = cutRepeat \cup ({CutName(t)} \cap cutNames)
    /\ cutNames' = {CutName(t)}
    /\ used' = [(IF reply = "cutTools" THEN ResetNudges(used) ELSE used)
                    EXCEPT !["cut"] = used["cut"] + 1]
    /\ \/ /\ reply \in SchemaCut
          /\ \E more \in {<<>>, <<"user">>} : rows' = CloseUnanswered(rows) \o more
          /\ RunHook
          /\ pc' = "lane"
       \/ reply = "cutTools" /\ pc' = "tools" /\ UNCHANGED <<rows, control, events>>
       \/ reply = "cutBoth" /\ pc' = "mixed" /\ UNCHANGED <<rows, control, events>>
    /\ UNCHANGED <<reply, counts, ended, turnVars, hostVars, discarded>>

\* execute_tools_with_promotions; a tool may be a sub-agent, whose own run
\* needs a permit.
RunTools == pc' \in {"tools", "child"}

StartTools ==
    /\ pc = "reply"
    /\ reply = "tools"
    /\ ResetAll
    /\ RunTools
    /\ UNCHANGED <<rows, reply, counts, control, ended, turnVars, hostVars, ghosts>>

\* finish_mixed_structured_turn: the reply both answers and asks for a tool.
Mixed == (pc = "reply" /\ reply = "both") \/ pc = "mixed"

\* EndStrategy::Early.
FinishEarly ==
    /\ Mixed
    /\ rows' = rows \o <<"tool", "tool">>
    /\ RecordFinal
    /\ CloseTurn(rows')
    /\ pc' = "settle"
    /\ reply' = "none"
    /\ UNCHANGED <<counts, control, exit, recovery, hostVars, ghosts>>

\* EndStrategy::Graceful, for a reply that was not cut.
FinishGracefully ==
    /\ Mixed
    /\ reply = "both"
    /\ rows' = Append(rows, "tool")
    /\ reply' = "graceful"
    /\ RunTools
    /\ UNCHANGED <<counts, control, ended, recovery, turnVars, hostVars, ghosts>>

\* EndStrategy::Exhaustive, and a cut reply under Graceful.
GoOn ==
    /\ Mixed
    /\ rows' = Append(rows, "tool")
    /\ \/ reply = "both" /\ ResetAll
       \/ reply = "cutBoth" /\ used' = ResetNudges(used) /\ UNCHANGED <<cutNames, cutRepeat>>
    /\ RunTools
    /\ UNCHANGED <<reply, counts, control, ended, turnVars, hostVars, ghosts>>

\* The sub-agent's model calls come and go through the same gate.
ChildRuns ==
    /\ pc = "child"
    /\ free > 0
    /\ pc' = "tools"
    /\ UNCHANGED <<rows, reply, counts, control, ended, recovery, turnVars, hostVars, ghosts>>

\* The call is answered, perhaps with a follow-up row; the turn is closed.
ToolsReturn ==
    /\ pc = "tools"
    /\ \E more \in {<<>>, <<"user">>} : rows' = Append(rows, "tool") \o more
    /\ RunHook
    /\ CloseTurn(rows')
    /\ pc' = IF reply = "graceful" THEN "graceful" ELSE "lane"
    /\ UNCHANGED <<reply, counts, ended, recovery, hostVars, discarded>>

\* LoopExit::Deferred: the call waits for a decision.
ToolsDefer ==
    /\ pc = "tools"
    /\ Leave("deferred")
    /\ reply' = "none"
    /\ UNCHANGED <<rows, counts, control, final, recovery, turnVars, hostVars, ghosts>>

\* The end of a tool turn: queued steering, and on the plain path
\* should_stop_after_turn.
ApplySteerLane ==
    /\ pc = "lane"
    /\ \/ TakeLane("Steer")
       \/ lanes["Steer"] = 0 /\ UNCHANGED <<rows, lanes>>
    /\ \/ UNCHANGED <<control, events>>
       \/ reply \in CallReplies /\ Event /\ control' = Requested("end")
    /\ pc' = "boundary"
    /\ reply' = "none"
    /\ UNCHANGED <<counts, ended, recovery, turnVars, inbox, sent, discarded>>

CheckBoundary ==
    /\ pc = "boundary"
    /\ Checkpoint("top")
    /\ UNCHANGED <<reply, counts, recovery, turnVars, hostVars, ghosts>>

\* Graceful honours only a control that ends the run.
FinishGraceful ==
    /\ pc = "graceful"
    /\ \/ control \in {"none", "model"} /\ control' = "none" /\ RecordFinal
             /\ pc' = "settle" /\ UNCHANGED <<rows, exit>>
       \/ StopRun
    /\ reply' = "none"
    /\ UNCHANGED <<counts, recovery, turnVars, hostVars, ghosts>>

(***************************************************************************)
(* settle_natural_finish and the exit of the run.                          *)
(***************************************************************************)
Settle ==
    /\ pc = "settle"
    /\ ApplySteering(IF Count(Applied(inbox), "Inject") > 0 THEN "top" ELSE "steers")
    /\ UNCHANGED <<reply, counts, control, final, recovery, turnVars, lanes, sent, ghosts>>

SettleLane(at, l, onward) ==
    /\ pc = at
    /\ \/ TakeLane(l) /\ pc' = "top" /\ UNCHANGED exit
       \/ lanes[l] = 0 /\ onward /\ UNCHANGED <<rows, lanes>>
    /\ UNCHANGED <<reply, counts, control, final, recovery, turnVars, inbox, sent, ghosts>>

SettleSteers == SettleLane("steers", "Steer", pc' = "followups" /\ UNCHANGED exit)

SettleFollowups == SettleLane("followups", "Followup", Leave("finished"))

\* A cancellation, the deadline, a hook, the budget gate or a tool fails the run;
\* so does after_tool of a cut schema call.
StepFails ==
    /\ \/ pc \in {"start", "top", "count", "request", "admit", "tools"}
       \/ pc = "reply" /\ reply \in SchemaCut /\ ~CutIsHopeless(Schema)
    /\ Leave("error")
    /\ reply' = "none"
    /\ UNCHANGED <<rows, counts, control, final, recovery, turnVars, hostVars, ghosts>>

\* run_loop closes the turn on every exit path; after_agent, which runs unless
\* the loop failed, may append to the transcript and may fail the run.
Conclude ==
    /\ pc = "exit"
    /\ \/ UNCHANGED <<rows, exit>>
       \/ exit # "error" /\ rows' = Append(rows, "user") /\ exit' \in {exit, "error"}
    /\ CloseTurn(rows')
    /\ pc' = "done"
    /\ UNCHANGED <<reply, counts, control, final, recovery, hostVars, ghosts>>

(***************************************************************************)
(* The host, from its own threads, while the run is under way.  What it    *)
(* sends makes no difference before the loop next looks, so it sends just  *)
(* before a step that reads the inbox or a lane.                           *)
(***************************************************************************)
Looks == {"top", "lane", "settle", "steers", "followups"}

SendCommands(batch) ==
    /\ pc \in Looks
    /\ Event
    /\ inbox' = inbox \o batch
    /\ sent' = sent + Count(batch, "Inject")
    /\ UNCHANGED <<pc, rows, reply, counts, control, ended, recovery, turnVars, lanes,
                   discarded>>

Enqueue(l, n) ==
    /\ pc \in Looks
    /\ Event
    /\ lanes' = [lanes EXCEPT ![l] = lanes[l] + n]
    /\ sent' = sent + n
    /\ UNCHANGED <<pc, rows, reply, counts, control, ended, recovery, turnVars, inbox,
                   discarded>>

BeforeCall == Begin \/ Steer \/ CheckTop \/ CountCall \/ PrepareRequest \/ CheckBeforeDispatch
              \/ Dispatch

ModelCall == (\E r \in Replies : ReceiveReply(r)) \/ ModelFails \/ CheckReply

Recover == RecoverWithheld \/ RetryDead \/ NudgeDead \/ GiveUpDead \/ RecoverEmpty
           \/ RecoverDropped

Resolve == ContinueTurn \/ RejectOutput \/ AcceptReply \/ RefuseBlank

WithCalls == \/ \E t \in Tools : FailCut(t) \/ RefuseCut(t)
             \/ StartTools \/ FinishEarly \/ FinishGracefully \/ GoOn
             \/ ChildRuns \/ ToolsReturn \/ ToolsDefer
             \/ ApplySteerLane \/ CheckBoundary \/ FinishGraceful

Ending == Settle \/ SettleSteers \/ SettleFollowups \/ StepFails \/ Conclude

Loop == BeforeCall \/ ModelCall \/ Recover \/ Resolve \/ WithCalls \/ Ending

Host == \E n \in 1..MaxBatch :
            \/ \E batch \in [1..n -> Commands] : SendCommands(batch)
            \/ \E l \in Lanes : Enqueue(l, n)

Next == Loop \/ Host

Spec == Init /\ [][Next]_vars

\* The executor polls the run's future whenever it can go on; a provider call
\* and a tool return or fail (their timeouts), and the host owes nothing.
FairSpec == Spec /\ WF_vars(Loop)

(***************************************************************************)
(* Properties                                                              *)
(***************************************************************************)
Pcs == {"start", "top", "control", "count", "request", "gate", "admit", "model", "replied",
        "reply", "mixed", "tools", "child", "lane", "boundary", "graceful", "settle", "steers",
        "followups", "exit", "done"}

Exits == {"none", "finished", "ended", "stopped", "limit", "paused", "deferred", "error"}

\* Every variable has its type, and the recovery counters stay within the
\* policy's budgets.
TypeOK ==
    /\ pc \in Pcs
    /\ rows \in Seq(Rows) /\ mirror \in Seq(Rows)
    /\ reply \in TextReplies \cup StructReplies \cup CallReplies \cup BothReplies \cup {"none"}
    /\ answered \in 0..MaxModelCalls
    /\ calls \in 0..(MaxModelCalls + 1)
    /\ free \in 0..Permits
    /\ control \in Controls
    /\ final \in SUBSET (0..MaxModelCalls)
    /\ exit \in Exits /\ (exit = "none" <=> pc \notin {"exit", "done"})
    /\ used \in [Counters -> Nat]
    /\ \A b \in Counters \ {"withheld", "nudge"} : used[b] <= Retries[b]
    /\ used["withheld"] <= Retries["dropped"]
    /\ used["nudge"] <= MaxOf(Retries["nudge"], Retries["clock"])
    /\ cutNames \subseteq Tools \cup {Schema} /\ cutRepeat \subseteq Tools \cup {Schema}
    /\ announced \in 0..Len(rows) /\ open \in 0..Len(rows)
    /\ turn \in 0..MaxModelCalls /\ completed \in 0..MaxModelCalls
    /\ inbox \in Seq(Commands) /\ lanes \in [Lanes -> Nat]
    /\ events \in 0..MaxEvents /\ sent \in 0..(events * MaxBatch)
    /\ discarded \in BOOLEAN

\* An observer that follows the lifecycle events holds the announced prefix of
\* the transcript at every moment, through retractions of unusable replies and
\* rewrites of the leading row, and the whole transcript once the run is over.
MirrorAgrees ==
    /\ mirror = SubSeq(rows, 1, announced)
    /\ pc = "done" => announced = Len(rows)

\* Each TurnStarted is followed by one TurnCompleted, before the next turn
\* starts and before the run is over, on every exit path.
TurnsPaired ==
    /\ turn = completed + (IF open = Closed THEN 0 ELSE 1)
    /\ pc = "done" => open = Closed

\* The tool rows between row k and the next assistant row.
AnswersTo(k) ==
    {j \in DOMAIN rows : /\ j > k
                         /\ rows[j] = "tool"
                         /\ \A i \in (k + 1)..j : rows[i] \notin AssistantRows}

\* Whenever a request goes out, every call on the transcript has its answer,
\* whatever cut its turn short.  Only a structured-output call that was the
\* reply's single call may stand without one.
CallsAreAnswered ==
    pc = "model" =>
        \A k \in {j \in DOMAIN rows : rows[j] \in AssistantRows} :
            LET n == Cardinality(AnswersTo(k))
            IN  n = CallsOf(rows[k]) \/ (rows[k] = "structured" /\ n = 0)

\* No message of the host is lost or applied twice: it waits in the inbox or
\* in its lane, or it is on the transcript, though replies are popped off the
\* transcript meanwhile.  A cancelled run drops the rest of its inbox.
HostMessagesKept ==
    exit # "error" =>
        Count(rows, "host") + Count(inbox, "Inject") + lanes["Steer"] + lanes["Followup"]
            = sent

\* A reply is thrown away only while the cap leaves a call to replace it, so
\* no run stops at its limit right after it discarded a reply.
DiscardedIsReplaced == exit = "limit" => ~discarded

\* A run that finishes of itself returns its last reply, also when an earlier
\* reply had finished and queued messages made the run go on.
FinalIsCurrent == exit = "finished" => final = {answered}

\* The reply a run ends with: its last one, and never a gap where a reply was
\* thrown away for a call the cap no longer allows.
ExitIsEarned == DiscardedIsReplaced /\ FinalIsCurrent

\* The run ends: each recovery is bounded by the cap, and a sub-agent's run
\* never waits for the permit its parent holds.
RunEnds == <>(pc = "done")
=============================================================================
