----------------------------- MODULE TaskStore -----------------------------
(***************************************************************************)
(* The promise of the TaskStore trait (crates/tinyagents-tasks/src/        *)
(* store.rs): one record per task, and every transition applied to it in   *)
(* one indivisible step.  InMemoryTaskStore keeps that promise with a      *)
(* mutex around a map; DriverTaskStore (module DriverTaskStore) has to     *)
(* earn it with compare-and-swap.                                          *)
(*                                                                         *)
(* A record keeps what the transitions read or write: its status, whether  *)
(* a result is present, where its error text came from, and whether its    *)
(* deadline, start and end times are set.                                  *)
(***************************************************************************)
EXTENDS Naturals

CONSTANT Tasks

VARIABLE tasks      \* the map from task id to record

(***************************************************************************)
(* OrchestrationTaskStatus and its live / terminal split.  "Absent" stands *)
(* for a task id that has no record.                                       *)
(***************************************************************************)
TerminalStatus == {"Completed", "Failed", "Cancelled", "TimedOut", "Abandoned"}

LiveStatus == {"Pending", "Running", "Awaiting", "CancelRequested"}

Record == [status  : TerminalStatus \cup LiveStatus \cup {"Absent"},
           result  : BOOLEAN,
           error   : {"none", "question", "failure", "abandoned"},
           timeout : BOOLEAN,
           started : BOOLEAN,
           ended   : BOOLEAN]

NoTask == [status |-> "Absent", result |-> FALSE, error |-> "none",
           timeout |-> FALSE, started |-> FALSE, ended |-> FALSE]

\* OrchestrationTaskRecord::pending
PendingRecord == [NoTask EXCEPT !.status = "Pending"]

Live(r) == r.status \in LiveStatus

Terminal(r) == r.status \in TerminalStatus

(***************************************************************************)
(* The transition functions of store.rs.  Allowed is the check a function  *)
(* makes before it touches the record (otherwise it returns an error and   *)
(* the record is untouched); After is the record it leaves.                *)
(***************************************************************************)
Settling == {"complete", "fail", "timeout"}

Transitions == Settling \cup
               {"mark_running", "mark_awaiting", "mark_awaiting_with_question",
                "request_cancel", "mark_cancelled", "kill", "set_timeout_ms"}

\* require_status, require_live and the terminal check of set_timeout_ms.
Allowed(op, r) ==
    CASE op = "mark_running" -> r.status = "Pending"
      [] op \in {"mark_awaiting", "mark_awaiting_with_question"} ->
            r.status \in {"Pending", "Running"}
      [] op = "mark_cancelled" -> r.status = "CancelRequested"
      [] OTHER -> Live(r)

mark_cancelled(r) == [r EXCEPT !.status = "Cancelled", !.ended = TRUE]

\* complete, fail and timeout: a task its owner asked to cancel settles as
\* Cancelled whatever it ended with.
Settle(op, r) ==
    IF r.status = "CancelRequested" THEN mark_cancelled(r)
    ELSE [r EXCEPT !.status = CASE op = "complete" -> "Completed"
                                [] op = "fail"     -> "Failed"
                                [] op = "timeout"  -> "TimedOut",
                   !.result = (op = "complete"),
                   !.error  = IF op = "complete" THEN "none" ELSE "failure",
                   !.ended  = TRUE]

After(op, r) ==
    CASE op = "mark_running" -> [r EXCEPT !.status = "Running", !.started = TRUE]
      [] op = "mark_awaiting" -> [r EXCEPT !.status = "Awaiting"]
      [] op = "mark_awaiting_with_question" ->
            [r EXCEPT !.status = "Awaiting", !.error = "question"]
      [] op \in Settling -> Settle(op, r)
      [] op = "request_cancel" -> [r EXCEPT !.status = "CancelRequested"]
      [] op = "mark_cancelled" -> mark_cancelled(r)
      [] op = "kill" -> [r EXCEPT !.status = "Abandoned", !.error = "abandoned",
                                  !.ended = TRUE]
      [] op = "set_timeout_ms" -> [r EXCEPT !.timeout = TRUE]

-----------------------------------------------------------------------------
(***************************************************************************)
(* The store.                                                              *)
(***************************************************************************)
Init == tasks = [t \in Tasks |-> NoTask]

\* InMemoryTaskStore::insert; an existing id is refused.
Insert(t) ==
    /\ tasks[t] = NoTask
    /\ tasks' = [tasks EXCEPT ![t] = PendingRecord]

\* with_task around one of the transition functions.
Transit(op, t) ==
    /\ Allowed(op, tasks[t])
    /\ tasks' = [tasks EXCEPT ![t] = After(op, tasks[t])]

Next == \E t \in Tasks : Insert(t) \/ \E op \in Transitions : Transit(op, t)

Spec == Init /\ [][Next]_tasks

-----------------------------------------------------------------------------
(***************************************************************************)
(* Properties.                                                             *)
(***************************************************************************)
\* The type of the map.
TypeOK == tasks \in [Tasks -> Record]

\* What a settled record says of itself is coherent, whichever of the ten
\* transitions led there in whichever order: an end time exactly on terminal
\* records, a result exactly on completed ones, and never the question of an
\* earlier Awaiting or any other error text beside a result.
RecordCoherent(r) ==
    /\ r.ended <=> Terminal(r)
    /\ r.result <=> r.status = "Completed"
    /\ r.result => r.error = "none"
    /\ r.status \in {"Failed", "TimedOut"} => r.error = "failure"
    /\ r.error = "failure" => r.status \in {"Failed", "TimedOut"}
    /\ r.error = "abandoned" <=> r.status = "Abandoned"

Coherent == \A t \in Tasks : RecordCoherent(tasks[t])

\* A terminal record is never written again (transition::require_live).
SettledIsFinal ==
    [][\A t \in Tasks : Terminal(tasks[t]) => tasks'[t] = tasks[t]]_tasks
=============================================================================
