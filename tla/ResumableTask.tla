--------------------------- MODULE ResumableTask ---------------------------
(***************************************************************************)
(* What SubagentDriver and SubagentPersistence promise for one task key    *)
(* (tinyagents-orchestration, subagent/driver.rs and persistence.rs): the  *)
(* task is one object shared by every driver and process.  It stands at a  *)
(* pause or at none, each continuation of it commits in one indivisible    *)
(* step and only from the pause it continued, it is finished once, and a   *)
(* call is answered with something that was committed or with a failure.   *)
(* Caches, in-flight maps, leaders and followers are not part of it.       *)
(***************************************************************************)
CONSTANTS Calls,      \* invocations of run
          Kinds,      \* the terminal outcomes a call may commit
          None,       \* no pause
          Earlier     \* a call of an earlier process

VARIABLES head,       \* the pause the task stands at
          pauses,     \* every pause it has stood at
          outcome,    \* the terminal outcome
          phase,      \* of each call
          from,       \* the pause an open call continues
          answer      \* of each call that has returned

task == <<head, pauses, outcome>>
calls == <<phase, from, answer>>
vars == <<head, pauses, outcome, phase, from, answer>>

NoOutcome == [kind |-> "none", by |-> None]
Finished(out) == [result |-> "terminal", out |-> out]
Paused(p) == [result |-> "paused", out |-> [kind |-> "Paused", by |-> p]]
Failed == [result |-> "failed", out |-> NoOutcome]
NoAnswer == [result |-> "none", out |-> NoOutcome]

Init ==
    /\ head \in {None, Earlier}
    /\ pauses = {head} \ {None}
    /\ outcome = NoOutcome
    /\ phase = [c \in Calls |-> "idle"]
    /\ from = [c \in Calls |-> None]
    /\ answer = [c \in Calls |-> NoAnswer]

\* A task that was finished is not opened: a call that starts after the end
\* executes nothing and commits nothing.
Open(c) ==
    /\ phase[c] = "idle"
    /\ outcome = NoOutcome
    /\ phase' = [phase EXCEPT ![c] = "open"]
    /\ \E p \in pauses \cup {None} : from' = [from EXCEPT ![c] = p]
    /\ UNCHANGED <<task, answer>>

\* An open call reads the pause it continues, or gives up continuing one.
Resume(c) ==
    /\ phase[c] = "open"
    /\ \E p \in {head, None} : from' = [from EXCEPT ![c] = p]
    /\ UNCHANGED <<task, phase, answer>>

\* What both commits require: the task is unfinished and still stands where
\* the call picked it up, and the call commits for the first time.
Commits(c) ==
    /\ phase[c] = "open"
    /\ outcome = NoOutcome
    /\ from[c] = head
    /\ c \notin pauses
    /\ phase' = [phase EXCEPT ![c] = "committed"]
    /\ UNCHANGED <<from, answer>>

Pause(c) ==
    /\ Commits(c)
    /\ head' = c
    /\ pauses' = pauses \cup {c}
    /\ UNCHANGED outcome

Finish(c) ==
    /\ Commits(c)
    /\ head' = None
    /\ \E k \in Kinds : outcome' = [kind |-> k, by |-> c]
    /\ UNCHANGED pauses

\* What a call may be told: what it committed itself; else the outcome, or, if
\* it opened the task before the outcome, a pause; a failure always.
Results(c) ==
    {Failed}
      \cup {Finished(out) : out \in {o \in {outcome} : o # NoOutcome /\ c \notin pauses}}
      \cup {Paused(p) : p \in CASE phase[c] = "idle" -> {}
                                [] phase[c] = "open" -> pauses
                                [] phase[c] = "committed" -> pauses \cap {c}}

Return(c) ==
    /\ phase[c] # "returned"
    /\ \E r \in Results(c) : answer' = [answer EXCEPT ![c] = r]
    /\ phase' = [phase EXCEPT ![c] = "returned"]
    /\ from' = [from EXCEPT ![c] = None]
    /\ UNCHANGED task

Next == \E c \in Calls : Open(c) \/ Resume(c) \/ Pause(c) \/ Finish(c) \/ Return(c)

Spec == Init /\ [][Next]_vars
=============================================================================
