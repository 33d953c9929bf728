----------------------- MODULE SubagentDriverProofs -----------------------
(***************************************************************************)
(* Proofs about SubagentDriver, for every set of calls and drivers, every  *)
(* partition of the drivers into in-flight maps and every bound.           *)
(***************************************************************************)
EXTENDS SubagentDriver, TLAPS

\* The steps a call reaches only as the leader of its in-flight entry.
Leading == {"recheck", "load", "planned", "run", "backoff", "error", "persist",
            "terminal_winner", "pause_winner", "pause", "record"}

TerminalAnswers == {"TerminalInserted", "TerminalExisting"}
PauseAnswers == {"PauseSaved", "PauseExisting"}

\* An answer: a terminal answer carries an outcome.
SomeAnswer == {a \in Answer \cup {NoAnswer} :
                 a.disp \in TerminalAnswers => a.out \in Outcome}

\* What a call has settled by the step it is at.
CallShape ==
    \A c \in Calls :
        /\ call[c].pc # "new" => call[c].driver \in Drivers
        /\ call[c].pc = "follow" => call[c].leads \in Calls \ {c}
        /\ call[c].pc \in Leading => Leads(c)
        /\ call[c].pc = "cache" => call[c].ans.disp \in TerminalAnswers
        /\ call[c].pc = "cache" /\ ~Leads(c) => call[c].ans.disp = "TerminalExisting"
        /\ call[c].pc \in {"new", "lookup", "claim"} => call[c].leads = NoCall
        /\ call[c].pc = "persist" => call[c].kind \in Kinds
        /\ call[c].ans.disp = "TerminalInserted" =>
               Leads(c) /\ call[c].ans.out.by = c /\ call[c].pc \in {"cache", "record", "done"}
        /\ call[c].ans \in SomeAnswer /\ pub[c] \in SomeAnswer

\* The answers the driver builds.
LEMMA Answers ==
  /\ NoOutcome \notin Outcome
  /\ \A k \in Kinds, b \in Calls \cup {Earlier} :
        [kind |-> k, by |-> b] \in Outcome /\ [kind |-> k, by |-> b].by = b
  /\ \A out \in Outcome, d \in Dispositions :
        /\ [disp |-> d, out |-> out] \in SomeAnswer
        /\ [disp |-> d, out |-> out].disp = d /\ [disp |-> d, out |-> out].out = out
  /\ \A d \in {"ObserverCancelled", "Lost", "Err"} :
        Failure(d) \in SomeAnswer /\ Failure(d).disp = d
  /\ \A out \in Outcome :
        /\ Terminal(out) \in SomeAnswer /\ Terminal(out).disp = "TerminalExisting"
        /\ Terminal(out).out = out
  /\ NoAnswer \in SomeAnswer /\ NoAnswer.disp = "none"
BY CallAssumption DEF NoOutcome, Outcome, Kinds, SomeAnswer, Answer, Dispositions, TerminalAnswers,
   Failure, Terminal, NoAnswer

\* What a follower makes of an answer is one, and never the insertion.
LEMMA FollowedAnswer ==
  ASSUME NEW a \in SomeAnswer, a # NoAnswer
  PROVE  /\ Followed(a) \in SomeAnswer
         /\ Followed(a).disp # "TerminalInserted"
         /\ Followed(a).disp = "TerminalExisting" <=> a.disp \in TerminalAnswers
         /\ Followed(a).disp \in PauseAnswers <=> a.disp \in PauseAnswers
         /\ Followed(a).disp \in TerminalAnswers \cup PauseAnswers => Followed(a).out = a.out
         /\ Followed(a).disp \notin TerminalAnswers \cup PauseAnswers => Followed(a) = a
BY DEF Followed, SomeAnswer, Answer, Dispositions, TerminalAnswers, PauseAnswers, Terminal

-----------------------------------------------------------------------------
(* What the steps make of their call.                                      *)

LEMMA GoToEffect ==
  ASSUME TypeOK, NEW c \in Calls, NEW p, GoTo(c, p)
  PROVE  /\ call'[c].pc = p /\ call'[c].driver = call[c].driver /\ call'[c].leads = call[c].leads
         /\ call'[c].resume = call[c].resume /\ call'[c].ans = call[c].ans
         /\ \A x \in Calls \ {c} : call'[x] = call[x]
BY DEF GoTo, TypeOK, CallState

LEMMA EndsEffect ==
  ASSUME TypeOK, NEW c \in Calls, NEW k, Ends(c, k)
  PROVE  /\ call'[c].pc = "persist" /\ call'[c].driver = call[c].driver
         /\ \A x \in Calls \ {c} : call'[x] = call[x]
BY DEF Ends, TypeOK, CallState

LEMMA ReturnEffect ==
  ASSUME TypeOK, NEW c \in Calls, NEW a, Return(c, a)
  PROVE  /\ call'[c].pc = "done" /\ call'[c].ans = a
         /\ call'[c].driver = call[c].driver /\ call'[c].leads = call[c].leads
         /\ call'[c].resume = call[c].resume
         /\ \A x \in Calls \ {c} : call'[x] = call[x]
BY DEF Return, TypeOK, CallState

LEMMA StageEffect ==
  ASSUME TypeOK, NEW c \in Calls, NEW a, NEW p, Stage(c, a, p)
  PROVE  /\ call'[c].pc = p /\ call'[c].ans = a
         /\ call'[c].driver = call[c].driver /\ call'[c].leads = call[c].leads
         /\ call'[c].resume = call[c].resume /\ call'[c].kind = call[c].kind
         /\ \A x \in Calls \ {c} : call'[x] = call[x]
BY DEF Stage, TypeOK, CallState

LEMMA LoadsEffect ==
  ASSUME TypeOK, NEW c \in Calls, Loads(c)
  PROVE  /\ call'[c].pc \in {"persist", "planned"}
         /\ call'[c].pc = "persist" => call'[c].kind = "Cancelled"
         /\ call'[c].driver = call[c].driver /\ call'[c].leads = call[c].leads
         /\ call'[c].ans = call[c].ans /\ call'[c].resume \in {call[c].resume, rec.pause}
         /\ \A x \in Calls \ {c} : call'[x] = call[x]
BY DEF Loads, TypeOK, CallState

LEMMA LaunchesEffect ==
  ASSUME TypeOK, NEW c \in Calls, Launches(c)
  PROVE  /\ call'[c].pc = IF c \in tok THEN "persist" ELSE "run"
         /\ call'[c].pc = "persist" => call'[c].kind = "Cancelled"
         /\ call'[c].driver = call[c].driver /\ call'[c].leads = call[c].leads
         /\ call'[c].ans = call[c].ans /\ call'[c].resume = call[c].resume
         /\ \A x \in Calls \ {c} : call'[x] = call[x]
BY DEF Launches, TypeOK, CallState

-----------------------------------------------------------------------------
(* Types.                                                                  *)

\* A return keeps the types of what it changes.
LEMMA ReturnTypes ==
  ASSUME TypeOK, CallShape, NEW c \in Calls, NEW a \in SomeAnswer, call[c].pc # "new", Return(c, a)
  PROVE  /\ call' \in [Calls -> CallState] /\ pub' \in [Calls -> Answer \cup {NoAnswer}]
         /\ flight' \in [Groups -> Calls \cup {NoCall}] /\ tok' \subseteq Calls
<1>1. a \in Answer \cup {NoAnswer} /\ call[c] \in CallState
  BY DEF SomeAnswer, TypeOK
<1>2. [call[c] EXCEPT !.pc = "done", !.ans = a] \in CallState
  BY <1>1 DEF CallState, Phases
<1>3. call' = [call EXCEPT ![c] = [call[c] EXCEPT !.pc = "done", !.ans = a]]
  BY DEF Return, TypeOK
<1>4. call' \in [Calls -> CallState]
  BY <1>2, <1>3 DEF TypeOK
<1>5. QED BY <1>1, <1>4, GroupAssumption DEF Return, Published, TypeOK, CallShape, Group

\* So does the end of an execution.
LEMMA EndsTypes ==
  ASSUME TypeOK, NEW c \in Calls, NEW k \in Kinds, Ends(c, k)
  PROVE  call' \in [Calls -> CallState]
<1>1. call[c] \in CallState /\ 0 \in 0..MaxRetries
  BY BoundAssumption DEF TypeOK
<1>2. [call[c] EXCEPT !.pc = "persist", !.kind = k, !.attempt = 0] \in CallState
  BY <1>1 DEF CallState, Phases
<1>3. call' = [call EXCEPT ![c] = [call[c] EXCEPT !.pc = "persist", !.kind = k, !.attempt = 0]]
  BY DEF Ends, TypeOK
<1>4. QED BY <1>2, <1>3 DEF TypeOK

\* And the first look at the token.
LEMMA ReservedTypes ==
  ASSUME TypeOK, NEW c \in Calls, Reserved(c)
  PROVE  call' \in [Calls -> CallState]
<1>1. call[c] \in CallState /\ "Cancelled" \in Kinds BY DEF TypeOK, Kinds
<1>2. [call[c] EXCEPT !.pc = "persist", !.kind = "Cancelled", !.resume = NoCall] \in CallState
  BY <1>1 DEF CallState, Phases
<1>3. [call[c] EXCEPT !.pc = "load"] \in CallState BY <1>1 DEF CallState, Phases
<1>4. \/ call' = [call EXCEPT ![c] = [call[c] EXCEPT !.pc = "persist", !.kind = "Cancelled",
                                                     !.resume = NoCall]]
      \/ call' = [call EXCEPT ![c] = [call[c] EXCEPT !.pc = "load"]]
  BY DEF Reserved, GoTo, TypeOK
<1>5. QED BY <1>2, <1>3, <1>4 DEF TypeOK

\* The first step of a call: it has a driver, and an answer only from its cache.
LEMMA BeginsWith ==
  ASSUME TypeOK, NEW c \in Calls, Begins(c)
  PROVE  \E d \in Drivers, r \in {NoCall} \cup Shown :
           /\ call' \in [Calls -> CallState]
           /\ \A x \in Calls \ {c} : call'[x] = call[x]
           /\ call'[c].driver = d /\ call'[c].resume = r /\ call'[c].leads = NoCall
           /\ \/ cache[d] # NoOutcome /\ call'[c].pc = "done" /\ call'[c].ans = Terminal(cache[d])
              \/ cache[d] = NoOutcome /\ call'[c].pc = "lookup" /\ call'[c].ans = NoAnswer
<1>1. PICK d \in Drivers, r \in {NoCall} \cup Shown :
        call' = [call EXCEPT ![c] =
                   IF cache[d] # NoOutcome
                   THEN [[NewCall EXCEPT !.driver = d, !.resume = r]
                           EXCEPT !.pc = "done", !.ans = Terminal(cache[d])]
                   ELSE [[NewCall EXCEPT !.driver = d, !.resume = r] EXCEPT !.pc = "lookup"]]
  BY DEF Begins
<1>. DEFINE b == IF cache[d] # NoOutcome
                 THEN [[NewCall EXCEPT !.driver = d, !.resume = r]
                         EXCEPT !.pc = "done", !.ans = Terminal(cache[d])]
                 ELSE [[NewCall EXCEPT !.driver = d, !.resume = r] EXCEPT !.pc = "lookup"]
<1>2. r \in Calls \cup {NoCall, Earlier}
  <2>1. ASSUME NEW y \in Calls, call[y].ans.disp \in PauseAnswers
        PROVE  call[y].ans.out.by \in Calls \cup {NoCall, Earlier}
    <3>1. call[y].ans \in Answer \cup {NoAnswer} BY DEF TypeOK, CallState
    <3>2. call[y].ans.out \in Outcome \cup {NoOutcome} BY <3>1 DEF Answer, NoAnswer
    <3>3. QED BY <3>2 DEF Outcome, NoOutcome
  <2>2. QED BY <2>1 DEF Shown, PauseAnswers
<1>3. cache[d] # NoOutcome => Terminal(cache[d]) \in Answer \cup {NoAnswer}
  <2>1. cache[d] \in Outcome \cup {NoOutcome} BY DEF TypeOK
  <2>2. QED BY <2>1 DEF Terminal, Answer, Dispositions
<1>4. /\ b \in CallState /\ b.driver = d /\ b.resume = r /\ b.leads = NoCall
      /\ \/ cache[d] # NoOutcome /\ b.pc = "done" /\ b.ans = Terminal(cache[d])
         \/ cache[d] = NoOutcome /\ b.pc = "lookup" /\ b.ans = NoAnswer
  <2>1. NewCall \in CallState
    BY BoundAssumption DEF NewCall, CallState, Phases
  <2>2. NewCall.leads = NoCall /\ NewCall.ans = NoAnswer
    BY DEF NewCall
  <2>. DEFINE n == [NewCall EXCEPT !.driver = d, !.resume = r]
  <2>3. n \in CallState /\ n.driver = d /\ n.resume = r /\ n.leads = NoCall /\ n.ans = NoAnswer
    BY <1>2, <2>1, <2>2 DEF CallState
  <2>. HIDE DEF n
  <2>4. CASE cache[d] # NoOutcome
    <3>1. b = [n EXCEPT !.pc = "done", !.ans = Terminal(cache[d])] BY <2>4 DEF n
    <3>. HIDE DEF b
    <3>2. "done" \in Phases BY DEF Phases
    <3>3. b \in CallState BY ONLY <3>1, <3>2, <1>3, <2>3, <2>4 DEF CallState
    <3>4. b.driver = d /\ b.resume = r /\ b.leads = NoCall BY ONLY <3>1, <2>3 DEF CallState
    <3>5. b.pc = "done" /\ b.ans = Terminal(cache[d]) BY ONLY <3>1, <2>3 DEF CallState
    <3>6. QED BY <2>4, <3>3, <3>4, <3>5
  <2>5. CASE cache[d] = NoOutcome
    <3>1. b = [n EXCEPT !.pc = "lookup"] BY <2>5 DEF n
    <3>. HIDE DEF b
    <3>2. "lookup" \in Phases BY DEF Phases
    <3>3. QED BY ONLY <3>1, <3>2, <2>3, <2>5 DEF CallState
  <2>6. QED BY <2>4, <2>5
<1>. HIDE DEF b
<1>5. call' = [call EXCEPT ![c] = b] BY <1>1 DEF b
<1>6. QED BY <1>4, <1>5 DEF TypeOK

\* Every step keeps the types.
LEMMA TypeStep ==
  ASSUME TypeOK, CallShape, [Next]_vars
  PROVE  TypeOK'
<1>. USE CallAssumption, GroupAssumption, BoundAssumption, Answers
      DEF TypeOK, CallShape, Leading, TerminalAnswers, Leads, Group, shared, CallState, Phases,
          SomeAnswer
<1>1. ASSUME NEW c \in Calls, Begins(c) PROVE TypeOK'
  <2>1. call' \in [Calls -> CallState]
    <3>. HIDE DEF CallState, TypeOK
    <3>1. QED BY <1>1, BeginsWith
  <2>2. QED BY <1>1, <2>1 DEF Begins
<1>2. ASSUME NEW c \in Calls, LoadsTerminal(c) PROVE TypeOK'
  BY <1>2 DEF LoadsTerminal, Stage, GoTo
<1>3. ASSUME NEW c \in Calls, Claims(c) PROVE TypeOK'
  BY <1>3 DEF Claims
<1>4. ASSUME NEW c \in Calls, Follows(c) PROVE TypeOK'
  <2>1. Followed(pub[call[c].leads]) \in SomeAnswer
    BY <1>4, FollowedAnswer DEF Follows
  <2>2. QED BY <1>4, <2>1, ReturnTypes DEF Follows
<1>5. ASSUME NEW c \in Calls, StopsFollowing(c) PROVE TypeOK'
  BY <1>5, ReturnTypes DEF StopsFollowing
<1>6. ASSUME NEW c \in Calls, Rechecks(c) PROVE TypeOK'
  <2>1. CASE cache[call[c].driver] # NoOutcome
    <3>1. Terminal(cache[call[c].driver]) \in SomeAnswer
      BY <1>6, <2>1 DEF Rechecks
    <3>2. Return(c, Terminal(cache[call[c].driver])) /\ call[c].pc # "new"
      BY <1>6, <2>1 DEF Rechecks
    <3>3. QED BY <1>6, <3>1, <3>2, ReturnTypes DEF Rechecks
  <2>2. CASE cache[call[c].driver] = NoOutcome
    <3>1. Reserved(c) /\ UNCHANGED shared BY <1>6, <2>2 DEF Rechecks
    <3>2. call' \in [Calls -> CallState]
      <4>. HIDE DEF TypeOK, CallState, Phases, CallShape
      <4>1. QED BY <3>1, ReservedTypes
    <3>. HIDE DEF CallState
    <3>3. QED BY <3>1, <3>2 DEF Reserved, GoTo
  <2>3. QED BY <2>1, <2>2
<1>7. ASSUME NEW c \in Calls, Loads(c) PROVE TypeOK'
  BY <1>7 DEF Loads
<1>8. ASSUME NEW c \in Calls, Launches(c) PROVE TypeOK'
  BY <1>8 DEF Launches
<1>9. ASSUME NEW c \in Calls, Executes(c) PROVE TypeOK'
  <2>1. PICK k \in Kinds : Ends(c, k)
    BY <1>9 DEF Executes, Kinds
  <2>2. call' \in [Calls -> CallState]
    <3>. HIDE DEF CallState, TypeOK
    <3>1. QED BY <2>1, EndsTypes
  <2>3. QED BY <1>9, <2>1, <2>2 DEF Executes, Ends
<1>10. ASSUME NEW c \in Calls, ExecutorFails(c) PROVE TypeOK'
  BY <1>10 DEF ExecutorFails, Ends, GoTo
<1>11. ASSUME NEW c \in Calls, Retries(c) PROVE TypeOK'
  BY <1>11 DEF Retries
<1>12. ASSUME NEW c \in Calls, BacksOff(c) PROVE TypeOK'
  BY <1>12 DEF BacksOff, Ends, GoTo
<1>13. ASSUME NEW c \in Calls, ReportsError(c) PROVE TypeOK'
  <2>1. call' \in [Calls -> CallState] /\ pub' \in [Calls -> Answer \cup {NoAnswer}]
        /\ flight' \in [Groups -> Calls \cup {NoCall}] /\ tok' \subseteq Calls
    BY <1>13, ReturnTypes DEF ReportsError
  <2>2. QED BY <1>13, <2>1 DEF ReportsError, Delivers
<1>14. ASSUME NEW c \in Calls, SavesPause(c) PROVE TypeOK'
  BY <1>14 DEF SavesPause, Committing, Matches, Stage
<1>15. ASSUME NEW c \in Calls, RecordsTerminal(c) PROVE TypeOK'
  BY <1>15 DEF RecordsTerminal, Committing, Matches, Stage
<1>16. ASSUME NEW c \in Calls, LosesRace(c) PROVE TypeOK'
  BY <1>16 DEF LosesRace, Matches, GoTo
<1>17. ASSUME NEW c \in Calls, LoadsTerminalWinner(c) PROVE TypeOK'
  <2>1. CASE rec.terminal # NoOutcome
    BY <1>17, <2>1 DEF LoadsTerminalWinner, ReadsTerminal, Stage
  <2>2. CASE rec.terminal = NoOutcome
    BY <1>17, <2>2, ReturnTypes DEF LoadsTerminalWinner, ReadsTerminal
  <2>3. QED BY <2>1, <2>2
<1>18. ASSUME NEW c \in Calls, LoadsPauseWinner(c) PROVE TypeOK'
  BY <1>18 DEF LoadsPauseWinner, ReadsTerminal, Stage, GoTo
<1>19. ASSUME NEW c \in Calls, LoadsPause(c) PROVE TypeOK'
  BY <1>19 DEF LoadsPause, Stage, GoTo
<1>20. ASSUME NEW c \in Calls, CachesTerminal(c) PROVE TypeOK'
  BY <1>20 DEF CachesTerminal, GoTo, Return, Published
<1>21. ASSUME NEW c \in Calls, Records(c) PROVE TypeOK'
  <2>1. call' \in [Calls -> CallState] /\ pub' \in [Calls -> Answer \cup {NoAnswer}]
        /\ flight' \in [Groups -> Calls \cup {NoCall}] /\ tok' \subseteq Calls
    BY <1>21, ReturnTypes DEF Records
  <2>2. call[c].ans.disp = "TerminalInserted" => call[c].ans.out.kind \in Kinds
    BY DEF SomeAnswer, Outcome
  <2>3. QED BY <1>21, <2>1, <2>2 DEF Records, Delivers
<1>22. ASSUME NEW c \in Calls, Cancels(c) PROVE TypeOK'
  BY <1>22 DEF Cancels, Fault
<1>23. ASSUME NEW c \in Calls, Fails(c) PROVE TypeOK'
  BY <1>23, ReturnTypes DEF Fails, Fault
<1>24. CASE UNCHANGED vars
  BY <1>24 DEF vars
<1>25. QED BY <1>1, <1>2, <1>3, <1>4, <1>5, <1>6, <1>7, <1>8, <1>9, <1>10,
      <1>11, <1>12, <1>13, <1>14, <1>15, <1>16, <1>17, <1>18, <1>19, <1>20,
      <1>21, <1>22, <1>23, <1>24 DEF Next, Step

\* Every step keeps the shape of the calls.
LEMMA ShapeStep ==
  ASSUME TypeOK, CallShape, [Next]_vars
  PROVE  CallShape'
<1>. USE CallAssumption, GroupAssumption, BoundAssumption, Answers
      DEF TypeOK, CallShape, Leading, TerminalAnswers, Leads, Group, shared, CallState, Phases
<1>1. ASSUME NEW c \in Calls, Begins(c) PROVE CallShape'
  <2>1. PICK d \in Drivers, r \in {NoCall} \cup Shown :
          /\ call' \in [Calls -> CallState]
          /\ \A x \in Calls \ {c} : call'[x] = call[x]
          /\ call'[c].driver = d /\ call'[c].resume = r /\ call'[c].leads = NoCall
          /\ \/ cache[d] # NoOutcome /\ call'[c].pc = "done" /\ call'[c].ans = Terminal(cache[d])
             \/ cache[d] = NoOutcome /\ call'[c].pc = "lookup" /\ call'[c].ans = NoAnswer
    BY <1>1, BeginsWith
  <2>2. QED BY <1>1, <2>1 DEF Begins
<1>2. ASSUME NEW c \in Calls, LoadsTerminal(c) PROVE CallShape'
  BY <1>2 DEF LoadsTerminal, Stage, GoTo
<1>3. ASSUME NEW c \in Calls, Claims(c) PROVE CallShape'
  BY <1>3 DEF Claims
<1>4. ASSUME NEW c \in Calls, Follows(c) PROVE CallShape'
  <2>. DEFINE a == Followed(pub[call[c].leads])
  <2>1. /\ call[c].pc = "follow" /\ call[c].leads \in Calls \ {c} /\ Return(c, a)
        /\ pub[call[c].leads] # NoAnswer
    BY <1>4 DEF Follows
  <2>2. a \in SomeAnswer /\ a.disp # "TerminalInserted" BY <2>1, FollowedAnswer
  <2>. HIDE DEF a
  <2>3. pub' = pub BY <2>1 DEF Return, Published
  <2>. HIDE DEF TypeOK, CallState, Phases
  <2>4. QED BY <2>1, <2>2, <2>3, ReturnEffect
<1>5. ASSUME NEW c \in Calls, StopsFollowing(c) PROVE CallShape'
  BY <1>5 DEF StopsFollowing, Return, Published
<1>6. ASSUME NEW c \in Calls, Rechecks(c) PROVE CallShape'
  BY <1>6 DEF Rechecks, Reserved, GoTo, Return, Published
<1>7. ASSUME NEW c \in Calls, Loads(c) PROVE CallShape'
  <2>1. call[c].pc = "load" /\ pub' = pub BY <1>7 DEF Loads
  <2>2. "Cancelled" \in Kinds BY DEF Kinds
  <2>. HIDE DEF TypeOK, CallState, Phases
  <2>3. QED BY <1>7, <2>1, <2>2, LoadsEffect
<1>8. ASSUME NEW c \in Calls, Launches(c) PROVE CallShape'
  <2>1. call[c].pc = "planned" /\ pub' = pub BY <1>8 DEF Launches
  <2>2. "Cancelled" \in Kinds BY DEF Kinds
  <2>. HIDE DEF TypeOK, CallState, Phases
  <2>3. QED BY <1>8, <2>1, <2>2, LaunchesEffect
<1>9. ASSUME NEW c \in Calls, Executes(c) PROVE CallShape'
  BY <1>9 DEF Executes, Ends
<1>10. ASSUME NEW c \in Calls, ExecutorFails(c) PROVE CallShape'
  BY <1>10 DEF ExecutorFails, Ends, GoTo
<1>11. ASSUME NEW c \in Calls, Retries(c) PROVE CallShape'
  BY <1>11 DEF Retries
<1>12. ASSUME NEW c \in Calls, BacksOff(c) PROVE CallShape'
  BY <1>12 DEF BacksOff, Ends, GoTo
<1>13. ASSUME NEW c \in Calls, ReportsError(c) PROVE CallShape'
  BY <1>13 DEF ReportsError, Delivers, Return, Published
<1>14. ASSUME NEW c \in Calls, SavesPause(c) PROVE CallShape'
  BY <1>14 DEF SavesPause, Committing, Matches, Stage
<1>15. ASSUME NEW c \in Calls, RecordsTerminal(c) PROVE CallShape'
  BY <1>15 DEF RecordsTerminal, Committing, Matches, Stage
<1>16. ASSUME NEW c \in Calls, LosesRace(c) PROVE CallShape'
  BY <1>16 DEF LosesRace, Matches, GoTo
<1>17. ASSUME NEW c \in Calls, LoadsTerminalWinner(c) PROVE CallShape'
  <2>1. CASE rec.terminal # NoOutcome
    BY <1>17, <2>1 DEF LoadsTerminalWinner, ReadsTerminal, Stage
  <2>2. CASE rec.terminal = NoOutcome
    BY <1>17, <2>2 DEF LoadsTerminalWinner, ReadsTerminal, Return, Published
  <2>3. QED BY <2>1, <2>2
<1>18. ASSUME NEW c \in Calls, LoadsPauseWinner(c) PROVE CallShape'
  BY <1>18 DEF LoadsPauseWinner, ReadsTerminal, Stage, GoTo
<1>19. ASSUME NEW c \in Calls, LoadsPause(c) PROVE CallShape'
  BY <1>19 DEF LoadsPause, Stage, GoTo
<1>20. ASSUME NEW c \in Calls, CachesTerminal(c) PROVE CallShape'
  BY <1>20 DEF CachesTerminal, GoTo, Return, Published
<1>21. ASSUME NEW c \in Calls, Records(c) PROVE CallShape'
  BY <1>21 DEF Records, Delivers, Return, Published
<1>22. ASSUME NEW c \in Calls, Cancels(c) PROVE CallShape'
  BY <1>22 DEF Cancels, Fault
<1>23. ASSUME NEW c \in Calls, Fails(c) PROVE CallShape'
  BY <1>23 DEF Fails, Fault, Return, Published
<1>24. CASE UNCHANGED vars
  BY <1>24 DEF vars
<1>25. QED BY <1>1, <1>2, <1>3, <1>4, <1>5, <1>6, <1>7, <1>8, <1>9, <1>10,
      <1>11, <1>12, <1>13, <1>14, <1>15, <1>16, <1>17, <1>18, <1>19, <1>20,
      <1>21, <1>22, <1>23, <1>24 DEF Next, Step

\* TypeOK is an invariant: the phases, answers and records of SubagentDriver
\* stay in their types.
THEOREM TypeCorrect == Spec => [](TypeOK /\ CallShape)
<1>1. Init => TypeOK /\ CallShape
  BY CallAssumption, BoundAssumption, Answers
     DEF Init, TypeOK, CallShape, Leading, TerminalAnswers, Leads, NewCall, CallState, Phases,
         SomeAnswer
<1>2. TypeOK /\ CallShape /\ [Next]_vars => TypeOK' /\ CallShape'
  BY TypeStep, ShapeStep
<1>3. QED BY <1>1, <1>2, PTL DEF Spec

-----------------------------------------------------------------------------
(* Answers and the record.                                                 *)

\* What the answer a tells its caller is what the record holds.
Told(a) ==
    /\ a.disp \in TerminalAnswers => a.out = rec.terminal
    /\ a.disp \in PauseAnswers => a.out.by \in saved
    /\ a.disp # "Lost"

\* AnswersAgree for the answers that are staged or published too; a pause that
\* was saved stays until the terminal, so whoever loses a race finds a winner.
AgreeInv ==
    /\ \A d \in Drivers : cache[d] \in {NoOutcome, rec.terminal}
    /\ \A c \in Calls : Told(call[c].ans) /\ Told(pub[c])
    /\ \A c \in Calls : call[c].resume \in saved \cup {NoCall}
    /\ rec.pause \in saved \cup {NoCall}
    /\ saved # {} /\ rec.terminal = NoOutcome => rec.pause # NoCall
    /\ \A c \in Calls : call[c].pc = "terminal_winner" => rec.terminal # NoOutcome
    /\ \A c \in Calls : call[c].pc \in {"pause_winner", "pause"} =>
           rec.terminal # NoOutcome \/ rec.pause # NoCall

\* A move, a staged answer and a return that tell what the record says keep the
\* agreement.
LEMMA AgreeGoTo ==
  ASSUME TypeOK, AgreeInv, NEW c \in Calls, NEW p, GoTo(c, p), UNCHANGED shared,
         p = "terminal_winner" => rec.terminal # NoOutcome,
         p \in {"pause_winner", "pause"} => rec.terminal # NoOutcome \/ rec.pause # NoCall
  PROVE  AgreeInv'
BY DEF GoTo, shared, AgreeInv, Told, TypeOK, CallState

LEMMA AgreeStage ==
  ASSUME TypeOK, AgreeInv, NEW c \in Calls, NEW a, NEW p, Stage(c, a, p), UNCHANGED shared, Told(a),
         p \in {"cache", "record"}
  PROVE  AgreeInv'
BY DEF Stage, shared, AgreeInv, Told, TypeOK, CallState

LEMMA AgreeReturn ==
  ASSUME TypeOK, AgreeInv, NEW c \in Calls, NEW a, Return(c, a), Told(a),
         UNCHANGED <<rec, saved>>, \A d \in Drivers : cache'[d] \in {NoOutcome, rec.terminal}
  PROVE  AgreeInv'
BY DEF Return, Published, AgreeInv, Told, TypeOK, CallState

LEMMA AgreeReserved ==
  ASSUME TypeOK, AgreeInv, NEW c \in Calls, c \in tok, Reserved(c), UNCHANGED shared
  PROVE  AgreeInv'
<1>1. /\ call'[c].pc = "persist" /\ call'[c].resume = NoCall /\ call'[c].ans = call[c].ans
      /\ \A x \in Calls \ {c} : call'[x] = call[x]
  BY DEF Reserved, TypeOK, CallState
<1>2. pub' = pub BY DEF Reserved
<1>3. QED BY <1>1, <1>2 DEF shared, AgreeInv, Told

LEMMA AgreeEnds ==
  ASSUME TypeOK, AgreeInv, NEW c \in Calls, NEW k, Ends(c, k), UNCHANGED shared
  PROVE  AgreeInv'
BY DEF Ends, shared, AgreeInv, Told, TypeOK, CallState

\* Every step keeps the answers in agreement with the record.
LEMMA AgreeStep ==
  ASSUME TypeOK, CallShape, AgreeInv, [Next]_vars
  PROVE  AgreeInv'
<1>0. \A x \in Calls :
        /\ call[x].ans.disp \in TerminalAnswers => call[x].ans.out \in Outcome
        /\ pub[x].disp \in TerminalAnswers => pub[x].out \in Outcome
  BY DEF CallShape, SomeAnswer
<1>. USE CallAssumption, Answers, <1>0
      DEF TypeOK, CallState, CallShape, AgreeInv, Told, Leading, TerminalAnswers, PauseAnswers, Leads, shared
<1>1. ASSUME NEW c \in Calls, Begins(c) PROVE AgreeInv'
  <2>1. PICK d \in Drivers, r \in {NoCall} \cup Shown :
          /\ call' \in [Calls -> CallState]
          /\ \A x \in Calls \ {c} : call'[x] = call[x]
          /\ call'[c].driver = d /\ call'[c].resume = r /\ call'[c].leads = NoCall
          /\ \/ cache[d] # NoOutcome /\ call'[c].pc = "done" /\ call'[c].ans = Terminal(cache[d])
             \/ cache[d] = NoOutcome /\ call'[c].pc = "lookup" /\ call'[c].ans = NoAnswer
    BY <1>1, BeginsWith
  <2>2. r \in saved \cup {NoCall}
    BY DEF Shown
  <2>3. QED BY <1>1, <2>1, <2>2 DEF Begins
<1>2. ASSUME NEW c \in Calls, LoadsTerminal(c) PROVE AgreeInv'
  <2>1. CASE rec.terminal # NoOutcome
    <3>1. Told(Terminal(rec.terminal)) BY <2>1
    <3>2. QED BY <1>2, <2>1, <3>1, AgreeStage DEF LoadsTerminal
  <2>2. CASE rec.terminal = NoOutcome
    BY <1>2, <2>2, AgreeGoTo DEF LoadsTerminal
  <2>3. QED BY <2>1, <2>2
<1>3. ASSUME NEW c \in Calls, Claims(c) PROVE AgreeInv'
  BY <1>3 DEF Claims
<1>4. ASSUME NEW c \in Calls, Follows(c) PROVE AgreeInv'
  <2>. DEFINE l == call[c].leads
              a == Followed(pub[l])
  <2>1. /\ l \in Calls /\ pub[l] # NoAnswer /\ Return(c, a)
        /\ rec' = rec /\ saved' = saved /\ cache' = cache
    BY <1>4 DEF Follows
  <2>2. Told(pub[l]) /\ pub[l] \in SomeAnswer BY <2>1
  <2>3. Told(a) BY <2>1, <2>2, FollowedAnswer
  <2>. HIDE DEF a, TypeOK, CallState, CallShape, Told
  <2>4. QED BY <2>1, <2>3, AgreeReturn
<1>5. ASSUME NEW c \in Calls, StopsFollowing(c) PROVE AgreeInv'
  BY <1>5 DEF StopsFollowing, Return, Published
<1>6. ASSUME NEW c \in Calls, Rechecks(c) PROVE AgreeInv'
  <2>1. CASE cache[call[c].driver] # NoOutcome
    <3>1. Told(Terminal(cache[call[c].driver])) BY <1>6, <2>1 DEF Rechecks
    <3>2. QED BY <1>6, <2>1, <3>1, AgreeReturn DEF Rechecks
  <2>2. CASE cache[call[c].driver] = NoOutcome /\ c \in tok
    BY <1>6, <2>2, AgreeReserved DEF Rechecks
  <2>3. CASE cache[call[c].driver] = NoOutcome /\ c \notin tok
    BY <1>6, <2>3, AgreeGoTo DEF Rechecks, Reserved
  <2>4. QED BY <2>1, <2>2, <2>3
<1>7. ASSUME NEW c \in Calls, Loads(c) PROVE AgreeInv'
  <2>1. pub' = pub /\ rec' = rec /\ cache' = cache /\ saved' = saved BY <1>7 DEF Loads
  <2>. HIDE DEF TypeOK, CallState, CallShape
  <2>2. QED BY <1>7, <2>1, LoadsEffect
<1>8. ASSUME NEW c \in Calls, Launches(c) PROVE AgreeInv'
  <2>1. pub' = pub /\ rec' = rec /\ cache' = cache /\ saved' = saved BY <1>8 DEF Launches
  <2>. HIDE DEF TypeOK, CallState, CallShape
  <2>2. QED BY <1>8, <2>1, LaunchesEffect
<1>9. ASSUME NEW c \in Calls, Executes(c) PROVE AgreeInv'
  <2>1. PICK k : Ends(c, k) BY <1>9 DEF Executes
  <2>2. UNCHANGED shared BY <1>9 DEF Executes
  <2>. HIDE DEF TypeOK, CallState, CallShape, AgreeInv, shared
  <2>3. QED BY <2>1, <2>2, AgreeEnds
<1>10. ASSUME NEW c \in Calls, ExecutorFails(c) PROVE AgreeInv'
  BY <1>10, AgreeEnds, AgreeGoTo DEF ExecutorFails
<1>11. ASSUME NEW c \in Calls, Retries(c) PROVE AgreeInv'
  BY <1>11 DEF Retries
<1>12. ASSUME NEW c \in Calls, BacksOff(c) PROVE AgreeInv'
  BY <1>12, AgreeEnds, AgreeGoTo DEF BacksOff
<1>13. ASSUME NEW c \in Calls, ReportsError(c) PROVE AgreeInv'
  BY <1>13 DEF ReportsError, Delivers, Return, Published
<1>14. ASSUME NEW c \in Calls, SavesPause(c) PROVE AgreeInv'
  BY <1>14 DEF SavesPause, Committing, Matches, Stage
<1>15. ASSUME NEW c \in Calls, RecordsTerminal(c) PROVE AgreeInv'
  <2>. DEFINE out == [kind |-> Committing(c), by |-> c]
              a == [disp |-> "TerminalInserted", out |-> out]
  <2>1. /\ rec.terminal = NoOutcome /\ rec' = [pause |-> NoCall, terminal |-> out]
        /\ Stage(c, a, "cache") /\ pub' = pub /\ cache' = cache /\ saved' = saved
    BY <1>15 DEF RecordsTerminal, Stage
  <2>2. a.disp = "TerminalInserted" /\ a.out = out /\ rec'.terminal = out /\ rec'.pause = NoCall
    BY <2>1
  <2>3. out # NoOutcome BY DEF NoOutcome
  <2>4. \A x \in Calls : /\ call[x].ans.disp \notin TerminalAnswers
                         /\ pub[x].disp \notin TerminalAnswers
    <3>1. NoOutcome \notin Outcome BY DEF NoOutcome, Outcome
    <3>2. QED BY <2>1, <3>1
  <2>. HIDE DEF out, a, TypeOK, CallState, CallShape
  <2>5. \A x \in Calls : Told(call[x].ans)' /\ Told(pub[x])'
    BY <2>1, <2>2, <2>4, StageEffect
  <2>6. \A d \in Drivers : cache'[d] \in {NoOutcome, rec'.terminal} BY <2>1
  <2>7. QED BY <2>1, <2>2, <2>3, <2>5, <2>6, StageEffect
<1>16. ASSUME NEW c \in Calls, LosesRace(c) PROVE AgreeInv'
  <2>1. CASE rec.terminal # NoOutcome /\ GoTo(c, "terminal_winner")
    BY <1>16, <2>1, AgreeGoTo DEF LosesRace
  <2>2. CASE rec.terminal = NoOutcome /\ ~Matches(c) /\ GoTo(c, "pause_winner")
    <3>1. rec.pause # NoCall BY <2>2 DEF Matches
    <3>2. QED BY <1>16, <2>2, <3>1, AgreeGoTo DEF LosesRace
  <2>3. QED BY <1>16, <2>1, <2>2 DEF LosesRace
<1>17. ASSUME NEW c \in Calls, LoadsTerminalWinner(c) PROVE AgreeInv'
  BY <1>17 DEF LoadsTerminalWinner, ReadsTerminal, Stage, Return, Published
<1>18. ASSUME NEW c \in Calls, LoadsPauseWinner(c) PROVE AgreeInv'
  <2>1. CASE rec.terminal # NoOutcome
    <3>1. Told(Terminal(rec.terminal)) BY <2>1
    <3>2. QED BY <1>18, <2>1, <3>1, AgreeStage DEF LoadsPauseWinner, ReadsTerminal
  <2>2. CASE rec.terminal = NoOutcome
    BY <1>18, <2>2, AgreeGoTo DEF LoadsPauseWinner, ReadsTerminal
  <2>3. QED BY <2>1, <2>2
<1>19. ASSUME NEW c \in Calls, LoadsPause(c) PROVE AgreeInv'
  <2>1. CASE rec.terminal = NoOutcome /\ rec.pause # NoCall
    <3>. DEFINE a == [disp |-> "PauseExisting", out |-> [kind |-> "Paused", by |-> rec.pause]]
    <3>1. Told(a) BY <2>1
    <3>2. QED BY <1>19, <2>1, <3>1, AgreeStage DEF LoadsPause
  <2>2. CASE rec.terminal # NoOutcome \/ rec.pause = NoCall
    BY <1>19, <2>2, AgreeGoTo DEF LoadsPause
  <2>3. QED BY <2>1, <2>2
<1>20. ASSUME NEW c \in Calls, CachesTerminal(c) PROVE AgreeInv'
  <2>1. call[c].ans.out = rec.terminal /\ call[c].driver \in Drivers
    BY <1>20 DEF CachesTerminal
  <2>2. \A d \in Drivers : cache'[d] \in {NoOutcome, rec.terminal}
    BY <1>20, <2>1 DEF CachesTerminal
  <2>3. rec' = rec /\ saved' = saved BY <1>20 DEF CachesTerminal
  <2>. HIDE DEF CallShape
  <2>4. CASE Leads(c)
    <3>1. GoTo(c, "record") /\ pub' = pub BY <1>20, <2>4 DEF CachesTerminal, GoTo
    <3>. HIDE DEF TypeOK, CallState
    <3>2. QED BY <2>2, <2>3, <3>1, GoToEffect
  <2>5. CASE ~Leads(c)
    BY <1>20, <2>2, <2>3, <2>5, AgreeReturn DEF CachesTerminal
  <2>6. QED BY <2>4, <2>5
<1>21. ASSUME NEW c \in Calls, Records(c) PROVE AgreeInv'
  <2>1. Return(c, call[c].ans) /\ UNCHANGED <<rec, saved, cache>> BY <1>21 DEF Records
  <2>2. Told(call[c].ans) /\ \A d \in Drivers : cache'[d] \in {NoOutcome, rec.terminal} BY <2>1
  <2>. HIDE DEF TypeOK, CallState, CallShape, Told
  <2>3. QED BY <2>1, <2>2, AgreeReturn
<1>22. ASSUME NEW c \in Calls, Cancels(c) PROVE AgreeInv'
  BY <1>22 DEF Cancels, Fault
<1>23. ASSUME NEW c \in Calls, Fails(c) PROVE AgreeInv'
  BY <1>23 DEF Fails, Fault, Return, Published
<1>24. CASE UNCHANGED vars
  BY <1>24 DEF vars
<1>25. QED BY <1>1, <1>2, <1>3, <1>4, <1>5, <1>6, <1>7, <1>8, <1>9, <1>10,
      <1>11, <1>12, <1>13, <1>14, <1>15, <1>16, <1>17, <1>18, <1>19, <1>20,
      <1>21, <1>22, <1>23, <1>24 DEF Next, Step

\* The answers agree in every reachable state.
LEMMA AgreeHolds == Spec => []AgreeInv
<1>1. Init => AgreeInv
  BY CallAssumption
     DEF Init, AgreeInv, Told, NewCall, NoAnswer, NoOutcome, TerminalAnswers, PauseAnswers
<1>2. TypeOK /\ CallShape /\ AgreeInv /\ [Next]_vars => AgreeInv'
  BY AgreeStep
<1>3. QED BY <1>1, <1>2, TypeCorrect, PTL DEF Spec

\* AnswersAgree is an invariant: callers, followers and caches of every driver
\* are given the durable terminal, and a lost race always ends with a winner.
THEOREM AnswersAgreeHolds == Spec => []AnswersAgree
<1>1. AgreeInv => AnswersAgree
  BY DEF AgreeInv, AnswersAgree, Told, TerminalAnswers, PauseAnswers
<1>2. QED BY <1>1, AgreeHolds, PTL

\* The calls that reached the record are past it, and the record has moved on
\* from the pause each of them continued.
ChainInv ==
    /\ CommitsAreAChain
    /\ rec.terminal # NoOutcome => rec.terminal.by \in Calls
    /\ \A c \in Committed \ {Earlier} : call[c].pc \in {"cache", "record", "done"}
    /\ rec.terminal = NoOutcome => \A c \in Committed \ {Earlier} : call[c].resume # rec.pause

\* The record stays as it is; no call moves but c, and c neither forgets what it
\* continued nor goes back once it is past the record.
Quiet(c) ==
    /\ rec' = rec /\ saved' = saved
    /\ \A x \in Calls \ {c} : call'[x] = call[x]
    /\ call[c].pc \in {"cache", "record", "done"} =>
           call'[c].pc \in {"cache", "record", "done"} /\ call'[c].resume = call[c].resume

\* Every step but the first of a call and the two commits is quiet.
LEMMA QuietStep ==
  ASSUME TypeOK, NEW c \in Calls,
         LoadsTerminal(c) \/ Claims(c) \/ Follows(c) \/ StopsFollowing(c) \/
         Rechecks(c) \/ Loads(c) \/ Launches(c) \/ Executes(c) \/ ExecutorFails(c)
         \/ Retries(c) \/ BacksOff(c) \/ ReportsError(c) \/ LosesRace(c) \/
         LoadsTerminalWinner(c) \/ LoadsPauseWinner(c) \/ LoadsPause(c) \/
         CachesTerminal(c) \/ Records(c) \/ Cancels(c) \/ Fails(c)
  PROVE  Quiet(c)
<1>. USE DEF TypeOK, CallState, Quiet, shared
<1>1. ASSUME LoadsTerminal(c) PROVE Quiet(c)
  BY <1>1 DEF LoadsTerminal, Stage, GoTo
<1>2. ASSUME Claims(c) PROVE Quiet(c)
  BY <1>2 DEF Claims
<1>3. ASSUME Follows(c) PROVE Quiet(c)
  BY <1>3 DEF Follows, Return, Published
<1>4. ASSUME StopsFollowing(c) PROVE Quiet(c)
  BY <1>4 DEF StopsFollowing, Return, Published
<1>5. ASSUME Rechecks(c) PROVE Quiet(c)
  BY <1>5 DEF Rechecks, Reserved, GoTo, Return, Published
<1>6. ASSUME Loads(c) PROVE Quiet(c)
  BY <1>6 DEF Loads
<1>7. ASSUME Launches(c) PROVE Quiet(c)
  BY <1>7 DEF Launches
<1>8. ASSUME Executes(c) PROVE Quiet(c)
  BY <1>8 DEF Executes, Ends
<1>9. ASSUME ExecutorFails(c) PROVE Quiet(c)
  BY <1>9 DEF ExecutorFails, Ends, GoTo
<1>10. ASSUME Retries(c) PROVE Quiet(c)
  BY <1>10 DEF Retries
<1>11. ASSUME BacksOff(c) PROVE Quiet(c)
  BY <1>11 DEF BacksOff, Ends, GoTo
<1>12. ASSUME ReportsError(c) PROVE Quiet(c)
  BY <1>12 DEF ReportsError, Delivers, Return, Published
<1>13. ASSUME LosesRace(c) PROVE Quiet(c)
  BY <1>13 DEF LosesRace, Matches, GoTo
<1>14. ASSUME LoadsTerminalWinner(c) PROVE Quiet(c)
  BY <1>14 DEF LoadsTerminalWinner, ReadsTerminal, Stage, Return, Published
<1>15. ASSUME LoadsPauseWinner(c) PROVE Quiet(c)
  BY <1>15 DEF LoadsPauseWinner, ReadsTerminal, Stage, GoTo
<1>16. ASSUME LoadsPause(c) PROVE Quiet(c)
  BY <1>16 DEF LoadsPause, Stage, GoTo
<1>17. ASSUME CachesTerminal(c) PROVE Quiet(c)
  BY <1>17 DEF CachesTerminal, GoTo, Return, Published
<1>18. ASSUME Records(c) PROVE Quiet(c)
  BY <1>18 DEF Records, Delivers, Return, Published
<1>19. ASSUME Cancels(c) PROVE Quiet(c)
  BY <1>19 DEF Cancels, Fault
<1>20. ASSUME Fails(c) PROVE Quiet(c)
  BY <1>20 DEF Fails, Fault, Return, Published
<1>21. QED BY <1>1, <1>2, <1>3, <1>4, <1>5, <1>6, <1>7, <1>8, <1>9, <1>10, <1>11, <1>12,
      <1>13, <1>14, <1>15, <1>16, <1>17, <1>18, <1>19, <1>20

\* A quiet step keeps the chain of commits.
LEMMA QuietChain ==
  ASSUME TypeOK, ChainInv, NEW c \in Calls, Quiet(c)
  PROVE  ChainInv'
<1>1. Committed' = Committed /\ rec' = rec
  BY DEF Committed, Quiet
<1>2. ASSUME NEW x \in Committed \ {Earlier}
      PROVE  /\ x \in Calls /\ call'[x].pc \in {"cache", "record", "done"}
             /\ call'[x].resume = call[x].resume
  <2>1. x \in Calls
    BY DEF Committed, ChainInv, TypeOK, NoOutcome
  <2>2. QED BY <2>1 DEF ChainInv, Quiet
<1>3. QED BY <1>1, <1>2 DEF ChainInv, CommitsAreAChain

\* Every step keeps the chain of commits.
LEMMA ChainStep ==
  ASSUME TypeOK, AgreeInv, ChainInv, [Next]_vars
  PROVE  ChainInv'
<1>. USE CallAssumption, Answers
      DEF TypeOK, CallState, ChainInv, CommitsAreAChain, Committed, AgreeInv
<1>1. ASSUME NEW c \in Calls, Begins(c) PROVE ChainInv'
  <2>1. PICK d \in Drivers, r \in {NoCall} \cup Shown :
          /\ call' \in [Calls -> CallState]
          /\ \A x \in Calls \ {c} : call'[x] = call[x]
          /\ call'[c].driver = d /\ call'[c].resume = r /\ call'[c].leads = NoCall
          /\ \/ cache[d] # NoOutcome /\ call'[c].pc = "done" /\ call'[c].ans = Terminal(cache[d])
             \/ cache[d] = NoOutcome /\ call'[c].pc = "lookup" /\ call'[c].ans = NoAnswer
    BY <1>1, BeginsWith
  <2>2. QED BY <1>1, <2>1 DEF Begins, shared
<1>2. ASSUME NEW c \in Calls, SavesPause(c) PROVE ChainInv'
  BY <1>2 DEF SavesPause, Committing, Matches, Stage
<1>3. ASSUME NEW c \in Calls, RecordsTerminal(c) PROVE ChainInv'
  BY <1>3 DEF RecordsTerminal, Committing, Matches, Stage
<1>4. ASSUME NEW c \in Calls, Quiet(c) PROVE ChainInv'
  BY <1>4, QuietChain
<1>5. CASE UNCHANGED vars
  BY <1>5 DEF vars
<1>6. QED BY <1>1, <1>2, <1>3, <1>4, <1>5, QuietStep DEF Next, Step

\* What was told is not taken back: a recorded terminal is never replaced, a
\* cached one never dropped or exchanged, and no call that has returned is given
\* another answer.
Durable ==
    /\ rec.terminal # NoOutcome => rec' = rec
    /\ \A d \in Drivers : cache[d] # NoOutcome => cache'[d] = cache[d]
    /\ \A c \in Calls : call[c].pc = "done" => call'[c] = call[c]

\* No step takes back what was told.
LEMMA DurableStep ==
  ASSUME TypeOK, CallShape, AgreeInv, [Next]_vars
  PROVE  Durable
<1>. USE DEF TypeOK, Durable, shared
<1>1. ASSUME NEW c \in Calls, Begins(c) PROVE Durable
  <2>1. PICK d \in Drivers, r \in {NoCall} \cup Shown :
          /\ call' \in [Calls -> CallState]
          /\ \A x \in Calls \ {c} : call'[x] = call[x]
          /\ call'[c].driver = d /\ call'[c].resume = r /\ call'[c].leads = NoCall
          /\ \/ cache[d] # NoOutcome /\ call'[c].pc = "done" /\ call'[c].ans = Terminal(cache[d])
             \/ cache[d] = NoOutcome /\ call'[c].pc = "lookup" /\ call'[c].ans = NoAnswer
    BY <1>1, BeginsWith
  <2>2. QED BY <1>1, <2>1 DEF Begins
<1>2. ASSUME NEW c \in Calls, LoadsTerminal(c) PROVE Durable
  BY <1>2 DEF LoadsTerminal, Stage, GoTo
<1>3. ASSUME NEW c \in Calls, Claims(c) PROVE Durable
  BY <1>3 DEF Claims
<1>4. ASSUME NEW c \in Calls, Follows(c) PROVE Durable
  BY <1>4 DEF Follows, Return, Published
<1>5. ASSUME NEW c \in Calls, StopsFollowing(c) PROVE Durable
  BY <1>5 DEF StopsFollowing, Return, Published
<1>6. ASSUME NEW c \in Calls, Rechecks(c) PROVE Durable
  BY <1>6 DEF Rechecks, Reserved, GoTo, Return, Published
<1>7. ASSUME NEW c \in Calls, Loads(c) PROVE Durable
  BY <1>7 DEF Loads
<1>8. ASSUME NEW c \in Calls, Launches(c) PROVE Durable
  BY <1>8 DEF Launches
<1>9. ASSUME NEW c \in Calls, Executes(c) PROVE Durable
  BY <1>9 DEF Executes, Ends
<1>10. ASSUME NEW c \in Calls, ExecutorFails(c) PROVE Durable
  BY <1>10 DEF ExecutorFails, Ends, GoTo
<1>11. ASSUME NEW c \in Calls, Retries(c) PROVE Durable
  BY <1>11 DEF Retries
<1>12. ASSUME NEW c \in Calls, BacksOff(c) PROVE Durable
  BY <1>12 DEF BacksOff, Ends, GoTo
<1>13. ASSUME NEW c \in Calls, ReportsError(c) PROVE Durable
  BY <1>13 DEF ReportsError, Delivers, Return, Published
<1>14. ASSUME NEW c \in Calls, SavesPause(c) PROVE Durable
  BY <1>14 DEF SavesPause, Committing, Matches, Stage
<1>15. ASSUME NEW c \in Calls, RecordsTerminal(c) PROVE Durable
  BY <1>15 DEF RecordsTerminal, Committing, Matches, Stage
<1>16. ASSUME NEW c \in Calls, LosesRace(c) PROVE Durable
  BY <1>16 DEF LosesRace, Matches, GoTo
<1>17. ASSUME NEW c \in Calls, LoadsTerminalWinner(c) PROVE Durable
  BY <1>17 DEF LoadsTerminalWinner, ReadsTerminal, Stage, Return, Published
<1>18. ASSUME NEW c \in Calls, LoadsPauseWinner(c) PROVE Durable
  BY <1>18 DEF LoadsPauseWinner, ReadsTerminal, Stage, GoTo
<1>19. ASSUME NEW c \in Calls, LoadsPause(c) PROVE Durable
  BY <1>19 DEF LoadsPause, Stage, GoTo
<1>20. ASSUME NEW c \in Calls, CachesTerminal(c) PROVE Durable
  <2>1. call[c].ans.out = rec.terminal /\ call[c].driver \in Drivers
    BY <1>20 DEF CachesTerminal, CallShape, AgreeInv, Told
  <2>2. \A d \in Drivers : cache[d] # NoOutcome => cache'[d] = cache[d]
    BY <1>20, <2>1 DEF CachesTerminal, AgreeInv
  <2>3. QED BY <1>20, <2>2 DEF CachesTerminal, GoTo, Return
<1>21. ASSUME NEW c \in Calls, Records(c) PROVE Durable
  BY <1>21 DEF Records, Delivers, Return, Published
<1>22. ASSUME NEW c \in Calls, Cancels(c) PROVE Durable
  BY <1>22 DEF Cancels, Fault
<1>23. ASSUME NEW c \in Calls, Fails(c) PROVE Durable
  BY <1>23 DEF Fails, Fault, Return, Published
<1>24. CASE UNCHANGED vars
  BY <1>24 DEF vars
<1>25. QED BY <1>1, <1>2, <1>3, <1>4, <1>5, <1>6, <1>7, <1>8, <1>9, <1>10,
      <1>11, <1>12, <1>13, <1>14, <1>15, <1>16, <1>17, <1>18, <1>19, <1>20,
      <1>21, <1>22, <1>23, <1>24 DEF Next, Step

\* Every step of the driver keeps what was told: the record is write-once, the
\* caches only fill, and a returned call is over.
THEOREM DurableHolds == Spec => [][Durable]_vars
<1>1. TypeOK /\ CallShape /\ AgreeInv /\ [Next]_vars => [Durable]_vars
  BY DurableStep
<1>2. QED BY <1>1, TypeCorrect, AgreeHolds, PTL DEF Spec

-----------------------------------------------------------------------------
(* Finished tasks and the router.                                          *)

\* A leader is the one its in-flight map names.
LeaderInv ==
    \A c \in Calls : Leads(c) /\ call[c].pc # "done" => flight[Group(c)] = c

\* Every step keeps the in-flight maps true.
LEMMA LeaderStep ==
  ASSUME TypeOK, CallShape, LeaderInv, [Next]_vars
  PROVE  LeaderInv'
<1>. USE CallAssumption, GroupAssumption
      DEF TypeOK, CallState, CallShape, Leading, LeaderInv, Leads, Group, shared
<1>1. ASSUME NEW c \in Calls, Begins(c) PROVE LeaderInv'
  <2>1. PICK d \in Drivers, r \in {NoCall} \cup Shown :
          /\ call' \in [Calls -> CallState]
          /\ \A x \in Calls \ {c} : call'[x] = call[x]
          /\ call'[c].driver = d /\ call'[c].resume = r /\ call'[c].leads = NoCall
          /\ \/ cache[d] # NoOutcome /\ call'[c].pc = "done" /\ call'[c].ans = Terminal(cache[d])
             \/ cache[d] = NoOutcome /\ call'[c].pc = "lookup" /\ call'[c].ans = NoAnswer
    BY <1>1, BeginsWith
  <2>2. QED BY <1>1, <2>1 DEF Begins
<1>2. ASSUME NEW c \in Calls, LoadsTerminal(c) PROVE LeaderInv'
  BY <1>2 DEF LoadsTerminal, Stage, GoTo
<1>3. ASSUME NEW c \in Calls, Claims(c) PROVE LeaderInv'
  BY <1>3 DEF Claims
<1>4. ASSUME NEW c \in Calls, Follows(c) PROVE LeaderInv'
  BY <1>4 DEF Follows, Return, Published
<1>5. ASSUME NEW c \in Calls, StopsFollowing(c) PROVE LeaderInv'
  BY <1>5 DEF StopsFollowing, Return, Published
<1>6. ASSUME NEW c \in Calls, Rechecks(c) PROVE LeaderInv'
  BY <1>6 DEF Rechecks, Reserved, GoTo, Return, Published
<1>7. ASSUME NEW c \in Calls, Loads(c) PROVE LeaderInv'
  BY <1>7 DEF Loads
<1>8. ASSUME NEW c \in Calls, Launches(c) PROVE LeaderInv'
  BY <1>8 DEF Launches
<1>9. ASSUME NEW c \in Calls, Executes(c) PROVE LeaderInv'
  BY <1>9 DEF Executes, Ends
<1>10. ASSUME NEW c \in Calls, ExecutorFails(c) PROVE LeaderInv'
  BY <1>10 DEF ExecutorFails, Ends, GoTo
<1>11. ASSUME NEW c \in Calls, Retries(c) PROVE LeaderInv'
  BY <1>11 DEF Retries
<1>12. ASSUME NEW c \in Calls, BacksOff(c) PROVE LeaderInv'
  BY <1>12 DEF BacksOff, Ends, GoTo
<1>13. ASSUME NEW c \in Calls, ReportsError(c) PROVE LeaderInv'
  BY <1>13 DEF ReportsError, Delivers, Return, Published
<1>14. ASSUME NEW c \in Calls, SavesPause(c) PROVE LeaderInv'
  BY <1>14 DEF SavesPause, Committing, Matches, Stage
<1>15. ASSUME NEW c \in Calls, RecordsTerminal(c) PROVE LeaderInv'
  BY <1>15 DEF RecordsTerminal, Committing, Matches, Stage
<1>16. ASSUME NEW c \in Calls, LosesRace(c) PROVE LeaderInv'
  BY <1>16 DEF LosesRace, Matches, GoTo
<1>17. ASSUME NEW c \in Calls, LoadsTerminalWinner(c) PROVE LeaderInv'
  BY <1>17 DEF LoadsTerminalWinner, ReadsTerminal, Stage, Return, Published
<1>18. ASSUME NEW c \in Calls, LoadsPauseWinner(c) PROVE LeaderInv'
  BY <1>18 DEF LoadsPauseWinner, ReadsTerminal, Stage, GoTo
<1>19. ASSUME NEW c \in Calls, LoadsPause(c) PROVE LeaderInv'
  BY <1>19 DEF LoadsPause, Stage, GoTo
<1>20. ASSUME NEW c \in Calls, CachesTerminal(c) PROVE LeaderInv'
  BY <1>20 DEF CachesTerminal, GoTo, Return, Published
<1>21. ASSUME NEW c \in Calls, Records(c) PROVE LeaderInv'
  BY <1>21 DEF Records, Delivers, Return, Published
<1>22. ASSUME NEW c \in Calls, Cancels(c) PROVE LeaderInv'
  BY <1>22 DEF Cancels, Fault
<1>23. ASSUME NEW c \in Calls, Fails(c) PROVE LeaderInv'
  BY <1>23 DEF Fails, Fault, Return, Published
<1>24. CASE UNCHANGED vars
  BY <1>24 DEF vars
<1>25. QED BY <1>1, <1>2, <1>3, <1>4, <1>5, <1>6, <1>7, <1>8, <1>9, <1>10,
      <1>11, <1>12, <1>13, <1>14, <1>15, <1>16, <1>17, <1>18, <1>19, <1>20,
      <1>21, <1>22, <1>23, <1>24 DEF Next, Step

\* Call c, not past the record, moves on to a step where it is not about to
\* launch a child, or returns without having recorded the terminal; nothing else
\* happens.
MovesOn(c) ==
    /\ UNCHANGED shared
    /\ \A x \in Calls \ {c} : call'[x] = call[x]
    /\ call'[c].driver = call[c].driver
    /\ call[c].pc \notin {"new", "cache", "record", "done"}
    /\ call'[c].pc \notin {"new", "load", "planned"}
    /\ call'[c].pc = "done" => call'[c].ans.disp # "TerminalInserted"

\* The steps that only move on.
LEMMA MovesOnStep ==
  ASSUME TypeOK, CallShape, NEW c \in Calls,
         LoadsTerminal(c) \/ Follows(c) \/ StopsFollowing(c) \/
         LoadsTerminalWinner(c) \/ Claims(c) \/ Executes(c) \/ ExecutorFails(c) \/
         Retries(c) \/ BacksOff(c) \/ LosesRace(c) \/ LoadsPauseWinner(c) \/
         LoadsPause(c)
  PROVE  MovesOn(c)
<1>. USE Answers DEF TypeOK, CallState, CallShape, MovesOn, TerminalAnswers
<1>1. ASSUME LoadsTerminal(c) PROVE MovesOn(c)
  BY <1>1 DEF LoadsTerminal, Stage, GoTo
<1>2. ASSUME Follows(c) PROVE MovesOn(c)
  BY <1>2, FollowedAnswer, ReturnEffect DEF Follows
<1>3. ASSUME StopsFollowing(c) PROVE MovesOn(c)
  BY <1>3, ReturnEffect DEF StopsFollowing
<1>4. ASSUME LoadsTerminalWinner(c) PROVE MovesOn(c)
  BY <1>4, ReturnEffect DEF LoadsTerminalWinner, ReadsTerminal, Stage, Return, Published
<1>5. ASSUME Claims(c) PROVE MovesOn(c)
  BY <1>5 DEF Claims
<1>6. ASSUME Executes(c) PROVE MovesOn(c)
  <2>1. PICK k \in Kinds : Ends(c, k)
    BY <1>6 DEF Executes, Kinds
  <2>2. QED BY <1>6, <2>1, EndsEffect DEF Executes
<1>7. ASSUME ExecutorFails(c) PROVE MovesOn(c)
  BY <1>7 DEF ExecutorFails, Ends, GoTo
<1>8. ASSUME Retries(c) PROVE MovesOn(c)
  BY <1>8 DEF Retries
<1>9. ASSUME BacksOff(c) PROVE MovesOn(c)
  BY <1>9 DEF BacksOff, Ends, GoTo
<1>10. ASSUME LosesRace(c) PROVE MovesOn(c)
  BY <1>10 DEF LosesRace, Matches, GoTo
<1>11. ASSUME LoadsPauseWinner(c) PROVE MovesOn(c)
  BY <1>11 DEF LoadsPauseWinner, ReadsTerminal, Stage, GoTo
<1>12. ASSUME LoadsPause(c) PROVE MovesOn(c)
  BY <1>12 DEF LoadsPause, Stage, GoTo
<1>13. QED BY <1>1, <1>2, <1>3, <1>4, <1>5, <1>6, <1>7, <1>8, <1>9, <1>10, <1>11, <1>12

\* The call that recorded the terminal holds its in-flight entry until the
\* cache of its driver is filled, or it failed on its way back.
WinnerInv(w) ==
    /\ Leads(w) /\ call[w].pc \in {"cache", "record", "done"}
    /\ \/ call[w].pc = "done" /\ call[w].ans.disp = "Err"
       \/ /\ call[w].ans.disp = "TerminalInserted"
          /\ call[w].pc # "cache" => cache[call[w].driver] # NoOutcome
          /\ \A c \in Calls : call[c].pc \in {"load", "planned"} =>
                 call[c].driver # call[w].driver

ReopenInv ==
    /\ FinishedIsNotReopened
    /\ rec.terminal # NoOutcome => WinnerInv(rec.terminal.by)
    /\ \A c \in late : rec.terminal # NoOutcome /\ call[c].pc # "new"

\* Moving on keeps a finished task closed.
LEMMA MovesOnReopen ==
  ASSUME TypeOK, ChainInv, ReopenInv, NEW c \in Calls, MovesOn(c)
  PROVE  ReopenInv'
<1>1. rec' = rec /\ cache' = cache /\ late' = late BY DEF MovesOn, shared
<1>2. CASE rec.terminal = NoOutcome
  BY <1>1, <1>2 DEF ReopenInv, FinishedIsNotReopened
<1>3. CASE rec.terminal # NoOutcome
  <2>. DEFINE w == rec.terminal.by
  <2>1. w \in Calls /\ w # c /\ call'[w] = call[w]
    BY <1>3 DEF ChainInv, ReopenInv, WinnerInv, MovesOn
  <2>2. WinnerInv(w)'
    BY <1>1, <1>3, <2>1 DEF ReopenInv, WinnerInv, MovesOn, Leads
  <2>3. QED BY <1>1, <2>1, <2>2 DEF ReopenInv, FinishedIsNotReopened, MovesOn, TypeOK
<1>4. QED BY <1>2, <1>3

\* So does a step of a call that is not past the record, when a call that comes
\* to the launch there is of another driver than the one that finished the task.
Apart(c) ==
    \A w \in Calls : WinnerInv(w) =>
        \/ call[w].pc = "done" /\ call[w].ans.disp = "Err"
        \/ call'[c].driver # call[w].driver

LEMMA ReopenKept ==
  ASSUME TypeOK, ChainInv, ReopenInv, NEW c \in Calls, rec' = rec, cache' = cache,
         \A x \in Calls \ {c} : call'[x] = call[x],
         call[c].pc \notin {"cache", "record", "done"}, call'[c].pc # "new",
         c \in late => call'[c].driver = call[c].driver,
         late' \subseteq late \cup {c}, rec.terminal = NoOutcome => late' = late,
         call'[c].pc \in {"load", "planned"} \/ c \in late' \ late => Apart(c)
  PROVE  ReopenInv'
<1>1. CASE rec.terminal = NoOutcome
  <2>1. late = {} BY <1>1 DEF ReopenInv
  <2>2. QED BY <1>1, <2>1 DEF ReopenInv, FinishedIsNotReopened
<1>2. CASE rec.terminal # NoOutcome
  <2>1. PICK w \in Calls : w = rec.terminal.by BY <1>2 DEF ChainInv
  <2>2. WinnerInv(w) BY <1>2, <2>1 DEF ReopenInv
  <2>3. w # c /\ call'[w] = call[w] BY <2>2 DEF WinnerInv
  <2>4. WinnerInv(w)'
    BY <2>2, <2>3 DEF WinnerInv, Leads, Apart
  <2>5. late \subseteq Calls BY DEF TypeOK
  <2>6. ASSUME NEW x \in late' PROVE call'[x].pc # "new"
                                   /\ (call'[x].driver # call'[w].driver \/ call'[w].ans.disp = "Err")
    <3>1. CASE x \in late BY <2>1, <2>3, <2>5, <3>1 DEF ReopenInv, FinishedIsNotReopened
    <3>2. CASE x \notin late BY <2>2, <2>3, <3>2 DEF Apart
    <3>3. QED BY <3>1, <3>2
  <2>7. rec'.terminal.by = w BY <2>1
  <2>8. QED BY <1>2, <2>4, <2>6, <2>7 DEF ReopenInv, FinishedIsNotReopened
<1>3. QED BY <1>1, <1>2

\* Every step keeps a finished task closed for its driver.
LEMMA ReopenStep ==
  ASSUME TypeOK, CallShape, AgreeInv, ChainInv, LeaderInv, ReopenInv, [Next]_vars
  PROVE  ReopenInv'
<1>. USE CallAssumption, GroupAssumption, Answers
      DEF TypeOK, CallState, CallShape, AgreeInv, Told, ChainInv, LeaderInv, ReopenInv, FinishedIsNotReopened, WinnerInv,
          Leading, TerminalAnswers, Leads, Group, shared
<1>1. ASSUME NEW c \in Calls, Begins(c) PROVE ReopenInv'
  <2>1. PICK d \in Drivers, r \in {NoCall} \cup Shown :
          /\ call' \in [Calls -> CallState]
          /\ \A x \in Calls \ {c} : call'[x] = call[x]
          /\ call'[c].driver = d /\ call'[c].resume = r /\ call'[c].leads = NoCall
          /\ \/ cache[d] # NoOutcome /\ call'[c].pc = "done" /\ call'[c].ans = Terminal(cache[d])
             \/ cache[d] = NoOutcome /\ call'[c].pc = "lookup" /\ call'[c].ans = NoAnswer
    BY <1>1, BeginsWith
  <2>2. call[c].pc = "new" /\ rec' = rec /\ cache' = cache /\ late' = late BY <1>1 DEF Begins
  <2>3. c \notin late BY <2>2
  <2>4. call'[c].pc \in {"done", "lookup"} BY <2>1
  <2>. HIDE DEF TypeOK, CallState, CallShape, AgreeInv, LeaderInv, ChainInv, ReopenInv, WinnerInv
  <2>5. QED BY <2>1, <2>2, <2>3, <2>4, ReopenKept
<1>2. ASSUME NEW c \in Calls, LoadsTerminal(c) PROVE ReopenInv'
  BY <1>2, MovesOnStep, MovesOnReopen
<1>3. ASSUME NEW c \in Calls, Claims(c) PROVE ReopenInv'
  BY <1>3, MovesOnStep, MovesOnReopen
<1>4. ASSUME NEW c \in Calls, Follows(c) PROVE ReopenInv'
  BY <1>4, MovesOnStep, MovesOnReopen
<1>5. ASSUME NEW c \in Calls, StopsFollowing(c) PROVE ReopenInv'
  BY <1>5, MovesOnStep, MovesOnReopen
<1>6. ASSUME NEW c \in Calls, Rechecks(c) PROVE ReopenInv'
  <2>1. CASE cache[call[c].driver] # NoOutcome
    <3>1. MovesOn(c) BY <1>6, <2>1, ReturnEffect DEF Rechecks, MovesOn
    <3>2. QED BY <3>1, MovesOnReopen
  <2>2. CASE cache[call[c].driver] = NoOutcome /\ c \in tok
    <3>1. MovesOn(c) BY <1>6, <2>2 DEF Rechecks, Reserved, MovesOn
    <3>2. QED BY <3>1, MovesOnReopen
  <2>3. CASE cache[call[c].driver] = NoOutcome /\ c \notin tok
    <3>1. GoTo(c, "load") /\ UNCHANGED shared /\ call[c].pc = "recheck"
      BY <1>6, <2>3 DEF Rechecks, Reserved
    <3>2. call'[c].driver = call[c].driver BY <3>1, GoToEffect
    <3>3. Apart(c)
      <4>1. ASSUME NEW w \in Calls, WinnerInv(w)
            PROVE  \/ call[w].pc = "done" /\ call[w].ans.disp = "Err"
                   \/ call[c].driver # call[w].driver
        <5>1. CASE call[w].pc = "cache"
          <6>1. Leads(c) /\ Leads(w) BY <3>1, <4>1
          <6>2. flight[Group(c)] = c /\ flight[Group(w)] = w BY <3>1, <5>1, <6>1
          <6>3. w # c BY <3>1, <5>1
          <6>. HIDE DEF TypeOK, CallState, CallShape, AgreeInv, LeaderInv, ChainInv
          <6>4. QED BY <6>2, <6>3
        <5>2. CASE call[w].pc # "cache" BY <2>3, <4>1, <5>2
        <5>3. QED BY <5>1, <5>2
      <4>2. QED BY <3>2, <4>1 DEF Apart
    <3>4. rec' = rec /\ cache' = cache /\ late' = late BY <3>1
    <3>. HIDE DEF TypeOK, CallState, CallShape, AgreeInv, LeaderInv, ChainInv, ReopenInv, WinnerInv
    <3>5. QED BY <3>1, <3>2, <3>3, <3>4, GoToEffect, ReopenKept
  <2>4. QED BY <2>1, <2>2, <2>3
<1>7. ASSUME NEW c \in Calls, Loads(c) PROVE ReopenInv'
  <2>1. call[c].pc = "load" /\ rec' = rec /\ cache' = cache /\ late' = late BY <1>7 DEF Loads
  <2>2. call'[c].driver = call[c].driver /\ call'[c].pc # "new" BY <1>7, LoadsEffect
  <2>3. Apart(c) BY <2>1, <2>2 DEF Apart
  <2>. HIDE DEF TypeOK, CallState, CallShape, AgreeInv, LeaderInv, ChainInv, ReopenInv, WinnerInv
  <2>4. QED BY <1>7, <2>1, <2>2, <2>3, LoadsEffect, ReopenKept
<1>8. ASSUME NEW c \in Calls, Launches(c) PROVE ReopenInv'
  <2>1. /\ call[c].pc = "planned" /\ rec' = rec /\ cache' = cache
        /\ late' \subseteq late \cup {c} /\ (rec.terminal = NoOutcome => late' = late)
    BY <1>8 DEF Launches
  <2>2. call'[c].driver = call[c].driver /\ call'[c].pc # "new" BY <1>8, LaunchesEffect
  <2>3. Apart(c) BY <2>1, <2>2 DEF Apart
  <2>. HIDE DEF TypeOK, CallState, CallShape, AgreeInv, LeaderInv, ChainInv, ReopenInv, WinnerInv
  <2>4. QED BY <1>8, <2>1, <2>2, <2>3, LaunchesEffect, ReopenKept
<1>9. ASSUME NEW c \in Calls, Executes(c) PROVE ReopenInv'
  BY <1>9, MovesOnStep, MovesOnReopen
<1>10. ASSUME NEW c \in Calls, ExecutorFails(c) PROVE ReopenInv'
  BY <1>10, MovesOnStep, MovesOnReopen
<1>11. ASSUME NEW c \in Calls, Retries(c) PROVE ReopenInv'
  BY <1>11, MovesOnStep, MovesOnReopen
<1>12. ASSUME NEW c \in Calls, BacksOff(c) PROVE ReopenInv'
  BY <1>12, MovesOnStep, MovesOnReopen
<1>13. ASSUME NEW c \in Calls, ReportsError(c) PROVE ReopenInv'
  <2>1. /\ call[c].pc = "error" /\ Return(c, Failure("Err"))
        /\ rec' = rec /\ cache' = cache /\ late' = late
    BY <1>13 DEF ReportsError
  <2>. HIDE DEF TypeOK, CallState, CallShape, AgreeInv, LeaderInv, ChainInv, ReopenInv, WinnerInv
  <2>2. QED BY <2>1, ReturnEffect, ReopenKept
<1>14. ASSUME NEW c \in Calls, SavesPause(c) PROVE ReopenInv'
  BY <1>14 DEF SavesPause, Committing, Matches, Stage
<1>15. ASSUME NEW c \in Calls, RecordsTerminal(c) PROVE ReopenInv'
  <2>. DEFINE out == [kind |-> Committing(c), by |-> c]
              a == [disp |-> "TerminalInserted", out |-> out]
  <2>1. /\ call[c].pc = "persist" /\ rec.terminal = NoOutcome /\ late' = late
        /\ rec' = [pause |-> NoCall, terminal |-> out] /\ Stage(c, a, "cache")
    BY <1>15 DEF RecordsTerminal
  <2>2. late' = {} BY <2>1
  <2>3. rec'.terminal.by = c /\ a.disp = "TerminalInserted" BY <2>1
  <2>4. Leads(c) /\ flight[Group(c)] = c BY <2>1
  <2>5. ASSUME NEW x \in Calls, call[x].pc \in {"load", "planned"} PROVE call[x].driver # call[c].driver
    <3>1. Leads(x) /\ flight[Group(x)] = x /\ x # c BY <2>1, <2>5
    <3>. HIDE DEF TypeOK, CallState, CallShape, AgreeInv, LeaderInv, ChainInv, ReopenInv
    <3>2. QED BY <2>4, <3>1
  <2>. HIDE DEF out, a, TypeOK, CallState, CallShape, AgreeInv, LeaderInv, ChainInv
  <2>6. WinnerInv(c)' BY <2>1, <2>3, <2>4, <2>5, StageEffect
  <2>. HIDE DEF WinnerInv
  <2>7. QED BY <2>2, <2>3, <2>6
<1>16. ASSUME NEW c \in Calls, LosesRace(c) PROVE ReopenInv'
  BY <1>16, MovesOnStep, MovesOnReopen
<1>17. ASSUME NEW c \in Calls, LoadsTerminalWinner(c) PROVE ReopenInv'
  BY <1>17, MovesOnStep, MovesOnReopen
<1>18. ASSUME NEW c \in Calls, LoadsPauseWinner(c) PROVE ReopenInv'
  BY <1>18, MovesOnStep, MovesOnReopen
<1>19. ASSUME NEW c \in Calls, LoadsPause(c) PROVE ReopenInv'
  BY <1>19, MovesOnStep, MovesOnReopen
<1>20. ASSUME NEW c \in Calls, CachesTerminal(c) PROVE ReopenInv'
  <2>0. PICK w : w = rec.terminal.by OBVIOUS
  <2>1. /\ call[c].ans.out = rec.terminal /\ rec.terminal # NoOutcome /\ call[c].driver \in Drivers
        /\ call[c].pc = "cache" /\ WinnerInv(w) /\ w \in Calls /\ call[w].driver \in Drivers
    BY <1>20, <2>0 DEF CachesTerminal, SomeAnswer
  <2>2. /\ rec' = rec /\ late' = late /\ cache'[call[c].driver] # NoOutcome
        /\ cache[call[w].driver] # NoOutcome => cache'[call[w].driver] # NoOutcome
    <3>1. /\ cache' = [cache EXCEPT ![call[c].driver] = rec.terminal]
          /\ rec' = rec /\ late' = late
      BY <1>20, <2>1 DEF CachesTerminal
    <3>2. cache \in [Drivers -> Outcome \cup {NoOutcome}] BY DEF TypeOK
    <3>3. QED BY ONLY <2>1, <3>1, <3>2
  <2>3. /\ call'[c].driver = call[c].driver /\ call'[c].leads = call[c].leads
        /\ call'[c].ans = call[c].ans /\ \A x \in Calls \ {c} : call'[x] = call[x]
        /\ call'[c].pc = IF Leads(c) THEN "record" ELSE "done"
    BY <1>20, GoToEffect, ReturnEffect DEF CachesTerminal
  <2>. HIDE DEF TypeOK, CallState, CallShape, AgreeInv, LeaderInv, ChainInv
  <2>4. WinnerInv(w)'
    <3>1. CASE w = c BY ONLY <2>1, <2>2, <2>3, <3>1 DEF WinnerInv, Leads
    <3>2. CASE w # c BY ONLY <2>1, <2>2, <2>3, <3>2, w \in Calls DEF WinnerInv, Leads
    <3>3. QED BY <3>1, <3>2
  <2>5. late \subseteq Calls BY DEF TypeOK
  <2>6. \A x \in Calls : /\ call'[x].driver = call[x].driver /\ call'[x].ans = call[x].ans
                         /\ call[x].pc # "new" => call'[x].pc # "new"
    BY <2>3
  <2>. HIDE DEF WinnerInv
  <2>7. QED BY <2>0, <2>1, <2>2, <2>4, <2>5, <2>6
<1>21. ASSUME NEW c \in Calls, Records(c) PROVE ReopenInv'
  <2>1. /\ call[c].pc = "record" /\ Return(c, call[c].ans)
        /\ rec' = rec /\ cache' = cache /\ late' = late
    BY <1>21 DEF Records
  <2>2. \A x \in Calls : /\ call'[x].driver = call[x].driver /\ call'[x].ans = call[x].ans
                         /\ call'[x].leads = call[x].leads
                         /\ call'[x].pc = IF x = c THEN "done" ELSE call[x].pc
    BY <2>1, ReturnEffect
  <2>3. ASSUME NEW w \in Calls, WinnerInv(w) PROVE WinnerInv(w)'
    BY ONLY <2>1, <2>2, <2>3, w \in Calls DEF WinnerInv, Leads
  <2>. HIDE DEF WinnerInv, CallState, CallShape, AgreeInv, LeaderInv
  <2>4. QED BY <2>1, <2>2, <2>3
<1>22. ASSUME NEW c \in Calls, Cancels(c) PROVE ReopenInv'
  <2>1. call' = call /\ rec' = rec /\ cache' = cache /\ late' = late BY <1>22 DEF Cancels, Fault
  <2>. HIDE DEF TypeOK, CallState, CallShape, AgreeInv, LeaderInv, ChainInv
  <2>2. QED BY <2>1
<1>23. ASSUME NEW c \in Calls, Fails(c) PROVE ReopenInv'
  <2>1. /\ call[c].pc # "new" /\ Return(c, Failure("Err")) /\ Failure("Err").disp = "Err"
        /\ rec' = rec /\ cache' = cache /\ late' = late
    BY <1>23 DEF Fails, Fault
  <2>2. \A x \in Calls : /\ call'[x].driver = call[x].driver
                         /\ call[x].ans.disp = "Err" => call'[x].ans.disp = "Err"
                         /\ call[x].pc # "new" => call'[x].pc # "new"
    BY <2>1, ReturnEffect
  <2>3. rec.terminal # NoOutcome => WinnerInv(rec.terminal.by)'
    <3>. SUFFICES ASSUME rec.terminal # NoOutcome PROVE WinnerInv(rec.terminal.by)' OBVIOUS
    <3>1. PICK w \in Calls : w = rec.terminal.by /\ WinnerInv(w) OBVIOUS
    <3>. HIDE DEF TypeOK, CallState, CallShape, AgreeInv, LeaderInv, ChainInv
    <3>2. WinnerInv(w)'
      <4>1. CASE w = c BY <2>1, <3>1, <4>1, ReturnEffect
      <4>2. CASE w # c
        <5>1. /\ call'[w] = call[w] /\ call'[c].pc = "done"
              /\ \A x \in Calls \ {c} : call'[x] = call[x]
          BY <2>1, <4>2, ReturnEffect
        <5>2. QED BY ONLY <2>1, <3>1, <5>1 DEF WinnerInv, Leads
      <4>3. QED BY <4>1, <4>2
    <3>. HIDE DEF WinnerInv
    <3>3. QED BY <2>1, <3>1, <3>2
  <2>. HIDE DEF WinnerInv, CallState, CallShape, AgreeInv, LeaderInv
  <2>4. QED BY <2>1, <2>2, <2>3
<1>24. CASE UNCHANGED vars
  <2>1. call' = call /\ rec' = rec /\ cache' = cache /\ late' = late BY <1>24 DEF vars
  <2>. HIDE DEF TypeOK, CallState, CallShape, AgreeInv, LeaderInv, ChainInv
  <2>2. QED BY <2>1
<1>25. QED BY <1>1, <1>2, <1>3, <1>4, <1>5, <1>6, <1>7, <1>8, <1>9, <1>10,
      <1>11, <1>12, <1>13, <1>14, <1>15, <1>16, <1>17, <1>18, <1>19, <1>20,
      <1>21, <1>22, <1>23, <1>24 DEF Next, Step

\* What the router holds is the terminal or the failure of a call that has
\* returned.
ReportInv ==
    /\ ReportIsExplained
    /\ completion.kind = "Failed" => call[completion.by].pc = "done"

\* Moving on keeps the router's record explained.
LEMMA MovesOnReport ==
  ASSUME TypeOK, ReportInv, NEW c \in Calls, MovesOn(c)
  PROVE  ReportInv'
BY CallAssumption DEF TypeOK, ReportInv, ReportIsExplained, MovesOn, shared, NoOutcome

\* Every step keeps the router's record explained.
LEMMA ReportStep ==
  ASSUME TypeOK, CallShape, AgreeInv, ReportInv, [Next]_vars
  PROVE  ReportInv'
<1>. USE CallAssumption, Answers
      DEF TypeOK, CallState, CallShape, AgreeInv, Told, ReportInv, ReportIsExplained, Leading, TerminalAnswers,
          NoOutcome, Leads, shared
<1>1. ASSUME NEW c \in Calls, Begins(c) PROVE ReportInv'
  <2>1. PICK d \in Drivers, r \in {NoCall} \cup Shown :
          /\ call' \in [Calls -> CallState]
          /\ \A x \in Calls \ {c} : call'[x] = call[x]
          /\ call'[c].driver = d /\ call'[c].resume = r /\ call'[c].leads = NoCall
          /\ \/ cache[d] # NoOutcome /\ call'[c].pc = "done" /\ call'[c].ans = Terminal(cache[d])
             \/ cache[d] = NoOutcome /\ call'[c].pc = "lookup" /\ call'[c].ans = NoAnswer
    BY <1>1, BeginsWith
  <2>2. QED BY <1>1, <2>1 DEF Begins
<1>2. ASSUME NEW c \in Calls, LoadsTerminal(c) PROVE ReportInv'
  BY <1>2, MovesOnStep, MovesOnReport
<1>3. ASSUME NEW c \in Calls, Claims(c) PROVE ReportInv'
  BY <1>3, MovesOnStep, MovesOnReport
<1>4. ASSUME NEW c \in Calls, Follows(c) PROVE ReportInv'
  BY <1>4, MovesOnStep, MovesOnReport
<1>5. ASSUME NEW c \in Calls, StopsFollowing(c) PROVE ReportInv'
  BY <1>5, MovesOnStep, MovesOnReport
<1>6. ASSUME NEW c \in Calls, Rechecks(c) PROVE ReportInv'
  <2>1. CASE cache[call[c].driver] # NoOutcome
    <3>1. MovesOn(c) BY <1>6, <2>1, ReturnEffect DEF Rechecks, MovesOn
    <3>2. QED BY <3>1, MovesOnReport
  <2>2. CASE cache[call[c].driver] = NoOutcome
    <3>1. call'[c].pc # "done" /\ \A x \in Calls \ {c} : call'[x] = call[x]
      BY <1>6, <2>2 DEF Rechecks, Reserved, GoTo
    <3>2. UNCHANGED shared /\ call[c].pc # "done" BY <1>6 DEF Rechecks
    <3>. HIDE DEF CallState, CallShape, AgreeInv
    <3>3. QED BY <3>1, <3>2
  <2>3. QED BY <2>1, <2>2
<1>7. ASSUME NEW c \in Calls, Loads(c) PROVE ReportInv'
  <2>1. call[c].pc = "load" /\ UNCHANGED shared BY <1>7 DEF Loads
  <2>. HIDE DEF CallState, CallShape, AgreeInv
  <2>2. QED BY <1>7, <2>1, LoadsEffect
<1>8. ASSUME NEW c \in Calls, Launches(c) PROVE ReportInv'
  <2>1. call[c].pc = "planned" /\ UNCHANGED <<rec, cache, completion, saved, dropped>>
    BY <1>8 DEF Launches
  <2>. HIDE DEF CallState, CallShape, AgreeInv
  <2>2. QED BY <1>8, <2>1, LaunchesEffect
<1>9. ASSUME NEW c \in Calls, Executes(c) PROVE ReportInv'
  BY <1>9, MovesOnStep, MovesOnReport
<1>10. ASSUME NEW c \in Calls, ExecutorFails(c) PROVE ReportInv'
  BY <1>10, MovesOnStep, MovesOnReport
<1>11. ASSUME NEW c \in Calls, Retries(c) PROVE ReportInv'
  BY <1>11, MovesOnStep, MovesOnReport
<1>12. ASSUME NEW c \in Calls, BacksOff(c) PROVE ReportInv'
  BY <1>12, MovesOnStep, MovesOnReport
<1>13. ASSUME NEW c \in Calls, ReportsError(c) PROVE ReportInv'
  BY <1>13 DEF ReportsError, Delivers, Return, Published
<1>14. ASSUME NEW c \in Calls, SavesPause(c) PROVE ReportInv'
  BY <1>14 DEF SavesPause, Committing, Matches, Stage
<1>15. ASSUME NEW c \in Calls, RecordsTerminal(c) PROVE ReportInv'
  BY <1>15 DEF RecordsTerminal, Committing, Matches, Stage
<1>16. ASSUME NEW c \in Calls, LosesRace(c) PROVE ReportInv'
  BY <1>16, MovesOnStep, MovesOnReport
<1>17. ASSUME NEW c \in Calls, LoadsTerminalWinner(c) PROVE ReportInv'
  BY <1>17, MovesOnStep, MovesOnReport
<1>18. ASSUME NEW c \in Calls, LoadsPauseWinner(c) PROVE ReportInv'
  BY <1>18, MovesOnStep, MovesOnReport
<1>19. ASSUME NEW c \in Calls, LoadsPause(c) PROVE ReportInv'
  BY <1>19, MovesOnStep, MovesOnReport
<1>20. ASSUME NEW c \in Calls, CachesTerminal(c) PROVE ReportInv'
  <2>1. /\ call[c].pc = "cache" /\ rec' = rec /\ completion' = completion /\ dropped' = dropped
        /\ ~Leads(c) => call[c].ans.disp = "TerminalExisting"
    BY <1>20 DEF CachesTerminal
  <2>2. /\ call'[c].ans = call[c].ans /\ \A x \in Calls \ {c} : call'[x] = call[x]
        /\ call'[c].pc = IF Leads(c) THEN "record" ELSE "done"
    BY <1>20, GoToEffect, ReturnEffect DEF CachesTerminal
  <2>. HIDE DEF CallState, CallShape, AgreeInv
  <2>3. QED BY <2>1, <2>2
<1>21. ASSUME NEW c \in Calls, Records(c) PROVE ReportInv'
  <2>1. call[c].ans.disp = "TerminalInserted" =>
          [kind |-> call[c].ans.out.kind, by |-> c] = rec.terminal
    BY DEF SomeAnswer, Outcome
  <2>2. CASE call[c].origin /\ call[c].ans.disp = "TerminalInserted"
    BY <1>21, <2>1, <2>2 DEF Records, Delivers, Return
  <2>3. CASE ~(call[c].origin /\ call[c].ans.disp = "TerminalInserted")
    BY <1>21, <2>3 DEF Records, Return
  <2>4. QED BY <2>2, <2>3
<1>22. ASSUME NEW c \in Calls, Cancels(c) PROVE ReportInv'
  BY <1>22 DEF Cancels, Fault
<1>23. ASSUME NEW c \in Calls, Fails(c) PROVE ReportInv'
  BY <1>23 DEF Fails, Fault, Return, Published
<1>24. CASE UNCHANGED vars
  BY <1>24 DEF vars
<1>25. QED BY <1>1, <1>2, <1>3, <1>4, <1>5, <1>6, <1>7, <1>8, <1>9, <1>10,
      <1>11, <1>12, <1>13, <1>14, <1>15, <1>16, <1>17, <1>18, <1>19, <1>20,
      <1>21, <1>22, <1>23, <1>24 DEF Next, Step

\* A durable pause of this process is that of a call which made it so, and a
\* failure that could still shadow it is one of another in-flight map.
PauseInv ==
    /\ FailureShadowsNoPause
    /\ rec.pause \in Calls => rec.pause \in saved

\* Call c stays with its driver, and has found no pause only if there is none or
\* it had found none before.
Steady(c) ==
    /\ call'[c].driver = call[c].driver
    /\ Unpaused(c)' => Unpaused(c) \/ rec.pause = NoCall

\* Every step but the first of a call and the two commits is steady.
LEMMA SteadyStep ==
  ASSUME TypeOK, NEW c \in Calls,
         LoadsTerminal(c) \/ Claims(c) \/ Follows(c) \/ StopsFollowing(c) \/
         Rechecks(c) \/ Loads(c) \/ Launches(c) \/ Executes(c) \/ ExecutorFails(c)
         \/ Retries(c) \/ BacksOff(c) \/ ReportsError(c) \/ LosesRace(c) \/
         LoadsTerminalWinner(c) \/ LoadsPauseWinner(c) \/ LoadsPause(c) \/
         CachesTerminal(c) \/ Records(c) \/ Cancels(c) \/ Fails(c)
  PROVE  Steady(c)
<1>. USE DEF TypeOK, CallState, Steady, Unpaused
<1>1. ASSUME LoadsTerminal(c) PROVE Steady(c)
  BY <1>1 DEF LoadsTerminal, Stage, GoTo
<1>2. ASSUME Claims(c) PROVE Steady(c)
  BY <1>2 DEF Claims
<1>3. ASSUME Follows(c) PROVE Steady(c)
  BY <1>3, ReturnEffect DEF Follows
<1>4. ASSUME StopsFollowing(c) PROVE Steady(c)
  BY <1>4, ReturnEffect DEF StopsFollowing
<1>5. ASSUME Rechecks(c) PROVE Steady(c)
  BY <1>5, ReturnEffect DEF Rechecks, Reserved, GoTo
<1>6. ASSUME Loads(c) PROVE Steady(c)
  BY <1>6 DEF Loads
<1>7. ASSUME Launches(c) PROVE Steady(c)
  <2>1. call[c].pc = "planned" BY <1>7 DEF Launches
  <2>2. QED BY <1>7, <2>1, LaunchesEffect
<1>8. ASSUME Executes(c) PROVE Steady(c)
  <2>1. PICK k \in Kinds : Ends(c, k)
    BY <1>8 DEF Executes, Kinds
  <2>2. QED BY <2>1, EndsEffect
<1>9. ASSUME ExecutorFails(c) PROVE Steady(c)
  BY <1>9 DEF ExecutorFails, Ends, GoTo
<1>10. ASSUME Retries(c) PROVE Steady(c)
  BY <1>10 DEF Retries
<1>11. ASSUME BacksOff(c) PROVE Steady(c)
  BY <1>11 DEF BacksOff, Ends, GoTo
<1>12. ASSUME ReportsError(c) PROVE Steady(c)
  BY <1>12, ReturnEffect DEF ReportsError
<1>13. ASSUME LosesRace(c) PROVE Steady(c)
  BY <1>13 DEF LosesRace, GoTo
<1>14. ASSUME LoadsTerminalWinner(c) PROVE Steady(c)
  BY <1>14, ReturnEffect DEF LoadsTerminalWinner, ReadsTerminal, Stage
<1>15. ASSUME LoadsPauseWinner(c) PROVE Steady(c)
  BY <1>15 DEF LoadsPauseWinner, ReadsTerminal, Stage, GoTo
<1>16. ASSUME LoadsPause(c) PROVE Steady(c)
  BY <1>16 DEF LoadsPause, Stage, GoTo
<1>17. ASSUME CachesTerminal(c) PROVE Steady(c)
  BY <1>17, ReturnEffect DEF CachesTerminal, GoTo
<1>18. ASSUME Records(c) PROVE Steady(c)
  BY <1>18, ReturnEffect DEF Records
<1>19. ASSUME Cancels(c) PROVE Steady(c)
  BY <1>19 DEF Cancels
<1>20. ASSUME Fails(c) PROVE Steady(c)
  BY <1>20, ReturnEffect DEF Fails
<1>21. QED BY <1>1, <1>2, <1>3, <1>4, <1>5, <1>6, <1>7, <1>8, <1>9, <1>10, <1>11, <1>12,
      <1>13, <1>14, <1>15, <1>16, <1>17, <1>18, <1>19, <1>20

\* Every step keeps a call's own map from pausing behind its failure: the call
\* leads there until it returns, so no other call of that map saves a pause.
LEMMA PauseStep ==
  ASSUME TypeOK, CallShape, ChainInv, LeaderInv, PauseInv, [Next]_vars
  PROVE  PauseInv'
<1>. USE CallAssumption DEF PauseInv, FailureShadowsNoPause
<1>1. ASSUME NEW c \in Calls, Begins(c) PROVE PauseInv'
  <2>1. /\ rec' = rec /\ saved' = saved /\ call[c].pc = "new"
        /\ \A x \in Calls \ {c} : call'[x] = call[x]
        /\ call'[c].pc \in {"lookup", "done"}
    BY <1>1, BeginsWith DEF Begins, shared
  <2>2. rec.pause # c
    BY <2>1 DEF ChainInv, Committed
  <2>3. QED BY <2>1, <2>2 DEF Unpaused, Group
<1>2. ASSUME NEW c \in Calls, SavesPause(c) PROVE PauseInv'
  <2>1. /\ rec'.pause = c /\ saved' = saved \cup {c} /\ call[c].pc = "persist"
    BY <1>2 DEF SavesPause, TypeOK
  <2>2. /\ call'[c].pc = "record" /\ call'[c].driver = call[c].driver
        /\ \A x \in Calls \ {c} : call'[x] = call[x]
    BY <1>2, StageEffect DEF SavesPause
  <2>3. ASSUME NEW x \in Calls, Unpaused(x)' PROVE Group(c)' # Group(x)'
    <3>1. x # c /\ Unpaused(x) /\ Group(x)' = Group(x) /\ Group(c)' = Group(c)
      BY <2>2, <2>3 DEF Unpaused, Group
    <3>2. Leads(x) /\ call[x].pc # "done" /\ Leads(c) /\ call[c].pc # "done"
      BY <2>1, <3>1 DEF CallShape, Leading, Unpaused
    <3>3. QED BY <3>1, <3>2 DEF LeaderInv
  <2>4. QED BY <2>1, <2>3
<1>3. ASSUME NEW c \in Calls, RecordsTerminal(c) PROVE PauseInv'
  <2>1. rec'.pause = NoCall BY <1>3 DEF RecordsTerminal
  <2>2. QED BY <2>1
<1>4. ASSUME NEW c \in Calls, Quiet(c), Steady(c) PROVE PauseInv'
  <2>1. rec' = rec /\ saved' = saved BY <1>4 DEF Quiet
  <2>2. ASSUME NEW x \in Calls
        PROVE  Group(x)' = Group(x) /\ (Unpaused(x)' => Unpaused(x) \/ rec.pause = NoCall)
    BY <1>4 DEF Quiet, Steady, Group, Unpaused
  <2>3. QED BY <2>1, <2>2
<1>5. CASE UNCHANGED vars
  BY <1>5 DEF vars, Group, Unpaused
<1>6. QED BY <1>1, <1>2, <1>3, <1>4, <1>5, QuietStep, SteadyStep DEF Next, Step

\* The invariants of the chain, of the leaders and of the winner hold together.
LEMMA SafetyHolds == Spec => [](ChainInv /\ LeaderInv /\ ReopenInv /\ ReportInv /\ PauseInv)
<1>1. Init => ChainInv /\ LeaderInv /\ ReopenInv /\ ReportInv /\ PauseInv
  BY CallAssumption
     DEF Init, ChainInv, CommitsAreAChain, Committed, LeaderInv, Leads, ReopenInv,
         FinishedIsNotReopened, ReportInv, ReportIsExplained, PauseInv, FailureShadowsNoPause,
         Unpaused, NewCall, NoAnswer, NoOutcome
<1>2. TypeOK /\ AgreeInv /\ ChainInv /\ [Next]_vars => ChainInv'
  BY ChainStep
<1>3. TypeOK /\ CallShape /\ LeaderInv /\ [Next]_vars => LeaderInv'
  BY LeaderStep
<1>4. TypeOK /\ CallShape /\ AgreeInv /\ ChainInv /\ LeaderInv /\ ReopenInv /\ [Next]_vars => ReopenInv'
  BY ReopenStep
<1>5. TypeOK /\ CallShape /\ AgreeInv /\ ReportInv /\ [Next]_vars => ReportInv'
  BY ReportStep
<1>6. TypeOK /\ CallShape /\ ChainInv /\ LeaderInv /\ PauseInv /\ [Next]_vars => PauseInv'
  BY PauseStep
<1>7. QED BY <1>1, <1>2, <1>3, <1>4, <1>5, <1>6, TypeCorrect, AgreeHolds, PTL DEF Spec

\* CommitsAreAChain is an invariant: the compare-and-swap of the record lets no
\* two calls, of whatever drivers, continue from the same pause, or from none.
THEOREM CommitsAreAChainHolds == Spec => []CommitsAreAChain
<1>1. ChainInv => CommitsAreAChain
  BY DEF ChainInv
<1>2. QED BY <1>1, SafetyHolds, PTL

\* FinishedIsNotReopened is an invariant: the second look at the cache, under the
\* in-flight entry, keeps a driver from launching a child for a task it finished.
THEOREM FinishedIsNotReopenedHolds == Spec => []FinishedIsNotReopened
<1>1. ReopenInv => FinishedIsNotReopened
  BY DEF ReopenInv
<1>2. QED BY <1>1, SafetyHolds, PTL

\* CompletionIsTheTerminal is an invariant: the router holds the durable terminal
\* or the failure of a call that continued no pause, holds one once the winner has
\* returned, and a failure that could still be reported meets no durable pause but
\* one of another in-flight map.
THEOREM CompletionIsTheTerminalHolds == Spec => []CompletionIsTheTerminal
<1>1. ReportInv /\ PauseInv => CompletionIsTheTerminal
  BY DEF ReportInv, PauseInv, CompletionIsTheTerminal
<1>2. QED BY <1>1, SafetyHolds, PTL

-----------------------------------------------------------------------------
(* The drivers implement ResumableTask.                                    *)

\* The steps of a call that has opened the task and has no answer yet.
Running == {"claim", "follow", "recheck", "load", "planned", "run", "backoff", "error",
            "persist", "terminal_winner", "pause_winner", "pause"}

\* No call moves but c, and the record stays.
Alone(c) ==
    /\ rec' = rec /\ saved' = saved
    /\ \A x \in Calls \ {c} : call'[x] = call[x]

\* The call moves on, without an answer.
Moves(c) ==
    /\ pub' = pub
    /\ call[c].pc \in Running /\ call'[c].pc \in Running /\ call'[c].ans = call[c].ans
    /\ call'[c].resume \in {call[c].resume, rec.pause, NoCall}

\* The lookup found no terminal.
Opens(c) ==
    /\ pub' = pub
    /\ call[c].pc = "lookup" /\ rec.terminal = NoOutcome
    /\ call'[c].pc = "claim" /\ call'[c].ans = call[c].ans /\ call'[c].resume = call[c].resume

\* The answer was read from the record.
Reads(c) ==
    /\ pub' = pub
    /\ call'[c].leads = call[c].leads /\ call'[c].resume = call[c].resume
    /\ \/ /\ call[c].pc \in {"lookup", "terminal_winner", "pause_winner"} /\ call'[c].pc = "cache"
          /\ rec.terminal # NoOutcome /\ call'[c].ans = Terminal(rec.terminal)
       \/ /\ call[c].pc = "pause" /\ call'[c].pc = "record" /\ rec.pause # NoCall
          /\ call'[c].ans = [disp |-> "PauseExisting",
                             out |-> [kind |-> "Paused", by |-> rec.pause]]
       \/ /\ call[c].pc = "cache" /\ call'[c].pc = "record" /\ call[c].leads = c
          /\ call'[c].ans = call[c].ans

\* The call returns a.
Replies(c, a) ==
    /\ call[c].pc \notin {"new", "done"}
    /\ Return(c, a)
    /\ \/ a = Failure("Err")
       \/ a \in {Failure("Lost"), Failure("ObserverCancelled")} /\ call[c].pc \in Running
       \/ a = call[c].ans /\ call[c].pc \in {"cache", "record"}
       \/ /\ call[c].pc = "follow" /\ pub[call[c].leads] # NoAnswer
          /\ a = Followed(pub[call[c].leads])
       \/ /\ call[c].pc = "recheck" /\ cache[call[c].driver] # NoOutcome
          /\ a = Terminal(cache[call[c].driver])

\* Every step but the first of a call and the two commits has one of these forms.
LEMMA StepForm ==
  ASSUME TypeOK, CallShape, NEW c \in Calls,
         LoadsTerminal(c) \/ Claims(c) \/ Follows(c) \/ StopsFollowing(c) \/
         Rechecks(c) \/ Loads(c) \/ Launches(c) \/ Executes(c) \/ ExecutorFails(c)
         \/ Retries(c) \/ BacksOff(c) \/ ReportsError(c) \/ LosesRace(c) \/
         LoadsTerminalWinner(c) \/ LoadsPauseWinner(c) \/ LoadsPause(c) \/
         CachesTerminal(c) \/ Records(c) \/ Cancels(c) \/ Fails(c)
  PROVE  /\ Alone(c)
         /\ \/ Moves(c) \/ Opens(c) \/ Reads(c) \/ \E a : Replies(c, a)
            \/ call' = call /\ pub' = pub
<1>. DEFINE Form == Moves(c) \/ Opens(c) \/ Reads(c) \/ (\E a : Replies(c, a))
                      \/ (call' = call /\ pub' = pub)
<1>0. Alone(c)
  BY QuietStep DEF Alone, Quiet
<1>g. ASSUME NEW p, GoTo(c, p) PROVE pub' = pub
  BY <1>g DEF GoTo
<1>s. ASSUME NEW a, NEW p, Stage(c, a, p) PROVE pub' = pub
  BY <1>s DEF Stage
<1>r. ASSUME NEW k, Ends(c, k)
      PROVE  pub' = pub /\ call'[c].ans = call[c].ans /\ call'[c].resume = call[c].resume
  BY <1>r DEF Ends, TypeOK, CallState
<1>1. ASSUME LoadsTerminal(c) PROVE Form
  <2>1. CASE rec.terminal # NoOutcome
    <3>1. call[c].pc = "lookup" /\ Stage(c, Terminal(rec.terminal), "cache")
      BY <1>1, <2>1 DEF LoadsTerminal
    <3>2. QED BY <2>1, <3>1, <1>s, StageEffect DEF Reads
  <2>2. CASE rec.terminal = NoOutcome
    <3>1. call[c].pc = "lookup" /\ GoTo(c, "claim")
      BY <1>1, <2>2 DEF LoadsTerminal
    <3>2. QED BY <2>2, <3>1, <1>g, GoToEffect DEF Opens
  <2>3. QED BY <2>1, <2>2
<1>2. ASSUME Claims(c) PROVE Form
  <2>1. call[c].pc = "claim" /\ pub' = pub BY <1>2 DEF Claims
  <2>2. /\ call'[c].pc \in {"recheck", "follow"} /\ call'[c].ans = call[c].ans
        /\ call'[c].resume = call[c].resume
    BY <1>2 DEF Claims, TypeOK, CallState
  <2>3. QED BY <2>1, <2>2 DEF Moves, Running
<1>3. ASSUME Follows(c) PROVE Form
  BY <1>3 DEF Follows, Replies
<1>4. ASSUME StopsFollowing(c) PROVE Form
  BY <1>4 DEF StopsFollowing, Replies, Running
<1>5. ASSUME Rechecks(c) PROVE Form
  <2>1. call[c].pc = "recheck" BY <1>5 DEF Rechecks
  <2>2. CASE cache[call[c].driver] # NoOutcome
    BY <1>5, <2>1, <2>2 DEF Rechecks, Replies
  <2>3. CASE cache[call[c].driver] = NoOutcome
    <3>1. Reserved(c) BY <1>5, <2>3 DEF Rechecks
    <3>2. pub' = pub BY <3>1 DEF Reserved, GoTo
    <3>3. /\ call'[c].pc \in {"persist", "load"} /\ call'[c].ans = call[c].ans
          /\ call'[c].resume \in {call[c].resume, NoCall}
      BY <3>1 DEF Reserved, GoTo, TypeOK, CallState
    <3>4. QED BY <2>1, <3>2, <3>3 DEF Moves, Running
  <2>4. QED BY <2>2, <2>3
<1>6. ASSUME Loads(c) PROVE Form
  <2>1. call[c].pc = "load" /\ pub' = pub BY <1>6 DEF Loads
  <2>2. QED BY <1>6, <2>1, LoadsEffect DEF Moves, Running
<1>7. ASSUME Launches(c) PROVE Form
  <2>1. call[c].pc = "planned" /\ pub' = pub BY <1>7 DEF Launches
  <2>2. QED BY <1>7, <2>1, LaunchesEffect DEF Moves, Running
<1>8. ASSUME Executes(c) PROVE Form
  <2>1. PICK k : call[c].pc = "run" /\ Ends(c, k) BY <1>8 DEF Executes
  <2>2. QED BY <2>1, <1>r, EndsEffect DEF Moves, Running
<1>9. ASSUME ExecutorFails(c) \/ BacksOff(c) PROVE Form
  <2>1. /\ call[c].pc \in {"run", "backoff"}
        /\ \/ Ends(c, "Cancelled")
           \/ \E p \in {"error", "run"} : GoTo(c, p)
    BY <1>9 DEF ExecutorFails, BacksOff
  <2>2. CASE Ends(c, "Cancelled")
    BY <2>1, <2>2, <1>r, EndsEffect DEF Moves, Running
  <2>3. ASSUME NEW p \in {"error", "run"}, GoTo(c, p) PROVE Form
    BY <2>1, <2>3, <1>g, GoToEffect DEF Moves, Running
  <2>4. QED BY <2>1, <2>2, <2>3
<1>10. ASSUME Retries(c) PROVE Form
  <2>1. call[c].pc = "run" /\ pub' = pub BY <1>10 DEF Retries
  <2>2. /\ call'[c].pc = "backoff" /\ call'[c].ans = call[c].ans
        /\ call'[c].resume = call[c].resume
    BY <1>10 DEF Retries, TypeOK, CallState
  <2>3. QED BY <2>1, <2>2 DEF Moves, Running
<1>11. ASSUME ReportsError(c) PROVE Form
  BY <1>11 DEF ReportsError, Replies
<1>12. ASSUME LosesRace(c) PROVE Form
  <2>1. PICK p \in {"terminal_winner", "pause_winner"} : call[c].pc = "persist" /\ GoTo(c, p)
    BY <1>12 DEF LosesRace
  <2>2. QED BY <2>1, <1>g, GoToEffect DEF Moves, Running
<1>13. ASSUME LoadsTerminalWinner(c) \/ LoadsPauseWinner(c) PROVE Form
  <2>1. CASE rec.terminal # NoOutcome
    <3>1. /\ call[c].pc \in {"terminal_winner", "pause_winner"}
          /\ Stage(c, Terminal(rec.terminal), "cache")
      BY <1>13, <2>1 DEF LoadsTerminalWinner, LoadsPauseWinner, ReadsTerminal
    <3>2. QED BY <2>1, <3>1, <1>s, StageEffect DEF Reads
  <2>2. CASE rec.terminal = NoOutcome
    <3>1. \/ call[c].pc = "terminal_winner" /\ Return(c, Failure("Lost"))
          \/ call[c].pc = "pause_winner" /\ GoTo(c, "pause")
      BY <1>13, <2>2 DEF LoadsTerminalWinner, LoadsPauseWinner, ReadsTerminal
    <3>2. QED BY <3>1, <1>g, GoToEffect DEF Moves, Replies, Running
  <2>3. QED BY <2>1, <2>2
<1>14. ASSUME LoadsPause(c) PROVE Form
  <2>1. CASE rec.terminal = NoOutcome /\ rec.pause # NoCall
    <3>1. /\ call[c].pc = "pause"
          /\ Stage(c, [disp |-> "PauseExisting", out |-> [kind |-> "Paused", by |-> rec.pause]],
                   "record")
      BY <1>14, <2>1 DEF LoadsPause
    <3>2. QED BY <2>1, <3>1, <1>s, StageEffect DEF Reads
  <2>2. CASE ~(rec.terminal = NoOutcome /\ rec.pause # NoCall)
    <3>1. call[c].pc = "pause" /\ GoTo(c, "terminal_winner")
      BY <1>14, <2>2 DEF LoadsPause
    <3>2. QED BY <3>1, <1>g, GoToEffect DEF Moves, Running
  <2>3. QED BY <2>1, <2>2
<1>15. ASSUME CachesTerminal(c) PROVE Form
  <2>1. /\ call[c].pc = "cache"
        /\ \/ call[c].leads = c /\ GoTo(c, "record")
           \/ Return(c, call[c].ans)
    BY <1>15 DEF CachesTerminal, Leads
  <2>2. QED BY <2>1, <1>g, GoToEffect DEF Reads, Replies
<1>16. ASSUME Records(c) PROVE Form
  BY <1>16 DEF Records, Replies
<1>17. ASSUME Cancels(c) PROVE Form
  BY <1>17 DEF Cancels
<1>18. ASSUME Fails(c) PROVE Form
  BY <1>18 DEF Fails, Replies
<1>19. QED BY <1>0, <1>1, <1>2, <1>3, <1>4, <1>5, <1>6, <1>7, <1>8, <1>9, <1>10, <1>11,
      <1>12, <1>13, <1>14, <1>15, <1>16, <1>17, <1>18

\* What an answer carries besides a terminal: a pause, or nothing.
Carries(a) ==
    /\ a.disp \in PauseAnswers => a.out = [kind |-> "Paused", by |-> a.out.by]
    /\ a.disp \notin TerminalAnswers \cup PauseAnswers => a.out = NoOutcome

\* A call that has committed is told of its own commit, or fails on its way
\* back; a call with steps left after its answer has one.
Own(c) ==
    /\ Carries(call[c].ans) /\ Carries(pub[c])
    /\ call[c].pc \in {"record", "done"} => call[c].ans.disp # "none"
    /\ c \in saved =>
           \/ /\ call[c].pc \in {"record", "done"}
              /\ call[c].ans = [disp |-> "PauseSaved", out |-> [kind |-> "Paused", by |-> c]]
           \/ call[c].pc = "done" /\ call[c].ans = Failure("Err")
    /\ rec.terminal.by = c =>
           \/ /\ call[c].pc \in {"cache", "record", "done"}
              /\ call[c].ans.disp = "TerminalInserted"
           \/ call[c].pc = "done" /\ call[c].ans = Failure("Err")

OwnInv == \A c \in Calls : Own(c)

\* The answers of the driver carry what they should.
LEMMA AnswersCarry ==
  /\ \A d \in {"ObserverCancelled", "Lost", "Err"} : Carries(Failure(d)) /\ Failure(d).disp # "none"
  /\ \A out : Carries(Terminal(out)) /\ Terminal(out).disp # "none"
  /\ \A p : /\ Carries([disp |-> "PauseExisting", out |-> [kind |-> "Paused", by |-> p]])
            /\ Carries([disp |-> "PauseSaved", out |-> [kind |-> "Paused", by |-> p]])
  /\ \A out : Carries([disp |-> "TerminalInserted", out |-> out])
  /\ Carries(NoAnswer)
BY DEF Carries, Failure, Terminal, NoAnswer, TerminalAnswers, PauseAnswers

LEMMA FollowedCarries ==
  ASSUME NEW a \in SomeAnswer, a # NoAnswer, Carries(a)
  PROVE  Carries(Followed(a)) /\ Followed(a).disp # "none"
<1>1. a.disp \in Dispositions
  BY DEF SomeAnswer, Answer, NoAnswer
<1>2. Followed(a).disp # "none"
  BY <1>1 DEF Followed, Dispositions, Terminal, SomeAnswer, Answer
<1>3. CASE a.disp \in TerminalAnswers
  <2>1. Followed(a) = Terminal(a.out) BY <1>3 DEF Followed, TerminalAnswers
  <2>2. QED BY <1>2, <2>1, AnswersCarry
<1>4. CASE a.disp \notin TerminalAnswers
  <2>1. Followed(a).disp \notin TerminalAnswers
    BY <1>4, FollowedAnswer DEF TerminalAnswers
  <2>2. /\ Followed(a).disp \in PauseAnswers <=> a.disp \in PauseAnswers
        /\ Followed(a).disp \in PauseAnswers => Followed(a).out = a.out
        /\ Followed(a).disp \notin PauseAnswers => Followed(a) = a
    BY <2>1, FollowedAnswer
  <2>3. QED BY <1>2, <1>4, <2>1, <2>2 DEF Carries
<1>5. QED BY <1>3, <1>4

\* The answer of a reply, when the call has committed and when it has not.
LEMMA ReplyCarries ==
  ASSUME TypeOK, CallShape, OwnInv, NEW c \in Calls, NEW a, Replies(c, a)
  PROVE  /\ Carries(a) /\ a.disp # "none"
         /\ call[c].pc \in {"cache", "record"} => a \in {call[c].ans, Failure("Err")}
         /\ pub'[c] \in {pub[c], a} /\ \A x \in Calls \ {c} : pub'[x] = pub[x]
<1>1. Carries(a) /\ a.disp # "none"
  <2>1. CASE a \in {Failure("Err"), Failure("Lost"), Failure("ObserverCancelled")}
    BY <2>1, AnswersCarry
  <2>2. CASE a = call[c].ans /\ call[c].pc \in {"cache", "record"}
    BY <2>2 DEF OwnInv, Own, CallShape, TerminalAnswers
  <2>3. CASE /\ call[c].pc = "follow" /\ pub[call[c].leads] # NoAnswer
             /\ a = Followed(pub[call[c].leads])
    <3>1. call[c].leads \in Calls BY <2>3 DEF CallShape
    <3>2. pub[call[c].leads] \in SomeAnswer /\ Carries(pub[call[c].leads])
      BY <3>1 DEF CallShape, OwnInv, Own
    <3>3. QED BY <2>3, <3>2, FollowedCarries
  <2>4. CASE a = Terminal(cache[call[c].driver])
    BY <2>4, AnswersCarry
  <2>5. QED BY <2>1, <2>2, <2>3, <2>4 DEF Replies
<1>2. call[c].pc \in {"cache", "record"} => a \in {call[c].ans, Failure("Err")}
  BY DEF Replies, Running
<1>3. pub'[c] \in {pub[c], a} /\ \A x \in Calls \ {c} : pub'[x] = pub[x]
  BY DEF Replies, Return, Published, TypeOK
<1>4. QED BY <1>1, <1>2, <1>3

\* A call that does not move keeps its answer.
LEMMA OwnOther ==
  ASSUME OwnInv, NEW x \in Calls, call'[x] = call[x], Carries(pub'[x]),
         x \in saved' => x \in saved, rec'.terminal.by = x => rec.terminal.by = x
  PROVE  Own(x)'
BY DEF OwnInv, Own

\* Every step keeps the answers of those who committed.
LEMMA OwnStep ==
  ASSUME TypeOK, CallShape, OwnInv, [Next]_vars
  PROVE  OwnInv'
<1>0. \A x \in Calls : Own(x) BY DEF OwnInv
<1>1. ASSUME NEW c \in Calls, Begins(c) PROVE OwnInv'
  <2>1. PICK d \in Drivers, r \in {NoCall} \cup Shown :
          /\ call' \in [Calls -> CallState]
          /\ \A x \in Calls \ {c} : call'[x] = call[x]
          /\ call'[c].driver = d /\ call'[c].resume = r /\ call'[c].leads = NoCall
          /\ \/ cache[d] # NoOutcome /\ call'[c].pc = "done" /\ call'[c].ans = Terminal(cache[d])
             \/ cache[d] = NoOutcome /\ call'[c].pc = "lookup" /\ call'[c].ans = NoAnswer
    BY <1>1, BeginsWith
  <2>2. call[c].pc = "new" /\ pub' = pub /\ rec' = rec /\ saved' = saved
    BY <1>1 DEF Begins, shared
  <2>3. c \notin saved /\ rec.terminal.by # c
    BY <1>0, <2>2 DEF Own
  <2>4. Carries(call'[c].ans) /\ (call'[c].pc \in {"record", "done"} => call'[c].ans.disp # "none")
    BY <2>1, AnswersCarry
  <2>5. Own(c)' BY <1>0, <2>2, <2>3, <2>4 DEF Own
  <2>6. \A x \in Calls \ {c} : Own(x)' BY <1>0, <2>1, <2>2, OwnOther DEF Own
  <2>7. QED BY <2>5, <2>6 DEF OwnInv
<1>2. ASSUME NEW c \in Calls, SavesPause(c) PROVE OwnInv'
  <2>. DEFINE a == [disp |-> "PauseSaved", out |-> [kind |-> "Paused", by |-> c]]
  <2>1. /\ rec.terminal = NoOutcome /\ rec'.terminal = rec.terminal /\ saved' = saved \cup {c}
        /\ Stage(c, a, "record") /\ pub' = pub
    BY <1>2 DEF SavesPause, Stage, TypeOK
  <2>2. rec.terminal.by # c /\ Carries(a) /\ a.disp # "none"
    <3>1. rec.terminal.by = NoCall BY <2>1 DEF NoOutcome
    <3>2. QED BY <3>1, CallAssumption, AnswersCarry
  <2>. HIDE DEF a
  <2>3. /\ call'[c].pc = "record" /\ call'[c].ans = a
        /\ \A x \in Calls \ {c} : call'[x] = call[x]
    BY <2>1, StageEffect
  <2>4. Own(c)' BY <1>0, <2>1, <2>2, <2>3 DEF Own, a
  <2>5. \A x \in Calls \ {c} : Own(x)' BY <1>0, <2>1, <2>3, OwnOther DEF Own
  <2>6. QED BY <2>4, <2>5 DEF OwnInv
<1>3. ASSUME NEW c \in Calls, RecordsTerminal(c) PROVE OwnInv'
  <2>. DEFINE out == [kind |-> Committing(c), by |-> c]
              a == [disp |-> "TerminalInserted", out |-> out]
  <2>1. /\ call[c].pc = "persist" /\ rec' = [pause |-> NoCall, terminal |-> out] /\ saved' = saved
        /\ Stage(c, a, "cache") /\ pub' = pub
    BY <1>3 DEF RecordsTerminal, Stage
  <2>2. c \notin saved /\ Carries(a) /\ a.disp = "TerminalInserted" /\ rec'.terminal.by = c
    BY <1>0, <2>1, AnswersCarry DEF Own
  <2>. HIDE DEF a, out
  <2>3. /\ call'[c].pc = "cache" /\ call'[c].ans = a
        /\ \A x \in Calls \ {c} : call'[x] = call[x]
    BY <2>1, StageEffect
  <2>4. Own(c)' BY <1>0, <2>1, <2>2, <2>3 DEF Own
  <2>5. \A x \in Calls \ {c} : Own(x)' BY <1>0, <2>1, <2>2, <2>3, OwnOther DEF Own
  <2>6. QED BY <2>4, <2>5 DEF OwnInv
<1>4. ASSUME NEW c \in Calls, Alone(c), Moves(c) \/ Opens(c) PROVE OwnInv'
  <2>1. /\ call[c].pc \in Running \cup {"lookup"} /\ call'[c].pc \in Running
        /\ call'[c].ans = call[c].ans /\ pub' = pub
    BY <1>4 DEF Moves, Opens, Running
  <2>2. c \notin saved /\ rec.terminal.by # c
    BY <1>0, <2>1 DEF Own, Running
  <2>3. Own(c)' BY <1>0, <1>4, <2>1, <2>2 DEF Alone, Own, Running
  <2>4. \A x \in Calls \ {c} : Own(x)' BY <1>0, <1>4, <2>1, OwnOther DEF Own, Alone
  <2>5. QED BY <2>3, <2>4 DEF OwnInv
<1>5. ASSUME NEW c \in Calls, Alone(c), Reads(c) PROVE OwnInv'
  <2>1. CASE /\ call[c].pc \in Running \cup {"lookup"} /\ Carries(call'[c].ans)
             /\ call'[c].ans.disp # "none" /\ pub' = pub
    <3>1. c \notin saved /\ rec.terminal.by # c
      BY <1>0, <2>1 DEF Own, Running
    <3>2. Own(c)' BY <1>0, <1>5, <2>1, <3>1 DEF Alone, Own
    <3>3. \A x \in Calls \ {c} : Own(x)' BY <1>0, <1>5, <2>1, OwnOther DEF Own, Alone
    <3>4. QED BY <3>2, <3>3 DEF OwnInv
  <2>2. CASE /\ call[c].pc = "cache" /\ call'[c].pc = "record" /\ call'[c].ans = call[c].ans
             /\ pub' = pub
    <3>1. call[c].ans.disp # "none" BY <2>2 DEF CallShape, TerminalAnswers
    <3>2. Own(c)' BY <1>0, <1>5, <2>2, <3>1 DEF Alone, Own
    <3>3. \A x \in Calls \ {c} : Own(x)' BY <1>0, <1>5, <2>2, OwnOther DEF Own, Alone
    <3>4. QED BY <3>2, <3>3 DEF OwnInv
  <2>3. \A p : [disp |-> "PauseExisting", out |-> [kind |-> "Paused", by |-> p]].disp # "none"
    OBVIOUS
  <2>4. QED BY <1>5, <2>1, <2>2, <2>3, AnswersCarry DEF Reads, Running
<1>6. ASSUME NEW c \in Calls, Alone(c), NEW a, Replies(c, a) PROVE OwnInv'
  <2>1. /\ Carries(a) /\ a.disp # "none"
        /\ call[c].pc \in {"cache", "record"} => a \in {call[c].ans, Failure("Err")}
        /\ pub'[c] \in {pub[c], a} /\ \A x \in Calls \ {c} : pub'[x] = pub[x]
    BY <1>6, ReplyCarries
  <2>2. call[c].pc # "done" /\ call'[c].pc = "done" /\ call'[c].ans = a
    BY <1>6, ReturnEffect DEF Replies
  <2>3. \A x \in Calls : Carries(call'[x].ans) /\ Carries(pub'[x])
    BY <1>0, <1>6, <2>1, <2>2 DEF Own, Alone
  <2>4. Own(c)' BY <1>0, <1>6, <2>1, <2>2, <2>3 DEF Own, Alone
  <2>5. \A x \in Calls \ {c} : Own(x)' BY <1>6, <2>3, OwnOther DEF Alone
  <2>6. QED BY <2>4, <2>5 DEF OwnInv
<1>7. ASSUME NEW c \in Calls, Alone(c), call' = call /\ pub' = pub PROVE OwnInv'
  BY <1>7 DEF OwnInv, Own, Alone
<1>8. CASE UNCHANGED vars
  BY <1>8 DEF vars, OwnInv, Own
<1>9. QED BY <1>1, <1>2, <1>3, <1>4, <1>5, <1>6, <1>7, <1>8, StepForm DEF Next, Step

\* The mapped state, call by call.
LEMMA Mapped ==
  /\ phase = [x \in Calls |-> Phase(x)]
  /\ from = [x \in Calls |-> IF Opened(x) THEN call[x].resume ELSE NoCall]
  /\ answer = [x \in Calls |-> Result(IF call[x].pc = "done" THEN call[x].ans ELSE NoAnswer)]
  /\ phase' = [x \in Calls |-> Phase(x)']
  /\ from' = [x \in Calls |-> IF Opened(x)' THEN call'[x].resume ELSE NoCall]
  /\ answer' = [x \in Calls |-> Result(IF call'[x].pc = "done" THEN call'[x].ans ELSE NoAnswer)]
BY DEF phase, from, answer

\* The phases a call goes through.
LEMMA PhaseOf ==
  ASSUME ChainInv, CallShape, OwnInv, NEW c \in Calls
  PROVE  /\ call[c].pc = "done" <=> Phase(c) = "returned"
         /\ Phase(c) = "idle" <=> call[c].pc # "done" /\ ~Opened(c)
         /\ Phase(c) = "open" <=> Opened(c) /\ c \notin Committed
         /\ Phase(c) = "committed" <=> Opened(c) /\ c \in Committed
         /\ call[c].pc \in Running => Opened(c) /\ c \notin Committed
         /\ call[c].pc \in {"new", "lookup"} => ~Opened(c)
         /\ call[c].pc = "record" => Opened(c)
         /\ call[c].pc = "cache" => (Opened(c) <=> Leads(c))
         /\ ~Opened(c) /\ call[c].pc # "done" => c \notin Committed
<1>1. Opened(c) => call[c].pc # "done" BY DEF Opened
<1>2. c \in Committed /\ c # Earlier => call[c].pc \in {"cache", "record", "done"}
  BY DEF ChainInv
<1>3. c # Earlier /\ c # NoCall BY CallAssumption
<1>4. /\ call[c].pc \in Running => Opened(c) /\ c \notin Committed
      /\ call[c].pc \in {"new", "lookup"} => ~Opened(c)
      /\ call[c].pc = "record" => Opened(c)
      /\ call[c].pc = "cache" => (Opened(c) <=> Leads(c))
  BY <1>2, <1>3 DEF Running, Opened
<1>5. ~Opened(c) /\ call[c].pc # "done" => c \notin Committed
  <2>1. SUFFICES ASSUME ~Opened(c), call[c].pc # "done", c \in Committed
                 PROVE  FALSE
    OBVIOUS
  <2>2. call[c].pc = "cache" /\ ~Leads(c) BY <1>2, <1>3, <2>1 DEF Opened
  <2>3. call[c].ans.disp = "TerminalExisting" BY <2>2 DEF CallShape
  <2>4. c \in saved \/ rec.terminal.by = c BY <2>1 DEF Committed
  <2>5. Own(c) BY DEF OwnInv
  <2>6. QED BY <2>2, <2>3, <2>4, <2>5 DEF Own
<1>6. /\ call[c].pc = "done" <=> Phase(c) = "returned"
      /\ Phase(c) = "idle" <=> call[c].pc # "done" /\ ~Opened(c)
      /\ Phase(c) = "open" <=> Opened(c) /\ c \notin Committed
      /\ Phase(c) = "committed" <=> Opened(c) /\ c \in Committed
  BY <1>1 DEF Phase
<1>7. QED BY <1>4, <1>5, <1>6

\* A step of c alone leaves what the other calls map to.
LEMMA MappedOthers ==
  ASSUME NEW c \in Calls, \A x \in Calls \ {c} : call'[x] = call[x],
         \A x \in Calls \ {c} : x \in Committed' <=> x \in Committed,
         NEW x \in Calls \ {c}
  PROVE  /\ Phase(x)' = Phase(x) /\ Opened(x)' = Opened(x)
         /\ phase'[x] = phase[x] /\ from'[x] = from[x] /\ answer'[x] = answer[x]
<1>1. call'[x] = call[x] OBVIOUS
<1>2. Opened(x)' = Opened(x) BY <1>1 DEF Opened, Leads
<1>3. x \in Committed' <=> x \in Committed OBVIOUS
<1>4. Phase(x)' = Phase(x)
  BY <1>1, <1>2, <1>3 DEF Phase
<1>5. QED BY <1>1, <1>2, <1>4, Mapped

\* So the mapped functions change at c only.
LEMMA MappedStep ==
  ASSUME NEW c \in Calls, \A x \in Calls \ {c} : call'[x] = call[x],
         \A x \in Calls \ {c} : x \in Committed' <=> x \in Committed
  PROVE  /\ phase' = [phase EXCEPT ![c] = Phase(c)']
         /\ from' = [from EXCEPT ![c] = IF Opened(c)' THEN call'[c].resume ELSE NoCall]
         /\ answer' = [answer EXCEPT ![c] =
                         Result(IF call'[c].pc = "done" THEN call'[c].ans ELSE NoAnswer)]
<1>1. \A x \in Calls \ {c} :
        phase'[x] = phase[x] /\ from'[x] = from[x] /\ answer'[x] = answer[x]
  BY MappedOthers
<1>2. DOMAIN phase = Calls /\ DOMAIN from = Calls /\ DOMAIN answer = Calls
  BY Mapped
<1>3. phase' = [phase EXCEPT ![c] = Phase(c)']
  BY <1>1, <1>2, Mapped
<1>4. from' = [from EXCEPT ![c] = IF Opened(c)' THEN call'[c].resume ELSE NoCall]
  BY <1>1, <1>2, Mapped
<1>5. answer' = [answer EXCEPT ![c] =
                   Result(IF call'[c].pc = "done" THEN call'[c].ans ELSE NoAnswer)]
  BY <1>1, <1>2, Mapped
<1>6. QED BY <1>3, <1>4, <1>5

\* What a call may be told, in terms of the record.
LEMMA TaskResults ==
  ASSUME NEW c \in Calls
  PROVE  /\ Task!Failed \in Task!Results(c)
         /\ rec.terminal # NoOutcome /\ c \notin saved =>
                Task!Finished(rec.terminal) \in Task!Results(c)
         /\ phase[c] = "open" => \A p \in saved : Task!Paused(p) \in Task!Results(c)
         /\ phase[c] = "committed" /\ c \in saved => Task!Paused(c) \in Task!Results(c)
<1>1. Task!NoOutcome = NoOutcome BY DEF Task!NoOutcome, NoOutcome
<1>2. Task!Failed \in Task!Results(c) BY DEF Task!Results
<1>3. rec.terminal # NoOutcome /\ c \notin saved =>
          Task!Finished(rec.terminal) \in Task!Results(c)
  BY <1>1 DEF Task!Results
<1>4. phase[c] = "open" => \A p \in saved : Task!Paused(p) \in Task!Results(c)
  <2>1. phase[c] = "open" =>
          (CASE phase[c] = "idle" -> {}
             [] phase[c] = "open" -> saved
             [] phase[c] = "committed" -> saved \cap {c}) = saved
    OBVIOUS
  <2>2. QED BY <2>1 DEF Task!Results
<1>5. phase[c] = "committed" /\ c \in saved => Task!Paused(c) \in Task!Results(c)
  <2>1. phase[c] = "committed" =>
          (CASE phase[c] = "idle" -> {}
             [] phase[c] = "open" -> saved
             [] phase[c] = "committed" -> saved \cap {c}) = saved \cap {c}
    OBVIOUS
  <2>2. QED BY <2>1 DEF Task!Results
<1>6. QED BY <1>2, <1>3, <1>4, <1>5

\* How the answers of the driver read.
LEMMA ResultOf ==
  ASSUME NEW a
  PROVE  /\ a.disp \in TerminalAnswers => Result(a) = Task!Finished(a.out)
         /\ a.disp \in PauseAnswers /\ Carries(a) => Result(a) = Task!Paused(a.out.by)
         /\ a.disp \notin TerminalAnswers \cup PauseAnswers \cup {"none"} /\ Carries(a) =>
                Result(a) = Task!Failed
<1>1. Task!NoOutcome = NoOutcome BY DEF Task!NoOutcome, NoOutcome
<1>2. a.disp \in TerminalAnswers => Result(a) = Task!Finished(a.out)
  BY DEF Result, Task!Finished, TerminalAnswers
<1>3. a.disp \in PauseAnswers => Result(a) = [result |-> "paused", out |-> a.out]
  BY DEF Result, PauseAnswers
<1>4. a.disp \notin TerminalAnswers \cup PauseAnswers \cup {"none"} =>
        Result(a) = [result |-> "failed", out |-> a.out]
  BY DEF Result, PauseAnswers, TerminalAnswers
<1>5. QED BY <1>1, <1>2, <1>3, <1>4 DEF Carries, Task!Paused, Task!Failed

\* A call that returns what the record says, or what it committed, returns from
\* the task.
LEMMA ReturnRefines ==
  ASSUME TypeOK, CallShape, ChainInv, OwnInv, NEW c \in Calls, Alone(c), call[c].pc # "done",
         NEW a, call'[c].pc = "done", call'[c].ans = a, Carries(a), a.disp # "none",
         a.disp \in TerminalAnswers => a.out = rec.terminal /\ rec.terminal # NoOutcome /\ c \notin saved,
         a.disp \in PauseAnswers =>
            \/ Phase(c) = "open" /\ a.out.by \in saved
            \/ Phase(c) = "committed" /\ a.out.by = c /\ c \in saved
  PROVE  Task!Return(c)
<1>1. Committed' = Committed /\ rec' = rec /\ saved' = saved BY DEF Alone, Committed
<1>2. /\ phase' = [phase EXCEPT ![c] = Phase(c)']
      /\ from' = [from EXCEPT ![c] = IF Opened(c)' THEN call'[c].resume ELSE NoCall]
      /\ answer' = [answer EXCEPT ![c] =
                      Result(IF call'[c].pc = "done" THEN call'[c].ans ELSE NoAnswer)]
  BY <1>1, MappedStep DEF Alone
<1>3. Phase(c)' = "returned" /\ ~Opened(c)' BY DEF Phase, Opened
<1>4. phase[c] = Phase(c) BY Mapped
<1>5. phase[c] # "returned" BY <1>4, PhaseOf
<1>6. Result(a) \in Task!Results(c)
  <2>1. CASE a.disp \in TerminalAnswers
    BY <2>1, ResultOf, TaskResults
  <2>2. CASE a.disp \in PauseAnswers
    BY <2>2, <1>4, ResultOf, TaskResults
  <2>3. CASE a.disp \notin TerminalAnswers \cup PauseAnswers
    BY <2>3, ResultOf, TaskResults
  <2>4. QED BY <2>1, <2>2, <2>3
<1>7. answer' = [answer EXCEPT ![c] = Result(a)] BY <1>2
<1>8. UNCHANGED Task!task BY <1>1 DEF Task!task
<1>9. QED BY <1>2, <1>3, <1>5, <1>6, <1>7, <1>8 DEF Task!Return

\* A reply returns from the task.
LEMMA RepliesRefines ==
  ASSUME TypeOK, CallShape, AgreeInv, ChainInv, OwnInv, NEW c \in Calls, Alone(c),
         NEW a, Replies(c, a)
  PROVE  Task!Return(c)
<1>1. call[c].pc # "done" /\ call'[c].pc = "done" /\ call'[c].ans = a
  BY ReturnEffect DEF Replies
<1>2. /\ Carries(a) /\ a.disp # "none"
      /\ call[c].pc \in {"cache", "record"} => a \in {call[c].ans, Failure("Err")}
  BY ReplyCarries
<1>3. c \in saved => c \in Committed BY DEF Committed
<1>4. CASE a.disp \notin TerminalAnswers \cup PauseAnswers
  BY <1>1, <1>2, <1>4, ReturnRefines
<1>5. CASE /\ call[c].pc \in Running
           /\ a.disp \in TerminalAnswers => a.out = rec.terminal /\ rec.terminal # NoOutcome
           /\ a.disp \in PauseAnswers => a.out.by \in saved
  <2>1. Phase(c) = "open" /\ c \notin saved BY <1>3, <1>5, PhaseOf
  <2>2. QED BY <1>1, <1>2, <1>5, <2>1, ReturnRefines
<1>6. CASE a = call[c].ans /\ call[c].pc \in {"cache", "record"}
  <2>1. Told(a) /\ a \in SomeAnswer /\ Own(c)
    BY <1>6 DEF AgreeInv, CallShape, OwnInv
  <2>2. a.disp \in TerminalAnswers => a.out = rec.terminal /\ rec.terminal # NoOutcome /\ c \notin saved
    <3>1. SUFFICES ASSUME a.disp \in TerminalAnswers
                   PROVE  a.out = rec.terminal /\ rec.terminal # NoOutcome /\ c \notin saved
      OBVIOUS
    <3>2. a.out = rec.terminal /\ a.out \in Outcome BY <2>1, <3>1 DEF Told, SomeAnswer
    <3>3. rec.terminal # NoOutcome BY <3>2, Answers
    <3>4. c \notin saved BY <1>6, <2>1, <3>1 DEF Own, TerminalAnswers
    <3>5. QED BY <3>2, <3>3, <3>4
  <2>3. ASSUME a.disp \in PauseAnswers
        PROVE  \/ Phase(c) = "open" /\ a.out.by \in saved
               \/ Phase(c) = "committed" /\ a.out.by = c /\ c \in saved
    <3>1. call[c].pc = "record"
      BY <1>6, <2>3 DEF CallShape, TerminalAnswers, PauseAnswers
    <3>2. Opened(c) BY <3>1, PhaseOf
    <3>3. a.out.by \in saved BY <2>1, <2>3 DEF Told
    <3>4. rec.terminal.by # c BY <1>6, <2>1, <2>3, <3>1 DEF Own, PauseAnswers
    <3>5. c \in saved => a.out.by = c BY <1>6, <2>1, <3>1 DEF Own
    <3>6. c \in Committed => c \in saved BY <3>4 DEF Committed
    <3>7. QED BY <3>2, <3>3, <3>5, <3>6, PhaseOf
  <2>4. QED BY <1>1, <1>2, <2>2, <2>3, ReturnRefines
<1>7. CASE /\ call[c].pc = "follow" /\ pub[call[c].leads] # NoAnswer
           /\ a = Followed(pub[call[c].leads])
  <2>1. PICK l \in Calls : l = call[c].leads BY <1>7 DEF CallShape
  <2>2. pub[l] \in SomeAnswer /\ Told(pub[l]) /\ pub[l] # NoAnswer /\ a = Followed(pub[l])
    BY <1>7, <2>1 DEF CallShape, AgreeInv
  <2>3. a.disp \in TerminalAnswers => pub[l].disp \in TerminalAnswers /\ a.out = pub[l].out
    BY <2>2, FollowedAnswer DEF TerminalAnswers
  <2>4. a.disp \in PauseAnswers => pub[l].disp \in PauseAnswers /\ a.out = pub[l].out
    BY <2>2, FollowedAnswer
  <2>5. a.disp \in TerminalAnswers => a.out = rec.terminal /\ rec.terminal # NoOutcome
    BY <2>2, <2>3, Answers DEF Told, SomeAnswer
  <2>6. a.disp \in PauseAnswers => a.out.by \in saved
    BY <2>2, <2>4 DEF Told
  <2>7. QED BY <1>5, <1>7, <2>5, <2>6 DEF Running
<1>8. CASE /\ call[c].pc = "recheck" /\ cache[call[c].driver] # NoOutcome
           /\ a = Terminal(cache[call[c].driver])
  <2>1. cache[call[c].driver] = rec.terminal
    BY <1>8 DEF AgreeInv, CallShape
  <2>2. a.disp = "TerminalExisting" /\ a.out = rec.terminal
    BY <1>8, <2>1 DEF Terminal
  <2>3. QED BY <1>5, <1>8, <2>1, <2>2 DEF Running, PauseAnswers
<1>9. CASE a \in {Failure("Err"), Failure("Lost"), Failure("ObserverCancelled")}
  <2>1. a.disp \in {"Err", "Lost", "ObserverCancelled"} BY <1>9, Answers
  <2>2. QED BY <1>4, <2>1 DEF TerminalAnswers, PauseAnswers
<1>10. QED BY <1>6, <1>7, <1>8, <1>9 DEF Replies

\* The first step of a call that finds the outcome in its driver's cache, or
\* nothing there.
LEMMA BeginsRefines ==
  ASSUME TypeOK, CallShape, AgreeInv, ChainInv, OwnInv, NEW c \in Calls, Begins(c)
  PROVE  Task!Return(c) \/ UNCHANGED Task!vars
<1>1. PICK d \in Drivers, r \in {NoCall} \cup Shown :
        /\ call' \in [Calls -> CallState]
        /\ \A x \in Calls \ {c} : call'[x] = call[x]
        /\ call'[c].driver = d /\ call'[c].resume = r /\ call'[c].leads = NoCall
        /\ \/ cache[d] # NoOutcome /\ call'[c].pc = "done" /\ call'[c].ans = Terminal(cache[d])
           \/ cache[d] = NoOutcome /\ call'[c].pc = "lookup" /\ call'[c].ans = NoAnswer
  BY BeginsWith
<1>2. call[c].pc = "new" /\ rec' = rec /\ saved' = saved BY DEF Begins, shared
<1>3. Alone(c) BY <1>1, <1>2 DEF Alone
<1>4. ~Opened(c) /\ Phase(c) = "idle" /\ c \notin saved
  BY <1>2, PhaseOf DEF Committed
<1>5. CASE call'[c].pc = "done"
  <2>1. cache[d] = rec.terminal /\ cache[d] # NoOutcome BY <1>1, <1>5 DEF AgreeInv
  <2>. DEFINE a == Terminal(cache[d])
  <2>2. a.disp = "TerminalExisting" /\ a.out = rec.terminal BY <2>1 DEF Terminal
  <2>3. Carries(a) BY AnswersCarry
  <2>4. call'[c].ans = a BY <1>1, <1>5
  <2>. HIDE DEF a
  <2>5. QED BY <1>2, <1>3, <1>4, <1>5, <2>1, <2>2, <2>3, <2>4, ReturnRefines DEF PauseAnswers
<1>6. CASE call'[c].pc = "lookup"
  <2>1. ~Opened(c)' BY <1>6 DEF Opened
  <2>2. Phase(c)' = "idle" BY <1>6, <2>1 DEF Phase
  <2>3. Committed' = Committed BY <1>2 DEF Committed
  <2>4. /\ phase' = [phase EXCEPT ![c] = Phase(c)']
        /\ from' = [from EXCEPT ![c] = IF Opened(c)' THEN call'[c].resume ELSE NoCall]
        /\ answer' = [answer EXCEPT ![c] =
                        Result(IF call'[c].pc = "done" THEN call'[c].ans ELSE NoAnswer)]
    BY <1>1, <2>3, MappedStep
  <2>5. phase[c] = "idle" /\ from[c] = NoCall /\ answer[c] = Result(NoAnswer)
    BY <1>2, <1>4, Mapped
  <2>6. phase' = phase /\ from' = from /\ answer' = answer
    <3>1. answer' = [answer EXCEPT ![c] = Result(NoAnswer)] BY <1>6, <2>4
    <3>2. from' = [from EXCEPT ![c] = NoCall] BY <2>1, <2>4
    <3>3. phase' = [phase EXCEPT ![c] = "idle"] BY <2>2, <2>4
    <3>4. phase' = phase BY ONLY <2>5, <3>3, Mapped
    <3>5. from' = from BY ONLY <2>5, <3>2, Mapped
    <3>6. answer' = answer BY ONLY <2>5, <3>1, Mapped
    <3>7. QED BY <3>4, <3>5, <3>6
  <2>7. QED BY <1>2, <2>6 DEF Task!vars
<1>7. QED BY <1>1, <1>5, <1>6

\* A step that neither opens the task nor returns, and that keeps the pause a
\* call continues, is not seen.
LEMMA Unseen ==
  ASSUME TypeOK, NEW c \in Calls, Alone(c), call[c].pc # "done", call'[c].pc # "done",
         Opened(c)' = Opened(c), Opened(c) => call'[c].resume = call[c].resume
  PROVE  UNCHANGED Task!vars
<1>1. Committed' = Committed BY DEF Alone, Committed
<1>2. /\ phase' = [phase EXCEPT ![c] = Phase(c)']
      /\ from' = [from EXCEPT ![c] = IF Opened(c)' THEN call'[c].resume ELSE NoCall]
      /\ answer' = [answer EXCEPT ![c] =
                      Result(IF call'[c].pc = "done" THEN call'[c].ans ELSE NoAnswer)]
  BY <1>1, MappedStep DEF Alone
<1>3. Phase(c)' = Phase(c) BY <1>1 DEF Phase
<1>4. phase' = phase BY <1>2, <1>3, Mapped
<1>5. from' = from
  <2>1. from[c] = IF Opened(c)' THEN call'[c].resume ELSE NoCall BY Mapped
  <2>2. QED BY <1>2, <2>1, Mapped
<1>6. answer' = answer
  <2>1. answer[c] = Result(NoAnswer) /\ answer' = [answer EXCEPT ![c] = Result(NoAnswer)]
    BY <1>2, Mapped
  <2>2. QED BY <2>1, Mapped
<1>7. QED BY <1>4, <1>5, <1>6 DEF Alone, Task!vars

\* A running call that moves on is not seen, or reads the pause it continues.
LEMMA MovesRefines ==
  ASSUME TypeOK, CallShape, ChainInv, OwnInv, NEW c \in Calls, Alone(c), Moves(c)
  PROVE  Task!Resume(c) \/ UNCHANGED Task!vars
<1>1. Opened(c) /\ c \notin Committed /\ call[c].pc # "done" BY PhaseOf DEF Moves, Running
<1>2. Opened(c)' /\ call'[c].pc # "done" BY DEF Moves, Running, Opened
<1>3. CASE call'[c].resume = call[c].resume
  BY <1>1, <1>2, <1>3, Unseen
<1>4. CASE call'[c].resume \in {rec.pause, NoCall}
  <2>1. Committed' = Committed BY DEF Alone, Committed
  <2>2. /\ phase' = [phase EXCEPT ![c] = Phase(c)']
        /\ from' = [from EXCEPT ![c] = IF Opened(c)' THEN call'[c].resume ELSE NoCall]
        /\ answer' = [answer EXCEPT ![c] =
                        Result(IF call'[c].pc = "done" THEN call'[c].ans ELSE NoAnswer)]
    BY <2>1, MappedStep DEF Alone
  <2>3. Phase(c) = "open" BY <1>1, PhaseOf
  <2>4. Phase(c)' = "open" BY <1>1, <1>2, <2>1 DEF Phase
  <2>5. phase[c] = "open" /\ phase' = phase BY <2>2, <2>3, <2>4, Mapped
  <2>6. answer' = answer
    <3>1. answer[c] = Result(NoAnswer) /\ answer' = [answer EXCEPT ![c] = Result(NoAnswer)]
      BY <1>1, <1>2, <2>2, Mapped
    <3>2. QED BY <3>1, Mapped
  <2>7. from' = [from EXCEPT ![c] = call'[c].resume] BY <1>2, <2>2
  <2>8. UNCHANGED Task!task BY DEF Alone, Task!task
  <2>9. QED BY <1>4, <2>5, <2>6, <2>7, <2>8 DEF Task!Resume
<1>5. QED BY <1>3, <1>4 DEF Moves

\* A lookup that finds no terminal opens the task.
LEMMA OpensRefines ==
  ASSUME TypeOK, CallShape, AgreeInv, ChainInv, OwnInv, NEW c \in Calls, Alone(c), Opens(c)
  PROVE  Task!Open(c)
<1>1. ~Opened(c) /\ c \notin Committed /\ Phase(c) = "idle" BY PhaseOf DEF Opens
<1>2. Opened(c)' /\ call[c].pc # "done" /\ call'[c].pc # "done" BY DEF Opens, Opened
<1>3. Committed' = Committed BY DEF Alone, Committed
<1>4. /\ phase' = [phase EXCEPT ![c] = Phase(c)']
      /\ from' = [from EXCEPT ![c] = IF Opened(c)' THEN call'[c].resume ELSE NoCall]
      /\ answer' = [answer EXCEPT ![c] =
                      Result(IF call'[c].pc = "done" THEN call'[c].ans ELSE NoAnswer)]
  BY <1>3, MappedStep DEF Alone
<1>5. Phase(c)' = "open" BY <1>1, <1>2, <1>3 DEF Phase
<1>6. phase[c] = "idle" BY <1>1, Mapped
<1>7. from' = [from EXCEPT ![c] = call[c].resume] BY <1>2, <1>4 DEF Opens
<1>8. call[c].resume \in saved \cup {NoCall} BY DEF AgreeInv
<1>9. answer' = answer
  <2>1. answer[c] = Result(NoAnswer) /\ answer' = [answer EXCEPT ![c] = Result(NoAnswer)]
    BY <1>2, <1>4, Mapped
  <2>2. QED BY <2>1, Mapped
<1>10. rec.terminal = Task!NoOutcome BY DEF Opens, Task!NoOutcome, NoOutcome
<1>11. UNCHANGED Task!task BY DEF Alone, Task!task
<1>12. QED BY <1>4, <1>5, <1>6, <1>7, <1>8, <1>9, <1>10, <1>11 DEF Task!Open

\* An answer that is read and not yet returned is not seen.
LEMMA ReadsRefines ==
  ASSUME TypeOK, CallShape, ChainInv, OwnInv, NEW c \in Calls, Alone(c), Reads(c)
  PROVE  UNCHANGED Task!vars
<1>1. call[c].pc # "done" /\ call'[c].pc # "done" BY DEF Reads
<1>2. Opened(c)' = Opened(c)
  <2>1. CASE call[c].pc \in {"lookup", "terminal_winner", "pause_winner"} /\ call'[c].pc = "cache"
    <3>1. call[c].pc = "lookup" => call[c].leads # c BY CallAssumption DEF CallShape
    <3>2. call[c].pc # "lookup" => call[c].leads = c
      BY <2>1 DEF CallShape, Leading, Leads
    <3>3. call'[c].leads = call[c].leads BY DEF Reads
    <3>4. QED BY <2>1, <3>1, <3>2, <3>3 DEF Opened, Leads
  <2>2. CASE call[c].pc = "pause" /\ call'[c].pc = "record"
    BY <2>2 DEF Opened
  <2>3. CASE call[c].pc = "cache" /\ call'[c].pc = "record" /\ call[c].leads = c
    BY <2>3 DEF Opened, Leads
  <2>4. QED BY <2>1, <2>2, <2>3 DEF Reads
<1>3. QED BY <1>1, <1>2, Unseen DEF Reads

\* What the two commits of the driver have in common.
LEMMA CommitRefines ==
  ASSUME TypeOK, CallShape, ChainInv, OwnInv, NEW c \in Calls,
         call[c].pc = "persist", rec.terminal = NoOutcome, Matches(c),
         \A x \in Calls \ {c} : call'[x] = call[x],
         call'[c].pc \in {"cache", "record"}, call'[c].resume = call[c].resume,
         call'[c].leads = call[c].leads,
         Committed' = Committed \cup {c}
  PROVE  Task!Commits(c)
<1>1. Opened(c) /\ c \notin Committed /\ Phase(c) = "open" BY PhaseOf DEF Running
<1>2. Leads(c) /\ Leads(c)' BY DEF CallShape, Leading, Leads
<1>3. Opened(c)' BY <1>2 DEF Opened
<1>4. Phase(c)' = "committed" BY <1>3 DEF Phase
<1>5. /\ phase' = [phase EXCEPT ![c] = Phase(c)']
      /\ from' = [from EXCEPT ![c] = IF Opened(c)' THEN call'[c].resume ELSE NoCall]
      /\ answer' = [answer EXCEPT ![c] =
                      Result(IF call'[c].pc = "done" THEN call'[c].ans ELSE NoAnswer)]
  BY MappedStep
<1>6. phase[c] = "open" /\ from[c] = call[c].resume BY <1>1, Mapped
<1>7. from' = from
  <2>1. from' = [from EXCEPT ![c] = call[c].resume] BY <1>3, <1>5
  <2>2. QED BY <2>1, <1>6, Mapped
<1>8. answer' = answer
  <2>1. answer[c] = Result(NoAnswer) /\ answer' = [answer EXCEPT ![c] = Result(NoAnswer)]
    BY <1>5, Mapped
  <2>2. QED BY <2>1, Mapped
<1>9. rec.terminal = Task!NoOutcome /\ from[c] = rec.pause /\ c \notin saved
  BY <1>1, <1>6 DEF Matches, Task!NoOutcome, NoOutcome, Committed
<1>10. QED BY <1>4, <1>5, <1>6, <1>7, <1>8, <1>9 DEF Task!Commits

\* A saved pause pauses the task.
LEMMA PauseRefines ==
  ASSUME TypeOK, CallShape, ChainInv, OwnInv, NEW c \in Calls, SavesPause(c)
  PROVE  Task!Pause(c)
<1>. DEFINE a == [disp |-> "PauseSaved", out |-> [kind |-> "Paused", by |-> c]]
<1>1. /\ call[c].pc = "persist" /\ rec.terminal = NoOutcome /\ Matches(c)
      /\ rec' = [rec EXCEPT !.pause = c] /\ saved' = saved \cup {c} /\ Stage(c, a, "record")
  BY DEF SavesPause
<1>2. rec'.pause = c /\ rec'.terminal = rec.terminal BY <1>1 DEF TypeOK
<1>3. Committed' = Committed \cup {c} BY <1>1, <1>2 DEF Committed
<1>4. /\ call'[c].pc = "record" /\ call'[c].resume = call[c].resume
      /\ call'[c].leads = call[c].leads /\ \A x \in Calls \ {c} : call'[x] = call[x]
  BY <1>1, StageEffect
<1>5. Task!Commits(c) BY <1>1, <1>3, <1>4, CommitRefines
<1>6. QED BY <1>1, <1>2, <1>5 DEF Task!Pause

\* A recorded terminal finishes it.
LEMMA FinishRefines ==
  ASSUME TypeOK, CallShape, ChainInv, OwnInv, NEW c \in Calls, RecordsTerminal(c)
  PROVE  Task!Finish(c)
<1>. DEFINE out == [kind |-> Committing(c), by |-> c]
            a == [disp |-> "TerminalInserted", out |-> out]
<1>1. /\ call[c].pc = "persist" /\ rec.terminal = NoOutcome /\ Matches(c)
      /\ rec' = [pause |-> NoCall, terminal |-> out] /\ saved' = saved /\ Stage(c, a, "cache")
  BY DEF RecordsTerminal
<1>2. rec'.pause = NoCall /\ rec'.terminal = out /\ out.by = c BY <1>1
<1>3. Committing(c) \in Kinds \ {"Paused"}
  <2>1. call[c].kind \in Kinds /\ "Cancelled" \in Kinds BY <1>1 DEF CallShape, Kinds
  <2>2. QED BY <2>1 DEF RecordsTerminal, Committing
<1>4. Committed' = Committed \cup {c}
  <2>1. rec.terminal.by = NoCall BY <1>1 DEF NoOutcome
  <2>2. c # NoCall BY CallAssumption
  <2>3. Committed' = saved' \cup ({c} \ {NoCall}) BY <1>2 DEF Committed
  <2>4. QED BY <1>1, <2>1, <2>2, <2>3 DEF Committed
<1>. HIDE DEF a
<1>5. /\ call'[c].pc = "cache" /\ call'[c].resume = call[c].resume
      /\ call'[c].leads = call[c].leads /\ \A x \in Calls \ {c} : call'[x] = call[x]
  BY <1>1, StageEffect
<1>6. Task!Commits(c) BY <1>1, <1>4, <1>5, CommitRefines
<1>7. QED BY <1>1, <1>2, <1>3, <1>6 DEF Task!Finish

\* Every step of the drivers is a step of the task, or is not seen.
LEMMA TaskStep ==
  ASSUME TypeOK, CallShape, AgreeInv, ChainInv, OwnInv, [Next]_vars
  PROVE  [Task!Next]_Task!vars
<1>1. ASSUME NEW c \in Calls, Begins(c) PROVE [Task!Next]_Task!vars
  BY <1>1, BeginsRefines DEF Task!Next
<1>2. ASSUME NEW c \in Calls, SavesPause(c) PROVE [Task!Next]_Task!vars
  BY <1>2, PauseRefines DEF Task!Next
<1>3. ASSUME NEW c \in Calls, RecordsTerminal(c) PROVE [Task!Next]_Task!vars
  BY <1>3, FinishRefines DEF Task!Next
<1>4. ASSUME NEW c \in Calls, Alone(c), Moves(c) PROVE [Task!Next]_Task!vars
  BY <1>4, MovesRefines DEF Task!Next
<1>5. ASSUME NEW c \in Calls, Alone(c), Opens(c) PROVE [Task!Next]_Task!vars
  BY <1>5, OpensRefines DEF Task!Next
<1>6. ASSUME NEW c \in Calls, Alone(c), Reads(c) PROVE [Task!Next]_Task!vars
  BY <1>6, ReadsRefines
<1>7. ASSUME NEW c \in Calls, Alone(c), NEW a, Replies(c, a) PROVE [Task!Next]_Task!vars
  BY <1>7, RepliesRefines DEF Task!Next
<1>8. ASSUME NEW c \in Calls, Alone(c), call' = call PROVE [Task!Next]_Task!vars
  <2>1. Committed' = Committed BY <1>8 DEF Alone, Committed
  <2>2. \A x \in Calls : Opened(x)' = Opened(x) /\ Phase(x)' = Phase(x)
    BY <1>8, <2>1 DEF Opened, Leads, Phase
  <2>3. phase' = phase /\ from' = from /\ answer' = answer
    BY <1>8, <2>2, Mapped
  <2>4. QED BY <1>8, <2>3 DEF Alone, Task!vars
<1>9. CASE UNCHANGED vars
  <2>1. call' = call /\ rec' = rec /\ saved' = saved BY <1>9 DEF vars
  <2>2. Committed' = Committed BY <2>1 DEF Committed
  <2>3. \A x \in Calls : Opened(x)' = Opened(x) /\ Phase(x)' = Phase(x)
    BY <2>1, <2>2 DEF Opened, Leads, Phase
  <2>4. phase' = phase /\ from' = from /\ answer' = answer
    BY <2>1, <2>3, Mapped
  <2>5. QED BY <2>1, <2>4 DEF Task!vars
<1>10. QED BY <1>1, <1>2, <1>3, <1>4, <1>5, <1>6, <1>7, <1>8, <1>9, StepForm DEF Next, Step

\* OwnInv holds in every reachable state.
LEMMA OwnHolds == Spec => []OwnInv
<1>1. Init => OwnInv
  <2>1. SUFFICES ASSUME Init, NEW c \in Calls PROVE Own(c)
    BY DEF OwnInv
  <2>2. call[c].pc = "new" /\ call[c].ans = NoAnswer /\ pub[c] = NoAnswer
    BY <2>1 DEF Init, NewCall
  <2>3. c \notin saved /\ rec.terminal.by # c
    BY <2>1, CallAssumption DEF Init, NoOutcome
  <2>4. QED BY <2>2, <2>3, AnswersCarry DEF Own
<1>2. TypeOK /\ CallShape /\ OwnInv /\ [Next]_vars => OwnInv'
  BY OwnStep
<1>3. QED BY <1>1, <1>2, TypeCorrect, PTL DEF Spec

\* The drivers implement ResumableTask: caches, in-flight maps, leaders that
\* fail and races that are lost never show, for any number of calls, drivers
\* and processes.
THEOREM ImplementsResumableTaskHolds == Spec => ImplementsResumableTask
<1>1. Init => Task!Init
  <2>1. SUFFICES ASSUME Init PROVE Task!Init
    OBVIOUS
  <2>2. rec.pause \in {NoCall, Earlier} /\ saved = {rec.pause} \ {NoCall} /\ rec.terminal = NoOutcome
    BY <2>1 DEF Init
  <2>3. \A x \in Calls : call[x].pc = "new"
    BY <2>1 DEF Init, NewCall
  <2>4. \A x \in Calls : ~Opened(x) /\ Phase(x) = "idle"
    BY <2>3 DEF Opened, Phase
  <2>5. Result(NoAnswer) = Task!NoAnswer
    BY DEF Result, NoAnswer, Task!NoAnswer, Task!NoOutcome, NoOutcome
  <2>6. /\ phase = [x \in Calls |-> "idle"] /\ from = [x \in Calls |-> NoCall]
        /\ answer = [x \in Calls |-> Task!NoAnswer]
    BY <2>3, <2>4, <2>5, Mapped
  <2>7. rec.terminal = Task!NoOutcome BY <2>2 DEF Task!NoOutcome, NoOutcome
  <2>8. QED BY <2>2, <2>6, <2>7 DEF Task!Init
<1>2. TypeOK /\ CallShape /\ AgreeInv /\ ChainInv /\ OwnInv /\ [Next]_vars =>
        [Task!Next]_Task!vars
  BY TaskStep
<1>3. QED BY <1>1, <1>2, TypeCorrect, AgreeHolds, SafetyHolds, OwnHolds, PTL
         DEF Spec, ImplementsResumableTask, Task!Spec
=============================================================================
