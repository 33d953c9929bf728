-------------------------- MODULE ModelCallProofs --------------------------
(***************************************************************************)
(* Theorems about ModelCall, for any models, chain, fallbacks, middleware  *)
(* and budgets.                                                            *)
(***************************************************************************)
EXTENDS ModelCall, WellFoundedInduction, TLAPS

USE ModelsAssumption, LimitsAssumption

-----------------------------------------------------------------------------
(* The chain.                                                              *)

\* A set of natural numbers that is not empty has a least element.
LEMMA LeastNatural ==
    ASSUME NEW T \in SUBSET Nat, T # {}
    PROVE  \E x \in T : \A y \in T : x <= y
<1> DEFINE Below == {p \in Nat \X Nat : p[1] < p[2]}
<1>1. IsWellFoundedOn(Below, Nat)
  BY NatLessThanWellFounded DEF OpToRel
<1>2. \A x, y \in Nat : y < x => <<y, x>> \in Below
  OBVIOUS
<1> HIDE DEF Below
<1>3. PICK x \in T : \A y \in T : ~ (<<y, x>> \in Below)
  BY <1>1, WFMin
<1>4. x \in Nat /\ \A y \in T : y \in Nat
  OBVIOUS
<1>5. \A y \in T : ~ (y < x) BY <1>2, <1>3, <1>4
<1>6. \A y \in T : x <= y BY <1>4, <1>5
<1>7. QED BY <1>6

\* What follows a name of the chain is a model, or nothing.
LEMMA NextAfterType ==
    ASSUME NEW name
    PROVE  NextAfter(name) \in Models \cup {NoModel}
<1> DEFINE at == {i \in DOMAIN Chain : Chain[i] = name}
           first == CHOOSE i \in at : \A j \in at : i <= j
<1>1. CASE at = {} BY <1>1 DEF NextAfter
<1>2. CASE at # {} /\ first = Len(Chain) BY <1>2 DEF NextAfter
<1>3. CASE at # {} /\ first # Len(Chain)
  <2>1. at \in SUBSET Nat /\ Len(Chain) \in Nat /\ DOMAIN Chain = 1 .. Len(Chain)
    BY ChainAssumption
  <2>2. \E i \in at : \A j \in at : i <= j BY <1>3, <2>1, LeastNatural
  <2>3. first \in at BY <2>2
  <2>4. first \in 1 .. Len(Chain) BY <2>1, <2>3
  <2>5. first + 1 \in 1 .. Len(Chain) BY <1>3, <2>1, <2>4
  <2>6. Chain[first + 1] \in Models BY <2>5, ChainAssumption
  <2>7. QED BY <1>3, <2>6 DEF NextAfter
<1>4. QED BY <1>1, <1>2, <1>3

\* Nothing follows a name that is none.
LEMMA NothingAfterNone == NextAfter(NoModel) = NoModel
  BY ChainAssumption, NamesAssumption DEF NextAfter

\* So is the next name of a walk.
LEMMA NextNameType == NextName \in Models \cup {NoModel}
<1>1. CASE cursor # ChainHead BY <1>1, NextAfterType DEF NextName
<1>2. CASE cursor = ChainHead
  <2>1. Chain # <<>> => Chain[1] \in Models BY ChainAssumption
  <2>2. QED BY <1>2, <2>1 DEF NextName
<1>3. QED BY <1>1, <1>2

-----------------------------------------------------------------------------
(* The steps, with the failures of an attempt told apart.                  *)

\* The error of a base call that fails.
Failed == Kinds \ {"ok"}

\* The base call fails, and no model is written off.
Falls(kind) ==
    /\ pc \notin {"idle", "returned", "pause"}
    /\ BaseFails(kind)
    /\ skipped' = skipped
    /\ strikes' \in [Models -> Nat]

\* An attempt fails and the same model is tried again.
TriesAgain(kind) ==
    /\ pc = "asking"
    /\ ScheduleRetry(kind)
    /\ strikes' \in [Models -> Nat]

\* An attempt fails and the chain is consulted.
Consults(kind) ==
    /\ pc = "asking"
    /\ ConsultChain(kind)
    /\ strikes' \in [Models -> Nat]

\* Every step is one of these.
LEMMA StepCases ==
    ASSUME TypeOK, pc = "selecting" => err # "ok", [Next]_vars
    PROVE  \/ \E r \in Requests : NextCall(r) \/ \E streams \in BOOLEAN : FirstCall(r, streams)
           \/ \E n \in 0..MaxDeltas : ServeHit(n)
           \/ \E kind \in Failed : Falls(kind)
           \/ \E kind \in Failed : TriesAgain(kind) \/ Consults(kind)
           \/ Miss \/ Ask \/ (\E blank \in BOOLEAN : Answers(blank)) \/ BackoffEnds
           \/ PassOver \/ FallBack \/ NoSubstitute \/ PauseEnds \/ CancelledInPause \/ Rebind
           \/ (\E b, c \in BOOLEAN : StreamItem(b, c))
           \/ Cancel \/ UNCHANGED vars
<1>1. ASSUME NEW kind \in {"transient", "fatal"}, ReplayFails(kind)
      PROVE  \E k \in Failed : Falls(k)
  <2>1. Falls(kind) BY <1>1 DEF ReplayFails, Falls, TypeOK
  <2>2. QED BY <2>1 DEF Failed, Kinds
<1>2. ASSUME CancelledBeforeAsking \/ CancelledInBackoff PROVE \E k \in Failed : Falls(k)
  <2>1. Falls("cancelled") BY <1>2 DEF CancelledBeforeAsking, CancelledInBackoff, Falls, TypeOK
  <2>2. QED BY <2>1 DEF Failed, Kinds
<1>3. ASSUME NEW kind \in Failed \ {"idle"}, AttemptFails(kind), strikes' \in [Models -> Nat]
      PROVE  \E k \in Failed : Falls(k) \/ TriesAgain(k) \/ Consults(k)
  <2>1. CASE ScheduleRetry(kind) BY <1>3, <2>1 DEF TriesAgain, AttemptFails
  <2>2. CASE ConsultChain(kind) BY <1>3, <2>2 DEF Consults, AttemptFails
  <2>3. CASE Surfaces(kind)
    <3>1. Falls(IF Tripped(kind) THEN "idle" ELSE kind)
      BY <1>3, <2>3 DEF Surfaces, Falls, AttemptFails
    <3>2. (IF Tripped(kind) THEN "idle" ELSE kind) \in Failed BY DEF Failed, Kinds
    <3>3. QED BY <3>1, <3>2
  <2>4. QED BY <1>3, <2>1, <2>2, <2>3 DEF AttemptFails
<1>4. ASSUME \/ \E kind \in {"transient", "fatal", "authpermanent", "overflow", "limit"} :
                   ProviderFails(kind)
             \/ \E kind \in {"timeout", "calltimeout"} : RunsOut(kind)
             \/ GoesIdle \/ CancelledWhileAsking
      PROVE  \E k \in Failed : Falls(k) \/ TriesAgain(k) \/ Consults(k)
  <2>1. ASSUME GoesIdle PROVE strikes' \in [Models -> Nat]
    <3>1. strikes' = [strikes EXCEPT ![cur] =
                         IF strikes[cur] < MaxIdle THEN strikes[cur] + 1 ELSE strikes[cur]]
      BY <2>1 DEF GoesIdle
    <3>2. strikes \in [Models -> Nat] BY DEF TypeOK
    <3>3. CASE cur \in Models BY <3>1, <3>2, <3>3
    <3>4. CASE cur \notin Models BY <3>1, <3>2, <3>4
    <3>5. QED BY <3>3, <3>4
  <2>2. ASSUME NEW kind, UNCHANGED strikes PROVE strikes' \in [Models -> Nat]
    BY <2>2 DEF TypeOK
  <2>3. \A kind \in {"transient", "fatal", "authpermanent", "overflow", "limit", "timeout",
                     "calltimeout", "cancelled"} : kind \in Failed \ {"idle"}
    BY DEF Failed, Kinds
  <2>4. QED BY <1>3, <1>4, <2>1, <2>2, <2>3
            DEF ProviderFails, RunsOut, GoesIdle, CancelledWhileAsking
<1>5. ASSUME ChainExhausted PROVE \E k \in Failed : Falls(k)
  <2>1. Falls(err) BY <1>5 DEF ChainExhausted, Falls, TypeOK
  <2>2. err \in Failed BY <1>5 DEF ChainExhausted, Failed, TypeOK
  <2>3. QED BY <2>1, <2>2
<1>6. ASSUME SelectionFails PROVE \E k \in Failed : Falls(k)
  <2>1. PICK kind \in {"transient", "fatal", "timeout"}
                       \cup (IF cancelled THEN {"cancelled"} ELSE {}) : BaseFails(kind)
    BY <1>6 DEF SelectionFails
  <2>2. Falls(kind) BY <1>6, <2>1 DEF SelectionFails, Selecting, Falls, TypeOK
  <2>3. QED BY <2>1, <2>2 DEF Failed, Kinds
<1>7. ASSUME RebindFails PROVE \E k \in Failed : Falls(k)
  <2>1. PICK kind \in {"timeout", "calltimeout"} \cup (IF cancelled THEN {"cancelled"} ELSE {})
                   \cup (IF harness.hosted THEN {"transient", "fatal"} ELSE {}) : BaseFails(kind)
    BY <1>7 DEF RebindFails
  <2>2. Falls(kind) BY <1>7, <2>1 DEF RebindFails, Falls, TypeOK
  <2>3. QED BY <2>1, <2>2 DEF Failed, Kinds
<1>8. ASSUME NEW b \in {<<TRUE, TRUE>>, <<TRUE, FALSE>>, <<FALSE, TRUE>>}, StreamItem(b[1], b[2])
      PROVE  \E c, d \in BOOLEAN : StreamItem(c, d)
  <2>1. CASE b = <<TRUE, TRUE>> BY <1>8, <2>1
  <2>2. CASE b = <<TRUE, FALSE>> BY <1>8, <2>2
  <2>3. CASE b = <<FALSE, TRUE>> BY <1>8, <2>3
  <2>4. QED BY <2>1, <2>2, <2>3
<1>9. QED BY <1>1, <1>2, <1>4, <1>5, <1>6, <1>7, <1>8 DEF Next

-----------------------------------------------------------------------------
(* Types, and what the phases of a call know.                              *)

\* An attempt is being made or chosen.
Walking == pc \in {"skipping", "try", "asking", "backoff", "selecting"}

\* Under way, a call is bound; while attempts are made or chosen a model is in
\* hand; an error is in hand while the chain is consulted; and only the
\* middleware that retries or falls back comes between two base calls.
PhaseInv ==
    /\ pc \notin {"idle", "returned"} => call \in Requests /\ target \in Models
    /\ Walking => cur \in Models
    /\ pc = "selecting" => err # "ok"
    /\ pc \notin {"selecting", "returned"} => err = "ok"
    /\ pc = "pause" => harness.wrap = "retry"
    /\ pc = "rebind" => harness.wrap = "fallback"

\* What a consumer can hold, and an entry of the cache.
View == [stale : BOOLEAN, shown : Nat, sent : Nat]
Entry == [by : Models \cup {NoModel}, streamed : BOOLEAN, blank : BOOLEAN]

LEMMA ConstantTypes ==
    /\ NothingSeen \in View
    /\ NoEntry \in Entry
    /\ NoAnswer \in [by : Models \cup {NoModel}, blank : BOOLEAN, cached : BOOLEAN]
<1>1. NothingSeen \in View BY DEF NothingSeen, View
<1>2. NoEntry \in Entry BY DEF NoEntry, Entry
<1>3. NoAnswer \in [by : Models \cup {NoModel}, blank : BOOLEAN, cached : BOOLEAN]
  BY DEF NoAnswer
<1>4. QED BY <1>1, <1>2, <1>3

LEMMA ViewTypes ==
    ASSUME view \in View, NEW n \in Nat
    PROVE  /\ Discarded \in View /\ Reopened \in View /\ Marked \in View
           /\ Replayed(n) \in View /\ [view EXCEPT !.shown = @ + 1, !.sent = @ + 1] \in View
<1>1. view.stale \in BOOLEAN /\ view.shown \in Nat /\ view.sent \in Nat BY DEF View
<1>2. Discarded \in View BY DEF Discarded, View
<1>3. Reopened \in View
  <2> DEFINE left == view.stale \/ view.shown > 0
  <2>1. left \in BOOLEAN OBVIOUS
  <2>2. Reopened = [stale |-> left, shown |-> 0, sent |-> 0] BY DEF Reopened
  <2> HIDE DEF left
  <2>3. QED BY <2>1, <2>2 DEF View
<1>4. [Reopened EXCEPT !.shown = n, !.sent = n] \in View BY <1>3 DEF View
<1>5. [view EXCEPT !.shown = @ + 1, !.sent = @ + 1] \in View
  <2> DEFINE more == view.shown + 1
             all == view.sent + 1
  <2>1. more \in Nat /\ all \in Nat BY <1>1
  <2>2. [view EXCEPT !.shown = @ + 1, !.sent = @ + 1] = [view EXCEPT !.shown = more, !.sent = all]
    BY DEF View
  <2> HIDE DEF more, all
  <2>3. [view EXCEPT !.shown = more, !.sent = all] \in View BY <2>1 DEF View
  <2>4. QED BY <2>2, <2>3
<1>6. QED BY <1>2, <1>3, <1>4, <1>5 DEF Marked, Replayed

\* The key of a bound call.
LEMMA KeyType ==
    ASSUME target \in Models, streaming \in BOOLEAN
    PROVE  Key \in Keys /\ Key[1] = FoldedIdentity(target) /\ Key[2] = streaming
  BY DEF Key, Keys

\* Every step keeps the types and the phases.
LEMMA TypeStep ==
    ASSUME TypeOK, PhaseInv, [Next]_vars
    PROVE  TypeOK' /\ PhaseInv'
<1> USE DEF Walking
<1>1. ASSUME NEW r \in Requests, NextCall(r) \/ \E streams \in BOOLEAN : FirstCall(r, streams)
      PROVE  TypeOK' /\ PhaseInv'
  <2>1. r.bound \in Models BY DEF Requests
  <2>2. Begins(r) /\ harness' = harness /\ cancelled' \in BOOLEAN /\ streaming' \in BOOLEAN
    <3>1. CASE NextCall(r) BY <3>1, Zenon DEF TypeOK, NextCall
    <3>2. CASE \E streams \in BOOLEAN : FirstCall(r, streams)
      BY <3>2, Zenon DEF TypeOK, FirstCall
    <3>3. QED BY <1>1, <3>1, <3>2
  <2>5. strikes' \in [Models -> Nat] /\ skipped' \subseteq Models
    BY <1>1 DEF TypeOK, NextCall, FirstCall
  <2>3. /\ view' \in View /\ asks' \in [Models -> Nat]
        /\ answer' \in [by : Models \cup {NoModel}, blank : BOOLEAN, cached : BOOLEAN]
    BY <2>2, ConstantTypes DEF Begins
  <2>4. /\ pc' = "lookup" /\ call' = r /\ target' = r.bound /\ tries' = 0 /\ err' = "ok"
        /\ calls' \in Nat
        /\ UNCHANGED <<cur, visited, cursor, attempt, emitted, cache>>
    BY <2>2 DEF Begins, TypeOK, locals
  <2>6. TypeOK' BY <2>1, <2>2, <2>3, <2>4, <2>5 DEF TypeOK, View, Kinds, PCs
  <2>7. PhaseInv' BY <2>1, <2>4 DEF PhaseInv
  <2>8. QED BY <2>6, <2>7
<1>2. ASSUME NEW n \in 0..MaxDeltas, ServeHit(n) PROVE TypeOK' /\ PhaseInv'
  <2>0. Key \in Keys BY <1>2, KeyType DEF TypeOK, PhaseInv, ServeHit
  <2>1. cache[Key] \in Entry BY <2>0 DEF TypeOK, Entry
  <2>2. answer' \in [by : Models \cup {NoModel}, blank : BOOLEAN, cached : BOOLEAN]
    BY <1>2, <2>1 DEF ServeHit, BaseAnswers, Entry
  <2>3. view' \in View BY <1>2, ViewTypes DEF TypeOK, ServeHit, View
  <2>4. QED BY <1>2, <2>2, <2>3 DEF TypeOK, PhaseInv, ServeHit, BaseAnswers, Unwinds, request,
                                    View, Kinds, PCs
<1>3. ASSUME NEW kind \in Failed, Falls(kind) PROVE TypeOK' /\ PhaseInv'
  <2>1. Unwinds /\ UNCHANGED <<harness, streaming, call, calls, answer, cache, cancelled, skipped>>
    BY <1>3 DEF Falls, BaseFails, request
  <2>2. view' \in [stale : BOOLEAN, shown : Nat, sent : Nat] /\ asks' \in [Models -> Nat]
        /\ tries' \in Nat
    <3>1. view \in View BY DEF TypeOK, View
    <3>2. Discarded \in View BY <3>1, ViewTypes
    <3>3. view' \in View
      BY <1>3, <3>1, <3>2, ConstantTypes DEF Falls, BaseFails, RetryBase, SelectFallback, CallFails
    <3>4. asks' \in [Models -> Nat] /\ tries' \in Nat
      <4>1. CASE RetryBase(kind) BY <4>1 DEF RetryBase, TypeOK
      <4>2. CASE SelectFallback(kind) BY <4>2 DEF SelectFallback, TypeOK
      <4>3. CASE CallFails(kind) BY <4>3 DEF CallFails
      <4>4. QED BY <1>3, <4>1, <4>2, <4>3 DEF Falls, BaseFails
    <3>5. QED BY <3>3, <3>4 DEF View
  <2>3. CASE RetryBase(kind)
    BY <1>3, <2>1, <2>2, <2>3 DEF Falls, RetryBase, Unwinds, TypeOK, PhaseInv, Kinds, PCs
  <2>4. CASE SelectFallback(kind)
    BY <1>3, <2>1, <2>2, <2>4 DEF Falls, SelectFallback, Unwinds, TypeOK, PhaseInv, Kinds, PCs
  <2>5. CASE CallFails(kind)
    BY <1>3, <2>1, <2>2, <2>5 DEF Falls, CallFails, Unwinds, TypeOK, PhaseInv, Failed, PCs
  <2>6. QED BY <1>3, <2>3, <2>4, <2>5 DEF Falls, BaseFails
<1>4. ASSUME NEW kind \in Failed, TriesAgain(kind) PROVE TypeOK' /\ PhaseInv'
  <2>0. view \in View BY DEF TypeOK, View
  <2>1. view' \in View BY <1>4, <2>0, ViewTypes DEF TriesAgain, ScheduleRetry
  <2>2. /\ pc' = "backoff" /\ attempt' \in Nat /\ emitted' = 0 /\ strikes' \in [Models -> Nat]
        /\ UNCHANGED <<harness, streaming, call, calls, target, cur, visited, cursor, tries, asks,
                       err, answer, skipped, cache, cancelled>>
    BY <1>4 DEF TriesAgain, ScheduleRetry, TypeOK, request
  <2>3. TypeOK' BY <2>1, <2>2 DEF TypeOK, View, PCs
  <2>4. PhaseInv' BY <1>4, <2>2 DEF TriesAgain, PhaseInv
  <2>5. QED BY <2>3, <2>4
<1>5. ASSUME NEW kind \in Failed, Consults(kind) PROVE TypeOK' /\ PhaseInv'
  <2>1. cursor' \in Models \cup {NoModel, ChainHead} /\ skipped' \subseteq Models
    BY <1>5 DEF Consults, ConsultChain, WalkFrom, TypeOK, PhaseInv
  <2>2. err' \in Kinds /\ err' # "ok"
    BY <1>5 DEF Consults, ConsultChain, Failed, Kinds
  <2>3. QED BY <1>5, <2>1, <2>2 DEF Consults, ConsultChain, TypeOK, PhaseInv, request, PCs
<1>6. CASE Miss
  <2>1. cursor' \in Models \cup {NoModel, ChainHead}
    BY <1>6 DEF Miss, WalkFrom, PhaseInv
  <2>2. pc' \in {"skipping", "try"} BY <1>6 DEF Miss
  <2>3. QED BY <1>6, <2>1, <2>2 DEF Miss, TypeOK, PhaseInv, request, runVars, PCs
<1>7. CASE Ask
  <2>1. view' \in View BY <1>7, ViewTypes DEF Ask, TypeOK, View
  <2>2. QED BY <1>7, <2>1 DEF Ask, TypeOK, PhaseInv, View, locals, request, runVars, PCs
<1>8. ASSUME NEW blank \in BOOLEAN, Answers(blank) PROVE TypeOK' /\ PhaseInv'
  <2>1. cache' \in [Keys -> [by : Models \cup {NoModel}, streamed : BOOLEAN, blank : BOOLEAN]]
    <3>1. [by |-> cur, streamed |-> streaming, blank |-> blank] \in Entry
      BY <1>8 DEF TypeOK, Entry
    <3>2. cache \in [Keys -> Entry] BY DEF TypeOK, Entry
    <3>3. cache' \in [Keys -> Entry] BY <1>8, <3>1, <3>2 DEF Answers
    <3>4. QED BY <3>3 DEF Entry
  <2>2. strikes' \in [Models -> Nat] BY <1>8 DEF Answers, TypeOK
  <2>3. QED BY <1>8, <2>1, <2>2 DEF Answers, BaseAnswers, Unwinds, TypeOK, PhaseInv, request,
                                    Kinds, PCs
<1>9. CASE BackoffEnds \/ PauseEnds \/ Cancel
  BY <1>9 DEF BackoffEnds, PauseEnds, Cancel, TypeOK, PhaseInv, locals, request, runVars, PCs
<1>10. CASE PassOver
  <2>1. NextName \in Models BY <1>10, NextNameType DEF PassOver, Remains
  <2>2. visited' \subseteq Models /\ cursor' \in Models
    BY <1>10, <2>1 DEF PassOver, TypeOK
  <2>3. QED BY <1>10, <2>2 DEF PassOver, Selecting, TypeOK, PhaseInv, request, runVars
<1>11. CASE FallBack
  <2>1. NextName \in Models BY <1>11, NextNameType DEF FallBack, Remains
  <2>2. view' \in [stale : BOOLEAN, shown : Nat, sent : Nat]
    BY <1>11, ViewTypes DEF FallBack, TypeOK, View
  <2>3. QED BY <1>11, <2>1, <2>2 DEF FallBack, Selecting, TypeOK, PhaseInv, request, runVars,
                                     Kinds, PCs
<1>12. CASE NoSubstitute
  BY <1>12 DEF NoSubstitute, TypeOK, PhaseInv, request, runVars, PCs
<1>13. CASE CancelledInPause
  BY <1>13 DEF CancelledInPause, CallFails, TypeOK, PhaseInv, NothingSeen, locals, request,
               runVars, Kinds, PCs
<1>14. CASE Rebind
  <2>1. target' \in Models BY <1>14 DEF Rebind, PhaseInv, Requests
  <2>2. QED BY <1>14, <2>1 DEF Rebind, TypeOK, PhaseInv, locals, request, runVars, PCs
<1>15. ASSUME NEW b \in BOOLEAN, NEW c \in BOOLEAN, StreamItem(b, c) PROVE TypeOK' /\ PhaseInv'
  <2>1. /\ view' \in [stale : BOOLEAN, shown : Nat, sent : Nat]
        /\ emitted' \in Nat /\ strikes' \in [Models -> Nat]
    <3>1. view \in View BY DEF TypeOK, View
    <3>2. view' \in View BY <1>15, <3>1, ViewTypes DEF StreamItem
    <3>3. emitted' \in Nat BY <1>15 DEF StreamItem, TypeOK
    <3>4. strikes' \in [Models -> Nat] BY <1>15 DEF StreamItem, TypeOK
    <3>5. QED BY <3>2, <3>3, <3>4 DEF View
  <2>2. QED BY <1>15, <2>1 DEF StreamItem, TypeOK, PhaseInv, request
<1>16. CASE UNCHANGED vars
  BY <1>16 DEF vars, TypeOK, PhaseInv, locals, request, runVars
<1>17. QED BY <1>1, <1>2, <1>3, <1>4, <1>5, <1>6, <1>7, <1>8, <1>9, <1>10, <1>11, <1>12, <1>13,
              <1>14, <1>15, <1>16, StepCases DEF PhaseInv

\* The state of a call keeps its type, and each phase of invoke_model_resolving
\* its bound model, walk and counters.
THEOREM TypeCorrect == Spec => [](TypeOK /\ PhaseInv)
<1>1. Init => TypeOK /\ PhaseInv
  <2> SUFFICES ASSUME Init PROVE TypeOK /\ PhaseInv
    OBVIOUS
  <2>1. /\ view \in View /\ cache \in [Keys -> Entry]
        /\ answer \in [by : Models \cup {NoModel}, blank : BOOLEAN, cached : BOOLEAN]
    BY ConstantTypes DEF Init
  <2>2. streaming \in BOOLEAN /\ cancelled \in BOOLEAN BY Zenon DEF Init
  <2>3. TypeOK BY <2>1, <2>2 DEF Init, TypeOK, View, Entry, Kinds, PCs
  <2>4. PhaseInv BY DEF Init, PhaseInv, Walking
  <2>5. QED BY <2>3, <2>4
<1>2. TypeOK /\ PhaseInv /\ [Next]_vars => TypeOK' /\ PhaseInv'
  BY TypeStep
<1>3. QED BY <1>1, <1>2, PTL DEF Spec

-----------------------------------------------------------------------------
(* The cache.                                                              *)

\* What a step that neither answers nor begins a call leaves: the cache, and no
\* answer where there was none.
LEMMA NoAnswerStep ==
    ASSUME CacheKeepsItsModel, cache' = cache, pc' # "returned" \/ err' # "ok"
    PROVE  CacheKeepsItsModel'
  BY DEF CacheKeepsItsModel

\* Every step keeps the cache right.
LEMMA CacheStep ==
    ASSUME TypeOK, PhaseInv, CacheKeepsItsModel, [Next]_vars
    PROVE  CacheKeepsItsModel'
<1>1. ASSUME NEW r \in Requests, NextCall(r) \/ \E streams \in BOOLEAN : FirstCall(r, streams)
      PROVE  CacheKeepsItsModel'
  BY <1>1, NoAnswerStep DEF NextCall, FirstCall, Begins
<1>2. ASSUME NEW n \in 0..MaxDeltas, ServeHit(n) PROVE CacheKeepsItsModel'
  <2>1. Key \in Keys /\ Key[1] = FoldedIdentity(target)
    BY <1>2, KeyType DEF ServeHit, TypeOK, PhaseInv
  <2>2. /\ cache' = cache /\ target' = target /\ call' = call
        /\ answer'.by = cache[Key].by /\ answer'.blank = cache[Key].blank
    BY <1>2 DEF ServeHit, BaseAnswers, request
  <2>3. /\ FoldedIdentity(cache[Key].by) = FoldedIdentity(target)
        /\ call.strict => ~cache[Key].blank
    BY <1>2, <2>1 DEF ServeHit, Hit, CacheKeepsItsModel
  <2>4. QED BY <2>2, <2>3 DEF CacheKeepsItsModel
<1>3. ASSUME NEW kind \in Failed, Falls(kind) PROVE CacheKeepsItsModel'
  <2>1. cache' = cache BY <1>3 DEF Falls, BaseFails
  <2>2. CASE RetryBase(kind) BY <2>1, <2>2, NoAnswerStep DEF RetryBase
  <2>3. CASE SelectFallback(kind) BY <2>1, <2>3, NoAnswerStep DEF SelectFallback
  <2>4. CASE CallFails(kind) BY <2>1, <2>4, NoAnswerStep DEF CallFails, Failed
  <2>5. QED BY <1>3, <2>2, <2>3, <2>4 DEF Falls, BaseFails
<1>4. ASSUME NEW blank \in BOOLEAN, Answers(blank) PROVE CacheKeepsItsModel'
  <2>1. answer'.cached = FALSE BY <1>4 DEF Answers, BaseAnswers
  <2>2. ASSUME NEW k \in Keys, cache'[k] # NoEntry
        PROVE  FoldedIdentity(cache'[k].by) = k[1] /\ cache'[k].streamed = k[2]
    <3>1. CASE cache'[k] = cache[k] BY <2>2, <3>1 DEF CacheKeepsItsModel
    <3>2. CASE cache'[k] # cache[k]
      <4>1. /\ k = Key /\ Keeps(blank)
            /\ cache'[k] = [by |-> cur, streamed |-> streaming, blank |-> blank]
        BY <1>4, <3>2 DEF Answers, TypeOK
      <4>2. QED BY <4>1 DEF Keeps, Key
    <3>3. QED BY <3>1, <3>2
  <2>3. QED BY <2>1, <2>2 DEF CacheKeepsItsModel
<1>5. CASE CancelledInPause
  BY <1>5, NoAnswerStep DEF CancelledInPause, CallFails, runVars
<1>6. ASSUME \/ \E kind \in Failed : TriesAgain(kind) \/ Consults(kind)
             \/ Miss \/ Ask \/ BackoffEnds \/ PassOver \/ FallBack \/ NoSubstitute \/ PauseEnds
             \/ Rebind \/ (\E b, c \in BOOLEAN : StreamItem(b, c)) \/ Cancel
      PROVE  CacheKeepsItsModel'
  <2>1. cache' = cache
    BY <1>6 DEF TriesAgain, ScheduleRetry, Consults, ConsultChain, Miss, Ask, BackoffEnds,
                PassOver, FallBack, NoSubstitute, PauseEnds, Rebind, StreamItem, Cancel, runVars
  <2>2. pc' # "returned"
    BY <1>6 DEF TriesAgain, ScheduleRetry, Consults, ConsultChain, Miss, Ask, BackoffEnds,
                PassOver, FallBack, NoSubstitute, PauseEnds, Rebind, StreamItem, Cancel, Selecting
  <2>3. QED BY <2>1, <2>2, NoAnswerStep
<1>7. CASE UNCHANGED vars
  BY <1>7 DEF vars, CacheKeepsItsModel, runVars, request
<1>8. QED BY <1>1, <1>2, <1>3, <1>4, <1>5, <1>6, <1>7, StepCases DEF PhaseInv

\* A key of the response cache holds only what a model of its own identity
\* answered in its own mode, and a hit is never the answer of a model the key
\* tells apart nor a blank the request would retry, whichever fallbacks
\* answered in between: for any assignment of identities, shared ones and the
\* marker of the models that declare none included.
THEOREM CacheKeepsItsModelHolds == Spec => []CacheKeepsItsModel
<1>1. Init => CacheKeepsItsModel
  BY DEF Init, CacheKeepsItsModel
<1>2. TypeOK /\ PhaseInv /\ CacheKeepsItsModel /\ [Next]_vars => CacheKeepsItsModel'
  BY CacheStep
<1>3. QED BY <1>1, <1>2, TypeCorrect, PTL DEF Spec

-----------------------------------------------------------------------------
(* The attempts.                                                           *)

\* Base calls that RetryMiddleware has seen fail.
Before == IF harness.wrap = "retry" THEN tries ELSE 0

\* Attempts the layer that retries allows.
Allowed == IF harness.wrap = "retry" THEN MaxTries ELSE MaxAttempts

\* Attempts one base call makes on one model.
PerBase == IF harness.wrap = "retry" THEN 1 ELSE MaxAttempts

\* The budget, spent by base calls seen to fail and by the one under way: it
\* asks a model it has not met yet no more often than the earlier ones did.
AskInv ==
    /\ Before + PerBase <= Allowed
    /\ ~Walking => \A m \in Models : asks[m] <= Before
    /\ Walking =>
          /\ cur \in visited
          /\ attempt < PerBase
          /\ \A m \in Models : asks[m] <= Before + PerBase
          /\ \A m \in Models \ visited : asks[m] <= Before
          /\ asks[cur] <= Before + attempt + (IF pc \in {"asking", "selecting"} THEN 1 ELSE 0)

\* Every step stays within the budget.
LEMMA AskStep ==
    ASSUME TypeOK, PhaseInv, TypeOK', PhaseInv', AskInv, [Next]_vars
    PROVE  AskInv'
<1>0. /\ Before \in Nat /\ PerBase \in Nat /\ asks \in [Models -> Nat] /\ attempt \in Nat
      /\ tries \in Nat
  BY DEF TypeOK, Before, PerBase
<1>1. ASSUME NEW r \in Requests, NextCall(r) \/ \E streams \in BOOLEAN : FirstCall(r, streams)
      PROVE  AskInv'
  <2>1. asks' = [m \in Models |-> 0] /\ tries' = 0 /\ pc' = "lookup" /\ harness' = harness
    BY <1>1 DEF NextCall, FirstCall, Begins
  <2>2. QED BY <2>1 DEF AskInv, Before, PerBase, Allowed, Walking
<1>2. ASSUME NEW n \in 0..MaxDeltas, ServeHit(n) PROVE AskInv'
  <2>1. asks' = [m \in Models |-> 0] /\ tries' = 0 /\ pc' = "returned" /\ harness' = harness
    BY <1>2 DEF ServeHit, BaseAnswers, request
  <2>2. QED BY <2>1 DEF AskInv, Before, PerBase, Allowed, Walking
<1>3. ASSUME NEW blank \in BOOLEAN, Answers(blank) PROVE AskInv'
  <2>1. asks' = [m \in Models |-> 0] /\ tries' = 0 /\ pc' = "returned" /\ harness' = harness
    BY <1>3 DEF Answers, BaseAnswers, request
  <2>2. QED BY <2>1 DEF AskInv, Before, PerBase, Allowed, Walking
<1>4. ASSUME NEW kind, CallFails(kind), harness' = harness PROVE AskInv'
  <2>1. asks' = [m \in Models |-> 0] /\ tries' = 0 /\ pc' = "returned"
    BY <1>4 DEF CallFails
  <2>2. QED BY <1>4, <2>1 DEF AskInv, Before, PerBase, Allowed, Walking
<1>5. ASSUME NEW kind \in Failed, Falls(kind) PROVE AskInv'
  <2>1. harness' = harness BY <1>5 DEF Falls, BaseFails, request
  <2>2. CASE RetryBase(kind)
    <3>1. /\ harness.wrap = "retry" /\ tries + 1 < MaxTries /\ tries' = tries + 1
          /\ pc' = "pause" /\ asks' = asks
      BY <2>2 DEF RetryBase
    <3>2. \A m \in Models : asks[m] <= tries + 1
      BY <1>0, <3>1 DEF AskInv, Before, PerBase, Allowed
    <3>3. QED BY <1>0, <2>1, <3>1, <3>2 DEF AskInv, Before, PerBase, Allowed, Walking
  <2>3. CASE SelectFallback(kind)
    <3>1. /\ harness.wrap = "fallback" /\ asks' = [m \in Models |-> 0] /\ pc' = "rebind"
      BY <2>3 DEF SelectFallback
    <3>2. QED BY <2>1, <3>1 DEF AskInv, Before, PerBase, Allowed, Walking
  <2>4. CASE CallFails(kind) BY <1>4, <2>1, <2>4
  <2>5. QED BY <1>5, <2>2, <2>3, <2>4 DEF Falls, BaseFails
<1>6. ASSUME NEW kind \in Failed, TriesAgain(kind) PROVE AskInv'
  <2>1. /\ pc = "asking" /\ attempt + 1 < MaxAttempts /\ harness.wrap # "retry"
        /\ attempt' = attempt + 1 /\ pc' = "backoff"
        /\ UNCHANGED <<harness, tries, asks, cur, visited>>
    BY <1>6 DEF TriesAgain, ScheduleRetry, RetrySame, request
  <2>2. QED BY <1>0, <2>1 DEF AskInv, Before, PerBase, Allowed, Walking
<1>7. ASSUME NEW kind \in Failed, Consults(kind) PROVE AskInv'
  <2>1. pc = "asking" /\ pc' = "selecting" /\ UNCHANGED <<harness, tries, asks, cur, visited, attempt>>
    BY <1>7 DEF Consults, ConsultChain, request
  <2>2. QED BY <2>1 DEF AskInv, Before, PerBase, Allowed, Walking
<1>8. CASE Miss
  <2>1. /\ pc = "lookup" /\ pc' \in {"skipping", "try"} /\ cur' = target /\ visited' = {target}
        /\ attempt' = 0 /\ UNCHANGED <<harness, tries, asks>> /\ target \in Models
    BY <1>8 DEF Miss, request, PhaseInv
  <2>2. PerBase > 0 BY DEF PerBase
  <2>3. QED BY <1>0, <2>1, <2>2 DEF AskInv, Before, PerBase, Allowed, Walking
<1>9. CASE Ask
  <2>1. /\ pc = "try" /\ pc' = "asking" /\ asks' = [asks EXCEPT ![cur] = @ + 1] /\ cur \in Models
        /\ UNCHANGED <<harness, tries, cur, visited, attempt>>
    BY <1>9 DEF Ask, request, locals, PhaseInv, Walking
  <2>2. /\ asks'[cur] = asks[cur] + 1 /\ asks[cur] <= Before + attempt /\ attempt < PerBase
        /\ cur \in visited /\ \A m \in Models : m # cur => asks'[m] = asks[m]
    BY <1>0, <2>1 DEF AskInv, Walking
  <2>3. asks'[cur] <= Before + attempt + 1 /\ asks'[cur] <= Before + PerBase
    BY <1>0, <2>1, <2>2
  <2>4. QED BY <1>0, <2>1, <2>2, <2>3 DEF AskInv, Before, PerBase, Allowed, Walking
<1>10. CASE PassOver
  <2>1. /\ pc' = pc /\ visited' = visited \cup {NextName}
        /\ UNCHANGED <<harness, tries, asks, cur, attempt>>
    BY <1>10 DEF PassOver, request
  <2>2. QED BY <2>1 DEF AskInv, Before, PerBase, Allowed, Walking
<1>11. CASE FallBack
  <2>1. /\ Walking /\ pc' = "try" /\ visited' = visited \cup {NextName} /\ cur' = NextName
        /\ NextName \in Models \ visited /\ attempt' = 0 /\ UNCHANGED <<harness, tries, asks>>
    BY <1>11, NextNameType DEF FallBack, Selecting, Remains, Walking, request
  <2>2. PerBase > 0 BY DEF PerBase
  <2>3. asks[NextName] <= Before BY <2>1 DEF AskInv
  <2>4. QED BY <1>0, <2>1, <2>2, <2>3 DEF AskInv, Before, PerBase, Allowed, Walking
<1>12. CASE NoSubstitute \/ BackoffEnds
  <2>1. /\ pc \in {"skipping", "backoff"} /\ pc' = "try"
        /\ UNCHANGED <<harness, tries, asks, cur, visited, attempt>>
    BY <1>12 DEF NoSubstitute, BackoffEnds, request, locals
  <2>2. QED BY <1>0, <2>1 DEF AskInv, Before, PerBase, Allowed, Walking
<1>13. CASE PauseEnds \/ Rebind
  <2>1. pc \in {"pause", "rebind"} /\ pc' = "lookup" /\ UNCHANGED <<harness, tries, asks>>
    BY <1>13 DEF PauseEnds, Rebind, request
  <2>2. QED BY <2>1 DEF AskInv, Before, PerBase, Allowed, Walking
<1>14. CASE CancelledInPause
  BY <1>4, <1>14 DEF CancelledInPause, request
<1>15. CASE (\E b, c \in BOOLEAN : StreamItem(b, c)) \/ Cancel \/ UNCHANGED vars
  <2>1. UNCHANGED <<pc, harness, tries, asks, cur, visited, attempt>>
    BY <1>15 DEF StreamItem, Cancel, vars, request, locals
  <2>2. QED BY <2>1 DEF AskInv, Before, PerBase, Allowed, Walking
<1>16. QED BY <1>1, <1>2, <1>3, <1>5, <1>6, <1>7, <1>8, <1>9, <1>10, <1>11, <1>12, <1>13, <1>14,
              <1>15, StepCases DEF PhaseInv

\* Retries do not multiply: the loop of attempts, the repeated names of the chain
\* and RetryMiddleware together ask a model no more often than the one layer
\* that retries allows, for any two budgets of the loop and the middleware.
THEOREM AttemptsBoundedHolds == Spec => []AttemptsBounded
<1>1. Init => AskInv
  BY DEF Init, AskInv, Before, PerBase, Allowed, Walking
<1>2. TypeOK /\ AskInv => AttemptsBounded
  <2> SUFFICES ASSUME TypeOK, AskInv, NEW m \in Models PROVE asks[m] <= Allowed
    BY DEF AttemptsBounded, Allowed
  <2>1. Before \in Nat /\ PerBase \in Nat /\ Allowed \in Nat /\ asks[m] \in Nat
    BY DEF TypeOK, Before, PerBase, Allowed
  <2>2. asks[m] <= Before + PerBase /\ Before + PerBase <= Allowed BY <2>1 DEF AskInv
  <2>3. QED BY <2>1, <2>2
<1>3. TypeOK /\ PhaseInv /\ TypeOK' /\ PhaseInv' /\ AskInv /\ [Next]_vars => AskInv'
  BY AskStep
<1>4. QED BY <1>1, <1>2, <1>3, TypeCorrect, PTL DEF Spec

-----------------------------------------------------------------------------
(* What the consumer of a stream holds.                                    *)

\* Between attempts the consumer holds nothing; during one, and until a
\* substitute is chosen, exactly what the attempt emitted.
ViewInv ==
    (streaming /\ harness.wrap # "fallback") =>
        /\ pc \in {"lookup", "pause", "skipping", "try", "backoff"} =>
              ~view.stale /\ view.shown = 0
        /\ pc \in {"skipping", "try", "backoff"} => emitted = 0
        /\ pc \in {"asking", "selecting"} =>
              ~view.stale /\ view.shown = view.sent /\ view.sent = emitted
        /\ FragmentsAreTheAnswers


LEMMA ViewFields ==
    ASSUME view \in View
    PROVE  /\ Discarded.stale = FALSE /\ Discarded.shown = 0
           /\ ~view.stale /\ view.shown = 0 => ~Reopened.stale
           /\ Reopened.shown = 0 /\ Reopened.sent = 0
           /\ \A n \in Nat : LET v == [Reopened EXCEPT !.shown = n, !.sent = n]
                             IN  v.stale = Reopened.stale /\ v.shown = n /\ v.sent = n
<1>1. Discarded.stale = FALSE /\ Discarded.shown = 0 BY DEF Discarded, View
<1>2. Reopened.shown = 0 /\ Reopened.sent = 0 BY DEF Reopened
<1>5. ASSUME ~view.stale, view.shown = 0 PROVE ~Reopened.stale
  <2> DEFINE left == view.stale \/ view.shown > 0
  <2>1. ~left BY <1>5
  <2>2. Reopened = [stale |-> left, shown |-> 0, sent |-> 0] BY DEF Reopened
  <2> HIDE DEF left
  <2>3. QED BY <2>1, <2>2
<1>3. ASSUME NEW n \in Nat
      PROVE  LET v == [Reopened EXCEPT !.shown = n, !.sent = n]
             IN  v.stale = Reopened.stale /\ v.shown = n /\ v.sent = n
  <2>1. Reopened \in View BY ViewTypes
  <2>2. QED BY <2>1 DEF View
<1>4. QED BY <1>1, <1>2, <1>3, <1>5

\* Every step keeps it.
LEMMA ViewStep ==
    ASSUME TypeOK, PhaseInv, ViewInv, [Next]_vars
    PROVE  ViewInv'
<1>0. view \in View /\ emitted \in Nat BY DEF TypeOK, View
<1> DEFINE Streams == streaming /\ harness.wrap # "fallback"
<1>1. ASSUME NEW r \in Requests, NextCall(r) \/ \E streams \in BOOLEAN : FirstCall(r, streams)
      PROVE  ViewInv'
  <2>1. pc' = "lookup" /\ view' = NothingSeen
    BY <1>1 DEF NextCall, FirstCall, Begins
  <2>2. view'.stale = FALSE /\ view'.shown = 0 BY <2>1 DEF NothingSeen
  <2>3. QED BY <2>1, <2>2 DEF ViewInv, FragmentsAreTheAnswers
<1> SUFFICES ASSUME Streams, UNCHANGED <<harness, streaming>>
             PROVE  /\ pc' \in {"lookup", "pause", "skipping", "try", "backoff"} =>
                          ~view'.stale /\ view'.shown = 0
                    /\ pc' \in {"skipping", "try", "backoff"} => emitted' = 0
                    /\ pc' \in {"asking", "selecting"} =>
                          ~view'.stale /\ view'.shown = view'.sent /\ view'.sent = emitted'
                    /\ pc' = "returned" /\ err' = "ok" => ~view'.stale /\ view'.shown = view'.sent
  <2>1. \/ \E r \in Requests : NextCall(r) \/ \E streams \in BOOLEAN : FirstCall(r, streams)
        \/ UNCHANGED <<harness, streaming>>
    BY StepCases DEF PhaseInv, ServeHit, BaseAnswers, Falls, BaseFails, TriesAgain, ScheduleRetry,
         Consults, ConsultChain, Miss, Ask, Answers, BackoffEnds, PassOver, FallBack, NoSubstitute,
         PauseEnds, CancelledInPause, Rebind, StreamItem, Cancel, vars, request
  <2>2. QED BY <1>1, <2>1 DEF ViewInv, FragmentsAreTheAnswers
<1>2. ASSUME NEW n \in 0..MaxDeltas, ServeHit(n)
      PROVE  pc' = "returned" /\ ~view'.stale /\ view'.shown = view'.sent
  <2>1. view' = [Reopened EXCEPT !.shown = n, !.sent = n] /\ pc' = "returned"
    BY <1>2 DEF ServeHit, BaseAnswers, Replayed
  <2>2. ~view.stale /\ view.shown = 0 BY <1>2 DEF ServeHit, ViewInv
  <2>3. n \in Nat BY BoundsAssumption
  <2>4. QED BY <1>0, <2>1, <2>2, <2>3, ViewFields
<1>3. ASSUME NEW kind \in Failed, Falls(kind)
      PROVE  \/ pc' = "pause" /\ ~view'.stale /\ view'.shown = 0
             \/ pc' = "rebind"
             \/ pc' = "returned" /\ err' # "ok"
  <2>1. CASE RetryBase(kind) BY <1>0, <2>1, ViewFields DEF RetryBase
  <2>2. CASE SelectFallback(kind) BY <2>2 DEF SelectFallback
  <2>3. CASE CallFails(kind) BY <2>3 DEF CallFails, Failed
  <2>4. QED BY <1>3, <2>1, <2>2, <2>3 DEF Falls, BaseFails
<1>4. ASSUME NEW kind \in Failed, TriesAgain(kind)
      PROVE  pc' = "backoff" /\ emitted' = 0 /\ ~view'.stale /\ view'.shown = 0
  BY <1>0, <1>4, ViewFields DEF TriesAgain, ScheduleRetry
<1>5. ASSUME NEW kind \in Failed, Consults(kind)
      PROVE  pc = "asking" /\ pc' = "selecting" /\ UNCHANGED <<view, emitted>>
  BY <1>5 DEF Consults, ConsultChain
<1>6. ASSUME Miss
      PROVE  pc = "lookup" /\ pc' \in {"skipping", "try"} /\ emitted' = 0 /\ UNCHANGED view
  BY <1>6 DEF Miss
<1>7. ASSUME Ask
      PROVE  pc' = "asking" /\ ~view'.stale /\ view'.shown = 0 /\ view'.sent = 0 /\ emitted' = 0
  <2>1. /\ pc = "try" /\ pc' = "asking" /\ view' = Reopened /\ emitted' = emitted
    BY <1>7 DEF Ask, locals
  <2>2. ~view.stale /\ view.shown = 0 /\ emitted = 0 BY <2>1 DEF ViewInv
  <2>3. QED BY <1>0, <2>1, <2>2, ViewFields
<1>8. ASSUME NEW blank \in BOOLEAN, Answers(blank)
      PROVE  pc = "asking" /\ pc' = "returned" /\ UNCHANGED view
  BY <1>8 DEF Answers, BaseAnswers
<1>9. ASSUME BackoffEnds \/ NoSubstitute
      PROVE  pc \in {"backoff", "skipping"} /\ pc' = "try" /\ UNCHANGED <<view, emitted>>
  BY <1>9 DEF BackoffEnds, NoSubstitute, locals
<1>10. ASSUME PassOver \/ Cancel PROVE pc' = pc /\ pc # "returned" /\ UNCHANGED <<view, emitted>>
  BY <1>10 DEF PassOver, Cancel, Selecting, locals
<1>11. ASSUME FallBack PROVE pc' = "try" /\ emitted' = 0 /\ ~view'.stale /\ view'.shown = 0
  <2>1. /\ pc \in {"skipping", "selecting"} /\ pc' = "try" /\ emitted' = 0 /\ view' = Marked
    BY <1>11 DEF FallBack, Selecting
  <2>2. CASE emitted > 0 BY <1>0, <2>1, <2>2, ViewFields DEF Marked
  <2>3. CASE ~(emitted > 0)
    <3>1. emitted = 0 BY <1>0, <2>3
    <3>2. view' = view BY <2>1, <2>3 DEF Marked
    <3>3. ~view.stale /\ view.shown = 0 BY <2>1, <3>1 DEF ViewInv
    <3>4. QED BY <2>1, <3>2, <3>3
  <2>4. QED BY <2>2, <2>3
<1>12. ASSUME PauseEnds PROVE pc = "pause" /\ pc' = "lookup" /\ UNCHANGED view
  BY <1>12 DEF PauseEnds
<1>13. ASSUME CancelledInPause PROVE pc' = "returned" /\ err' # "ok"
  BY <1>13 DEF CancelledInPause, CallFails
<1>14. ASSUME Rebind PROVE FALSE BY <1>14 DEF Rebind, PhaseInv
<1>15. ASSUME NEW b \in BOOLEAN, NEW c \in BOOLEAN, StreamItem(b, c)
       PROVE  /\ pc = "asking" /\ pc' = pc
              /\ ~view'.stale /\ view'.shown = view'.sent /\ view'.sent = emitted'
  <2>1. /\ pc = "asking" /\ pc' = pc
        /\ view' = (IF b THEN [view EXCEPT !.shown = @ + 1, !.sent = @ + 1] ELSE view)
        /\ emitted' = (IF b THEN emitted + 1 ELSE emitted)
    BY <1>15 DEF StreamItem
  <2>2. ~view.stale /\ view.shown = view.sent /\ view.sent = emitted BY <2>1 DEF ViewInv
  <2>3. CASE b
    <3>1. view' = [view EXCEPT !.shown = @ + 1, !.sent = @ + 1] /\ emitted' = emitted + 1
      BY <2>1, <2>3
    <3>2. view'.stale = view.stale /\ view'.shown = view.shown + 1 /\ view'.sent = view.sent + 1
      BY <1>0, <3>1, Zenon DEF View
    <3>3. QED BY <2>1, <2>2, <3>1, <3>2
  <2>4. CASE ~b BY <2>1, <2>2, <2>4
  <2>5. QED BY <2>3, <2>4
<1>16. CASE UNCHANGED vars
  <2>1. UNCHANGED <<pc, view, emitted, err>> BY <1>16 DEF vars, locals
  <2>2. QED BY <2>1 DEF ViewInv, FragmentsAreTheAnswers
<1>17. CASE \E kind \in Failed : Falls(kind) BY <1>3, <1>17
<1>18. CASE \/ \E n \in 0..MaxDeltas : ServeHit(n)
            \/ \E kind \in Failed : TriesAgain(kind) \/ Consults(kind)
            \/ \E blank \in BOOLEAN : Answers(blank)
            \/ \E b, c \in BOOLEAN : StreamItem(b, c)
  BY <1>2, <1>4, <1>5, <1>8, <1>15, <1>18 DEF ViewInv
<1>19. CASE Miss \/ Ask \/ BackoffEnds \/ NoSubstitute \/ PassOver \/ Cancel \/ FallBack
  BY <1>6, <1>7, <1>9, <1>10, <1>11, <1>19 DEF ViewInv
<1>20. CASE PauseEnds \/ CancelledInPause \/ Rebind
  BY <1>12, <1>13, <1>14, <1>20 DEF ViewInv
<1>21. CASE \E r \in Requests : NextCall(r) \/ \E streams \in BOOLEAN : FirstCall(r, streams)
  BY <1>1, <1>21 DEF ViewInv, FragmentsAreTheAnswers
<1>22. QED BY <1>16, <1>17, <1>18, <1>19, <1>20, <1>21, StepCases DEF PhaseInv

\* A consumer that drops what it has at every RetryScheduled ends with exactly
\* the fragments of the answer, whatever attempts died on whichever models.
THEOREM FragmentsAreTheAnswersHolds == Spec => []FragmentsAreTheAnswers
<1>1. Init => ViewInv
  BY DEF Init, ViewInv, FragmentsAreTheAnswers
<1>2. ViewInv => FragmentsAreTheAnswers
  BY DEF ViewInv, FragmentsAreTheAnswers
<1>3. TypeOK /\ PhaseInv /\ ViewInv /\ [Next]_vars => ViewInv'
  BY ViewStep
<1>4. QED BY <1>1, <1>2, <1>3, TypeCorrect, PTL DEF Spec

-----------------------------------------------------------------------------
(* Models written off.                                                     *)

\* A model that cannot answer: written off, or a name that does not resolve.
Hopeless(m) == m \in skipped \/ m \notin Usable

\* While a model written off is passed over, the walk has met only hopeless
\* names, and with each of them but the last the one that follows it.
SkipInv ==
    pc = "skipping" =>
        /\ cur = target
        /\ cur \in visited
        /\ \A m \in visited \ {cur} : Hopeless(m)
        /\ cursor \in {WalkFrom(cur)} \cup (visited \ {cur})
        /\ \A m \in visited \ {cur, cursor} : NextAfter(m) \in visited \cup {NoModel}
        /\ cursor # WalkFrom(cur) => FirstNames(cur) \subseteq visited \cup {NoModel}

\* From there to the answer: the model in hand is not written off, or it is
\* the last resort.
ResortInv ==
    (pc \in {"try", "asking", "backoff"} /\ cur \in skipped /\ ~harness.hosted) =>
        /\ cur = target
        /\ \A m \in Beyond(cur) : Hopeless(m)

\* A walk with no name left has met every name it could.
LEMMA WalkIsComplete ==
    ASSUME TypeOK, SkipInv, pc = "skipping", ~Remains
    PROVE  Beyond(cur) \subseteq visited \ {cur}
<1> DEFINE S == visited \cup {NoModel}
<1>1. S \in SUBSET (Models \cup {NoModel}) BY DEF TypeOK
<1>2. NextName \in S BY DEF Remains
<1>3. FirstNames(cur) \subseteq S
  <2>1. CASE cursor # WalkFrom(cur) BY <2>1 DEF SkipInv
  <2>2. CASE cursor = WalkFrom(cur) /\ cursor = ChainHead
    <3>1. DOMAIN Chain = 1 .. Len(Chain) /\ Len(Chain) \in Nat /\ (Len(Chain) = 0 => Chain = <<>>)
      BY ChainAssumption
    <3>2. CASE Chain = <<>> BY <2>2, <3>2 DEF FirstNames
    <3>3. CASE Chain # <<>>
      <4>1. NextName = Chain[1] BY <2>2, <3>3 DEF NextName
      <4>2. FirstNames(cur) \subseteq {Chain[1]} BY <2>2 DEF FirstNames
      <4>3. QED BY <1>2, <4>1, <4>2
    <3>4. QED BY <3>2, <3>3
  <2>3. CASE cursor = WalkFrom(cur) /\ cursor # ChainHead
    <3>1. cursor = cur BY <2>3 DEF WalkFrom
    <3>2. FirstNames(cur) = {NextName} BY <2>3, <3>1 DEF FirstNames, NextName
    <3>3. QED BY <1>2, <3>2
  <2>4. QED BY <2>1, <2>2, <2>3
<1>4. ASSUME NEW y \in S \ {cur} PROVE NextAfter(y) \in S
  <2>1. CASE y = NoModel BY <2>1, NothingAfterNone
  <2>2. CASE y \in visited /\ y = cursor
    <3>1. cursor # ChainHead BY <2>2, NamesAssumption DEF TypeOK
    <3>2. QED BY <1>2, <2>2, <3>1 DEF NextName
  <2>3. CASE y \in visited /\ y # cursor BY <1>4, <2>3 DEF SkipInv
  <2>4. QED BY <1>4, <2>1, <2>2, <2>3
<1> HIDE DEF S
<1>5. \A x \in Beyond(cur) : x \in Models \ {cur} /\ x \in S
  BY <1>1, <1>3, <1>4 DEF Beyond
<1>6. QED BY <1>5, NamesAssumption DEF S

\* One name passed over keeps the walk closed.
LEMMA PassOverStep ==
    ASSUME TypeOK, PhaseInv, SkipInv, PassOver
    PROVE  SkipInv'
<1> SUFFICES ASSUME pc = "skipping" PROVE SkipInv'
  BY DEF SkipInv, PassOver
<1>1. /\ visited' = visited \cup {NextName} /\ cursor' = NextName
      /\ UNCHANGED <<pc, call, target, cur, skipped>> /\ err = "ok"
      /\ NextName \in Models \ visited /\ ~Candidate(NextName)
  BY NextNameType DEF PassOver, Remains, request, runVars, PhaseInv
<1>2. Hopeless(NextName) BY <1>1 DEF Candidate, Hopeless
<1>3. \A m \in visited' \ {cur} : Hopeless(m)' BY <1>1, <1>2 DEF SkipInv, Hopeless
<1>4. WalkFrom(cur)' = WalkFrom(cur) /\ FirstNames(cur)' = FirstNames(cur)
  BY <1>1 DEF WalkFrom, FirstNames
<1>5. ASSUME NEW m \in visited \ {cur} PROVE NextAfter(m) \in visited' \cup {NoModel}
  <2>1. CASE m = cursor
    <3>1. cursor # ChainHead BY <2>1, NamesAssumption DEF TypeOK
    <3>2. QED BY <1>1, <2>1, <3>1 DEF NextName
  <2>2. CASE m # cursor BY <1>1, <1>5, <2>2 DEF SkipInv
  <2>3. QED BY <2>1, <2>2
<1>6. FirstNames(cur) \subseteq visited' \cup {NoModel}
  <2>1. CASE cursor # WalkFrom(cur) BY <1>1, <2>1 DEF SkipInv
  <2>2. CASE cursor = WalkFrom(cur) /\ cursor = ChainHead
    <3>1. NextName # NoModel BY <1>1, NamesAssumption
    <3>2. NextName = Chain[1] BY <2>2, <3>1 DEF NextName
    <3>3. FirstNames(cur) \subseteq {Chain[1]} BY <2>2 DEF FirstNames
    <3>4. QED BY <1>1, <3>2, <3>3
  <2>3. CASE cursor = WalkFrom(cur) /\ cursor # ChainHead
    <3>1. cursor = cur BY <2>3 DEF WalkFrom
    <3>2. FirstNames(cur) = {NextName} BY <2>3, <3>1 DEF FirstNames, NextName
    <3>3. QED BY <1>1, <3>2
  <2>4. QED BY <2>1, <2>2, <2>3
<1>7. cur = target /\ cur \in visited BY DEF SkipInv
<1>8. cursor' \in visited' \ {cur} BY <1>1, <1>7
<1>9. \A m \in visited' \ {cur, cursor'} : m \in visited \ {cur} BY <1>1
<1>10. QED BY <1>1, <1>3, <1>4, <1>5, <1>6, <1>7, <1>8, <1>9 DEF SkipInv

\* Every step keeps what is known of models written off.
LEMMA ResortStep ==
    ASSUME TypeOK, PhaseInv, SkipInv, ResortInv, [Next]_vars
    PROVE  SkipInv' /\ ResortInv'
<1> DEFINE Tries == {"try", "asking", "backoff"}
<1>1. ASSUME pc' \notin Tries \cup {"skipping"} PROVE SkipInv' /\ ResortInv'
  BY <1>1 DEF SkipInv, ResortInv
<1>2. ASSUME pc \in Tries, pc' \in Tries, UNCHANGED <<harness, call, cur, target, skipped>>
      PROVE  SkipInv' /\ ResortInv'
  <2>1. SkipInv' BY <1>2 DEF SkipInv
  <2>2. Beyond(cur)' = Beyond(cur) BY <1>2 DEF Beyond, FirstNames, WalkFrom
  <2>3. QED BY <1>2, <2>1, <2>2 DEF ResortInv, Hopeless
<1>3. CASE Miss
  <2>1. CASE target \in skipped /\ ~harness.hosted
    <3>1. /\ pc' = "skipping" /\ cur' = target /\ visited' = {target} /\ target' = target
          /\ cursor' = WalkFrom(target) /\ call' = call
      BY <1>3, <2>1 DEF Miss, request
    <3>2. WalkFrom(target)' = WalkFrom(target) BY <3>1 DEF WalkFrom
    <3>3. WalkFrom(cur)' = cursor' BY <3>1, <3>2 DEF WalkFrom
    <3>4. QED BY <3>1, <3>3 DEF SkipInv, ResortInv
  <2>2. CASE target \notin skipped \/ harness.hosted
    <3>1. pc' = "try" /\ cur' = target /\ skipped' = skipped /\ harness' = harness
      BY <1>3, <2>2 DEF Miss, request, runVars
    <3>2. QED BY <2>2, <3>1 DEF SkipInv, ResortInv
  <2>3. QED BY <2>1, <2>2
<1>4. CASE Ask \/ BackoffEnds \/ (\E b, c \in BOOLEAN : StreamItem(b, c))
  BY <1>2, <1>4 DEF Ask, BackoffEnds, StreamItem, request, locals, runVars
<1>5. ASSUME NEW kind \in Failed, TriesAgain(kind) PROVE SkipInv' /\ ResortInv'
  BY <1>2, <1>5 DEF TriesAgain, ScheduleRetry, request
<1>6. CASE PassOver
  <2>1. SkipInv' BY <1>6, PassOverStep
  <2>2. pc' = pc /\ pc \notin Tries BY <1>6 DEF PassOver, Selecting
  <2>3. QED BY <2>1, <2>2 DEF ResortInv
<1>7. CASE FallBack
  <2>1. pc' = "try" /\ cur' = NextName /\ NextName \notin skipped /\ skipped' = skipped
    BY <1>7 DEF FallBack, Candidate, runVars
  <2>2. QED BY <2>1 DEF SkipInv, ResortInv
<1>8. CASE NoSubstitute
  <2>1. /\ pc = "skipping" /\ ~Remains /\ pc' = "try"
        /\ UNCHANGED <<call, target, cur, visited, skipped>>
    BY <1>8 DEF NoSubstitute, request, runVars
  <2>2. Beyond(cur)' = Beyond(cur) BY <2>1 DEF Beyond, FirstNames, WalkFrom
  <2>3. cur = target /\ \A m \in Beyond(cur) : Hopeless(m)
    BY <2>1, WalkIsComplete DEF SkipInv
  <2>4. QED BY <2>1, <2>2, <2>3 DEF SkipInv, ResortInv, Hopeless
<1>9. CASE Cancel
  <2>1. UNCHANGED <<pc, harness, call, cur, target, skipped, visited, cursor>>
    BY <1>9 DEF Cancel, request, locals
  <2>2. CASE pc \in Tries BY <1>2, <2>1, <2>2
  <2>3. CASE pc = "skipping"
    <3>1. WalkFrom(cur)' = WalkFrom(cur) /\ FirstNames(cur)' = FirstNames(cur)
      BY <2>1 DEF WalkFrom, FirstNames
    <3>2. QED BY <2>1, <2>3, <3>1 DEF SkipInv, ResortInv, Hopeless
  <2>4. QED BY <1>1, <2>1, <2>2, <2>3
<1>10. CASE UNCHANGED vars
  <2>1. UNCHANGED <<pc, harness, call, cur, target, skipped, visited, cursor>>
    BY <1>10 DEF vars, request, locals, runVars
  <2>2. CASE pc \in Tries BY <1>2, <2>1, <2>2
  <2>3. CASE pc = "skipping"
    <3>1. WalkFrom(cur)' = WalkFrom(cur) /\ FirstNames(cur)' = FirstNames(cur)
      BY <2>1 DEF WalkFrom, FirstNames
    <3>2. QED BY <2>1, <2>3, <3>1 DEF SkipInv, ResortInv, Hopeless
  <2>4. QED BY <1>1, <2>1, <2>2, <2>3
<1>11. ASSUME \/ \E r \in Requests : NextCall(r) \/ \E streams \in BOOLEAN : FirstCall(r, streams)
              \/ \E n \in 0..MaxDeltas : ServeHit(n)
              \/ \E kind \in Failed : Falls(kind)
              \/ \E kind \in Failed : Consults(kind)
              \/ (\E blank \in BOOLEAN : Answers(blank))
              \/ PauseEnds \/ CancelledInPause \/ Rebind
       PROVE  SkipInv' /\ ResortInv'
  <2>1. pc' \in {"lookup", "returned", "pause", "rebind", "selecting"}
    <3>1. ASSUME NEW kind, Falls(kind) PROVE pc' \in {"returned", "pause", "rebind"}
      <4>1. CASE RetryBase(kind) BY <4>1 DEF RetryBase
      <4>2. CASE SelectFallback(kind) BY <4>2 DEF SelectFallback
      <4>3. CASE CallFails(kind) BY <4>3 DEF CallFails
      <4>4. QED BY <3>1, <4>1, <4>2, <4>3 DEF Falls, BaseFails
    <3>2. ASSUME CancelledInPause PROVE pc' = "returned"
      BY <3>2 DEF CancelledInPause, CallFails
    <3>3. QED BY <1>11, <3>1, <3>2 DEF NextCall, FirstCall, Begins, ServeHit, BaseAnswers, Consults,
                 ConsultChain, Answers, PauseEnds, Rebind
  <2>2. QED BY <1>1, <2>1
<1>12. QED BY <1>3, <1>4, <1>5, <1>6, <1>7, <1>8, <1>9, <1>10, <1>11, StepCases DEF PhaseInv

\* A model written off for the run is asked again only as the model the call
\* is bound to, and only when no other model of the chain could answer, or
\* when the host routes: for every chain, repeated names included.
THEOREM WrittenOffIsLastResortHolds == Spec => []WrittenOffIsLastResort
<1>1. Init => SkipInv /\ ResortInv
  BY DEF Init, SkipInv, ResortInv
<1>2. ResortInv => WrittenOffIsLastResort
  BY DEF ResortInv, WrittenOffIsLastResort, Hopeless
<1>3. TypeOK /\ PhaseInv /\ SkipInv /\ ResortInv /\ [Next]_vars => SkipInv' /\ ResortInv'
  BY ResortStep
<1>4. QED BY <1>1, <1>2, <1>3, TypeCorrect, PTL DEF Spec
=============================================================================
