----------------------- MODULE DriverTaskStoreProofs -----------------------
(***************************************************************************)
(* The durable task store, for any tasks, any number of executors and any  *)
(* retry budget: it implements the atomic store, and only one of the       *)
(* racing calls is told it settled a task.                                 *)
(*                                                                         *)
(* OneSettler is not inductive.  What makes it so is what each program     *)
(* counter knows about the record: a caller about to swap saw an older     *)
(* revision or the very record that is stored; a caller that committed a   *)
(* terminal record finds it unchanged, because no transition accepts a     *)
(* terminal record; and so there is only one such caller, and none once    *)
(* somebody was told.                                                      *)
(*                                                                         *)
(* At the end, the registry of the executors that work on the tasks.       *)
(***************************************************************************)
EXTENDS DriverTaskStore, TLAPS

USE DEF Callers

\* A document exists exactly when it has a revision.
AbsentIsNoDoc == \A t \in Tasks : docs[t].rev = 0 => docs[t] = NoDoc

\* A call that reads or swaps carries a transition of the store.
CallsTransit ==
    \A c \in Callers : call[c].pc \in {"read", "swap"} => call[c].op \in Abstract!Transitions

\* What the closure saw is out of date or is what is stored.
SwapKnows ==
    \A c \in Callers : call[c].pc = "swap" =>
       /\ call[c].doc.rev <= docs[call[c].task].rev
       /\ call[c].doc.rev = docs[call[c].task].rev => call[c].doc = docs[call[c].task]
       /\ Abstract!Allowed(call[c].op, call[c].doc.rec)

\* The caller committed a terminal record of task t and was not told yet.
Settler(c, t) ==
    call[c].pc = "snapshot" /\ call[c].task = t /\ Abstract!Terminal(call[c].doc.rec)

\* A committed terminal record is still the stored one.
SettlerKnows == \A c \in Callers, t \in Tasks : Settler(c, t) => docs[t] = call[c].doc

OneSettlerAtWork ==
    \A c, d \in Callers, t \in Tasks : Settler(c, t) /\ Settler(d, t) => c = d

SettledKnows ==
    \A t \in Tasks :
       /\ settled[t] <= 1
       /\ settled[t] = 1 => /\ Abstract!Terminal(docs[t].rec)
                            /\ \A c \in Callers : ~Settler(c, t)

IInv == /\ TypeOK /\ CallsTransit
        /\ AbsentIsNoDoc /\ SwapKnows
        /\ SettlerKnows /\ OneSettlerAtWork /\ SettledKnows

-----------------------------------------------------------------------------
\* The transition functions map records to records.
LEMMA AfterType ==
    ASSUME NEW op \in Abstract!Transitions, NEW r \in Abstract!Record
    PROVE  Abstract!After(op, r) \in Abstract!Record
<1>1. CASE op \in Abstract!Settling
  <2>1. Abstract!Settle(op, r) \in Abstract!Record
    BY <1>1 DEF Abstract!Settling, Abstract!Settle, Abstract!mark_cancelled, Abstract!Record,
                Abstract!LiveStatus, Abstract!TerminalStatus
  <2>2. QED BY <1>1, <2>1 DEF Abstract!After, Abstract!Settling
<1>2. CASE op \in {"mark_running", "mark_awaiting", "mark_awaiting_with_question"}
  BY <1>2 DEF Abstract!After, Abstract!Settling, Abstract!Record, Abstract!LiveStatus
<1>3. CASE op \in {"request_cancel", "mark_cancelled", "kill", "set_timeout_ms"}
  BY <1>3 DEF Abstract!After, Abstract!Settling, Abstract!Record, Abstract!LiveStatus,
              Abstract!TerminalStatus, Abstract!mark_cancelled
<1>4. QED BY <1>1, <1>2, <1>3 DEF Abstract!Transitions

\* No transition accepts a record that is terminal or absent.
LEMMA AllowedIsLive ==
    ASSUME NEW op \in Abstract!Transitions, NEW r \in Abstract!Record,
           Abstract!Allowed(op, r)
    PROVE  ~Abstract!Terminal(r) /\ r.status # "Absent"
  BY DEF Abstract!Transitions, Abstract!Settling, Abstract!Allowed, Abstract!Live,
         Abstract!Terminal, Abstract!LiveStatus, Abstract!TerminalStatus

\* No transition leads out of a requested cancellation but to Cancelled or
\* Abandoned.
LEMMA AfterHonoursCancel ==
    ASSUME NEW op \in Abstract!Transitions, NEW r \in Abstract!Record,
           Abstract!Allowed(op, r), r.status = "CancelRequested"
    PROVE  Abstract!After(op, r).status \in {"CancelRequested", "Cancelled", "Abandoned"}
  BY DEF Abstract!Transitions, Abstract!Settling, Abstract!Allowed, Abstract!Live,
         Abstract!After, Abstract!Settle, Abstract!mark_cancelled,
         Abstract!Record, Abstract!LiveStatus, Abstract!TerminalStatus

\* The idle call and the missing document are of their types.
LEMMA NullTypes ==
    IdleCall \in Call /\ IdleCall.pc = "idle" /\ NoDoc \in Doc
    /\ Abstract!PendingRecord \in Abstract!Record
<1>1. NoDoc \in Doc /\ Abstract!PendingRecord \in Abstract!Record
  BY DEF NoDoc, Doc, Abstract!NoTask, Abstract!PendingRecord, Abstract!Record,
         Abstract!LiveStatus, Abstract!TerminalStatus
<1>2. (CHOOSE t \in Tasks : TRUE) \in Tasks
  BY TasksAssumption
<1>3. QED BY <1>1, <1>2 DEF IdleCall, Call

-----------------------------------------------------------------------------
\* Returning keeps the types of the call, the report and the list.
LEMMA ReturnType ==
    ASSUME TypeOK, NEW c \in Callers, NEW ok \in BOOLEAN, Return(c, ok)
    PROVE  /\ call' \in [Callers -> Call]
           /\ report' \in [Tasks -> Outcome]
           /\ orphans' \in [Tasks -> Abstract!LiveStatus \cup {"none"}]
<1>1. ReconcileOutcome(call[c].op, ok) \in Outcome
  BY DEF ReconcileOutcome, Outcome
<1>2. QED BY <1>1, NullTypes DEF TypeOK, Return, Call

\* Only Start and SweepTask begin a call that reads, with a transition.
LEMMA CallsTransitStep == TypeOK /\ CallsTransit /\ [Next]_vars => CallsTransit'
<1> SUFFICES ASSUME TypeOK, CallsTransit, [Next]_vars PROVE CallsTransit'
  OBVIOUS
<1> USE NullTypes DEF TypeOK, CallsTransit
<1>1. ASSUME NEW c \in Executors, NEW t \in Tasks, Insert(c, t) PROVE CallsTransit'
  BY <1>1 DEF Insert
<1>2. ASSUME NEW c \in Executors, NEW t \in Tasks, NEW op \in Abstract!Transitions,
             Start(c, op, t)
      PROVE  CallsTransit'
  BY <1>2 DEF Start, Begin
<1>3. ASSUME NEW c \in Callers, ReadAccepted(c) \/ SwapWon(c) PROVE CallsTransit'
  BY <1>3 DEF ReadAccepted, SwapWon, Call
<1>4. ASSUME NEW c \in Callers, NEW ok \in BOOLEAN, Return(c, ok) PROVE CallsTransit'
  BY <1>4 DEF Return
<1>5. ASSUME NEW c \in Callers, SwapLost(c), ~Return(c, FALSE) PROVE CallsTransit'
  <2>1. /\ call[c].pc = "swap" /\ call[c] \in Call
        /\ call' = [call EXCEPT ![c].pc = "read", ![c].doc = NoDoc, ![c].attempt = @ + 1]
    BY <1>5 DEF SwapLost
  <2>2. call'[c].op = call[c].op /\ \A d \in Callers : d # c => call'[d] = call[d]
    BY <2>1 DEF Call
  <2>3. QED BY <2>1, <2>2
<1>6. ASSUME NEW c \in Executors, Crash(c) PROVE CallsTransit'
  BY <1>6 DEF Crash
<1>7. CASE SweepList
  BY <1>7 DEF SweepList
<1>8. ASSUME NEW t \in Tasks, SweepTask(t) PROVE CallsTransit'
  <2>1. SweepTransition(orphans[t]) \in Abstract!Transitions
    BY DEF SweepTransition, Abstract!Transitions, Abstract!Settling
  <2>2. QED BY <1>8, <2>1 DEF SweepTask, Begin
<1>9. CASE UNCHANGED vars
  BY <1>9 DEF vars
<1>10. QED BY <1>1, <1>2, <1>3, <1>4, <1>5, <1>6, <1>7, <1>8, <1>9
       DEF Next, CallStep, ReadRefused, Snapshot, SnapshotFails

\* Every step of the callers and of the sweep keeps the types of the
\* collections, the calls and the report.
THEOREM TypeCorrect == Spec => []TypeOK
<1>1. Init => TypeOK /\ CallsTransit
  BY NullTypes DEF Init, TypeOK, CallsTransit, Outcome
<1>2. TypeOK /\ CallsTransit /\ [Next]_vars => TypeOK'
  <2> SUFFICES ASSUME TypeOK, CallsTransit, [Next]_vars PROVE TypeOK'
    OBVIOUS
  <2>1. ASSUME NEW c \in Executors, NEW t \in Tasks, Insert(c, t) PROVE TypeOK'
    BY <2>1, NullTypes DEF TypeOK, Insert, Doc, Call
  <2>2. ASSUME NEW c \in Executors, NEW t \in Tasks, NEW op \in Abstract!Transitions,
               Start(c, op, t)
        PROVE  TypeOK'
    BY <2>2, NullTypes DEF TypeOK, Start, Begin, Call
  <2>3. ASSUME NEW c \in Callers, ReadAccepted(c) PROVE TypeOK'
    BY <2>3 DEF TypeOK, ReadAccepted, Call
  <2>4. ASSUME NEW c \in Callers, ReadRefused(c) PROVE TypeOK'
    BY <2>4, ReturnType DEF TypeOK, ReadRefused
  <2>5. ASSUME NEW c \in Callers, SwapWon(c) PROVE TypeOK'
    <3> DEFINE doc == [rec |-> Abstract!After(call[c].op, call[c].doc.rec),
                       rev |-> call[c].doc.rev + 1]
    <3>1. call[c] \in Call /\ call[c].op \in Abstract!Transitions
      BY <2>5 DEF TypeOK, SwapWon, CallsTransit
    <3>2. doc \in Doc
      BY <3>1, AfterType DEF Call, Doc
    <3>3. QED BY <2>5, <3>1, <3>2 DEF TypeOK, SwapWon, Call
  <2>6. ASSUME NEW c \in Callers, SwapLost(c) PROVE TypeOK'
    <3>1. CASE call[c].attempt + 1 < Attempts
      BY <2>6, <3>1, NullTypes DEF TypeOK, SwapLost, Call
    <3>2. CASE ~(call[c].attempt + 1 < Attempts)
      BY <2>6, <3>2, ReturnType DEF TypeOK, SwapLost
    <3>3. QED BY <3>1, <3>2
  <2>7. ASSUME NEW c \in Callers, Snapshot(c) PROVE TypeOK'
    <3>1. call[c] \in Call
      BY DEF TypeOK
    <3>2. history' \in [Tasks -> SUBSET Doc] /\ settled' \in [Tasks -> Nat]
      BY <2>7, <3>1 DEF TypeOK, Snapshot, Call
    <3>3. QED BY <2>7, <3>2, ReturnType DEF TypeOK, Snapshot
  <2>8. ASSUME NEW c \in Callers, SnapshotFails(c) PROVE TypeOK'
    <3>1. call[c].task \in Tasks /\ call[c].doc.rev \in Nat
      BY DEF TypeOK, Call, Doc
    <3>2. dropped' \in [Tasks -> SUBSET Nat]
      BY <2>8, <3>1 DEF TypeOK, SnapshotFails
    <3>3. QED BY <2>8, <3>2, ReturnType DEF TypeOK, SnapshotFails
  <2>9. ASSUME NEW c \in Executors, Crash(c) PROVE TypeOK'
    <3>1. call[c].task \in Tasks /\ call[c].doc.rev \in Nat
      BY DEF TypeOK, Call, Doc
    <3>2. QED BY <2>9, <3>1, NullTypes DEF TypeOK, Crash
  <2>10. CASE SweepList
    BY <2>10 DEF TypeOK, SweepList, Outcome, Abstract!Live
  <2>11. ASSUME NEW t \in Tasks, SweepTask(t) PROVE TypeOK'
    <3>1. SweepTransition(orphans[t]) \in Abstract!Transitions
      BY DEF SweepTransition, Abstract!Transitions, Abstract!Settling
    <3>2. QED BY <2>11, <3>1, NullTypes DEF TypeOK, SweepTask, Begin, Call
  <2>12. CASE UNCHANGED vars
    BY <2>12 DEF TypeOK, vars
  <2>13. QED BY <2>1, <2>2, <2>3, <2>4, <2>5, <2>6, <2>7, <2>8, <2>9, <2>10, <2>11, <2>12
             DEF Next, CallStep
<1>3. QED BY <1>1, <1>2, CallsTransitStep, PTL DEF Spec

-----------------------------------------------------------------------------
\* Steps that leave the documents alone and after which the caller is idle or
\* about to read disturb nothing: Start, ReadRefused, SwapLost, SnapshotFails,
\* Crash, SweepList and SweepTask.
LEMMA QuietStep ==
    ASSUME IInv, TypeOK', CallsTransit', NEW c \in Callers,
           docs' = docs, settled' = settled,
           \A d \in Callers : d # c => call'[d] = call[d],
           call'[c].pc \in {"idle", "read"} \/ call'[c] = call[c]
    PROVE  IInv'
<1> USE DEF IInv
<1>1. \A d \in Callers, t \in Tasks : Settler(d, t)' => Settler(d, t) /\ call'[d] = call[d]
  BY DEF Settler
<1>2. AbsentIsNoDoc' /\ SettlerKnows' /\ OneSettlerAtWork' /\ SettledKnows'
  BY <1>1 DEF AbsentIsNoDoc, SettlerKnows, OneSettlerAtWork, SettledKnows
<1>3. SwapKnows'
  BY DEF SwapKnows
<1>4. QED BY <1>2, <1>3

\* A write of a new revision of task u by caller c, which then holds the
\* document it committed: Insert and SwapWon.
LEMMA CommitStep ==
    ASSUME IInv, TypeOK', CallsTransit', NEW c \in Callers, NEW u \in Tasks,
           NEW new \in Doc,
           ~Abstract!Terminal(docs[u].rec),
           new.rev = docs[u].rev + 1,
           docs' = [docs EXCEPT ![u] = new], settled' = settled,
           \A d \in Callers : d # c => call'[d] = call[d],
           call'[c].pc = "snapshot", call'[c].task = u, call'[c].doc = new
    PROVE  IInv'
<1> USE DEF IInv
<1>1. \A t \in Tasks : docs'[t] \in Doc /\ docs[t] \in Doc /\ docs[t].rev \in Nat
                       /\ (t # u => docs'[t] = docs[t])
  BY DEF TypeOK, Doc
<1>2. docs'[u] = new /\ new.rev \in Nat /\ new.rev > docs[u].rev /\ new.rev # 0
  BY <1>1 DEF TypeOK
<1>3. AbsentIsNoDoc'
  BY <1>1, <1>2 DEF AbsentIsNoDoc
<1>4. SwapKnows'
  <2> SUFFICES ASSUME NEW d \in Callers, call'[d].pc = "swap"
               PROVE  /\ call'[d].doc.rev <= docs'[call'[d].task].rev
                      /\ call'[d].doc.rev = docs'[call'[d].task].rev
                            => call'[d].doc = docs'[call'[d].task]
                      /\ Abstract!Allowed(call'[d].op, call'[d].doc.rec)
    BY DEF SwapKnows
  <2>1. call'[d] = call[d] /\ call[d].task \in Tasks /\ call[d].doc.rev \in Nat
    BY DEF TypeOK, Call, Doc
  <2>2. QED BY <1>1, <1>2, <2>1 DEF SwapKnows
<1>5. \A d \in Callers : ~Settler(d, u)
  BY DEF SettlerKnows, Settler
<1>6. \A d \in Callers, t \in Tasks :
        Settler(d, t)' => (d = c /\ t = u) \/ (d # c /\ t # u /\ Settler(d, t))
  BY <1>5 DEF Settler
<1>7. SettlerKnows' /\ OneSettlerAtWork'
  BY <1>1, <1>2, <1>6 DEF SettlerKnows, OneSettlerAtWork
<1>8. SettledKnows'
  BY <1>1, <1>6 DEF SettledKnows
<1>9. QED BY <1>3, <1>4, <1>7, <1>8

\* The invariant holds in every reachable state.
LEMMA Invariance == Spec => []IInv
<1>1. Init => IInv
  <2> SUFFICES ASSUME Init PROVE IInv
    OBVIOUS
  <2>1. TypeOK
    BY NullTypes DEF Init, TypeOK, Outcome
  <2>2. QED BY <2>1, NullTypes DEF Init, IInv, CallsTransit, AbsentIsNoDoc, SwapKnows,
               SettlerKnows, Settler, OneSettlerAtWork, SettledKnows
<1>2. IInv /\ TypeOK' /\ [Next]_vars => IInv'
  <2> SUFFICES ASSUME IInv, TypeOK', [Next]_vars PROVE IInv'
    OBVIOUS
  <2>0. CallsTransit'
    BY CallsTransitStep DEF IInv
  <2>1. ASSUME NEW c \in Executors, NEW t \in Tasks, Insert(c, t) PROVE IInv'
    <3> DEFINE new == [rec |-> Abstract!PendingRecord, rev |-> 1]
    <3>1. docs[t].rev = 0 /\ docs[t] = NoDoc
      BY <2>1 DEF Insert, IInv, AbsentIsNoDoc
    <3>2. ~Abstract!Terminal(docs[t].rec)
      BY <3>1 DEF NoDoc, Abstract!NoTask, Abstract!Terminal, Abstract!TerminalStatus
    <3>3. new \in Doc /\ new.rev = docs[t].rev + 1
      BY <3>1, NullTypes DEF Doc
    <3>4. /\ docs' = [docs EXCEPT ![t] = new] /\ settled' = settled
          /\ \A d \in Callers : d # c => call'[d] = call[d]
          /\ call'[c].pc = "snapshot" /\ call'[c].task = t /\ call'[c].doc = new
      BY <2>1 DEF Insert, IInv, TypeOK
    <3> HIDE DEF new
    <3>5. QED BY <2>0, <3>2, <3>3, <3>4, CommitStep
  <2>2. ASSUME NEW c \in Executors, NEW t \in Tasks, NEW op \in Abstract!Transitions,
               Start(c, op, t)
        PROVE  IInv'
    BY <2>0, <2>2, QuietStep DEF Start, Begin, IInv, TypeOK
  <2>3. ASSUME NEW c \in Callers, ReadAccepted(c) PROVE IInv'
    <3>1. /\ docs' = docs /\ settled' = settled /\ call[c] \in Call
          /\ \A d \in Callers : d # c => call'[d] = call[d]
      BY <2>3 DEF ReadAccepted, IInv, TypeOK
    <3>2. /\ call'[c].pc = "swap" /\ call'[c].doc = docs[call[c].task]
          /\ call'[c].op = call[c].op /\ call'[c].task = call[c].task
          /\ Abstract!Allowed(call[c].op, docs[call[c].task].rec)
      BY <2>3, <3>1 DEF ReadAccepted, IInv, TypeOK, Call
    <3>3. docs[call[c].task].rev \in Nat
      BY <3>1 DEF IInv, TypeOK, Call, Doc
    <3>4. SwapKnows'
      BY <3>1, <3>2, <3>3 DEF IInv, SwapKnows
    <3>5. \A d \in Callers, t \in Tasks : Settler(d, t)' => Settler(d, t) /\ d # c
      BY <3>1, <3>2 DEF Settler
    <3>6. AbsentIsNoDoc' /\ SettlerKnows' /\ OneSettlerAtWork' /\ SettledKnows'
      BY <3>1, <3>5 DEF IInv, AbsentIsNoDoc, SettlerKnows, OneSettlerAtWork, SettledKnows
    <3>7. QED BY <2>0, <3>4, <3>6 DEF IInv
  <2>4. ASSUME NEW c \in Callers, ReadRefused(c) \/ SnapshotFails(c) PROVE IInv'
    BY <2>0, <2>4, QuietStep, NullTypes
       DEF ReadRefused, SnapshotFails, Return, IInv, TypeOK
  <2>5. ASSUME NEW c \in Callers, SwapWon(c) PROVE IInv'
    <3> DEFINE u == call[c].task
               new == [rec |-> Abstract!After(call[c].op, call[c].doc.rec),
                       rev |-> call[c].doc.rev + 1]
    <3>1. /\ call[c] \in Call /\ call[c].pc = "swap" /\ u \in Tasks
          /\ call[c].op \in Abstract!Transitions
      BY <2>5 DEF SwapWon, IInv, TypeOK, Call, CallsTransit
    <3>2. call[c].doc = docs[u] /\ Abstract!Allowed(call[c].op, docs[u].rec)
      BY <2>5, <3>1 DEF SwapWon, SwapHolds, IInv, SwapKnows
    <3>3. ~Abstract!Terminal(docs[u].rec)
      BY <3>1, <3>2, AllowedIsLive DEF Call, Doc
    <3>4. new \in Doc /\ new.rev = docs[u].rev + 1
      BY <3>1, <3>2, AfterType DEF Call, Doc
    <3>5. /\ docs' = [docs EXCEPT ![u] = new] /\ settled' = settled
          /\ call' = [call EXCEPT ![c].pc = "snapshot", ![c].doc = new]
      BY <2>5 DEF SwapWon
    <3>6. /\ \A d \in Callers : d # c => call'[d] = call[d]
          /\ call'[c].pc = "snapshot" /\ call'[c].task = u /\ call'[c].doc = new
      BY <3>1, <3>5 DEF IInv, TypeOK, Call
    <3> HIDE DEF u, new
    <3>7. QED BY <2>0, <3>1, <3>3, <3>4, <3>5, <3>6, CommitStep
  <2>6. ASSUME NEW c \in Callers, SwapLost(c) PROVE IInv'
    <3>1. docs' = docs /\ settled' = settled /\ call[c] \in Call
      BY <2>6 DEF SwapLost, IInv, TypeOK
    <3>2. CASE Return(c, FALSE)
      BY <2>0, <3>1, <3>2, QuietStep, NullTypes DEF Return, IInv, TypeOK
    <3>3. CASE call' = [call EXCEPT ![c].pc = "read", ![c].doc = NoDoc,
                                    ![c].attempt = @ + 1]
      BY <2>0, <3>1, <3>3, QuietStep DEF IInv, TypeOK, Call
    <3>4. QED BY <2>6, <3>2, <3>3 DEF SwapLost
  <2>7. ASSUME NEW c \in Callers, Snapshot(c) PROVE IInv'
    <3> DEFINE u == call[c].task
    <3>1. /\ docs' = docs /\ u \in Tasks /\ call[c].pc = "snapshot"
          /\ call'[c].pc = "idle" /\ \A d \in Callers : d # c => call'[d] = call[d]
      BY <2>7, NullTypes DEF Snapshot, Return, IInv, TypeOK, Call
    <3>2. CASE ~Abstract!Terminal(call[c].doc.rec)
      BY <2>0, <2>7, <3>1, <3>2, QuietStep DEF Snapshot
    <3>3. CASE Abstract!Terminal(call[c].doc.rec)
      <4>1. settled' = [settled EXCEPT ![u] = @ + 1]
        BY <2>7, <3>3 DEF Snapshot
      <4>2. Settler(c, u) /\ settled[u] \in Nat
        BY <3>1, <3>3 DEF Settler, IInv, TypeOK
      <4>3. settled[u] = 0 /\ Abstract!Terminal(docs[u].rec)
        BY <3>1, <3>3, <4>2 DEF IInv, SettledKnows, SettlerKnows
      <4>4. \A d \in Callers, t \in Tasks :
              Settler(d, t)' => Settler(d, t) /\ t # u /\ call'[d] = call[d]
        BY <3>1, <4>2 DEF Settler, IInv, OneSettlerAtWork
      <4>5. SettledKnows'
        BY <3>1, <4>1, <4>3, <4>4 DEF IInv, TypeOK, SettledKnows
      <4>6. AbsentIsNoDoc' /\ SettlerKnows' /\ OneSettlerAtWork'
        BY <3>1, <4>4 DEF IInv, AbsentIsNoDoc, SettlerKnows, OneSettlerAtWork
      <4>7. SwapKnows'
        BY <3>1 DEF IInv, SwapKnows
      <4>8. QED BY <2>0, <4>5, <4>6, <4>7 DEF IInv
    <3>4. QED BY <3>2, <3>3
  <2>8. ASSUME NEW c \in Executors, Crash(c) PROVE IInv'
    BY <2>0, <2>8, QuietStep, NullTypes DEF Crash, IInv, TypeOK
  <2>9. CASE SweepList \/ UNCHANGED vars
    BY <2>0, <2>9, QuietStep DEF SweepList, vars
  <2>10. ASSUME NEW t \in Tasks, SweepTask(t) PROVE IInv'
    BY <2>0, <2>10, QuietStep DEF SweepTask, Begin, IInv, TypeOK
  <2>11. QED BY <2>1, <2>2, <2>3, <2>4, <2>5, <2>6, <2>7, <2>8, <2>9, <2>10
             DEF Next, CallStep
<1>3. QED BY <1>1, <1>2, TypeCorrect, PTL DEF Spec

-----------------------------------------------------------------------------
\* Of the calls racing to settle a task (DriverTaskStore::modify), at most one
\* is told it settled it, for any number of executors and any retry budget.
THEOREM OneSettlerCorrect == Spec => []OneSettler
<1>1. IInv => OneSettler
  BY DEF IInv, SettledKnows, OneSettler
<1>2. QED BY <1>1, Invariance, PTL

\* What a step can do to the records: insert one, apply one accepted transition
\* to the record that is stored, or nothing.
LEMMA RecordStep ==
    ASSUME IInv, [Next]_vars
    PROVE  \/ docs' = docs
           \/ \E t \in Tasks :
                /\ docs[t] = NoDoc
                /\ docs' = [docs EXCEPT ![t] = [rec |-> Abstract!PendingRecord, rev |-> 1]]
           \/ \E t \in Tasks, op \in Abstract!Transitions :
                /\ Abstract!Allowed(op, docs[t].rec)
                /\ docs' = [docs EXCEPT ![t] = [rec |-> Abstract!After(op, docs[t].rec),
                                                rev |-> docs[t].rev + 1]]
<1>1. ASSUME NEW c \in Executors, NEW t \in Tasks, Insert(c, t)
      PROVE  /\ docs[t] = NoDoc
             /\ docs' = [docs EXCEPT ![t] = [rec |-> Abstract!PendingRecord, rev |-> 1]]
  BY <1>1 DEF Insert, IInv, AbsentIsNoDoc
<1>2. ASSUME NEW c \in Callers, SwapWon(c)
      PROVE  \E t \in Tasks, op \in Abstract!Transitions :
                /\ Abstract!Allowed(op, docs[t].rec)
                /\ docs' = [docs EXCEPT ![t] = [rec |-> Abstract!After(op, docs[t].rec),
                                                rev |-> docs[t].rev + 1]]
  <2>1. /\ call[c].pc = "swap" /\ call[c].task \in Tasks
        /\ call[c].op \in Abstract!Transitions
    BY <1>2 DEF SwapWon, IInv, TypeOK, Call, CallsTransit
  <2>2. /\ call[c].doc = docs[call[c].task]
        /\ Abstract!Allowed(call[c].op, docs[call[c].task].rec)
    BY <1>2, <2>1 DEF SwapWon, SwapHolds, IInv, SwapKnows
  <2>3. docs' = [docs EXCEPT ![call[c].task] =
                   [rec |-> Abstract!After(call[c].op, docs[call[c].task].rec),
                    rev |-> docs[call[c].task].rev + 1]]
    BY <1>2, <2>2 DEF SwapWon
  <2>4. QED BY <2>1, <2>2, <2>3
<1>3. ASSUME NEW c \in Callers,
             ReadAccepted(c) \/ ReadRefused(c) \/ SwapLost(c) \/ Snapshot(c)
             \/ SnapshotFails(c) \/ Crash(c)
      PROVE  docs' = docs
  BY <1>3 DEF ReadAccepted, ReadRefused, SwapLost, Snapshot, SnapshotFails, Crash
<1>4. ASSUME NEW t \in Tasks, NEW c \in Executors, NEW op \in Abstract!Transitions,
             Start(c, op, t)
      PROVE  docs' = docs
  BY <1>4 DEF Start
<1>5. ASSUME NEW t \in Tasks, SweepTask(t) PROVE docs' = docs
  BY <1>5 DEF SweepTask
<1>6. CASE SweepList \/ UNCHANGED vars
  BY <1>6 DEF SweepList, vars
<1>7. QED BY <1>1, <1>2, <1>3, <1>4, <1>5, <1>6 DEF Next, CallStep

\* The compare-and-swap store implements the atomic one: each of its steps is
\* one transition of TaskStore on the stored record, or none at all.
THEOREM Refinement == Spec => ImplementsTaskStore
<1>1. Init => Abstract!Init
  BY DEF Init, Abstract!Init, NoDoc
<1>2. IInv /\ [Next]_vars => [Abstract!Next]_([t \in Tasks |-> docs[t].rec])
  <2> SUFFICES ASSUME IInv, [Next]_vars
               PROVE  [Abstract!Next]_([t \in Tasks |-> docs[t].rec])
    OBVIOUS
  <2>1. CASE docs' = docs
    BY <2>1
  <2>2. ASSUME NEW t \in Tasks, docs[t] = NoDoc,
               docs' = [docs EXCEPT ![t] = [rec |-> Abstract!PendingRecord, rev |-> 1]]
        PROVE  Abstract!Next
    <3>1. [u \in Tasks |-> docs[u].rec][t] = Abstract!NoTask
      BY <2>2 DEF NoDoc
    <3>2. [u \in Tasks |-> docs'[u].rec]
            = [[u \in Tasks |-> docs[u].rec] EXCEPT ![t] = Abstract!PendingRecord]
      BY <2>2 DEF IInv, TypeOK
    <3>3. Abstract!Insert(t)
      BY <3>1, <3>2 DEF Abstract!Insert
    <3>4. QED BY <3>3 DEF Abstract!Next
  <2>3. ASSUME NEW t \in Tasks, NEW op \in Abstract!Transitions,
               Abstract!Allowed(op, docs[t].rec),
               docs' = [docs EXCEPT ![t] = [rec |-> Abstract!After(op, docs[t].rec),
                                            rev |-> docs[t].rev + 1]]
        PROVE  Abstract!Next
    <3>1. [u \in Tasks |-> docs[u].rec][t] = docs[t].rec
      OBVIOUS
    <3>2. [u \in Tasks |-> docs'[u].rec]
            = [[u \in Tasks |-> docs[u].rec] EXCEPT ![t] = Abstract!After(op, docs[t].rec)]
      BY <2>3 DEF IInv, TypeOK
    <3>3. Abstract!Transit(op, t)
      BY <2>3, <3>1, <3>2 DEF Abstract!Transit
    <3>4. QED BY <3>3 DEF Abstract!Next
  <2>4. QED BY <2>1, <2>2, <2>3, RecordStep
<1>3. QED BY <1>1, <1>2, Invariance, PTL DEF Spec, ImplementsTaskStore, Abstract!Spec

\* No completion computed before a cancellation was recorded overwrites it.
THEOREM CancelIsHonouredCorrect == Spec => CancelIsHonoured
<1>1. IInv /\ [Next]_vars =>
        [\A t \in Tasks :
           docs[t].rec.status = "CancelRequested" =>
              docs'[t].rec.status \in {"CancelRequested", "Cancelled", "Abandoned"}]_vars
  <2> SUFFICES ASSUME IInv, [Next]_vars, NEW u \in Tasks,
                      docs[u].rec.status = "CancelRequested"
               PROVE  docs'[u].rec.status \in {"CancelRequested", "Cancelled", "Abandoned"}
    OBVIOUS
  <2>1. CASE docs' = docs
    BY <2>1
  <2>2. ASSUME NEW t \in Tasks, docs[t] = NoDoc,
               docs' = [docs EXCEPT ![t] = [rec |-> Abstract!PendingRecord, rev |-> 1]]
        PROVE  docs'[u] = docs[u]
    BY <2>2 DEF NoDoc, Abstract!NoTask, IInv, TypeOK
  <2>3. ASSUME NEW t \in Tasks, NEW op \in Abstract!Transitions,
               Abstract!Allowed(op, docs[t].rec),
               docs' = [docs EXCEPT ![t] = [rec |-> Abstract!After(op, docs[t].rec),
                                            rev |-> docs[t].rev + 1]]
        PROVE  docs'[u].rec.status \in {"CancelRequested", "Cancelled", "Abandoned"}
    <3>1. CASE u = t
      <4>1. docs[u].rec \in Abstract!Record
        BY DEF IInv, TypeOK, Doc
      <4>2. docs'[u].rec = Abstract!After(op, docs[u].rec)
        BY <2>3, <3>1 DEF IInv, TypeOK
      <4>3. QED BY <2>3, <3>1, <4>1, <4>2, AfterHonoursCancel
    <3>2. CASE u # t
      BY <2>3, <3>2 DEF IInv, TypeOK
    <3>3. QED BY <3>1, <3>2
  <2>4. QED BY <2>1, <2>2, <2>3, RecordStep
<1>2. QED BY <1>1, Invariance, PTL DEF Spec, CancelIsHonoured
-----------------------------------------------------------------------------
(* The timeline.                                                           *)

\* The call committed a document of t and is about to write its snapshot.
Holds(c, t) == call[c].pc = "snapshot" /\ call[c].task = t

\* h is a copy of a committed revision of t: the record, a snapshot, or what a
\* call is about to write as one.
Copy(t, h) ==
    /\ h.rev # 0
    /\ \/ h = docs[t]
       \/ h \in history[t]
       \/ \E c \in Callers : Holds(c, t) /\ call[c].doc = h

\* k is what one accepted transition makes of h.
Follows(h, k) ==
    \E op \in Abstract!Transitions :
       /\ Abstract!Allowed(op, h.rec)
       /\ k.rec = Abstract!After(op, h.rec)

\* Whoever has a copy of a revision has the same one, none is newer than the
\* record, and neighbouring copies are one transition apart.
CopiesAgree ==
    \A t \in Tasks : \A h, k \in Doc :
       Copy(t, h) /\ Copy(t, k) =>
          /\ h.rev <= docs[t].rev
          /\ h.rev = k.rev => h = k
          /\ k.rev = h.rev + 1 => Follows(h, k)

\* Every revision has its snapshot, or will have it, or lost it.
RevisionsCovered ==
    \A t \in Tasks : \A rev \in 1 .. docs[t].rev :
       \/ \E h \in history[t] : h.rev = rev
       \/ rev \in dropped[t]
       \/ \E c \in Callers : Holds(c, t) /\ call[c].doc.rev = rev

\* Snapshots are of committed revisions.
SnapshotsAreCopies == \A t \in Tasks : \A h \in history[t] : h.rev # 0

\* So is what a call is about to write.
HeldIsCopy == \A c \in Callers : call[c].pc = "snapshot" => call[c].doc.rev # 0

TimelineInv == CopiesAgree /\ RevisionsCovered /\ SnapshotsAreCopies /\ HeldIsCopy

\* A step that commits nothing makes no copy that was not there.
LEMMA CopiesQuiet ==
    ASSUME TypeOK, CopiesAgree, docs' = docs,
           \A t \in Tasks, h \in Doc : Copy(t, h)' => Copy(t, h)
    PROVE  CopiesAgree'
  BY DEF CopiesAgree, Follows

\* A commit makes one, which follows the record.
LEMMA CopiesCommit ==
    ASSUME TypeOK, CopiesAgree, NEW u \in Tasks, NEW new \in Doc,
           new.rev = docs[u].rev + 1,
           docs[u].rev = 0 \/ Follows(docs[u], new),
           docs' = [docs EXCEPT ![u] = new],
           \A t \in Tasks, h \in Doc : Copy(t, h)' => Copy(t, h) \/ (t = u /\ h = new)
    PROVE  CopiesAgree'
<1>1. docs[u] \in Doc /\ docs[u].rev \in Nat /\ docs'[u] = new
      /\ \A t \in Tasks : t # u => docs'[t] = docs[t]
  BY DEF TypeOK, Doc
<1>2. \A h \in Doc : h.rev \in Nat
  BY DEF Doc
<1>3. \A h, k : Follows(h, k)' <=> Follows(h, k)
  BY DEF Follows
<1>4. SUFFICES ASSUME NEW t \in Tasks, NEW h \in Doc, NEW k \in Doc, Copy(t, h)', Copy(t, k)'
               PROVE  /\ h.rev <= docs'[t].rev
                      /\ h.rev = k.rev => h = k
                      /\ k.rev = h.rev + 1 => Follows(h, k)
  BY <1>3 DEF CopiesAgree
<1>5. CASE t # u
  BY <1>1, <1>4, <1>5 DEF CopiesAgree
<1>6. CASE t = u
  <2>1. \A g \in Doc : Copy(u, g) => g.rev <= docs[u].rev
    BY DEF CopiesAgree
  <2>2. \A g \in Doc : Copy(u, g) /\ g.rev = docs[u].rev => Follows(g, new)
    <3>1. SUFFICES ASSUME NEW g \in Doc, Copy(u, g), g.rev = docs[u].rev PROVE Follows(g, new)
      OBVIOUS
    <3>2. docs[u].rev # 0 /\ Copy(u, docs[u]) BY <3>1 DEF Copy
    <3>3. g = docs[u] BY <1>1, <3>1, <3>2 DEF CopiesAgree
    <3>4. QED BY <3>2, <3>3
  <2>3. CASE h = new /\ k = new BY <1>1, <1>2, <1>6, <2>3
  <2>4. CASE h = new /\ Copy(u, k) BY <1>1, <1>2, <1>6, <2>1, <2>4
  <2>5. CASE Copy(u, h) /\ k = new BY <1>1, <1>2, <1>6, <2>1, <2>2, <2>5
  <2>6. CASE Copy(u, h) /\ Copy(u, k)
    <3>1. h.rev <= docs[u].rev /\ (h.rev = k.rev => h = k) /\ (k.rev = h.rev + 1 => Follows(h, k))
      BY <2>6 DEF CopiesAgree
    <3>2. QED BY <1>1, <1>2, <1>6, <3>1
  <2>7. QED BY <1>4, <1>6, <2>3, <2>4, <2>5, <2>6
<1>7. QED BY <1>5, <1>6

\* What a call does that neither commits nor holds: the timeline stays.
LEMMA TimelineQuiet ==
    ASSUME TypeOK, TimelineInv, docs' = docs, history' = history, dropped' = dropped,
           \A c \in Callers : \/ call'[c] = call[c]
                              \/ call[c].pc # "snapshot" /\ call'[c].pc # "snapshot"
    PROVE  TimelineInv'
<1>1. \A c \in Callers, t \in Tasks :
         /\ Holds(c, t)' <=> Holds(c, t)
         /\ Holds(c, t) => call'[c] = call[c]
  BY DEF Holds
<1>2. \A t \in Tasks, h \in Doc : Copy(t, h)' => Copy(t, h)
  BY <1>1 DEF Copy
<1>3. CopiesAgree' BY <1>2, CopiesQuiet DEF TimelineInv
<1>4. RevisionsCovered' BY <1>1 DEF TimelineInv, RevisionsCovered
<1>5. SnapshotsAreCopies' /\ HeldIsCopy' BY DEF TimelineInv, SnapshotsAreCopies, HeldIsCopy
<1>6. QED BY <1>3, <1>4, <1>5 DEF TimelineInv

\* A commit: the caller holds the new revision.
LEMMA TimelineCommit ==
    ASSUME TypeOK, TimelineInv, NEW c \in Callers, NEW u \in Tasks, NEW new \in Doc,
           new.rev = docs[u].rev + 1, docs[u].rev = 0 \/ Follows(docs[u], new),
           docs' = [docs EXCEPT ![u] = new], history' = history, dropped' = dropped,
           \A d \in Callers : d # c => call'[d] = call[d],
           call[c].pc # "snapshot",
           call'[c].pc = "snapshot", call'[c].task = u, call'[c].doc = new
    PROVE  TimelineInv'
<1>1. /\ docs[u].rev \in Nat /\ docs'[u] = new /\ new.rev \in Nat /\ new.rev # 0
      /\ \A t \in Tasks : t # u => docs'[t] = docs[t]
  BY DEF TypeOK, Doc
<1>2. \A d \in Callers, t \in Tasks :
         /\ Holds(d, t)' <=> Holds(d, t) \/ (d = c /\ t = u)
         /\ Holds(d, t) => d # c /\ call'[d] = call[d]
  BY DEF Holds
<1>3. \A t \in Tasks, h \in Doc : Copy(t, h)' => Copy(t, h) \/ (t = u /\ h = new)
  BY <1>1, <1>2 DEF Copy
<1>4. CopiesAgree' BY <1>3, CopiesCommit DEF TimelineInv
<1>5. RevisionsCovered'
  <2>1. SUFFICES ASSUME NEW t \in Tasks, NEW rev \in 1 .. docs'[t].rev
                 PROVE  \/ \E h \in history[t] : h.rev = rev
                        \/ rev \in dropped[t]
                        \/ \E d \in Callers : Holds(d, t)' /\ call'[d].doc.rev = rev
    BY DEF RevisionsCovered
  <2>2. CASE rev \in 1 .. docs[t].rev
    BY <1>2, <2>2 DEF TimelineInv, RevisionsCovered
  <2>3. CASE rev \notin 1 .. docs[t].rev
    <3>1. t = u /\ rev = new.rev BY <1>1, <2>1, <2>3
    <3>2. QED BY <1>2, <3>1
  <2>4. QED BY <2>2, <2>3
<1>6. SnapshotsAreCopies' BY DEF TimelineInv, SnapshotsAreCopies
<1>7. HeldIsCopy' BY <1>1 DEF TimelineInv, HeldIsCopy
<1>8. QED BY <1>4, <1>5, <1>6, <1>7 DEF TimelineInv

\* A call lets go of the revision it held: written, or lost.
LEMMA TimelineLetGo ==
    ASSUME TypeOK, TimelineInv, NEW c \in Callers, NEW u \in Tasks, Holds(c, u), docs' = docs,
           \A d \in Callers : d # c => call'[d] = call[d], call'[c].pc = "idle",
           \A t \in Tasks : t # u => history'[t] = history[t] /\ dropped'[t] = dropped[t],
           \/ history'[u] = history[u] /\ dropped'[u] = dropped[u] \cup {call[c].doc.rev}
           \/ /\ history'[u] = history[u] \cup {call[c].doc} /\ dropped'[u] = dropped[u]
           \/ /\ \E h \in history[u] : h.rev = call[c].doc.rev
              /\ history'[u] = history[u] /\ dropped'[u] = dropped[u]
    PROVE  TimelineInv'
<1>1. \A d \in Callers, t \in Tasks :
         /\ Holds(d, t)' <=> Holds(d, t) /\ d # c
         /\ d # c => call'[d] = call[d]
         /\ Holds(d, t) /\ d = c => t = u
  BY DEF Holds
<1>2. call[c].doc.rev # 0 BY DEF TimelineInv, HeldIsCopy, Holds
<1>3. \A t \in Tasks : /\ history[t] \subseteq history'[t] /\ dropped[t] \subseteq dropped'[t]
                       /\ \A h \in history'[t] : h \in history[t] \/ (t = u /\ h = call[c].doc)
  OBVIOUS
<1>4. \A t \in Tasks, h \in Doc : Copy(t, h)' => Copy(t, h)
  BY <1>1, <1>3 DEF Copy
<1>5. CopiesAgree' BY <1>4, CopiesQuiet DEF TimelineInv
<1>6. RevisionsCovered'
  <2>1. SUFFICES ASSUME NEW t \in Tasks, NEW rev \in 1 .. docs[t].rev
                 PROVE  \/ \E h \in history'[t] : h.rev = rev
                        \/ rev \in dropped'[t]
                        \/ \E d \in Callers : Holds(d, t)' /\ call'[d].doc.rev = rev
    BY DEF RevisionsCovered
  <2>2. CASE (\E h \in history[t] : h.rev = rev) \/ rev \in dropped[t]
    BY <1>3, <2>2
  <2>3. ASSUME NEW d \in Callers, Holds(d, t), call[d].doc.rev = rev
        PROVE  \/ \E h \in history'[t] : h.rev = rev
               \/ rev \in dropped'[t]
               \/ \E e \in Callers : Holds(e, t)' /\ call'[e].doc.rev = rev
    BY <1>1, <2>3
  <2>4. QED BY <2>2, <2>3 DEF TimelineInv, RevisionsCovered
<1>7. SnapshotsAreCopies' BY <1>2, <1>3 DEF TimelineInv, SnapshotsAreCopies
<1>8. HeldIsCopy' BY DEF TimelineInv, HeldIsCopy
<1>9. QED BY <1>5, <1>6, <1>7, <1>8 DEF TimelineInv

\* Every step keeps the timeline.
LEMMA TimelineStep ==
    ASSUME IInv, TypeOK', TimelineInv, [Next]_vars
    PROVE  TimelineInv'
<1>0. TypeOK BY DEF IInv
<1>1. ASSUME NEW c \in Executors, NEW t \in Tasks, Insert(c, t) PROVE TimelineInv'
  <2> DEFINE new == [rec |-> Abstract!PendingRecord, rev |-> 1]
  <2>1. docs[t].rev = 0 /\ new \in Doc /\ new.rev = docs[t].rev + 1
    BY <1>1, NullTypes DEF Insert, Doc
  <2>2. /\ docs' = [docs EXCEPT ![t] = new] /\ history' = history /\ dropped' = dropped
        /\ \A d \in Callers : d # c => call'[d] = call[d]
        /\ call[c].pc # "snapshot"
        /\ call'[c].pc = "snapshot" /\ call'[c].task = t /\ call'[c].doc = new
    BY <1>0, <1>1 DEF Insert, Idle, TypeOK
  <2> HIDE DEF new
  <2>3. QED BY <1>0, <2>1, <2>2, TimelineCommit
<1>2. ASSUME NEW c \in Executors, NEW t \in Tasks, NEW op \in Abstract!Transitions,
             Start(c, op, t)
      PROVE  TimelineInv'
  BY <1>0, <1>2, TimelineQuiet DEF Start, Begin, Idle, TypeOK
<1>3. ASSUME NEW c \in Callers, ReadAccepted(c) PROVE TimelineInv'
  <2>1. /\ call[c].pc = "read" /\ call'[c].pc = "swap"
        /\ \A d \in Callers : d # c => call'[d] = call[d]
    BY <1>0, <1>3 DEF ReadAccepted, TypeOK, Call
  <2>2. docs' = docs /\ history' = history /\ dropped' = dropped BY <1>3 DEF ReadAccepted
  <2>3. QED BY <1>0, <2>1, <2>2, TimelineQuiet
<1>4. ASSUME NEW c \in Callers, ReadRefused(c) PROVE TimelineInv'
  BY <1>0, <1>4, TimelineQuiet, NullTypes DEF ReadRefused, Return, TypeOK
<1>5. ASSUME NEW c \in Callers, SwapWon(c) PROVE TimelineInv'
  <2> DEFINE u == call[c].task
             new == [rec |-> Abstract!After(call[c].op, call[c].doc.rec),
                     rev |-> call[c].doc.rev + 1]
  <2>1. /\ call[c] \in Call /\ call[c].pc = "swap" /\ u \in Tasks
        /\ call[c].op \in Abstract!Transitions
    BY <1>5 DEF SwapWon, IInv, TypeOK, Call, CallsTransit
  <2>2. call[c].doc = docs[u] /\ Abstract!Allowed(call[c].op, docs[u].rec)
    BY <1>5, <2>1 DEF SwapWon, SwapHolds, IInv, SwapKnows
  <2>3. new \in Doc /\ new.rev = docs[u].rev + 1
    BY <2>1, <2>2, AfterType DEF Call, Doc
  <2>4. Follows(docs[u], new) BY <2>1, <2>2 DEF Follows
  <2>5. /\ docs' = [docs EXCEPT ![u] = new] /\ history' = history /\ dropped' = dropped
        /\ call' = [call EXCEPT ![c].pc = "snapshot", ![c].doc = new]
    BY <1>5 DEF SwapWon
  <2>6. /\ \A d \in Callers : d # c => call'[d] = call[d]
        /\ call'[c].pc = "snapshot" /\ call'[c].task = u /\ call'[c].doc = new
    BY <1>0, <2>1, <2>5 DEF TypeOK, Call
  <2> HIDE DEF u, new
  <2>7. QED BY <1>0, <2>1, <2>3, <2>4, <2>5, <2>6, TimelineCommit
<1>6. ASSUME NEW c \in Callers, SwapLost(c) PROVE TimelineInv'
  <2>1. /\ docs' = docs /\ history' = history /\ dropped' = dropped /\ call[c] \in Call
        /\ call[c].pc = "swap"
    BY <1>0, <1>6 DEF SwapLost, TypeOK
  <2>2. /\ call'[c].pc \in {"idle", "read"}
        /\ \A d \in Callers : d # c => call'[d] = call[d]
    <3>1. CASE Return(c, FALSE)
      BY <1>0, <3>1, NullTypes DEF Return, TypeOK
    <3>2. CASE call' = [call EXCEPT ![c].pc = "read", ![c].doc = NoDoc,
                                    ![c].attempt = @ + 1]
      BY <1>0, <2>1, <3>2 DEF TypeOK, Call
    <3>3. QED BY <1>6, <3>1, <3>2 DEF SwapLost
  <2>3. QED BY <1>0, <2>1, <2>2, TimelineQuiet
<1>7. ASSUME NEW c \in Callers, Snapshot(c) PROVE TimelineInv'
  <2> DEFINE u == call[c].task
  <2>1. u \in Tasks /\ Holds(c, u) BY <1>0, <1>7 DEF Snapshot, Holds, TypeOK, Call
  <2>2. /\ docs' = docs /\ dropped' = dropped /\ call'[c].pc = "idle"
        /\ \A d \in Callers : d # c => call'[d] = call[d]
    BY <1>0, <1>7, NullTypes DEF Snapshot, Return, TypeOK
  <2>3. /\ \A t \in Tasks : t # u => history'[t] = history[t]
        /\ \/ history'[u] = history[u] \cup {call[c].doc}
           \/ history'[u] = history[u] /\ \E h \in history[u] : h.rev = call[c].doc.rev
    BY <1>0, <1>7, <2>1 DEF Snapshot, TypeOK
  <2> HIDE DEF u
  <2>4. QED BY <1>0, <2>1, <2>2, <2>3, TimelineLetGo
<1>8. ASSUME NEW c \in Callers, SnapshotFails(c) \/ (c \in Executors /\ Crash(c) /\ call[c].pc = "snapshot")
      PROVE  TimelineInv'
  <2> DEFINE u == call[c].task
  <2>1. u \in Tasks /\ Holds(c, u) BY <1>0, <1>8 DEF SnapshotFails, Holds, TypeOK, Call
  <2>2. /\ docs' = docs /\ history' = history /\ call'[c].pc = "idle"
        /\ \A d \in Callers : d # c => call'[d] = call[d]
    BY <1>0, <1>8, NullTypes DEF SnapshotFails, Crash, Return, TypeOK
  <2>3. /\ \A t \in Tasks : t # u => dropped'[t] = dropped[t]
        /\ dropped'[u] = dropped[u] \cup {call[c].doc.rev}
    BY <1>0, <1>8, <2>1 DEF SnapshotFails, Crash, TypeOK
  <2> HIDE DEF u
  <2>4. QED BY <1>0, <2>1, <2>2, <2>3, TimelineLetGo
<1>9. ASSUME NEW c \in Executors, Crash(c), call[c].pc # "snapshot" PROVE TimelineInv'
  <2>1. /\ docs' = docs /\ history' = history /\ dropped' = dropped /\ call'[c].pc = "idle"
        /\ \A d \in Callers : d # c => call'[d] = call[d]
    BY <1>0, <1>9, NullTypes DEF Crash, TypeOK
  <2>2. QED BY <1>0, <1>9, <2>1, TimelineQuiet
<1>10. CASE SweepList \/ UNCHANGED vars
  BY <1>0, <1>10, TimelineQuiet DEF SweepList, vars
<1>11. ASSUME NEW t \in Tasks, SweepTask(t) PROVE TimelineInv'
  BY <1>0, <1>11, TimelineQuiet DEF SweepTask, Begin, Idle, TypeOK
<1>12. QED BY <1>1, <1>2, <1>3, <1>4, <1>5, <1>6, <1>7, <1>8, <1>9, <1>10, <1>11
           DEF Next, CallStep

\* The history of a task is its timeline: whatever order the snapshots of racing
\* calls are written in, and whichever of them are lost to crashes and failed
\* writes, every revision has at most one, and neighbours are one legal
\* transition apart (DriverTaskStore::modify and snapshot).
THEOREM HistoryIsTimelineCorrect == Spec => []HistoryIsTimeline
<1>1. Init => TimelineInv
  <2> SUFFICES ASSUME Init PROVE TimelineInv
    OBVIOUS
  <2>1. /\ \A t \in Tasks : docs[t].rev = 0 /\ history[t] = {}
        /\ \A c \in Callers : call[c].pc = "idle"
    BY NullTypes DEF Init, NoDoc
  <2>2. QED BY <2>1 DEF TimelineInv, CopiesAgree, Copy, Holds, RevisionsCovered,
                        SnapshotsAreCopies, HeldIsCopy
<1>2. TypeOK /\ TimelineInv => HistoryIsTimeline
  <2> SUFFICES ASSUME TypeOK, TimelineInv PROVE HistoryIsTimeline
    OBVIOUS
  <2>1. \A t \in Tasks : \A h \in history[t] : h \in Doc /\ Copy(t, h)
    BY DEF TypeOK, TimelineInv, SnapshotsAreCopies, Copy
  <2>2. \A t \in Tasks : docs[t] \in Doc /\ (docs[t].rev # 0 => Copy(t, docs[t]))
    BY DEF TypeOK, Copy
  <2>3. \A t \in Tasks : \A h \in history[t] : h.rev <= docs[t].rev
    BY <2>1 DEF TimelineInv, CopiesAgree
  <2>4. \A t \in Tasks : \A h \in history[t] : h.rev = docs[t].rev => h = docs[t]
    BY <2>1, <2>2 DEF TimelineInv, CopiesAgree, Copy
  <2>5. ASSUME NEW t \in Tasks, NEW h \in history[t], NEW k \in history[t]
        PROVE  /\ h.rev = k.rev => h = k
               /\ k.rev = h.rev + 1 =>
                     \E op \in Abstract!Transitions :
                        /\ Abstract!Allowed(op, h.rec)
                        /\ k.rec = Abstract!After(op, h.rec)
    <3>1. /\ h.rev = k.rev => h = k
          /\ k.rev = h.rev + 1 => Follows(h, k)
      BY <2>1 DEF TimelineInv, CopiesAgree
    <3>2. QED BY <3>1 DEF Follows
  <2>6. \A t \in Tasks : \A rev \in 1 .. docs[t].rev :
           \/ rev \in {h.rev : h \in history[t]}
           \/ rev \in dropped[t]
           \/ \E c \in Callers : /\ call[c].pc = "snapshot"
                                 /\ call[c].task = t
                                 /\ call[c].doc.rev = rev
    BY DEF TimelineInv, RevisionsCovered, Holds
  <2>7. QED BY <2>3, <2>4, <2>5, <2>6 DEF HistoryIsTimeline
<1>3. IInv /\ TypeOK' /\ TimelineInv /\ [Next]_vars => TimelineInv'
  BY TimelineStep
<1>4. QED BY <1>1, <1>2, <1>3, TypeCorrect, Invariance, PTL DEF Spec

-----------------------------------------------------------------------------
(* The report of the sweep.                                                *)

\* The sweep's calls settle: what one of them committed is terminal, and so is
\* every record it reported as settled.
SweepInv ==
    /\ call[Sweeper].pc # "idle" => call[Sweeper].op \in {"mark_cancelled", "fail"}
    /\ call[Sweeper].pc = "snapshot" => Abstract!Terminal(call[Sweeper].doc.rec)
    /\ ReportedIsSettled

\* The sweep's two transitions end in a terminal record.
LEMMA SweepAfterIsTerminal ==
    ASSUME NEW op \in {"mark_cancelled", "fail"}, NEW r \in Abstract!Record
    PROVE  Abstract!Terminal(Abstract!After(op, r))
  BY DEF Abstract!Settling, Abstract!After, Abstract!Settle, Abstract!mark_cancelled,
         Abstract!Terminal, Abstract!TerminalStatus, Abstract!Record

\* A terminal record stays what it is.
LEMMA TerminalStays ==
    ASSUME IInv, [Next]_vars, NEW u \in Tasks, Abstract!Terminal(docs[u].rec)
    PROVE  docs'[u] = docs[u]
<1>1. \A t \in Tasks : docs[t].rec \in Abstract!Record BY DEF IInv, TypeOK, Doc
<1>2. ASSUME NEW t \in Tasks, docs[t] = NoDoc PROVE t # u
  BY <1>2 DEF NoDoc, Abstract!NoTask, Abstract!Terminal, Abstract!TerminalStatus
<1>3. ASSUME NEW t \in Tasks, NEW op \in Abstract!Transitions,
             Abstract!Allowed(op, docs[t].rec)
      PROVE  t # u
  BY <1>1, <1>3, AllowedIsLive
<1>4. QED BY <1>2, <1>3, RecordStep DEF IInv, TypeOK

\* Every step keeps them.
LEMMA SweepStep ==
    ASSUME IInv, TypeOK', SweepInv, [Next]_vars
    PROVE  SweepInv'
<1>0. /\ TypeOK /\ Sweeper \in Callers /\ Sweeper \notin Executors
      /\ \A t \in Tasks : Abstract!Terminal(docs[t].rec) => Abstract!Terminal(docs'[t].rec)
  BY SweeperAssumption, TerminalStays DEF IInv
<1>1. ASSUME call'[Sweeper] = call[Sweeper],
             \A t \in Tasks : report'[t] \in {report[t], "none"}
      PROVE  SweepInv'
  BY <1>0, <1>1 DEF SweepInv, ReportedIsSettled
<1>2. ASSUME NEW c \in Callers, c # Sweeper,
             CallStep(c) \/ Crash(c) \/ (\E t \in Tasks : Insert(c, t))
             \/ \E t \in Tasks, op \in Abstract!Transitions : Start(c, op, t)
      PROVE  SweepInv'
  <2>1. call'[Sweeper] = call[Sweeper] /\ report' = report
    BY <1>0, <1>2 DEF CallStep, ReadAccepted, ReadRefused, SwapWon, SwapLost, Snapshot,
                      SnapshotFails, Crash, Insert, Start, Begin, Return, TypeOK
  <2>2. QED BY <1>1, <2>1
<1>3. CASE ReadAccepted(Sweeper)
  <2>1. /\ report' = report /\ docs' = docs /\ call[Sweeper] \in Call /\ call[Sweeper].pc = "read"
        /\ call'[Sweeper].pc = "swap" /\ call'[Sweeper].op = call[Sweeper].op
    BY <1>0, <1>3 DEF ReadAccepted, TypeOK, Call
  <2>2. QED BY <1>0, <2>1 DEF SweepInv, ReportedIsSettled
<1>4. ASSUME Return(Sweeper, FALSE) PROVE SweepInv'
  <2>1. ReconcileOutcome(call[Sweeper].op, FALSE) = "Error" BY DEF ReconcileOutcome
  <2>2. call'[Sweeper].pc = "idle" /\ \A t \in Tasks : report'[t] \in {report[t], "Error"}
    BY <1>0, <1>4, <2>1, NullTypes DEF Return, TypeOK
  <2>3. QED BY <1>0, <2>2 DEF SweepInv, ReportedIsSettled
<1>5. CASE SwapWon(Sweeper)
  <2>1. /\ call[Sweeper] \in Call /\ call[Sweeper].pc = "swap" /\ report' = report
        /\ call[Sweeper].doc.rec \in Abstract!Record
    BY <1>0, <1>5 DEF SwapWon, TypeOK, Call, Doc
  <2>2. /\ call'[Sweeper].op = call[Sweeper].op
        /\ call'[Sweeper].doc.rec = Abstract!After(call[Sweeper].op, call[Sweeper].doc.rec)
    BY <1>0, <1>5, <2>1 DEF SwapWon, TypeOK, Call
  <2>3. QED BY <1>0, <2>1, <2>2, SweepAfterIsTerminal DEF SweepInv, ReportedIsSettled
<1>6. CASE SwapLost(Sweeper) /\ ~Return(Sweeper, FALSE)
  <2>1. /\ call[Sweeper] \in Call /\ call[Sweeper].pc = "swap" /\ report' = report /\ docs' = docs
        /\ call' = [call EXCEPT ![Sweeper].pc = "read", ![Sweeper].doc = NoDoc,
                                ![Sweeper].attempt = @ + 1]
    BY <1>0, <1>6 DEF SwapLost, TypeOK
  <2>2. call'[Sweeper].pc = "read" /\ call'[Sweeper].op = call[Sweeper].op
    BY <1>0, <2>1 DEF TypeOK, Call
  <2>3. QED BY <1>0, <2>1, <2>2 DEF SweepInv, ReportedIsSettled
<1>7. CASE Snapshot(Sweeper)
  <2> DEFINE u == call[Sweeper].task
  <2>1. /\ u \in Tasks /\ docs' = docs /\ call'[Sweeper].pc = "idle"
        /\ \A t \in Tasks : t # u => report'[t] = report[t]
    BY <1>0, <1>7, NullTypes DEF Snapshot, Return, TypeOK, Call
  <2>2. Settler(Sweeper, u) BY <1>7 DEF Snapshot, Settler, SweepInv
  <2>3. Abstract!Terminal(docs[u].rec) BY <1>0, <2>1, <2>2 DEF IInv, SettlerKnows, Settler
  <2>4. QED BY <2>1, <2>3 DEF SweepInv, ReportedIsSettled
<1>8. CASE SweepList \/ UNCHANGED vars
  BY <1>1, <1>8 DEF SweepList, vars
<1>9. ASSUME NEW t \in Tasks, SweepTask(t) PROVE SweepInv'
  <2>1. SweepTransition(orphans[t]) \in {"mark_cancelled", "fail"} BY DEF SweepTransition
  <2>2. /\ docs' = docs /\ report' = report /\ call'[Sweeper].pc = "read"
        /\ call'[Sweeper].op \in {"mark_cancelled", "fail"}
    BY <1>0, <1>9, <2>1 DEF SweepTask, Begin, TypeOK
  <2>3. QED BY <2>2 DEF SweepInv, ReportedIsSettled
<1>10. ASSUME NEW c \in Callers, CallStep(c) PROVE SweepInv'
  <2>1. CASE c # Sweeper BY <1>2, <1>10, <2>1
  <2>2. CASE c = Sweeper
    BY <1>3, <1>4, <1>5, <1>6, <1>7, <1>10, <2>2 DEF CallStep, ReadRefused, SnapshotFails
  <2>3. QED BY <2>1, <2>2
<1>11. ASSUME NEW c \in Executors, NEW t \in Tasks,
              Insert(c, t) \/ \E op \in Abstract!Transitions : Start(c, op, t)
       PROVE  SweepInv'
  BY <1>0, <1>2, <1>11
<1>12. ASSUME NEW c \in Executors, Crash(c) PROVE SweepInv'
  BY <1>0, <1>2, <1>12
<1>13. QED BY <1>8, <1>9, <1>10, <1>11, <1>12 DEF Next

\* A task that reconcile_orphaned_tasks reports as cancelled or failed is
\* terminal, though executors race with the sweep for the same records.
THEOREM ReportedIsSettledCorrect == Spec => []ReportedIsSettled
<1>1. Init => SweepInv
  <2> SUFFICES ASSUME Init PROVE SweepInv
    OBVIOUS
  <2>1. call[Sweeper].pc = "idle" /\ \A t \in Tasks : report[t] = "none"
    BY NullTypes DEF Init
  <2>2. QED BY <2>1 DEF SweepInv, ReportedIsSettled
<1>2. IInv /\ TypeOK' /\ SweepInv /\ [Next]_vars => SweepInv'
  BY SweepStep
<1>3. SweepInv => ReportedIsSettled
  BY DEF SweepInv
<1>4. QED BY <1>1, <1>2, <1>3, TypeCorrect, Invariance, PTL DEF Spec

-----------------------------------------------------------------------------
(* What the atomic store promises, and what the durable one therefore keeps. *)

\* The map of the atomic store, as the durable one shows it.
Records == [t \in Tasks |-> docs[t].rec]

\* Its actions over that map.
LEMMA PromiseActions ==
    /\ Abstract!Init <=> Records = [t \in Tasks |-> Abstract!NoTask]
    /\ Abstract!TypeOK <=> Records \in [Tasks -> Abstract!Record]
    /\ Abstract!Coherent <=> \A t \in Tasks : Abstract!RecordCoherent(Records[t])
    /\ \A t : Abstract!Insert(t) <=>
                 /\ Records[t] = Abstract!NoTask
                 /\ Records' = [Records EXCEPT ![t] = Abstract!PendingRecord]
    /\ \A t, op : Abstract!Transit(op, t) <=>
                 /\ Abstract!Allowed(op, Records[t])
                 /\ Records' = [Records EXCEPT ![t] = Abstract!After(op, Records[t])]
  BY DEF Records, Abstract!Init, Abstract!TypeOK, Abstract!Coherent, Abstract!Insert,
         Abstract!Transit

\* An accepted transition keeps a coherent record coherent.
LEMMA AfterCoherent ==
    ASSUME NEW op \in Abstract!Transitions, NEW r \in Abstract!Record,
           Abstract!RecordCoherent(r), Abstract!Allowed(op, r)
    PROVE  Abstract!RecordCoherent(Abstract!After(op, r))
<1> USE DEF Abstract!RecordCoherent, Abstract!Terminal, Abstract!Allowed, Abstract!Live,
            Abstract!After, Abstract!Record, Abstract!LiveStatus, Abstract!TerminalStatus
<1>1. CASE op \in Abstract!Settling /\ r.status = "CancelRequested"
  BY <1>1 DEF Abstract!Settling, Abstract!Settle, Abstract!mark_cancelled
<1>2. CASE op = "complete" /\ r.status # "CancelRequested"
  BY <1>2 DEF Abstract!Settling, Abstract!Settle
<1>3. CASE op \in {"fail", "timeout"} /\ r.status # "CancelRequested"
  BY <1>3 DEF Abstract!Settling, Abstract!Settle
<1>4. CASE op \in {"mark_running", "mark_awaiting", "mark_awaiting_with_question"}
  BY <1>4 DEF Abstract!Settling
<1>5. CASE op \in {"request_cancel", "set_timeout_ms"}
  BY <1>5 DEF Abstract!Settling
<1>6. CASE op \in {"mark_cancelled", "kill"}
  BY <1>6 DEF Abstract!Settling, Abstract!mark_cancelled
<1>7. QED BY <1>1, <1>2, <1>3, <1>4, <1>5, <1>6 DEF Abstract!Transitions, Abstract!Settling

\* The atomic map stays a map of records through every insert and transition.
THEOREM PromiseTypeCorrect == Abstract!Spec => []Abstract!TypeOK
<1>1. Abstract!Init => Abstract!TypeOK
  BY PromiseActions, NullTypes DEF NoDoc, Doc
<1>2. Abstract!TypeOK /\ [Abstract!Next]_Records => Abstract!TypeOK'
  <2> SUFFICES ASSUME Abstract!TypeOK, [Abstract!Next]_Records PROVE Abstract!TypeOK'
    OBVIOUS
  <2>0. Records \in [Tasks -> Abstract!Record] BY PromiseActions
  <2>1. ASSUME NEW t \in Tasks, Abstract!Insert(t) PROVE Records' \in [Tasks -> Abstract!Record]
    BY <2>0, <2>1, PromiseActions, NullTypes
  <2>2. ASSUME NEW t \in Tasks, NEW op \in Abstract!Transitions, Abstract!Transit(op, t)
        PROVE  Records' \in [Tasks -> Abstract!Record]
    <3>1. Abstract!After(op, Records[t]) \in Abstract!Record BY <2>0, AfterType
    <3>2. QED BY <2>0, <2>2, <3>1, PromiseActions
  <2>3. Records' \in [Tasks -> Abstract!Record]
    BY <2>0, <2>1, <2>2 DEF Abstract!Next
  <2>4. QED BY <2>3 DEF Records, Abstract!TypeOK
<1>3. QED BY <1>1, <1>2, PTL DEF Abstract!Spec, Records

\* Every record of the atomic store is coherent (result, error and end time
\* agree with the status) after any sequence of the transitions of store.rs.
THEOREM PromiseCoherentCorrect == Abstract!Spec => []Abstract!Coherent
<1>1. Abstract!Init => Abstract!Coherent
  <2>1. Abstract!RecordCoherent(Abstract!NoTask)
    BY DEF Abstract!RecordCoherent, Abstract!NoTask, Abstract!Terminal, Abstract!TerminalStatus
  <2>2. QED BY <2>1, PromiseActions
<1>2. Abstract!TypeOK /\ Abstract!Coherent /\ [Abstract!Next]_Records => Abstract!Coherent'
  <2> SUFFICES ASSUME Abstract!TypeOK, Abstract!Coherent, [Abstract!Next]_Records
               PROVE  Abstract!Coherent'
    OBVIOUS
  <2>0. /\ Records \in [Tasks -> Abstract!Record]
        /\ \A t \in Tasks : Abstract!RecordCoherent(Records[t])
    BY PromiseActions
  <2>1. ASSUME NEW t \in Tasks, Abstract!Insert(t)
        PROVE  \A u \in Tasks : Abstract!RecordCoherent(Records'[u])
    <3>1. Abstract!RecordCoherent(Abstract!PendingRecord)
      BY DEF Abstract!RecordCoherent, Abstract!PendingRecord, Abstract!NoTask, Abstract!Terminal,
             Abstract!TerminalStatus
    <3>2. QED BY <2>0, <2>1, <3>1, PromiseActions
  <2>2. ASSUME NEW t \in Tasks, NEW op \in Abstract!Transitions, Abstract!Transit(op, t)
        PROVE  \A u \in Tasks : Abstract!RecordCoherent(Records'[u])
    <3>1. Abstract!RecordCoherent(Abstract!After(op, Records[t]))
      BY <2>0, <2>2, AfterCoherent, PromiseActions
    <3>2. QED BY <2>0, <2>2, <3>1, PromiseActions
  <2>3. \A u \in Tasks : Abstract!RecordCoherent(Records'[u])
    BY <2>0, <2>1, <2>2 DEF Abstract!Next
  <2>4. QED BY <2>3 DEF Records, Abstract!Coherent
<1>3. QED BY <1>1, <1>2, PromiseTypeCorrect, PTL DEF Abstract!Spec, Records

\* A terminal record of the atomic store is never written again.
THEOREM PromiseSettledIsFinalCorrect == Abstract!Spec => Abstract!SettledIsFinal
<1>1. Abstract!TypeOK /\ [Abstract!Next]_Records =>
         [\A t \in Tasks : Abstract!Terminal(Records[t]) => Records'[t] = Records[t]]_Records
  <2> SUFFICES ASSUME Abstract!TypeOK, [Abstract!Next]_Records, NEW u \in Tasks,
                      Abstract!Terminal(Records[u])
               PROVE  Records'[u] = Records[u]
    OBVIOUS
  <2>0. Records \in [Tasks -> Abstract!Record] BY PromiseActions
  <2>1. ASSUME NEW t \in Tasks, Abstract!Insert(t) PROVE Records'[u] = Records[u]
    BY <2>0, <2>1, PromiseActions
       DEF Abstract!NoTask, Abstract!Terminal, Abstract!TerminalStatus
  <2>2. ASSUME NEW t \in Tasks, NEW op \in Abstract!Transitions, Abstract!Transit(op, t)
        PROVE  Records'[u] = Records[u]
    <3>1. t # u BY <2>0, <2>2, AllowedIsLive, PromiseActions
    <3>2. QED BY <2>0, <2>2, <3>1, PromiseActions
  <2>3. QED BY <2>1, <2>2 DEF Abstract!Next
<1>2. QED BY <1>1, PromiseTypeCorrect, PTL DEF Abstract!Spec, Abstract!SettledIsFinal, Records

\* So the records of the durable store are coherent, and a terminal one is
\* never written again, whatever races and crashes its calls meet.
THEOREM DurableCoherent == Spec => []Abstract!Coherent /\ Abstract!SettledIsFinal
  BY Refinement, PromiseCoherentCorrect, PromiseSettledIsFinalCorrect DEF ImplementsTaskStore

-----------------------------------------------------------------------------
(***************************************************************************)
(* The executors behind the records of these tasks are kept by the         *)
(* registry of module DetachedRegistry.  Below, its guarantees for any     *)
(* runs, owners, threads and soft cap.                                     *)
(***************************************************************************)
CONSTANTS Runs, TaskOf, Spawned, Managed, Owners, OwnerOf, Threads, ActsFor, SoftCap

VARIABLES entries, steering, status, token, started, announced, aborted, thread

Reg == INSTANCE DetachedRegistry WITH Callers <- Threads, call <- thread

\* A call past its first step knows the run it works for.
ThreadShape ==
    \A c \in Threads :
        /\ thread[c].op \in {"sweep", "insert", "wait", "remove", "trip", "announce", "abort"}
              => thread[c].run \in Runs
        /\ thread[c].then # "idle" => thread[c].run \in Runs

\* Every step keeps the type and the shape of the calls.
LEMMA RegistryTypeStep ==
  ASSUME Reg!RunAssumption, Reg!CallerAssumption, Reg!TypeOK, ThreadShape, [Reg!Next]_Reg!vars
  PROVE  Reg!TypeOK' /\ ThreadShape'
<1>. USE DEF Reg!RunAssumption, Reg!CallerAssumption, Reg!TypeOK, Reg!Status, Reg!Token,
      Reg!CallState, Reg!NoneOr, ThreadShape
<1>1. ASSUME NEW c \in Threads, Reg!RegisterSweeps(c) PROVE Reg!TypeOK' /\ ThreadShape'
  BY <1>1 DEF Reg!RegisterSweeps, Reg!Takes, Reg!Sweepable, Reg!IsSettled, Reg!Continue,
      Reg!Deregistering, Reg!executors
<1>2. ASSUME NEW c \in Threads, Reg!RegisterInserts(c) PROVE Reg!TypeOK' /\ ThreadShape'
  BY <1>2 DEF Reg!RegisterInserts, Reg!Continue, Reg!IdleCall, Reg!At, Reg!executors
<1>3. ASSUME NEW c \in Threads, Reg!RegisterRefused(c) PROVE Reg!TypeOK' /\ ThreadShape'
  BY <1>3 DEF Reg!RegisterRefused, Reg!Continue, Reg!IdleCall, Reg!At
<1>4. ASSUME NEW c \in Threads, Reg!WaitWakes(c) PROVE Reg!TypeOK' /\ ThreadShape'
  BY <1>4 DEF Reg!WaitWakes, Reg!Wakes, Reg!IsSettled, Reg!Continue, Reg!At, Reg!executors
<1>5. ASSUME NEW c \in Threads, Reg!WaitRemoves(c) PROVE Reg!TypeOK' /\ ThreadShape'
  BY <1>5 DEF Reg!WaitRemoves, Reg!Takes, Reg!Continue, Reg!Deregistering, Reg!executors
<1>6. ASSUME NEW c \in Threads, Reg!Deregisters(c) PROVE Reg!TypeOK' /\ ThreadShape'
  BY <1>6 DEF Reg!Deregisters, Reg!Continue, Reg!Deregistering, Reg!executors
<1>7. ASSUME NEW c \in Threads, Reg!Deregistered(c) PROVE Reg!TypeOK' /\ ThreadShape'
  BY <1>7 DEF Reg!Deregistered, Reg!Continue, Reg!IdleCall, Reg!At, Reg!executors
<1>8. ASSUME NEW c \in Threads, Reg!CancelWhereTakes(c) PROVE Reg!TypeOK' /\ ThreadShape'
  BY <1>8 DEF Reg!CancelWhereTakes, Reg!TakesEntry, Reg!Takes, Reg!Continue, Reg!Deregistering,
      Reg!executors
<1>9. ASSUME NEW c \in Threads, Reg!CancelWhereSkips(c) PROVE Reg!TypeOK' /\ ThreadShape'
  BY <1>9 DEF Reg!CancelWhereSkips, Reg!Rest, Reg!Continue, Reg!IdleCall, Reg!At, Reg!executors
<1>10. ASSUME NEW c \in Threads, Reg!Trips(c) PROVE Reg!TypeOK' /\ ThreadShape'
  BY <1>10 DEF Reg!Trips, Reg!Trip, Reg!Rest, Reg!Continue, Reg!IdleCall, Reg!At
<1>11. ASSUME NEW c \in Threads, Reg!Announces(c) PROVE Reg!TypeOK' /\ ThreadShape'
  BY <1>11 DEF Reg!Announces, Reg!ToAnnounce, Reg!IsSettled, Reg!Continue, Reg!At
<1>12. ASSUME NEW c \in Threads, Reg!Aborts(c) PROVE Reg!TypeOK' /\ ThreadShape'
  BY <1>12 DEF Reg!Aborts, Reg!Rest, Reg!Continue, Reg!IdleCall, Reg!At
<1>13. ASSUME NEW c \in Threads, Reg!RegisterChecks(c) PROVE Reg!TypeOK' /\ ThreadShape'
  BY <1>13 DEF Reg!RegisterChecks, Reg!Registered, Reg!Continue, Reg!IdleCall, Reg!At
<1>14. ASSUME NEW c \in Threads, Reg!WaitStarts(c) PROVE Reg!TypeOK' /\ ThreadShape'
  BY <1>14 DEF Reg!WaitStarts, Reg!Owned, Reg!Registered, Reg!Continue, Reg!IdleCall, Reg!At,
      Reg!executors
<1>15. ASSUME NEW c \in Threads, Reg!WaitTimesOut(c) PROVE Reg!TypeOK' /\ ThreadShape'
  BY <1>15 DEF Reg!WaitTimesOut, Reg!Continue, Reg!IdleCall, Reg!At, Reg!executors
<1>16. ASSUME NEW c \in Threads, Reg!Sweeps(c) PROVE Reg!TypeOK' /\ ThreadShape'
  BY <1>16 DEF Reg!Sweeps, Reg!Takes, Reg!Sweepable, Reg!IsSettled, Reg!Continue, Reg!IdleCall,
      Reg!At, Reg!Deregistering, Reg!executors
<1>17. ASSUME NEW c \in Threads, Reg!Prunes(c) PROVE Reg!TypeOK' /\ ThreadShape'
  BY <1>17 DEF Reg!Prunes, Reg!Takes, Reg!Sweepable, Reg!IsSettled, Reg!Continue, Reg!IdleCall,
      Reg!At, Reg!Deregistering, Reg!executors
<1>18. ASSUME NEW c \in Threads, Reg!Cancels(c) PROVE Reg!TypeOK' /\ ThreadShape'
  BY <1>18 DEF Reg!Cancels, Reg!TakesEntry, Reg!Takes, Reg!Owned, Reg!Registered, Reg!Continue,
      Reg!IdleCall, Reg!At, Reg!Deregistering, Reg!executors
<1>19. ASSUME NEW c \in Threads, Reg!CancelsTrusted(c) PROVE Reg!TypeOK' /\ ThreadShape'
  BY <1>19 DEF Reg!CancelsTrusted, Reg!TakesEntry, Reg!Takes, Reg!Continue, Reg!IdleCall, Reg!At,
      Reg!Deregistering, Reg!executors
<1>20. ASSUME NEW c \in Threads, Reg!CancelWhereLists(c) PROVE Reg!TypeOK' /\ ThreadShape'
  BY <1>20 DEF Reg!CancelWhereLists, Reg!Rest, Reg!Registered, Reg!Continue, Reg!IdleCall, Reg!At,
      Reg!executors
<1>21. ASSUME NEW c \in Threads, Reg!CancelsCooperatively(c) PROVE Reg!TypeOK' /\ ThreadShape'
  BY <1>21 DEF Reg!CancelsCooperatively, Reg!Owned, Reg!Registered, Reg!IsSettled, Reg!Trip,
      Reg!Continue, Reg!IdleCall, Reg!At
<1>22. ASSUME NEW r \in Runs, Reg!RegistersSteering(r) PROVE Reg!TypeOK' /\ ThreadShape'
  BY <1>22 DEF Reg!RegistersSteering
<1>23. ASSUME NEW r \in Runs, Reg!ReleasesCancellation(r) PROVE Reg!TypeOK' /\ ThreadShape'
  BY <1>23 DEF Reg!ReleasesCancellation
<1>24. ASSUME NEW r \in Runs, Reg!Publishes(r) PROVE Reg!TypeOK' /\ ThreadShape'
  BY <1>24 DEF Reg!Publishes
<1>25. ASSUME NEW r \in Runs, Reg!DropsSender(r) PROVE Reg!TypeOK' /\ ThreadShape'
  BY <1>25 DEF Reg!DropsSender
<1>26. CASE UNCHANGED Reg!vars
  BY <1>26 DEF Reg!vars
<1>27. QED BY <1>1, <1>2, <1>3, <1>4, <1>5, <1>6, <1>7, <1>8, <1>9, <1>10, <1>11, <1>12, <1>13,
      <1>14, <1>15, <1>16, <1>17, <1>18, <1>19, <1>20, <1>21, <1>22, <1>23, <1>24, <1>25, <1>26
      DEF Reg!Next, Reg!Proceeds

\* An abort about to happen was announced, unless the run had settled.
AbortReady ==
    /\ Reg!AbortIsAnnounced
    /\ \A c \in Threads :
         thread[c].op = "abort" => thread[c].run \in announced \/ Reg!IsSettled(thread[c].run)

\* Nothing is aborted unannounced; a settled run stays settled.
LEMMA AbortStep ==
  ASSUME Reg!RunAssumption, Reg!CallerAssumption, Reg!TypeOK, ThreadShape, AbortReady, [Reg!Next]_Reg!vars
  PROVE  AbortReady'
<1>. USE DEF Reg!RunAssumption, AbortReady, Reg!AbortIsAnnounced, Reg!IsSettled, Reg!TypeOK,
      Reg!Status, Reg!Token, Reg!CallState, Reg!NoneOr, ThreadShape
<1>1. ASSUME NEW c \in Threads, Reg!RegisterSweeps(c) PROVE AbortReady'
  BY <1>1 DEF Reg!RegisterSweeps, Reg!Takes, Reg!Sweepable, Reg!Continue, Reg!Deregistering,
      Reg!executors
<1>2. ASSUME NEW c \in Threads, Reg!RegisterInserts(c) PROVE AbortReady'
  BY <1>2 DEF Reg!RegisterInserts, Reg!Continue, Reg!IdleCall, Reg!At, Reg!executors
<1>3. ASSUME NEW c \in Threads, Reg!RegisterRefused(c) PROVE AbortReady'
  BY <1>3 DEF Reg!RegisterRefused, Reg!Continue, Reg!IdleCall, Reg!At
<1>4. ASSUME NEW c \in Threads, Reg!WaitWakes(c) PROVE AbortReady'
  BY <1>4 DEF Reg!WaitWakes, Reg!Wakes, Reg!Continue, Reg!At, Reg!executors
<1>5. ASSUME NEW c \in Threads, Reg!WaitRemoves(c) PROVE AbortReady'
  BY <1>5 DEF Reg!WaitRemoves, Reg!Takes, Reg!Continue, Reg!Deregistering, Reg!executors
<1>6. ASSUME NEW c \in Threads, Reg!Deregisters(c) PROVE AbortReady'
  BY <1>6 DEF Reg!Deregisters, Reg!Continue, Reg!Deregistering, Reg!executors
<1>7. ASSUME NEW c \in Threads, Reg!Deregistered(c) PROVE AbortReady'
  BY <1>7 DEF Reg!Deregistered, Reg!Continue, Reg!IdleCall, Reg!At, Reg!executors
<1>8. ASSUME NEW c \in Threads, Reg!CancelWhereTakes(c) PROVE AbortReady'
  BY <1>8 DEF Reg!CancelWhereTakes, Reg!TakesEntry, Reg!Takes, Reg!Continue, Reg!Deregistering,
      Reg!executors
<1>9. ASSUME NEW c \in Threads, Reg!CancelWhereSkips(c) PROVE AbortReady'
  BY <1>9 DEF Reg!CancelWhereSkips, Reg!Rest, Reg!Continue, Reg!IdleCall, Reg!At, Reg!executors
<1>10. ASSUME NEW c \in Threads, Reg!Trips(c) PROVE AbortReady'
  BY <1>10 DEF Reg!Trips, Reg!Trip, Reg!Rest, Reg!Continue, Reg!IdleCall, Reg!At
<1>11. ASSUME NEW c \in Threads, Reg!Announces(c) PROVE AbortReady'
  BY <1>11 DEF Reg!Announces, Reg!ToAnnounce, Reg!Continue, Reg!At
<1>12. ASSUME NEW c \in Threads, Reg!Aborts(c) PROVE AbortReady'
  BY <1>12 DEF Reg!Aborts, Reg!Rest, Reg!Continue, Reg!IdleCall, Reg!At
<1>13. ASSUME NEW c \in Threads, Reg!RegisterChecks(c) PROVE AbortReady'
  BY <1>13 DEF Reg!RegisterChecks, Reg!Registered, Reg!Continue, Reg!IdleCall, Reg!At
<1>14. ASSUME NEW c \in Threads, Reg!WaitStarts(c) PROVE AbortReady'
  BY <1>14 DEF Reg!WaitStarts, Reg!Owned, Reg!Registered, Reg!Continue, Reg!IdleCall, Reg!At,
      Reg!executors
<1>15. ASSUME NEW c \in Threads, Reg!WaitTimesOut(c) PROVE AbortReady'
  BY <1>15 DEF Reg!WaitTimesOut, Reg!Continue, Reg!IdleCall, Reg!At, Reg!executors
<1>16. ASSUME NEW c \in Threads, Reg!Sweeps(c) PROVE AbortReady'
  BY <1>16 DEF Reg!Sweeps, Reg!Takes, Reg!Sweepable, Reg!Continue, Reg!IdleCall, Reg!At,
      Reg!Deregistering, Reg!executors
<1>17. ASSUME NEW c \in Threads, Reg!Prunes(c) PROVE AbortReady'
  BY <1>17 DEF Reg!Prunes, Reg!Takes, Reg!Sweepable, Reg!Continue, Reg!IdleCall, Reg!At,
      Reg!Deregistering, Reg!executors
<1>18. ASSUME NEW c \in Threads, Reg!Cancels(c) PROVE AbortReady'
  BY <1>18 DEF Reg!Cancels, Reg!TakesEntry, Reg!Takes, Reg!Owned, Reg!Registered, Reg!Continue,
      Reg!IdleCall, Reg!At, Reg!Deregistering, Reg!executors
<1>19. ASSUME NEW c \in Threads, Reg!CancelsTrusted(c) PROVE AbortReady'
  BY <1>19 DEF Reg!CancelsTrusted, Reg!TakesEntry, Reg!Takes, Reg!Continue, Reg!IdleCall, Reg!At,
      Reg!Deregistering, Reg!executors
<1>20. ASSUME NEW c \in Threads, Reg!CancelWhereLists(c) PROVE AbortReady'
  BY <1>20 DEF Reg!CancelWhereLists, Reg!Rest, Reg!Registered, Reg!Continue, Reg!IdleCall, Reg!At,
      Reg!executors
<1>21. ASSUME NEW c \in Threads, Reg!CancelsCooperatively(c) PROVE AbortReady'
  BY <1>21 DEF Reg!CancelsCooperatively, Reg!Owned, Reg!Registered, Reg!Trip, Reg!Continue,
      Reg!IdleCall, Reg!At
<1>22. ASSUME NEW r \in Runs, Reg!RegistersSteering(r) PROVE AbortReady'
  BY <1>22 DEF Reg!RegistersSteering
<1>23. ASSUME NEW r \in Runs, Reg!ReleasesCancellation(r) PROVE AbortReady'
  BY <1>23 DEF Reg!ReleasesCancellation
<1>24. ASSUME NEW r \in Runs, Reg!Publishes(r) PROVE AbortReady'
  BY <1>24 DEF Reg!Publishes
<1>25. ASSUME NEW r \in Runs, Reg!DropsSender(r) PROVE AbortReady'
  BY <1>25 DEF Reg!DropsSender
<1>26. CASE UNCHANGED Reg!vars
  BY <1>26 DEF Reg!vars
<1>27. QED BY <1>1, <1>2, <1>3, <1>4, <1>5, <1>6, <1>7, <1>8, <1>9, <1>10, <1>11, <1>12, <1>13,
      <1>14, <1>15, <1>16, <1>17, <1>18, <1>19, <1>20, <1>21, <1>22, <1>23, <1>24, <1>25, <1>26
      DEF Reg!Next, Reg!Proceeds

\* A wait that removes has seen its run settle.
RemovesSettled == \A c \in Threads : thread[c].op = "remove" => Reg!IsSettled(thread[c].run)

\* A settled run stays settled, so what a wait saw holds when it prunes.
LEMMA SettledStep ==
  ASSUME Reg!RunAssumption, Reg!TypeOK, ThreadShape, RemovesSettled, [Reg!Next]_Reg!vars
  PROVE  RemovesSettled'
<1>. USE DEF Reg!RunAssumption, RemovesSettled, Reg!IsSettled, Reg!TypeOK, Reg!Status, Reg!Token,
      Reg!CallState, Reg!NoneOr, ThreadShape
<1>1. ASSUME NEW c \in Threads, Reg!RegisterSweeps(c) PROVE RemovesSettled'
  BY <1>1 DEF Reg!RegisterSweeps, Reg!Takes, Reg!Sweepable, Reg!Continue, Reg!Deregistering,
      Reg!executors
<1>2. ASSUME NEW c \in Threads, Reg!RegisterInserts(c) PROVE RemovesSettled'
  BY <1>2 DEF Reg!RegisterInserts, Reg!Continue, Reg!IdleCall, Reg!At, Reg!executors
<1>3. ASSUME NEW c \in Threads, Reg!RegisterRefused(c) PROVE RemovesSettled'
  BY <1>3 DEF Reg!RegisterRefused, Reg!Continue, Reg!IdleCall, Reg!At
<1>4. ASSUME NEW c \in Threads, Reg!WaitWakes(c) PROVE RemovesSettled'
  BY <1>4 DEF Reg!WaitWakes, Reg!Wakes, Reg!Continue, Reg!At, Reg!executors
<1>5. ASSUME NEW c \in Threads, Reg!WaitRemoves(c) PROVE RemovesSettled'
  BY <1>5 DEF Reg!WaitRemoves, Reg!Takes, Reg!Continue, Reg!Deregistering, Reg!executors
<1>6. ASSUME NEW c \in Threads, Reg!Deregisters(c) PROVE RemovesSettled'
  BY <1>6 DEF Reg!Deregisters, Reg!Continue, Reg!Deregistering, Reg!executors
<1>7. ASSUME NEW c \in Threads, Reg!Deregistered(c) PROVE RemovesSettled'
  BY <1>7 DEF Reg!Deregistered, Reg!Continue, Reg!IdleCall, Reg!At, Reg!executors
<1>8. ASSUME NEW c \in Threads, Reg!CancelWhereTakes(c) PROVE RemovesSettled'
  BY <1>8 DEF Reg!CancelWhereTakes, Reg!TakesEntry, Reg!Takes, Reg!Continue, Reg!Deregistering,
      Reg!executors
<1>9. ASSUME NEW c \in Threads, Reg!CancelWhereSkips(c) PROVE RemovesSettled'
  BY <1>9 DEF Reg!CancelWhereSkips, Reg!Rest, Reg!Continue, Reg!IdleCall, Reg!At, Reg!executors
<1>10. ASSUME NEW c \in Threads, Reg!Trips(c) PROVE RemovesSettled'
  BY <1>10 DEF Reg!Trips, Reg!Trip, Reg!Rest, Reg!Continue, Reg!IdleCall, Reg!At
<1>11. ASSUME NEW c \in Threads, Reg!Announces(c) PROVE RemovesSettled'
  BY <1>11 DEF Reg!Announces, Reg!ToAnnounce, Reg!Continue, Reg!At
<1>12. ASSUME NEW c \in Threads, Reg!Aborts(c) PROVE RemovesSettled'
  BY <1>12 DEF Reg!Aborts, Reg!Rest, Reg!Continue, Reg!IdleCall, Reg!At
<1>13. ASSUME NEW c \in Threads, Reg!RegisterChecks(c) PROVE RemovesSettled'
  BY <1>13 DEF Reg!RegisterChecks, Reg!Registered, Reg!Continue, Reg!IdleCall, Reg!At
<1>14. ASSUME NEW c \in Threads, Reg!WaitStarts(c) PROVE RemovesSettled'
  BY <1>14 DEF Reg!WaitStarts, Reg!Owned, Reg!Registered, Reg!Continue, Reg!IdleCall, Reg!At,
      Reg!executors
<1>15. ASSUME NEW c \in Threads, Reg!WaitTimesOut(c) PROVE RemovesSettled'
  BY <1>15 DEF Reg!WaitTimesOut, Reg!Continue, Reg!IdleCall, Reg!At, Reg!executors
<1>16. ASSUME NEW c \in Threads, Reg!Sweeps(c) PROVE RemovesSettled'
  BY <1>16 DEF Reg!Sweeps, Reg!Takes, Reg!Sweepable, Reg!Continue, Reg!IdleCall, Reg!At,
      Reg!Deregistering, Reg!executors
<1>17. ASSUME NEW c \in Threads, Reg!Prunes(c) PROVE RemovesSettled'
  BY <1>17 DEF Reg!Prunes, Reg!Takes, Reg!Sweepable, Reg!Continue, Reg!IdleCall, Reg!At,
      Reg!Deregistering, Reg!executors
<1>18. ASSUME NEW c \in Threads, Reg!Cancels(c) PROVE RemovesSettled'
  BY <1>18 DEF Reg!Cancels, Reg!TakesEntry, Reg!Takes, Reg!Owned, Reg!Registered, Reg!Continue,
      Reg!IdleCall, Reg!At, Reg!Deregistering, Reg!executors
<1>19. ASSUME NEW c \in Threads, Reg!CancelsTrusted(c) PROVE RemovesSettled'
  BY <1>19 DEF Reg!CancelsTrusted, Reg!TakesEntry, Reg!Takes, Reg!Continue, Reg!IdleCall, Reg!At,
      Reg!Deregistering, Reg!executors
<1>20. ASSUME NEW c \in Threads, Reg!CancelWhereLists(c) PROVE RemovesSettled'
  BY <1>20 DEF Reg!CancelWhereLists, Reg!Rest, Reg!Registered, Reg!Continue, Reg!IdleCall, Reg!At,
      Reg!executors
<1>21. ASSUME NEW c \in Threads, Reg!CancelsCooperatively(c) PROVE RemovesSettled'
  BY <1>21 DEF Reg!CancelsCooperatively, Reg!Owned, Reg!Registered, Reg!Trip, Reg!Continue,
      Reg!IdleCall, Reg!At
<1>22. ASSUME NEW r \in Runs, Reg!RegistersSteering(r) PROVE RemovesSettled'
  BY <1>22 DEF Reg!RegistersSteering
<1>23. ASSUME NEW r \in Runs, Reg!ReleasesCancellation(r) PROVE RemovesSettled'
  BY <1>23 DEF Reg!ReleasesCancellation
<1>24. ASSUME NEW r \in Runs, Reg!Publishes(r) PROVE RemovesSettled'
  BY <1>24 DEF Reg!Publishes
<1>25. ASSUME NEW r \in Runs, Reg!DropsSender(r) PROVE RemovesSettled'
  BY <1>25 DEF Reg!DropsSender
<1>26. CASE UNCHANGED Reg!vars
  BY <1>26 DEF Reg!vars
<1>27. QED BY <1>1, <1>2, <1>3, <1>4, <1>5, <1>6, <1>7, <1>8, <1>9, <1>10, <1>11, <1>12, <1>13,
      <1>14, <1>15, <1>16, <1>17, <1>18, <1>19, <1>20, <1>21, <1>22, <1>23, <1>24, <1>25, <1>26
      DEF Reg!Next, Reg!Proceeds

\* Calls go on without dropping an id of their list.
ListsOnlyToCancel ==
    \A c \in Threads :
        /\ thread[c].op \notin {"deregister", "trip", "announce", "abort", "cancel"} => thread[c].ids = {}
        /\ thread[c].op = "deregister" /\ thread[c].then # "trip" => thread[c].ids = {}

\* An id leaves a list only when it is dealt with.
LEMMA ListStep ==
  ASSUME Reg!RunAssumption, Reg!TypeOK, ThreadShape, ListsOnlyToCancel, [Reg!Next]_Reg!vars
  PROVE  Reg!OnlyDealtWithLeaves /\ ListsOnlyToCancel'
<1>. DEFINE Goal == Reg!OnlyDealtWithLeaves /\ ListsOnlyToCancel'
<1>. USE DEF Reg!RunAssumption, Reg!OnlyDealtWithLeaves, ListsOnlyToCancel, Reg!IsSettled,
      Reg!TypeOK, Reg!Status, Reg!Token, Reg!CallState, Reg!NoneOr, ThreadShape
<1>1. ASSUME NEW c \in Threads, Reg!RegisterSweeps(c) PROVE Goal
  BY <1>1 DEF Reg!RegisterSweeps, Reg!Takes, Reg!Sweepable, Reg!Continue, Reg!Deregistering,
      Reg!executors
<1>2. ASSUME NEW c \in Threads, Reg!RegisterInserts(c) PROVE Goal
  BY <1>2 DEF Reg!RegisterInserts, Reg!Continue, Reg!IdleCall, Reg!At, Reg!executors
<1>3. ASSUME NEW c \in Threads, Reg!RegisterRefused(c) PROVE Goal
  BY <1>3 DEF Reg!RegisterRefused, Reg!Continue, Reg!IdleCall, Reg!At
<1>4. ASSUME NEW c \in Threads, Reg!WaitWakes(c) PROVE Goal
  BY <1>4 DEF Reg!WaitWakes, Reg!Wakes, Reg!Continue, Reg!At, Reg!executors
<1>5. ASSUME NEW c \in Threads, Reg!WaitRemoves(c) PROVE Goal
  BY <1>5 DEF Reg!WaitRemoves, Reg!Takes, Reg!Continue, Reg!Deregistering, Reg!executors
<1>6. ASSUME NEW c \in Threads, Reg!Deregisters(c) PROVE Goal
  BY <1>6 DEF Reg!Deregisters, Reg!Continue, Reg!Deregistering, Reg!executors
<1>7. ASSUME NEW c \in Threads, Reg!Deregistered(c) PROVE Goal
  BY <1>7 DEF Reg!Deregistered, Reg!Continue, Reg!IdleCall, Reg!At, Reg!executors
<1>8. ASSUME NEW c \in Threads, Reg!CancelWhereTakes(c) PROVE Goal
  BY <1>8 DEF Reg!CancelWhereTakes, Reg!TakesEntry, Reg!Takes, Reg!Continue, Reg!Deregistering,
      Reg!executors
<1>9. ASSUME NEW c \in Threads, Reg!CancelWhereSkips(c) PROVE Goal
  BY <1>9 DEF Reg!CancelWhereSkips, Reg!Rest, Reg!Continue, Reg!IdleCall, Reg!At, Reg!executors
<1>10. ASSUME NEW c \in Threads, Reg!Trips(c) PROVE Goal
  BY <1>10 DEF Reg!Trips, Reg!Trip, Reg!Rest, Reg!Continue, Reg!IdleCall, Reg!At
<1>11. ASSUME NEW c \in Threads, Reg!Announces(c) PROVE Goal
  BY <1>11 DEF Reg!Announces, Reg!ToAnnounce, Reg!Continue, Reg!At
<1>12. ASSUME NEW c \in Threads, Reg!Aborts(c) PROVE Goal
  BY <1>12 DEF Reg!Aborts, Reg!Rest, Reg!Continue, Reg!IdleCall, Reg!At
<1>13. ASSUME NEW c \in Threads, Reg!RegisterChecks(c) PROVE Goal
  BY <1>13 DEF Reg!RegisterChecks, Reg!Registered, Reg!Continue, Reg!IdleCall, Reg!At
<1>14. ASSUME NEW c \in Threads, Reg!WaitStarts(c) PROVE Goal
  BY <1>14 DEF Reg!WaitStarts, Reg!Owned, Reg!Registered, Reg!Continue, Reg!IdleCall, Reg!At,
      Reg!executors
<1>15. ASSUME NEW c \in Threads, Reg!WaitTimesOut(c) PROVE Goal
  BY <1>15 DEF Reg!WaitTimesOut, Reg!Continue, Reg!IdleCall, Reg!At, Reg!executors
<1>16. ASSUME NEW c \in Threads, Reg!Sweeps(c) PROVE Goal
  BY <1>16 DEF Reg!Sweeps, Reg!Takes, Reg!Sweepable, Reg!Continue, Reg!IdleCall, Reg!At,
      Reg!Deregistering, Reg!executors
<1>17. ASSUME NEW c \in Threads, Reg!Prunes(c) PROVE Goal
  BY <1>17 DEF Reg!Prunes, Reg!Takes, Reg!Sweepable, Reg!Continue, Reg!IdleCall, Reg!At,
      Reg!Deregistering, Reg!executors
<1>18. ASSUME NEW c \in Threads, Reg!Cancels(c) PROVE Goal
  BY <1>18 DEF Reg!Cancels, Reg!TakesEntry, Reg!Takes, Reg!Owned, Reg!Registered, Reg!Continue,
      Reg!IdleCall, Reg!At, Reg!Deregistering, Reg!executors
<1>19. ASSUME NEW c \in Threads, Reg!CancelsTrusted(c) PROVE Goal
  BY <1>19 DEF Reg!CancelsTrusted, Reg!TakesEntry, Reg!Takes, Reg!Continue, Reg!IdleCall, Reg!At,
      Reg!Deregistering, Reg!executors
<1>20. ASSUME NEW c \in Threads, Reg!CancelWhereLists(c) PROVE Goal
  BY <1>20 DEF Reg!CancelWhereLists, Reg!Rest, Reg!Registered, Reg!Continue, Reg!IdleCall, Reg!At,
      Reg!executors
<1>21. ASSUME NEW c \in Threads, Reg!CancelsCooperatively(c) PROVE Goal
  BY <1>21 DEF Reg!CancelsCooperatively, Reg!Owned, Reg!Registered, Reg!Trip, Reg!Continue,
      Reg!IdleCall, Reg!At
<1>22. ASSUME NEW r \in Runs, Reg!RegistersSteering(r) PROVE Goal
  BY <1>22 DEF Reg!RegistersSteering
<1>23. ASSUME NEW r \in Runs, Reg!ReleasesCancellation(r) PROVE Goal
  BY <1>23 DEF Reg!ReleasesCancellation
<1>24. ASSUME NEW r \in Runs, Reg!Publishes(r) PROVE Goal
  BY <1>24 DEF Reg!Publishes
<1>25. ASSUME NEW r \in Runs, Reg!DropsSender(r) PROVE Goal
  BY <1>25 DEF Reg!DropsSender
<1>26. ASSUME UNCHANGED Reg!vars PROVE Goal
  BY <1>26 DEF Reg!vars
<1>. HIDE DEF Goal
<1>27. Goal
  BY <1>1, <1>2, <1>3, <1>4, <1>5, <1>6, <1>7, <1>8, <1>9, <1>10, <1>11, <1>12, <1>13,
      <1>14, <1>15, <1>16, <1>17, <1>18, <1>19, <1>20, <1>21, <1>22, <1>23, <1>24, <1>25, <1>26
      DEF Reg!Next, Reg!Proceeds
<1>28. QED BY <1>27 DEF Goal

\* No step but the pruning of a wait makes a stray of a run.
LEMMA StrayStep ==
  ASSUME Reg!RunAssumption, Reg!TypeOK, ThreadShape, [Reg!Next]_Reg!vars,
         \A c \in Threads : ~Reg!WaitRemoves(c)
  PROVE  \A r \in Runs : Reg!Stray(r)' => Reg!Stray(r)
<1>. DEFINE Kept == \A r \in Runs : Reg!Stray(r)' => Reg!Stray(r)
<1>. USE DEF Reg!RunAssumption, Reg!Stray, Reg!InHand, Reg!IsSettled, Reg!TypeOK, Reg!Status,
      Reg!Token, Reg!CallState, Reg!NoneOr, ThreadShape
<1>1. ASSUME NEW c \in Threads, Reg!RegisterSweeps(c) PROVE Kept
  BY <1>1 DEF Reg!RegisterSweeps, Reg!Takes, Reg!Sweepable, Reg!Continue, Reg!Deregistering,
      Reg!executors
<1>2. ASSUME NEW c \in Threads, Reg!RegisterInserts(c) PROVE Kept
  BY <1>2 DEF Reg!RegisterInserts, Reg!Continue, Reg!IdleCall, Reg!At, Reg!executors
<1>3. ASSUME NEW c \in Threads, Reg!RegisterRefused(c) PROVE Kept
  BY <1>3 DEF Reg!RegisterRefused, Reg!Continue, Reg!IdleCall, Reg!At
<1>4. ASSUME NEW c \in Threads, Reg!WaitWakes(c) PROVE Kept
  BY <1>4 DEF Reg!WaitWakes, Reg!Wakes, Reg!Continue, Reg!At, Reg!executors
<1>6. ASSUME NEW c \in Threads, Reg!Deregisters(c) PROVE Kept
  BY <1>6 DEF Reg!Deregisters, Reg!Continue, Reg!Deregistering, Reg!executors
<1>7. ASSUME NEW c \in Threads, Reg!Deregistered(c) PROVE Kept
  BY <1>7 DEF Reg!Deregistered, Reg!Continue, Reg!IdleCall, Reg!At, Reg!executors
<1>8. ASSUME NEW c \in Threads, Reg!CancelWhereTakes(c) PROVE Kept
  BY <1>8 DEF Reg!CancelWhereTakes, Reg!TakesEntry, Reg!Takes, Reg!Continue, Reg!Deregistering,
      Reg!executors
<1>9. ASSUME NEW c \in Threads, Reg!CancelWhereSkips(c) PROVE Kept
  BY <1>9 DEF Reg!CancelWhereSkips, Reg!Rest, Reg!Continue, Reg!IdleCall, Reg!At, Reg!executors
<1>10. ASSUME NEW c \in Threads, Reg!Trips(c) PROVE Kept
  BY <1>10 DEF Reg!Trips, Reg!Trip, Reg!Rest, Reg!Continue, Reg!IdleCall, Reg!At
<1>11. ASSUME NEW c \in Threads, Reg!Announces(c) PROVE Kept
  BY <1>11 DEF Reg!Announces, Reg!ToAnnounce, Reg!Continue, Reg!At
<1>12. ASSUME NEW c \in Threads, Reg!Aborts(c) PROVE Kept
  BY <1>12 DEF Reg!Aborts, Reg!Rest, Reg!Continue, Reg!IdleCall, Reg!At
<1>13. ASSUME NEW c \in Threads, Reg!RegisterChecks(c) PROVE Kept
  BY <1>13 DEF Reg!RegisterChecks, Reg!Registered, Reg!Continue, Reg!IdleCall, Reg!At
<1>14. ASSUME NEW c \in Threads, Reg!WaitStarts(c) PROVE Kept
  BY <1>14 DEF Reg!WaitStarts, Reg!Owned, Reg!Registered, Reg!Continue, Reg!IdleCall, Reg!At,
      Reg!executors
<1>15. ASSUME NEW c \in Threads, Reg!WaitTimesOut(c) PROVE Kept
  BY <1>15 DEF Reg!WaitTimesOut, Reg!Continue, Reg!IdleCall, Reg!At, Reg!executors
<1>16. ASSUME NEW c \in Threads, Reg!Sweeps(c) PROVE Kept
  BY <1>16 DEF Reg!Sweeps, Reg!Takes, Reg!Sweepable, Reg!Continue, Reg!IdleCall, Reg!At,
      Reg!Deregistering, Reg!executors
<1>17. ASSUME NEW c \in Threads, Reg!Prunes(c) PROVE Kept
  BY <1>17 DEF Reg!Prunes, Reg!Takes, Reg!Sweepable, Reg!Continue, Reg!IdleCall, Reg!At,
      Reg!Deregistering, Reg!executors
<1>18. ASSUME NEW c \in Threads, Reg!Cancels(c) PROVE Kept
  BY <1>18 DEF Reg!Cancels, Reg!TakesEntry, Reg!Takes, Reg!Owned, Reg!Registered, Reg!Continue,
      Reg!IdleCall, Reg!At, Reg!Deregistering, Reg!executors
<1>19. ASSUME NEW c \in Threads, Reg!CancelsTrusted(c) PROVE Kept
  BY <1>19 DEF Reg!CancelsTrusted, Reg!TakesEntry, Reg!Takes, Reg!Continue, Reg!IdleCall, Reg!At,
      Reg!Deregistering, Reg!executors
<1>20. ASSUME NEW c \in Threads, Reg!CancelWhereLists(c) PROVE Kept
  BY <1>20 DEF Reg!CancelWhereLists, Reg!Rest, Reg!Registered, Reg!Continue, Reg!IdleCall, Reg!At,
      Reg!executors
<1>21. ASSUME NEW c \in Threads, Reg!CancelsCooperatively(c) PROVE Kept
  BY <1>21 DEF Reg!CancelsCooperatively, Reg!Owned, Reg!Registered, Reg!Trip, Reg!Continue,
      Reg!IdleCall, Reg!At
<1>22. ASSUME NEW r \in Runs, Reg!RegistersSteering(r) PROVE Kept
  BY <1>22 DEF Reg!RegistersSteering
<1>23. ASSUME NEW r \in Runs, Reg!ReleasesCancellation(r) PROVE Kept
  BY <1>23 DEF Reg!ReleasesCancellation
<1>24. ASSUME NEW r \in Runs, Reg!Publishes(r) PROVE Kept
  BY <1>24 DEF Reg!Publishes
<1>25. ASSUME NEW r \in Runs, Reg!DropsSender(r) PROVE Kept
  BY <1>25 DEF Reg!DropsSender
<1>26. ASSUME UNCHANGED Reg!vars PROVE Kept
  BY <1>26 DEF Reg!vars
<1>. HIDE DEF Kept
<1>27. Kept
  BY <1>1, <1>2, <1>3, <1>4, <1>6, <1>7, <1>8, <1>9, <1>10, <1>11, <1>12, <1>13,
      <1>14, <1>15, <1>16, <1>17, <1>18, <1>19, <1>20, <1>21, <1>22, <1>23, <1>24, <1>25, <1>26
      DEF Reg!Next, Reg!Proceeds
<1>28. QED BY <1>27 DEF Kept

\* That pruning makes a stray only of a run other than the settled one it watched.
LEMMA LateWait ==
  ASSUME Reg!RunAssumption, Reg!TypeOK, ThreadShape, RemovesSettled, NEW c \in Threads,
         Reg!WaitRemoves(c), NEW r \in Runs, ~Reg!Stray(r), Reg!Stray(r)'
  PROVE  thread[c].run # r /\ Reg!IsSettled(thread[c].run)
<1>1. Reg!IsSettled(thread[c].run) BY DEF RemovesSettled, Reg!WaitRemoves
<1>2. status[r] = "running"
  BY DEF Reg!Stray, Reg!WaitRemoves, Reg!Takes, Reg!executors
<1>3. QED BY <1>1, <1>2 DEF Reg!IsSettled

-----------------------------------------------------------------------------

\* The invariant: types, the shape of calls, announced aborts, settled
\* removals and lists that only a cancellation has.
RegistryInv == Reg!TypeOK /\ ThreadShape /\ AbortReady /\ RemovesSettled /\ ListsOnlyToCancel

\* It holds for any use of task ids.
LEMMA RegistryInvariant ==
  ASSUME Reg!RunAssumption, Reg!CallerAssumption
  PROVE  Reg!Spec => []RegistryInv
<1>1. Reg!Init => RegistryInv
  BY DEF Reg!RunAssumption, Reg!Init, RegistryInv, Reg!TypeOK, Reg!Status, Reg!Token,
      Reg!CallState, Reg!NoneOr, ThreadShape, AbortReady, Reg!AbortIsAnnounced, RemovesSettled,
      ListsOnlyToCancel, Reg!IdleCall, Reg!At
<1>2. RegistryInv /\ [Reg!Next]_Reg!vars => RegistryInv'
  BY RegistryTypeStep, AbortStep, SettledStep, ListStep DEF RegistryInv
<1>3. QED BY <1>1, <1>2, PTL DEF Reg!Spec

\* The registry, the handles, the runs and the calls keep their types.
THEOREM RegistryTypeCorrect ==
  ASSUME Reg!RunAssumption, Reg!CallerAssumption
  PROVE  Reg!Spec => []Reg!TypeOK
BY RegistryInvariant, PTL DEF RegistryInv

\* take_and_cancel aborts no live run without the observer having heard of it,
\* whatever the executors do in between and however ids are used.
THEOREM AbortIsAnnouncedCorrect ==
  ASSUME Reg!RunAssumption, Reg!CallerAssumption
  PROVE  Reg!Spec => []Reg!AbortIsAnnounced
BY RegistryInvariant, PTL DEF RegistryInv, AbortReady

\* However ids are resumed, retried or offered twice, the registry loses a live run
\* nobody has told to stop in one way only: to the pruning of a wait that watched an
\* earlier run of the same id, which had settled.
THEOREM LostToALateWaitCorrect ==
  ASSUME Reg!RunAssumption, Reg!CallerAssumption
  PROVE  Reg!Spec => Reg!LostToALateWait
<1>1. ASSUME RegistryInv, [Reg!Next]_Reg!vars PROVE [Reg!OnlyLateWaitsLose]_Reg!vars
  <2>1. SUFFICES ASSUME NEW r \in Runs, ~Reg!Stray(r), Reg!Stray(r)'
                 PROVE  \E c \in Threads : /\ Reg!WaitRemoves(c) /\ thread[c].run # r
                                           /\ Reg!IsSettled(thread[c].run)
    BY DEF Reg!OnlyLateWaitsLose
  <2>2. PICK c \in Threads : Reg!WaitRemoves(c) BY <1>1, <2>1, StrayStep DEF RegistryInv
  <2>3. QED BY <1>1, <2>1, <2>2, LateWait DEF RegistryInv
<1>2. QED BY <1>1, RegistryInvariant, PTL DEF Reg!Spec, Reg!LostToALateWait

\* cancel_where deals with every id it listed, for any number of ids and threads:
\* the run registered under it is taken to be tripped, unless there is none.
THEOREM CancelWhereMissesNoneCorrect ==
  ASSUME Reg!RunAssumption, Reg!CallerAssumption
  PROVE  Reg!Spec => Reg!CancelWhereMissesNone
<1>1. ASSUME RegistryInv, [Reg!Next]_Reg!vars PROVE [Reg!OnlyDealtWithLeaves]_Reg!vars
  BY <1>1, ListStep DEF RegistryInv
<1>2. QED BY <1>1, RegistryInvariant, PTL DEF Reg!Spec, Reg!CancelWhereMissesNone
=============================================================================
