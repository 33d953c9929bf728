----------------------- MODULE CompletionRouterProofs -----------------------
(***************************************************************************)
(* The completion router, for any number of tasks, parents and routers and *)
(* any bounds.                                                             *)
(***************************************************************************)
EXTENDS CompletionRouter, TLAPS

USE BoundAssumption

\* A call that holds or held a gate names its parent.
CallHasParent ==
    \A r \in Routers : op[r].name \in {"record", "close", "permit"} => op[r].parent \in Parents

\* A parent nobody has seen yet has no generation.
NoneIsZero == \A p \in Parents : marker[p].status = "None" => marker[p].epoch = 0

\* As long as a call that admitted into a generation holds its gate, that
\* generation is the open one.  PermitIsCurrent is the case of a permit.
GateIsCurrent ==
    \A r \in Routers :
       op[r].name \in {"record", "permit"} /\ gate[op[r].parent] = r
          => marker[op[r].parent] = [status |-> "Open", epoch |-> op[r].epoch]

\* The generation a close opened is not ahead of its parent's marker, neither
\* while the close is at work nor when it has finished.
CloseBound ==
    /\ \A r \in Routers :
         op[r].name = "close" => op[r].epoch <= marker[op[r].parent].epoch
    /\ \A p \in Parents : sealed[p] <= marker[p].epoch

IInv ==
    /\ TypeOK /\ CallHasParent /\ NoneIsZero /\ GateIsCurrent /\ CloseBound
    /\ CloseIsComplete /\ ChildGeneration

(***************************************************************************)
(* What one step can do to a marker, to a call and to a record.            *)
(***************************************************************************)
\* A marker changes only while its gate is free, and then by one generation.
MarkerMove(p) ==
    \/ marker'[p] = marker[p]
    \/ /\ GateFree(p)
       /\ marker[p].status # "Deleted"
       /\ marker'[p].status # "None"
       /\ marker'[p].epoch = marker[p].epoch + 1

\* A call goes on, ends, or begins in the generation its marker shows.
CallMove(r) ==
    \/ op'[r].name \in {"idle", "tombstone"}
    \/ op'[r].name = op[r].name /\ op'[r].parent = op[r].parent /\ op'[r].epoch = op[r].epoch
    \/ /\ op'[r].parent \in Parents
       /\ \/ /\ op'[r].name \in {"record", "permit"}
             /\ marker'[op'[r].parent] = [status |-> "Open", epoch |-> op'[r].epoch]
          \/ /\ op'[r].name = "close"
             /\ marker'[op'[r].parent].epoch = op'[r].epoch

\* Only an idle router takes a gate.
GateMove(r, p) == gate'[p] = r /\ gate[p] # r => op[r].name = "idle"

\* A record that is pending after a step was pending before it, in the same
\* generation unless it had none, or was inserted into the open one.
PendingMove(t) ==
    records'[t].state = "Pending" =>
       \/ /\ records[t].state = "Pending"
          /\ records'[t].parent = records[t].parent
          /\ child'[t] = child[t]
          /\ \/ records'[t].epoch = records[t].epoch
             \/ records[t].epoch = 0 /\ records'[t].epoch = 1
       \/ /\ records[t].state = "Absent"
          /\ records'[t].parent \in Parents
          /\ marker'[records'[t].parent] = [status |-> "Open", epoch |-> records'[t].epoch]
          /\ child'[t] = child[t]
          /\ child[t] # 0 => records'[t].epoch = child[t]

\* A claim is granted in the open generation.
ClaimMove(t) ==
    records'[t].state = "Pending" /\ records'[t].fresh /\ ~records[t].fresh
       => /\ records'[t].parent \in Parents
          /\ marker'[records'[t].parent] = [status |-> "Open", epoch |-> records'[t].epoch]

\* The token of a live claim changes by withdrawal or by the claim's receipt.
TokenMove(t) ==
    records[t].state = "Pending" /\ records[t].fresh /\ records'[t].token # records[t].token
       => \/ records'[t].state = "Tombstoned"
          \/ \E r \in Routers : \E rc \in receipts[r] \ receipts'[r] :
                rc.task = t /\ rc.token = records[t].token

\* A parent is sealed by a close that has left nothing of it pending.
SealMove(p) ==
    \/ sealed'[p] = sealed[p]
    \/ \E r \in Routers :
         /\ op[r].name = "close" /\ op[r].parent = p
         /\ sealed'[p] = op[r].epoch
         /\ PendingOf(p) = {} /\ records' = records

RecordMove(t) == PendingMove(t) /\ ClaimMove(t) /\ TokenMove(t)

\* The two records differ at most in that the second has been given a generation.
Upgraded(rec, new) ==
    /\ new.state = rec.state /\ new.parent = rec.parent
    /\ new.token = rec.token /\ new.fresh = rec.fresh
    /\ new.epoch = rec.epoch \/ (rec.epoch = 0 /\ new.epoch = 1)

-----------------------------------------------------------------------------
\* The null values are of their types.
LEMMA NullTypes == NoRecord \in CompletionRecord /\ IdleCall \in Call
<1>1. NoRecord \in CompletionRecord
  BY DEF NoRecord, CompletionRecord, CompletionState, Epoch
<1>2. (CHOOSE t \in Tasks : TRUE) \in Tasks
  BY TasksAssumption
<1>3. QED BY <1>1, <1>2 DEF IdleCall, Call, Epoch

\* The idle call, read field by field.
LEMMA IdleFields ==
    /\ IdleCall.name = "idle" /\ IdleCall.parent = "no parent" /\ IdleCall.token = 0
  BY DEF IdleCall

\* Claiming, settling and upgrading map records to records.
LEMMA RecordTypes ==
    ASSUME NEW rec \in CompletionRecord
    PROVE  /\ \A k \in 1 .. MaxToken : Claimed(rec, k) \in CompletionRecord
           /\ \A how \in {"Delivered", "Failed", "Release"} :
                 Resolved(rec, how) \in CompletionRecord
           /\ [rec EXCEPT !.epoch = 1] \in CompletionRecord
           /\ [rec EXCEPT !.state = "Tombstoned"] \in CompletionRecord
           /\ [rec EXCEPT !.fresh = FALSE] \in CompletionRecord
<1>1. 1 \in Epoch /\ 0 \in 0 .. MaxToken /\ \A k \in 1 .. MaxToken : k \in 0 .. MaxToken
  BY DEF Epoch
<1>2. ASSUME NEW k \in 1 .. MaxToken PROVE Claimed(rec, k) \in CompletionRecord
  <2>0. rec.attempts \in 0 .. MaxAttempts
    BY DEF CompletionRecord
  <2>1. (IF rec.attempts < MaxAttempts THEN rec.attempts + 1 ELSE rec.attempts)
           \in 0 .. MaxAttempts
    BY <2>0
  <2>2. QED BY <1>1, <2>1 DEF Claimed, CompletionRecord
<1>3. ASSUME NEW how \in {"Delivered", "Failed", "Release"}
      PROVE  Resolved(rec, how) \in CompletionRecord
  BY <1>1 DEF Resolved, CompletionRecord, CompletionState
<1>4. [rec EXCEPT !.epoch = 1] \in CompletionRecord
  BY <1>1 DEF CompletionRecord
<1>5. [rec EXCEPT !.state = "Tombstoned"] \in CompletionRecord
  BY DEF CompletionRecord, CompletionState
<1>6. [rec EXCEPT !.fresh = FALSE] \in CompletionRecord
  BY DEF CompletionRecord
<1>7. QED BY <1>2, <1>3, <1>4, <1>5, <1>6

\* Generations are numbers.
LEMMA EpochTypes ==
    /\ \A rec \in CompletionRecord : rec.epoch \in Nat
    /\ \A mk \in Marker : mk.epoch \in Nat
    /\ \A c \in Call : c.epoch \in Nat
    /\ \A e \in Epoch : e \in Nat
<1>1. \A e \in Epoch : e \in Nat
  BY DEF Epoch
<1>2. \A rec \in CompletionRecord : rec.epoch \in Epoch
  BY DEF CompletionRecord
<1>3. \A mk \in Marker : mk.epoch \in Epoch
  BY DEF Marker
<1>4. \A c \in Call : c.epoch \in Epoch
  BY DEF Call
<1>5. QED BY <1>1, <1>2, <1>3, <1>4

\* What an admission writes is well typed.
LEMMA AdmissionTypes ==
    ASSUME TypeOK, NEW p \in Parents
    PROVE  /\ AdmittedEpoch(p) \in Epoch
           /\ AdmittedMarker(p) \in [Parents -> Marker]
           /\ AdmittedRecords(p) \in [Tasks -> CompletionRecord]
<1>1. marker[p] \in Marker /\ marker \in [Parents -> Marker]
  BY DEF TypeOK
<1>2. AdmittedEpoch(p) \in Epoch
  BY <1>1 DEF AdmittedEpoch, Epoch, Marker
<1>3. AdmittedMarker(p) \in [Parents -> Marker]
  BY <1>1, <1>2 DEF AdmittedMarker, Marker
<1>4. ASSUME NEW t \in Tasks PROVE AdmittedRecords(p)[t] \in CompletionRecord
  <2>1. records[t] \in CompletionRecord
    BY DEF TypeOK
  <2>2. [records[t] EXCEPT !.epoch = 1] \in CompletionRecord
    BY <2>1, RecordTypes
  <2>3. QED BY <2>1, <2>2 DEF AdmittedRecords
<1>5. AdmittedRecords(p) \in [Tasks -> CompletionRecord]
  BY <1>4 DEF AdmittedRecords
<1>6. QED BY <1>2, <1>3, <1>5

\* The end of a call.
LEMMA FinishType ==
    ASSUME TypeOK, NEW r \in Routers, Finish(r)
    PROVE  op' \in [Routers -> Call] /\ gate' \in [Parents -> Routers \cup {NoRouter}]
  BY NullTypes DEF TypeOK, Finish

-----------------------------------------------------------------------------
\* The store starts well typed.
LEMMA InitType == Init => TypeOK
<1> SUFFICES ASSUME Init PROVE TypeOK
  OBVIOUS
<1>1. ASSUME NEW p \in Parents
      PROVE  [NoRecord EXCEPT !.state = "Pending", !.parent = p] \in CompletionRecord
  BY NullTypes DEF CompletionRecord, CompletionState
<1>2. records \in [Tasks -> CompletionRecord]
  BY <1>1, NullTypes DEF Init
<1>3. QED BY <1>2, NullTypes DEF Init, TypeOK, Marker, Epoch

\* Every call of a router, and the passing of time, keep the types of the store
\* and of the routers' own state.
LEMMA TypeStep == TypeOK /\ CallHasParent /\ [Next]_vars => TypeOK'
<1> SUFFICES ASSUME TypeOK, CallHasParent, [Next]_vars PROVE TypeOK'
  OBVIOUS
<1> USE DEF local, store
<1>1. ASSUME NEW r \in Routers, NEW t \in Tasks, NEW p \in Parents, AdmitChild(r, t, p)
      PROVE  TypeOK'
  BY <1>1, AdmissionTypes DEF TypeOK, AdmitChild
<1>2. ASSUME NEW r \in Routers, NEW p \in Parents, AdmitOnly(r, p) PROVE TypeOK'
  BY <1>2, AdmissionTypes DEF TypeOK, AdmitOnly
<1>3. ASSUME NEW r \in Routers, NEW p \in Parents, NEW t \in Tasks, AdmitPartly(r, p, t)
      PROVE  TypeOK'
  <2>1. [records[t] EXCEPT !.epoch = 1] \in CompletionRecord
    BY RecordTypes DEF TypeOK
  <2>2. QED BY <1>3, <2>1 DEF TypeOK, AdmitPartly
<1>4. ASSUME NEW r \in Routers, NEW t \in Tasks, NEW p \in Parents, RecordInsert(r, t, p)
      PROVE  TypeOK'
  <2>1. [NoRecord EXCEPT !.state = "Pending", !.parent = p, !.epoch = AdmittedEpoch(p)]
           \in CompletionRecord
    BY NullTypes, AdmissionTypes DEF CompletionRecord, CompletionState
  <2>2. [IdleCall EXCEPT !.name = "record", !.parent = p, !.task = t,
                         !.epoch = AdmittedEpoch(p)] \in Call
    BY NullTypes, AdmissionTypes DEF Call
  <2>3. records' \in [Tasks -> CompletionRecord] /\ marker' \in [Parents -> Marker]
    BY <1>4, <2>1, AdmissionTypes DEF RecordInsert
  <2>4. op' \in [Routers -> Call] /\ gate' \in [Parents -> Routers \cup {NoRouter}]
    BY <1>4, <2>2 DEF RecordInsert, TypeOK
  <2>5. QED BY <1>4, <2>3, <2>4 DEF TypeOK, RecordInsert
<1>5. ASSUME NEW r \in Routers, RecordClaim(r) PROVE TypeOK'
  <2>1. op[r] \in Call /\ op[r].task \in Tasks /\ op[r].epoch \in Epoch
    BY DEF TypeOK, Call
  <2>2. CASE Finish(r) /\ UNCHANGED <<records, receipts>>
    BY <1>5, <2>2, FinishType DEF TypeOK, RecordClaim
  <2>3. ASSUME NEW k \in 1 .. MaxToken,
               records' = [records EXCEPT ![op[r].task] = Claimed(@, k)],
               op' = [op EXCEPT ![r].token = k],
               receipts' = [receipts EXCEPT ![r] = @ \cup
                    {[task |-> op[r].task, parent |-> op[r].parent,
                      epoch |-> op[r].epoch, token |-> k]}],
               UNCHANGED gate, op[r].parent \in Parents
        PROVE  TypeOK'
    <3>1. records' \in [Tasks -> CompletionRecord]
      BY <2>1, <2>3, RecordTypes DEF TypeOK
    <3>c. [op[r] EXCEPT !.token = k] \in Call
      <4>1. k \in 0 .. MaxToken
        OBVIOUS
      <4>2. QED BY <2>1, <4>1 DEF Call
    <3>2. op' \in [Routers -> Call]
      BY <2>3, <3>c DEF TypeOK
    <3> DEFINE rc == [task |-> op[r].task, parent |-> op[r].parent,
                      epoch |-> op[r].epoch, token |-> k]
    <3>a. rc \in CompletionReceipt
      BY <2>1, <2>3 DEF CompletionReceipt
    <3>b. receipts' = [receipts EXCEPT ![r] = @ \cup {rc}]
      BY <2>3
    <3> HIDE DEF rc
    <3>3. receipts' \in [Routers -> SUBSET CompletionReceipt]
      BY <3>a, <3>b DEF TypeOK
    <3>4. QED BY <1>5, <2>3, <3>1, <3>2, <3>3 DEF TypeOK, RecordClaim
  <2>4. op[r].parent \in Parents
    BY <1>5 DEF RecordClaim, CallHasParent
  <2>5. QED BY <1>5, <2>2, <2>3, <2>4 DEF RecordClaim
<1>6. ASSUME NEW r \in Routers, RecordPush(r) PROVE TypeOK'
  <2> DEFINE msg == [task |-> op[r].task, parent |-> op[r].parent, epoch |-> op[r].epoch]
  <2>1. msg \in Message
    BY <1>6 DEF RecordPush, CallHasParent, TypeOK, Call, Message
  <2>2. queue' = [queue EXCEPT ![r] = @ \cup {msg}]
    BY <1>6 DEF RecordPush
  <2> HIDE DEF msg
  <2>3. queue' \in [Routers -> SUBSET Message]
    BY <2>1, <2>2 DEF TypeOK
  <2>4. QED BY <1>6, <2>3, FinishType DEF RecordPush, TypeOK
<1>7. ASSUME NEW r \in Routers, GateLost(r) \/ TombstoneTimeout(r) PROVE TypeOK'
  BY <1>7, NullTypes DEF TypeOK, GateLost, TombstoneTimeout
<1>8. ASSUME NEW r \in Routers, NEW p \in Parents, NEW t \in Tasks, NEW told \in BOOLEAN,
             Claim(r, p, t, told)
      PROVE  TypeOK'
  <2>1. PICK k \in 1 .. MaxToken :
          /\ records' = [AdmittedRecords(p) EXCEPT ![t] = Claimed(AdmittedRecords(p)[t], k)]
          /\ receipts' = IF told
               THEN [receipts EXCEPT ![r] = @ \cup
                      {[task |-> t, parent |-> p, epoch |-> AdmittedEpoch(p), token |-> k]}]
               ELSE receipts
    BY <1>8 DEF Claim
  <2> DEFINE rc == [task |-> t, parent |-> p, epoch |-> AdmittedEpoch(p), token |-> k]
  <2>2. rc \in CompletionReceipt
    BY AdmissionTypes DEF CompletionReceipt
  <2>3. receipts' = IF told THEN [receipts EXCEPT ![r] = @ \cup {rc}] ELSE receipts
    BY <2>1
  <2> HIDE DEF rc
  <2>4. receipts' \in [Routers -> SUBSET CompletionReceipt]
    BY <2>2, <2>3 DEF TypeOK
  <2>5. AdmittedRecords(p)[t] \in CompletionRecord
    BY AdmissionTypes
  <2>6. records' \in [Tasks -> CompletionRecord]
    BY <2>1, <2>5, AdmissionTypes, RecordTypes
  <2>7. QED BY <1>8, <2>4, <2>6, AdmissionTypes DEF Claim, TypeOK
<1>9. ASSUME NEW r \in Routers, NEW rc \in receipts[r],
             NEW how \in {"Delivered", "Failed", "Release"}, Resolve(r, rc, how)
      PROVE  TypeOK'
  <2>1. rc.task \in Tasks
    BY DEF TypeOK, CompletionReceipt
  <2>2. records[rc.task] \in CompletionRecord
    BY <2>1 DEF TypeOK
  <2>3. Resolved(records[rc.task], how) \in CompletionRecord
    BY <2>2, RecordTypes
  <2>4. records' \in [Tasks -> CompletionRecord]
    BY <1>9, <2>1, <2>3 DEF TypeOK, Resolve
  <2>5. QED BY <1>9, <2>4 DEF TypeOK, Resolve
<1>10. ASSUME NEW r \in Routers, NEW rc \in receipts[r], LoseReceipt(r, rc) PROVE TypeOK'
  BY <1>10 DEF TypeOK, LoseReceipt
<1>11. ASSUME NEW r \in Routers, NEW t \in Tasks, TombstoneRead(r, t) PROVE TypeOK'
  <2>1. records[t] \in CompletionRecord /\ records[t].parent \in Parents \cup {"no parent"}
    BY DEF TypeOK, CompletionRecord
  <2>2. [IdleCall EXCEPT !.name = "tombstone", !.task = t,
                         !.parent = records[t].parent, !.seen = records[t]] \in Call
    BY <2>1, NullTypes DEF Call
  <2>3. QED BY <1>11, <2>2 DEF TypeOK, TombstoneRead
<1>12. ASSUME NEW r \in Routers, TombstoneSuppress(r) PROVE TypeOK'
  <2>1. op[r].seen \in CompletionRecord /\ op[r].task \in Tasks
    BY DEF TypeOK, Call
  <2>2. [op[r].seen EXCEPT !.state = "Tombstoned"] \in CompletionRecord
    BY <2>1, RecordTypes
  <2>3. QED BY <1>12, <2>1, <2>2, NullTypes DEF TypeOK, TombstoneSuppress
<1>13. ASSUME NEW r \in Routers, TombstoneReserve(r) PROVE TypeOK'
  <2>1. TombstoneStub \in CompletionRecord /\ op[r].task \in Tasks
    BY NullTypes, RecordTypes DEF TypeOK, Call, TombstoneStub
  <2>2. QED BY <1>13, <2>1, NullTypes DEF TypeOK, TombstoneReserve
<1>14. ASSUME NEW r \in Routers, NEW p \in Parents, NEW how \in {"Stopped", "Deleted"},
              Close(r, p, how)
       PROVE  TypeOK'
  <2>1. marker[p].epoch + 1 \in Epoch
    BY <1>14 DEF TypeOK, Close, Marker, Epoch
  <2>2. [IdleCall EXCEPT !.name = "close", !.parent = p,
                         !.epoch = marker[p].epoch + 1] \in Call
    BY <2>1, NullTypes DEF Call
  <2>3. [status |-> how, epoch |-> marker[p].epoch + 1] \in Marker
    BY <2>1 DEF Marker
  <2>4. marker' \in [Parents -> Marker] /\ op' \in [Routers -> Call]
    BY <1>14, <2>2, <2>3 DEF TypeOK, Close
  <2>5. QED BY <1>14, <2>4 DEF TypeOK, Close
<1>15. ASSUME NEW r \in Routers, NEW p \in Parents, CloseDeleted(r, p) PROVE TypeOK'
  BY <1>15 DEF TypeOK, CloseDeleted
<1>16. ASSUME NEW r \in Routers, NEW t \in Tasks, CloseWithdraw(r, t) PROVE TypeOK'
  <2>1. [records[t] EXCEPT !.state = "Tombstoned"] \in CompletionRecord
    BY RecordTypes DEF TypeOK
  <2>2. QED BY <1>16, <2>1 DEF TypeOK, CloseWithdraw
<1>17. ASSUME NEW r \in Routers, CloseDone(r) PROVE TypeOK'
  <2>1. op[r].epoch \in Epoch /\ op[r].parent \in Parents
    BY <1>17 DEF CloseDone, CallHasParent, TypeOK, Call
  <2>2. QED BY <1>17, <2>1, FinishType DEF TypeOK, CloseDone
<1>18. ASSUME NEW r \in Routers, NEW p \in Parents, Resume(r, p) PROVE TypeOK'
  <2>1. [status |-> "Open", epoch |-> marker[p].epoch + 1] \in Marker
    BY <1>18 DEF TypeOK, Resume, Marker, Epoch
  <2>2. QED BY <1>18, <2>1 DEF TypeOK, Resume
<1>19. ASSUME NEW r \in Routers, NEW p \in Parents, Attach(r, p) PROVE TypeOK'
  BY <1>19 DEF TypeOK, Attach
<1>20. ASSUME NEW r \in Routers, NEW p \in Parents, Detach(r, p) PROVE TypeOK'
  <2>1. ASSUME NEW t \in Tasks
        PROVE  Resolved(records[t], "Release") \in CompletionRecord
               /\ records[t] \in CompletionRecord
    BY RecordTypes DEF TypeOK
  <2>2. records' \in [Tasks -> CompletionRecord]
    <3>1. CASE records' = records BY <3>1 DEF TypeOK
    <3>2. CASE records' # records
      <4>1. records' = [t \in Tasks |->
              IF \E rc \in receipts[r] : rc.task = t /\ rc.parent = p /\ Owns(records[t], rc)
              THEN Resolved(records[t], "Release") ELSE records[t]]
        BY <1>20, <3>2 DEF Detach
      <4>2. QED BY <2>1, <4>1
    <3>3. QED BY <3>1, <3>2
  <2>3. QED BY <1>20, <2>2 DEF TypeOK, Detach
<1>21. ASSUME NEW r \in Routers, NEW msg \in queue[r], AdmitMessage(r, msg) PROVE TypeOK'
  <2>1. msg.task \in Tasks /\ msg.parent \in Parents /\ msg.epoch \in Epoch
    BY DEF TypeOK, Message
  <2>2. [IdleCall EXCEPT !.name = "permit", !.parent = msg.parent, !.task = msg.task,
                         !.epoch = msg.epoch] \in Call
    BY <2>1, NullTypes DEF Call
  <2>3. QED BY <1>21, <2>1, <2>2 DEF TypeOK, AdmitMessage
<1>22. ASSUME NEW r \in Routers, DropPermit(r) PROVE TypeOK'
  BY <1>22, FinishType DEF TypeOK, DropPermit
<1>23. ASSUME NEW p \in Parents, GateExpires(p) PROVE TypeOK'
  BY <1>23 DEF TypeOK, GateExpires
<1>24. ASSUME NEW t \in Tasks, ClaimExpires(t) \/ Compact(t) PROVE TypeOK'
  <2>1. [records[t] EXCEPT !.fresh = FALSE] \in CompletionRecord
    BY RecordTypes DEF TypeOK
  <2>2. QED BY <1>24, <2>1, NullTypes DEF TypeOK, ClaimExpires, Compact
<1>25. ASSUME NEW r \in Routers, Restart(r) PROVE TypeOK'
  BY <1>25, NullTypes DEF TypeOK, Restart
<1>26. CASE UNCHANGED vars
  BY <1>26 DEF TypeOK, vars
<1>27. QED
  BY <1>1, <1>2, <1>3, <1>4, <1>5, <1>6, <1>7, <1>8, <1>9, <1>10, <1>11, <1>12, <1>13,
     <1>14, <1>15, <1>16, <1>17, <1>18, <1>19, <1>20, <1>21, <1>22, <1>23, <1>24, <1>25,
     <1>26
  DEF Next, CallProgress, SpendReceipt, ClaimSome

-----------------------------------------------------------------------------
\* What an admission does to the markers.
LEMMA AdmissionMarker ==
    ASSUME TypeOK, NoneIsZero, NEW p \in Parents, ~Closed(p), GateFree(p),
           marker' = AdmittedMarker(p)
    PROVE  /\ \A q \in Parents : MarkerMove(q)
           /\ marker'[p] = [status |-> "Open", epoch |-> AdmittedEpoch(p)]
<1>1. marker[p] \in Marker /\ marker \in [Parents -> Marker]
  BY DEF TypeOK
<1>2. marker'[p] = [status |-> "Open", epoch |-> AdmittedEpoch(p)]
  BY <1>1 DEF AdmittedMarker
<1>3. ASSUME NEW q \in Parents, q # p PROVE marker'[q] = marker[q]
  BY <1>1, <1>3 DEF AdmittedMarker
<1>4. CASE marker[p].status = "None"
  <2>1. marker[p].epoch = 0 /\ AdmittedEpoch(p) = 1
    BY <1>4 DEF NoneIsZero, AdmittedEpoch
  <2>2. MarkerMove(p)
    BY <1>2, <1>4, <2>1 DEF MarkerMove
  <2>3. QED BY <1>2, <1>3, <2>2 DEF MarkerMove
<1>5. CASE marker[p].status = "Open"
  <2>1. marker[p] = [status |-> "Open", epoch |-> AdmittedEpoch(p)]
    BY <1>1, <1>5 DEF Marker, AdmittedEpoch
  <2>2. QED BY <1>2, <1>3, <2>1 DEF MarkerMove
<1>6. QED BY <1>1, <1>4, <1>5 DEF Closed, Marker

\* Markers move by one generation at a time, under a free gate.
LEMMA MarkerStep ==
    ASSUME TypeOK, NoneIsZero, [Next]_vars, NEW q \in Parents PROVE MarkerMove(q)
<1> USE DEF local, store
<1>1. ASSUME NEW r \in Routers, CallProgress(r) PROVE MarkerMove(q)
  BY <1>1 DEF CallProgress, RecordClaim, RecordPush, GateLost, CloseDone, DropPermit,
     TombstoneSuppress, TombstoneReserve, TombstoneTimeout, CloseWithdraw, MarkerMove
<1>2. ASSUME NEW r \in Routers, SpendReceipt(r) PROVE MarkerMove(q)
  BY <1>2 DEF SpendReceipt, Resolve, LoseReceipt, MarkerMove
<1>3. ASSUME NEW r \in Routers, NEW p \in Parents, NEW t \in Tasks, NEW told \in BOOLEAN,
             Claim(r, p, t, told) \/ AdmitChild(r, t, p) \/ RecordInsert(r, t, p)
                \/ AdmitOnly(r, p)
      PROVE  MarkerMove(q)
  <2>1. ~Closed(p) /\ GateFree(p) /\ marker' = AdmittedMarker(p)
    BY <1>3 DEF Claim, AdmitChild, RecordInsert, AdmitOnly
  <2>2. QED BY <2>1, AdmissionMarker
<1>4. ASSUME NEW r \in Routers, NEW p \in Parents, NEW how \in {"Stopped", "Deleted"},
             Close(r, p, how)
      PROVE  MarkerMove(q)
  BY <1>4 DEF Close, MarkerMove, TypeOK
<1>5. ASSUME NEW r \in Routers, NEW p \in Parents, Resume(r, p) PROVE MarkerMove(q)
  BY <1>5 DEF Resume, Resumable, MarkerMove, TypeOK
<1>6. ASSUME NEW r \in Routers, NEW p \in Parents, NEW t \in Tasks,
             CloseDeleted(r, p) \/ Attach(r, p) \/ Detach(r, p) \/ AdmitPartly(r, p, t)
             \/ TombstoneRead(r, t)
      PROVE  MarkerMove(q)
  BY <1>6 DEF CloseDeleted, Attach, Detach, AdmitPartly, TombstoneRead, MarkerMove
<1>7. ASSUME NEW r \in Routers, Restart(r) \/ \E msg \in queue[r] : AdmitMessage(r, msg)
      PROVE  MarkerMove(q)
  BY <1>7 DEF Restart, AdmitMessage, MarkerMove
<1>8. ASSUME NEW t \in Tasks, ClaimExpires(t) \/ Compact(t) PROVE MarkerMove(q)
  BY <1>8 DEF ClaimExpires, Compact, MarkerMove
<1>9. ASSUME NEW p \in Parents, GateExpires(p) PROVE MarkerMove(q)
  BY <1>9 DEF GateExpires, MarkerMove
<1>10. CASE UNCHANGED vars
  BY <1>10 DEF vars, MarkerMove
<1>11. QED
  BY <1>1, <1>2, <1>3, <1>4, <1>5, <1>6, <1>7, <1>8, <1>9, <1>10, TasksAssumption
  DEF Next, ClaimSome

\* Ending a call leaves the other calls alone and takes no gate.
LEMMA FinishMove ==
    ASSUME TypeOK, NEW r \in Routers, Finish(r)
    PROVE  \A s \in Routers : CallMove(s) /\ \A q \in Parents : GateMove(s, q)
<1>1. \A s \in Routers : op'[s] = IF s = r THEN IdleCall ELSE op[s]
  BY DEF Finish, TypeOK
<1>2. \A q \in Parents : gate'[q] \in {gate[q], NoRouter}
  BY DEF Finish, TypeOK
<1>3. QED BY <1>1, <1>2, IdleFields, RouterAssumption DEF CallMove, GateMove

\* Calls begin in the generation their marker shows, and take their gate then.
LEMMA CallStep ==
    ASSUME TypeOK, NoneIsZero, CallHasParent, [Next]_vars, NEW s \in Routers
    PROVE  CallMove(s) /\ \A q \in Parents : GateMove(s, q)
<1> DEFINE G == CallMove(s) /\ \A q \in Parents : GateMove(s, q)
<1> USE DEF local, store
<1>0. UNCHANGED <<op, gate>> => G
  BY DEF CallMove, GateMove
<1>1. ASSUME NEW r \in Routers, CallProgress(r) PROVE G
  <2>1. CASE Finish(r)
    BY <2>1, FinishMove
  <2>2. CASE op' = [op EXCEPT ![r] = IdleCall] /\ gate' = gate
    BY <2>2, IdleFields DEF CallMove, GateMove, TypeOK
  <2>3. CASE UNCHANGED <<op, gate>>
    BY <2>3, <1>0
  <2>4. CASE \E k \in 1 .. MaxToken : op' = [op EXCEPT ![r].token = k] /\ gate' = gate
    <3>1. PICK k \in 1 .. MaxToken : op' = [op EXCEPT ![r] = [op[r] EXCEPT !.token = k]]
      BY <2>4
    <3>2. op[r] \in Call /\ op \in [Routers -> Call]
      BY DEF TypeOK
    <3> DEFINE c == [op[r] EXCEPT !.token = k]
    <3>3. c.name = op[r].name /\ c.parent = op[r].parent /\ c.epoch = op[r].epoch
      BY <3>2 DEF Call
    <3>4. op' = [op EXCEPT ![r] = c] /\ gate' = gate
      BY <3>1, <2>4
    <3> HIDE DEF c
    <3>5. QED BY <3>2, <3>3, <3>4 DEF CallMove, GateMove
  <2>5. Finish(r) \/ (op' = [op EXCEPT ![r] = IdleCall] /\ gate' = gate)
        \/ UNCHANGED <<op, gate>>
        \/ \E k \in 1 .. MaxToken : op' = [op EXCEPT ![r].token = k] /\ gate' = gate
    BY <1>1 DEF CallProgress, RecordClaim, RecordPush, GateLost, CloseDone, DropPermit,
       TombstoneSuppress, TombstoneReserve, TombstoneTimeout, CloseWithdraw
  <2>6. QED BY <2>1, <2>2, <2>3, <2>4, <2>5
<1>2. ASSUME NEW r \in Routers, SpendReceipt(r) PROVE G
  BY <1>0, <1>2 DEF SpendReceipt, Resolve, LoseReceipt
<1>3. ASSUME NEW r \in Routers, NEW p \in Parents, NEW t \in Tasks, RecordInsert(r, t, p)
      PROVE  G
  <2>1. marker'[p] = [status |-> "Open", epoch |-> AdmittedEpoch(p)]
    BY <1>3, AdmissionMarker DEF RecordInsert
  <2> DEFINE c == [IdleCall EXCEPT !.name = "record", !.parent = p, !.task = t,
                                   !.epoch = AdmittedEpoch(p)]
  <2>2. c.name = "record" /\ c.parent = p /\ c.epoch = AdmittedEpoch(p)
    BY DEF IdleCall
  <2>3. \/ UNCHANGED <<op, gate>>
        \/ op' = [op EXCEPT ![r] = c] /\ gate' = [gate EXCEPT ![p] = r] /\ op[r].name = "idle"
    BY <1>3 DEF RecordInsert, Idle
  <2> HIDE DEF c
  <2>4. QED BY <1>0, <2>1, <2>2, <2>3 DEF CallMove, GateMove, TypeOK
<1>4. ASSUME NEW r \in Routers, NEW p \in Parents, NEW how \in {"Stopped", "Deleted"},
             Close(r, p, how)
      PROVE  G
  <2>1. marker'[p].epoch = marker[p].epoch + 1
    BY <1>4 DEF Close, TypeOK
  <2> DEFINE c == [IdleCall EXCEPT !.name = "close", !.parent = p,
                                   !.epoch = marker[p].epoch + 1]
  <2>2. c.name = "close" /\ c.parent = p /\ c.epoch = marker[p].epoch + 1
    BY DEF IdleCall
  <2>3. op' = [op EXCEPT ![r] = c] /\ gate' = [gate EXCEPT ![p] = r] /\ op[r].name = "idle"
    BY <1>4 DEF Close, Idle
  <2> HIDE DEF c
  <2>4. QED BY <2>1, <2>2, <2>3 DEF CallMove, GateMove, TypeOK
<1>5. ASSUME NEW r \in Routers, NEW msg \in queue[r], AdmitMessage(r, msg) PROVE G
  <2>1. msg.parent \in Parents
    BY DEF TypeOK, Message
  <2> DEFINE c == [IdleCall EXCEPT !.name = "permit", !.parent = msg.parent,
                                   !.task = msg.task, !.epoch = msg.epoch]
  <2>2. c.name = "permit" /\ c.parent = msg.parent /\ c.epoch = msg.epoch
    BY DEF IdleCall
  <2>3. \/ UNCHANGED <<op, gate>>
        \/ /\ op' = [op EXCEPT ![r] = c] /\ gate' = [gate EXCEPT ![msg.parent] = r]
           /\ op[r].name = "idle" /\ marker' = marker
           /\ marker[msg.parent] = [status |-> "Open", epoch |-> msg.epoch]
    BY <1>5 DEF AdmitMessage, Idle, IsOpen
  <2> HIDE DEF c
  <2>4. QED BY <1>0, <2>1, <2>2, <2>3 DEF CallMove, GateMove, TypeOK
<1>6. ASSUME NEW r \in Routers, NEW t \in Tasks, TombstoneRead(r, t) PROVE G
  <2> DEFINE c == [IdleCall EXCEPT !.name = "tombstone", !.task = t,
                                   !.parent = records[t].parent, !.seen = records[t]]
  <2>1. c.name = "tombstone"
    BY DEF IdleCall
  <2>2. op' = [op EXCEPT ![r] = c] /\ gate' = gate
    BY <1>6 DEF TombstoneRead
  <2> HIDE DEF c
  <2>3. QED BY <2>1, <2>2 DEF CallMove, GateMove, TypeOK
<1>7. ASSUME NEW r \in Routers, Restart(r) PROVE G
  BY <1>7, IdleFields DEF Restart, CallMove, GateMove, TypeOK
<1>8. ASSUME NEW p \in Parents, GateExpires(p) PROVE G
  BY <1>8, RouterAssumption DEF GateExpires, CallMove, GateMove, TypeOK
<1>9. ASSUME NEW t \in Tasks, ClaimExpires(t) \/ Compact(t) PROVE G
  BY <1>0, <1>9 DEF ClaimExpires, Compact
<1>10. ASSUME NEW r \in Routers, NEW p \in Parents, NEW t \in Tasks,
              CloseDeleted(r, p) \/ Resume(r, p) \/ AdmitOnly(r, p) \/ Attach(r, p)
              \/ Detach(r, p) \/ AdmitChild(r, t, p) \/ AdmitPartly(r, p, t)
       PROVE  G
  BY <1>0, <1>10
  DEF CloseDeleted, Resume, AdmitOnly, Attach, Detach, AdmitChild, AdmitPartly
<1>11. ASSUME NEW r \in Routers, NEW p \in Parents, NEW t \in Tasks, NEW told \in BOOLEAN,
              Claim(r, p, t, told)
       PROVE  G
  BY <1>0, <1>11 DEF Claim
<1>12. CASE UNCHANGED vars
  BY <1>0, <1>12 DEF vars
<1>13. QED
  BY <1>1, <1>2, <1>3, <1>4, <1>5, <1>6, <1>7, <1>8, <1>9, <1>10, <1>11, <1>12,
     TasksAssumption
  DEF Next, ClaimSome

-----------------------------------------------------------------------------
\* A record that stays, is given a generation, or ends not pending.
LEMMA QuietRecord ==
    ASSUME NEW t \in Tasks,
           \/ Upgraded(records[t], records'[t]) /\ child'[t] = child[t]
           \/ records[t].state = "Absent" /\ records'[t].state # "Pending"
    PROVE  RecordMove(t)
  BY DEF Upgraded, RecordMove, PendingMove, ClaimMove, TokenMove

\* An admission upgrades records and changes nothing else about them.
LEMMA AdmissionRecords ==
    ASSUME TypeOK, NEW p \in Parents, NEW t \in Tasks
    PROVE  Upgraded(records[t], AdmittedRecords(p)[t])
<1>1. records[t] \in CompletionRecord
  BY DEF TypeOK
<1>2. CASE marker[p].status = "None" /\ records[t].parent = p /\ records[t].epoch = 0
  <2> DEFINE new == [records[t] EXCEPT !.epoch = 1]
  <2>1. new.state = records[t].state /\ new.parent = records[t].parent
        /\ new.token = records[t].token /\ new.fresh = records[t].fresh /\ new.epoch = 1
    BY <1>1 DEF CompletionRecord
  <2>2. AdmittedRecords(p)[t] = new
    BY <1>2 DEF AdmittedRecords
  <2> HIDE DEF new
  <2>3. QED BY <1>2, <2>1, <2>2 DEF Upgraded
<1>3. CASE ~(marker[p].status = "None" /\ records[t].parent = p /\ records[t].epoch = 0)
  BY <1>3 DEF AdmittedRecords, Upgraded
<1>4. QED BY <1>2, <1>3

\* A claim keeps everything but the token, the attempts and the visibility.
LEMMA ClaimedFields ==
    ASSUME NEW rec \in CompletionRecord, NEW k \in 1 .. MaxToken
    PROVE  /\ Claimed(rec, k).state = rec.state /\ Claimed(rec, k).parent = rec.parent
           /\ Claimed(rec, k).epoch = rec.epoch
  BY DEF Claimed, CompletionRecord

\* So does a settlement, except that it may make the record final.
LEMMA ResolvedFields ==
    ASSUME NEW rec \in CompletionRecord, NEW how \in {"Delivered", "Failed", "Release"}
    PROVE  /\ Resolved(rec, how).parent = rec.parent /\ Resolved(rec, how).epoch = rec.epoch
           /\ ~Resolved(rec, how).fresh
           /\ Resolved(rec, how).state \in {rec.state, "Delivered", "GaveUp"}
<1> DEFINE st == CASE how = "Delivered" -> "Delivered"
                   [] how = "Failed" /\ rec.attempts >= MaxAttempts -> "GaveUp"
                   [] OTHER -> rec.state
<1>1. st \in {rec.state, "Delivered", "GaveUp"}
  OBVIOUS
<1>2. Resolved(rec, how) = [rec EXCEPT !.token = 0, !.fresh = FALSE, !.state = st]
  BY DEF Resolved, CompletionRecord
<1> HIDE DEF st
<1>3. QED BY <1>1, <1>2 DEF CompletionRecord

\* Records move as described: pending ones stay in their generation, claims are
\* granted in the open one, and live claims end with their receipts.
LEMMA RecordStep ==
    ASSUME TypeOK, NoneIsZero, CallHasParent, GateIsCurrent, [Next]_vars, NEW t \in Tasks
    PROVE  RecordMove(t)
<1> USE DEF local, store
<1>0. records[t] \in CompletionRecord /\ records \in [Tasks -> CompletionRecord]
  BY DEF TypeOK
<1>1. records' = records /\ child' = child => RecordMove(t)
  BY QuietRecord DEF Upgraded
<1>2. ASSUME NEW r \in Routers, NEW p \in Parents, AdmitOnly(r, p) PROVE RecordMove(t)
  BY <1>2, AdmissionRecords, QuietRecord DEF AdmitOnly
<1>3. ASSUME NEW r \in Routers, NEW p \in Parents, NEW u \in Tasks, AdmitChild(r, u, p)
      PROVE  RecordMove(t)
  <2>1. Upgraded(records[t], records'[t])
    BY <1>3, AdmissionRecords DEF AdmitChild
  <2>2. CASE t = u
    BY <1>3, <2>1, <2>2, QuietRecord DEF AdmitChild, Upgraded
  <2>3. CASE t # u
    <3>1. child'[t] = child[t]
      BY <1>3, <2>3 DEF AdmitChild, TypeOK
    <3>2. QED BY <2>1, <3>1, QuietRecord
  <2>4. QED BY <2>2, <2>3
<1>4. ASSUME NEW r \in Routers, NEW p \in Parents, NEW u \in Tasks, AdmitPartly(r, p, u)
      PROVE  RecordMove(t)
  <2> DEFINE new == [records[u] EXCEPT !.epoch = 1]
  <2>1. records[u].epoch = 0 /\ Upgraded(records[u], new)
    <3>1. records[u] \in CompletionRecord
      BY DEF TypeOK
    <3>2. QED BY <1>4, <3>1 DEF CompletionRecord, Upgraded, AdmitPartly
  <2>2. records' = [records EXCEPT ![u] = new] /\ child' = child
    BY <1>4, <1>0 DEF AdmitPartly
  <2> HIDE DEF new
  <2>3. Upgraded(records[t], records'[t])
    BY <1>0, <2>1, <2>2 DEF Upgraded
  <2>4. QED BY <2>2, <2>3, QuietRecord
<1>5. ASSUME NEW r \in Routers, NEW p \in Parents, NEW u \in Tasks, RecordInsert(r, u, p)
      PROVE  RecordMove(t)
  <2>1. AdmittedRecords(p) \in [Tasks -> CompletionRecord]
    BY AdmissionTypes
  <2>2. child' = child
    BY <1>5 DEF RecordInsert
  <2>3. CASE t # u
    <3>1. records'[t] = AdmittedRecords(p)[t]
      BY <1>5, <2>1, <2>3 DEF RecordInsert
    <3>2. QED BY <2>2, <3>1, AdmissionRecords, QuietRecord
  <2>4. CASE t = u
    <3> DEFINE new == [NoRecord EXCEPT !.state = "Pending", !.parent = p,
                                       !.epoch = AdmittedEpoch(p)]
    <3>1. new.parent = p /\ new.epoch = AdmittedEpoch(p) /\ new.fresh = FALSE
      BY DEF NoRecord
    <3>2. records'[t] = new
      BY <1>5, <2>1, <2>4 DEF RecordInsert
    <3>3. marker'[p] = [status |-> "Open", epoch |-> AdmittedEpoch(p)]
      BY <1>5, AdmissionMarker DEF RecordInsert
    <3>4. records[t].state = "Absent"
          /\ (child[t] # 0 => child[t] = AdmittedEpoch(p))
      BY <1>5, <2>4 DEF RecordInsert, Insertable, StaleChild
    <3> HIDE DEF new
    <3>5. QED BY <2>2, <3>1, <3>2, <3>3, <3>4
          DEF RecordMove, PendingMove, ClaimMove, TokenMove
  <2>5. QED BY <2>3, <2>4
<1>6. ASSUME NEW r \in Routers, RecordClaim(r) PROVE RecordMove(t)
  <2>1. CASE records' = records
    BY <1>1, <1>6, <2>1 DEF RecordClaim
  <2>2. CASE Claimable(records[op[r].task], op[r].parent, op[r].epoch)
    <3>1. PICK k \in 1 .. MaxToken :
            records' = [records EXCEPT ![op[r].task] = Claimed(records[op[r].task], k)]
      BY <1>6, <2>2 DEF RecordClaim
    <3>2. child' = child /\ marker' = marker
      BY <1>6 DEF RecordClaim
    <3>3. CASE t # op[r].task
      BY <1>0, <3>1, <3>2, <3>3, QuietRecord DEF Upgraded
    <3>4. CASE t = op[r].task
      <4>1. records'[t] = Claimed(records[t], k)
        BY <1>0, <3>1, <3>4
      <4>2. records[t].parent = op[r].parent /\ records[t].epoch = op[r].epoch
            /\ records[t].state = "Pending" /\ ~records[t].fresh
        BY <2>2, <3>4 DEF Claimable
      <4>3. op[r].parent \in Parents
            /\ marker[op[r].parent] = [status |-> "Open", epoch |-> op[r].epoch]
        BY <1>6 DEF RecordClaim, HoldsGate, GateIsCurrent, CallHasParent
      <4>4. QED BY <1>0, <3>2, <4>1, <4>2, <4>3, ClaimedFields
            DEF RecordMove, PendingMove, ClaimMove, TokenMove
    <3>5. QED BY <3>3, <3>4
  <2>3. QED BY <1>6, <2>1, <2>2 DEF RecordClaim
<1>7. ASSUME NEW r \in Routers, NEW p \in Parents, NEW u \in Tasks, NEW told \in BOOLEAN,
             Claim(r, p, u, told)
      PROVE  RecordMove(t)
  <2>1. PICK k \in 1 .. MaxToken :
          records' = [AdmittedRecords(p) EXCEPT ![u] = Claimed(AdmittedRecords(p)[u], k)]
    BY <1>7 DEF Claim
  <2>2. AdmittedRecords(p) \in [Tasks -> CompletionRecord]
    BY AdmissionTypes
  <2>3. child' = child
    BY <1>7 DEF Claim
  <2>4. CASE t # u
    <3>1. records'[t] = AdmittedRecords(p)[t]
      BY <2>1, <2>2, <2>4
    <3>2. QED BY <2>3, <3>1, AdmissionRecords, QuietRecord
  <2>5. CASE t = u
    <3> DEFINE rec == AdmittedRecords(p)[t]
    <3>1. records'[t] = Claimed(rec, k) /\ rec \in CompletionRecord
      BY <2>1, <2>2, <2>5
    <3>2. rec.parent = p /\ rec.epoch = AdmittedEpoch(p) /\ rec.state = "Pending" /\ ~rec.fresh
      BY <1>7, <2>5 DEF Claim, Claimable
    <3>3. Upgraded(records[t], rec)
      BY AdmissionRecords
    <3>4. marker'[p] = [status |-> "Open", epoch |-> AdmittedEpoch(p)]
      BY <1>7, AdmissionMarker DEF Claim
    <3> HIDE DEF rec
    <3>5. records'[t].parent = p /\ records'[t].epoch = AdmittedEpoch(p)
          /\ records'[t].state = "Pending"
      BY <3>1, <3>2, ClaimedFields
    <3>6. QED BY <2>3, <3>2, <3>3, <3>4, <3>5
          DEF Upgraded, RecordMove, PendingMove, ClaimMove, TokenMove
  <2>6. QED BY <2>4, <2>5
<1>8. ASSUME NEW r \in Routers, NEW rc \in receipts[r],
             NEW how \in {"Delivered", "Failed", "Release"}, Resolve(r, rc, how)
      PROVE  RecordMove(t)
  <2>1. child' = child /\ rc \in receipts[r] \ receipts'[r]
    BY <1>8 DEF Resolve, TypeOK
  <2>2. CASE records' = records
    BY <1>1, <2>1, <2>2
  <2>3. CASE /\ Owns(records[rc.task], rc)
             /\ records' = [records EXCEPT ![rc.task] = Resolved(records[rc.task], how)]
    <3>1. CASE t # rc.task
      BY <1>0, <2>1, <2>3, <3>1, QuietRecord DEF Upgraded
    <3>2. CASE t = rc.task
      <4>1. records'[t] = Resolved(records[t], how)
        BY <1>0, <2>3, <3>2
      <4>2. records[t].state = "Pending" /\ records[t].token = rc.token
        BY <2>3, <3>2 DEF Owns
      <4>3. PendingMove(t) /\ ClaimMove(t)
        BY <1>0, <2>1, <4>1, <4>2, ResolvedFields DEF PendingMove, ClaimMove
      <4>4. TokenMove(t)
        BY <2>1, <3>2, <4>2 DEF TokenMove
      <4>5. QED BY <4>3, <4>4 DEF RecordMove
    <3>3. QED BY <3>1, <3>2
  <2>4. QED BY <1>8, <2>2, <2>3 DEF Resolve
<1>9. ASSUME NEW r \in Routers, NEW p \in Parents, Detach(r, p) PROVE RecordMove(t)
  <2>1. child' = child
    BY <1>9 DEF Detach
  <2>2. CASE records'[t] = records[t]
    BY <2>1, <2>2, QuietRecord DEF Upgraded
  <2>3. CASE records'[t] # records[t]
    <3>1. PICK rc \in receipts[r] : rc.task = t /\ rc.parent = p /\ Owns(records[t], rc)
      BY <1>9, <2>3 DEF Detach
    <3>2. records'[t] = Resolved(records[t], "Release")
      BY <1>9, <2>3 DEF Detach
    <3>3. rc \in receipts[r] \ receipts'[r]
      <4>1. receipts' = [receipts EXCEPT ![r] = {x \in @ : x.parent # p}]
        BY <1>9, <2>3 DEF Detach
      <4>2. QED BY <3>1, <4>1 DEF TypeOK
    <3>4. records[t].state = "Pending" /\ records[t].token = rc.token
      BY <3>1 DEF Owns
    <3>5. PendingMove(t) /\ ClaimMove(t)
      BY <1>0, <2>1, <3>2, <3>4, ResolvedFields DEF PendingMove, ClaimMove
    <3>6. TokenMove(t)
      BY <3>1, <3>3, <3>4 DEF TokenMove
    <3>7. QED BY <3>5, <3>6 DEF RecordMove
  <2>4. QED BY <2>2, <2>3
<1>10. ASSUME records'[t].state = "Tombstoned" PROVE RecordMove(t)
  BY <1>10 DEF RecordMove, PendingMove, ClaimMove, TokenMove
<1>11. ASSUME NEW r \in Routers, TombstoneSuppress(r) \/ TombstoneReserve(r)
       PROVE  RecordMove(t)
  <2>1. child' = child
    BY <1>11 DEF TombstoneSuppress, TombstoneReserve
  <2>2. op[r].seen \in CompletionRecord
    BY DEF TypeOK, Call
  <2>3. CASE t # op[r].task
    BY <1>0, <1>11, <2>1, <2>3, QuietRecord
    DEF TombstoneSuppress, TombstoneReserve, Upgraded
  <2>4. CASE t = op[r].task
    <3>1. [op[r].seen EXCEPT !.state = "Tombstoned"].state = "Tombstoned"
      BY <2>2 DEF CompletionRecord
    <3>2. TombstoneStub.state = "Tombstoned"
      BY DEF TombstoneStub, NoRecord
    <3>3. \/ records'[t] = [op[r].seen EXCEPT !.state = "Tombstoned"]
          \/ records'[t] = TombstoneStub
      BY <1>0, <1>11, <2>4 DEF TombstoneSuppress, TombstoneReserve
    <3>4. QED BY <1>10, <3>1, <3>2, <3>3
  <2>5. QED BY <2>3, <2>4
<1>12. ASSUME NEW r \in Routers, NEW u \in Tasks, CloseWithdraw(r, u) PROVE RecordMove(t)
  <2>1. CASE t # u
    BY <1>0, <1>12, <2>1, QuietRecord DEF CloseWithdraw, Upgraded
  <2>2. CASE t = u
    <3>1. [records[t] EXCEPT !.state = "Tombstoned"].state = "Tombstoned"
      BY <1>0 DEF CompletionRecord
    <3>2. records'[t] = [records[t] EXCEPT !.state = "Tombstoned"]
      BY <1>0, <1>12, <2>2 DEF CloseWithdraw
    <3>3. QED BY <1>10, <3>1, <3>2
  <2>3. QED BY <2>1, <2>2
<1>13. ASSUME NEW u \in Tasks, ClaimExpires(u) PROVE RecordMove(t)
  <2>1. CASE t # u
    BY <1>0, <1>13, <2>1, QuietRecord DEF ClaimExpires, Upgraded
  <2>2. CASE t = u
    <3> DEFINE new == [records[t] EXCEPT !.fresh = FALSE]
    <3>1. new.state = records[t].state /\ new.parent = records[t].parent
          /\ new.epoch = records[t].epoch /\ new.token = records[t].token /\ new.fresh = FALSE
      BY <1>0 DEF CompletionRecord
    <3>2. records'[t] = new /\ child' = child
      BY <1>0, <1>13, <2>2 DEF ClaimExpires
    <3> HIDE DEF new
    <3>3. QED BY <3>1, <3>2 DEF RecordMove, PendingMove, ClaimMove, TokenMove
  <2>3. QED BY <2>1, <2>2
<1>14. ASSUME NEW u \in Tasks, Compact(u) PROVE RecordMove(t)
  <2>1. CASE t # u
    BY <1>0, <1>14, <2>1, QuietRecord DEF Compact, Upgraded
  <2>2. CASE t = u
    BY <1>0, <1>14, <2>2 DEF Compact, NoRecord, RecordMove, PendingMove, ClaimMove, TokenMove
  <2>3. QED BY <2>1, <2>2
<1>15. ASSUME NEW r \in Routers,
              RecordPush(r) \/ GateLost(r) \/ CloseDone(r) \/ DropPermit(r)
              \/ TombstoneTimeout(r) \/ Restart(r)
              \/ (\E rc \in receipts[r] : LoseReceipt(r, rc))
              \/ (\E msg \in queue[r] : AdmitMessage(r, msg))
       PROVE  RecordMove(t)
  BY <1>1, <1>15 DEF RecordPush, GateLost, CloseDone, DropPermit, TombstoneTimeout, Restart,
     LoseReceipt, AdmitMessage
<1>16. ASSUME NEW r \in Routers, NEW p \in Parents, NEW u \in Tasks,
              Close(r, p, "Stopped") \/ Close(r, p, "Deleted") \/ CloseDeleted(r, p)
              \/ Resume(r, p) \/ Attach(r, p) \/ TombstoneRead(r, u)
       PROVE  RecordMove(t)
  BY <1>1, <1>16 DEF Close, CloseDeleted, Resume, Attach, TombstoneRead
<1>17. ASSUME NEW p \in Parents, GateExpires(p) PROVE RecordMove(t)
  BY <1>1, <1>17 DEF GateExpires
<1>18. CASE UNCHANGED vars
  BY <1>1, <1>18 DEF vars
<1>19. ASSUME NEW r \in Routers, CallProgress(r) \/ SpendReceipt(r) \/ ClaimSome(r)
       PROVE  RecordMove(t)
  BY <1>6, <1>7, <1>8, <1>11, <1>12, <1>15, <1>19 DEF CallProgress, SpendReceipt, ClaimSome
<1>20. QED
  BY <1>2, <1>3, <1>4, <1>5, <1>7, <1>9, <1>13, <1>14, <1>15, <1>16, <1>17, <1>18, <1>19,
     ParentAssumption
  DEF Next

\* Only a finished close seals a parent.
LEMMA SealStep ==
    ASSUME TypeOK, CallHasParent, [Next]_vars, NEW p \in Parents PROVE SealMove(p)
<1> USE DEF local, store
<1>1. ASSUME NEW r \in Routers, CloseDone(r) PROVE SealMove(p)
  <2>1. CASE op[r].parent = p
    <3>1. sealed'[p] \in {sealed[p], op[r].epoch}
      BY <1>1, <2>1 DEF CloseDone, TypeOK
    <3>2. QED BY <1>1, <2>1, <3>1 DEF CloseDone, SealMove
  <2>2. CASE op[r].parent # p
    BY <1>1, <2>2 DEF CloseDone, SealMove, TypeOK
  <2>3. QED BY <2>1, <2>2
<1>2. sealed' = sealed => SealMove(p)
  BY DEF SealMove
<1>3. ASSUME NEW r \in Routers, CallProgress(r) PROVE SealMove(p)
  BY <1>1, <1>2, <1>3 DEF CallProgress, RecordClaim, RecordPush, GateLost, DropPermit,
     TombstoneSuppress, TombstoneReserve, TombstoneTimeout, CloseWithdraw
<1>4. ASSUME NEW r \in Routers,
             SpendReceipt(r) \/ ClaimSome(r) \/ Restart(r)
             \/ \E msg \in queue[r] : AdmitMessage(r, msg)
      PROVE  SealMove(p)
  BY <1>2, <1>4 DEF SpendReceipt, Resolve, LoseReceipt, ClaimSome, Claim, Restart, AdmitMessage
<1>5. ASSUME NEW r \in Routers, NEW q \in Parents, NEW t \in Tasks,
             \/ Close(r, q, "Stopped") \/ Close(r, q, "Deleted") \/ CloseDeleted(r, q)
             \/ Resume(r, q) \/ AdmitOnly(r, q) \/ Attach(r, q) \/ Detach(r, q)
             \/ AdmitChild(r, t, q) \/ AdmitPartly(r, q, t) \/ RecordInsert(r, t, q)
             \/ Claim(r, q, t, FALSE) \/ TombstoneRead(r, t)
      PROVE  SealMove(p)
  BY <1>2, <1>5 DEF Close, CloseDeleted, Resume, AdmitOnly, Attach, Detach, AdmitChild,
     AdmitPartly, RecordInsert, Claim, TombstoneRead
<1>6. ASSUME NEW t \in Tasks, NEW q \in Parents,
             ClaimExpires(t) \/ Compact(t) \/ GateExpires(q)
      PROVE  SealMove(p)
  BY <1>2, <1>6 DEF ClaimExpires, Compact, GateExpires
<1>7. CASE UNCHANGED vars
  BY <1>2, <1>7 DEF vars
<1>8. QED
  BY <1>3, <1>4, <1>5, <1>6, <1>7, TasksAssumption, ParentAssumption DEF Next

-----------------------------------------------------------------------------
\* The inductive invariant holds of the initial states.
LEMMA InitInvariant == Init => IInv
<1> SUFFICES ASSUME Init PROVE IInv
  OBVIOUS
<1>1. TypeOK
  BY InitType
<1>2. \A r \in Routers : op[r].name = "idle"
  BY IdleFields DEF Init
<1>3. \A p \in Parents : marker[p].epoch = 0 /\ sealed[p] = 0
  BY DEF Init
<1>4. CallHasParent /\ NoneIsZero /\ GateIsCurrent /\ CloseBound
  BY <1>2, <1>3 DEF CallHasParent, NoneIsZero, GateIsCurrent, CloseBound
<1>5. CloseIsComplete
  <2>1. \A t \in Tasks : records[t].epoch \in Nat
    BY <1>1, EpochTypes DEF TypeOK
  <2>2. QED BY <1>3, <2>1 DEF CloseIsComplete
<1>6. ChildGeneration
  BY DEF Init, ChildGeneration
<1>7. QED BY <1>1, <1>4, <1>5, <1>6 DEF IInv

\* Every step preserves it.
LEMMA Invariance == IInv /\ [Next]_vars => IInv'
<1> SUFFICES ASSUME IInv, [Next]_vars PROVE IInv'
  OBVIOUS
<1> USE DEF IInv
<1>1. TypeOK'
  BY TypeStep
<1>2. /\ \A p \in Parents : MarkerMove(p) /\ SealMove(p)
      /\ \A r \in Routers : CallMove(r) /\ \A q \in Parents : GateMove(r, q)
      /\ \A t \in Tasks : PendingMove(t)
  BY MarkerStep, SealStep, CallStep, RecordStep DEF RecordMove
<1> HIDE DEF IInv
<1>3. CallHasParent'
  BY <1>2 DEF IInv, CallHasParent, CallMove
<1>4. NoneIsZero'
  BY <1>2 DEF IInv, NoneIsZero, MarkerMove
<1>5. GateIsCurrent'
  <2> SUFFICES ASSUME NEW r \in Routers, op'[r].name \in {"record", "permit"},
                      gate'[op'[r].parent] = r
               PROVE  marker'[op'[r].parent] = [status |-> "Open", epoch |-> op'[r].epoch]
    BY DEF GateIsCurrent
  <2>1. op'[r].parent \in Parents
    BY <1>3 DEF CallHasParent
  <2>2. CASE op'[r].name = op[r].name /\ op'[r].parent = op[r].parent /\ op'[r].epoch = op[r].epoch
    <3>1. gate[op[r].parent] = r
      BY <1>2, <2>1, <2>2 DEF GateMove
    <3>2. marker'[op[r].parent] = marker[op[r].parent]
      BY <1>2, <2>1, <2>2, <3>1, RouterAssumption DEF MarkerMove, GateFree
    <3>3. QED BY <2>2, <3>1, <3>2 DEF IInv, GateIsCurrent
  <2>3. QED BY <1>2, <2>2 DEF CallMove
<1>6. \A p \in Parents : marker[p].epoch <= marker'[p].epoch
  BY <1>2, <1>1 DEF IInv, TypeOK, Marker, Epoch, MarkerMove
<1>7. CloseBound'
  <2>1. ASSUME NEW r \in Routers, op'[r].name = "close"
        PROVE  op'[r].epoch <= marker'[op'[r].parent].epoch
    <3>1. op'[r].parent \in Parents
      BY <1>3, <2>1 DEF CallHasParent
    <3>2. op'[r].epoch \in Nat /\ marker[op'[r].parent].epoch \in Nat
          /\ marker'[op'[r].parent].epoch \in Nat
      BY <1>1, <3>1, EpochTypes DEF IInv, TypeOK
    <3>3. CASE op[r].name = "close" /\ op'[r].parent = op[r].parent /\ op'[r].epoch = op[r].epoch
      BY <1>6, <3>1, <3>2, <3>3 DEF IInv, CloseBound
    <3>4. CASE marker'[op'[r].parent].epoch = op'[r].epoch
      BY <3>2, <3>4
    <3>5. QED BY <1>2, <2>1, <3>3, <3>4 DEF CallMove
  <2>2. ASSUME NEW p \in Parents PROVE sealed'[p] <= marker'[p].epoch
    <3>1. sealed'[p] \in Nat /\ marker[p].epoch \in Nat /\ marker'[p].epoch \in Nat
      BY <1>1 DEF IInv, TypeOK, Marker, Epoch
    <3>2. sealed'[p] <= marker[p].epoch
      BY <1>2 DEF SealMove, IInv, CloseBound
    <3>3. QED BY <1>6, <3>1, <3>2
  <2>3. QED BY <2>1, <2>2 DEF CloseBound
<1>8. CloseIsComplete'
  <2> SUFFICES ASSUME NEW t \in Tasks, NEW p \in Parents,
                      records'[t].state = "Pending", records'[t].parent = p
               PROVE  records'[t].epoch >= sealed'[p]
    BY DEF CloseIsComplete
  <2>1. sealed'[p] \in Nat /\ records'[t].epoch \in Nat /\ records[t].epoch \in Nat
        /\ marker'[p].epoch \in Nat
    BY <1>1, EpochTypes DEF IInv, TypeOK
  <2>2. CASE marker'[p].epoch = records'[t].epoch
    BY <1>7, <2>1, <2>2 DEF CloseBound
  <2>3. CASE /\ records[t].state = "Pending" /\ records[t].parent = p
             /\ records'[t].epoch >= records[t].epoch
    <3>1. sealed'[p] = sealed[p]
      BY <1>2, <2>3 DEF SealMove, PendingOf
    <3>2. records[t].epoch >= sealed[p] /\ sealed[p] \in Nat
      BY <2>3 DEF IInv, CloseIsComplete, TypeOK, Epoch
    <3>3. QED BY <2>1, <2>3, <3>1, <3>2
  <2>4. \/ /\ records[t].state = "Pending" /\ records[t].parent = p
           /\ \/ records'[t].epoch = records[t].epoch
              \/ records[t].epoch = 0 /\ records'[t].epoch = 1
        \/ marker'[p] = [status |-> "Open", epoch |-> records'[t].epoch]
    BY <1>2 DEF PendingMove
  <2>5. QED BY <2>1, <2>2, <2>3, <2>4
<1>9. ChildGeneration'
  BY <1>2 DEF IInv, ChildGeneration, PendingMove
<1>10. QED BY <1>1, <1>3, <1>4, <1>5, <1>7, <1>8, <1>9 DEF IInv

LEMMA InvariantHolds == Spec => []IInv
  BY InitInvariant, Invariance, PTL DEF Spec

-----------------------------------------------------------------------------
\* Every call of a router, and the passing of time, keep the types of the store
\* and of the routers' own state.
THEOREM TypeCorrect == Spec => []TypeOK
<1>1. IInv => TypeOK
  BY DEF IInv
<1>2. QED BY <1>1, InvariantHolds, PTL

\* Once cancel_parent or delete_parent has returned Ok, nothing of an earlier
\* generation is pending, for any number of routers, parents and tasks.
THEOREM CloseIsCompleteCorrect == Spec => []CloseIsComplete
<1>1. IInv => CloseIsComplete
  BY DEF IInv
<1>2. QED BY <1>1, InvariantHolds, PTL

\* A permit whose gate lasts is for the open generation.
THEOREM PermitIsCurrentCorrect == Spec => []PermitIsCurrent
<1>1. IInv => PermitIsCurrent
  BY DEF IInv, GateIsCurrent, PermitIsCurrent
<1>2. QED BY <1>1, InvariantHolds, PTL

\* A completion is pending only in the generation that admitted its child.
THEOREM ChildGenerationCorrect == Spec => []ChildGeneration
<1>1. IInv => ChildGeneration
  BY DEF IInv
<1>2. QED BY <1>1, InvariantHolds, PTL

\* Markers only move forward and deletion is final.
THEOREM MarkerAdvancesCorrect == Spec => MarkerAdvances
<1>1. IInv /\ [Next]_vars =>
        [\A p \in Parents :
           /\ marker'[p] # marker[p] => marker'[p].epoch > marker[p].epoch
           /\ marker[p].status = "Deleted" => marker'[p] = marker[p]]_vars
  <2> SUFFICES ASSUME IInv, [Next]_vars, NEW p \in Parents
               PROVE  /\ marker'[p] # marker[p] => marker'[p].epoch > marker[p].epoch
                      /\ marker[p].status = "Deleted" => marker'[p] = marker[p]
    OBVIOUS
  <2>1. MarkerMove(p) /\ marker[p].epoch \in Nat
    BY MarkerStep DEF IInv, TypeOK, Marker, Epoch
  <2>2. QED BY <2>1 DEF MarkerMove
<1>2. QED BY <1>1, InvariantHolds, PTL DEF Spec, MarkerAdvances

\* A settled completion is never pending again.
THEOREM SettledNeverPendingCorrect == Spec => SettledNeverPending
<1>1. IInv /\ [Next]_vars =>
        [\A t \in Tasks :
           records[t].state \in {"Delivered", "GaveUp", "Tombstoned"}
              => records'[t].state # "Pending"]_vars
  <2> SUFFICES ASSUME IInv, [Next]_vars, NEW t \in Tasks,
                      records[t].state \in {"Delivered", "GaveUp", "Tombstoned"}
               PROVE  records'[t].state # "Pending"
    OBVIOUS
  <2>1. PendingMove(t)
    BY RecordStep DEF IInv, RecordMove
  <2>2. QED BY <2>1 DEF PendingMove
<1>2. QED BY <1>1, InvariantHolds, PTL DEF Spec, SettledNeverPending

\* Claims are granted only in the open generation.
THEOREM ClaimsAreCurrentCorrect == Spec => ClaimsAreCurrent
<1>1. IInv /\ [Next]_vars => [\A t \in Tasks : ClaimMove(t)]_vars
  BY RecordStep DEF IInv, RecordMove
<1>2. QED BY <1>1, InvariantHolds, PTL DEF Spec, ClaimsAreCurrent, ClaimMove

\* A live claim ends only by its own receipt or by withdrawal.
THEOREM ClaimEndsWithItsHolderCorrect == Spec => ClaimEndsWithItsHolder
<1>1. IInv /\ [Next]_vars => [\A t \in Tasks : TokenMove(t)]_vars
  BY RecordStep DEF IInv, RecordMove
<1>2. QED BY <1>1, InvariantHolds, PTL DEF Spec, ClaimEndsWithItsHolder, TokenMove

-----------------------------------------------------------------------------
(* The routers implement CompletionOutbox.                                 *)

\* A live claim was granted in a generation, so its parent has a marker, and an
\* admission that upgrades the records from before the markers passes it by.
FreshAdmitted ==
    \A t \in Tasks :
       records[t].state = "Pending" /\ records[t].fresh
          => records[t].parent \in Parents /\ marker[records[t].parent].status # "None"

\* Every step keeps it.
LEMMA FreshStep ==
    ASSUME IInv, FreshAdmitted, [Next]_vars
    PROVE  FreshAdmitted'
<1> SUFFICES ASSUME NEW t \in Tasks, records'[t].state = "Pending", records'[t].fresh
             PROVE  records'[t].parent \in Parents /\ marker'[records'[t].parent].status # "None"
  BY DEF FreshAdmitted
<1>1. PendingMove(t) /\ ClaimMove(t)
  BY RecordStep DEF IInv, RecordMove
<1>2. CASE ~records[t].fresh \/ records[t].state # "Pending"
  BY <1>1, <1>2 DEF PendingMove, ClaimMove
<1>3. CASE records[t].fresh /\ records[t].state = "Pending"
  <2>1. records'[t].parent = records[t].parent
    BY <1>1, <1>3 DEF PendingMove
  <2>2. records[t].parent \in Parents /\ marker[records[t].parent].status # "None"
    BY <1>3 DEF FreshAdmitted
  <2>3. MarkerMove(records[t].parent)
    BY <2>2, MarkerStep DEF IInv
  <2>4. QED BY <2>1, <2>2, <2>3 DEF MarkerMove
<1>4. QED BY <1>2, <1>3

\* What a step may do to a record, as far as the outbox shows it.
Still(t) ==
    /\ records'[t].state = records[t].state
    /\ records[t].state = "Pending" =>
          /\ records'[t].attempts = records[t].attempts /\ records'[t].fresh = records[t].fresh
          /\ records[t].fresh /\ Held(t)' => Held(t)

Taken(t) ==
    /\ records[t].state = "Pending" /\ ~records[t].fresh
    /\ records'[t].state = "Pending" /\ records'[t].fresh
    /\ records'[t].attempts = Outbox!Counted(records[t].attempts)

Freed(t) ==
    /\ records[t].state = "Pending" /\ records[t].fresh
    /\ records'[t].state = "Pending" /\ ~records'[t].fresh
    /\ records'[t].attempts = records[t].attempts

Ended(t) ==
    /\ Held(t)
    /\ \/ records'[t].state = "Delivered"
       \/ records'[t].state = "GaveUp" /\ records[t].attempts = MaxAttempts

Withdrawn(t) == records'[t].state = "Tombstoned"

Inserted(t) ==
    /\ records[t].state = "Absent"
    /\ records'[t].state = "Pending" /\ records'[t].attempts = 0 /\ ~records'[t].fresh

Compacted(t) ==
    /\ records[t].state \in {"Delivered", "GaveUp", "Tombstoned"}
    /\ records'[t].state = "Absent"

Moved(t) ==
    \/ Still(t) \/ Taken(t) \/ Freed(t) \/ Ended(t)
    \/ Withdrawn(t) \/ Inserted(t) \/ Compacted(t)

\* No receipt is made out for the task.
NoReceipt(t) ==
    \A r \in Routers : \A rc \in receipts'[r] : rc.task = t => rc \in receipts[r]

\* A record that stays as it is, without a new receipt.
LEMMA StillFrame ==
    ASSUME NEW t \in Tasks, records'[t] = records[t], NoReceipt(t)
    PROVE  Moved(t)
<1>1. Held(t)' => Held(t)
  BY DEF Held, NoReceipt, Owns
<1>2. QED BY <1>1 DEF Moved, Still

\* An admission leaves live claims alone and counts no attempt.
LEMMA AdmissionKeeps ==
    ASSUME TypeOK, FreshAdmitted, NEW p \in Parents, NEW t \in Tasks
    PROVE  /\ AdmittedRecords(p)[t].attempts = records[t].attempts
           /\ AdmittedRecords(p)[t].state = records[t].state
           /\ AdmittedRecords(p)[t].fresh = records[t].fresh
           /\ records[t].state = "Pending" /\ records[t].fresh
                 => AdmittedRecords(p)[t] = records[t]
<1>1. records[t] \in CompletionRecord
  BY DEF TypeOK
<1>2. CASE marker[p].status = "None" /\ records[t].parent = p /\ records[t].epoch = 0
  <2>1. AdmittedRecords(p)[t] = [records[t] EXCEPT !.epoch = 1]
    BY <1>2 DEF AdmittedRecords
  <2>2. ~(records[t].state = "Pending" /\ records[t].fresh)
    BY <1>2 DEF FreshAdmitted
  <2>3. QED BY <1>1, <2>1, <2>2 DEF CompletionRecord
<1>3. CASE ~(marker[p].status = "None" /\ records[t].parent = p /\ records[t].epoch = 0)
  BY <1>3 DEF AdmittedRecords
<1>4. QED BY <1>2, <1>3

\* So an admitted record has not moved, without a new receipt.
LEMMA AdmissionStill ==
    ASSUME TypeOK, FreshAdmitted, NEW p \in Parents, NEW t \in Tasks,
           records'[t] = AdmittedRecords(p)[t], NoReceipt(t)
    PROVE  Moved(t)
<1>1. CASE records[t].state = "Pending" /\ records[t].fresh
  BY <1>1, AdmissionKeeps, StillFrame
<1>2. CASE ~(records[t].state = "Pending" /\ records[t].fresh)
  BY <1>2, AdmissionKeeps DEF Moved, Still
<1>3. QED BY <1>1, <1>2

\* What a claim and a settlement do to the attempts and the visibility.
LEMMA ClaimedCounts ==
    ASSUME NEW rec \in CompletionRecord, NEW k
    PROVE  /\ Claimed(rec, k).attempts = Outbox!Counted(rec.attempts)
           /\ Claimed(rec, k).fresh /\ Claimed(rec, k).state = rec.state
  BY DEF Claimed, CompletionRecord, Outbox!Counted

LEMMA ResolvedCounts ==
    ASSUME NEW rec \in CompletionRecord, NEW how \in {"Delivered", "Failed", "Release"}
    PROVE  /\ Resolved(rec, how).attempts = rec.attempts /\ ~Resolved(rec, how).fresh
           /\ \/ Resolved(rec, how).state = rec.state
              \/ Resolved(rec, how).state = "Delivered"
              \/ Resolved(rec, how).state = "GaveUp" /\ rec.attempts = MaxAttempts
<1> DEFINE st == CASE how = "Delivered" -> "Delivered"
                   [] how = "Failed" /\ rec.attempts >= MaxAttempts -> "GaveUp"
                   [] OTHER -> rec.state
<1>1. rec.attempts \in 0 .. MaxAttempts
  BY DEF CompletionRecord
<1>2. st = rec.state \/ st = "Delivered" \/ (st = "GaveUp" /\ rec.attempts = MaxAttempts)
  BY <1>1
<1>3. Resolved(rec, how) = [rec EXCEPT !.token = 0, !.fresh = FALSE, !.state = st]
  BY DEF Resolved, CompletionRecord
<1> HIDE DEF st
<1>4. QED BY <1>2, <1>3 DEF CompletionRecord

\* A receipt that owns its record settles it or gives it back.
LEMMA ResolvedMoved ==
    ASSUME TypeOK, NEW t \in Tasks, NEW how \in {"Delivered", "Failed", "Release"},
           NEW r \in Routers, NEW rc \in receipts[r], rc.task = t, Owns(records[t], rc),
           records'[t] = Resolved(records[t], how)
    PROVE  Moved(t)
<1>1. records[t] \in CompletionRecord
  BY DEF TypeOK
<1>2. Held(t) /\ records[t].state = "Pending" /\ records[t].fresh
  BY DEF Held, Owns
<1>3. QED BY <1>1, <1>2, ResolvedCounts DEF Moved, Freed, Ended

\* Every step is one of these moves for every record.
LEMMA MovesStep ==
    ASSUME IInv, FreshAdmitted, [Next]_vars, NEW t \in Tasks
    PROVE  Moved(t)
<1> USE DEF local, store
<1>0. /\ TypeOK /\ records[t] \in CompletionRecord /\ records \in [Tasks -> CompletionRecord]
      /\ receipts \in [Routers -> SUBSET CompletionReceipt]
  BY DEF IInv, TypeOK
<1>1. receipts' = receipts => NoReceipt(t)
  BY DEF NoReceipt
<1>2. records' = records /\ receipts' = receipts => Moved(t)
  BY <1>1, StillFrame
<1>3. ASSUME NEW r \in Routers, NEW p \in Parents, NEW u \in Tasks,
             AdmitOnly(r, p) \/ AdmitChild(r, u, p)
      PROVE  Moved(t)
  <2>1. records' = AdmittedRecords(p) /\ receipts' = receipts
    BY <1>3 DEF AdmitOnly, AdmitChild
  <2>2. QED BY <1>0, <1>1, <2>1, AdmissionStill
<1>4. ASSUME NEW r \in Routers, NEW p \in Parents, NEW u \in Tasks, AdmitPartly(r, p, u)
      PROVE  Moved(t)
  <2>1. /\ records' = [records EXCEPT ![u].epoch = 1] /\ receipts' = receipts
        /\ marker[p].status = "None" /\ records[u].parent = p
    BY <1>4 DEF AdmitPartly
  <2>2. CASE t # u
    <3>1. records'[t] = records[t] BY <1>0, <2>1, <2>2
    <3>2. QED BY <1>1, <2>1, <3>1, StillFrame
  <2>3. CASE t = u
    <3>1. records'[t] = [records[t] EXCEPT !.epoch = 1] BY <1>0, <2>1, <2>3
    <3>2. /\ records'[t].state = records[t].state /\ records'[t].fresh = records[t].fresh
          /\ records'[t].attempts = records[t].attempts
      BY <1>0, <3>1 DEF CompletionRecord
    <3>3. ~(records[t].state = "Pending" /\ records[t].fresh)
      BY <2>1, <2>3 DEF FreshAdmitted
    <3>4. QED BY <3>2, <3>3 DEF Moved, Still
  <2>4. QED BY <2>2, <2>3
<1>5. ASSUME NEW r \in Routers, NEW p \in Parents, NEW u \in Tasks, RecordInsert(r, u, p)
      PROVE  Moved(t)
  <2>1. AdmittedRecords(p) \in [Tasks -> CompletionRecord]
    BY <1>0, AdmissionTypes
  <2>2. receipts' = receipts /\ records[u].state = "Absent"
    BY <1>5 DEF RecordInsert, Insertable
  <2>3. CASE t # u
    <3>1. records'[t] = AdmittedRecords(p)[t]
      BY <1>5, <2>1, <2>3 DEF RecordInsert
    <3>2. QED BY <1>0, <1>1, <2>2, <3>1, AdmissionStill
  <2>4. CASE t = u
    <3>1. records'[t] = [NoRecord EXCEPT !.state = "Pending", !.parent = p,
                                         !.epoch = AdmittedEpoch(p)]
      BY <1>5, <2>1, <2>4 DEF RecordInsert
    <3>2. records'[t].state = "Pending" /\ records'[t].attempts = 0 /\ ~records'[t].fresh
      BY <3>1 DEF NoRecord
    <3>3. QED BY <2>2, <2>4, <3>2 DEF Moved, Inserted
  <2>5. QED BY <2>3, <2>4
<1>6. ASSUME NEW r \in Routers, RecordClaim(r) PROVE Moved(t)
  <2>1. CASE Claimable(records[op[r].task], op[r].parent, op[r].epoch)
    <3>1. PICK k \in 1 .. MaxToken :
            /\ records' = [records EXCEPT ![op[r].task] = Claimed(records[op[r].task], k)]
            /\ receipts' = [receipts EXCEPT ![r] = receipts[r] \cup
                 {[task |-> op[r].task, parent |-> op[r].parent,
                   epoch |-> op[r].epoch, token |-> k]}]
      BY <1>6, <2>1 DEF RecordClaim
    <3>2. CASE t # op[r].task
      <4>1. records'[t] = records[t] BY <1>0, <3>1, <3>2
      <4>2. NoReceipt(t) BY <1>0, <3>1, <3>2 DEF NoReceipt
      <4>3. QED BY <4>1, <4>2, StillFrame
    <3>3. CASE t = op[r].task
      <4>1. records'[t] = Claimed(records[t], k) BY <1>0, <3>1, <3>3
      <4>2. records[t].state = "Pending" /\ ~records[t].fresh BY <2>1, <3>3 DEF Claimable
      <4>3. QED BY <1>0, <4>1, <4>2, ClaimedCounts DEF Moved, Taken
    <3>4. QED BY <3>2, <3>3
  <2>2. CASE ~Claimable(records[op[r].task], op[r].parent, op[r].epoch)
    BY <1>2, <1>6, <2>2 DEF RecordClaim
  <2>3. QED BY <2>1, <2>2
<1>7. ASSUME NEW r \in Routers, NEW p \in Parents, NEW u \in Tasks, NEW told \in BOOLEAN,
             Claim(r, p, u, told)
      PROVE  Moved(t)
  <2>1. PICK k \in 1 .. MaxToken :
          /\ records' = [AdmittedRecords(p) EXCEPT ![u] = Claimed(AdmittedRecords(p)[u], k)]
          /\ receipts' = IF told
               THEN [receipts EXCEPT ![r] = receipts[r] \cup
                      {[task |-> u, parent |-> p, epoch |-> AdmittedEpoch(p), token |-> k]}]
               ELSE receipts
    BY <1>7 DEF Claim
  <2>2. AdmittedRecords(p) \in [Tasks -> CompletionRecord]
    BY <1>0, AdmissionTypes
  <2>3. CASE t # u
    <3>1. records'[t] = AdmittedRecords(p)[t] BY <2>1, <2>2, <2>3
    <3>2. NoReceipt(t)
      <4>1. CASE told BY <1>0, <2>1, <2>3, <4>1 DEF NoReceipt
      <4>2. CASE ~told BY <1>1, <2>1, <4>2
      <4>3. QED BY <4>1, <4>2
    <3>3. QED BY <1>0, <3>1, <3>2, AdmissionStill
  <2>4. CASE t = u
    <3>1. records'[t] = Claimed(AdmittedRecords(p)[t], k) /\ AdmittedRecords(p)[t] \in CompletionRecord
      BY <2>1, <2>2, <2>4
    <3>2. AdmittedRecords(p)[t].state = "Pending" /\ ~AdmittedRecords(p)[t].fresh
      BY <1>7, <2>4 DEF Claim, Claimable
    <3>3. records'[t].state = "Pending" /\ records'[t].fresh
          /\ records'[t].attempts = Outbox!Counted(AdmittedRecords(p)[t].attempts)
      BY <3>1, <3>2, ClaimedCounts
    <3>4. QED BY <1>0, <3>2, <3>3, AdmissionKeeps DEF Moved, Taken
  <2>5. QED BY <2>3, <2>4
<1>8. ASSUME NEW r \in Routers, NEW rc \in receipts[r],
             NEW how \in {"Delivered", "Failed", "Release"}, Resolve(r, rc, how)
      PROVE  Moved(t)
  <2>1. NoReceipt(t)
    BY <1>0, <1>8 DEF Resolve, NoReceipt
  <2>2. CASE records' = records
    BY <2>1, <2>2, StillFrame
  <2>3. CASE /\ Owns(records[rc.task], rc)
             /\ records' = [records EXCEPT ![rc.task] = Resolved(records[rc.task], how)]
    <3>1. CASE t # rc.task
      <4>1. records'[t] = records[t] BY <1>0, <2>3, <3>1
      <4>2. QED BY <2>1, <4>1, StillFrame
    <3>2. CASE t = rc.task
      <4>1. records'[t] = Resolved(records[t], how) BY <1>0, <2>3, <3>2
      <4>2. QED BY <1>0, <2>3, <3>2, <4>1, ResolvedMoved
    <3>3. QED BY <3>1, <3>2
  <2>4. QED BY <1>8, <2>2, <2>3 DEF Resolve
<1>9. ASSUME NEW r \in Routers, NEW p \in Parents, Detach(r, p) PROVE Moved(t)
  <2>1. NoReceipt(t)
    BY <1>0, <1>9 DEF Detach, NoReceipt
  <2>2. CASE records'[t] = records[t]
    BY <2>1, <2>2, StillFrame
  <2>3. CASE records'[t] # records[t]
    <3>1. PICK rc \in receipts[r] : rc.task = t /\ rc.parent = p /\ Owns(records[t], rc)
      BY <1>9, <2>3 DEF Detach
    <3>2. records'[t] = Resolved(records[t], "Release")
      BY <1>9, <2>3 DEF Detach
    <3>3. QED BY <1>0, <3>1, <3>2, ResolvedMoved
  <2>4. QED BY <2>2, <2>3
<1>10. ASSUME NEW r \in Routers, TombstoneSuppress(r) \/ TombstoneReserve(r)
       PROVE  Moved(t)
  <2>1. receipts' = receipts
    BY <1>10 DEF TombstoneSuppress, TombstoneReserve
  <2>2. CASE t # op[r].task
    <3>1. records'[t] = records[t]
      BY <1>0, <1>10, <2>2 DEF TombstoneSuppress, TombstoneReserve
    <3>2. QED BY <1>1, <2>1, <3>1, StillFrame
  <2>3. CASE t = op[r].task
    <3>1. op[r].seen \in CompletionRecord
      BY <1>0 DEF TypeOK, Call
    <3>2. [op[r].seen EXCEPT !.state = "Tombstoned"].state = "Tombstoned"
      BY <3>1 DEF CompletionRecord
    <3>3. TombstoneStub.state = "Tombstoned"
      BY DEF TombstoneStub, NoRecord
    <3>4. \/ records'[t] = [op[r].seen EXCEPT !.state = "Tombstoned"]
          \/ records'[t] = TombstoneStub
      BY <1>0, <1>10, <2>3 DEF TombstoneSuppress, TombstoneReserve
    <3>5. QED BY <3>2, <3>3, <3>4 DEF Moved, Withdrawn
  <2>4. QED BY <2>2, <2>3
<1>11. ASSUME NEW r \in Routers, NEW u \in Tasks, CloseWithdraw(r, u) PROVE Moved(t)
  <2>1. records' = [records EXCEPT ![u].state = "Tombstoned"] /\ receipts' = receipts
    BY <1>11 DEF CloseWithdraw
  <2>2. CASE t # u
    <3>1. records'[t] = records[t] BY <1>0, <2>1, <2>2
    <3>2. QED BY <1>1, <2>1, <3>1, StillFrame
  <2>3. CASE t = u
    <3>1. records'[t] = [records[t] EXCEPT !.state = "Tombstoned"] BY <1>0, <2>1, <2>3
    <3>2. records'[t].state = "Tombstoned" BY <1>0, <3>1 DEF CompletionRecord
    <3>3. QED BY <3>2 DEF Moved, Withdrawn
  <2>4. QED BY <2>2, <2>3
<1>12. ASSUME NEW u \in Tasks, ClaimExpires(u) PROVE Moved(t)
  <2>1. records' = [records EXCEPT ![u].fresh = FALSE] /\ receipts' = receipts /\ records[u].fresh
    BY <1>12 DEF ClaimExpires
  <2>2. CASE t # u
    <3>1. records'[t] = records[t] BY <1>0, <2>1, <2>2
    <3>2. QED BY <1>1, <2>1, <3>1, StillFrame
  <2>3. CASE t = u
    <3>1. records'[t] = [records[t] EXCEPT !.fresh = FALSE] BY <1>0, <2>1, <2>3
    <3>2. /\ records'[t].state = records[t].state /\ ~records'[t].fresh
          /\ records'[t].attempts = records[t].attempts
      BY <1>0, <3>1 DEF CompletionRecord
    <3>3. QED BY <2>1, <2>3, <3>2 DEF Moved, Still, Freed
  <2>4. QED BY <2>2, <2>3
<1>13. ASSUME NEW u \in Tasks, Compact(u) PROVE Moved(t)
  <2>1. /\ records' = [records EXCEPT ![u] = NoRecord] /\ receipts' = receipts
        /\ records[u].state \in {"Delivered", "GaveUp", "Tombstoned"}
    BY <1>13 DEF Compact
  <2>2. CASE t # u
    <3>1. records'[t] = records[t] BY <1>0, <2>1, <2>2
    <3>2. QED BY <1>1, <2>1, <3>1, StillFrame
  <2>3. CASE t = u
    <3>1. records'[t].state = "Absent" BY <1>0, <2>1, <2>3 DEF NoRecord
    <3>2. QED BY <2>1, <2>3, <3>1 DEF Moved, Compacted
  <2>4. QED BY <2>2, <2>3
<1>14. ASSUME NEW r \in Routers, Restart(r) \/ \E rc \in receipts[r] : LoseReceipt(r, rc)
       PROVE  Moved(t)
  <2>1. records' = records
    BY <1>14 DEF Restart, LoseReceipt
  <2>2. \/ receipts' = [receipts EXCEPT ![r] = {}]
        \/ \E rc \in receipts[r] : receipts' = [receipts EXCEPT ![r] = receipts[r] \ {rc}]
    BY <1>14 DEF Restart, LoseReceipt
  <2>3. NoReceipt(t) BY <1>0, <2>2 DEF NoReceipt
  <2>4. QED BY <2>1, <2>3, StillFrame
<1>15. ASSUME NEW r \in Routers,
              RecordPush(r) \/ GateLost(r) \/ CloseDone(r) \/ DropPermit(r)
              \/ TombstoneTimeout(r) \/ (\E msg \in queue[r] : AdmitMessage(r, msg))
       PROVE  Moved(t)
  BY <1>2, <1>15 DEF RecordPush, GateLost, CloseDone, DropPermit, TombstoneTimeout, AdmitMessage
<1>16. ASSUME NEW r \in Routers, NEW p \in Parents, NEW u \in Tasks,
              Close(r, p, "Stopped") \/ Close(r, p, "Deleted") \/ CloseDeleted(r, p)
              \/ Resume(r, p) \/ Attach(r, p) \/ TombstoneRead(r, u)
       PROVE  Moved(t)
  BY <1>2, <1>16 DEF Close, CloseDeleted, Resume, Attach, TombstoneRead
<1>17. ASSUME NEW p \in Parents, GateExpires(p) PROVE Moved(t)
  BY <1>2, <1>17 DEF GateExpires
<1>18. CASE UNCHANGED vars
  BY <1>2, <1>18 DEF vars
<1>19. ASSUME NEW r \in Routers, CallProgress(r) \/ SpendReceipt(r) \/ ClaimSome(r)
       PROVE  Moved(t)
  BY <1>6, <1>7, <1>8, <1>10, <1>11, <1>14, <1>15, <1>19 DEF CallProgress, SpendReceipt, ClaimSome
<1>20. QED
  BY <1>3, <1>4, <1>5, <1>7, <1>9, <1>12, <1>13, <1>14, <1>15, <1>16, <1>17, <1>18, <1>19,
     ParentAssumption, TasksAssumption
  DEF Next

\* Each move of a record is a move of the outbox, or none.
LEMMA MovedRefines ==
    ASSUME TypeOK, NEW t \in Tasks, Moved(t)
    PROVE  Entry(t)' = Entry(t) \/ Outbox!Move(Entry(t), Entry(t)')
<1>1. /\ records[t].state = "Pending" =>
           Entry(t) = Outbox!Pending(records[t].attempts, ClaimOf(t))
      /\ records[t].state # "Pending" => Entry(t) = Outbox!Settled(records[t].state)
      /\ records'[t].state = "Pending" =>
           Entry(t)' = Outbox!Pending(records'[t].attempts, ClaimOf(t)')
      /\ records'[t].state # "Pending" => Entry(t)' = Outbox!Settled(records'[t].state)
  BY DEF Entry, Outbox!Pending, Outbox!Settled
<1>2. /\ ~records[t].fresh => ClaimOf(t) = "none"
      /\ records[t].fresh /\ Held(t) => ClaimOf(t) = "held"
      /\ records[t].fresh /\ ~Held(t) => ClaimOf(t) = "lost"
      /\ ~records'[t].fresh => ClaimOf(t)' = "none"
      /\ records'[t].fresh /\ Held(t)' => ClaimOf(t)' = "held"
      /\ records'[t].fresh /\ ~Held(t)' => ClaimOf(t)' = "lost"
  BY DEF ClaimOf
<1>3. \A n, c : /\ Outbox!Pending(n, c).state = "Pending" /\ Outbox!Pending(n, c).attempts = n
                /\ Outbox!Pending(n, c).claim = c
  BY DEF Outbox!Pending
<1>4. \A st : Outbox!Settled(st).state = st BY DEF Outbox!Settled
<1>5. CASE Still(t)
  <2>1. CASE records[t].state # "Pending" BY <1>1, <1>5, <2>1 DEF Still
  <2>2. CASE records[t].state = "Pending" /\ ClaimOf(t)' = ClaimOf(t)
    BY <1>1, <1>5, <2>2 DEF Still
  <2>3. CASE records[t].state = "Pending" /\ ClaimOf(t)' # ClaimOf(t)
    <3>1. ClaimOf(t) = "held" /\ ClaimOf(t)' = "lost" BY <1>2, <1>5, <2>3 DEF Still
    <3>2. QED BY <1>1, <1>3, <1>5, <2>3, <3>1 DEF Still, Outbox!Move, Outbox!Lose
  <2>4. QED BY <2>1, <2>2, <2>3
<1>6. CASE Taken(t)
  <2>1. ClaimOf(t) = "none" /\ ClaimOf(t)' \in {"held", "lost"} BY <1>2, <1>6 DEF Taken
  <2>2. QED BY <1>1, <1>3, <1>6, <2>1 DEF Taken, Outbox!Move, Outbox!Claim
<1>7. CASE Freed(t)
  <2>1. ClaimOf(t) \in {"held", "lost"} /\ ClaimOf(t)' = "none" BY <1>2, <1>7 DEF Freed
  <2>2. QED BY <1>1, <1>3, <1>7, <2>1 DEF Freed, Outbox!Move, Outbox!GiveBack
<1>8. CASE Ended(t)
  <2>1. records[t].state = "Pending" /\ records[t].fresh BY <1>8 DEF Ended, Held, Owns
  <2>2. ClaimOf(t) = "held" BY <1>2, <1>8, <2>1 DEF Ended
  <2>3. QED BY <1>1, <1>3, <1>8, <2>1, <2>2 DEF Ended, Outbox!Move, Outbox!Deliver, Outbox!GiveUp
<1>9. CASE Withdrawn(t)
  BY <1>1, <1>9 DEF Withdrawn, Outbox!Move, Outbox!Withdraw
<1>10. CASE Inserted(t)
  BY <1>1, <1>2, <1>10 DEF Inserted, Outbox!Move, Outbox!Publish, Outbox!Absent
<1>11. CASE Compacted(t)
  BY <1>1, <1>4, <1>11 DEF Compacted, Outbox!Move, Outbox!Compact, Outbox!Absent
<1>12. QED BY <1>5, <1>6, <1>7, <1>8, <1>9, <1>10, <1>11 DEF Moved

\* Through every interleaving of routers, expired gates, closed and reopened
\* generations, withdrawals and lost receipts, a record is claimed by one holder
\* at a time, settled by mark_delivered and mark_failed only for a holder whose
\* claim lasts, and given up after MaxAttempts claims and not before.
THEOREM ImplementsOutboxHolds == Spec => ImplementsOutbox
<1>1. Init => FreshAdmitted /\ Outbox!Init
  <2>. SUFFICES ASSUME Init PROVE FreshAdmitted /\ Outbox!Init
    OBVIOUS
  <2>1. ASSUME NEW t \in Tasks
        PROVE  /\ records[t].state \in {"Absent", "Pending"} /\ ~records[t].fresh
               /\ records[t].attempts = 0
    <3>1. PICK p \in Parents :
            records[t] = IF t \in Legacy THEN [NoRecord EXCEPT !.state = "Pending", !.parent = p]
                         ELSE NoRecord
      BY DEF Init
    <3>2. NoRecord \in CompletionRecord /\ NoRecord.state = "Absent" /\ NoRecord.attempts = 0
          /\ ~NoRecord.fresh
      BY NullTypes DEF NoRecord
    <3>3. CASE t \notin Legacy BY <3>1, <3>2, <3>3
    <3>4. CASE t \in Legacy
      <4> DEFINE new == [NoRecord EXCEPT !.state = "Pending", !.parent = p]
      <4>1. new.state = "Pending" /\ new.attempts = 0 /\ ~new.fresh BY DEF NoRecord
      <4>2. records[t] = new BY <3>1, <3>4
      <4> HIDE DEF new
      <4>3. QED BY <4>1, <4>2
    <3>5. QED BY <3>3, <3>4
  <2>2. ASSUME NEW t \in Tasks PROVE Entry(t) \in {Outbox!Absent, Outbox!Pending(0, "none")}
    <3>1. ClaimOf(t) = "none" BY <2>1 DEF ClaimOf
    <3>2. QED BY <2>1, <3>1 DEF Entry, Outbox!Absent, Outbox!Settled, Outbox!Pending
  <2>3. QED BY <2>1, <2>2 DEF FreshAdmitted, Outbox!Init, box
<1>2. IInv /\ FreshAdmitted /\ [Next]_vars => FreshAdmitted'
  BY FreshStep
<1>3. ASSUME IInv, FreshAdmitted, [Next]_vars PROVE [Outbox!Next]_box
  <2>1. ASSUME NEW t \in Tasks
        PROVE  Entry(t)' = Entry(t) \/ Outbox!Move(Entry(t), Entry(t)')
    BY <1>3, MovesStep, MovedRefines DEF IInv
  <2>2. ASSUME NEW t \in Tasks
        PROVE  box[t] = Entry(t) /\ box'[t] = Entry(t)'
    BY DEF box
  <2>3. ASSUME NEW t \in Tasks
        PROVE  box'[t] = box[t] \/ Outbox!Move(box[t], box'[t])
    BY <2>1, <2>2
  <2>4. QED BY <2>3 DEF Outbox!Next
<1>4. QED BY <1>1, <1>2, <1>3, InvariantHolds, PTL DEF Spec, ImplementsOutbox, Outbox!Spec

-----------------------------------------------------------------------------
(***************************************************************************)
(* The gates as fences.  What one step does to the calls and to the gates. *)
(***************************************************************************)
AtGate(c) == c.name \in {"record", "close", "permit"}

\* r's call ends, and with it the gate it still holds; a tombstone read begins.
CallEnds(r) ==
    /\ \A s \in Routers \ {r} : op'[s] = op[s]
    /\ ~AtGate(op'[r])
    /\ \A q \in Parents : gate'[q] = gate[q] \/ (gate[q] = r /\ gate'[q] = NoRouter)

\* r takes the free gate of p for a new call.
CallBegins(r, p) ==
    /\ ~AtGate(op[r]) /\ GateFree(p)
    /\ \A s \in Routers \ {r} : op'[s] = op[s]
    /\ AtGate(op'[r]) /\ op'[r].parent = p
    /\ gate'[p] = r /\ \A q \in Parents \ {p} : gate'[q] = gate[q]

\* Every call stays at its gate.
CallsStay ==
    /\ gate' = gate
    /\ \A s \in Routers : op'[s].name = op[s].name /\ op'[s].parent = op[s].parent

Expires(p) ==
    /\ op' = op
    /\ gate'[p] = NoRouter /\ \A q \in Parents \ {p} : gate'[q] = gate[q]

\* Every step is one of these.
LEMMA GateSteps ==
    ASSUME TypeOK, [Next]_vars
    PROVE  \/ CallsStay
           \/ \E r \in Routers : CallEnds(r)
           \/ \E r \in Routers, p \in Parents : CallBegins(r, p)
           \/ \E p \in Parents : Expires(p)
<1> DEFINE G == \/ CallsStay
                \/ \E r \in Routers : CallEnds(r)
                \/ \E r \in Routers, p \in Parents : CallBegins(r, p)
                \/ \E p \in Parents : Expires(p)
<1>a. op \in [Routers -> Call] /\ gate \in [Parents -> Routers \cup {NoRouter}]
  BY DEF TypeOK
<1>b. IdleCall.name = "idle" BY IdleFields
<1> USE DEF local, store
<1>0. ASSUME UNCHANGED <<op, gate>> PROVE G
  BY <1>0 DEF CallsStay
<1>c. ASSUME NEW r \in Routers, op' = [op EXCEPT ![r] = IdleCall], gate' = gate PROVE G
  BY <1>a, <1>b, <1>c DEF CallEnds, AtGate
<1>d. ASSUME NEW r \in Routers, NEW p \in Parents, NEW c, op' = [op EXCEPT ![r] = c],
             c.name \in {"record", "close", "permit"}, c.parent = p,
             op[r].name = "idle", GateFree(p), gate' = [gate EXCEPT ![p] = r]
      PROVE  G
  <2>1. CallBegins(r, p) BY <1>a, <1>d DEF CallBegins, AtGate
  <2>2. QED BY <2>1
<1>1. ASSUME NEW r \in Routers, CallProgress(r) PROVE G
  <2>1. ASSUME Finish(r) PROVE G
    <3>1. /\ \A s \in Routers \ {r} : op'[s] = op[s]
          /\ op'[r] = IdleCall
      BY <1>a, <2>1 DEF Finish
    <3>2. \A q \in Parents : gate'[q] = gate[q] \/ (gate[q] = r /\ gate'[q] = NoRouter)
      BY <1>a, <2>1 DEF Finish
    <3>3. CallEnds(r) BY <1>b, <3>1, <3>2 DEF CallEnds, AtGate
    <3>4. QED BY <3>3
  <2>4. ASSUME NEW k, op' = [op EXCEPT ![r].token = k], gate' = gate PROVE G
    <3>1. op[r] \in Call BY <1>a
    <3>2. op' = [op EXCEPT ![r] = [op[r] EXCEPT !.token = k]] BY <2>4
    <3> DEFINE c == [op[r] EXCEPT !.token = k]
    <3>3. c.name = op[r].name /\ c.parent = op[r].parent
      BY <3>1 DEF Call
    <3>4. op' = [op EXCEPT ![r] = c] BY <3>2
    <3> HIDE DEF c
    <3>5. CallsStay BY <1>a, <2>4, <3>3, <3>4 DEF CallsStay
    <3>6. QED BY <3>5
  <2>5. Finish(r) \/ (op' = [op EXCEPT ![r] = IdleCall] /\ gate' = gate)
        \/ UNCHANGED <<op, gate>>
        \/ \E k \in 1 .. MaxToken : op' = [op EXCEPT ![r].token = k] /\ gate' = gate
    BY <1>1 DEF CallProgress, RecordClaim, RecordPush, GateLost, CloseDone, DropPermit,
       TombstoneSuppress, TombstoneReserve, TombstoneTimeout, CloseWithdraw
  <2> HIDE DEF G
  <2>6. QED BY <1>0, <1>c, <2>1, <2>4, <2>5
<1> HIDE DEF G
<1>2. ASSUME NEW r \in Routers, SpendReceipt(r) PROVE G
  BY <1>0, <1>2 DEF SpendReceipt, Resolve, LoseReceipt
<1>3. ASSUME NEW r \in Routers, NEW p \in Parents, NEW t \in Tasks, RecordInsert(r, t, p)
      PROVE  G
  <2> DEFINE c == [IdleCall EXCEPT !.name = "record", !.parent = p, !.task = t,
                                   !.epoch = AdmittedEpoch(p)]
  <2>1. c.name = "record" /\ c.parent = p
    BY DEF IdleCall
  <2>2. \/ UNCHANGED <<op, gate>>
        \/ op' = [op EXCEPT ![r] = c] /\ gate' = [gate EXCEPT ![p] = r]
    BY <1>3 DEF RecordInsert
  <2>3. op[r].name = "idle" /\ GateFree(p) BY <1>3 DEF RecordInsert, Idle
  <2> HIDE DEF c
  <2>4. QED BY <1>0, <1>d, <2>1, <2>2, <2>3
<1>4. ASSUME NEW r \in Routers, NEW p \in Parents, NEW how \in {"Stopped", "Deleted"},
             Close(r, p, how)
      PROVE  G
  <2> DEFINE c == [IdleCall EXCEPT !.name = "close", !.parent = p,
                                   !.epoch = marker[p].epoch + 1]
  <2>1. c.name = "close" /\ c.parent = p
    BY DEF IdleCall
  <2>2. op' = [op EXCEPT ![r] = c] /\ gate' = [gate EXCEPT ![p] = r]
    BY <1>4 DEF Close
  <2>3. op[r].name = "idle" /\ GateFree(p) BY <1>4 DEF Close, Idle
  <2> HIDE DEF c
  <2>4. QED BY <1>d, <2>1, <2>2, <2>3
<1>5. ASSUME NEW r \in Routers, NEW msg \in queue[r], AdmitMessage(r, msg) PROVE G
  <2>0. msg.parent \in Parents
    BY DEF TypeOK, Message
  <2> DEFINE c == [IdleCall EXCEPT !.name = "permit", !.parent = msg.parent,
                                   !.task = msg.task, !.epoch = msg.epoch]
  <2>1. c.name = "permit" /\ c.parent = msg.parent
    BY DEF IdleCall
  <2>2. \/ UNCHANGED <<op, gate>>
        \/ /\ op' = [op EXCEPT ![r] = c] /\ gate' = [gate EXCEPT ![msg.parent] = r]
           /\ GateFree(msg.parent)
    BY <1>5 DEF AdmitMessage
  <2>3. op[r].name = "idle" BY <1>5 DEF AdmitMessage, Idle
  <2> HIDE DEF c
  <2>4. QED BY <1>0, <1>d, <2>0, <2>1, <2>2, <2>3
<1>6. ASSUME NEW r \in Routers, NEW t \in Tasks, TombstoneRead(r, t) PROVE G
  <2> DEFINE c == [IdleCall EXCEPT !.name = "tombstone", !.task = t,
                                   !.parent = records[t].parent, !.seen = records[t]]
  <2>1. c.name = "tombstone"
    BY DEF IdleCall
  <2>2. op' = [op EXCEPT ![r] = c] /\ gate' = gate
    BY <1>6 DEF TombstoneRead
  <2> HIDE DEF c
  <2>3. CallEnds(r) BY <1>a, <2>1, <2>2 DEF CallEnds, AtGate
  <2>4. QED BY <2>3 DEF G
<1>7. ASSUME NEW r \in Routers, Restart(r) PROVE G
  <2>1. op' = [op EXCEPT ![r] = IdleCall] /\ gate' = gate BY <1>7 DEF Restart
  <2>2. QED BY <1>c, <2>1
<1>8. ASSUME NEW p \in Parents, GateExpires(p) PROVE G
  <2>1. op' = op /\ gate' = [gate EXCEPT ![p] = NoRouter] BY <1>8 DEF GateExpires
  <2>2. Expires(p) BY <1>a, <2>1 DEF Expires
  <2>3. QED BY <2>2 DEF G
<1>9. ASSUME NEW t \in Tasks, ClaimExpires(t) \/ Compact(t) PROVE G
  BY <1>0, <1>9 DEF ClaimExpires, Compact
<1>10. ASSUME NEW r \in Routers, NEW p \in Parents, NEW t \in Tasks,
              CloseDeleted(r, p) \/ Resume(r, p) \/ AdmitOnly(r, p) \/ Attach(r, p)
              \/ Detach(r, p) \/ AdmitChild(r, t, p) \/ AdmitPartly(r, p, t)
       PROVE  G
  BY <1>0, <1>10
  DEF CloseDeleted, Resume, AdmitOnly, Attach, Detach, AdmitChild, AdmitPartly
<1>11. ASSUME NEW r \in Routers, NEW p \in Parents, NEW t \in Tasks, NEW told \in BOOLEAN,
              Claim(r, p, t, told)
       PROVE  G
  BY <1>0, <1>11 DEF Claim
<1>12. ASSUME UNCHANGED vars PROVE G
  BY <1>0, <1>12 DEF vars
<1>13. G
  BY <1>1, <1>2, <1>3, <1>4, <1>5, <1>6, <1>7, <1>8, <1>9, <1>10, <1>11, <1>12,
     TasksAssumption
  DEF Next, ClaimSome
<1>14. QED BY <1>13 DEF G

\* A tenure after the one that held the gate is over.
OverOf(p, s) == IF Tenure(p, s) = "none" THEN "none" ELSE "lost"

\* Seen from one gate: nothing changes, one call leaves, one takes the gate that
\* nobody holds, or the gate expires.
LEMMA TenureMoves ==
    ASSUME TypeOK, [Next]_vars, NEW p \in Parents
    PROVE  \/ \A s \in Routers : Tenure(p, s)' = Tenure(p, s)
           \/ \E r \in Routers :
                /\ Tenure(p, r)' = "none"
                /\ \A s \in Routers \ {r} : Tenure(p, s)' = Tenure(p, s)
           \/ \E r \in Routers :
                /\ Tenure(p, r)' = "current"
                /\ \A s \in Routers \ {r} : Tenure(p, s)' = OverOf(p, s)
           \/ \A s \in Routers : Tenure(p, s)' = OverOf(p, s)
<1>a. \A s \in Routers : s # NoRouter BY RouterAssumption
<1>1. CASE CallsStay
  <2>1. \A s \in Routers : Tenure(p, s)' = Tenure(p, s) BY <1>1 DEF CallsStay, Tenure
  <2>2. QED BY <2>1
<1>2. ASSUME NEW r \in Routers, CallEnds(r)
      PROVE  /\ Tenure(p, r)' = "none"
             /\ \A s \in Routers \ {r} : Tenure(p, s)' = Tenure(p, s)
  <2>1. Tenure(p, r)' = "none" BY <1>2 DEF CallEnds, AtGate, Tenure
  <2>2. ASSUME NEW s \in Routers \ {r} PROVE Tenure(p, s)' = Tenure(p, s)
    <3>1. op'[s] = op[s] /\ (gate'[p] = s <=> gate[p] = s) BY <1>a, <1>2 DEF CallEnds
    <3>2. QED BY <3>1 DEF Tenure
  <2>3. QED BY <2>1, <2>2
<1>3. ASSUME NEW r \in Routers, NEW q \in Parents, CallBegins(r, q), q # p
      PROVE  \A s \in Routers : Tenure(p, s)' = Tenure(p, s)
  <2>1. gate'[p] = gate[p] /\ \A s \in Routers \ {r} : op'[s] = op[s]
    BY <1>3 DEF CallBegins
  <2>2. Tenure(p, r) = "none" /\ Tenure(p, r)' = "none"
    BY <1>3 DEF CallBegins, AtGate, Tenure
  <2>3. \A s \in Routers \ {r} : Tenure(p, s)' = Tenure(p, s) BY <2>1 DEF Tenure
  <2>4. QED BY <2>2, <2>3
<1>4. ASSUME NEW r \in Routers, CallBegins(r, p)
      PROVE  /\ Tenure(p, r)' = "current"
             /\ \A s \in Routers \ {r} : Tenure(p, s)' = OverOf(p, s)
  <2>1. Tenure(p, r)' = "current" BY <1>4 DEF CallBegins, AtGate, Tenure
  <2>2. ASSUME NEW s \in Routers \ {r} PROVE Tenure(p, s)' = OverOf(p, s)
    <3>1. op'[s] = op[s] /\ gate'[p] # s BY <1>4 DEF CallBegins
    <3>2. QED BY <3>1 DEF Tenure, OverOf
  <2>3. QED BY <2>1, <2>2
<1>5. ASSUME Expires(p) PROVE \A s \in Routers : Tenure(p, s)' = OverOf(p, s)
  <2>1. ASSUME NEW s \in Routers PROVE Tenure(p, s)' = OverOf(p, s)
    <3>1. op'[s] = op[s] /\ gate'[p] # s BY <1>a, <1>5 DEF Expires
    <3>2. QED BY <3>1 DEF Tenure, OverOf
  <2>2. QED BY <2>1
<1>6. ASSUME NEW q \in Parents, Expires(q), q # p
      PROVE  \A s \in Routers : Tenure(p, s)' = Tenure(p, s)
  <2>1. op' = op /\ gate'[p] = gate[p] BY <1>6 DEF Expires
  <2>2. QED BY <2>1 DEF Tenure
<1>7. CASE \E r \in Routers : CallEnds(r)
  BY <1>2, <1>7
<1>8. CASE \E r \in Routers, q \in Parents : CallBegins(r, q)
  <2>1. PICK r \in Routers, q \in Parents : CallBegins(r, q) BY <1>8
  <2>2. CASE q = p
    <3>1. CallBegins(r, p) BY <2>1, <2>2
    <3>2. QED BY <1>4, <3>1
  <2>3. CASE q # p BY <1>3, <2>1, <2>3
  <2>4. QED BY <2>2, <2>3
<1>9. CASE \E q \in Parents : Expires(q)
  <2>1. PICK q \in Parents : Expires(q) BY <1>9
  <2>2. CASE q = p
    <3>1. Expires(p) BY <2>1, <2>2
    <3>2. QED BY <1>5, <3>1
  <2>3. CASE q # p BY <1>6, <2>1, <2>3
  <2>4. QED BY <2>2, <2>3
<1>10. QED BY <1>1, <1>7, <1>8, <1>9, GateSteps

\* A gate that was lost stays lost to the call that held it: at any time at most
\* one call's tenure of a parent's gate is current, and no late step of a call
\* whose gate expired or was taken by another makes its tenure current again.
THEOREM ImplementsFenceHolds == Spec => ImplementsFence
<1>1. Init => Gate!Init
  <2> SUFFICES ASSUME Init PROVE Gate!Init
    OBVIOUS
  <2>1. \A r \in Routers : op[r].name = "idle" BY IdleFields DEF Init
  <2>2. \A p \in Parents, r \in Routers : Tenure(p, r) = "none" BY <2>1 DEF Tenure
  <2>3. QED BY <2>2 DEF Gate!Init, Gates
<1>2. ASSUME TypeOK, [Next]_vars PROVE [Gate!Next]_Gates
  <2>1. ASSUME NEW p \in Parents
        PROVE  Gates'[p] = Gates[p] \/ Gate!Move(Gates[p], Gates'[p])
    <3>1. PICK h : h = [s \in Routers |-> Tenure(p, s)] OBVIOUS
    <3>2. PICK g : g = [s \in Routers |-> Tenure(p, s)'] OBVIOUS
    <3>3. \A s \in Routers : h[s] = Tenure(p, s) /\ g[s] = Tenure(p, s)' BY <3>1, <3>2
    <3>4. Gates[p] = h /\ Gates'[p] = g BY <3>1, <3>2 DEF Gates
    <3>5. Gate!Over(h) = [s \in Routers |-> IF h[s] = "none" THEN "none" ELSE "lost"]
      BY DEF Gate!Over
    <3>6. \A s \in Routers : Gate!Over(h)[s] = OverOf(p, s) BY <3>3, <3>5 DEF OverOf
    <3>7. CASE \A s \in Routers : Tenure(p, s)' = Tenure(p, s)
      <4>1. g = h BY <3>1, <3>2, <3>7
      <4>2. QED BY <3>4, <4>1
    <3>8. ASSUME NEW r \in Routers, Tenure(p, r)' = "none",
                 \A s \in Routers \ {r} : Tenure(p, s)' = Tenure(p, s)
          PROVE  Gate!Move(h, g)
      <4>1. g = [h EXCEPT ![r] = "none"] BY <3>1, <3>2, <3>3, <3>8
      <4>2. QED BY <4>1 DEF Gate!Move, Gate!Drop
    <3>9. ASSUME NEW r \in Routers, Tenure(p, r)' = "current",
                 \A s \in Routers \ {r} : Tenure(p, s)' = OverOf(p, s)
          PROVE  Gate!Move(h, g)
      <4>1. g = [Gate!Over(h) EXCEPT ![r] = "current"] BY <3>2, <3>3, <3>5, <3>6, <3>9
      <4>2. QED BY <4>1 DEF Gate!Move, Gate!Grant
    <3>10. CASE \A s \in Routers : Tenure(p, s)' = OverOf(p, s)
      <4>1. g = Gate!Over(h) BY <3>2, <3>3, <3>5, <3>6, <3>10
      <4>2. Gate!Move(h, g) BY <4>1 DEF Gate!Move, Gate!Expire
      <4>3. QED BY <3>4, <4>2
    <3>11. QED BY <1>2, <3>4, <3>7, <3>8, <3>9, <3>10, TenureMoves
  <2>2. QED BY <2>1 DEF Gate!Next
<1>3. QED BY <1>1, <1>2, TypeCorrect, PTL DEF Spec, ImplementsFence, Gate!Spec
=============================================================================
