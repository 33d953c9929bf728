------------------------ MODULE DeliveryDrainProofs ------------------------
(***************************************************************************)
(* Proofs about DeliveryDrain, for every set of workers and records, every *)
(* batch size, every limit of attempts and every number of faults.         *)
(***************************************************************************)
EXTENDS DeliveryDrain, FiniteSetTheorems, TLAPS

-----------------------------------------------------------------------------
(* Types.                                                                  *)

\* The updates the drain makes of a record keep its type.
LEMMA RecordUpdates ==
  ASSUME NEW x \in RecordState
  PROVE  /\ [x EXCEPT !.fresh = FALSE] \in RecordState
         /\ [x EXCEPT !.state = "Pending"] \in RecordState
         /\ \A st \in {"Pending", "Delivered", "GaveUp"} :
               [x EXCEPT !.state = st, !.fresh = FALSE] \in RecordState
<1>1. [x EXCEPT !.fresh = FALSE] \in RecordState BY DEF RecordState
<1>2. [x EXCEPT !.state = "Pending"] \in RecordState BY DEF RecordState
<1>3. ASSUME NEW st \in {"Pending", "Delivered", "GaveUp"}
      PROVE  [x EXCEPT !.state = st, !.fresh = FALSE] \in RecordState
  <2>1. st \in {"Absent", "Pending", "Delivered", "GaveUp"} OBVIOUS
  <2>2. [x EXCEPT !.state = st] \in RecordState BY <2>1 DEF RecordState
  <2>3. [x EXCEPT !.state = st, !.fresh = FALSE] = [[x EXCEPT !.state = st] EXCEPT !.fresh = FALSE]
    BY DEF RecordState
  <2>4. QED BY <2>2, <2>3 DEF RecordState
<1>4. QED BY <1>1, <1>2, <1>3

\* A claim and the resolution of receipts keep the type of the records.
LEMMA ClaimedType ==
  ASSUME TypeOK, NEW s
  PROVE  Claimed(s) \in [Records -> RecordState]
<1>1. ASSUME NEW r \in Records
      PROVE  [rec[r] EXCEPT !.attempts = rec[r].attempts + 1, !.fresh = TRUE] \in RecordState
  <2>1. rec[r] \in RecordState /\ rec[r].attempts + 1 \in Nat BY DEF TypeOK, RecordState
  <2>2. QED BY <2>1 DEF RecordState
<1>2. QED BY <1>1 DEF TypeOK, Claimed

LEMMA ResolvedType ==
  ASSUME TypeOK, NEW w, NEW s, NEW how \in [Records -> {"Pending", "Delivered", "GaveUp"}]
  PROVE  Resolved(w, s, how) \in [Records -> RecordState]
<1>1. ASSUME NEW r \in Records
      PROVE  [rec[r] EXCEPT !.state = how[r], !.fresh = FALSE] \in RecordState
  BY RecordUpdates DEF TypeOK
<1>2. QED BY <1>1 DEF TypeOK, Resolved

\* The branch of AfterFailure that claims again.
BacksOff(w) ==
    /\ gone[w] # InBatch(w) /\ adm[w]
    /\ batch' = [batch EXCEPT ![w] = NoBatch]
    /\ gone' = [gone EXCEPT ![w] = {}]
    /\ GoTo(w, "backoff")
    /\ UNCHANGED <<rec, turns>>

\* The outcomes of a claim.
LEMMA Outcomes ==
  /\ Released \in [Records -> {"Pending", "Delivered", "GaveUp"}]
  /\ Delivered \in [Records -> {"Pending", "Delivered", "GaveUp"}]
  /\ Failed \in [Records -> {"Pending", "Delivered", "GaveUp"}]
BY DEF Released, Delivered, Failed

\* So does the return of a drain.
LEMMA ReturnType ==
  ASSUME TypeOK, NEW w \in Workers, NEW records \in [Records -> RecordState], Return(w, records),
         faults' \in 0..MaxFaults, noted' \subseteq Records
  PROVE  TypeOK'
BY DEF TypeOK, Return, PCs, Tenures, NoBatch

\* Every step keeps the types.
LEMMA TypeStep ==
  ASSUME TypeOK, [Next]_vars
  PROVE  TypeOK'
<1>. USE FaultsAssumption DEF TypeOK, PCs, Tenures, NoBatch, InBatch, fence, drain, giveup
<1>1. ASSUME NEW w \in Workers, Acquire(w) PROVE TypeOK'
  BY <1>1 DEF Acquire, Acquirable, Superseded
<1>2. ASSUME NEW w \in Workers, RenewRefused(w) PROVE TypeOK'
  BY <1>2 DEF RenewRefused, TenureOver
<1>3. ASSUME NEW w \in Workers, RenewErrs(w) PROVE TypeOK'
  BY <1>3 DEF RenewErrs, Fault
<1>4. ASSUME NEW w \in Workers, ReleaseLands(w) PROVE TypeOK'
  BY <1>4 DEF ReleaseLands
<1>5. ASSUME NEW w \in Workers, Fenced(w) PROVE TypeOK'
  <2>1. PICK s \in SUBSET InBatch(w) : Return(w, Resolved(w, s, Released))
    BY <1>5 DEF Fenced
  <2>2. Resolved(w, s, Released) \in [Records -> RecordState]
    BY ResolvedType, Outcomes
  <2>3. noted' = noted /\ faults' = faults BY <1>5 DEF Fenced
  <2>4. QED BY <2>1, <2>2, <2>3, ReturnType
<1>5d. ASSUME NEW w \in Workers, DrainDropped(w) PROVE TypeOK'
  <2>1. PICK s \in SUBSET InBatch(w) : Return(w, Resolved(w, s, Released))
    BY <1>5d DEF DrainDropped
  <2>2. Resolved(w, s, Released) \in [Records -> RecordState]
    BY ResolvedType, Outcomes
  <2>3. faults' \in 0..MaxFaults /\ noted' = noted BY <1>5d DEF DrainDropped, Fault
  <2>4. QED BY <2>1, <2>2, <2>3, ReturnType
<1>6. ASSUME NEW w \in Workers, Ready(w) PROVE TypeOK'
  BY <1>6 DEF Ready, GoTo
<1>7. ASSUME NEW w \in Workers, ClaimBatch(w) PROVE TypeOK'
  <2>1. PICK s \in Batches \ {{}} :
          /\ rec' = Claimed(s)
          /\ batch' = [batch EXCEPT ![w] = [r \in Records |-> IF r \in s THEN rec[r].attempts + 1
                                                               ELSE 0]]
    BY <1>7 DEF ClaimBatch
  <2>2. rec' \in [Records -> RecordState] BY <2>1, ClaimedType
  <2>3. batch' \in [Workers -> [Records -> Nat]]
    <3>1. [r \in Records |-> IF r \in s THEN rec[r].attempts + 1 ELSE 0] \in [Records -> Nat]
      BY DEF RecordState
    <3>2. QED BY <2>1, <3>1
  <2>4. QED BY <1>7, <2>2, <2>3 DEF ClaimBatch, GoTo
<1>8. ASSUME NEW w \in Workers, NothingToClaim(w) PROVE TypeOK'
  BY <1>8 DEF NothingToClaim, Return
<1>9. ASSUME NEW w \in Workers, BeginTurn(w) PROVE TypeOK'
  BY <1>9 DEF BeginTurn, GoTo
<1>10. ASSUME NEW w \in Workers, EndTurn(w, "ok") PROVE TypeOK'
  BY <1>10 DEF EndTurn, GoTo
<1>11. ASSUME NEW w \in Workers, EndTurn(w, "failed") PROVE TypeOK'
  BY <1>11 DEF EndTurn, GoTo
<1>12. ASSUME NEW w \in Workers, Acknowledge(w) PROVE TypeOK'
  <2>1. Resolved(w, InBatch(w), Delivered) \in [Records -> RecordState]
    BY ResolvedType, Outcomes
  <2>2. QED BY <1>12, <2>1 DEF Acknowledge, GoTo
<1>13. ASSUME NEW w \in Workers, TurnFailed(w) PROVE TypeOK'
  <2>1. Resolved(w, InBatch(w), Failed) \in [Records -> RecordState]
    BY ResolvedType, Outcomes
  <2>2. QED BY <1>13, <2>1 DEF TurnFailed, MarkFailed, GoTo
<1>14. ASSUME NEW w \in Workers, AfterFailure(w) PROVE TypeOK'
  <2>1. noted' \subseteq Records /\ faults' = faults BY <1>14 DEF AfterFailure, WriteUndelivered
  <2>2. CASE Return(w, rec)
    BY <2>1, <2>2, ReturnType
  <2>3. CASE BacksOff(w)
    BY <2>1, <2>3 DEF BacksOff, GoTo
  <2>4. QED BY <1>14, <2>2, <2>3 DEF AfterFailure, BacksOff
<1>15. ASSUME NEW w \in Workers, BackoffOver(w) PROVE TypeOK'
  BY <1>15 DEF BackoffOver, GoTo
<1>16. ASSUME NEW w \in Workers, ParentBusy(w) PROVE TypeOK'
  BY <1>16 DEF ParentBusy, Return
<1>17. ASSUME NEW w \in Workers, Crash(w) PROVE TypeOK'
  BY <1>17 DEF Crash, Fault
<1>18. ASSUME NEW w \in Workers, ClaimFails(w) PROVE TypeOK'
  <2>1. PICK s : Return(w, Claimed(s))
    BY <1>18 DEF ClaimFails
  <2>2. faults' \in 0..MaxFaults /\ noted' = noted BY <1>18 DEF ClaimFails, Fault
  <2>3. QED BY <2>1, <2>2, ClaimedType, ReturnType
<1>19. ASSUME NEW w \in Workers, AcknowledgeFails(w) PROVE TypeOK'
  <2>1. PICK s \in SUBSET InBatch(w), u \in SUBSET InBatch(w) :
          Return(w, [r \in Records |-> CASE r \in s -> Resolved(w, s, Delivered)[r]
                                         [] r \in u -> Resolved(w, u, Released)[r]
                                         [] OTHER   -> rec[r]])
    BY <1>19 DEF AcknowledgeFails
  <2>2. /\ Resolved(w, s, Delivered) \in [Records -> RecordState]
        /\ Resolved(w, u, Released) \in [Records -> RecordState]
    BY ResolvedType, Outcomes
  <2>3. faults' \in 0..MaxFaults /\ noted' = noted BY <1>19 DEF AcknowledgeFails, Fault
  <2>4. [r \in Records |-> CASE r \in s -> Resolved(w, s, Delivered)[r]
                             [] r \in u -> Resolved(w, u, Released)[r]
                             [] OTHER   -> rec[r]] \in [Records -> RecordState]
    BY <2>2
  <2>5. QED BY <2>1, <2>3, <2>4, ReturnType
<1>20. ASSUME NEW w \in Workers, MarkFailedFails(w) PROVE TypeOK'
  <2>1. PICK s \in SUBSET InBatch(w) : MarkFailed(w, s)
    BY <1>20 DEF MarkFailedFails
  <2>2. Resolved(w, s, Failed) \in [Records -> RecordState]
    BY ResolvedType, Outcomes
  <2>3. faults' \in 0..MaxFaults BY <1>20 DEF MarkFailedFails, Fault
  <2>4. QED BY <2>1, <2>2, <2>3 DEF MarkFailed, GoTo
<1>21. ASSUME LeaseLapses PROVE TypeOK'
  BY <1>21 DEF LeaseLapses, Renewed
<1>22. ASSUME RenewalMissed PROVE TypeOK'
  BY <1>22 DEF RenewalMissed, Renewed, Fault
<1>23. ASSUME NEW r \in Records, Publish(r) PROVE TypeOK'
  <2>1. rec' \in [Records -> RecordState] BY <1>23, RecordUpdates DEF Publish
  <2>2. QED BY <1>23, <2>1 DEF Publish
<1>24. ASSUME NEW r \in Records, ClaimExpires(r) PROVE TypeOK'
  <2>1. rec' \in [Records -> RecordState] BY <1>24, RecordUpdates DEF ClaimExpires
  <2>2. QED BY <1>24, <2>1 DEF ClaimExpires
<1>25. ASSUME NEW r \in Records, ClaimOutlived(r) PROVE TypeOK'
  <2>1. rec' \in [Records -> RecordState] BY <1>25, RecordUpdates DEF ClaimOutlived
  <2>2. QED BY <1>25, <2>1 DEF ClaimOutlived, Fault
<1>26. CASE UNCHANGED vars
  BY <1>26 DEF vars
<1>27. QED BY <1>1, <1>2, <1>3, <1>4, <1>5, <1>5d, <1>6, <1>7, <1>8, <1>9, <1>10, <1>11, <1>12,
    <1>13, <1>14, <1>15, <1>16, <1>17, <1>18, <1>19, <1>20, <1>21, <1>22, <1>23, <1>24,
    <1>25, <1>26 DEF Next, DrainStep

\* The drain starts in the types.
LEMMA InitType == Init => TypeOK
<1>1. [state |-> "Absent", attempts |-> 0, fresh |-> FALSE] \in RecordState
  BY DEF RecordState
<1>2. Init => rec \in [Records -> RecordState]
  BY <1>1 DEF Init
<1>3. Init => adm \in [Workers -> BOOLEAN] /\ crashed \in BOOLEAN
  <2>1. Init => adm = [w \in Workers |-> FALSE] /\ crashed = FALSE BY DEF Init
  <2>2. QED BY ONLY <2>1
<1>4. NoBatch \in [Records -> Nat] BY DEF NoBatch
<1>5. Init => batch \in [Workers -> [Records -> Nat]] /\ turns \in [Records -> Nat]
  BY <1>4 DEF Init
<1>6. Init => /\ pc \in [Workers -> PCs] /\ hold \in [Workers -> Tenures]
              /\ rel \in [Workers -> Tenures] /\ gone \in [Workers -> SUBSET Records]
  BY DEF Init, PCs, Tenures
<1>7. QED BY <1>2, <1>3, <1>5, <1>6, FaultsAssumption DEF Init, TypeOK

\* TypeOK is an invariant of DeliveryDrain.
THEOREM TypeCorrect == Spec => []TypeOK
<1>1. Init => TypeOK
  BY InitType
<1>2. TypeOK /\ [Next]_vars => TypeOK'
  BY TypeStep
<1>3. QED BY <1>1, <1>2, PTL DEF Spec

\* The fields of a record after a claim, and after the resolution of receipts.
LEMMA ClaimedFields ==
  ASSUME TypeOK, NEW s, NEW r \in Records
  PROVE  /\ Claimed(s)[r].state = rec[r].state
         /\ r \in s => Claimed(s)[r].attempts = rec[r].attempts + 1 /\ Claimed(s)[r].fresh
         /\ r \notin s => Claimed(s)[r] = rec[r]
BY DEF TypeOK, Claimed, RecordState

LEMMA ResolvedFields ==
  ASSUME TypeOK, NEW w, NEW s, NEW how, NEW r \in Records
  PROVE  /\ r \in s /\ Owns(w, r) => /\ Resolved(w, s, how)[r].state = how[r]
                                     /\ Resolved(w, s, how)[r].attempts = rec[r].attempts
                                     /\ ~Resolved(w, s, how)[r].fresh
         /\ ~(r \in s /\ Owns(w, r)) => Resolved(w, s, how)[r] = rec[r]
BY DEF TypeOK, Resolved, RecordState

\* A receipt that is given back or given up makes no record delivered.
LEMMA ResolvedKeeps ==
  ASSUME TypeOK, NEW w, NEW s, NEW how, NEW r \in Records, how[r] \in {"GaveUp", "Pending"}
  PROVE  LET x == Resolved(w, s, how)[r]
         IN  /\ x.attempts = rec[r].attempts
             /\ x.fresh => rec[r].fresh
             /\ x.state \in {"Absent", "Delivered"} => rec[r].state = x.state
<1>1. CASE r \in s /\ Owns(w, r) BY <1>1, ResolvedFields
<1>2. CASE ~(r \in s /\ Owns(w, r)) BY <1>2, ResolvedFields
<1>3. QED BY <1>1, <1>2

-----------------------------------------------------------------------------
(* What is given up is written down.                                       *)

\* What a worker's place in its drain says of its handle and its batch.
WorkerInv ==
    \A w \in Workers :
        /\ pc[w] = "idle" <=> hold[w] = "none"
        /\ adm[w] => pc[w] # "idle"
        /\ pc[w] \in {"idle", "wait", "claim", "backoff"} => batch[w] = NoBatch
        /\ gone[w] # {} => pc[w] = "writing"

\* Every step keeps them.
LEMMA WorkerStep ==
  ASSUME TypeOK, WorkerInv, [Next]_vars
  PROVE  WorkerInv'
<1>. USE DEF TypeOK, PCs, Tenures, WorkerInv, fence, drain, giveup
<1>1. ASSUME NEW w \in Workers, Acquire(w) PROVE WorkerInv'
  BY <1>1 DEF Acquire, Acquirable, Superseded
<1>2. ASSUME NEW w \in Workers, RenewRefused(w) PROVE WorkerInv'
  BY <1>2 DEF RenewRefused, TenureOver
<1>3. ASSUME NEW w \in Workers, RenewErrs(w) PROVE WorkerInv'
  BY <1>3 DEF RenewErrs, Fault
<1>4. ASSUME NEW w \in Workers, ReleaseLands(w) PROVE WorkerInv'
  BY <1>4 DEF ReleaseLands
<1>5. ASSUME NEW w \in Workers, Fenced(w) PROVE WorkerInv'
  <2>1. PICK records : Return(w, records)
    BY <1>5 DEF Fenced
  <2>2. QED BY <1>5, <2>1 DEF Return, Fenced
<1>5d. ASSUME NEW w \in Workers, DrainDropped(w) PROVE WorkerInv'
  <2>1. PICK records : Return(w, records)
    BY <1>5d DEF DrainDropped
  <2>2. QED BY <1>5d, <2>1 DEF Return, DrainDropped
<1>6. ASSUME NEW w \in Workers, Ready(w) PROVE WorkerInv'
  BY <1>6 DEF Ready, GoTo
<1>7. ASSUME NEW w \in Workers, ClaimBatch(w) PROVE WorkerInv'
  <2>1. /\ pc[w] = "claim" /\ pc' = [pc EXCEPT ![w] = "turn"]
        /\ hold' = hold /\ adm' = adm /\ gone' = gone
        /\ \A v \in Workers \ {w} : batch'[v] = batch[v]
    BY <1>7 DEF ClaimBatch, GoTo
  <2>2. QED BY <2>1
<1>8. ASSUME NEW w \in Workers, NothingToClaim(w) PROVE WorkerInv'
  BY <1>8 DEF NothingToClaim, Return
<1>9. ASSUME NEW w \in Workers, BeginTurn(w) PROVE WorkerInv'
  BY <1>9 DEF BeginTurn, GoTo
<1>10. ASSUME NEW w \in Workers, EndTurn(w, "ok") PROVE WorkerInv'
  BY <1>10 DEF EndTurn, GoTo
<1>11. ASSUME NEW w \in Workers, EndTurn(w, "failed") PROVE WorkerInv'
  BY <1>11 DEF EndTurn, GoTo
<1>12. ASSUME NEW w \in Workers, Acknowledge(w) PROVE WorkerInv'
  BY <1>12 DEF Acknowledge, GoTo
<1>13. ASSUME NEW w \in Workers, TurnFailed(w) PROVE WorkerInv'
  BY <1>13 DEF TurnFailed, MarkFailed, GoTo
<1>14. ASSUME NEW w \in Workers, AfterFailure(w) PROVE WorkerInv'
  <2>1. CASE Return(w, rec)
    BY <1>14, <2>1 DEF Return
  <2>2. CASE BacksOff(w)
    BY <1>14, <2>2 DEF BacksOff, GoTo
  <2>3. QED BY <1>14, <2>1, <2>2 DEF AfterFailure, BacksOff
<1>15. ASSUME NEW w \in Workers, BackoffOver(w) PROVE WorkerInv'
  BY <1>15 DEF BackoffOver, GoTo
<1>16. ASSUME NEW w \in Workers, ParentBusy(w) PROVE WorkerInv'
  BY <1>16 DEF ParentBusy, Return
<1>17. ASSUME NEW w \in Workers, Crash(w) PROVE WorkerInv'
  BY <1>17 DEF Crash, Fault
<1>18. ASSUME NEW w \in Workers, ClaimFails(w) PROVE WorkerInv'
  <2>1. PICK records : Return(w, records)
    BY <1>18 DEF ClaimFails
  <2>2. QED BY <1>18, <2>1 DEF Return, ClaimFails
<1>19. ASSUME NEW w \in Workers, AcknowledgeFails(w) PROVE WorkerInv'
  <2>1. PICK records : Return(w, records)
    BY <1>19 DEF AcknowledgeFails
  <2>2. QED BY <1>19, <2>1 DEF Return, AcknowledgeFails
<1>20. ASSUME NEW w \in Workers, MarkFailedFails(w) PROVE WorkerInv'
  <2>1. PICK s \in SUBSET InBatch(w) : MarkFailed(w, s)
    BY <1>20 DEF MarkFailedFails
  <2>2. QED BY <1>20, <2>1 DEF MarkFailed, GoTo
<1>21. ASSUME LeaseLapses PROVE WorkerInv'
  BY <1>21 DEF LeaseLapses, Renewed
<1>22. ASSUME RenewalMissed PROVE WorkerInv'
  BY <1>22 DEF RenewalMissed, Renewed, Fault
<1>23. ASSUME NEW r \in Records, Publish(r) PROVE WorkerInv'
  BY <1>23 DEF Publish
<1>24. ASSUME NEW r \in Records, ClaimExpires(r) PROVE WorkerInv'
  BY <1>24 DEF ClaimExpires
<1>25. ASSUME NEW r \in Records, ClaimOutlived(r) PROVE WorkerInv'
  BY <1>25 DEF ClaimOutlived, Fault
<1>26. CASE UNCHANGED vars
  BY <1>26 DEF vars
<1>27. QED BY <1>1, <1>2, <1>3, <1>4, <1>5, <1>5d, <1>6, <1>7, <1>8, <1>9, <1>10, <1>11, <1>12,
    <1>13, <1>14, <1>15, <1>16, <1>17, <1>18, <1>19, <1>20, <1>21, <1>22, <1>23, <1>24,
    <1>25, <1>26 DEF Next, DrainStep

\* GiveUpIsWritten, with what the drain has in hand.
GiveUpInv ==
    /\ GiveUpIsWritten
    /\ \A w \in Workers : gone[w] # {} => pc[w] = "writing"

\* What mark_failed gives up on, the drain has in hand.
LEMMA MarkFailedGiveUp ==
  ASSUME TypeOK, WorkerInv, GiveUpInv, NEW w \in Workers, NEW s \in SUBSET InBatch(w), MarkFailed(w, s)
  PROVE  GiveUpInv'
<1>1. /\ rec' = Resolved(w, s, Failed) /\ noted' = noted /\ crashed' = crashed
      /\ gone' = [gone EXCEPT ![w] = {r \in s : Owns(w, r) /\ Failed[r] = "GaveUp"}]
      /\ pc' = [pc EXCEPT ![w] = "writing"] /\ gone[w] = {}
  BY DEF MarkFailed, GoTo, WorkerInv
<1>2. ASSUME NEW r \in Records
      PROVE  /\ r \in gone'[w] => rec'[r].state = "GaveUp"
             /\ rec[r].state = "GaveUp" => rec'[r].state = "GaveUp"
             /\ rec'[r].state = "GaveUp" => rec[r].state = "GaveUp" \/ r \in gone'[w]
  BY <1>1, ResolvedFields DEF Owns, TypeOK
<1>3. QED BY <1>1, <1>2 DEF GiveUpInv, GiveUpIsWritten, TypeOK

\* Every step keeps what is given up written down.
LEMMA GiveUpStep ==
  ASSUME TypeOK, WorkerInv, GiveUpInv, [Next]_vars
  PROVE  GiveUpInv'
<1>. USE DEF TypeOK, WorkerInv, GiveUpInv, GiveUpIsWritten, fence, drain, giveup
<1>1. ASSUME NEW w \in Workers, Acquire(w) PROVE GiveUpInv'
  BY <1>1 DEF Acquire, Acquirable, Superseded
<1>2. ASSUME NEW w \in Workers, RenewRefused(w) PROVE GiveUpInv'
  BY <1>2 DEF RenewRefused, TenureOver
<1>3. ASSUME NEW w \in Workers, RenewErrs(w) PROVE GiveUpInv'
  BY <1>3 DEF RenewErrs, Fault
<1>4. ASSUME NEW w \in Workers, ReleaseLands(w) PROVE GiveUpInv'
  BY <1>4 DEF ReleaseLands
<1>5. ASSUME NEW w \in Workers, Fenced(w) PROVE GiveUpInv'
  <2>1. PICK s \in SUBSET InBatch(w) : Return(w, Resolved(w, s, Released))
    BY <1>5 DEF Fenced
  <2>2. \A r \in Records : rec'[r].state = rec[r].state
    BY <2>1, ResolvedFields DEF Return, Released, Owns
  <2>3. QED BY <1>5, <2>1, <2>2 DEF Fenced, Return
<1>5d. ASSUME NEW w \in Workers, DrainDropped(w) PROVE GiveUpInv'
  <2>1. PICK s \in SUBSET InBatch(w) : Return(w, Resolved(w, s, Released))
    BY <1>5d DEF DrainDropped
  <2>2. \A r \in Records : rec'[r].state = rec[r].state
    BY <2>1, ResolvedFields DEF Return, Released, Owns
  <2>3. QED BY <1>5d, <2>1, <2>2 DEF DrainDropped, Return
<1>6. ASSUME NEW w \in Workers, Ready(w) PROVE GiveUpInv'
  BY <1>6 DEF Ready, GoTo
<1>7. ASSUME NEW w \in Workers, ClaimBatch(w) PROVE GiveUpInv'
  <2>1. \A r \in Records : rec'[r].state = rec[r].state
    BY <1>7, ClaimedFields DEF ClaimBatch
  <2>2. QED BY <1>7, <2>1 DEF ClaimBatch, GoTo
<1>8. ASSUME NEW w \in Workers, NothingToClaim(w) PROVE GiveUpInv'
  BY <1>8 DEF NothingToClaim, Return
<1>9. ASSUME NEW w \in Workers, BeginTurn(w) PROVE GiveUpInv'
  BY <1>9 DEF BeginTurn, GoTo
<1>10. ASSUME NEW w \in Workers, EndTurn(w, "ok") PROVE GiveUpInv'
  BY <1>10 DEF EndTurn, GoTo
<1>11. ASSUME NEW w \in Workers, EndTurn(w, "failed") PROVE GiveUpInv'
  BY <1>11 DEF EndTurn, GoTo
<1>12. ASSUME NEW w \in Workers, Acknowledge(w) PROVE GiveUpInv'
  <2>1. \A r \in Records : (rec'[r].state = "GaveUp") <=> (rec[r].state = "GaveUp")
    BY <1>12, ResolvedFields DEF Acknowledge, Delivered, Owns
  <2>2. QED BY <1>12, <2>1 DEF Acknowledge, GoTo
<1>13. ASSUME NEW w \in Workers, TurnFailed(w) PROVE GiveUpInv'
  <2>1. MarkFailed(w, InBatch(w)) BY <1>13 DEF TurnFailed
  <2>2. QED BY <2>1, MarkFailedGiveUp
<1>14. ASSUME NEW w \in Workers, AfterFailure(w) PROVE GiveUpInv'
  <2>1. rec' = rec /\ gone' = [gone EXCEPT ![w] = {}] /\ noted' = noted \cup gone[w]
        /\ crashed' = crashed /\ \A x \in Workers \ {w} : pc'[x] = pc[x]
    BY <1>14 DEF AfterFailure, WriteUndelivered, Return, GoTo
  <2>2. QED BY <2>1
<1>15. ASSUME NEW w \in Workers, BackoffOver(w) PROVE GiveUpInv'
  BY <1>15 DEF BackoffOver, GoTo
<1>16. ASSUME NEW w \in Workers, ParentBusy(w) PROVE GiveUpInv'
  BY <1>16 DEF ParentBusy, Return
<1>17. ASSUME NEW w \in Workers, Crash(w) PROVE GiveUpInv'
  <2>1. rec' = rec /\ noted' = noted /\ crashed' /\ gone' = [gone EXCEPT ![w] = {}]
        /\ \A x \in Workers \ {w} : pc'[x] = pc[x]
    BY <1>17 DEF Crash
  <2>2. QED BY <2>1
<1>18. ASSUME NEW w \in Workers, ClaimFails(w) PROVE GiveUpInv'
  <2>1. PICK s : Return(w, Claimed(s))
    BY <1>18 DEF ClaimFails
  <2>2. \A r \in Records : rec'[r].state = rec[r].state
    BY <2>1, ClaimedFields DEF Return
  <2>3. QED BY <1>18, <2>1, <2>2 DEF ClaimFails, Return
<1>19. ASSUME NEW w \in Workers, AcknowledgeFails(w) PROVE GiveUpInv'
  <2>1. PICK s \in SUBSET InBatch(w), u \in SUBSET InBatch(w) :
          Return(w, [r \in Records |-> CASE r \in s -> Resolved(w, s, Delivered)[r]
                                         [] r \in u -> Resolved(w, u, Released)[r]
                                         [] OTHER   -> rec[r]])
    BY <1>19 DEF AcknowledgeFails
  <2>2. \A r \in Records : rec'[r] \in {Resolved(w, s, Delivered)[r], Resolved(w, u, Released)[r], rec[r]}
    BY <2>1 DEF Return
  <2>3. \A r \in Records : (rec'[r].state = "GaveUp") <=> (rec[r].state = "GaveUp")
    BY <2>2, ResolvedFields DEF Delivered, Released, Owns
  <2>4. QED BY <1>19, <2>1, <2>3 DEF AcknowledgeFails, Return
<1>20. ASSUME NEW w \in Workers, MarkFailedFails(w) PROVE GiveUpInv'
  <2>1. PICK s \in SUBSET InBatch(w) : MarkFailed(w, s)
    BY <1>20 DEF MarkFailedFails
  <2>2. QED BY <2>1, MarkFailedGiveUp
<1>21. ASSUME LeaseLapses PROVE GiveUpInv'
  BY <1>21 DEF LeaseLapses, Renewed
<1>22. ASSUME RenewalMissed PROVE GiveUpInv'
  BY <1>22 DEF RenewalMissed, Renewed, Fault
<1>23. ASSUME NEW r \in Records, Publish(r) PROVE GiveUpInv'
  <2>1. \A x \in Records : (rec'[x].state = "GaveUp") <=> (rec[x].state = "GaveUp")
    BY <1>23 DEF Publish, RecordState
  <2>2. QED BY <1>23, <2>1 DEF Publish
<1>24. ASSUME NEW r \in Records, ClaimExpires(r) PROVE GiveUpInv'
  <2>1. \A x \in Records : rec'[x].state = rec[x].state
    BY <1>24 DEF ClaimExpires, RecordState
  <2>2. QED BY <1>24, <2>1 DEF ClaimExpires
<1>25. ASSUME NEW r \in Records, ClaimOutlived(r) PROVE GiveUpInv'
  <2>1. \A x \in Records : rec'[x].state = rec[x].state
    BY <1>25 DEF ClaimOutlived, RecordState
  <2>2. QED BY <1>25, <2>1 DEF ClaimOutlived
<1>26. CASE UNCHANGED vars
  BY <1>26 DEF vars
<1>27. QED BY <1>1, <1>2, <1>3, <1>4, <1>5, <1>5d, <1>6, <1>7, <1>8, <1>9, <1>10, <1>11, <1>12,
    <1>13, <1>14, <1>15, <1>16, <1>17, <1>18, <1>19, <1>20, <1>21, <1>22, <1>23, <1>24,
    <1>25, <1>26 DEF Next, DrainStep

\* GiveUpIsWritten is an invariant: no completion mark_failed gave up on is
\* forgotten, however many receipts mark_failed failed on and whoever else drained
\* meanwhile, unless a process stopped.
THEOREM GiveUpIsWrittenHolds == Spec => []GiveUpIsWritten
<1>1. Init => WorkerInv /\ GiveUpInv
  BY DEF Init, WorkerInv, GiveUpInv, GiveUpIsWritten, NoBatch
<1>2. TypeOK /\ WorkerInv /\ GiveUpInv /\ [Next]_vars => WorkerInv' /\ GiveUpInv'
  BY WorkerStep, GiveUpStep
<1>3. GiveUpInv => GiveUpIsWritten
  BY DEF GiveUpInv
<1>4. QED BY <1>1, <1>2, <1>3, TypeCorrect, PTL DEF Spec

-----------------------------------------------------------------------------
(* The lease.                                                              *)

\* At most one tenure is the current one, in a handle or in a pending release,
\* and the lease is not free while a handle has it.
LeaseInv ==
    /\ \A v, w \in Workers : hold[v] = "current" /\ hold[w] = "current" => v = w
    /\ \A v, w \in Workers : hold[v] = "current" => rel[w] # "current"
    /\ \A v, w \in Workers : rel[v] = "current" /\ rel[w] = "current" => v = w
    /\ \A w \in Workers : hold[w] = "current" => lease # "free"

\* At most one tenure is the current one.
LEMMA LeaseStep ==
  ASSUME TypeOK, WorkerInv, LeaseInv, [Next]_vars
  PROVE  LeaseInv'
<1>. USE DEF TypeOK, Tenures, WorkerInv, LeaseInv, fence, drain, giveup
<1>1. ASSUME NEW w \in Workers, Acquire(w) PROVE LeaseInv'
  BY <1>1 DEF Acquire, Acquirable, Superseded
<1>2. ASSUME NEW w \in Workers, RenewRefused(w) PROVE LeaseInv'
  BY <1>2 DEF RenewRefused, TenureOver
<1>3. ASSUME NEW w \in Workers, RenewErrs(w) PROVE LeaseInv'
  BY <1>3 DEF RenewErrs, Fault
<1>4. ASSUME NEW w \in Workers, ReleaseLands(w) PROVE LeaseInv'
  BY <1>4 DEF ReleaseLands
<1>5. ASSUME NEW w \in Workers, Fenced(w) PROVE LeaseInv'
  <2>1. PICK records : Return(w, records)
    BY <1>5 DEF Fenced
  <2>2. QED BY <1>5, <2>1 DEF Return, Fenced
<1>5d. ASSUME NEW w \in Workers, DrainDropped(w) PROVE LeaseInv'
  <2>1. PICK records : Return(w, records)
    BY <1>5d DEF DrainDropped
  <2>2. QED BY <1>5d, <2>1 DEF Return, DrainDropped
<1>6. ASSUME NEW w \in Workers, Ready(w) PROVE LeaseInv'
  BY <1>6 DEF Ready, GoTo
<1>7. ASSUME NEW w \in Workers, ClaimBatch(w) PROVE LeaseInv'
  <2>1. hold' = hold /\ rel' = rel /\ lease' = lease BY <1>7 DEF ClaimBatch, GoTo
  <2>2. QED BY <2>1
<1>8. ASSUME NEW w \in Workers, NothingToClaim(w) PROVE LeaseInv'
  BY <1>8 DEF NothingToClaim, Return
<1>9. ASSUME NEW w \in Workers, BeginTurn(w) PROVE LeaseInv'
  BY <1>9 DEF BeginTurn, GoTo
<1>10. ASSUME NEW w \in Workers, EndTurn(w, "ok") PROVE LeaseInv'
  BY <1>10 DEF EndTurn, GoTo
<1>11. ASSUME NEW w \in Workers, EndTurn(w, "failed") PROVE LeaseInv'
  BY <1>11 DEF EndTurn, GoTo
<1>12. ASSUME NEW w \in Workers, Acknowledge(w) PROVE LeaseInv'
  BY <1>12 DEF Acknowledge, GoTo
<1>13. ASSUME NEW w \in Workers, TurnFailed(w) PROVE LeaseInv'
  BY <1>13 DEF TurnFailed, MarkFailed, GoTo
<1>14. ASSUME NEW w \in Workers, AfterFailure(w) PROVE LeaseInv'
  <2>1. CASE Return(w, rec)
    BY <1>14, <2>1 DEF Return
  <2>2. CASE BacksOff(w)
    BY <1>14, <2>2 DEF BacksOff, GoTo
  <2>3. QED BY <1>14, <2>1, <2>2 DEF AfterFailure, BacksOff
<1>15. ASSUME NEW w \in Workers, BackoffOver(w) PROVE LeaseInv'
  BY <1>15 DEF BackoffOver, GoTo
<1>16. ASSUME NEW w \in Workers, ParentBusy(w) PROVE LeaseInv'
  BY <1>16 DEF ParentBusy, Return
<1>17. ASSUME NEW w \in Workers, Crash(w) PROVE LeaseInv'
  BY <1>17 DEF Crash, Fault
<1>18. ASSUME NEW w \in Workers, ClaimFails(w) PROVE LeaseInv'
  <2>1. PICK records : Return(w, records)
    BY <1>18 DEF ClaimFails
  <2>2. QED BY <1>18, <2>1 DEF Return, ClaimFails
<1>19. ASSUME NEW w \in Workers, AcknowledgeFails(w) PROVE LeaseInv'
  <2>1. PICK records : Return(w, records)
    BY <1>19 DEF AcknowledgeFails
  <2>2. QED BY <1>19, <2>1 DEF Return, AcknowledgeFails
<1>20. ASSUME NEW w \in Workers, MarkFailedFails(w) PROVE LeaseInv'
  <2>1. PICK s \in SUBSET InBatch(w) : MarkFailed(w, s)
    BY <1>20 DEF MarkFailedFails
  <2>2. QED BY <1>20, <2>1 DEF MarkFailed, GoTo
<1>21. ASSUME LeaseLapses PROVE LeaseInv'
  BY <1>21 DEF LeaseLapses, Renewed
<1>22. ASSUME RenewalMissed PROVE LeaseInv'
  BY <1>22 DEF RenewalMissed, Renewed, Fault
<1>23. ASSUME NEW r \in Records, Publish(r) PROVE LeaseInv'
  BY <1>23 DEF Publish
<1>24. ASSUME NEW r \in Records, ClaimExpires(r) PROVE LeaseInv'
  BY <1>24 DEF ClaimExpires
<1>25. ASSUME NEW r \in Records, ClaimOutlived(r) PROVE LeaseInv'
  BY <1>25 DEF ClaimOutlived, Fault
<1>26. CASE UNCHANGED vars
  BY <1>26 DEF vars
<1>27. QED BY <1>1, <1>2, <1>3, <1>4, <1>5, <1>5d, <1>6, <1>7, <1>8, <1>9, <1>10, <1>11, <1>12,
    <1>13, <1>14, <1>15, <1>16, <1>17, <1>18, <1>19, <1>20, <1>21, <1>22, <1>23, <1>24,
    <1>25, <1>26 DEF Next, DrainStep

-----------------------------------------------------------------------------
(* Receipts.                                                               *)

\* No two receipts name the same claim, and none a claim still to come; a record
\* that was never published was never claimed; the turn of a batch that waits
\* for its acknowledgement was heard.
ReceiptInv ==
    /\ \A w \in Workers, r \in Records : batch[w][r] <= rec[r].attempts
    /\ \A v, w \in Workers, r \in Records :
          batch[v][r] = batch[w][r] /\ batch[v][r] # 0 => v = w
    /\ \A r \in Records : rec[r].state = "Absent" => rec[r].attempts = 0
    /\ \A r \in Records : rec[r].fresh => rec[r].attempts # 0
    /\ \A w \in Workers, r \in Records : pc[w] = "ok" /\ batch[w][r] # 0 => turns[r] > 0
    /\ \A r \in Records : rec[r].state = "Delivered" => turns[r] > 0

\* No claim is made, no batch grows and no turn ends.
Shrinks ==
    /\ \A r \in Records : /\ rec'[r].attempts = rec[r].attempts
                          /\ rec'[r].fresh => rec[r].fresh
                          /\ rec'[r].state = "Absent" => rec[r].state = "Absent"
                          /\ rec'[r].state = "Delivered" => turns[r] > 0
    /\ \A w \in Workers : batch'[w] \in {batch[w], NoBatch}
    /\ \A w \in Workers : pc'[w] = "ok" => pc[w] = "ok"
    /\ turns' = turns

\* Such a step keeps the receipts apart.
LEMMA ShrinksReceipts ==
  ASSUME TypeOK, ReceiptInv, Shrinks
  PROVE  ReceiptInv'
<1>. USE DEF TypeOK, ReceiptInv, Shrinks, RecordState, NoBatch
<1>1. \A w \in Workers, r \in Records : batch'[w][r] \in {batch[w][r], 0}
  <2>1. ASSUME NEW w \in Workers, NEW r \in Records PROVE batch'[w][r] \in {batch[w][r], 0}
    <3>1. batch'[w] = batch[w] \/ batch'[w] = NoBatch OBVIOUS
    <3>2. NoBatch[r] = 0 OBVIOUS
    <3>3. QED BY ONLY <3>1, <3>2
  <2>2. QED BY <2>1
<1>2. (\A w \in Workers, r \in Records : batch[w][r] <= rec[r].attempts)'
  <2>1. \A r \in Records : rec[r].attempts \in Nat /\ rec'[r].attempts = rec[r].attempts
    OBVIOUS
  <2>. HIDE DEF TypeOK, Shrinks, RecordState, NoBatch
  <2>2. QED BY <1>1, <2>1
<1>3. (\A v, w \in Workers, r \in Records : batch[v][r] = batch[w][r] /\ batch[v][r] # 0 => v = w)'
  BY <1>1
<1>4. QED BY <1>1, <1>2, <1>3

\* The steps that are such a step: all but the claims and the end of a turn.
LEMMA ShrinksStep ==
  ASSUME TypeOK, ReceiptInv, [Next]_vars,
         \A w \in Workers : ~ClaimBatch(w) /\ ~ClaimFails(w) /\ ~EndTurn(w, "ok")
  PROVE  Shrinks
<1>. USE DEF TypeOK, ReceiptInv, Shrinks, fence, drain, giveup
<1>1. ASSUME NEW w \in Workers, Acquire(w) PROVE Shrinks
  BY <1>1 DEF Acquire, Acquirable, Superseded
<1>2. ASSUME NEW w \in Workers, RenewRefused(w) PROVE Shrinks
  BY <1>2 DEF RenewRefused, TenureOver
<1>3. ASSUME NEW w \in Workers, RenewErrs(w) PROVE Shrinks
  BY <1>3 DEF RenewErrs, Fault
<1>4. ASSUME NEW w \in Workers, ReleaseLands(w) PROVE Shrinks
  BY <1>4 DEF ReleaseLands
<1>5. ASSUME NEW w \in Workers, Fenced(w) PROVE Shrinks
  <2>1. PICK s \in SUBSET InBatch(w) : Return(w, Resolved(w, s, Released))
    BY <1>5 DEF Fenced
  <2>2. \A r \in Records : rec'[r] = Resolved(w, s, Released)[r]
    BY <2>1 DEF Return
  <2>3. \A r \in Records :
          /\ rec'[r].attempts = rec[r].attempts
          /\ rec'[r].fresh => rec[r].fresh
          /\ rec'[r].state \in {"Absent", "Delivered"} => rec[r].state = rec'[r].state
    <3>1. \A r \in Records : Released[r] \in {"GaveUp", "Pending"} BY DEF Released
    <3>2. QED BY <2>2, <3>1, ResolvedKeeps
  <2>4. QED BY <2>1, <2>3 DEF Return
<1>5d. ASSUME NEW w \in Workers, DrainDropped(w) PROVE Shrinks
  <2>1. PICK s \in SUBSET InBatch(w) : Return(w, Resolved(w, s, Released))
    BY <1>5d DEF DrainDropped
  <2>2. \A r \in Records : rec'[r] = Resolved(w, s, Released)[r]
    BY <2>1 DEF Return
  <2>3. \A r \in Records :
          /\ rec'[r].attempts = rec[r].attempts
          /\ rec'[r].fresh => rec[r].fresh
          /\ rec'[r].state \in {"Absent", "Delivered"} => rec[r].state = rec'[r].state
    <3>1. \A r \in Records : Released[r] \in {"GaveUp", "Pending"} BY DEF Released
    <3>2. QED BY <2>2, <3>1, ResolvedKeeps
  <2>4. QED BY <2>1, <2>3 DEF Return
<1>6. ASSUME NEW w \in Workers, Ready(w) PROVE Shrinks
  BY <1>6 DEF Ready, GoTo
<1>7. ASSUME NEW w \in Workers, NothingToClaim(w) PROVE Shrinks
  BY <1>7 DEF NothingToClaim, Return
<1>8. ASSUME NEW w \in Workers, BeginTurn(w) PROVE Shrinks
  BY <1>8 DEF BeginTurn, GoTo
<1>9. ASSUME NEW w \in Workers, EndTurn(w, "failed") PROVE Shrinks
  BY <1>9 DEF EndTurn, GoTo
<1>10. ASSUME NEW w \in Workers, Acknowledge(w) PROVE Shrinks
  <2>1. \A r \in Records : rec'[r] = Resolved(w, InBatch(w), Delivered)[r]
    BY <1>10 DEF Acknowledge
  <2>2. QED BY <1>10, <2>1, ResolvedFields DEF Acknowledge, GoTo, Delivered, Owns
<1>11. ASSUME NEW w \in Workers, TurnFailed(w) PROVE Shrinks
  <2>1. MarkFailed(w, InBatch(w)) BY <1>11 DEF TurnFailed
  <2>2. \A r \in Records : rec'[r] = Resolved(w, InBatch(w), Failed)[r]
    BY <2>1 DEF MarkFailed
  <2>3. \A r \in Records :
          /\ rec'[r].attempts = rec[r].attempts
          /\ rec'[r].fresh => rec[r].fresh
          /\ rec'[r].state \in {"Absent", "Delivered"} => rec[r].state = rec'[r].state
    <3>1. \A r \in Records : Failed[r] \in {"GaveUp", "Pending"} BY DEF Failed
    <3>2. QED BY <2>2, <3>1, ResolvedKeeps
  <2>4. QED BY <2>1, <2>3 DEF MarkFailed, GoTo
<1>12. ASSUME NEW w \in Workers, AfterFailure(w) PROVE Shrinks
  BY <1>12 DEF AfterFailure, WriteUndelivered, Return, GoTo
<1>13. ASSUME NEW w \in Workers, BackoffOver(w) PROVE Shrinks
  BY <1>13 DEF BackoffOver, GoTo
<1>14. ASSUME NEW w \in Workers, ParentBusy(w) PROVE Shrinks
  BY <1>14 DEF ParentBusy, Return
<1>15. ASSUME NEW w \in Workers, Crash(w) PROVE Shrinks
  BY <1>15 DEF Crash, Fault
<1>16. ASSUME NEW w \in Workers, AcknowledgeFails(w) PROVE Shrinks
  <2>1. PICK s \in SUBSET InBatch(w), u \in SUBSET InBatch(w) :
          Return(w, [r \in Records |-> CASE r \in s -> Resolved(w, s, Delivered)[r]
                                         [] r \in u -> Resolved(w, u, Released)[r]
                                         [] OTHER   -> rec[r]])
    BY <1>16 DEF AcknowledgeFails
  <2>2. \A r \in Records : rec'[r] \in {Resolved(w, s, Delivered)[r], Resolved(w, u, Released)[r], rec[r]}
    BY <2>1 DEF Return
  <2>3. \A r \in Records :
          /\ rec'[r].attempts = rec[r].attempts
          /\ rec'[r].fresh => rec[r].fresh
          /\ rec'[r].state = "Absent" => rec[r].state = "Absent"
          /\ rec'[r].state = "Delivered" => rec[r].state = "Delivered" \/ batch[w][r] # 0
    <3>1. ASSUME NEW r \in Records
          PROVE  /\ rec'[r].attempts = rec[r].attempts
                 /\ rec'[r].fresh => rec[r].fresh
                 /\ rec'[r].state = "Absent" => rec[r].state = "Absent"
                 /\ rec'[r].state = "Delivered" => rec[r].state = "Delivered" \/ batch[w][r] # 0
      <4>1. Owns(w, r) => batch[w][r] # 0 BY DEF Owns
      <4>2. Delivered[r] = "Delivered" /\ Released[r] = "Pending" BY DEF Delivered, Released
      <4>3. CASE rec'[r] = Resolved(w, s, Delivered)[r] BY <4>1, <4>2, <4>3, ResolvedFields
      <4>4. CASE rec'[r] = Resolved(w, u, Released)[r] BY <4>1, <4>2, <4>4, ResolvedFields
      <4>5. QED BY <2>2, <4>3, <4>4
    <3>2. QED BY <3>1
  <2>4. pc[w] = "ok" BY <1>16 DEF AcknowledgeFails
  <2>5. QED BY <2>1, <2>3, <2>4 DEF Return
<1>17. ASSUME NEW w \in Workers, MarkFailedFails(w) PROVE Shrinks
  <2>1. PICK s \in SUBSET InBatch(w) : MarkFailed(w, s)
    BY <1>17 DEF MarkFailedFails
  <2>2. \A r \in Records : rec'[r] = Resolved(w, s, Failed)[r]
    BY <2>1 DEF MarkFailed
  <2>3. \A r \in Records :
          /\ rec'[r].attempts = rec[r].attempts
          /\ rec'[r].fresh => rec[r].fresh
          /\ rec'[r].state \in {"Absent", "Delivered"} => rec[r].state = rec'[r].state
    <3>1. \A r \in Records : Failed[r] \in {"GaveUp", "Pending"} BY DEF Failed
    <3>2. QED BY <2>2, <3>1, ResolvedFields DEF Owns
  <2>4. QED BY <2>1, <2>3 DEF MarkFailed, GoTo
<1>18. ASSUME LeaseLapses PROVE Shrinks
  BY <1>18 DEF LeaseLapses, Renewed
<1>19. ASSUME RenewalMissed PROVE Shrinks
  BY <1>19 DEF RenewalMissed, Renewed, Fault
<1>20. ASSUME NEW r \in Records, Publish(r) PROVE Shrinks
  BY <1>20 DEF Publish, RecordState
<1>21. ASSUME NEW r \in Records, ClaimExpires(r) PROVE Shrinks
  BY <1>21 DEF ClaimExpires, RecordState
<1>22. ASSUME NEW r \in Records, ClaimOutlived(r) PROVE Shrinks
  BY <1>22 DEF ClaimOutlived, RecordState
<1>23. CASE UNCHANGED vars
  BY <1>23 DEF vars
<1>24. QED BY <1>1, <1>2, <1>3, <1>4, <1>5, <1>5d, <1>6, <1>7, <1>8, <1>9, <1>10, <1>11, <1>12,
    <1>13, <1>14, <1>15, <1>16, <1>17, <1>18, <1>19, <1>20, <1>21, <1>22, <1>23 DEF Next,
    DrainStep

\* A claim makes a receipt of its own.
LEMMA ClaimReceipts ==
  ASSUME TypeOK, WorkerInv, ReceiptInv, NEW w \in Workers, ClaimBatch(w)
  PROVE  ReceiptInv'
<1>1. PICK s \in Batches \ {{}} :
        /\ rec' = Claimed(s)
        /\ batch' = [batch EXCEPT ![w] = [r \in Records |-> IF r \in s THEN rec[r].attempts + 1
                                                             ELSE 0]]
  BY DEF ClaimBatch
<1>2. ASSUME NEW r \in Records
      PROVE  /\ rec[r].attempts \in Nat /\ rec'[r].state = rec[r].state
             /\ r \in s => /\ rec[r].state = "Pending" /\ rec'[r].attempts = rec[r].attempts + 1
                           /\ batch'[w][r] = rec[r].attempts + 1
             /\ r \notin s => rec'[r] = rec[r] /\ batch'[w][r] = 0
             /\ \A x \in Workers \ {w} : batch'[x][r] = batch[x][r]
             /\ \A x \in Workers : batch[x][r] \in Nat
  BY <1>1, ClaimedFields DEF TypeOK, RecordState, Batches, Claimable
<1>3. turns' = turns /\ \A x \in Workers : pc'[x] = "ok" => pc[x] = "ok" /\ x # w
  BY DEF ClaimBatch, GoTo, TypeOK
<1>. USE DEF ReceiptInv
<1>4. (\A x \in Workers, r \in Records : batch[x][r] <= rec[r].attempts)'
  BY <1>2
<1>5. (\A v, x \in Workers, r \in Records : batch[v][r] = batch[x][r] /\ batch[v][r] # 0 => v = x)'
  BY <1>2
<1>6. (\A r \in Records : /\ rec[r].state = "Absent" => rec[r].attempts = 0
                          /\ rec[r].fresh => rec[r].attempts # 0
                          /\ rec[r].state = "Delivered" => turns[r] > 0)'
  BY <1>2, <1>3
<1>7. (\A x \in Workers, r \in Records : pc[x] = "ok" /\ batch[x][r] # 0 => turns[r] > 0)'
  BY <1>2, <1>3
<1>8. QED BY <1>4, <1>5, <1>6, <1>7

\* A claim that fails leaves no receipt.
LEMMA ClaimFailsReceipts ==
  ASSUME TypeOK, WorkerInv, ReceiptInv, NEW w \in Workers, ClaimFails(w)
  PROVE  ReceiptInv'
<1>1. PICK s \in UNION {SUBSET b : b \in Batches} : Return(w, Claimed(s))
  BY DEF ClaimFails
<1>2. ASSUME NEW r \in Records
      PROVE  /\ rec[r].attempts \in Nat /\ rec'[r].state = rec[r].state
             /\ r \in s => rec[r].state = "Pending" /\ rec'[r].attempts = rec[r].attempts + 1
             /\ r \notin s => rec'[r] = rec[r]
             /\ \A x \in Workers : batch'[x][r] = IF x = w THEN 0 ELSE batch[x][r]
             /\ \A x \in Workers : batch[x][r] \in Nat
  BY <1>1, ClaimedFields DEF Return, TypeOK, RecordState, Batches, Claimable, NoBatch
<1>3. turns' = turns /\ \A x \in Workers : pc'[x] = "ok" => pc[x] = "ok"
  BY <1>1 DEF Return, TypeOK
<1>. USE DEF ReceiptInv
<1>4. (\A x \in Workers, r \in Records : batch[x][r] <= rec[r].attempts)'
  BY <1>2
<1>5. (\A v, x \in Workers, r \in Records : batch[v][r] = batch[x][r] /\ batch[v][r] # 0 => v = x)'
  BY <1>2
<1>6. (\A r \in Records : /\ rec[r].state = "Absent" => rec[r].attempts = 0
                          /\ rec[r].fresh => rec[r].attempts # 0
                          /\ rec[r].state = "Delivered" => turns[r] > 0)'
  BY <1>2, <1>3
<1>7. (\A x \in Workers, r \in Records : pc[x] = "ok" /\ batch[x][r] # 0 => turns[r] > 0)'
  BY <1>2, <1>3
<1>8. QED BY <1>4, <1>5, <1>6, <1>7

\* Every step keeps the receipts apart.
LEMMA ReceiptStep ==
  ASSUME TypeOK, WorkerInv, ReceiptInv, [Next]_vars
  PROVE  ReceiptInv'
<1>1. ASSUME NEW w \in Workers, EndTurn(w, "ok") PROVE ReceiptInv'
  BY <1>1 DEF EndTurn, GoTo, InBatch, ReceiptInv, TypeOK
<1>2. QED BY <1>1, ShrinksStep, ShrinksReceipts, ClaimReceipts, ClaimFailsReceipts

-----------------------------------------------------------------------------
(* Doomed drains.                                                          *)

\* The drains that will end at the fence: their tenure is over or was refused.
Doomed == {w \in Workers : pc[w] # "idle" /\ (hold[w] = "lost" \/ ~adm[w] \/ lease = "lapsed")}

\* The drains that will end at the fence only get fewer, unless a renewal errs or
\* is missed.
LEMMA DoomedShrinks ==
  ASSUME TypeOK, WorkerInv, LeaseInv, [Next]_vars,
         ~RenewalMissed, \A w \in Workers : ~RenewErrs(w)
  PROVE  Doomed' \subseteq Doomed
<1>. USE DEF TypeOK, Tenures, WorkerInv, LeaseInv, Doomed, fence, drain, giveup
<1>1. ASSUME NEW w \in Workers, Acquire(w) PROVE Doomed' \subseteq Doomed
  BY <1>1 DEF Acquire, Acquirable, Superseded
<1>2. ASSUME NEW w \in Workers, RenewRefused(w) PROVE Doomed' \subseteq Doomed
  BY <1>2 DEF RenewRefused, TenureOver
<1>3. ASSUME NEW w \in Workers, ReleaseLands(w) PROVE Doomed' \subseteq Doomed
  BY <1>3 DEF ReleaseLands
<1>4. ASSUME NEW w \in Workers, Fenced(w) PROVE Doomed' \subseteq Doomed
  <2>1. PICK records : Return(w, records)
    BY <1>4 DEF Fenced
  <2>2. QED BY <1>4, <2>1 DEF Return, Fenced
<1>4d. ASSUME NEW w \in Workers, DrainDropped(w) PROVE Doomed' \subseteq Doomed
  <2>1. PICK records : Return(w, records)
    BY <1>4d DEF DrainDropped
  <2>2. QED BY <1>4d, <2>1 DEF Return, DrainDropped
<1>5. ASSUME NEW w \in Workers, Ready(w) PROVE Doomed' \subseteq Doomed
  BY <1>5 DEF Ready, GoTo
<1>6. ASSUME NEW w \in Workers, ClaimBatch(w) PROVE Doomed' \subseteq Doomed
  BY <1>6 DEF ClaimBatch, Batches, Claimed, Claimable, GoTo
<1>7. ASSUME NEW w \in Workers, NothingToClaim(w) PROVE Doomed' \subseteq Doomed
  BY <1>7 DEF NothingToClaim, Return
<1>8. ASSUME NEW w \in Workers, BeginTurn(w) PROVE Doomed' \subseteq Doomed
  BY <1>8 DEF BeginTurn, GoTo
<1>9. ASSUME NEW w \in Workers, EndTurn(w, "ok") PROVE Doomed' \subseteq Doomed
  BY <1>9 DEF EndTurn, GoTo
<1>10. ASSUME NEW w \in Workers, EndTurn(w, "failed") PROVE Doomed' \subseteq Doomed
  BY <1>10 DEF EndTurn, GoTo
<1>11. ASSUME NEW w \in Workers, Acknowledge(w) PROVE Doomed' \subseteq Doomed
  BY <1>11 DEF Acknowledge, GoTo
<1>12. ASSUME NEW w \in Workers, TurnFailed(w) PROVE Doomed' \subseteq Doomed
  BY <1>12 DEF TurnFailed, MarkFailed, GoTo
<1>13. ASSUME NEW w \in Workers, AfterFailure(w) PROVE Doomed' \subseteq Doomed
  <2>1. CASE Return(w, rec)
    BY <1>13, <2>1 DEF Return
  <2>2. CASE BacksOff(w)
    BY <1>13, <2>2 DEF BacksOff, GoTo
  <2>3. QED BY <1>13, <2>1, <2>2 DEF AfterFailure, BacksOff
<1>14. ASSUME NEW w \in Workers, BackoffOver(w) PROVE Doomed' \subseteq Doomed
  BY <1>14 DEF BackoffOver, GoTo
<1>15. ASSUME NEW w \in Workers, ParentBusy(w) PROVE Doomed' \subseteq Doomed
  BY <1>15 DEF ParentBusy, Return
<1>16. ASSUME NEW w \in Workers, Crash(w) PROVE Doomed' \subseteq Doomed
  BY <1>16 DEF Crash, Fault
<1>17. ASSUME NEW w \in Workers, ClaimFails(w) PROVE Doomed' \subseteq Doomed
  <2>1. PICK records : Return(w, records)
    BY <1>17 DEF ClaimFails
  <2>2. QED BY <1>17, <2>1 DEF Return, ClaimFails
<1>18. ASSUME NEW w \in Workers, AcknowledgeFails(w) PROVE Doomed' \subseteq Doomed
  <2>1. PICK records : Return(w, records)
    BY <1>18 DEF AcknowledgeFails
  <2>2. QED BY <1>18, <2>1 DEF Return, AcknowledgeFails
<1>19. ASSUME NEW w \in Workers, MarkFailedFails(w) PROVE Doomed' \subseteq Doomed
  <2>1. PICK s \in SUBSET InBatch(w) : MarkFailed(w, s)
    BY <1>19 DEF MarkFailedFails
  <2>2. QED BY <1>19, <2>1 DEF MarkFailed, GoTo
<1>20. ASSUME LeaseLapses PROVE Doomed' \subseteq Doomed
  BY <1>20 DEF LeaseLapses, Renewed
<1>21. ASSUME NEW r \in Records, Publish(r) PROVE Doomed' \subseteq Doomed
  BY <1>21 DEF Publish
<1>22. ASSUME NEW r \in Records, ClaimExpires(r) PROVE Doomed' \subseteq Doomed
  BY <1>22 DEF ClaimExpires
<1>23. ASSUME NEW r \in Records, ClaimOutlived(r) PROVE Doomed' \subseteq Doomed
  BY <1>23 DEF ClaimOutlived, Fault
<1>24. CASE UNCHANGED vars
  BY <1>24 DEF vars
<1>25. QED BY <1>1, <1>2, <1>3, <1>4, <1>4d, <1>5, <1>6, <1>7, <1>8, <1>9, <1>10, <1>11, <1>12,
    <1>13, <1>14, <1>15, <1>16, <1>17, <1>18, <1>19, <1>20, <1>21, <1>22, <1>23, <1>24 DEF
    Next, DrainStep

\* A drain that ends at the fence was doomed.
LEMMA DoomedFenced ==
  ASSUME TypeOK, WorkerInv, LeaseInv, NEW w \in Workers, Fenced(w)
  PROVE  w \in Doomed /\ Doomed' \subseteq Doomed \ {w}
<1>1. PICK records : Return(w, records)
  BY DEF Fenced
<1>2. QED BY <1>1 DEF Fenced, Return, Doomed, TypeOK

\* A renewal that errs or is missed dooms one drain.
LEMMA DoomedGrows ==
  ASSUME TypeOK, WorkerInv, LeaseInv
  PROVE  /\ \A w \in Workers : RenewErrs(w) => Doomed' \subseteq Doomed \cup {w}
         /\ RenewalMissed => \E w \in Workers : Doomed' \subseteq Doomed \cup {w}
<1>1. ASSUME NEW w \in Workers, RenewErrs(w) PROVE Doomed' \subseteq Doomed \cup {w}
  BY <1>1 DEF RenewErrs, Doomed, TypeOK, drain
<1>2. ASSUME RenewalMissed PROVE \E w \in Workers : Doomed' \subseteq Doomed \cup {w}
  <2>1. PICK w \in Workers : hold[w] = "current"
    BY <1>2 DEF RenewalMissed, Renewed
  <2>2. Doomed' \subseteq Doomed \cup {w}
    BY <1>2, <2>1 DEF RenewalMissed, Doomed, WorkerInv, LeaseInv, TypeOK, Tenures, drain
  <2>3. QED BY <2>2
<1>3. QED BY <1>1, <1>2

-----------------------------------------------------------------------------
(* Budgets of turns and attempts.                                          *)

\* The drains about to hold a turn on a claim of r they lost.
Stale(r) == {w \in Workers : /\ pc[w] \in {"turn", "delivering"}
                             /\ batch[w][r] # 0 /\ ~Owns(w, r)}

Heard(r) == \/ rec[r].state = "Delivered"
            \/ \E w \in Workers : pc[w] = "ok" /\ Owns(w, r)

\* A claim of r ended, or will, without anybody marking it.
Lapsed(r) == rec[r].state = "Pending" /\ ~InHand(r)

\* What a step may do to record r.  It costs nothing,
Calm(r) ==
    /\ turns'[r] = turns[r] /\ rec'[r].attempts = rec[r].attempts
    /\ Stale(r)' \subseteq Stale(r)
    /\ Heard(r) => Heard(r)'
    /\ Lapsed(r)' /\ rec[r].attempts >= MaxAttempts => Lapsed(r)

\* the claim that had r is gone,
Loses(r) ==
    /\ turns'[r] = turns[r] /\ rec'[r].attempts = rec[r].attempts
    /\ Stale(r)' \subseteq Stale(r)

\* the drain that had r has its turn without it,
Strands(r) ==
    /\ turns'[r] = turns[r] /\ rec'[r].attempts = rec[r].attempts
    /\ \E w \in Workers : Stale(r)' \subseteq Stale(r) \cup {w}
    /\ ~Heard(r)

\* r is claimed, by a drain or by none,
Claims(r) ==
    /\ turns'[r] = turns[r] /\ rec'[r].attempts = rec[r].attempts + 1
    /\ Stale(r)' \subseteq Stale(r)
    /\ ~Heard(r) /\ Lapsed(r)

\* or a turn delivers r, on the claim that has it or on one that lost it.
Tells(r) ==
    /\ turns'[r] = turns[r] + 1 /\ rec'[r].attempts = rec[r].attempts
    /\ Lapsed(r)' => Lapsed(r)
    /\ \/ Stale(r)' \subseteq Stale(r) /\ ~Heard(r) /\ Heard(r)'
       \/ /\ \E w \in Stale(r) : Stale(r)' \subseteq Stale(r) \ {w}
          /\ Heard(r) => Heard(r)'

\* What costs something is paid for: by the fault of the step or by the end of a
\* drain that an earlier fault doomed.
Paid(r) ==
    \/ /\ faults' = faults /\ Doomed' \subseteq Doomed
       /\ Calm(r) \/ Tells(r) \/ (Claims(r) /\ ~Lapsed(r)')
    \/ /\ faults' = faults /\ \E w \in Doomed : Doomed' \subseteq Doomed \ {w}
       /\ Loses(r)
    \/ /\ faults' = faults + 1 /\ Doomed' \subseteq Doomed
       /\ Loses(r) \/ Strands(r) \/ Claims(r)
    \/ /\ faults' = faults + 1 /\ \E w \in Workers : Doomed' \subseteq Doomed \cup {w}
       /\ Calm(r)

\* Every doomed drain, every stale batch, every turn that was not acknowledged
\* and every claim past the limit has a fault of its own.
DoomInv == IsFiniteSet(Doomed) /\ Cardinality(Doomed) <= faults

TurnBudget(r) ==
    /\ IsFiniteSet(Stale(r))
    /\ turns[r] + Cardinality(Doomed) + Cardinality(Stale(r))
           <= faults + (IF Heard(r) THEN 1 ELSE 0)

AttemptBudget(r) ==
    rec[r].attempts >= MaxAttempts =>
        rec[r].attempts + Cardinality(Doomed) + (IF Lapsed(r) THEN 1 ELSE 0)
            <= MaxAttempts + faults

\* How the size of a finite set changes.
LEMMA SizeChanges ==
  ASSUME NEW S, NEW T, IsFiniteSet(S)
  PROVE  /\ Cardinality(S) \in Nat
         /\ T \subseteq S => /\ IsFiniteSet(T) /\ Cardinality(T) \in Nat
                             /\ Cardinality(T) <= Cardinality(S)
         /\ \A x \in S : T \subseteq S \ {x} => /\ IsFiniteSet(T) /\ Cardinality(T) \in Nat
                                                /\ Cardinality(T) + 1 <= Cardinality(S)
         /\ \A x : T \subseteq S \cup {x} => /\ IsFiniteSet(T) /\ Cardinality(T) \in Nat
                                             /\ Cardinality(T) <= Cardinality(S) + 1
<1>1. Cardinality(S) \in Nat
  BY FS_CardinalityType
<1>2. ASSUME NEW U, IsFiniteSet(U), T \subseteq U
      PROVE  IsFiniteSet(T) /\ Cardinality(T) \in Nat /\ Cardinality(T) <= Cardinality(U)
  BY <1>2, FS_Subset, FS_CardinalityType
<1>3. ASSUME NEW x \in S, T \subseteq S \ {x}
      PROVE  IsFiniteSet(T) /\ Cardinality(T) \in Nat /\ Cardinality(T) + 1 <= Cardinality(S)
  <2>1. IsFiniteSet(S \ {x}) /\ Cardinality(S \ {x}) = Cardinality(S) - 1
    BY FS_RemoveElement
  <2>2. IsFiniteSet(T) /\ Cardinality(T) \in Nat /\ Cardinality(T) <= Cardinality(S \ {x})
    BY <1>2, <1>3, <2>1
  <2>3. QED BY <1>1, <2>1, <2>2
<1>4. ASSUME NEW x, T \subseteq S \cup {x}
      PROVE  IsFiniteSet(T) /\ Cardinality(T) \in Nat /\ Cardinality(T) <= Cardinality(S) + 1
  <2>1. IsFiniteSet(S \cup {x}) /\ Cardinality(S \cup {x}) \in {Cardinality(S), Cardinality(S) + 1}
    BY FS_AddElement
  <2>2. IsFiniteSet(T) /\ Cardinality(T) \in Nat /\ Cardinality(T) <= Cardinality(S \cup {x})
    BY <1>2, <1>4, <2>1
  <2>3. QED BY <1>1, <2>1, <2>2
<1>5. QED BY <1>1, <1>2, <1>3, <1>4

\* A step that is paid for keeps the budget of turns,
LEMMA TurnsPaid ==
  ASSUME TypeOK, DoomInv, NEW r \in Records, TurnBudget(r), Paid(r)
  PROVE  TurnBudget(r)'
<1>1. /\ turns[r] \in Nat /\ faults \in Nat
      /\ IsFiniteSet(Doomed) /\ IsFiniteSet(Stale(r))
      /\ turns[r] + Cardinality(Doomed) + Cardinality(Stale(r)) <= faults + (IF Heard(r) THEN 1 ELSE 0)
  BY FaultsAssumption DEF TypeOK, DoomInv, TurnBudget
<1>2. SUFFICES /\ IsFiniteSet(Stale(r)')
               /\ turns'[r] + Cardinality(Doomed') + Cardinality(Stale(r)')
                    <= faults' + (IF Heard(r)' THEN 1 ELSE 0)
  BY DEF TurnBudget
<1>3. CASE /\ faults' = faults /\ Doomed' \subseteq Doomed
           /\ Calm(r) \/ Tells(r) \/ (Claims(r) /\ ~Lapsed(r)')
  <2>1. /\ Cardinality(Doomed) \in Nat /\ Cardinality(Doomed') \in Nat
        /\ Cardinality(Doomed') <= Cardinality(Doomed)
    BY <1>1, <1>3, SizeChanges
  <2>2. CASE turns'[r] = turns[r] /\ Stale(r)' \subseteq Stale(r) /\ (Heard(r) => Heard(r)')
    <3>1. /\ IsFiniteSet(Stale(r)') /\ Cardinality(Stale(r)) \in Nat /\ Cardinality(Stale(r)') \in Nat
          /\ Cardinality(Stale(r)') <= Cardinality(Stale(r))
      BY <1>1, <2>2, SizeChanges
    <3>2. QED BY <1>1, <1>3, <2>1, <2>2, <3>1
  <2>3. CASE turns'[r] = turns[r] + 1 /\ Stale(r)' \subseteq Stale(r) /\ ~Heard(r) /\ Heard(r)'
    <3>1. /\ IsFiniteSet(Stale(r)') /\ Cardinality(Stale(r)) \in Nat /\ Cardinality(Stale(r)') \in Nat
          /\ Cardinality(Stale(r)') <= Cardinality(Stale(r))
      BY <1>1, <2>3, SizeChanges
    <3>2. QED BY <1>1, <1>3, <2>1, <2>3, <3>1
  <2>4. CASE /\ turns'[r] = turns[r] + 1 /\ (Heard(r) => Heard(r)')
             /\ \E w \in Stale(r) : Stale(r)' \subseteq Stale(r) \ {w}
    <3>1. /\ IsFiniteSet(Stale(r)') /\ Cardinality(Stale(r)) \in Nat /\ Cardinality(Stale(r)') \in Nat
          /\ Cardinality(Stale(r)') + 1 <= Cardinality(Stale(r))
      BY <1>1, <2>4, SizeChanges
    <3>2. QED BY <1>1, <1>3, <2>1, <2>4, <3>1
  <2>5. QED BY <1>3, <2>2, <2>3, <2>4 DEF Calm, Tells, Claims
<1>4. CASE faults' = faults /\ (\E w \in Doomed : Doomed' \subseteq Doomed \ {w}) /\ Loses(r)
  <2>1. /\ Cardinality(Doomed) \in Nat /\ Cardinality(Doomed') \in Nat
        /\ Cardinality(Doomed') + 1 <= Cardinality(Doomed)
    BY <1>1, <1>4, SizeChanges
  <2>2. turns'[r] = turns[r] /\ Stale(r)' \subseteq Stale(r)
    BY <1>4 DEF Loses
  <2>3. /\ IsFiniteSet(Stale(r)') /\ Cardinality(Stale(r)) \in Nat /\ Cardinality(Stale(r)') \in Nat
        /\ Cardinality(Stale(r)') <= Cardinality(Stale(r))
    BY <1>1, <2>2, SizeChanges
  <2>4. QED BY <1>1, <1>4, <2>1, <2>2, <2>3
<1>5. CASE /\ faults' = faults + 1 /\ Doomed' \subseteq Doomed
           /\ Loses(r) \/ Strands(r) \/ Claims(r)
  <2>1. /\ Cardinality(Doomed) \in Nat /\ Cardinality(Doomed') \in Nat
        /\ Cardinality(Doomed') <= Cardinality(Doomed)
    BY <1>1, <1>5, SizeChanges
  <2>2. CASE turns'[r] = turns[r] /\ Stale(r)' \subseteq Stale(r)
    <3>1. /\ IsFiniteSet(Stale(r)') /\ Cardinality(Stale(r)) \in Nat /\ Cardinality(Stale(r)') \in Nat
          /\ Cardinality(Stale(r)') <= Cardinality(Stale(r))
      BY <1>1, <2>2, SizeChanges
    <3>2. QED BY <1>1, <1>5, <2>1, <2>2, <3>1
  <2>3. CASE /\ turns'[r] = turns[r] /\ ~Heard(r)
             /\ \E w \in Workers : Stale(r)' \subseteq Stale(r) \cup {w}
    <3>1. /\ IsFiniteSet(Stale(r)') /\ Cardinality(Stale(r)) \in Nat /\ Cardinality(Stale(r)') \in Nat
          /\ Cardinality(Stale(r)') <= Cardinality(Stale(r)) + 1
      BY <1>1, <2>3, SizeChanges
    <3>2. QED BY <1>1, <1>5, <2>1, <2>3, <3>1
  <2>4. QED BY <1>5, <2>2, <2>3 DEF Loses, Strands, Claims
<1>6. CASE /\ faults' = faults + 1 /\ \E w \in Workers : Doomed' \subseteq Doomed \cup {w}
           /\ Calm(r)
  <2>1. /\ Cardinality(Doomed) \in Nat /\ Cardinality(Doomed') \in Nat
        /\ Cardinality(Doomed') <= Cardinality(Doomed) + 1
    BY <1>1, <1>6, SizeChanges
  <2>2. turns'[r] = turns[r] /\ Stale(r)' \subseteq Stale(r) /\ (Heard(r) => Heard(r)')
    BY <1>6 DEF Calm
  <2>3. /\ IsFiniteSet(Stale(r)') /\ Cardinality(Stale(r)) \in Nat /\ Cardinality(Stale(r)') \in Nat
        /\ Cardinality(Stale(r)') <= Cardinality(Stale(r))
    BY <1>1, <2>2, SizeChanges
  <2>4. QED BY <1>1, <1>6, <2>1, <2>2, <2>3
<1>7. QED BY <1>3, <1>4, <1>5, <1>6 DEF Paid

\* and the budget of attempts.
LEMMA AttemptsPaid ==
  ASSUME TypeOK, DoomInv, NEW r \in Records, AttemptBudget(r), Paid(r)
  PROVE  AttemptBudget(r)'
<1>1. /\ rec[r].attempts \in Nat /\ faults \in Nat /\ MaxAttempts \in Nat
      /\ IsFiniteSet(Doomed) /\ Cardinality(Doomed) <= faults
      /\ rec[r].attempts >= MaxAttempts =>
             rec[r].attempts + Cardinality(Doomed) + (IF Lapsed(r) THEN 1 ELSE 0)
                 <= MaxAttempts + faults
  BY FaultsAssumption, AttemptsAssumption DEF TypeOK, RecordState, DoomInv, AttemptBudget
<1>2. SUFFICES rec'[r].attempts >= MaxAttempts =>
                   rec'[r].attempts + Cardinality(Doomed') + (IF Lapsed(r)' THEN 1 ELSE 0)
                       <= MaxAttempts + faults'
  BY DEF AttemptBudget
<1>3. CASE /\ faults' = faults /\ Doomed' \subseteq Doomed
           /\ Calm(r) \/ Tells(r) \/ (Claims(r) /\ ~Lapsed(r)')
  <2>1. /\ Cardinality(Doomed) \in Nat /\ Cardinality(Doomed') \in Nat
        /\ Cardinality(Doomed') <= Cardinality(Doomed)
    BY <1>1, <1>3, SizeChanges
  <2>2. CASE Calm(r) BY <1>1, <1>3, <2>1, <2>2 DEF Calm
  <2>3. CASE Tells(r) BY <1>1, <1>3, <2>1, <2>3 DEF Tells
  <2>4. CASE Claims(r) /\ ~Lapsed(r)' BY <1>1, <1>3, <2>1, <2>4 DEF Claims
  <2>5. QED BY <1>3, <2>2, <2>3, <2>4
<1>4. CASE faults' = faults /\ (\E w \in Doomed : Doomed' \subseteq Doomed \ {w}) /\ Loses(r)
  <2>1. /\ Cardinality(Doomed) \in Nat /\ Cardinality(Doomed') \in Nat
        /\ Cardinality(Doomed') + 1 <= Cardinality(Doomed)
    BY <1>1, <1>4, SizeChanges
  <2>2. QED BY <1>1, <1>4, <2>1 DEF Loses
<1>5. CASE /\ faults' = faults + 1 /\ Doomed' \subseteq Doomed
           /\ Loses(r) \/ Strands(r) \/ Claims(r)
  <2>1. /\ Cardinality(Doomed) \in Nat /\ Cardinality(Doomed') \in Nat
        /\ Cardinality(Doomed') <= Cardinality(Doomed)
    BY <1>1, <1>5, SizeChanges
  <2>2. CASE rec'[r].attempts = rec[r].attempts BY <1>1, <1>5, <2>1, <2>2
  <2>3. CASE Claims(r) BY <1>1, <1>5, <2>1, <2>3 DEF Claims
  <2>4. QED BY <1>5, <2>2, <2>3 DEF Loses, Strands
<1>6. CASE /\ faults' = faults + 1 /\ \E w \in Workers : Doomed' \subseteq Doomed \cup {w}
           /\ Calm(r)
  <2>1. /\ Cardinality(Doomed) \in Nat /\ Cardinality(Doomed') \in Nat
        /\ Cardinality(Doomed') <= Cardinality(Doomed) + 1
    BY <1>1, <1>6, SizeChanges
  <2>2. QED BY <1>1, <1>6, <2>1 DEF Calm
<1>7. QED BY <1>3, <1>4, <1>5, <1>6 DEF Paid

-----------------------------------------------------------------------------
(* Every step is paid for.                                                 *)

\* A record whose claims stay where they are costs nothing.
LEMMA CalmFrame ==
  ASSUME NEW r \in Records, rec'[r] = rec[r], turns'[r] = turns[r],
         \A x \in Workers : batch'[x][r] \in {batch[x][r], 0},
         \A x \in Workers : batch'[x][r] # 0 /\ pc'[x] \in {"turn", "delivering"}
                                => pc[x] \in {"turn", "delivering"},
         \A x \in Workers : Owns(x, r) /\ pc[x] # "writing" =>
                                /\ batch'[x][r] = batch[x][r] /\ pc'[x] # "writing"
                                /\ pc[x] = "ok" => pc'[x] = "ok"
  PROVE  Calm(r)
<1>1. Stale(r)' \subseteq Stale(r) BY DEF Stale, Owns
<1>2. Heard(r) => Heard(r)' BY DEF Heard, Owns
<1>3. Lapsed(r)' => Lapsed(r) BY DEF Lapsed, InHand, Owns
<1>4. QED BY <1>1, <1>2, <1>3 DEF Calm

\* One that w alone lets go of may lose its claim.
LEMMA LosesFrame ==
  ASSUME NEW r \in Records, NEW w \in Workers,
         rec'[r].attempts = rec[r].attempts, turns'[r] = turns[r],
         pc'[w] \notin {"turn", "delivering"},
         \A x \in Workers \ {w} : batch'[x][r] = batch[x][r] /\ pc'[x] = pc[x],
         \A x \in Workers \ {w} : Owns(x, r) => rec'[r] = rec[r]
  PROVE  Loses(r)
<1>1. Stale(r)' \subseteq Stale(r) BY DEF Stale, Owns
<1>2. QED BY <1>1 DEF Loses

\* A receipt that owns its record is the only one.
LEMMA OneOwner ==
  ASSUME ReceiptInv, NEW r \in Records, NEW v \in Workers, NEW w \in Workers,
         Owns(v, r), Owns(w, r)
  PROVE  v = w
BY DEF ReceiptInv, Owns

\* The steps of the lease and those that only move a drain along.
LEMMA CalmSteps ==
  ASSUME TypeOK, WorkerInv, NEW r \in Records,
         \/ \E w \in Workers : \/ Acquire(w) \/ RenewRefused(w) \/ RenewErrs(w) \/ ReleaseLands(w)
                               \/ Ready(w) \/ NothingToClaim(w) \/ BeginTurn(w)
                               \/ EndTurn(w, "failed") \/ AfterFailure(w) \/ BackoffOver(w)
                               \/ ParentBusy(w)
         \/ LeaseLapses \/ RenewalMissed
         \/ UNCHANGED vars
  PROVE  Calm(r)
<1>. DEFINE Still == /\ rec' = rec /\ turns' = turns
                     /\ \A x \in Workers : \/ batch'[x] = batch[x] /\ pc'[x] = pc[x]
                                           \/ batch'[x] = NoBatch /\ ~Owns(x, r)
                                           \/ batch'[x] = NoBatch /\ pc[x] = "writing"
                                           \/ batch'[x] = batch[x] /\ batch[x] = NoBatch
                                           \/ batch'[x] = batch[x] /\ pc[x] = "turn" /\ pc'[x] = "delivering"
                                           \/ batch'[x] = batch[x] /\ pc[x] = "delivering" /\ pc'[x] = "failed"
<1>0. ASSUME NEW x \in Workers, batch[x] = NoBatch PROVE ~Owns(x, r)
  BY <1>0 DEF NoBatch, Owns
<1>1. SUFFICES Still
  <2>1. \A x \in Workers : batch'[x] = NoBatch => batch'[x][r] = 0
    BY DEF NoBatch
  <2>2. QED BY <1>0, <2>1, CalmFrame
<1>. USE DEF TypeOK, WorkerInv, fence, drain, giveup
<1>2. ASSUME NEW w \in Workers, Acquire(w) PROVE Still
  BY <1>2 DEF Acquire, Acquirable, Superseded
<1>3. ASSUME NEW w \in Workers, RenewRefused(w) PROVE Still
  BY <1>3 DEF RenewRefused, TenureOver
<1>4. ASSUME NEW w \in Workers, RenewErrs(w) PROVE Still
  BY <1>4 DEF RenewErrs, Fault
<1>5. ASSUME NEW w \in Workers, ReleaseLands(w) PROVE Still
  BY <1>5 DEF ReleaseLands
<1>6. ASSUME NEW w \in Workers, Ready(w) PROVE Still
  BY <1>6 DEF Ready, GoTo
<1>7. ASSUME NEW w \in Workers, NothingToClaim(w) PROVE Still
  <2>1. ~Owns(w, r) BY <1>7, <1>0 DEF NothingToClaim
  <2>2. QED BY <1>7, <2>1 DEF NothingToClaim, Return
<1>8. ASSUME NEW w \in Workers, BeginTurn(w) PROVE Still
  BY <1>8 DEF BeginTurn, GoTo
<1>9. ASSUME NEW w \in Workers, EndTurn(w, "failed") PROVE Still
  BY <1>9 DEF EndTurn, GoTo
<1>10. ASSUME NEW w \in Workers, AfterFailure(w) PROVE Still
  <2>1. pc[w] = "writing" /\ rec' = rec /\ turns' = turns
    BY <1>10 DEF AfterFailure, Return
  <2>2. CASE Return(w, rec)
    BY <2>1, <2>2 DEF Return
  <2>3. CASE BacksOff(w)
    BY <2>1, <2>3 DEF BacksOff, GoTo
  <2>4. QED BY <1>10, <2>2, <2>3 DEF AfterFailure, BacksOff
<1>11. ASSUME NEW w \in Workers, BackoffOver(w) PROVE Still
  BY <1>11 DEF BackoffOver, GoTo
<1>12. ASSUME NEW w \in Workers, ParentBusy(w) PROVE Still
  <2>1. ~Owns(w, r) BY <1>12, <1>0 DEF ParentBusy
  <2>2. QED BY <1>12, <2>1 DEF ParentBusy, Return
<1>13. ASSUME LeaseLapses PROVE Still
  BY <1>13 DEF LeaseLapses, Renewed
<1>14. ASSUME RenewalMissed PROVE Still
  BY <1>14 DEF RenewalMissed, Renewed, Fault
<1>15. CASE UNCHANGED vars
  BY <1>15 DEF vars
<1>16. QED BY <1>2, <1>3, <1>4, <1>5, <1>6, <1>7, <1>8, <1>9, <1>10, <1>11, <1>12, <1>13,
    <1>14, <1>15

\* The records of a batch resolved by w: only the claim of w is touched.
LEMMA ResolveFrame ==
  ASSUME TypeOK, ReceiptInv, NEW r \in Records, NEW w \in Workers,
         rec'[r].attempts = rec[r].attempts, turns' = turns,
         ~Owns(w, r) => rec'[r] = rec[r],
         pc'[w] \notin {"turn", "delivering"},
         \A x \in Workers \ {w} : batch'[x] = batch[x] /\ pc'[x] = pc[x]
  PROVE  Loses(r)
<1>1. ASSUME NEW x \in Workers \ {w}, Owns(x, r) PROVE rec'[r] = rec[r]
  BY <1>1, OneOwner
<1>2. QED BY <1>1, LosesFrame

\* A drain ends at the fence.
LEMMA FencedLoses ==
  ASSUME TypeOK, ReceiptInv, NEW r \in Records, NEW w \in Workers, Fenced(w)
  PROVE  Loses(r)
<1>1. PICK s \in SUBSET InBatch(w) : Return(w, Resolved(w, s, Released))
  BY DEF Fenced
<1>2. rec'[r] = Resolved(w, s, Released)[r] BY <1>1 DEF Return
<1>3. rec'[r].attempts = rec[r].attempts /\ (~Owns(w, r) => rec'[r] = rec[r])
  BY <1>2, ResolvedFields
<1>4. /\ turns' = turns /\ pc'[w] = "idle"
      /\ \A x \in Workers \ {w} : batch'[x] = batch[x] /\ pc'[x] = pc[x]
  BY <1>1 DEF Return, TypeOK
<1>5. QED BY <1>3, <1>4, ResolveFrame

\* A drain is dropped.
LEMMA DrainDroppedLoses ==
  ASSUME TypeOK, ReceiptInv, NEW r \in Records, NEW w \in Workers, DrainDropped(w)
  PROVE  Loses(r)
<1>1. PICK s \in SUBSET InBatch(w) : Return(w, Resolved(w, s, Released))
  BY DEF DrainDropped
<1>2. rec'[r] = Resolved(w, s, Released)[r] BY <1>1 DEF Return
<1>3. rec'[r].attempts = rec[r].attempts /\ (~Owns(w, r) => rec'[r] = rec[r])
  BY <1>2, ResolvedFields
<1>4. /\ turns' = turns /\ pc'[w] = "idle"
      /\ \A x \in Workers \ {w} : batch'[x] = batch[x] /\ pc'[x] = pc[x]
  BY <1>1 DEF Return, TypeOK
<1>5. QED BY <1>3, <1>4, ResolveFrame

\* A process stops.
LEMMA CrashLoses ==
  ASSUME TypeOK, ReceiptInv, NEW r \in Records, NEW w \in Workers, Crash(w)
  PROVE  Loses(r)
<1>1. /\ rec' = rec /\ turns' = turns /\ pc'[w] = "idle"
      /\ \A x \in Workers \ {w} : batch'[x] = batch[x] /\ pc'[x] = pc[x]
  BY DEF Crash, TypeOK
<1>2. QED BY <1>1, ResolveFrame

\* mark_delivered fails.
LEMMA AcknowledgeFailsLoses ==
  ASSUME TypeOK, ReceiptInv, NEW r \in Records, NEW w \in Workers, AcknowledgeFails(w)
  PROVE  Loses(r)
<1>1. PICK s \in SUBSET InBatch(w), u \in SUBSET InBatch(w) :
        Return(w, [q \in Records |-> CASE q \in s -> Resolved(w, s, Delivered)[q]
                                       [] q \in u -> Resolved(w, u, Released)[q]
                                       [] OTHER   -> rec[q]])
  BY DEF AcknowledgeFails
<1>2. rec'[r] \in {Resolved(w, s, Delivered)[r], Resolved(w, u, Released)[r], rec[r]}
  BY <1>1 DEF Return
<1>3. rec'[r].attempts = rec[r].attempts /\ (~Owns(w, r) => rec'[r] = rec[r])
  BY <1>2, ResolvedFields
<1>4. /\ turns' = turns /\ pc'[w] = "idle"
      /\ \A x \in Workers \ {w} : batch'[x] = batch[x] /\ pc'[x] = pc[x]
  BY <1>1 DEF Return, TypeOK
<1>5. QED BY <1>3, <1>4, ResolveFrame

\* mark_failed fails.
LEMMA MarkFailedFailsLoses ==
  ASSUME TypeOK, ReceiptInv, NEW r \in Records, NEW w \in Workers, MarkFailedFails(w)
  PROVE  Loses(r)
<1>1. PICK s \in SUBSET InBatch(w) : MarkFailed(w, s)
  BY DEF MarkFailedFails
<1>2. rec'[r] = Resolved(w, s, Failed)[r] BY <1>1 DEF MarkFailed
<1>3. rec'[r].attempts = rec[r].attempts /\ (~Owns(w, r) => rec'[r] = rec[r])
  BY <1>2, ResolvedFields
<1>4. /\ turns' = turns /\ pc'[w] = "writing"
      /\ \A x \in Workers \ {w} : batch'[x] = batch[x] /\ pc'[x] = pc[x]
  BY <1>1 DEF MarkFailed, GoTo, TypeOK
<1>5. QED BY <1>3, <1>4, ResolveFrame

\* An acknowledged batch costs nothing: what its receipts own is delivered.
LEMMA AcknowledgeCalm ==
  ASSUME TypeOK, ReceiptInv, NEW r \in Records, NEW w \in Workers, Acknowledge(w)
  PROVE  Calm(r)
<1>1. /\ turns' = turns /\ pc[w] = "ok" /\ pc'[w] = "claim" /\ batch'[w][r] = 0
      /\ rec'[r] = Resolved(w, InBatch(w), Delivered)[r]
      /\ \A x \in Workers \ {w} : batch'[x] = batch[x] /\ pc'[x] = pc[x]
  BY DEF Acknowledge, GoTo, TypeOK, NoBatch
<1>2. CASE Owns(w, r)
  <2>1. r \in InBatch(w) BY <1>2 DEF InBatch, Owns
  <2>2. rec'[r].state = "Delivered" /\ rec'[r].attempts = rec[r].attempts
    BY <1>1, <1>2, <2>1, ResolvedFields DEF Delivered
  <2>3. Loses(r) BY <1>1, <1>2, <2>2, ResolveFrame
  <2>4. QED BY <2>2, <2>3 DEF Calm, Loses, Heard, Lapsed
<1>3. CASE ~Owns(w, r)
  <2>1. rec'[r] = rec[r] BY <1>1, <1>3, ResolvedFields
  <2>2. QED BY <1>1, <1>3, <2>1, CalmFrame
<1>4. QED BY <1>2, <1>3

\* A batch marked as failed costs nothing: what is at its limit is given up.
LEMMA TurnFailedCalm ==
  ASSUME TypeOK, ReceiptInv, NEW r \in Records, NEW w \in Workers, TurnFailed(w)
  PROVE  Calm(r)
<1>1. /\ turns' = turns /\ pc[w] = "failed" /\ pc'[w] = "writing" /\ batch' = batch
      /\ rec'[r] = Resolved(w, InBatch(w), Failed)[r]
      /\ \A x \in Workers \ {w} : pc'[x] = pc[x]
  BY DEF TurnFailed, MarkFailed, GoTo, TypeOK
<1>2. CASE Owns(w, r)
  <2>1. r \in InBatch(w) BY <1>2 DEF InBatch, Owns
  <2>2. rec'[r].state = Failed[r] /\ rec'[r].attempts = rec[r].attempts
    BY <1>1, <1>2, <2>1, ResolvedFields
  <2>3. Loses(r) BY <1>1, <1>2, <2>2, ResolveFrame
  <2>4. ~Heard(r) BY <1>1, <1>2, OneOwner DEF Heard, Owns
  <2>5. Lapsed(r)' => ~(rec[r].attempts >= MaxAttempts) BY <2>2 DEF Lapsed, Failed
  <2>6. QED BY <2>3, <2>4, <2>5 DEF Calm, Loses
<1>3. CASE ~Owns(w, r)
  <2>1. rec'[r] = rec[r] BY <1>1, <1>3, ResolvedFields
  <2>2. QED BY <1>1, <1>3, <2>1, CalmFrame
<1>4. QED BY <1>2, <1>3

\* A record nobody has in hand, about to be claimed.
LEMMA ClaimableLapsed ==
  ASSUME TypeOK, NEW r \in Records, Claimable(r)
  PROVE  Lapsed(r) /\ ~Heard(r) /\ \A x \in Workers : ~Owns(x, r)
BY DEF Claimable, Lapsed, Heard, InHand, Owns, TypeOK, RecordState

\* A claim, by the drain that holds its receipt or by one whose claim failed.
LEMMA ClaimFrame ==
  ASSUME TypeOK, ReceiptInv, NEW r \in Records, NEW w \in Workers, Claimable(r),
         rec'[r].attempts = rec[r].attempts + 1, turns' = turns,
         \A x \in Workers \ {w} : batch'[x] = batch[x] /\ pc'[x] = pc[x],
         pc'[w] = "turn" => Owns(w, r)', pc'[w] # "delivering"
  PROVE  Claims(r)
<1>1. Lapsed(r) /\ ~Heard(r) /\ \A x \in Workers : ~Owns(x, r) BY ClaimableLapsed
<1>2. Stale(r)' \subseteq Stale(r) BY <1>1 DEF Stale
<1>3. QED BY <1>1, <1>2 DEF Claims

\* What the step that claims a batch does to r.
LEMMA ClaimBatchPaid ==
  ASSUME TypeOK, WorkerInv, ReceiptInv, NEW r \in Records, NEW w \in Workers, ClaimBatch(w)
  PROVE  Calm(r) \/ (Claims(r) /\ ~Lapsed(r)')
<1>1. PICK s \in Batches \ {{}} :
        /\ rec' = Claimed(s)
        /\ batch' = [batch EXCEPT ![w] = [q \in Records |-> IF q \in s THEN rec[q].attempts + 1
                                                             ELSE 0]]
  BY DEF ClaimBatch
<1>2. /\ turns' = turns /\ pc[w] = "claim" /\ pc'[w] = "turn"
      /\ batch'[w][r] = IF r \in s THEN rec[r].attempts + 1 ELSE 0
      /\ \A x \in Workers \ {w} : batch'[x] = batch[x] /\ pc'[x] = pc[x]
  BY <1>1 DEF ClaimBatch, GoTo, TypeOK
<1>3. CASE r \in s
  <2>1. Claimable(r) BY <1>1, <1>3 DEF Batches
  <2>2. /\ rec'[r].attempts = rec[r].attempts + 1 /\ rec'[r].fresh
        /\ rec'[r].state = "Pending" /\ rec[r].attempts \in Nat
    BY <1>1, <1>3, <2>1, ClaimedFields DEF Claimable, TypeOK, RecordState
  <2>3. Owns(w, r)' BY <1>2, <1>3, <2>2 DEF Owns
  <2>4. ~Lapsed(r)' BY <1>2, <2>3 DEF Lapsed, InHand
  <2>5. QED BY <1>2, <2>1, <2>2, <2>3, <2>4, ClaimFrame
<1>4. CASE r \notin s
  <2>1. rec'[r] = rec[r] BY <1>1, <1>4, ClaimedFields
  <2>2. ~Owns(w, r) BY <1>2 DEF WorkerInv, NoBatch, Owns
  <2>3. QED BY <1>2, <1>4, <2>1, <2>2, CalmFrame
<1>5. QED BY <1>3, <1>4

\* What a claim that fails does to r.
LEMMA ClaimFailsPaid ==
  ASSUME TypeOK, WorkerInv, ReceiptInv, NEW r \in Records, NEW w \in Workers, ClaimFails(w)
  PROVE  Loses(r) \/ Claims(r)
<1>1. PICK s \in UNION {SUBSET b : b \in Batches} : Return(w, Claimed(s))
  BY DEF ClaimFails
<1>2. /\ turns' = turns /\ rec' = Claimed(s) /\ pc'[w] = "idle"
      /\ \A x \in Workers \ {w} : batch'[x] = batch[x] /\ pc'[x] = pc[x]
  BY <1>1 DEF Return, TypeOK
<1>3. CASE r \in s
  <2>1. Claimable(r) BY <1>1, <1>3 DEF Batches
  <2>2. rec'[r].attempts = rec[r].attempts + 1 BY <1>2, <1>3, ClaimedFields
  <2>3. QED BY <1>2, <2>1, <2>2, ClaimFrame
<1>4. CASE r \notin s
  <2>1. rec'[r] = rec[r] BY <1>2, <1>4, ClaimedFields
  <2>2. QED BY <1>2, <2>1, ResolveFrame
<1>5. QED BY <1>3, <1>4

\* A turn that succeeds.
LEMMA EndTurnPaid ==
  ASSUME TypeOK, ReceiptInv, NEW r \in Records, NEW w \in Workers, EndTurn(w, "ok")
  PROVE  Calm(r) \/ Tells(r)
<1>1. /\ rec' = rec /\ batch' = batch /\ pc[w] = "delivering" /\ pc'[w] = "ok"
      /\ turns'[r] = IF r \in InBatch(w) THEN turns[r] + 1 ELSE turns[r]
      /\ \A x \in Workers \ {w} : pc'[x] = pc[x]
  BY DEF EndTurn, GoTo, TypeOK
<1>2. CASE r \notin InBatch(w)
  <2>1. ~Owns(w, r) BY <1>2 DEF InBatch, Owns
  <2>2. QED BY <1>1, <1>2, <2>1, CalmFrame
<1>3. CASE r \in InBatch(w)
  <2>1. Stale(r)' \subseteq Stale(r) \ {w} BY <1>1 DEF Stale, Owns
  <2>2. Heard(r) => Heard(r)' BY <1>1 DEF Heard, Owns
  <2>3. Lapsed(r)' => Lapsed(r) BY <1>1 DEF Lapsed, InHand, Owns
  <2>4. CASE Owns(w, r)
    <3>1. Heard(r)' BY <1>1, <2>4 DEF Heard, Owns
    <3>2. ~Heard(r) BY <1>1, <2>4, OneOwner DEF Heard, Owns
    <3>3. QED BY <1>1, <1>3, <2>1, <2>3, <3>1, <3>2 DEF Tells
  <2>5. CASE ~Owns(w, r)
    <3>1. w \in Stale(r) BY <1>1, <1>3, <2>5 DEF Stale, InBatch
    <3>2. QED BY <1>1, <1>3, <2>1, <2>2, <2>3, <3>1 DEF Tells
  <2>6. QED BY <2>4, <2>5
<1>4. QED BY <1>2, <1>3

\* The router's side: a record appears, a claim expires.
LEMMA PublishCalm ==
  ASSUME TypeOK, ReceiptInv, NEW r \in Records, NEW q \in Records, Publish(q)
  PROVE  Calm(r)
<1>1. pc' = pc /\ batch' = batch /\ turns' = turns /\ (r # q => rec'[r] = rec[r])
  BY DEF Publish, giveup, fence, TypeOK
<1>2. CASE r # q BY <1>1, <1>2, CalmFrame DEF Owns
<1>3. CASE r = q
  <2>1. rec[r].state = "Absent" /\ rec[r].attempts = 0 /\ rec'[r].attempts = 0
    BY <1>3 DEF Publish, ReceiptInv, TypeOK, RecordState
  <2>2. \A x \in Workers : batch[x][r] = 0 BY <2>1 DEF ReceiptInv, TypeOK
  <2>3. Stale(r)' \subseteq Stale(r) BY <1>1, <2>2 DEF Stale
  <2>4. ~Heard(r) BY <2>1 DEF Heard, Owns
  <2>5. QED BY <1>1, <2>1, <2>3, <2>4, AttemptsAssumption DEF Calm
<1>4. QED BY <1>2, <1>3

LEMMA ExpireCalm ==
  ASSUME TypeOK, ReceiptInv, NEW r \in Records, NEW q \in Records, ClaimExpires(q)
  PROVE  Calm(r)
<1>1. pc' = pc /\ batch' = batch /\ turns' = turns /\ (r # q => rec'[r] = rec[r])
  BY DEF ClaimExpires, giveup, fence, TypeOK
<1>2. CASE r # q BY <1>1, <1>2, CalmFrame DEF Owns
<1>3. CASE r = q
  <2>1. ~InHand(r) /\ rec'[r].attempts = rec[r].attempts /\ rec'[r].state = rec[r].state
    BY <1>3 DEF ClaimExpires, TypeOK, RecordState
  <2>2. Stale(r)' \subseteq Stale(r) BY <1>1, <2>1 DEF Stale, InHand
  <2>3. Heard(r) => Heard(r)' BY <2>1 DEF Heard, InHand
  <2>4. Lapsed(r)' => Lapsed(r) BY <2>1 DEF Lapsed
  <2>5. QED BY <1>1, <2>1, <2>2, <2>3, <2>4 DEF Calm
<1>4. QED BY <1>2, <1>3

\* A claim expires under the drain that has it: its batch may be stale now.
LEMMA OutlivedPaid ==
  ASSUME TypeOK, ReceiptInv, NEW r \in Records, NEW q \in Records, ClaimOutlived(q)
  PROVE  Loses(r) \/ Strands(r)
<1>1. pc' = pc /\ batch' = batch /\ turns' = turns /\ (r # q => rec'[r] = rec[r])
  BY DEF ClaimOutlived, giveup, fence, TypeOK
<1>2. CASE r # q
  <2>1. Calm(r) BY <1>1, <1>2, CalmFrame DEF Owns
  <2>2. QED BY <2>1 DEF Calm, Loses
<1>3. CASE r = q
  <2>1. rec'[r].attempts = rec[r].attempts
    BY <1>3 DEF ClaimOutlived, TypeOK, RecordState
  <2>2. PICK w \in Workers : Owns(w, r) BY <1>3 DEF ClaimOutlived, InHand
  <2>3. \A x \in Workers \ {w} : ~Owns(x, r) BY <2>2, OneOwner
  <2>4. CASE pc[w] = "ok" \/ pc[w] \notin {"turn", "delivering"}
    BY <1>1, <2>1, <2>3, <2>4, LosesFrame
  <2>5. CASE pc[w] \in {"turn", "delivering"}
    <3>1. ~Heard(r) BY <2>2, <2>3, <2>5 DEF Heard, Owns
    <3>2. Stale(r)' \subseteq Stale(r) \cup {w} BY <1>1, <2>3 DEF Stale
    <3>3. QED BY <1>1, <2>1, <3>1, <3>2 DEF Strands
  <2>6. QED BY <2>4, <2>5
<1>4. QED BY <1>2, <1>3

\* Every step is paid for.
LEMMA PaidStep ==
  ASSUME TypeOK, WorkerInv, LeaseInv, ReceiptInv, NEW r \in Records, [Next]_vars
  PROVE  Paid(r)
<1>1. ASSUME NEW w \in Workers, RenewErrs(w) PROVE Paid(r)
  <2>1. faults' = faults + 1 BY <1>1 DEF RenewErrs, Fault
  <2>2. QED BY <1>1, <2>1, CalmSteps, DoomedGrows DEF Paid
<1>2. CASE RenewalMissed
  <2>1. faults' = faults + 1 BY <1>2 DEF RenewalMissed, Fault
  <2>2. QED BY <1>2, <2>1, CalmSteps, DoomedGrows DEF Paid
<1>3. SUFFICES ASSUME ~RenewalMissed, \A w \in Workers : ~RenewErrs(w)
               PROVE  Paid(r)
  BY <1>1, <1>2
<1>4. Doomed' \subseteq Doomed
  BY <1>3, DoomedShrinks
<1>5. ASSUME NEW w \in Workers, Acquire(w) PROVE Paid(r)
  <2>1. faults' = faults BY <1>5 DEF Acquire
  <2>2. QED BY <1>4, <1>5, <2>1, CalmSteps DEF Paid
<1>6. ASSUME NEW w \in Workers, RenewRefused(w) PROVE Paid(r)
  <2>1. faults' = faults BY <1>6 DEF RenewRefused
  <2>2. QED BY <1>4, <1>6, <2>1, CalmSteps DEF Paid
<1>7. ASSUME NEW w \in Workers, ReleaseLands(w) PROVE Paid(r)
  <2>1. faults' = faults BY <1>7 DEF ReleaseLands
  <2>2. QED BY <1>4, <1>7, <2>1, CalmSteps DEF Paid
<1>8. ASSUME NEW w \in Workers, Fenced(w) PROVE Paid(r)
  <2>1. faults' = faults BY <1>8 DEF Fenced
  <2>2. QED BY <1>4, <1>8, <2>1, FencedLoses, DoomedFenced DEF Paid
<1>8d. ASSUME NEW w \in Workers, DrainDropped(w) PROVE Paid(r)
  <2>1. faults' = faults + 1 BY <1>8d DEF DrainDropped, Fault
  <2>2. QED BY <1>4, <1>8d, <2>1, DrainDroppedLoses DEF Paid
<1>9. ASSUME NEW w \in Workers, Ready(w) PROVE Paid(r)
  <2>1. faults' = faults BY <1>9 DEF Ready
  <2>2. QED BY <1>4, <1>9, <2>1, CalmSteps DEF Paid
<1>10. ASSUME NEW w \in Workers, ClaimBatch(w) PROVE Paid(r)
  <2>1. faults' = faults BY <1>10 DEF ClaimBatch
  <2>2. QED BY <1>4, <1>10, <2>1, ClaimBatchPaid DEF Paid
<1>11. ASSUME NEW w \in Workers, NothingToClaim(w) PROVE Paid(r)
  <2>1. faults' = faults BY <1>11 DEF NothingToClaim
  <2>2. QED BY <1>4, <1>11, <2>1, CalmSteps DEF Paid
<1>12. ASSUME NEW w \in Workers, BeginTurn(w) PROVE Paid(r)
  <2>1. faults' = faults BY <1>12 DEF BeginTurn
  <2>2. QED BY <1>4, <1>12, <2>1, CalmSteps DEF Paid
<1>13. ASSUME NEW w \in Workers, EndTurn(w, "ok") PROVE Paid(r)
  <2>1. faults' = faults BY <1>13 DEF EndTurn
  <2>2. QED BY <1>4, <1>13, <2>1, EndTurnPaid DEF Paid
<1>14. ASSUME NEW w \in Workers, EndTurn(w, "failed") PROVE Paid(r)
  <2>1. faults' = faults BY <1>14 DEF EndTurn
  <2>2. QED BY <1>4, <1>14, <2>1, CalmSteps DEF Paid
<1>15. ASSUME NEW w \in Workers, Acknowledge(w) PROVE Paid(r)
  <2>1. faults' = faults BY <1>15 DEF Acknowledge
  <2>2. QED BY <1>4, <1>15, <2>1, AcknowledgeCalm DEF Paid
<1>16. ASSUME NEW w \in Workers, TurnFailed(w) PROVE Paid(r)
  <2>1. faults' = faults BY <1>16 DEF TurnFailed
  <2>2. QED BY <1>4, <1>16, <2>1, TurnFailedCalm DEF Paid
<1>17. ASSUME NEW w \in Workers, AfterFailure(w) PROVE Paid(r)
  <2>1. faults' = faults BY <1>17 DEF AfterFailure
  <2>2. QED BY <1>4, <1>17, <2>1, CalmSteps DEF Paid
<1>18. ASSUME NEW w \in Workers, BackoffOver(w) PROVE Paid(r)
  <2>1. faults' = faults BY <1>18 DEF BackoffOver
  <2>2. QED BY <1>4, <1>18, <2>1, CalmSteps DEF Paid
<1>19. ASSUME NEW w \in Workers, ParentBusy(w) PROVE Paid(r)
  <2>1. faults' = faults BY <1>19 DEF ParentBusy
  <2>2. QED BY <1>4, <1>19, <2>1, CalmSteps DEF Paid
<1>20. ASSUME NEW w \in Workers, Crash(w) PROVE Paid(r)
  <2>1. faults' = faults + 1 BY <1>20 DEF Crash, Fault
  <2>2. QED BY <1>4, <1>20, <2>1, CrashLoses DEF Paid
<1>21. ASSUME NEW w \in Workers, ClaimFails(w) PROVE Paid(r)
  <2>1. faults' = faults + 1 BY <1>21 DEF ClaimFails, Fault
  <2>2. QED BY <1>4, <1>21, <2>1, ClaimFailsPaid DEF Paid
<1>22. ASSUME NEW w \in Workers, AcknowledgeFails(w) PROVE Paid(r)
  <2>1. faults' = faults + 1 BY <1>22 DEF AcknowledgeFails, Fault
  <2>2. QED BY <1>4, <1>22, <2>1, AcknowledgeFailsLoses DEF Paid
<1>23. ASSUME NEW w \in Workers, MarkFailedFails(w) PROVE Paid(r)
  <2>1. faults' = faults + 1 BY <1>23 DEF MarkFailedFails, Fault
  <2>2. QED BY <1>4, <1>23, <2>1, MarkFailedFailsLoses DEF Paid
<1>24. ASSUME LeaseLapses PROVE Paid(r)
  <2>1. faults' = faults BY <1>24 DEF LeaseLapses
  <2>2. QED BY <1>4, <1>24, <2>1, CalmSteps DEF Paid
<1>25. ASSUME NEW q \in Records, Publish(q) PROVE Paid(r)
  <2>1. faults' = faults BY <1>25 DEF Publish
  <2>2. QED BY <1>4, <1>25, <2>1, PublishCalm DEF Paid
<1>26. ASSUME NEW q \in Records, ClaimExpires(q) PROVE Paid(r)
  <2>1. faults' = faults BY <1>26 DEF ClaimExpires
  <2>2. QED BY <1>4, <1>26, <2>1, ExpireCalm DEF Paid
<1>27. ASSUME NEW q \in Records, ClaimOutlived(q) PROVE Paid(r)
  <2>1. faults' = faults + 1 BY <1>27 DEF ClaimOutlived, Fault
  <2>2. QED BY <1>4, <1>27, <2>1, OutlivedPaid DEF Paid
<1>28. CASE UNCHANGED vars
  <2>1. faults' = faults BY <1>28 DEF vars
  <2>2. QED BY <1>4, <1>28, <2>1, CalmSteps DEF Paid
<1>29. QED BY <1>3, <1>5, <1>6, <1>7, <1>8, <1>8d, <1>9, <1>10, <1>11, <1>12, <1>13, <1>14,
    <1>15, <1>16, <1>17, <1>18, <1>19, <1>20, <1>21, <1>22, <1>23, <1>24, <1>25, <1>26,
    <1>27, <1>28 DEF Next, DrainStep

\* Faults are only ever counted, one at a time.
LEMMA FaultsGrow ==
  ASSUME [Next]_vars
  PROVE  faults' \in {faults, faults + 1}
<1>1. ASSUME NEW w \in Workers, Acquire(w) PROVE faults' \in {faults, faults + 1}
  BY <1>1 DEF Acquire
<1>2. ASSUME NEW w \in Workers, RenewRefused(w) PROVE faults' \in {faults, faults + 1}
  BY <1>2 DEF RenewRefused
<1>3. ASSUME NEW w \in Workers, RenewErrs(w) PROVE faults' \in {faults, faults + 1}
  BY <1>3 DEF RenewErrs, Fault
<1>4. ASSUME NEW w \in Workers, ReleaseLands(w) PROVE faults' \in {faults, faults + 1}
  BY <1>4 DEF ReleaseLands
<1>5. ASSUME NEW w \in Workers, Fenced(w) PROVE faults' \in {faults, faults + 1}
  BY <1>5 DEF Fenced
<1>5d. ASSUME NEW w \in Workers, DrainDropped(w) PROVE faults' \in {faults, faults + 1}
  BY <1>5d DEF DrainDropped, Fault
<1>6. ASSUME NEW w \in Workers, Ready(w) PROVE faults' \in {faults, faults + 1}
  BY <1>6 DEF Ready
<1>7. ASSUME NEW w \in Workers, ClaimBatch(w) PROVE faults' \in {faults, faults + 1}
  BY <1>7 DEF ClaimBatch
<1>8. ASSUME NEW w \in Workers, NothingToClaim(w) PROVE faults' \in {faults, faults + 1}
  BY <1>8 DEF NothingToClaim
<1>9. ASSUME NEW w \in Workers, BeginTurn(w) PROVE faults' \in {faults, faults + 1}
  BY <1>9 DEF BeginTurn
<1>10. ASSUME NEW w \in Workers, EndTurn(w, "ok") PROVE faults' \in {faults, faults + 1}
  BY <1>10 DEF EndTurn
<1>11. ASSUME NEW w \in Workers, EndTurn(w, "failed") PROVE faults' \in {faults, faults + 1}
  BY <1>11 DEF EndTurn
<1>12. ASSUME NEW w \in Workers, Acknowledge(w) PROVE faults' \in {faults, faults + 1}
  BY <1>12 DEF Acknowledge
<1>13. ASSUME NEW w \in Workers, TurnFailed(w) PROVE faults' \in {faults, faults + 1}
  BY <1>13 DEF TurnFailed
<1>14. ASSUME NEW w \in Workers, AfterFailure(w) PROVE faults' \in {faults, faults + 1}
  BY <1>14 DEF AfterFailure
<1>15. ASSUME NEW w \in Workers, BackoffOver(w) PROVE faults' \in {faults, faults + 1}
  BY <1>15 DEF BackoffOver
<1>16. ASSUME NEW w \in Workers, ParentBusy(w) PROVE faults' \in {faults, faults + 1}
  BY <1>16 DEF ParentBusy
<1>17. ASSUME NEW w \in Workers, Crash(w) PROVE faults' \in {faults, faults + 1}
  BY <1>17 DEF Crash, Fault
<1>18. ASSUME NEW w \in Workers, ClaimFails(w) PROVE faults' \in {faults, faults + 1}
  BY <1>18 DEF ClaimFails, Fault
<1>19. ASSUME NEW w \in Workers, AcknowledgeFails(w) PROVE faults' \in {faults, faults + 1}
  BY <1>19 DEF AcknowledgeFails, Fault
<1>20. ASSUME NEW w \in Workers, MarkFailedFails(w) PROVE faults' \in {faults, faults + 1}
  BY <1>20 DEF MarkFailedFails, Fault
<1>21. ASSUME LeaseLapses PROVE faults' \in {faults, faults + 1}
  BY <1>21 DEF LeaseLapses
<1>22. ASSUME RenewalMissed PROVE faults' \in {faults, faults + 1}
  BY <1>22 DEF RenewalMissed, Fault
<1>23. ASSUME NEW r \in Records, Publish(r) PROVE faults' \in {faults, faults + 1}
  BY <1>23 DEF Publish
<1>24. ASSUME NEW r \in Records, ClaimExpires(r) PROVE faults' \in {faults, faults + 1}
  BY <1>24 DEF ClaimExpires
<1>25. ASSUME NEW r \in Records, ClaimOutlived(r) PROVE faults' \in {faults, faults + 1}
  BY <1>25 DEF ClaimOutlived, Fault
<1>26. CASE UNCHANGED vars BY <1>26 DEF vars
<1>27. QED BY <1>1, <1>2, <1>3, <1>4, <1>5, <1>5d, <1>6, <1>7, <1>8, <1>9, <1>10, <1>11, <1>12,
    <1>13, <1>14, <1>15, <1>16, <1>17, <1>18, <1>19, <1>20, <1>21, <1>22, <1>23, <1>24,
    <1>25, <1>26 DEF Next, DrainStep

\* A drain is doomed by a fault of its own, or in the place of one that was.
LEMMA DoomStep ==
  ASSUME TypeOK, WorkerInv, LeaseInv, DoomInv, [Next]_vars
  PROVE  DoomInv'
<1>1. IsFiniteSet(Doomed) /\ Cardinality(Doomed) <= faults /\ faults \in Nat
  BY FaultsAssumption DEF DoomInv, TypeOK
<1>2. SUFFICES IsFiniteSet(Doomed') /\ Cardinality(Doomed') <= faults'
  BY DEF DoomInv
<1>3. CASE RenewalMissed \/ \E w \in Workers : RenewErrs(w)
  <2>1. faults' = faults + 1 BY <1>3 DEF RenewalMissed, RenewErrs, Fault
  <2>2. \E w \in Workers : Doomed' \subseteq Doomed \cup {w} BY <1>3, DoomedGrows
  <2>3. /\ IsFiniteSet(Doomed') /\ Cardinality(Doomed) \in Nat /\ Cardinality(Doomed') \in Nat
        /\ Cardinality(Doomed') <= Cardinality(Doomed) + 1
    BY <1>1, <2>2, SizeChanges
  <2>4. QED BY <1>1, <2>1, <2>3
<1>4. CASE ~RenewalMissed /\ \A w \in Workers : ~RenewErrs(w)
  <2>1. Doomed' \subseteq Doomed BY <1>4, DoomedShrinks
  <2>2. /\ IsFiniteSet(Doomed') /\ Cardinality(Doomed) \in Nat /\ Cardinality(Doomed') \in Nat
        /\ Cardinality(Doomed') <= Cardinality(Doomed)
    BY <1>1, <2>1, SizeChanges
  <2>3. QED BY <1>1, <2>2, FaultsGrow
<1>5. QED BY <1>3, <1>4

\* The inductive invariant of the budgets.
BudgetInv ==
    /\ TypeOK /\ WorkerInv /\ LeaseInv /\ ReceiptInv /\ DoomInv
    /\ \A r \in Records : TurnBudget(r) /\ AttemptBudget(r)

LEMMA BudgetHolds == Spec => []BudgetInv
<1>1. Init => BudgetInv
  <2>. SUFFICES ASSUME Init PROVE BudgetInv
    OBVIOUS
  <2>1. TypeOK BY InitType
  <2>2. WorkerInv BY DEF Init, WorkerInv
  <2>3. LeaseInv BY DEF Init, LeaseInv
  <2>4. ReceiptInv BY DEF Init, ReceiptInv, NoBatch
  <2>5. Doomed = {} /\ \A r \in Records : Stale(r) = {} BY DEF Init, Doomed, Stale
  <2>6. DoomInv BY <2>5, FS_EmptySet DEF DoomInv, Init
  <2>7. ASSUME NEW r \in Records PROVE TurnBudget(r) /\ AttemptBudget(r)
    <3>1. rec[r].attempts = 0 /\ turns[r] = 0 /\ faults = 0 BY DEF Init
    <3>2. IsFiniteSet(Stale(r)) /\ Cardinality(Stale(r)) = 0 /\ Cardinality(Doomed) = 0
      BY <2>5, FS_EmptySet
    <3>3. QED BY <3>1, <3>2, AttemptsAssumption DEF TurnBudget, AttemptBudget
  <2>8. QED BY <2>1, <2>2, <2>3, <2>4, <2>6, <2>7 DEF BudgetInv
<1>2. ASSUME BudgetInv, [Next]_vars PROVE BudgetInv'
  <2>1. TypeOK' /\ WorkerInv' /\ LeaseInv' /\ ReceiptInv' /\ DoomInv'
    BY <1>2, TypeStep, WorkerStep, LeaseStep, ReceiptStep, DoomStep DEF BudgetInv
  <2>2. ASSUME NEW r \in Records PROVE TurnBudget(r)' /\ AttemptBudget(r)'
    <3>1. Paid(r) BY <1>2, PaidStep DEF BudgetInv
    <3>2. QED BY <1>2, <3>1, TurnsPaid, AttemptsPaid DEF BudgetInv
  <2>3. QED BY <2>1, <2>2 DEF BudgetInv
<1>3. QED BY <1>1, <1>2, PTL DEF Spec

\* A second turn for a completion, and a second turn of a thread at the same time,
\* are each paid for by a fault of the drain's run: the claims, the receipts and
\* the fence of CompletionDelivery::drain let nothing else through.
THEOREM ExtraTurnsExplainedHolds == Spec => []ExtraTurnsExplained
<1>1. ASSUME BudgetInv PROVE DuplicatesExplained
  <2>1. ASSUME NEW r \in Records
        PROVE  /\ rec[r].state = "Delivered" => turns[r] > 0
               /\ turns[r] <= faults + (IF Heard(r) THEN 1 ELSE 0)
    <3>1. /\ Cardinality(Doomed) \in Nat /\ Cardinality(Stale(r)) \in Nat
          /\ turns[r] + Cardinality(Doomed) + Cardinality(Stale(r))
                 <= faults + (IF Heard(r) THEN 1 ELSE 0)
          /\ turns[r] \in Nat /\ faults \in Nat
      BY <1>1, FS_CardinalityType, FaultsAssumption DEF BudgetInv, DoomInv, TurnBudget, TypeOK
    <3>2. turns[r] <= faults + (IF Heard(r) THEN 1 ELSE 0) BY <3>1
    <3>3. rec[r].state = "Delivered" => turns[r] > 0 BY <1>1 DEF BudgetInv, ReceiptInv
    <3>4. QED BY <3>2, <3>3
  <2>2. QED BY <2>1 DEF DuplicatesExplained, Heard
<1>2. ASSUME BudgetInv PROVE OverlapNeedsLapse
  <2>1. SUFFICES ASSUME NEW v \in Workers, NEW w \in Workers, v # w,
                        pc[v] = "delivering", pc[w] = "delivering"
                 PROVE  faults > 0
    BY DEF OverlapNeedsLapse
  <2>2. hold[v] \in {"current", "lost"} /\ hold[w] \in {"current", "lost"}
    BY <1>2, <2>1 DEF BudgetInv, WorkerInv, TypeOK, Tenures
  <2>3. hold[v] = "lost" \/ hold[w] = "lost"
    BY <1>2, <2>1, <2>2 DEF BudgetInv, LeaseInv
  <2>4. Doomed # {} BY <2>1, <2>3 DEF Doomed
  <2>5. Cardinality(Doomed) \in Nat /\ Cardinality(Doomed) # 0
    BY <1>2, <2>4, FS_EmptySet, FS_CardinalityType DEF BudgetInv, DoomInv
  <2>6. QED BY <1>2, <2>5, FaultsAssumption DEF BudgetInv, DoomInv, TypeOK
<1>3. BudgetInv => ExtraTurnsExplained
  BY <1>1, <1>2 DEF ExtraTurnsExplained
<1>4. QED BY <1>3, BudgetHolds, PTL

\* A record is claimed at most MaxAttempts times, and once more for each fault:
\* only CompletionRouter::mark_failed gives up, so a claim that ends without it
\* leaves its attempt counted and the record to be claimed again.
THEOREM AttemptsExplainedHolds == Spec => []AttemptsExplained
<1>1. ASSUME BudgetInv PROVE AttemptsExplained
  <2>1. ASSUME NEW r \in Records PROVE rec[r].attempts <= MaxAttempts + faults
    <3>1. /\ Cardinality(Doomed) \in Nat /\ faults \in Nat /\ MaxAttempts \in Nat
          /\ rec[r].attempts \in Nat /\ AttemptBudget(r)
      BY <1>1, FS_CardinalityType, FaultsAssumption, AttemptsAssumption
         DEF BudgetInv, DoomInv, TypeOK, RecordState
    <3>2. QED BY <3>1 DEF AttemptBudget
  <2>2. QED BY <2>1 DEF AttemptsExplained
<1>2. QED BY <1>1, BudgetHolds, PTL

-----------------------------------------------------------------------------
(* The drains implement CompletionOutbox.                                  *)

\* What a step may do to a record.
Kept(r) == rec'[r] = rec[r] /\ (Held(r)' => Held(r))

Idle(r) == rec[r].state # "Pending" /\ rec'[r].state = rec[r].state

Taken(r) ==
    /\ Claimable(r)
    /\ rec'[r].state = "Pending" /\ rec'[r].fresh /\ rec'[r].attempts = rec[r].attempts + 1

Freed(r) ==
    /\ rec[r].state = "Pending" /\ rec[r].fresh
    /\ rec'[r].state = "Pending" /\ ~rec'[r].fresh /\ rec'[r].attempts = rec[r].attempts

Ended(r) ==
    /\ Held(r)
    /\ \/ rec'[r].state = "Delivered"
       \/ rec'[r].state = "GaveUp" /\ rec[r].attempts >= MaxAttempts

Added(r) ==
    /\ rec[r].state = "Absent" /\ rec'[r].state = "Pending"
    /\ rec'[r].attempts = rec[r].attempts /\ rec'[r].fresh = rec[r].fresh

Moved(r) == Kept(r) \/ Idle(r) \/ Taken(r) \/ Freed(r) \/ Ended(r) \/ Added(r)

\* No receipt is made for a record that does not change.
LEMMA KeptFrame ==
  ASSUME TypeOK, NEW r \in Records, rec'[r] = rec[r],
         \A w \in Workers : batch'[w][r] \in {batch[w][r], 0}
  PROVE  Kept(r)
BY DEF Kept, Held, Owns

\* A receipt resolved gives its record back or settles it.
LEMMA ResolvedMoves ==
  ASSUME TypeOK, NEW w \in Workers, NEW s, NEW how, NEW r \in Records,
         rec'[r] = Resolved(w, s, how)[r],
         how[r] \in {"Pending", "Delivered"} \/ (how[r] = "GaveUp" /\ rec[r].attempts >= MaxAttempts),
         \A x \in Workers : batch'[x][r] \in {batch[x][r], 0}
  PROVE  Moved(r)
<1>1. CASE r \in s /\ Owns(w, r)
  <2>1. rec'[r].state = how[r] /\ rec'[r].attempts = rec[r].attempts /\ ~rec'[r].fresh
    BY <1>1, ResolvedFields
  <2>2. Held(r) /\ rec[r].state = "Pending" /\ rec[r].fresh BY <1>1 DEF Held, Owns
  <2>3. QED BY <2>1, <2>2 DEF Moved, Freed, Ended
<1>2. CASE ~(r \in s /\ Owns(w, r))
  <2>1. rec'[r] = rec[r] BY <1>2, ResolvedFields
  <2>2. QED BY <2>1, KeptFrame DEF Moved
<1>3. QED BY <1>1, <1>2

\* What a turn that failed makes of a record.
LEMMA FailedMoves ==
  ASSUME TypeOK, NEW r \in Records
  PROVE  Failed[r] \in {"Pending", "Delivered"} \/ (Failed[r] = "GaveUp" /\ rec[r].attempts >= MaxAttempts)
BY DEF Failed

\* A drain that returns keeps no receipt.
LEMMA ReturnBatches ==
  ASSUME TypeOK, NEW w \in Workers, NEW records, Return(w, records), NEW r \in Records
  PROVE  /\ \A x \in Workers : batch'[x][r] \in {batch[x][r], 0}
         /\ rec' = records
BY DEF Return, TypeOK, NoBatch

\* The steps that leave the records alone.
LEMMA QuietMoves ==
  ASSUME TypeOK, NEW r \in Records,
         \/ \E w \in Workers : \/ Acquire(w) \/ RenewRefused(w) \/ RenewErrs(w) \/ ReleaseLands(w)
                               \/ Ready(w) \/ NothingToClaim(w) \/ BeginTurn(w)
                               \/ EndTurn(w, "ok") \/ EndTurn(w, "failed") \/ AfterFailure(w)
                               \/ BackoffOver(w) \/ ParentBusy(w) \/ Crash(w)
         \/ LeaseLapses \/ RenewalMissed
         \/ UNCHANGED vars
  PROVE  Moved(r)
<1>1. rec' = rec /\ \A x \in Workers : batch'[x][r] \in {batch[x][r], 0}
  <2>1. ASSUME NEW w \in Workers,
               \/ Acquire(w) \/ RenewRefused(w) \/ RenewErrs(w) \/ ReleaseLands(w)
               \/ Ready(w) \/ BeginTurn(w) \/ EndTurn(w, "ok") \/ EndTurn(w, "failed")
               \/ BackoffOver(w)
        PROVE  rec' = rec /\ batch' = batch
    BY <2>1 DEF Acquire, RenewRefused, RenewErrs, ReleaseLands, Ready, BeginTurn, EndTurn,
                BackoffOver, drain
  <2>2. ASSUME NEW w \in Workers, NothingToClaim(w) \/ ParentBusy(w)
        PROVE  Return(w, rec)
    BY <2>2 DEF NothingToClaim, ParentBusy
  <2>3. ASSUME NEW w \in Workers, AfterFailure(w) \/ Crash(w)
        PROVE  rec' = rec /\ batch' = [batch EXCEPT ![w] = NoBatch]
    BY <2>3 DEF AfterFailure, Crash, Return
  <2>4. ASSUME NEW w \in Workers, batch' = [batch EXCEPT ![w] = NoBatch]
        PROVE  \A x \in Workers : batch'[x][r] \in {batch[x][r], 0}
    BY <2>4 DEF TypeOK, NoBatch
  <2>5. CASE LeaseLapses \/ RenewalMissed \/ UNCHANGED vars
    BY <2>5 DEF LeaseLapses, RenewalMissed, vars, drain
  <2>6. QED BY <2>1, <2>2, <2>3, <2>4, <2>5, ReturnBatches
<1>2. QED BY <1>1, KeptFrame DEF Moved

\* A claim, whole or cut short, takes the records it reached.
LEMMA ClaimMoves ==
  ASSUME TypeOK, NEW r \in Records, NEW w \in Workers, ClaimBatch(w) \/ ClaimFails(w)
  PROVE  Moved(r)
<1>1. CASE ClaimBatch(w)
  <2>1. PICK s \in Batches \ {{}} :
          /\ rec' = Claimed(s)
          /\ batch' = [batch EXCEPT ![w] = [q \in Records |-> IF q \in s THEN rec[q].attempts + 1
                                                               ELSE 0]]
    BY <1>1 DEF ClaimBatch
  <2>2. CASE r \in s
    <3>1. Claimable(r) BY <2>2 DEF Batches
    <3>2. QED BY <2>1, <2>2, <3>1, ClaimedFields DEF Moved, Taken, Claimable
  <2>3. CASE r \notin s
    <3>1. rec'[r] = rec[r] BY <2>1, <2>3, ClaimedFields
    <3>2. \A x \in Workers : batch'[x][r] \in {batch[x][r], 0} BY <2>1, <2>3 DEF TypeOK
    <3>3. QED BY <3>1, <3>2, KeptFrame DEF Moved
  <2>4. QED BY <2>2, <2>3
<1>2. CASE ClaimFails(w)
  <2>1. PICK s \in UNION {SUBSET b : b \in Batches} : Return(w, Claimed(s))
    BY <1>2 DEF ClaimFails
  <2>2. CASE r \in s
    <3>1. Claimable(r) BY <2>2 DEF Batches
    <3>2. QED BY <2>1, <2>2, <3>1, ClaimedFields, ReturnBatches DEF Moved, Taken, Claimable
  <2>3. CASE r \notin s
    <3>1. rec'[r] = rec[r] BY <2>1, <2>3, ClaimedFields, ReturnBatches
    <3>2. QED BY <2>1, <3>1, KeptFrame, ReturnBatches DEF Moved
  <2>4. QED BY <2>2, <2>3
<1>3. QED BY <1>1, <1>2

\* The fence, the acknowledgement and the failed turn resolve receipts.
LEMMA ResolveMoves ==
  ASSUME TypeOK, NEW r \in Records, NEW w \in Workers,
         \/ Fenced(w) \/ DrainDropped(w) \/ Acknowledge(w) \/ AcknowledgeFails(w)
         \/ TurnFailed(w) \/ MarkFailedFails(w)
  PROVE  Moved(r)
<1>1. Released[r] = "Pending" /\ Delivered[r] = "Delivered" BY DEF Released, Delivered
<1>2. CASE Fenced(w) \/ DrainDropped(w)
  <2>1. PICK s : Return(w, Resolved(w, s, Released)) BY <1>2 DEF Fenced, DrainDropped
  <2>2. QED BY <1>1, <2>1, ReturnBatches, ResolvedMoves
<1>3. CASE Acknowledge(w)
  <2>1. /\ rec' = Resolved(w, InBatch(w), Delivered)
        /\ \A x \in Workers : batch'[x][r] \in {batch[x][r], 0}
    BY <1>3 DEF Acknowledge, TypeOK, NoBatch
  <2>2. QED BY <1>1, <2>1, ResolvedMoves
<1>4. CASE AcknowledgeFails(w)
  <2>1. PICK s, u :
          Return(w, [q \in Records |-> CASE q \in s -> Resolved(w, s, Delivered)[q]
                                         [] q \in u -> Resolved(w, u, Released)[q]
                                         [] OTHER   -> rec[q]])
    BY <1>4 DEF AcknowledgeFails
  <2>2. \/ rec'[r] = Resolved(w, s, Delivered)[r]
        \/ rec'[r] = Resolved(w, u, Released)[r]
        \/ rec'[r] = rec[r]
    BY <2>1, ReturnBatches
  <2>3. \A x \in Workers : batch'[x][r] \in {batch[x][r], 0} BY <2>1, ReturnBatches
  <2>4. CASE rec'[r] = Resolved(w, s, Delivered)[r] BY <1>1, <2>3, <2>4, ResolvedMoves
  <2>5. CASE rec'[r] = Resolved(w, u, Released)[r] BY <1>1, <2>3, <2>5, ResolvedMoves
  <2>6. CASE rec'[r] = rec[r] BY <2>3, <2>6, KeptFrame DEF Moved
  <2>7. QED BY <2>2, <2>4, <2>5, <2>6
<1>5. CASE TurnFailed(w) \/ MarkFailedFails(w)
  <2>1. PICK s : MarkFailed(w, s) BY <1>5 DEF TurnFailed, MarkFailedFails
  <2>2. rec' = Resolved(w, s, Failed) /\ batch' = batch BY <2>1 DEF MarkFailed
  <2>3. QED BY <2>2, FailedMoves, ResolvedMoves
<1>6. QED BY <1>2, <1>3, <1>4, <1>5

\* A record is added, or its claim expires.
LEMMA OutsideMoves ==
  ASSUME TypeOK, NEW r \in Records, NEW q \in Records,
         Publish(q) \/ ClaimExpires(q) \/ ClaimOutlived(q)
  PROVE  Moved(r)
<1>1. batch' = batch BY DEF Publish, ClaimExpires, ClaimOutlived
<1>2. CASE r # q
  <2>1. rec'[r] = rec[r] BY <1>2 DEF Publish, ClaimExpires, ClaimOutlived, TypeOK
  <2>2. QED BY <1>1, <2>1, KeptFrame DEF Moved
<1>3. CASE r = q
  <2>1. CASE Publish(q)
    <3>1. /\ rec[r].state = "Absent" /\ rec'[r].state = "Pending"
          /\ rec'[r].attempts = rec[r].attempts /\ rec'[r].fresh = rec[r].fresh
      BY <1>3, <2>1 DEF Publish, TypeOK, RecordState
    <3>2. QED BY <3>1 DEF Moved, Added
  <2>2. CASE ClaimExpires(q) \/ ClaimOutlived(q)
    <3>1. rec[r].fresh BY <1>3, <2>2 DEF ClaimExpires, ClaimOutlived, InHand, Owns
    <3>2. /\ rec'[r].state = rec[r].state /\ ~rec'[r].fresh
          /\ rec'[r].attempts = rec[r].attempts
      BY <1>3, <2>2 DEF ClaimExpires, ClaimOutlived, TypeOK, RecordState
    <3>3. QED BY <3>1, <3>2 DEF Moved, Idle, Freed
  <2>3. QED BY <2>1, <2>2
<1>4. QED BY <1>2, <1>3

\* Every step is one of these moves for every record.
LEMMA MovesStep ==
  ASSUME TypeOK, [Next]_vars, NEW r \in Records
  PROVE  Moved(r)
BY QuietMoves, ClaimMoves, ResolveMoves, OutsideMoves DEF Next, DrainStep

\* Attempts as the outbox counts them.
Looked(n) == IF n < MaxAttempts THEN n ELSE MaxAttempts

\* What the outbox shows of a record, by what it is.
LEMMA EntryForm ==
  ASSUME NEW r \in Records
  PROVE  /\ rec[r].state = "Pending" =>
              Entry(r) = [state |-> "Pending", attempts |-> Looked(rec[r].attempts), claim |-> ClaimOf(r)]
         /\ rec[r].state # "Pending" =>
              Entry(r) = [state |-> rec[r].state, attempts |-> 0, claim |-> "none"]
         /\ ~rec[r].fresh => ClaimOf(r) = "none"
         /\ rec[r].fresh /\ Held(r) => ClaimOf(r) = "held"
         /\ rec[r].fresh /\ ~Held(r) => ClaimOf(r) = "lost"
BY DEF Entry, ClaimOf, Looked

\* The next entry of a record, by what it is then.
LEMMA EntryFormNext ==
  ASSUME NEW r \in Records
  PROVE  /\ rec'[r].state = "Pending" =>
              Entry(r)' = [state |-> "Pending", attempts |-> Looked(rec'[r].attempts),
                           claim |-> ClaimOf(r)']
         /\ rec'[r].state # "Pending" =>
              Entry(r)' = [state |-> rec'[r].state, attempts |-> 0, claim |-> "none"]
         /\ ~rec'[r].fresh => ClaimOf(r)' = "none"
         /\ rec'[r].fresh /\ Held(r)' => ClaimOf(r)' = "held"
         /\ rec'[r].fresh /\ ~Held(r)' => ClaimOf(r)' = "lost"
BY DEF Entry, ClaimOf, Looked

\* One more attempt, as the outbox counts it.
LEMMA LookedNext ==
  ASSUME NEW n \in Nat
  PROVE  /\ Looked(n + 1) = Outbox!Counted(Looked(n))
         /\ n >= MaxAttempts => Looked(n) = MaxAttempts
         /\ Looked(0) = 0
BY AttemptsAssumption DEF Looked, Outbox!Counted

\* Each move of a record is a move of the outbox, or none.
LEMMA MovedRefines ==
  ASSUME TypeOK, ReceiptInv, TypeOK', NEW r \in Records, Moved(r)
  PROVE  Entry(r)' = Entry(r) \/ Outbox!Move(Entry(r), Entry(r)')
<1>1. rec[r].attempts \in Nat /\ rec'[r].attempts \in Nat
  BY DEF TypeOK, RecordState
<1>2. CASE Kept(r)
  <2>1. CASE rec[r].state # "Pending" BY <1>2, <2>1, EntryForm, EntryFormNext DEF Kept
  <2>2. CASE rec[r].state = "Pending" /\ ClaimOf(r)' = ClaimOf(r)
    BY <1>2, <2>2, EntryForm, EntryFormNext DEF Kept
  <2>3. CASE rec[r].state = "Pending" /\ ClaimOf(r)' # ClaimOf(r)
    <3>1. ClaimOf(r) = "held" /\ ClaimOf(r)' = "lost"
      BY <1>2, <2>3, EntryForm, EntryFormNext DEF Kept
    <3>2. Entry(r).claim = "held" /\ Entry(r)' = Outbox!Pending(Entry(r).attempts, "lost")
      BY <1>2, <2>3, <3>1, EntryForm, EntryFormNext DEF Kept, Outbox!Pending
    <3>3. QED BY <3>2 DEF Outbox!Move, Outbox!Lose
  <2>4. QED BY <2>1, <2>2, <2>3
<1>3. CASE Idle(r)
  BY <1>3, EntryForm, EntryFormNext DEF Idle
<1>4. CASE Taken(r)
  <2>1. Entry(r) = Outbox!Pending(Looked(rec[r].attempts), "none")
    BY <1>4, EntryForm DEF Taken, Claimable, Outbox!Pending
  <2>2. ClaimOf(r)' \in {"held", "lost"} BY <1>4, EntryFormNext DEF Taken
  <2>3. Entry(r)' = Outbox!Pending(Looked(rec[r].attempts + 1), ClaimOf(r)')
    BY <1>4, EntryFormNext DEF Taken, Outbox!Pending
  <2>4. Entry(r)' = Outbox!Pending(Outbox!Counted(Looked(rec[r].attempts)), ClaimOf(r)')
    BY <1>1, <2>3, LookedNext
  <2>5. Outbox!Claim(Entry(r), Entry(r)')
    BY <2>1, <2>2, <2>4 DEF Outbox!Claim, Outbox!Pending
  <2>6. QED BY <2>5 DEF Outbox!Move
<1>5. CASE Freed(r)
  <2>1. /\ Entry(r).claim \in {"held", "lost"} /\ Entry(r).attempts = Looked(rec[r].attempts)
    BY <1>5, EntryForm DEF Freed
  <2>2. Entry(r)' = Outbox!Pending(Looked(rec[r].attempts), "none")
    BY <1>5, EntryFormNext DEF Freed, Outbox!Pending
  <2>3. QED BY <2>1, <2>2 DEF Outbox!Move, Outbox!GiveBack
<1>6. CASE Ended(r)
  <2>1. rec[r].state = "Pending" /\ rec[r].fresh BY <1>6 DEF Ended, Held, Owns
  <2>2. Entry(r).claim = "held" /\ Entry(r).attempts = Looked(rec[r].attempts)
    BY <1>6, <2>1, EntryForm DEF Ended
  <2>3. CASE rec'[r].state = "Delivered"
    <3>1. Entry(r)' = Outbox!Settled("Delivered") BY <2>3, EntryFormNext DEF Outbox!Settled
    <3>2. QED BY <2>2, <3>1 DEF Outbox!Move, Outbox!Deliver
  <2>4. CASE rec'[r].state = "GaveUp" /\ rec[r].attempts >= MaxAttempts
    <3>1. Entry(r)' = Outbox!Settled("GaveUp") BY <2>4, EntryFormNext DEF Outbox!Settled
    <3>2. Entry(r).attempts = MaxAttempts BY <1>1, <2>2, <2>4, LookedNext
    <3>3. QED BY <2>2, <3>1, <3>2 DEF Outbox!Move, Outbox!GiveUp
  <2>5. QED BY <1>6, <2>3, <2>4 DEF Ended
<1>7. CASE Added(r)
  <2>1. rec[r].attempts = 0 /\ ~rec[r].fresh BY <1>7 DEF Added, ReceiptInv
  <2>2. Entry(r) = Outbox!Absent
    BY <1>7, EntryForm DEF Added, Outbox!Absent, Outbox!Settled
  <2>3. Entry(r)' = Outbox!Pending(Looked(0), "none")
    BY <1>7, <2>1, EntryFormNext DEF Added, Outbox!Pending
  <2>4. QED BY <2>2, <2>3, LookedNext DEF Outbox!Move, Outbox!Publish
<1>8. QED BY <1>2, <1>3, <1>4, <1>5, <1>6, <1>7 DEF Moved

\* What the drains do to the router's records keeps the promise the router makes:
\* each record goes through the outbox's own moves, whatever the interleaving of
\* drains, lapses of the lease, failed writes and crashes.  It is claimed again
\* only once its last claim is given back or has expired, settled only by a drain
\* whose claim lasts, and given up only after MaxAttempts claims.
THEOREM ImplementsOutboxHolds == Spec => ImplementsOutbox
<1>1. Init => Outbox!Init
  <2>. SUFFICES ASSUME Init PROVE Outbox!Init
    OBVIOUS
  <2>1. ASSUME NEW r \in Records PROVE Entry(r) = Outbox!Absent
    <3>1. rec[r].state = "Absent" BY DEF Init
    <3>2. QED BY <3>1, EntryForm DEF Outbox!Absent, Outbox!Settled
  <2>2. QED BY <2>1 DEF Outbox!Init, box
<1>2. ASSUME BudgetInv, BudgetInv', [Next]_vars PROVE [Outbox!Next]_box
  <2>1. ASSUME NEW r \in Records
        PROVE  Entry(r)' = Entry(r) \/ Outbox!Move(Entry(r), Entry(r)')
    <3>1. Moved(r) BY <1>2, MovesStep DEF BudgetInv
    <3>2. QED BY <1>2, <3>1, MovedRefines DEF BudgetInv
  <2>2. ASSUME NEW r \in Records
        PROVE  box[r] = Entry(r) /\ box'[r] = Entry(r)'
    BY DEF box
  <2>3. ASSUME NEW r \in Records
        PROVE  box'[r] = box[r] \/ Outbox!Move(box[r], box'[r])
    BY <2>1, <2>2
  <2>4. QED BY <2>3 DEF Outbox!Next
<1>3. QED BY <1>1, <1>2, BudgetHolds, PTL DEF Spec, ImplementsOutbox, Outbox!Spec

-----------------------------------------------------------------------------
(* The drains use the thread's lease as a FencedTenure.                    *)

\* A handle is had by an acquisition, which supersedes every other, and is gone
\* when its drain is.
LEMMA HoldMoves ==
  ASSUME [Next]_vars
  PROVE  \/ hold' = hold
         \/ \E w \in Workers : \/ hold' = [Superseded(hold) EXCEPT ![w] = "current"]
                               \/ hold' = [hold EXCEPT ![w] = "none"]
<1>. DEFINE Goal == \/ hold' = hold
                    \/ \E w \in Workers : \/ hold' = [Superseded(hold) EXCEPT ![w] = "current"]
                                          \/ hold' = [hold EXCEPT ![w] = "none"]
<1>1. ASSUME NEW w \in Workers, NEW records, Return(w, records) PROVE Goal
  BY <1>1 DEF Return
<1>2. ASSUME NEW w \in Workers, Acquire(w) PROVE Goal
  BY <1>2 DEF Acquire
<1>3. ASSUME NEW w \in Workers, Crash(w) PROVE Goal
  BY <1>3 DEF Crash
<1>4. ASSUME NEW w \in Workers, RenewRefused(w) \/ RenewErrs(w) \/ ReleaseLands(w)
      PROVE  hold' = hold
  BY <1>4 DEF RenewRefused, RenewErrs, ReleaseLands
<1>5. ASSUME NEW w \in Workers, NEW there, GoTo(w, there) PROVE hold' = hold
  BY <1>5 DEF GoTo, fence
<1>6. ASSUME NEW w \in Workers,
             \/ Ready(w) \/ ClaimBatch(w) \/ BeginTurn(w) \/ EndTurn(w, "ok")
             \/ EndTurn(w, "failed") \/ Acknowledge(w) \/ BackoffOver(w)
      PROVE  hold' = hold
  BY <1>5, <1>6 DEF Ready, ClaimBatch, BeginTurn, EndTurn, Acknowledge, BackoffOver
<1>7. ASSUME NEW w \in Workers, TurnFailed(w) \/ MarkFailedFails(w) PROVE hold' = hold
  <2>1. PICK s : MarkFailed(w, s) BY <1>7 DEF TurnFailed, MarkFailedFails
  <2>2. QED BY <1>5, <2>1 DEF MarkFailed
<1>8. ASSUME NEW w \in Workers,
             \/ Fenced(w) \/ NothingToClaim(w) \/ ParentBusy(w) \/ ClaimFails(w)
             \/ AcknowledgeFails(w) \/ DrainDropped(w)
      PROVE  Goal
  <2>1. PICK records : Return(w, records)
    BY <1>8 DEF Fenced, NothingToClaim, ParentBusy, ClaimFails, AcknowledgeFails, DrainDropped
  <2>2. QED BY <1>1, <2>1
<1>9. ASSUME NEW w \in Workers, AfterFailure(w) PROVE Goal
  <2>1. Return(w, rec) \/ GoTo(w, "backoff") BY <1>9 DEF AfterFailure
  <2>2. QED BY <1>1, <1>5, <2>1
<1>10. ASSUME LeaseLapses \/ RenewalMissed PROVE hold' = hold
  BY <1>10 DEF LeaseLapses, RenewalMissed
<1>11. ASSUME NEW r \in Records, Publish(r) \/ ClaimExpires(r) \/ ClaimOutlived(r)
       PROVE  hold' = hold
  BY <1>11 DEF Publish, ClaimExpires, ClaimOutlived, fence
<1>12. ASSUME UNCHANGED vars PROVE hold' = hold
  BY <1>12 DEF vars
<1>. HIDE DEF Goal
<1>13. hold' = hold => Goal BY DEF Goal
<1>14. Goal
  BY <1>2, <1>3, <1>4, <1>6, <1>7, <1>8, <1>9, <1>10, <1>11, <1>12, <1>13 DEF Next, DrainStep
<1>15. QED BY <1>14 DEF Goal

\* The tenures a drain goes by are those of a fence: once another worker has
\* acquired the thread's lease, a handle is lost for good, however late its drain
\* finds out, and a spawned release or a crash gives it to nobody.
THEOREM ImplementsFenceHolds == Spec => ImplementsFence
<1>. DEFINE locks == [k \in {"thread"} |-> hold]
<1>1. Init => Fence!Init
  BY DEF Init, Fence!Init
<1>2. ASSUME TypeOK, [Next]_vars PROVE [Fence!Next]_locks
  <2>1. Superseded(hold) = Fence!Over(hold) BY DEF Superseded, Fence!Over
  <2>2. hold' = hold \/ Fence!Move(hold, hold')
    BY <1>2, <2>1, HoldMoves DEF Fence!Move, Fence!Grant, Fence!Drop
  <2>3. locks["thread"] = hold /\ locks'["thread"] = hold' OBVIOUS
  <2>4. QED BY <2>2, <2>3 DEF Fence!Next
<1>3. QED BY <1>1, <1>2, TypeCorrect, PTL DEF Spec, ImplementsFence, Fence!Spec
=============================================================================
