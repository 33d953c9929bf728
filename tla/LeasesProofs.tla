---------------------------- MODULE LeasesProofs ----------------------------
(***************************************************************************)
(* The lease, for any actors and holders, any ttl and any clock skew.      *)
(***************************************************************************)
EXTENDS Leases, TLAPS

USE NumberAssumption

\* The shape of a call: who may be in it, and when the key is retired.
CallShape ==
    /\ \A a \in Actors :
         /\ call[a].op = "acquire" => a \in Plain
         /\ call[a].op = "acquire_with" => a \notin Plain
         /\ call[a].op = "compact" => retired
         /\ call[a].phase # "idle" => call[a].op # "none"
    /\ retired => \A a \in Actors : ~Acquires(call[a].op)

\* While the key is in use no actor knows of a later epoch than the record, and
\* the actors that know the record's epoch go by the record's holder.
TenureBound ==
    ~retired => \A a \in Actors :
       /\ tenure[a] <= lease.epoch
       /\ tenure[a] = lease.epoch /\ tenure[a] # 0 => HolderOf[a] = lease.holder

\* A new tenure is justified: the record is not live by any clock, or a fresh
\* incarnation of its holder takes it over at once.
Justified(a) ==
    \/ lease.released
    \/ lease.expires <= now + Skew
    \/ /\ call[a].op = "acquire_with" /\ ~call[a].raced
       /\ HolderOf[a] = lease.holder /\ tenure[a] = 0

\* A swap that will succeed was computed from the record as it is.
Knows(a) ==
    call[a].phase = "swap" /\ ~call[a].stale =>
       /\ Acquires(call[a].op) =>
            /\ call[a].next.holder = HolderOf[a]
            /\ \/ call[a].next.epoch = lease.epoch + 1 /\ Justified(a)
               \/ /\ call[a].next.epoch = lease.epoch
                  /\ lease.holder = HolderOf[a]
                  /\ call[a].op = "acquire" \/ tenure[a] = lease.epoch
       /\ call[a].op \in {"renew", "release"} =>
            call[a].next.epoch = lease.epoch /\ call[a].next.holder = lease.holder
       /\ call[a].op = "compact" => call[a].next.epoch = 0

SwapKnows == \A a \in Actors : Knows(a)

\* The last fenced write is not ahead of the record, as long as there is one.
WrittenBound ==
    lease.epoch # 0 \/ ~retired =>
       /\ written.epoch <= lease.epoch
       /\ written.epoch = lease.epoch /\ written.epoch # 0
             => HolderOf[written.author] = lease.holder

IInv == TypeOK /\ CallShape /\ TenureBound /\ SwapKnows /\ WrittenBound /\ UniqueTenure

-----------------------------------------------------------------------------
\* The null values and their fields.
LEMMA NullTypes ==
    /\ NoLease \in Body /\ IdleCall \in CallState
    /\ NoLease.epoch = 0
    /\ IdleCall.op = "none" /\ IdleCall.phase = "idle" /\ ~IdleCall.stale
<1>1. NoLease \in Body
  BY DEF NoLease, Body, LeaseEpoch, Instant
<1>2. QED BY <1>1 DEF IdleCall, CallState, NoLease, Instant

\* What a call computes is a record.
LEMMA NextBodyType ==
    ASSUME TypeOK, NEW a \in Actors, NEW t \in 0 .. MaxTime + Skew, ~Overflows(a, t),
           call[a].op \in Operation
    PROVE  NextBody(a, t) \in Body
<1>1. lease \in Body /\ lease.epoch \in LeaseEpoch /\ lease.holder \in Holders \cup {NoHolder}
  BY DEF TypeOK, Body
<1>2. Deadline(t) \in Instant /\ t \in Instant
  BY DEF Deadline, Instant
<1>3. CASE call[a].op = "renew"
  <2>1. [lease EXCEPT !.expires = Deadline(t)] \in Body
    BY <1>1, <1>2 DEF Body
  <2>2. QED BY <1>3, <2>1 DEF NextBody
<1>4. CASE call[a].op = "release"
  <2>1. [lease EXCEPT !.expires = t, !.released = TRUE] \in Body
    BY <1>1, <1>2 DEF Body
  <2>2. QED BY <1>4, <2>1 DEF NextBody
<1>5. CASE call[a].op = "compact"
  BY <1>5, NullTypes DEF NextBody
<1>6. CASE call[a].op \in {"acquire", "acquire_with"}
  <2>1. GrantedEpoch(a, t) \in LeaseEpoch
    BY <1>1, <1>6 DEF GrantedEpoch, Overflows, LeaseEpoch
  <2>2. HolderOf[a] \in Holders
    BY DEF Holders
  <2>3. NextBody(a, t) = [holder |-> HolderOf[a], epoch |-> GrantedEpoch(a, t),
                          expires |-> Deadline(t), released |-> FALSE]
    BY <1>6 DEF NextBody
  <2>4. QED BY <1>2, <2>1, <2>2, <2>3 DEF Body
<1>7. QED BY <1>3, <1>4, <1>5, <1>6 DEF Operation

\* What SwapKnows asks of a call that has just read the record.
LEMMA Decision ==
    ASSUME TypeOK, NEW a \in Actors, NEW t \in DecisionTime(a), ~Declines(a, t),
           call[a].phase = "read", call[a].op \in Operation
    PROVE  /\ Acquires(call[a].op) =>
                /\ NextBody(a, t).holder = HolderOf[a]
                /\ \/ NextBody(a, t).epoch = lease.epoch + 1 /\ Justified(a)
                   \/ /\ NextBody(a, t).epoch = lease.epoch
                      /\ lease.holder = HolderOf[a]
                      /\ call[a].op = "acquire" \/ tenure[a] = lease.epoch
           /\ call[a].op \in {"renew", "release"} =>
                NextBody(a, t).epoch = lease.epoch /\ NextBody(a, t).holder = lease.holder
           /\ call[a].op = "compact" => NextBody(a, t).epoch = 0
<1>1. lease \in Body /\ lease.epoch \in Nat /\ lease.expires \in Nat /\ now \in Nat
  BY DEF TypeOK, Body, LeaseEpoch, Instant
<1>2. CASE Acquires(call[a].op)
  <2>1. t \in Nat /\ t <= now + Skew
    BY <1>2 DEF Acquires, DecisionTime, Clock
  <2>2. NextBody(a, t) = [holder |-> HolderOf[a], epoch |-> GrantedEpoch(a, t),
                          expires |-> Deadline(t), released |-> FALSE]
    BY <1>2 DEF NextBody, Acquires
  <2>3. CASE Reentrant(a, t)
    BY <1>2, <2>2, <2>3 DEF Reentrant, GrantedEpoch, OwnTenure, Acquires
  <2>4. CASE ~Reentrant(a, t)
    <3>1. CASE Live(lease, t)
      <4>1. call[a].op = "acquire_with"
        BY <1>2, <2>4, <3>1 DEF Acquires, Declines, Reentrant
      <4>2. HolderOf[a] = lease.holder /\ ~call[a].raced /\ tenure[a] = 0
        BY <2>4, <3>1, <4>1 DEF Declines, HeldFor, Reentrant, OwnTenure
      <4>3. QED BY <1>2, <2>2, <2>4, <4>1, <4>2 DEF GrantedEpoch, Justified, Acquires
    <3>2. CASE ~Live(lease, t)
      <4>1. lease.released \/ lease.expires <= now + Skew
        BY <1>1, <2>1, <3>2 DEF Live
      <4>2. QED BY <1>2, <2>2, <2>4, <4>1 DEF GrantedEpoch, Justified, Acquires
    <3>3. QED BY <3>1, <3>2
  <2>5. QED BY <2>3, <2>4
<1>3. CASE call[a].op = "renew"
  <2>1. NextBody(a, t) = [lease EXCEPT !.expires = Deadline(t)]
    BY <1>3 DEF NextBody
  <2>2. QED BY <1>1, <1>3, <2>1 DEF Body, Acquires
<1>4. CASE call[a].op = "release"
  <2>1. NextBody(a, t) = [lease EXCEPT !.expires = t, !.released = TRUE]
    BY <1>4 DEF NextBody
  <2>2. QED BY <1>1, <1>4, <2>1 DEF Body, Acquires
<1>5. CASE call[a].op = "compact"
  BY <1>5, NullTypes DEF NextBody, Acquires
<1>6. QED BY <1>2, <1>3, <1>4, <1>5 DEF Acquires, Operation

-----------------------------------------------------------------------------
\* A step that only changes an actor's call, to one that is not about to write,
\* and may make the actor forget its tenure.
LEMMA QuietStep ==
    ASSUME IInv, NEW a \in Actors, NEW c \in CallState, c.phase # "swap",
           call' = [call EXCEPT ![a] = c], CallShape',
           UNCHANGED <<lease, now, written>>,
           retired' \in BOOLEAN, retired => retired',
           tenure' = tenure \/ tenure' = [tenure EXCEPT ![a] = 0]
    PROVE  IInv'
<1>1. TypeOK
  BY DEF IInv
<1>2. \A b \in Actors : call'[b] = IF b = a THEN c ELSE call[b]
  BY <1>1 DEF TypeOK
<1>3. \A b \in Actors : tenure'[b] \in {tenure[b], 0} /\ (b # a => tenure'[b] = tenure[b])
  BY <1>1 DEF TypeOK
<1>4. TypeOK'
  BY <1>1 DEF TypeOK, LeaseEpoch
<1>5. TenureBound'
  <2>1. lease.epoch \in Nat
    BY <1>1 DEF TypeOK, Body, LeaseEpoch
  <2>2. QED BY <1>3, <2>1 DEF IInv, TenureBound
<1>6. SwapKnows'
  BY <1>2, <1>3 DEF IInv, SwapKnows, Knows, Justified
<1>7. WrittenBound' /\ UniqueTenure'
  BY <1>3 DEF IInv, WrittenBound, UniqueTenure
<1>8. QED BY <1>4, <1>5, <1>6, <1>7 DEF IInv

\* The shape of the calls survives when an actor's call ends or goes on.
LEMMA ShapeStep ==
    ASSUME TypeOK, CallShape, NEW a \in Actors, NEW c \in CallState,
           call' = [call EXCEPT ![a] = c], retired' = retired,
           (c.op = "none" /\ c.phase = "idle") \/ (c.op = call[a].op /\ c.op # "none")
    PROVE  CallShape'
<1>1. \A b \in Actors : call'[b] = IF b = a THEN c ELSE call[b]
  BY DEF TypeOK
<1>2. QED BY <1>1 DEF CallShape, Acquires

LEMMA StartStep ==
    ASSUME IInv, NEW a \in Actors, NEW op \in Operation, Start(a, op) PROVE IInv'
<1>1. PICK t \in Clock(now) :
        call' = [call EXCEPT ![a] = [IdleCall EXCEPT !.op = op, !.phase = "read",
                                                     !.at = IF op = "release" THEN t ELSE 0]]
  BY DEF Start
<1> DEFINE c == [IdleCall EXCEPT !.op = op, !.phase = "read",
                                 !.at = IF op = "release" THEN t ELSE 0]
<1>2. (IF op = "release" THEN t ELSE 0) \in 0 .. MaxTime + Skew
  BY DEF Clock
<1>3. c \in CallState /\ c.phase = "read" /\ c.op = op
  BY <1>2, NullTypes DEF CallState, IdleCall
<1>4. call' = [call EXCEPT ![a] = c]
  BY <1>1
<1> HIDE DEF c
<1>5. call \in [Actors -> CallState]
  BY DEF IInv, TypeOK
<1>6. \A b \in Actors : call'[b] = IF b = a THEN c ELSE call[b]
  BY <1>4, <1>5
<1>7. CallShape'
  <2>1. op # "none"
    BY DEF Operation
  <2>2. CASE op = "compact"
    <3>1. retired' /\ \A b \in Actors : ~Acquires(call[b].op)
      BY <2>2 DEF Start
    <3>2. QED BY <1>3, <1>6, <2>1, <2>2, <3>1 DEF IInv, CallShape, Acquires
  <2>3. CASE op # "compact"
    <3>1. (retired' <=> retired) /\ (Acquires(op) => ~retired)
          /\ (op = "acquire" => a \in Plain) /\ (op = "acquire_with" => a \notin Plain)
      BY <2>3 DEF Start
    <3>2. QED BY <1>3, <1>6, <2>1, <2>3, <3>1 DEF IInv, CallShape, Acquires
  <2>4. QED BY <2>2, <2>3
<1>8. retired' \in BOOLEAN /\ (retired => retired')
  BY DEF Start
<1>9. QED BY <1>3, <1>4, <1>7, <1>8, QuietStep DEF Start

LEMMA EndStep ==
    ASSUME IInv, NEW a \in Actors, ReadDeclined(a) \/ CallFails(a) \/ Forget(a) PROVE IInv'
<1>1. call' = [call EXCEPT ![a] = IdleCall] /\ retired' = retired
      /\ UNCHANGED <<lease, now, written>>
      /\ (tenure' = tenure \/ tenure' = [tenure EXCEPT ![a] = 0])
  BY DEF ReadDeclined, CallFails, Forget
<1>2. TypeOK /\ CallShape /\ retired \in BOOLEAN
  BY DEF IInv, TypeOK
<1>3. CallShape'
  <2>1. \A b \in Actors : call'[b] = IF b = a THEN IdleCall ELSE call[b]
    BY <1>1, <1>2 DEF TypeOK
  <2>2. QED BY <1>1, <1>2, <2>1, NullTypes DEF CallShape, Acquires
<1>4. QED BY <1>1, <1>2, <1>3, NullTypes, QuietStep

LEMMA SwapLostStep ==
    ASSUME IInv, NEW a \in Actors, SwapLost(a) PROVE IInv'
<1> DEFINE c == [call[a] EXCEPT !.phase = "read", !.raced = TRUE,
                                !.stale = FALSE, !.next = NoLease]
<1>1. call[a] \in CallState
  BY DEF IInv, TypeOK
<1>2. c \in CallState /\ c.phase = "read" /\ c.op = call[a].op
  BY <1>1, NullTypes DEF CallState
<1>3. call' = [call EXCEPT ![a] = c]
  BY DEF SwapLost
<1> HIDE DEF c
<1>4. call[a].op # "none"
  BY DEF IInv, CallShape, SwapLost
<1>5. CallShape' /\ retired \in BOOLEAN
  BY <1>2, <1>3, <1>4, ShapeStep DEF IInv, TypeOK, SwapLost
<1>6. QED BY <1>2, <1>3, <1>5, QuietStep DEF SwapLost

LEMMA ReadAcceptedStep ==
    ASSUME IInv, NEW a \in Actors, ReadAccepted(a) PROVE IInv'
<1>1. PICK t \in DecisionTime(a) :
        /\ ~Declines(a, t) /\ ~Overflows(a, t)
        /\ call' = [call EXCEPT ![a] = [call[a] EXCEPT !.phase = "swap", !.stale = FALSE,
                                                       !.next = NextBody(a, t)]]
  BY DEF ReadAccepted
<1> DEFINE c == [call[a] EXCEPT !.phase = "swap", !.stale = FALSE, !.next = NextBody(a, t)]
<1>2. call[a] \in CallState /\ call \in [Actors -> CallState]
  BY DEF IInv, TypeOK
<1>3. call[a].op \in Operation /\ call[a].phase = "read"
  BY <1>2 DEF IInv, CallShape, ReadAccepted, CallState
<1>4. t \in 0 .. MaxTime + Skew
  BY <1>2 DEF DecisionTime, Clock, CallState
<1>5. NextBody(a, t) \in Body
  BY <1>1, <1>3, <1>4, NextBodyType DEF IInv
<1>6. c \in CallState /\ c.phase = "swap" /\ c.op = call[a].op /\ c.raced = call[a].raced
      /\ c.next = NextBody(a, t)
  BY <1>2, <1>5 DEF CallState
<1>7. call' = [call EXCEPT ![a] = c] /\ UNCHANGED <<lease, now, tenure, written, retired>>
  BY <1>1 DEF ReadAccepted
<1> HIDE DEF c
<1>8. \A b \in Actors : call'[b] = IF b = a THEN c ELSE call[b]
  BY <1>2, <1>7
<1>9. TypeOK'
  BY <1>2, <1>6, <1>7 DEF IInv, TypeOK
<1>10. CallShape'
  <2>1. c.op # "none"
    BY <1>3, <1>6 DEF Operation
  <2>2. QED BY <1>6, <1>7, <2>1, ShapeStep DEF IInv
<1>11. SwapKnows'
  <2>1. Knows(a)'
    <3>1. (Justified(a) => Justified(a)') /\ lease' = lease /\ tenure' = tenure
      BY <1>6, <1>7, <1>8 DEF Justified
    <3>2. call'[a].op = call[a].op /\ call'[a].next = NextBody(a, t)
      BY <1>6, <1>8
    <3>3. QED BY <1>1, <1>3, <3>1, <3>2, Decision DEF Knows, IInv
  <2>2. ASSUME NEW b \in Actors, b # a PROVE Knows(b)'
    BY <1>7, <1>8, <2>2 DEF IInv, SwapKnows, Knows, Justified
  <2>3. QED BY <2>1, <2>2 DEF SwapKnows
<1>12. TenureBound' /\ WrittenBound' /\ UniqueTenure'
  BY <1>7 DEF IInv, TenureBound, WrittenBound, UniqueTenure
<1>13. QED BY <1>9, <1>10, <1>11, <1>12 DEF IInv

LEMMA SwapWonStep ==
    ASSUME IInv, NEW a \in Actors, SwapWon(a) PROVE IInv'
<1>1. TypeOK /\ call[a] \in CallState /\ call[a].next \in Body
  BY DEF IInv, TypeOK, CallState
<1>2. call[a].phase = "swap" /\ ~call[a].stale /\ lease' = call[a].next
      /\ UNCHANGED <<now, written, retired>>
  BY DEF SwapWon, SwapHolds
<1>3. Knows(a) /\ call[a].op \in Operation
  BY <1>1, <1>2 DEF IInv, SwapKnows, CallShape, CallState
<1>4. lease.epoch \in Nat /\ lease'.epoch \in Nat /\ lease'.epoch \in LeaseEpoch
  BY <1>1, <1>2 DEF TypeOK, Body, LeaseEpoch
<1>5. ASSUME NEW b \in Actors
      PROVE  /\ call'[b] \in CallState
             /\ b = a => call'[b].op = "none" /\ call'[b].phase = "idle"
             /\ b # a => call'[b].op = call[b].op /\ call'[b].phase = call[b].phase
             /\ ~(call'[b].phase = "swap" /\ ~call'[b].stale)
  <2>1. CASE b = a
    BY <2>1, NullTypes DEF SwapWon
  <2>2. CASE b # a
    <3> DEFINE st == call[b].stale \/ call[b].phase = "swap"
               c == [call[b] EXCEPT !.stale = st]
    <3>1. call[b] \in CallState /\ st \in BOOLEAN
      BY DEF IInv, TypeOK
    <3>2. call'[b] = c
      BY <2>2 DEF SwapWon
    <3>3. c \in CallState /\ c.op = call[b].op /\ c.phase = call[b].phase /\ c.stale = st
      BY <3>1 DEF CallState
    <3>4. QED BY <2>2, <3>1, <3>2, <3>3
  <2>3. QED BY <2>1, <2>2
<1>6. \A b \in Actors : tenure'[b] = IF b = a /\ Acquires(call[a].op) THEN lease'.epoch ELSE tenure[b]
  BY <1>1, <1>2 DEF SwapWon, TypeOK
<1>7. TypeOK'
  <2>1. call' \in [Actors -> CallState]
    BY <1>5 DEF SwapWon
  <2>2. tenure' \in [Actors -> LeaseEpoch]
    BY <1>1, <1>2, <1>4 DEF SwapWon, TypeOK
  <2>3. QED BY <1>1, <1>2, <2>1, <2>2 DEF TypeOK
<1>8. CallShape'
  BY <1>2, <1>5 DEF IInv, CallShape, Acquires
<1>9. SwapKnows'
  BY <1>5 DEF SwapKnows, Knows
<1>10. \A b \in Actors : tenure[b] \in Nat
  BY <1>1 DEF TypeOK, LeaseEpoch
<1>11. written.epoch \in Nat
  BY <1>1 DEF TypeOK, LeaseEpoch
<1>12. CASE Acquires(call[a].op)
  <2>1. ~retired /\ lease'.holder = HolderOf[a]
        /\ \/ lease'.epoch = lease.epoch + 1
           \/ /\ lease'.epoch = lease.epoch
              /\ lease.holder = HolderOf[a]
              /\ call[a].op = "acquire" \/ tenure[a] = lease.epoch
    BY <1>2, <1>3, <1>12 DEF Knows, IInv, CallShape
  <2>2. TenureBound'
    BY <1>2, <1>4, <1>6, <1>10, <2>1 DEF IInv, TenureBound
  <2>3. WrittenBound'
    BY <1>2, <1>4, <1>11, <2>1 DEF IInv, WrittenBound
  <2>4. UniqueTenure'
    <3>1. CASE lease'.epoch = lease.epoch + 1
      <4>1. \A b \in Actors : tenure[b] # lease'.epoch
        BY <1>4, <1>10, <2>1, <3>1 DEF IInv, TenureBound
      <4>2. QED BY <1>6, <4>1 DEF IInv, UniqueTenure
    <3>2. CASE lease'.epoch = lease.epoch /\ lease.holder = HolderOf[a] /\ call[a].op = "acquire"
      <4>1. a \in Plain
        BY <3>2 DEF IInv, CallShape
      <4>2. \A b \in Actors : tenure[b] = lease.epoch /\ tenure[b] # 0 => HolderOf[b] = HolderOf[a]
        BY <2>1, <3>2 DEF IInv, TenureBound
      <4>3. QED BY <1>6, <3>2, <4>1, <4>2 DEF IInv, UniqueTenure
    <3>3. CASE lease'.epoch = lease.epoch /\ tenure[a] = lease.epoch
      <4>1. \A b \in Actors : tenure'[b] = tenure[b]
        BY <1>6, <3>3
      <4>2. QED BY <4>1 DEF IInv, UniqueTenure
    <3>4. QED BY <2>1, <3>1, <3>2, <3>3
  <2>5. QED BY <1>7, <1>8, <1>9, <2>2, <2>3, <2>4 DEF IInv
<1>13. CASE ~Acquires(call[a].op)
  <2>1. \A b \in Actors : tenure'[b] = tenure[b]
    BY <1>6, <1>13
  <2>2. \/ lease'.epoch = lease.epoch /\ lease'.holder = lease.holder
        \/ lease'.epoch = 0 /\ retired
    BY <1>2, <1>3, <1>13 DEF Knows, IInv, CallShape, Operation, Acquires
  <2>3. TenureBound' /\ WrittenBound'
    BY <1>2, <2>1, <2>2 DEF IInv, TenureBound, WrittenBound
  <2>4. UniqueTenure'
    BY <2>1 DEF IInv, UniqueTenure
  <2>5. QED BY <1>7, <1>8, <1>9, <2>3, <2>4 DEF IInv
<1>14. QED BY <1>12, <1>13

LEMMA FencedWriteStep ==
    ASSUME IInv, NEW a \in Actors, FencedWrite(a) PROVE IInv'
<1>1. written' = [epoch |-> tenure[a], author |-> a]
      /\ UNCHANGED <<lease, now, call, tenure, retired>>
      /\ tenure[a] = lease.epoch /\ lease.holder = HolderOf[a]
  BY DEF FencedWrite, Fence, OwnTenure
<1>2. TypeOK' /\ lease.epoch \in Nat
  BY <1>1 DEF IInv, TypeOK, Body, LeaseEpoch
<1>3. WrittenBound'
  BY <1>1, <1>2 DEF WrittenBound
<1>4. CallShape' /\ TenureBound' /\ SwapKnows' /\ UniqueTenure'
  BY <1>1 DEF IInv, CallShape, TenureBound, SwapKnows, Knows, Justified, UniqueTenure
<1>5. QED BY <1>2, <1>3, <1>4 DEF IInv

LEMMA TickStep ==
    ASSUME IInv, Tick PROVE IInv'
<1>1. now' = now + 1 /\ UNCHANGED <<lease, call, tenure, written, retired>>
      /\ now \in Nat /\ lease.expires \in Nat
  BY DEF Tick, IInv, TypeOK, Body, Instant
<1>2. TypeOK'
  BY <1>1 DEF IInv, TypeOK, Tick
<1>3. SwapKnows'
  BY <1>1 DEF IInv, SwapKnows, Knows, Justified
<1>4. CallShape' /\ TenureBound' /\ WrittenBound' /\ UniqueTenure'
  BY <1>1 DEF IInv, CallShape, TenureBound, WrittenBound, UniqueTenure
<1>5. QED BY <1>2, <1>3, <1>4 DEF IInv

-----------------------------------------------------------------------------
LEMMA InitInvariant == Init => IInv
<1> SUFFICES ASSUME Init PROVE IInv
  OBVIOUS
<1>1. TypeOK
  <2>1. NoLease \in Body /\ IdleCall \in CallState
    BY NullTypes
  <2>2. 0 \in 0 .. MaxTime /\ 0 \in LeaseEpoch
    BY DEF LeaseEpoch
  <2>3. written \in [epoch : LeaseEpoch, author : Actors \cup {NoHolder}]
    BY <2>2 DEF Init
  <2>4. QED BY <2>1, <2>2, <2>3 DEF Init, TypeOK
<1>2. \A a \in Actors : call[a].op = "none" /\ call[a].phase = "idle" /\ tenure[a] = 0
  BY NullTypes DEF Init
<1>3. CallShape /\ SwapKnows /\ UniqueTenure
  BY <1>2 DEF Init, CallShape, Acquires, SwapKnows, Knows, UniqueTenure
<1>4. TenureBound /\ WrittenBound
  BY <1>2, NullTypes DEF Init, TenureBound, WrittenBound
<1>5. QED BY <1>1, <1>3, <1>4 DEF IInv

LEMMA Invariance == IInv /\ [Next]_vars => IInv'
<1> SUFFICES ASSUME IInv, [Next]_vars PROVE IInv'
  OBVIOUS
<1>1. CASE UNCHANGED vars
  BY <1>1 DEF vars, IInv, TypeOK, CallShape, TenureBound, SwapKnows, Knows, Justified,
     WrittenBound, UniqueTenure
<1>2. CASE Next
  BY <1>2, StartStep, EndStep, ReadAcceptedStep, SwapWonStep, SwapLostStep, FencedWriteStep,
     TickStep
  DEF Next
<1>3. QED BY <1>1, <1>2

LEMMA InvariantHolds == Spec => []IInv
  BY InitInvariant, Invariance, PTL DEF Spec

\* Only a swap writes the record.
LEMMA LeaseMoves ==
    ASSUME [Next]_vars, lease' # lease
    PROVE  \E a \in Actors : SwapWon(a)
  BY DEF Next, vars, Start, ReadDeclined, ReadAccepted, SwapLost, CallFails, Forget,
     FencedWrite, Tick

-----------------------------------------------------------------------------
\* The record, the calls and what the actors know keep their types.
THEOREM TypeCorrect == Spec => []TypeOK
<1>1. IInv => TypeOK
  BY DEF IInv
<1>2. QED BY <1>1, InvariantHolds, PTL

\* An epoch is given to one incarnation, however acquisitions race and whatever
\* the clocks show.
THEOREM UniqueTenureCorrect == Spec => []UniqueTenure
<1>1. IInv => UniqueTenure
  BY DEF IInv
<1>2. QED BY <1>1, InvariantHolds, PTL

\* The fenced resource is written tenure by tenure.
THEOREM FencedWritesAdvanceCorrect == Spec => FencedWritesAdvance
<1>1. IInv /\ [Next]_vars =>
        [written' # written =>
           \/ written'.epoch > written.epoch
           \/ /\ written'.epoch = written.epoch
              /\ HolderOf[written'.author] = HolderOf[written.author]]_vars
  <2> SUFFICES ASSUME IInv, [Next]_vars, written' # written
               PROVE  \/ written'.epoch > written.epoch
                      \/ /\ written'.epoch = written.epoch
                         /\ HolderOf[written'.author] = HolderOf[written.author]
    OBVIOUS
  <2>1. PICK a \in Actors : FencedWrite(a)
    BY DEF Next, vars, Start, ReadDeclined, ReadAccepted, SwapWon, SwapLost, CallFails,
       Forget, Tick
  <2>2. written'.epoch = lease.epoch /\ written'.author = a /\ lease.epoch # 0
        /\ lease.holder = HolderOf[a]
    BY <2>1 DEF FencedWrite, Fence, OwnTenure
  <2>3. written.epoch \in Nat /\ lease.epoch \in Nat
    BY DEF IInv, TypeOK, Body, LeaseEpoch
  <2>4. QED BY <2>2, <2>3 DEF IInv, WrittenBound
<1>2. QED BY <1>1, InvariantHolds, PTL DEF Spec, FencedWritesAdvance

\* Epochs never go back while the key is in use.
THEOREM EpochAdvancesCorrect == Spec => EpochAdvances
<1>1. IInv /\ [Next]_vars =>
        [lease' # lease /\ ~retired =>
           \/ lease'.epoch = lease.epoch + 1
           \/ lease'.epoch = lease.epoch /\ lease'.holder = lease.holder]_vars
  <2> SUFFICES ASSUME IInv, [Next]_vars, lease' # lease, ~retired
               PROVE  \/ lease'.epoch = lease.epoch + 1
                      \/ lease'.epoch = lease.epoch /\ lease'.holder = lease.holder
    OBVIOUS
  <2>1. PICK a \in Actors : SwapWon(a)
    BY LeaseMoves
  <2>2. Knows(a) /\ call[a].phase = "swap" /\ ~call[a].stale /\ lease' = call[a].next
    BY <2>1 DEF IInv, SwapKnows, SwapWon, SwapHolds
  <2>3. call[a].op \in {"acquire", "acquire_with", "renew", "release"}
    BY <2>2 DEF IInv, TypeOK, CallState, Operation, CallShape
  <2>4. QED BY <2>2, <2>3 DEF Knows, Acquires
<1>2. QED BY <1>1, InvariantHolds, PTL DEF Spec, EpochAdvances

\* A tenure that is live by every clock ends early only by a fresh incarnation of
\* its own holder.
THEOREM LiveTenureProtectedCorrect == Spec => LiveTenureProtected
<1>1. IInv /\ [Next]_vars =>
        [/\ ~lease.released /\ lease.expires > now + Skew
         /\ lease'.epoch # lease.epoch /\ ~retired
         => \E a \in Actors :
              /\ call[a].op = "acquire_with" /\ ~call[a].raced
              /\ HolderOf[a] = lease.holder /\ tenure[a] = 0
              /\ tenure'[a] = lease'.epoch]_vars
  <2> SUFFICES ASSUME IInv, [Next]_vars, ~lease.released, lease.expires > now + Skew,
                      lease'.epoch # lease.epoch, ~retired
               PROVE  \E a \in Actors :
                        /\ call[a].op = "acquire_with" /\ ~call[a].raced
                        /\ HolderOf[a] = lease.holder /\ tenure[a] = 0
                        /\ tenure'[a] = lease'.epoch
    OBVIOUS
  <2>1. PICK a \in Actors : SwapWon(a)
    BY LeaseMoves
  <2>2. Knows(a) /\ call[a].phase = "swap" /\ ~call[a].stale /\ lease' = call[a].next
    BY <2>1 DEF IInv, SwapKnows, SwapWon, SwapHolds
  <2>3. call[a].op \in {"acquire", "acquire_with", "renew", "release"}
    BY <2>2 DEF IInv, TypeOK, CallState, Operation, CallShape
  <2>4. Acquires(call[a].op) /\ Justified(a)
    BY <2>2, <2>3 DEF Knows, Acquires
  <2>5. lease.expires \in Nat /\ now \in Nat /\ ~(lease.expires <= now + Skew)
    BY DEF IInv, TypeOK, Body, Instant
  <2>6. tenure'[a] = lease'.epoch
    BY <2>1, <2>2, <2>4 DEF SwapWon, IInv, TypeOK
  <2>7. QED BY <2>4, <2>5, <2>6 DEF Justified
<1>2. QED BY <1>1, InvariantHolds, PTL DEF Spec, LiveTenureProtected

-----------------------------------------------------------------------------
(* The lease implements FencedTenure.                                      *)

\* What a step makes of the tenures.
LEMMA TenureMoves ==
    ASSUME IInv, [Next]_vars
    PROVE  \/ \A b \in Actors : TenureOf(b)' = TenureOf(b)
           \/ \E a \in Actors :
                /\ \A b \in Actors \ {a} : TenureOf(b)' = TenureOf(b)
                /\ \/ TenureOf(a)' = "none"
                   \/ /\ TenureOf(a)' = "current"
                      /\ \A b \in Actors \ {a} :
                            TenureOf(b) = "current" => <<a, b>> \in SameHolder
           \/ \E a \in Actors :
                /\ TenureOf(a)' = "current"
                /\ \A b \in Actors \ {a} :
                      TenureOf(b)' = IF TenureOf(b) = "none" THEN "none" ELSE "lost"
           \/ \A b \in Actors : TenureOf(b)' = IF TenureOf(b) = "none" THEN "none" ELSE "lost"
<1> DEFINE Goal ==
           \/ \A b \in Actors : TenureOf(b)' = TenureOf(b)
           \/ \E a \in Actors :
                /\ \A b \in Actors \ {a} : TenureOf(b)' = TenureOf(b)
                /\ \/ TenureOf(a)' = "none"
                   \/ /\ TenureOf(a)' = "current"
                      /\ \A b \in Actors \ {a} :
                            TenureOf(b) = "current" => <<a, b>> \in SameHolder
           \/ \E a \in Actors :
                /\ TenureOf(a)' = "current"
                /\ \A b \in Actors \ {a} :
                      TenureOf(b)' = IF TenureOf(b) = "none" THEN "none" ELSE "lost"
           \/ \A b \in Actors : TenureOf(b)' = IF TenureOf(b) = "none" THEN "none" ELSE "lost"
<1>1. ASSUME lease' = lease, tenure' = tenure PROVE Goal
  BY <1>1 DEF TenureOf, OwnTenure
<1>2. ASSUME NEW a \in Actors, Forget(a) PROVE Goal
  <2>1. /\ lease' = lease /\ tenure'[a] = 0
        /\ \A b \in Actors \ {a} : tenure'[b] = tenure[b]
    BY <1>2 DEF Forget, IInv, TypeOK
  <2>2. /\ TenureOf(a)' = "none"
        /\ \A b \in Actors \ {a} : TenureOf(b)' = TenureOf(b)
    BY <2>1 DEF TenureOf, OwnTenure
  <2>3. QED BY <2>2
<1>3. ASSUME NEW a \in Actors, SwapWon(a) PROVE Goal
  <2>1. Knows(a) /\ call[a].phase = "swap" /\ ~call[a].stale /\ lease' = call[a].next
    BY <1>3 DEF IInv, SwapKnows, SwapWon, SwapHolds
  <2>2. call[a].op \in Operation
    BY <2>1 DEF IInv, TypeOK, CallState, CallShape
  <2>3. /\ \A b \in Actors \ {a} : tenure'[b] = tenure[b]
        /\ tenure'[a] = IF Acquires(call[a].op) THEN lease'.epoch ELSE tenure[a]
    BY <1>3, <2>1 DEF SwapWon, IInv, TypeOK
  <2>4. lease.epoch \in Nat /\ \A b \in Actors : tenure[b] \in Nat
    BY DEF IInv, TypeOK, Body, LeaseEpoch
  <2>5. CASE call[a].op \in {"renew", "release"}
    <3>1. lease'.epoch = lease.epoch /\ lease'.holder = lease.holder
      BY <2>1, <2>5 DEF Knows
    <3>2. \A b \in Actors : tenure'[b] = tenure[b] BY <2>3, <2>5 DEF Acquires
    <3>3. \A b \in Actors : TenureOf(b)' = TenureOf(b) BY <3>1, <3>2 DEF TenureOf, OwnTenure
    <3>4. QED BY <3>3
  <2>6. CASE call[a].op = "compact"
    <3>1. lease'.epoch = 0 BY <2>1, <2>6 DEF Knows
    <3>2. \A b \in Actors : tenure'[b] = tenure[b] BY <2>3, <2>6 DEF Acquires
    <3>3. ASSUME NEW b \in Actors
          PROVE  TenureOf(b)' = IF TenureOf(b) = "none" THEN "none" ELSE "lost"
      BY <3>1, <3>2 DEF TenureOf, OwnTenure
    <3>4. QED BY <3>3
  <2>7. CASE Acquires(call[a].op)
    <3>1. ~retired BY <2>7 DEF IInv, CallShape
    <3>2. /\ \A b \in Actors : tenure[b] <= lease.epoch
          /\ \A b \in Actors : tenure[b] = lease.epoch /\ tenure[b] # 0 => HolderOf[b] = lease.holder
      BY <3>1 DEF IInv, TenureBound
    <3>3. lease'.holder = HolderOf[a] /\ tenure'[a] = lease'.epoch
      BY <2>1, <2>3, <2>7 DEF Knows
    <3>4. CASE lease'.epoch = lease.epoch + 1
      <4>1. TenureOf(a)' = "current" BY <2>4, <3>3, <3>4 DEF TenureOf, OwnTenure
      <4>2. ASSUME NEW b \in Actors \ {a}
            PROVE  TenureOf(b)' = IF TenureOf(b) = "none" THEN "none" ELSE "lost"
        <5>1. tenure'[b] = tenure[b] /\ tenure[b] # lease'.epoch BY <2>3, <2>4, <3>2, <3>4
        <5>2. QED BY <5>1 DEF TenureOf, OwnTenure
      <4>3. QED BY <4>1, <4>2
    <3>5. CASE /\ lease'.epoch = lease.epoch /\ lease.holder = HolderOf[a]
               /\ call[a].op = "acquire" \/ tenure[a] = lease.epoch
      <4>1. \A b \in Actors \ {a} : TenureOf(b)' = TenureOf(b)
        BY <2>3, <3>3, <3>5 DEF TenureOf, OwnTenure
      <4>2. CASE lease.epoch = 0
        <5>1. TenureOf(a)' = "none" BY <3>3, <3>5, <4>2 DEF TenureOf
        <5>2. QED BY <4>1, <5>1
      <4>3. CASE lease.epoch # 0 /\ tenure[a] = lease.epoch
        <5>1. TenureOf(a)' = TenureOf(a)
          BY <3>3, <3>5, <4>3 DEF TenureOf, OwnTenure
        <5>2. QED BY <4>1, <5>1
      <4>4. CASE lease.epoch # 0 /\ call[a].op = "acquire"
        <5>1. TenureOf(a)' = "current" BY <3>3, <3>5, <4>4 DEF TenureOf, OwnTenure
        <5>2. a \in Plain BY <4>4 DEF IInv, CallShape
        <5>3. ASSUME NEW b \in Actors \ {a}, TenureOf(b) = "current"
              PROVE  <<a, b>> \in SameHolder
          <6>1. HolderOf[b] = HolderOf[a] BY <3>5, <5>3 DEF TenureOf, OwnTenure
          <6>2. QED BY <5>2, <6>1 DEF SameHolder
        <5>4. QED BY <4>1, <5>1, <5>3
      <4>5. QED BY <3>5, <4>2, <4>3, <4>4
    <3>6. QED BY <2>1, <2>7, <3>4, <3>5 DEF Knows
  <2>8. QED BY <2>2, <2>5, <2>6, <2>7 DEF Operation, Acquires
<1> HIDE DEF Goal
<1>4. Goal
  <2>1. ASSUME NEW a \in Actors, NEW o \in Operation,
               Start(a, o) \/ ReadDeclined(a) \/ ReadAccepted(a) \/ SwapLost(a) \/ CallFails(a)
               \/ FencedWrite(a)
        PROVE  Goal
    BY <1>1, <2>1 DEF Start, ReadDeclined, ReadAccepted, SwapLost, CallFails, FencedWrite
  <2>2. ASSUME Tick \/ UNCHANGED vars PROVE Goal
    BY <1>1, <2>2 DEF Tick, vars
  <2>3. "renew" \in Operation BY DEF Operation
  <2>4. QED BY <1>2, <1>3, <2>1, <2>2, <2>3 DEF Next
<1>5. QED BY <1>4 DEF Goal

\* A lease taken over, superseded or compacted away is lost for good: nothing an
\* incarnation does, however late, makes its old tenure current again, and at any
\* time the current tenure is one incarnation's, or of several that go by one
\* holder string and use acquire.
THEOREM ImplementsFenceHolds == Spec => ImplementsFence
<1> DEFINE h == [b \in Actors |-> TenureOf(b)]
<1>1. Init => Fenced!Init
  <2> SUFFICES ASSUME Init PROVE Fenced!Init
    OBVIOUS
  <2>1. \A b \in Actors : TenureOf(b) = "none" BY DEF Init, TenureOf
  <2>2. QED BY <2>1 DEF Fenced!Init, Tenures
<1>2. ASSUME IInv, [Next]_vars PROVE [Fenced!Next]_Tenures
  <2>1. h \in [Actors -> {"none", "current", "lost"}] BY DEF TenureOf
  <2>2. PICK g : g = [b \in Actors |-> TenureOf(b)'] OBVIOUS
  <2>3. \A b \in Actors : h[b] = TenureOf(b) /\ g[b] = TenureOf(b)' BY <2>2
  <2>4. Fenced!Over(h) = [b \in Actors |-> IF h[b] = "none" THEN "none" ELSE "lost"]
    BY DEF Fenced!Over
  <2>5. Tenures["lease"] = h /\ Tenures'["lease"] = g BY <2>2 DEF Tenures
  <2> HIDE DEF h
  <2>6. g = h \/ Fenced!Move(h, g)
    <3>1. CASE \A b \in Actors : TenureOf(b)' = TenureOf(b)
      <4>1. g = h BY <2>2, <3>1 DEF h
      <4>2. QED BY <4>1
    <3>2. ASSUME NEW a \in Actors, \A b \in Actors \ {a} : TenureOf(b)' = TenureOf(b),
                 \/ TenureOf(a)' = "none"
                 \/ /\ TenureOf(a)' = "current"
                    /\ \A b \in Actors \ {a} :
                          TenureOf(b) = "current" => <<a, b>> \in SameHolder
          PROVE  Fenced!Move(h, g)
      <4>1. g = [h EXCEPT ![a] = TenureOf(a)'] BY <2>1, <2>2, <2>3, <3>2
      <4>2. Fenced!Drop(h, g, a) \/ Fenced!Join(h, g, a)
        BY <2>3, <3>2, <4>1 DEF Fenced!Drop, Fenced!Join
      <4>3. QED BY <4>2 DEF Fenced!Move
    <3>3. ASSUME NEW a \in Actors, TenureOf(a)' = "current",
                 \A b \in Actors \ {a} :
                    TenureOf(b)' = IF TenureOf(b) = "none" THEN "none" ELSE "lost"
          PROVE  Fenced!Move(h, g)
      <4>1. g = [Fenced!Over(h) EXCEPT ![a] = "current"] BY <2>2, <2>3, <2>4, <3>3
      <4>2. QED BY <4>1 DEF Fenced!Move, Fenced!Grant
    <3>4. CASE \A b \in Actors : TenureOf(b)' = IF TenureOf(b) = "none" THEN "none" ELSE "lost"
      <4>1. g = Fenced!Over(h) BY <2>2, <2>3, <2>4, <3>4
      <4>2. QED BY <4>1 DEF Fenced!Move, Fenced!Expire
    <3>5. QED BY <1>2, <3>1, <3>2, <3>3, <3>4, TenureMoves
  <2>7. QED BY <2>5, <2>6 DEF Fenced!Next
<1>3. QED BY <1>1, <1>2, InvariantHolds, PTL DEF Spec, ImplementsFence, Fenced!Spec
=============================================================================
