-------------------------- MODULE ToolBatchProofs --------------------------
(***************************************************************************)
(* Theorems about ToolBatch, for any number of calls of the row, any ids   *)
(* and tools, any cap, concurrency and ledger policy, and any number of    *)
(* crashes and resumes.                                                    *)
(***************************************************************************)
EXTENDS ToolBatch, Integers, SequenceTheorems, FiniteSetTheorems, TLAPS

-----------------------------------------------------------------------------
(* Sets of calls, and their order.                                         *)

LEMMA CallsFinite ==
    ASSUME NEW S \in SUBSET Calls
    PROVE  IsFiniteSet(S) /\ Cardinality(S) \in Nat
<1>1. 1 \in Int /\ N \in Int BY NAssumption
<1>2. IsFiniteSet(Calls) BY <1>1, FS_Interval DEF Calls
<1>3. IsFiniteSet(S) BY <1>2, FS_Subset
<1>4. QED BY <1>3, FS_CardinalityType

LEMMA CallsAreInts ==
    Calls \subseteq Int /\ Cardinality(Calls) = N
<1>1. 1 \in Int /\ N \in Int /\ N >= 1 BY NAssumption
<1>2. Cardinality(Calls) = N BY <1>1, FS_Interval DEF Calls
<1>3. QED BY <1>1, <1>2 DEF Calls

\* A smaller set has no more elements.
LEMMA Smaller ==
    ASSUME NEW S \in SUBSET Calls, NEW T \in SUBSET S
    PROVE  /\ Cardinality(T) <= Cardinality(S)
           /\ Cardinality(T) = Cardinality(S) => T = S
<1>1. IsFiniteSet(S) BY CallsFinite
<1>2. QED BY <1>1, FS_Subset

LEMMA OneMore ==
    ASSUME NEW S \in SUBSET Calls, NEW c \in Calls
    PROVE  /\ c \notin S => Cardinality(S \cup {c}) = Cardinality(S) + 1
           /\ c \in S => Cardinality(S \ {c}) = Cardinality(S) - 1
<1>1. IsFiniteSet(S) BY CallsFinite
<1>2. QED BY <1>1, FS_AddElement, FS_RemoveElement

LEMMA EmptyIsZero ==
    ASSUME NEW S \in SUBSET Calls
    PROVE  Cardinality(S) = 0 <=> S = {}
  BY CallsFinite, FS_EmptySet

LEMMA PlaceGrows ==
    ASSUME NEW S \in SUBSET Calls, NEW c \in S
    PROVE  /\ Place(c, S) \in 1..Cardinality(S)
           /\ \A d \in S : d < c => Place(d, S) < Place(c, S)
<1>1. S \subseteq Int BY CallsAreInts
<1>2. \A d \in S : {e \in S : e <= d} \in SUBSET S OBVIOUS
<1>3. \A d \in S : Place(d, S) \in Nat /\ Place(d, S) <= Cardinality(S)
  BY <1>2, Smaller, CallsFinite DEF Place
<1>4. Place(c, S) # 0
  <2>1. {e \in S : e <= c} # {} BY <1>1
  <2>2. QED BY <2>1, EmptyIsZero DEF Place
<1>5. ASSUME NEW d \in S, d < c PROVE Place(d, S) < Place(c, S)
  <2> DEFINE A == {e \in S : e <= d}
             B == {e \in S : e <= c}
  <2>1. A \in SUBSET B /\ B \in SUBSET Calls
    <3>1. \A e \in S : e <= d => e <= c BY <1>1, <1>5
    <3>2. QED BY <3>1
  <2>2. A # B
    <3>1. c \in B /\ c \notin A BY <1>1, <1>5
    <3>2. QED BY <3>1
  <2>3. Cardinality(A) <= Cardinality(B) /\ Cardinality(A) # Cardinality(B)
    BY <2>1, <2>2, Smaller
  <2>4. QED BY <1>3, <2>3 DEF Place
<1>6. QED BY <1>3, <1>4, <1>5, CallsFinite

\* Places are taken once, and none is left out.
LEMMA PlaceTaken ==
    ASSUME NEW S \in SUBSET Calls
    PROVE  /\ \A c, d \in S : Place(c, S) = Place(d, S) => c = d
           /\ \A k \in 1..Cardinality(S) : \E c \in S : Place(c, S) = k
<1> DEFINE f == [c \in S |-> Place(c, S)]
           T == 1..Cardinality(S)
<1>1. S \subseteq Int /\ Cardinality(S) \in Nat BY CallsAreInts, CallsFinite
<1>2. \A c \in S : Place(c, S) \in T BY PlaceGrows
<1>3. ASSUME NEW c \in S, NEW d \in S, Place(c, S) = Place(d, S) PROVE c = d
  <2>1. Place(c, S) \in Int /\ Place(d, S) \in Int BY <1>1, <1>2
  <2>2. ~(c < d) BY <1>3, <2>1, PlaceGrows
  <2>3. ~(d < c) BY <1>3, <2>1, PlaceGrows
  <2>4. QED BY <1>1, <2>2, <2>3
<1>4. f \in [S -> T] BY <1>2
<1>5. f \in Injection(S, T)
  <2>1. DOMAIN f = S OBVIOUS
  <2>2. \A c, d \in S : f[c] = f[d] => c = d BY <1>3
  <2> HIDE DEF f
  <2>3. QED BY <1>4, <2>1, <2>2 DEF Injection, IsInjective
<1>6. IsFiniteSet(T) /\ Cardinality(T) = Cardinality(S)
  <2>1. 1 \in Int /\ Cardinality(S) \in Int BY <1>1
  <2>2. QED BY <1>1, <2>1, FS_Interval
<1> HIDE DEF f
<1>7. f \in Surjection(S, T)
  <2> HIDE DEF T
  <2>1. QED BY <1>5, <1>6, FS_Injection
<1>8. \A k \in T : \E c \in S : f[c] = k BY <1>7 DEF Surjection
<1>9. QED BY <1>3, <1>8 DEF f

\* The elements of a sequence, a sequence without repetition, and one in order.
Members(s) == {s[k] : k \in DOMAIN s}

Injective(s) == \A j, k \in DOMAIN s : s[j] = s[k] => j = k

Increasing(s) == \A j, k \in DOMAIN s : j < k => s[j] < s[k]

LEMMA InOrderIs ==
    ASSUME NEW S \in SUBSET Calls
    PROVE  /\ InOrder(S) \in Seq(S) /\ Len(InOrder(S)) = Cardinality(S)
           /\ DOMAIN InOrder(S) = 1..Cardinality(S)
           /\ \A k \in 1..Cardinality(S) : InOrder(S)[k] \in S /\ Place(InOrder(S)[k], S) = k
           /\ \A c \in S : InOrder(S)[Place(c, S)] = c
           /\ Members(InOrder(S)) = S
           /\ Injective(InOrder(S)) /\ Increasing(InOrder(S))
<1> DEFINE s == InOrder(S)
<1>1. Cardinality(S) \in Nat /\ S \subseteq Int BY CallsFinite, CallsAreInts
<1>2. \A k \in 1..Cardinality(S) : s[k] \in S /\ Place(s[k], S) = k BY PlaceTaken DEF InOrder
<1>3. DOMAIN s = 1..Cardinality(S) BY DEF InOrder
<1>4. s \in [1..Cardinality(S) -> S] BY <1>2 DEF InOrder
<1> HIDE DEF s
<1>5. s \in Seq(S) BY <1>1, <1>4, SeqDef
<1>6. Len(s) = Cardinality(S) BY <1>1, <1>3, <1>5, LenProperties
<1>7. ASSUME NEW c \in S PROVE s[Place(c, S)] = c /\ Place(c, S) \in 1..Cardinality(S)
  <2>1. Place(c, S) \in 1..Cardinality(S) BY PlaceGrows
  <2>2. s[Place(c, S)] \in S /\ Place(s[Place(c, S)], S) = Place(c, S) BY <1>2, <2>1
  <2>3. QED BY <2>1, <2>2, PlaceTaken
<1>8. Members(s) = S BY <1>2, <1>3, <1>7 DEF Members
<1>9. Injective(s) BY <1>2, <1>3 DEF Injective
<1>10. Increasing(s)
  <2> SUFFICES ASSUME NEW j \in 1..Cardinality(S), NEW k \in 1..Cardinality(S), j < k
               PROVE  s[j] < s[k]
    BY <1>3 DEF Increasing
  <2>1. s[j] \in S /\ s[k] \in S /\ Place(s[j], S) = j /\ Place(s[k], S) = k BY <1>2
  <2>2. s[j] # s[k] BY <1>1, <2>1
  <2>3. ~(s[k] < s[j])
    <3>1. SUFFICES ASSUME s[k] < s[j] PROVE FALSE OBVIOUS
    <3>2. Place(s[k], S) < Place(s[j], S) BY <2>1, <3>1, PlaceGrows
    <3>3. QED BY <1>1, <2>1, <3>2
  <2>4. s[j] \in Int /\ s[k] \in Int BY <1>1, <2>1
  <2>5. QED BY <2>2, <2>3, <2>4
<1>11. QED BY <1>2, <1>3, <1>5, <1>6, <1>7, <1>8, <1>9, <1>10 DEF s

\* A call behind all of S comes last.
LEMMA InOrderLast ==
    ASSUME NEW S \in SUBSET Calls, NEW c \in Calls, \A d \in S : d < c
    PROVE  /\ Len(InOrder(S \cup {c})) = Len(InOrder(S)) + 1
           /\ \A k \in 1..Len(InOrder(S)) : InOrder(S \cup {c})[k] = InOrder(S)[k]
           /\ InOrder(S \cup {c})[Len(InOrder(S)) + 1] = c
<1> DEFINE T == S \cup {c}
<1>1. T \in SUBSET Calls /\ T \subseteq Int /\ Cardinality(S) \in Nat BY CallsAreInts, CallsFinite
<1>2. c \notin S BY <1>1
<1>3. Cardinality(T) = Cardinality(S) + 1 BY <1>2, OneMore
<1>4. Place(c, T) = Cardinality(T)
  <2>1. {e \in T : e <= c} = T
    <3>1. \A e \in T : e <= c BY <1>1
    <3>2. QED BY <3>1
  <2>2. QED BY <2>1 DEF Place
<1>5. ASSUME NEW d \in S PROVE Place(d, T) = Place(d, S)
  <2>1. ~(c <= d) BY <1>1
  <2>2. {e \in T : e <= d} = {e \in S : e <= d} BY <2>1
  <2>3. QED BY <2>2 DEF Place
<1>6. Len(InOrder(S)) = Cardinality(S) /\ Len(InOrder(T)) = Cardinality(T) BY <1>1, InOrderIs
<1>7. ASSUME NEW k \in 1..Cardinality(S) PROVE InOrder(T)[k] = InOrder(S)[k]
  <2>1. InOrder(S)[k] \in S /\ Place(InOrder(S)[k], S) = k BY InOrderIs
  <2>2. InOrder(S)[k] \in T /\ Place(InOrder(S)[k], T) = k BY <1>5, <2>1
  <2> HIDE DEF T
  <2>3. InOrder(T)[Place(InOrder(S)[k], T)] = InOrder(S)[k] BY <1>1, <2>2, InOrderIs
  <2>4. QED BY <2>2, <2>3
<1>8. InOrder(T)[Cardinality(T)] = c
  <2>1. c \in T OBVIOUS
  <2> HIDE DEF T
  <2>2. InOrder(T)[Place(c, T)] = c BY <1>1, <2>1, InOrderIs
  <2>3. QED BY <1>4, <2>2
<1>9. QED BY <1>3, <1>6, <1>7, <1>8

-----------------------------------------------------------------------------
(* Sequences of calls.                                                     *)

LEMMA TailIs ==
    ASSUME NEW S \in SUBSET Int, NEW s \in Seq(S), s # <<>>
    PROVE  /\ Tail(s) \in Seq(S) /\ Head(s) \in S
           /\ Members(s) = {Head(s)} \cup Members(Tail(s))
           /\ Injective(s) => Injective(Tail(s)) /\ Head(s) \notin Members(Tail(s))
           /\ Increasing(s) =>
                Increasing(Tail(s)) /\ \A d \in Members(Tail(s)) : Head(s) < d
<1> DEFINE t == Tail(s)
<1>1. /\ Len(s) \in Nat /\ Len(s) >= 1 /\ t \in Seq(S) /\ Len(t) = Len(s) - 1
      /\ \A k \in 1..Len(t) : t[k] = s[k + 1]
  BY HeadTailProperties, EmptySeq, LenProperties
<1>2. Head(s) = s[1] /\ Head(s) \in S BY <1>1
<1>3. DOMAIN s = 1..Len(s) /\ DOMAIN t = 1..Len(t) BY <1>1
<1>4. \A k \in DOMAIN t : k + 1 \in DOMAIN s /\ t[k] = s[k + 1] /\ k + 1 # 1 /\ k \in Int /\ 1 < k + 1
  BY <1>1, <1>3
<1> HIDE DEF t
<1>5. Members(s) = {Head(s)} \cup Members(t)
  <2>1. ASSUME NEW k \in DOMAIN s PROVE s[k] \in {Head(s)} \cup Members(t)
    <3>1. CASE k = 1 BY <1>2, <3>1
    <3>2. CASE k # 1
      <4>1. k - 1 \in DOMAIN t /\ t[k - 1] = s[k] BY <1>1, <1>3, <3>2
      <4>2. QED BY <4>1 DEF Members
    <3>3. QED BY <3>1, <3>2
  <2>2. Head(s) \in Members(s)
    <3>1. 1 \in DOMAIN s BY <1>1, <1>3
    <3>2. QED BY <1>2, <3>1 DEF Members
  <2>3. \A k \in DOMAIN t : t[k] \in Members(s) BY <1>4 DEF Members
  <2>4. QED BY <2>1, <2>2, <2>3 DEF Members
<1>6. 1 \in DOMAIN s BY <1>1, <1>3
<1>7. ASSUME Injective(s) PROVE Injective(t) /\ Head(s) \notin Members(t)
  <2>1. Injective(t)
    <3> SUFFICES ASSUME NEW j \in DOMAIN t, NEW k \in DOMAIN t, t[j] = t[k] PROVE j = k
      BY DEF Injective
    <3>1. j + 1 = k + 1 BY <1>4, <1>7 DEF Injective
    <3>2. QED BY <1>4, <3>1
  <2>2. Head(s) \notin Members(t) BY <1>2, <1>4, <1>6, <1>7 DEF Injective, Members
  <2>3. QED BY <2>1, <2>2
<1>8. ASSUME Increasing(s) PROVE Increasing(t) /\ \A d \in Members(t) : Head(s) < d
  <2>1. Increasing(t)
    <3> SUFFICES ASSUME NEW j \in DOMAIN t, NEW k \in DOMAIN t, j < k PROVE t[j] < t[k]
      BY DEF Increasing
    <3>1. j + 1 < k + 1 BY <1>4
    <3>2. QED BY <1>4, <1>8, <3>1 DEF Increasing
  <2>2. \A d \in Members(t) : Head(s) < d BY <1>2, <1>4, <1>6, <1>8 DEF Increasing, Members
  <2>3. QED BY <2>1, <2>2
<1>9. QED BY <1>1, <1>2, <1>5, <1>7, <1>8 DEF t

LEMMA NoMembers == Members(<<>>) = {} /\ Injective(<<>>) /\ Increasing(<<>>)
  BY DEF Members, Injective, Increasing

-----------------------------------------------------------------------------
(* Counting the rows of an id.                                             *)

Row == Ids \cup {FollowUp}

LEMMA RowsOfType ==
    ASSUME NEW S, NEW s \in Seq(S), NEW i
    PROVE  /\ IsFiniteSet({k \in DOMAIN s : s[k] = i}) /\ RowsOf(i, s) \in Nat
           /\ RowsOf(i, s) > 0 <=> \E k \in DOMAIN s : s[k] = i
<1> DEFINE A == {k \in DOMAIN s : s[k] = i}
<1>1. Len(s) \in Nat /\ DOMAIN s = 1..Len(s) OBVIOUS
<1>2. IsFiniteSet(1..Len(s)) BY <1>1, FS_Interval
<1>3. A \in SUBSET (1..Len(s)) BY <1>1
<1>4. IsFiniteSet(A) BY <1>2, <1>3, FS_Subset
<1>5. Cardinality(A) \in Nat BY <1>4, FS_CardinalityType
<1>6. Cardinality(A) = 0 <=> A = {} BY <1>4, FS_EmptySet
<1>7. QED BY <1>4, <1>5, <1>6 DEF RowsOf

LEMMA RowsOfAppend ==
    ASSUME NEW S, NEW s \in Seq(S), NEW x \in S, NEW i
    PROVE  RowsOf(i, Append(s, x)) = RowsOf(i, s) + (IF x = i THEN 1 ELSE 0)
<1> DEFINE t == Append(s, x)
           A == {k \in DOMAIN s : s[k] = i}
           B == {k \in DOMAIN t : t[k] = i}
           n == Len(s) + 1
<1>1. /\ Len(s) \in Nat /\ DOMAIN s = 1..Len(s) /\ DOMAIN t = 1..n
      /\ \A k \in 1..Len(s) : t[k] = s[k]
      /\ t[n] = x
  BY AppendProperties
<1>2. IsFiniteSet(A) /\ Cardinality(A) \in Nat BY RowsOfType DEF RowsOf
<1>3. n \notin A BY <1>1
<1>4. \A k \in 1..n : k \in 1..Len(s) \/ k = n BY <1>1
<1>5. \A k \in 1..Len(s) : k \in 1..n BY <1>1
<1>6. n \in 1..n BY <1>1
<1> HIDE DEF t, n
<1>7. CASE x = i
  <2>1. B = A \cup {n} BY <1>1, <1>4, <1>5, <1>6, <1>7
  <2> HIDE DEF A, B
  <2>2. Cardinality(B) = Cardinality(A) + 1 BY <1>2, <1>3, <2>1, FS_AddElement
  <2>3. QED BY <1>7, <2>2 DEF RowsOf, A, B, t
<1>8. CASE x # i
  <2>1. B = A BY <1>1, <1>4, <1>5, <1>8
  <2> HIDE DEF A, B
  <2>2. Cardinality(B) = Cardinality(A) + 0 BY <1>2, <2>1
  <2>3. QED BY <1>8, <2>2 DEF RowsOf, A, B, t
<1>9. QED BY <1>7, <1>8

\* Follow-ups answer no call.
LEMMA RowsOfFollow ==
    ASSUME NEW s \in Seq(Row), NEW f \in Seq({FollowUp}), NEW i \in Ids
    PROVE  s \o f \in Seq(Row) /\ RowsOf(i, s \o f) = RowsOf(i, s)
<1> DEFINE t == s \o f
<1>1. f \in Seq(Row) BY DEF Row
<1>2. /\ t \in Seq(Row) /\ Len(t) = Len(s) + Len(f)
      /\ \A k \in 1 .. Len(s) + Len(f) : t[k] = IF k <= Len(s) THEN s[k] ELSE f[k - Len(s)]
  BY <1>1, ConcatProperties
<1>3. Len(s) \in Nat /\ Len(f) \in Nat /\ DOMAIN s = 1..Len(s) /\ DOMAIN t = 1 .. Len(s) + Len(f)
  BY <1>2
<1>4. ASSUME NEW k \in DOMAIN t, ~(k <= Len(s)) PROVE t[k] # i
  <2>1. k - Len(s) \in 1..Len(f) BY <1>3, <1>4
  <2>2. f[k - Len(s)] = FollowUp BY <2>1
  <2>3. QED BY <1>2, <1>3, <1>4, <2>2, IdsAssumption
<1>5. \A k \in DOMAIN s : k \in DOMAIN t /\ k <= Len(s) /\ t[k] = s[k] BY <1>2, <1>3
<1>6. \A k \in DOMAIN t : k <= Len(s) => k \in DOMAIN s BY <1>3
<1> HIDE DEF t
<1>7. {k \in DOMAIN t : t[k] = i} = {k \in DOMAIN s : s[k] = i} BY <1>4, <1>5, <1>6
<1>8. QED BY <1>2, <1>7 DEF RowsOf, t

\* A prefix has no more rows than the whole.
LEMMA RowsOfPrefix ==
    ASSUME NEW S, NEW s \in Seq(S), NEW n \in 0..Len(s), NEW i
    PROVE  /\ SubSeq(s, 1, n) \in Seq(S) /\ Len(SubSeq(s, 1, n)) = n
           /\ RowsOf(i, SubSeq(s, 1, n)) <= RowsOf(i, s)
<1> DEFINE t == SubSeq(s, 1, n)
           A == {k \in DOMAIN s : s[k] = i}
           B == {k \in DOMAIN t : t[k] = i}
<1>1. Len(s) \in Nat /\ n \in Nat /\ n <= Len(s) /\ DOMAIN s = 1..Len(s) OBVIOUS
<1>2. /\ t \in Seq(S) /\ Len(t) = n /\ \A k \in 1..n : t[k] = s[k]
  <2>1. 1 \in Int /\ n \in Int /\ \A k \in 1..n : s[k] \in S BY <1>1
  <2>2. /\ t \in Seq(S) /\ Len(t) = IF 1 <= n THEN n - 1 + 1 ELSE 0
        /\ \A k \in 1 .. n - 1 + 1 : t[k] = s[1 + k - 1]
    BY <2>1, SubSeqProperties
  <2>3. n - 1 + 1 = n /\ (~(1 <= n) => n = 0) /\ \A k \in 1..n : 1 + k - 1 = k BY <1>1
  <2>4. QED BY <2>2, <2>3
<1>3. DOMAIN t = 1..n BY <1>2
<1>4. B \in SUBSET A
  <2>1. \A k \in 1..n : k \in 1..Len(s) BY <1>1
  <2> HIDE DEF t
  <2>2. QED BY <1>1, <1>2, <1>3, <2>1
<1>5. IsFiniteSet(A) BY RowsOfType
<1> HIDE DEF A, B
<1>6. Cardinality(B) <= Cardinality(A) BY <1>4, <1>5, FS_Subset
<1>7. QED BY <1>2, <1>6 DEF RowsOf, A, B

-----------------------------------------------------------------------------
(* The shape of the state.                                                 *)

\* TypeOK where a counter may still be any integer, and a call to admit.
ShapeOK ==
    /\ pc \in Busy \cup {"next", "ended", "failed", "panicked", "deferred", "down"}
    /\ mode \in {"serial", "concurrent"}
    /\ stage \in {"batch", "resume", "handled"}
    /\ id \in [Calls -> Ids]
    /\ policy \in Policies
    /\ st \in [Calls -> StateOf]
    /\ todo \in Seq(Calls)
    /\ count \in Int
    /\ active \in [Ids -> Int]
    /\ started \in [Calls -> Nat]
    /\ terminal \in [Calls -> Nat]
    /\ rows \in Seq(Row)
    /\ follow \in Seq({FollowUp})
    /\ votes \in Seq(BOOLEAN)
    /\ deferred \in [approvals : Seq(Calls), calls : Seq(Calls)]
    /\ results \subseteq Ids
    /\ whole \in BOOLEAN
    /\ ledger \in [Ids -> EffectStatus]
    /\ unresolved \subseteq Ids
    /\ named \subseteq Ids
    /\ requests \subseteq Ids
    /\ saved \in 0..Len(rows)
    /\ landed \in [Calls -> Int]
    /\ voted \subseteq Calls
    /\ crashes \in 0..MaxCrashes
    /\ resumes \in 0..MaxResumes
    /\ pc = "admit" => todo # <<>>

LEMMA StateNames ==
    /\ {"todo", "Answered", "Failed", "Filed", "Kept", "Free", "Ok", "Fatal", "Paused",
        "Started", "Running", "Deferral", "Tool"} \subseteq StateOf
    /\ Outcomes \subseteq StateOf
    /\ Busy = {"admit", "announce", "execute", "fold", "settle", "resolve", "reconcile"}
  BY DEF StateOf, InGroup, Flying, Answers, Outcomes, Busy

\* The parts of the state a step may change, each of the shape it had.
LEMMA CallMoves ==
    ASSUME st \in [Calls -> StateOf], NEW c \in Calls, NEW s \in StateOf
    PROVE  [st EXCEPT ![c] = s] \in [Calls -> StateOf]
  OBVIOUS

LEMMA SettledShape ==
    ASSUME ledger \in [Ids -> EffectStatus], NEW S, NEW s, Settled(S, s)
    PROVE  ledger' \in [Ids -> EffectStatus]
  BY DEF Settled

LEMMA WithoutShape ==
    ASSUME NEW act \in [Ids -> Int], NEW S \in SUBSET Calls
    PROVE  ActiveWithout(act, S) \in [Ids -> Int]
<1>1. ASSUME NEW i \in Ids PROVE act[i] - Cardinality({c \in S : id[c] = i}) \in Int
  <2>1. {c \in S : id[c] = i} \in SUBSET Calls OBVIOUS
  <2>2. Cardinality({c \in S : id[c] = i}) \in Nat BY <2>1, CallsFinite
  <2>3. QED BY <2>2
<1>2. QED BY <1>1 DEF ActiveWithout

LEMMA AnswerShape ==
    ASSUME ShapeOK, NEW c \in Calls, Answer(c)
    PROVE  /\ st' \in [Calls -> StateOf]
           /\ rows' \in Seq(Row) /\ Len(rows') = Len(rows) + 1
           /\ terminal' \in [Calls -> Nat]
           /\ follow' \in Seq({FollowUp})
           /\ votes' \in Seq(BOOLEAN)
           /\ voted' \subseteq Calls
<1>1. st' \in [Calls -> StateOf] BY StateNames DEF ShapeOK, Answer
<1>2. rows' \in Seq(Row) /\ Len(rows') = Len(rows) + 1
  <2>1. id[c] \in Row BY DEF ShapeOK, Row
  <2>2. QED BY <2>1, AppendProperties DEF ShapeOK, Answer
<1>3. terminal' \in [Calls -> Nat]
  <2>1. terminal \in [Calls -> Nat] /\ terminal' = [terminal EXCEPT ![c] = @ + 1]
    BY DEF ShapeOK, Answer
  <2>2. QED BY <2>1
<1>4. follow' \in Seq({FollowUp})
  <2>1. follow \in Seq({FollowUp}) /\ follow' \in {follow, Append(follow, FollowUp)}
    BY DEF ShapeOK, Answer
  <2>2. QED BY <2>1, AppendProperties
<1>5. PICK v \in BOOLEAN : /\ votes' = Append(votes, v)
                           /\ voted' = IF v THEN voted \cup {c} ELSE voted \ {c}
  BY DEF Answer
<1>6. votes' \in Seq(BOOLEAN) BY <1>5, AppendProperties DEF ShapeOK
<1>7. voted' \subseteq Calls BY <1>5 DEF ShapeOK
<1>8. QED BY <1>1, <1>2, <1>3, <1>4, <1>6, <1>7

\* One more for one call or id.
LEMMA StartShape ==
    ASSUME ShapeOK, NEW c \in Calls
    PROVE  /\ [started EXCEPT ![c] = @ + 1] \in [Calls -> Nat]
           /\ [active EXCEPT ![id[c]] = @ + 1] \in [Ids -> Int]
<1>1. started \in [Calls -> Nat] /\ active \in [Ids -> Int] /\ id[c] \in Ids BY DEF ShapeOK
<1>2. started[c] + 1 \in Nat /\ active[id[c]] + 1 \in Int BY <1>1
<1>3. QED BY ONLY <1>1, <1>2

LEMMA FailAllShape ==
    ASSUME ShapeOK, NEW S, FailAll(S)
    PROVE  st' \in [Calls -> StateOf] /\ terminal' \in [Calls -> Nat]
<1>1. "Failed" \in StateOf BY StateNames
<1>2. st \in [Calls -> StateOf] /\ terminal \in [Calls -> Nat] BY DEF ShapeOK
<1>3. st' \in [Calls -> StateOf] BY ONLY <1>1, <1>2, FailAll(S) DEF FailAll
<1>4. terminal' \in [Calls -> Nat] BY ONLY <1>2, FailAll(S) DEF FailAll
<1>5. QED BY <1>3, <1>4

LEMMA RecoverShape ==
    ASSUME ShapeOK, pc \in {"fold", "resolve"}, NEW c \in Calls, Recover(c)
    PROVE  /\ st' \in [Calls -> StateOf] /\ rows' \in Seq(Row) /\ Len(rows') >= Len(rows)
           /\ terminal' \in [Calls -> Nat] /\ started' \in [Calls -> Nat]
           /\ follow' \in Seq({FollowUp}) /\ votes' \in Seq(BOOLEAN) /\ voted' \subseteq Calls
           /\ pc' \in {pc, "failed"} /\ active' = active
<1>1. started' \in [Calls -> Nat] /\ active' = active
  <2>1. started \in [Calls -> Nat] /\ started' = [started EXCEPT ![c] = @ + 1] /\ active' = active
    BY DEF Recover, ShapeOK
  <2>2. QED BY <2>1
<1>2. Len(rows) \in Nat BY DEF ShapeOK
<1>3. CASE Answer(c) /\ pc' = pc BY <1>1, <1>2, <1>3, AnswerShape
<1>4. CASE FailAll({c}) /\ pc' = "failed" /\ UNCHANGED <<rows, follow, votes, voted>>
  <2>1. st' \in [Calls -> StateOf] /\ terminal' \in [Calls -> Nat] BY <1>4, FailAllShape
  <2>2. rows \in Seq(Row) /\ follow \in Seq({FollowUp}) /\ votes \in Seq(BOOLEAN) /\ voted \subseteq Calls
    BY DEF ShapeOK
  <2>3. votes' \in Seq(BOOLEAN) BY <1>4, <2>2, Zenon
  <2>4. QED BY <1>1, <1>2, <1>4, <2>1, <2>2, <2>3
<1>5. QED BY <1>3, <1>4 DEF Recover

LEMMA FileShape ==
    ASSUME ShapeOK, NEW c \in Calls, File(c)
    PROVE  /\ st' \in [Calls -> StateOf]
           /\ deferred' \in [approvals : Seq(Calls), calls : Seq(Calls)]
<1>1. st' \in [Calls -> StateOf] BY StateNames DEF ShapeOK, File
<1>2. CASE deferred' = [deferred EXCEPT !.approvals = Append(@, c)]
  <2>1. deferred \in [approvals : Seq(Calls), calls : Seq(Calls)] BY DEF ShapeOK
  <2>2. Append(deferred.approvals, c) \in Seq(Calls) BY <2>1, AppendProperties
  <2>3. deferred' = [approvals |-> Append(deferred.approvals, c), calls |-> deferred.calls]
    BY <1>2, <2>1
  <2>4. QED BY <1>1, <2>1, <2>2, <2>3
<1>3. CASE deferred' = [deferred EXCEPT !.calls = Append(@, c)]
  <2>1. deferred \in [approvals : Seq(Calls), calls : Seq(Calls)] BY DEF ShapeOK
  <2>2. Append(deferred.calls, c) \in Seq(Calls) BY <2>1, AppendProperties
  <2>3. deferred' = [approvals |-> deferred.approvals, calls |-> Append(deferred.calls, c)]
    BY <1>3, <2>1
  <2>4. QED BY <1>1, <2>1, <2>2, <2>3
<1>4. QED BY <1>1, <1>2, <1>3 DEF File

LEMMA NoDeferredShape == NoDeferred \in [approvals : Seq(Calls), calls : Seq(Calls)]
  BY DEF NoDeferred

LEMMA NewProcessShape ==
    ASSUME NewProcess
    PROVE  /\ st' \in [Calls -> StateOf] /\ count' \in Int /\ active' \in [Ids -> Int]
           /\ started' \in [Calls -> Nat] /\ terminal' \in [Calls -> Nat]
           /\ follow' \in Seq({FollowUp}) /\ votes' \in Seq(BOOLEAN)
           /\ deferred' \in [approvals : Seq(Calls), calls : Seq(Calls)]
           /\ results' \subseteq Ids /\ whole' \in BOOLEAN /\ stage' \in {"batch", "resume", "handled"}
           /\ voted' \subseteq Calls
<1>1. st' \in [Calls -> StateOf] BY StateNames DEF NewProcess
<1>2. deferred' \in [approvals : Seq(Calls), calls : Seq(Calls)] BY NoDeferredShape DEF NewProcess
<1>3. whole' \in BOOLEAN BY DEF NewProcess
<1>4. QED BY <1>1, <1>2, <1>3 DEF NewProcess

LEMMA ApplyShape ==
    ASSUME ShapeOK, NEW pending \in Seq(Calls), NEW R \in SUBSET Ids,
           NEW by \in {"resume", "handled"}, ApplyDeferredResults(pending, R, by)
    PROVE  /\ pc' \in {"resolve", "failed"} /\ todo' \in Seq(Calls)
           /\ st' \in [Calls -> StateOf] /\ results' \subseteq Ids /\ whole' \in BOOLEAN
           /\ mode' \in {"serial", "concurrent"} /\ stage' \in {"batch", "resume", "handled"}
           /\ votes' \in Seq(BOOLEAN)
           /\ deferred' \in [approvals : Seq(Calls), calls : Seq(Calls)]
<1>1. whole' \in BOOLEAN BY DEF ApplyDeferredResults
<1>2. st' \in [Calls -> StateOf] BY StateNames DEF ShapeOK, ApplyDeferredResults
<1>3. deferred' \in [approvals : Seq(Calls), calls : Seq(Calls)]
  BY NoDeferredShape DEF ApplyDeferredResults
<1>4. todo \in Seq(Calls) BY DEF ShapeOK
<1>5. votes' \in Seq(BOOLEAN) BY DEF ApplyDeferredResults
<1>6. pc' \in {"resolve", "failed"} /\ todo' \in Seq(Calls) BY <1>4 DEF ApplyDeferredResults
<1>7. QED BY <1>1, <1>2, <1>3, <1>5, <1>6 DEF ApplyDeferredResults

LEMMA ReconcileShape ==
    ASSUME ShapeOK, NEW R \in SUBSET Ids, StartReconcile(R)
    PROVE  todo' \in Seq(Calls) /\ unresolved' \subseteq Ids /\ named' \subseteq Ids /\ NewProcess
<1>1. {c \in Calls : RowsOf(id[c], rows) = 0 /\ id[c] \notin Earlier /\ id[c] \notin R}
        \in SUBSET Calls
  OBVIOUS
<1>2. Unanswered(R) \in Seq(Calls)
  <2>1. Unanswered(R) \in Seq({c \in Calls : RowsOf(id[c], rows) = 0 /\ id[c] \notin Earlier
                                                    /\ id[c] \notin R})
    BY <1>1, InOrderIs DEF Unanswered
  <2>2. QED BY <1>1, <2>1
<1>3. QED BY <1>2 DEF StartReconcile

LEMMA ShapeInit == Init => ShapeOK
<1> SUFFICES ASSUME Init PROVE ShapeOK OBVIOUS
<1>1. Calls \in SUBSET Calls OBVIOUS
<1>2. /\ InOrder(Calls) \in Seq(Calls) /\ Len(InOrder(Calls)) = N
  BY <1>1, InOrderIs, CallsAreInts
<1>3. todo # <<>> /\ todo \in Seq(Calls) BY <1>2, NAssumption DEF Init
<1>4. st \in [Calls -> StateOf] BY StateNames DEF Init
<1>5. deferred \in [approvals : Seq(Calls), calls : Seq(Calls)] BY NoDeferredShape DEF Init
<1>6. whole \in BOOLEAN /\ votes \in Seq(BOOLEAN)
  <2>1. whole \in BOOLEAN BY DEF Init
  <2>2. votes = <<>> BY DEF Init
  <2>3. QED BY <2>1, <2>2
<1>7. ledger \in [Ids -> EffectStatus] BY LedgerAssumption DEF Init
<1>8. pc \in Busy /\ mode \in {"serial", "concurrent"} /\ stage \in {"batch", "resume", "handled"}
  BY StateNames DEF Init
<1>9. rows \in Seq(Row) /\ saved \in 0..Len(rows) /\ follow \in Seq({FollowUp}) BY DEF Init
<1>10. crashes \in 0..MaxCrashes /\ resumes \in 0..MaxResumes BY BoundsAssumption DEF Init
<1>11. id \in [Calls -> Ids] /\ policy \in Policies BY DEF Init
<1>12. active \in [Ids -> Int] /\ started \in [Calls -> Nat] /\ terminal \in [Calls -> Nat]
       /\ landed \in [Calls -> Int] /\ count \in Int
  BY DEF Init
<1>13. /\ results \subseteq Ids /\ unresolved \subseteq Ids /\ named \subseteq Ids
       /\ requests \subseteq Ids /\ voted \subseteq Calls
  BY DEF Init
<1>14. QED
  BY <1>3, <1>4, <1>5, <1>6, <1>7, <1>8, <1>9, <1>10, <1>11, <1>12, <1>13, Zenon DEF ShapeOK

LEMMA ShapeStep ==
    ASSUME ShapeOK, [Next]_vars
    PROVE  ShapeOK'
<1> USE DEF given, host, ghosts, bounds
<1> DEFINE Admission(s, slots) == s \in StateOf /\ slots \in Int /\ Admitted(s, slots)
<1>1. ASSUME NEW s, NEW slots, Admission(s, slots) PROVE ShapeOK'
  <2>1. todo # <<>> /\ Head(todo) \in Calls /\ Tail(todo) \in Seq(Calls)
    BY <1>1, HeadTailProperties DEF ShapeOK, Admitted
  <2>2. st' \in [Calls -> StateOf] /\ count' \in Int /\ todo' \in Seq(Calls)
    BY <1>1, <2>1 DEF ShapeOK, Admitted
  <2>3. pc' \in Busy /\ (pc' = "admit" => todo' # <<>>) BY <1>1, StateNames DEF Admitted
  <2>4. QED BY <1>1, <2>2, <2>3 DEF ShapeOK, Admitted
<1>2. CASE Admit
  <2>1. CASE AdmitFails BY <2>1 DEF AdmitFails, ShapeOK
  <2>2. CASE AdmitTool BY <1>1, <2>2, StateNames DEF AdmitTool
  <2>3. CASE AdmitCorrection BY <1>1, <2>3, StateNames DEF AdmitCorrection
  <2>4. CASE AdmitRefusal BY <1>1, <2>4, StateNames DEF AdmitRefusal
  <2>5. CASE AdmitTruncated BY <1>1, <2>5, StateNames DEF AdmitTruncated
  <2>6. CASE AdmitDeferral BY <1>1, <2>6, StateNames DEF AdmitDeferral
  <2>7. QED BY <1>2, <2>1, <2>2, <2>3, <2>4, <2>5, <2>6 DEF Admit
<1>3. ASSUME NEW c \in Calls, CallStep(c) PROVE ShapeOK'
  <2>1. CASE Announce(c)
    <3>1. st' \in [Calls -> StateOf] BY <2>1, StateNames DEF ShapeOK, Announce
    <3>2. started' \in [Calls -> Nat] /\ active' \in [Ids -> Int]
      BY <2>1, StartShape DEF Announce, ToolStarted
    <3>3. ledger' \in [Ids -> EffectStatus] BY <2>1 DEF ShapeOK, Announce, EffectStatus
    <3>4. QED BY <2>1, <3>1, <3>2, <3>3 DEF ShapeOK, Announce
  <2>2. CASE AnnounceFails(c)
    <3> DEFINE S == {d \in Calls : st[d] = "Started"} \cup {c}
               act == [active EXCEPT ![id[c]] = @ + 1]
    <3>1. st' \in [Calls -> StateOf] /\ terminal' \in [Calls -> Nat]
      BY <2>2, FailAllShape DEF AnnounceFails
    <3>2. started' \in [Calls -> Nat] /\ act \in [Ids -> Int] /\ active' = ActiveWithout(act, S)
      BY <2>2, StartShape DEF AnnounceFails
    <3>3. S \in SUBSET Calls OBVIOUS
    <3> HIDE DEF S, act
    <3>4. active' \in [Ids -> Int] BY <3>2, <3>3, WithoutShape
    <3>5. QED BY <2>2, <3>1, <3>2, <3>4 DEF ShapeOK, AnnounceFails
  <2>3. CASE Poll(c)
    <3>1. st' \in [Calls -> StateOf] /\ landed' \in [Calls -> Int]
      BY <2>3, StateNames DEF ShapeOK, Poll
    <3>2. QED BY <2>3, <3>1 DEF ShapeOK, Poll
  <2>4. ASSUME NEW o \in Outcomes, Return(c, o) PROVE ShapeOK'
    <3>1. o \in StateOf BY StateNames
    <3>2. st' \in [Calls -> StateOf] BY <2>4, <3>1 DEF ShapeOK, Return
    <3>3. landed' \in [Calls -> Int]
      <4>1. /\ landed \in [Calls -> Int]
            /\ landed' = [landed EXCEPT ![c] = IF o = "Paused" THEN landed[c] - 1 ELSE landed[c]]
        BY <2>4 DEF ShapeOK, Return
      <4>2. QED BY <4>1
    <3>4. QED BY <2>4, <3>2, <3>3 DEF ShapeOK, Return
  <2>5. CASE FoldAnswer(c)
    <3>1. pc \in {"fold", "resolve"} /\ Recover(c) BY <2>5 DEF FoldAnswer
    <3>2. /\ st' \in [Calls -> StateOf] /\ rows' \in Seq(Row) /\ Len(rows') >= Len(rows)
          /\ terminal' \in [Calls -> Nat] /\ started' \in [Calls -> Nat]
          /\ follow' \in Seq({FollowUp}) /\ votes' \in Seq(BOOLEAN) /\ voted' \subseteq Calls
          /\ pc' \in {pc, "failed"} /\ active' = active
      BY <3>1, RecoverShape
    <3>3. saved' \in 0..Len(rows') BY <2>5, <3>2 DEF ShapeOK, FoldAnswer
    <3>4. pc' # "admit" /\ pc' \in Busy \cup {"failed"} BY <3>1, <3>2, StateNames
    <3>5. QED BY <2>5, <3>2, <3>3, <3>4 DEF ShapeOK, FoldAnswer
  <2>6. CASE FoldDeferral(c)
    <3>1. /\ st' \in [Calls -> StateOf]
          /\ deferred' \in [approvals : Seq(Calls), calls : Seq(Calls)]
      BY <2>6, FileShape DEF FoldDeferral
    <3>2. QED BY <2>6, <3>1 DEF ShapeOK, FoldDeferral
  <2>7. CASE FoldPaused(c)
    <3>1. /\ st' \in [Calls -> StateOf]
          /\ deferred' \in [approvals : Seq(Calls), calls : Seq(Calls)]
      BY <2>7, FileShape DEF FoldPaused
    <3>2. terminal' \in [Calls -> Nat] /\ count' \in Int BY <2>7 DEF ShapeOK, FoldPaused
    <3>3. ledger' \in [Ids -> EffectStatus] BY <2>7, SettledShape DEF ShapeOK, FoldPaused
    <3>4. active' \in [Ids -> Int] BY <2>7, WithoutShape DEF ShapeOK, FoldPaused
    <3>5. QED BY <2>7, <3>1, <3>2, <3>3, <3>4 DEF ShapeOK, FoldPaused
  <2>8. CASE FoldOk(c)
    <3>1. /\ st' \in [Calls -> StateOf]
          /\ rows' \in Seq(Row) /\ Len(rows') = Len(rows) + 1
          /\ terminal' \in [Calls -> Nat]
          /\ follow' \in Seq({FollowUp})
          /\ votes' \in Seq(BOOLEAN)
          /\ voted' \subseteq Calls
      BY <2>8, AnswerShape DEF FoldOk
    <3>2. ledger' \in [Ids -> EffectStatus] BY <2>8, SettledShape DEF ShapeOK, FoldOk
    <3>3. active' \in [Ids -> Int] BY <2>8, WithoutShape DEF ShapeOK, FoldOk
    <3>4. saved' \in 0..Len(rows') BY <2>8, <3>1 DEF ShapeOK, FoldOk
    <3>5. QED BY <2>8, <3>1, <3>2, <3>3, <3>4 DEF ShapeOK, FoldOk
  <2>9. CASE FoldOkFails(c)
    <3>1. st' \in [Calls -> StateOf] /\ terminal' \in [Calls -> Nat]
      BY <2>9, FailAllShape DEF FoldOkFails
    <3>2. ledger' \in [Ids -> EffectStatus] BY <2>9, SettledShape DEF ShapeOK, FoldOkFails
    <3>3. active' \in [Ids -> Int] BY <2>9, WithoutShape DEF ShapeOK, FoldOkFails
    <3>4. QED BY <2>9, <3>1, <3>2, <3>3 DEF ShapeOK, FoldOkFails
  <2>10. CASE FoldFatal(c)
    <3> DEFINE S == {d \in Calls : st[d] \in Outcomes}
    <3>1. FailAll(S) /\ Settled(S, "Failed") /\ active' = ActiveWithout(active, S)
      BY <2>10 DEF FoldFatal
    <3>2. S \in SUBSET Calls OBVIOUS
    <3> HIDE DEF S
    <3>3. st' \in [Calls -> StateOf] /\ terminal' \in [Calls -> Nat] BY <3>1, FailAllShape
    <3>4. ledger' \in [Ids -> EffectStatus] BY <3>1, SettledShape DEF ShapeOK
    <3>5. active' \in [Ids -> Int] BY <3>1, <3>2, WithoutShape DEF ShapeOK
    <3>6. QED BY <2>10, <3>3, <3>4, <3>5 DEF ShapeOK, FoldFatal
  <2>11. QED
    BY <1>3, <2>1, <2>2, <2>3, <2>4, <2>5, <2>6, <2>7, <2>8, <2>9, <2>10 DEF CallStep, Fold
<1>4. CASE BatchStep
  <2>1. CASE Announced BY <2>1, StateNames DEF Announced, ShapeOK
  <2>2. CASE Executed BY <2>2, StateNames DEF Executed, ShapeOK
  <2>3. CASE FoldNext BY <2>3, StateNames DEF FoldNext, ShapeOK
  <2>4. CASE EndBatch
    <3>1. rows' \in Seq(Row) /\ Len(rows') = Len(rows) + Len(follow)
      <4>1. rows \in Seq(Row) /\ follow \in Seq(Row) BY DEF ShapeOK, Row
      <4>2. QED BY <2>4, <4>1, ConcatProperties DEF EndBatch
    <3>2. saved' \in 0..Len(rows') BY <2>4, <3>1 DEF ShapeOK, EndBatch
    <3>3. votes' \in Seq(BOOLEAN) /\ follow' \in Seq({FollowUp}) BY <2>4 DEF EndBatch
    <3>4. pc' \in {"ended", "settle"} BY <2>4 DEF EndBatch
    <3>5. QED BY <2>4, <3>1, <3>2, <3>3, <3>4, StateNames DEF ShapeOK, EndBatch
  <2>5. CASE Continue BY <2>5 DEF Continue, ShapeOK
  <2>6. CASE ExitDeferred
    <3>1. requests' \subseteq Ids BY <2>6 DEF ExitDeferred, ShapeOK
    <3>2. saved' \in 0..Len(rows') BY <2>6 DEF ExitDeferred, ShapeOK
    <3>3. QED BY <2>6, <3>1, <3>2 DEF ExitDeferred, ShapeOK
  <2>7. CASE HandleDeferred
    <3>1. PICK R \in SUBSET {id[c] : c \in {d \in Calls : st[d] = "Filed"}} :
             ApplyDeferredResults(deferred.approvals \o deferred.calls, R, "handled")
      BY <2>7 DEF HandleDeferred
    <3>2. R \in SUBSET Ids BY DEF ShapeOK
    <3>3. deferred.approvals \o deferred.calls \in Seq(Calls) BY ConcatProperties DEF ShapeOK
    <3>4. /\ pc' \in {"resolve", "failed"} /\ todo' \in Seq(Calls)
          /\ st' \in [Calls -> StateOf] /\ results' \subseteq Ids /\ whole' \in BOOLEAN
          /\ mode' \in {"serial", "concurrent"} /\ stage' \in {"batch", "resume", "handled"}
          /\ votes' \in Seq(BOOLEAN)
          /\ deferred' \in [approvals : Seq(Calls), calls : Seq(Calls)]
      BY <3>1, <3>2, <3>3, ApplyShape
    <3>5. QED BY <2>7, <3>4, StateNames DEF HandleDeferred, ShapeOK
  <2>8. CASE ResolveAnswer
    <3>1. /\ pc \in {"fold", "resolve"} /\ Recover(Head(todo)) /\ Head(todo) \in Calls
          /\ Tail(todo) \in Seq(Calls)
      BY <2>8, HeadTailProperties DEF ResolveAnswer, ShapeOK
    <3>2. /\ st' \in [Calls -> StateOf] /\ rows' \in Seq(Row) /\ Len(rows') >= Len(rows)
          /\ terminal' \in [Calls -> Nat] /\ started' \in [Calls -> Nat]
          /\ follow' \in Seq({FollowUp}) /\ votes' \in Seq(BOOLEAN) /\ voted' \subseteq Calls
          /\ pc' \in {pc, "failed"} /\ active' = active
      BY <3>1, RecoverShape
    <3>3. saved' \in 0..Len(rows') BY <2>8, <3>2 DEF ShapeOK, ResolveAnswer
    <3>4. pc' # "admit" /\ pc' \in Busy \cup {"failed"} BY <3>1, <3>2, StateNames
    <3>5. results' \subseteq Ids /\ todo' \in Seq(Calls) BY <2>8, <3>1 DEF ShapeOK, ResolveAnswer
    <3>6. QED BY <2>8, <3>2, <3>3, <3>4, <3>5 DEF ShapeOK, ResolveAnswer
  <2>9. CASE ResolveApprove
    <3>1. results' \subseteq Ids /\ pc' \in Busy /\ todo' # <<>>
      BY <2>9, StateNames DEF ShapeOK, ResolveApprove
    <3>2. QED BY <2>9, <3>1 DEF ShapeOK, ResolveApprove
  <2>10. CASE ResolvePanics BY <2>10 DEF ShapeOK, ResolvePanics
  <2>11. CASE ReconcileCall
    <3>1. Head(todo) \in Calls /\ Tail(todo) \in Seq(Calls) /\ id[Head(todo)] \in Row
      BY <2>11, HeadTailProperties DEF ReconcileCall, ShapeOK, Row
    <3>2. \/ rows' = rows /\ ledger' = ledger
          \/ rows' = Append(rows, id[Head(todo)]) /\ Settled({Head(todo)}, "Interrupted")
      BY <2>11 DEF ReconcileCall
    <3>3. rows' \in Seq(Row) /\ Len(rows') >= Len(rows)
      <4>1. rows \in Seq(Row) /\ Len(rows) \in Nat BY DEF ShapeOK
      <4>2. rows' \in {rows, Append(rows, id[Head(todo)])} BY <3>2
      <4>3. QED BY <3>1, <4>1, <4>2, AppendProperties
    <3>4. ledger' \in [Ids -> EffectStatus] BY <3>2, SettledShape DEF ShapeOK
    <3>5. saved' \in 0..Len(rows') BY <2>11, <3>3 DEF ShapeOK, ReconcileCall
    <3>6. QED BY <2>11, <3>1, <3>3, <3>4, <3>5 DEF ShapeOK, ReconcileCall
  <2>12. CASE ReconcileFails BY <2>12 DEF ShapeOK, ReconcileFails
  <2>13. CASE ResumeLoop
    <3>1. CASE PendingToolCalls(rows) = <<>> BY <2>13, <3>1 DEF ShapeOK, ResumeLoop
    <3>2. CASE PendingToolCalls(rows) # <<>>
      <4>1. PendingToolCalls(rows) \in Seq(Calls)
        <5>1. {c \in Calls : Pending(c, rows)} \in SUBSET Calls OBVIOUS
        <5>2. QED BY <5>1, InOrderIs DEF PendingToolCalls
      <4>2. named \in SUBSET Ids BY DEF ShapeOK
      <4>3. /\ pc' \in {"resolve", "failed"} /\ todo' \in Seq(Calls)
            /\ st' \in [Calls -> StateOf] /\ results' \subseteq Ids /\ whole' \in BOOLEAN
            /\ mode' \in {"serial", "concurrent"} /\ stage' \in {"batch", "resume", "handled"}
            /\ votes' \in Seq(BOOLEAN)
            /\ deferred' \in [approvals : Seq(Calls), calls : Seq(Calls)]
        BY <2>13, <3>2, <4>1, <4>2, ApplyShape DEF ResumeLoop
      <4>4. QED BY <2>13, <4>3, StateNames DEF ResumeLoop, ShapeOK
    <3>3. QED BY <3>1, <3>2
  <2>14. CASE ReenterLoop BY <2>14 DEF ShapeOK, ReenterLoop
  <2>15. QED
    BY <1>4, <2>1, <2>2, <2>3, <2>4, <2>5, <2>6, <2>7, <2>8, <2>9, <2>10, <2>11, <2>12, <2>13,
       <2>14
    DEF BatchStep
<1>5. CASE Crash
  <2>1. PICK k \in saved..Len(rows) : rows' = SubSeq(rows, 1, k) /\ saved' = k BY <1>5 DEF Crash
  <2>2. k \in 0..Len(rows) BY DEF ShapeOK
  <2>3. rows' \in Seq(Row) /\ saved' \in 0..Len(rows')
    <3>1. rows \in Seq(Row) BY DEF ShapeOK
    <3>2. rows' \in Seq(Row) /\ Len(rows') = k BY <2>1, <2>2, <3>1, RowsOfPrefix
    <3>3. QED BY ONLY <2>1, <2>2, <3>2
  <2>4. crashes' \in 0..MaxCrashes BY <1>5, BoundsAssumption DEF Crash, ShapeOK
  <2>5. NewProcess /\ todo' = <<>> /\ pc' = "down" BY <1>5 DEF Crash
  <2>6. todo' \in Seq(Calls) /\ pc' # "admit" BY <2>5
  <2>7. QED BY <1>5, <2>3, <2>4, <2>5, <2>6, NewProcessShape DEF Crash, ShapeOK
<1>6. CASE ResumeDeferred
  <2>1. PICK R \in (SUBSET requests) \ {{}} : StartReconcile(R) BY <1>6 DEF ResumeDeferred
  <2>2. R \in SUBSET Ids BY DEF ShapeOK
  <2>3. todo' \in Seq(Calls) /\ unresolved' \subseteq Ids /\ named' \subseteq Ids /\ NewProcess
    BY <2>1, <2>2, ReconcileShape
  <2>4. resumes' \in 0..MaxResumes BY <1>6, BoundsAssumption DEF ResumeDeferred, ShapeOK
  <2>5. pc' \in Busy /\ pc' # "admit" BY <2>1, StateNames DEF StartReconcile
  <2>6. QED BY <1>6, <2>3, <2>4, <2>5, NewProcessShape DEF ResumeDeferred, ShapeOK
<1>7. CASE Reenter
  <2>1. {} \in SUBSET Ids OBVIOUS
  <2>2. todo' \in Seq(Calls) /\ unresolved' \subseteq Ids /\ named' \subseteq Ids /\ NewProcess
    BY <1>7, <2>1, ReconcileShape DEF Reenter
  <2>3. pc' \in Busy /\ pc' # "admit" BY <1>7, StateNames DEF Reenter, StartReconcile
  <2>4. QED BY <1>7, <2>2, <2>3, NewProcessShape DEF Reenter, ShapeOK
<1>8. CASE UNCHANGED vars BY <1>8 DEF vars, ShapeOK
<1>9. QED
  BY <1>2, <1>3, <1>4, <1>5, <1>6, <1>7, <1>8 DEF Next, Drive, Quiescent

-----------------------------------------------------------------------------
(* The phases of a batch.                                                  *)

\* What the calls in hand may be in each phase; a serial batch has one in hand; a
\* failed driver leaves in flight only what came after a failed call.
PhaseInv ==
    /\ pc = "admit" => /\ \A c \in Group : st[c] \in Answers \cup {"Deferral", "Tool"}
                       /\ mode = "serial" => Group = {}
    /\ pc = "announce" =>
          \A c \in Group : st[c] \in Answers \cup {"Deferral", "Tool", "Started"}
    /\ pc = "execute" => \A c \in Group : st[c] # "Tool"
    /\ pc = "fold" => \A c \in Group : st[c] \in Answers \cup {"Deferral"} \cup Outcomes
    /\ pc \notin {"admit", "announce", "execute", "fold", "failed"} => Group = {}
    /\ mode = "serial" => \A c, d \in Group : c = d
    /\ \A c \in Calls : st[c] = "Failed" => pc = "failed"
    /\ pc = "failed" => \A c \in Calls : st[c] \in Flying =>
            /\ mode = "concurrent" /\ st[c] \in Outcomes
            /\ \E d \in Calls : d < c /\ st[d] = "Failed"

LEMMA Names ==
    /\ Answers = {"Kept", "Free"} /\ Outcomes = {"Ok", "Fatal", "Paused"}
    /\ Flying = {"Started", "Running", "Ok", "Fatal", "Paused"}
    /\ InGroup = {"Kept", "Free", "Started", "Running", "Ok", "Fatal", "Paused", "Deferral", "Tool"}
  BY DEF Answers, Outcomes, Flying, InGroup

LEMMA PhaseInit == Init => PhaseInv
  BY Names DEF Init, PhaseInv, Group

\* The same calls in hand, none failed.
LEMMA PhaseSame ==
    ASSUME PhaseInv, pc' = pc, mode' = mode, st' = st
    PROVE  PhaseInv'
  BY DEF PhaseInv, Group

\* A driver that gives up with nothing in flight.
LEMMA PhaseGivesUp ==
    ASSUME PhaseInv, pc' = "failed", st' = st, \A c \in Calls : st[c] \notin Flying,
           mode' = mode \/ Group = {}
    PROVE  PhaseInv'
  BY DEF PhaseInv, Group

LEMMA NewProcessPhase ==
    ASSUME NewProcess, pc' # "failed"
    PROVE  PhaseInv'
  BY Names DEF NewProcess, PhaseInv, Group

LEMMA RecoverPhase ==
    ASSUME ShapeOK, PhaseInv, NEW c \in Calls, Recover(c), mode' = mode,
           \/ pc = "fold" /\ Leads(c, Group) /\ st[c] \in Answers
           \/ pc = "resolve"
    PROVE  PhaseInv'
<1>1. pc # "failed" /\ c \in Int /\ Calls \subseteq Int BY CallsAreInts
<1>2. CASE Answer(c) /\ pc' = pc
  <2>1. st' = [st EXCEPT ![c] = "Answered"] BY <1>2 DEF Answer
  <2>2. \A d \in Calls : st'[d] = IF d = c THEN "Answered" ELSE st[d] BY <2>1 DEF ShapeOK
  <2>3. QED BY <1>1, <1>2, <2>2, Names DEF PhaseInv, Group
<1>3. CASE FailAll({c}) /\ pc' = "failed"
  <2>1. \A d \in Calls : st'[d] = IF d = c THEN "Failed" ELSE st[d] BY <1>3 DEF FailAll
  <2>2. CASE pc = "resolve" BY <1>1, <1>3, <2>1, <2>2, Names DEF PhaseInv, Group
  <2>3. CASE pc = "fold" /\ Leads(c, Group) /\ st[c] \in Answers
    <3>1. ASSUME NEW d \in Calls, st'[d] \in Flying
          PROVE  mode = "concurrent" /\ st'[d] \in Outcomes /\ c < d
      <4>1. d # c /\ st[d] \in Flying /\ st'[d] = st[d] BY <2>1, <3>1, Names
      <4>2. d \in Group /\ c \in Group /\ c <= d BY <2>3, <4>1, Names DEF Group, Leads
      <4>3. c < d BY <1>1, <4>1, <4>2
      <4>4. mode # "serial" BY <4>1, <4>2 DEF PhaseInv
      <4>5. st[d] \in Outcomes BY <2>3, <4>1, <4>2, Names DEF PhaseInv
      <4>6. mode = "concurrent" BY <4>4 DEF ShapeOK
      <4>7. QED BY <4>1, <4>3, <4>5, <4>6
    <3>2. st'[c] = "Failed" BY <2>1
    <3>3. \A d, e \in Calls : d \in Group' /\ e \in Group' => d \in Group /\ e \in Group
      BY <2>1, Names DEF Group
    <3>4. mode' = "serial" => \A d, e \in Group' : d = e
      BY <3>3 DEF PhaseInv, Group
    <3>5. QED BY <1>3, <3>1, <3>2, <3>4 DEF PhaseInv
  <2>4. QED BY <2>2, <2>3
<1>4. QED BY <1>2, <1>3 DEF Recover

\* A call of the group that moves on within the phase.
LEMMA PhaseMoves ==
    ASSUME ShapeOK, PhaseInv, NEW c \in Calls, NEW s, st' = [st EXCEPT ![c] = s],
           pc' = pc, mode' = mode, c \in Group,
           \/ pc = "announce" /\ s = "Started"
           \/ pc = "execute" /\ s \in {"Running"} \cup Outcomes
           \/ pc = "fold" /\ s \in {"Answered", "Filed"}
    PROVE  PhaseInv'
<1>1. \A d \in Calls : st'[d] = IF d = c THEN s ELSE st[d] BY DEF ShapeOK
<1>2. Group' \subseteq Group BY <1>1 DEF Group
<1>3. mode' = "serial" => \A d, e \in Group' : d = e BY <1>2 DEF PhaseInv
<1>4. \A d \in Calls : st'[d] # "Failed" BY <1>1, Names DEF PhaseInv
<1>5. CASE pc = "announce" BY <1>1, <1>2, <1>3, <1>4, <1>5, Names DEF PhaseInv
<1>6. CASE pc = "execute" BY <1>1, <1>2, <1>3, <1>4, <1>6, Names DEF PhaseInv
<1>7. CASE pc = "fold"
  <2>1. c \notin Group' BY <1>1, <1>7, Names DEF Group
  <2>2. \A d \in Group' : st'[d] = st[d] /\ d \in Group BY <1>1, <1>2, <2>1 DEF Group
  <2>3. QED BY <1>3, <1>4, <1>7, <2>2 DEF PhaseInv
<1>8. QED BY <1>5, <1>6, <1>7

LEMMA PhaseStep ==
    ASSUME ShapeOK, PhaseInv, [Next]_vars
    PROVE  PhaseInv'
<1> USE DEF given, host, ghosts, bounds
<1>1. ASSUME NEW s \in Answers \cup {"Deferral", "Tool"}, NEW slots, Admitted(s, slots)
      PROVE  PhaseInv'
  <2>1. todo # <<>> /\ Head(todo) \in Calls
    BY <1>1, HeadTailProperties DEF ShapeOK, Admitted
  <2> DEFINE c == Head(todo)
  <2>2. \A d \in Calls : st'[d] = IF d = c THEN s ELSE st[d] BY <1>1 DEF ShapeOK, Admitted
  <2>3. pc = "admit" /\ pc' \in {"admit", "announce"} /\ (mode = "serial" => pc' = "announce")
        /\ mode' = mode
    BY <1>1 DEF Admitted
  <2> HIDE DEF c
  <2>4. \A d \in Group' : d = c \/ d \in Group BY <2>2 DEF Group
  <2>5. mode = "serial" => Group = {} BY <2>3 DEF PhaseInv
  <2>6. mode' = "serial" => \A d, e \in Group' : d = e BY <2>3, <2>4, <2>5
  <2>7. \A d \in Calls : st'[d] # "Failed" BY <1>1, <2>2, <2>3, Names DEF PhaseInv
  <2>8. \A d \in Group' : st'[d] \in Answers \cup {"Deferral", "Tool"}
    BY <1>1, <2>2, <2>3, <2>4 DEF PhaseInv, Group
  <2>9. QED BY <2>3, <2>6, <2>7, <2>8 DEF PhaseInv
<1>2. CASE Admit
  <2>1. CASE AdmitFails
    <3>1. \A c \in Calls : st[c] \notin Flying BY <2>1, Names DEF PhaseInv, Group, AdmitFails
    <3>2. QED BY <2>1, <3>1, PhaseGivesUp DEF AdmitFails
  <2>2. CASE AdmitTool BY <1>1, <2>2 DEF AdmitTool
  <2>3. CASE AdmitCorrection BY <1>1, <2>3, Names DEF AdmitCorrection
  <2>4. CASE AdmitRefusal BY <1>1, <2>4, Names DEF AdmitRefusal
  <2>5. CASE AdmitTruncated BY <1>1, <2>5, Names DEF AdmitTruncated
  <2>6. CASE AdmitDeferral BY <1>1, <2>6 DEF AdmitDeferral
  <2>7. QED BY <1>2, <2>1, <2>2, <2>3, <2>4, <2>5, <2>6 DEF Admit
<1>3. ASSUME NEW c \in Calls, CallStep(c) PROVE PhaseInv'
  <2>1. CASE Announce(c)
    <3>1. c \in Group BY <2>1, Names DEF Announce, Leads, Group
    <3>2. QED BY <2>1, <3>1, PhaseMoves DEF Announce
  <2>2. CASE AnnounceFails(c)
    <3> DEFINE S == {d \in Calls : st[d] = "Started"} \cup {c}
    <3>1. FailAll(S) /\ pc = "announce" /\ pc' = "failed" /\ mode' = mode BY <2>2 DEF AnnounceFails
    <3>2. \A d \in Calls : st'[d] = IF d \in S THEN "Failed" ELSE st[d] BY <3>1 DEF FailAll
    <3>3. \A d \in Calls : st[d] \in Flying => st[d] = "Started"
      BY <3>1, Names DEF PhaseInv, Group
    <3>4. \A d \in Calls : st'[d] \notin Flying BY <3>2, <3>3, Names
    <3>5. \A d \in Group' : d \in Group BY <3>2, Names DEF Group
    <3>6. QED BY <3>1, <3>4, <3>5 DEF PhaseInv
  <2>3. CASE Poll(c)
    <3>1. c \in Group BY <2>3, Names DEF Poll, Group
    <3>2. QED BY <2>3, <3>1, PhaseMoves DEF Poll
  <2>4. ASSUME NEW o \in Outcomes, Return(c, o) PROVE PhaseInv'
    <3>1. c \in Group BY <2>4, Names DEF Return, Group
    <3>2. QED BY <2>4, <3>1, PhaseMoves DEF Return
  <2>5. CASE FoldAnswer(c) BY <2>5, RecoverPhase DEF FoldAnswer
  <2>6. CASE FoldDeferral(c)
    <3>1. c \in Group BY <2>6 DEF FoldDeferral, Leads
    <3>2. QED BY <2>6, <3>1, PhaseMoves DEF FoldDeferral, File
  <2>7. CASE FoldPaused(c)
    <3>1. c \in Group BY <2>7 DEF FoldPaused, Leads
    <3>2. QED BY <2>7, <3>1, PhaseMoves DEF FoldPaused, File
  <2>8. CASE FoldOk(c)
    <3>1. c \in Group BY <2>8 DEF FoldOk, Leads
    <3>2. /\ st' = [st EXCEPT ![c] = "Answered"] /\ pc' = pc /\ mode' = mode /\ pc = "fold"
      BY <2>8 DEF FoldOk, Answer
    <3>3. QED BY <3>1, <3>2, PhaseMoves
  <2>9. CASE FoldOkFails(c)
    <3>1. \A d \in Calls : st'[d] = IF d = c THEN "Failed" ELSE st[d]
      BY <2>9 DEF FoldOkFails, FailAll
    <3>2. pc = "fold" /\ pc' = "failed" /\ mode' = mode /\ Leads(c, Group) BY <2>9 DEF FoldOkFails
    <3>3. ASSUME NEW d \in Calls, st'[d] \in Flying
          PROVE  mode = "concurrent" /\ st'[d] \in Outcomes /\ c < d
      <4>1. d # c /\ st[d] \in Flying /\ st'[d] = st[d] BY <3>1, <3>3, Names
      <4>2. d \in Group /\ c \in Group /\ c <= d BY <3>2, <4>1, Names DEF Group, Leads
      <4>3. c < d BY <4>1, <4>2, CallsAreInts
      <4>4. mode # "serial" BY <4>1, <4>2 DEF PhaseInv
      <4>5. st[d] \in Outcomes BY <3>2, <4>1, <4>2, Names DEF PhaseInv
      <4>6. mode = "concurrent" BY <4>4 DEF ShapeOK
      <4>7. QED BY <4>1, <4>3, <4>5, <4>6
    <3>4. st'[c] = "Failed" BY <3>1
    <3>5. \A d \in Group' : d \in Group BY <3>1, Names DEF Group
    <3>6. QED BY <3>2, <3>3, <3>4, <3>5 DEF PhaseInv
  <2>10. CASE FoldFatal(c)
    <3> DEFINE S == {d \in Calls : st[d] \in Outcomes}
    <3>1. FailAll(S) /\ pc = "fold" /\ pc' = "failed" /\ mode' = mode BY <2>10 DEF FoldFatal
    <3>2. \A d \in Calls : st'[d] = IF d \in S THEN "Failed" ELSE st[d] BY <3>1 DEF FailAll
    <3>3. \A d \in Calls : st[d] \in Flying => st[d] \in Outcomes
      BY <3>1, Names DEF PhaseInv, Group
    <3>4. \A d \in Calls : st'[d] \notin Flying BY <3>2, <3>3, Names
    <3>5. \A d \in Group' : d \in Group BY <3>2, Names DEF Group
    <3>6. QED BY <3>1, <3>4, <3>5 DEF PhaseInv
  <2>11. QED
    BY <1>3, <2>1, <2>2, <2>3, <2>4, <2>5, <2>6, <2>7, <2>8, <2>9, <2>10 DEF CallStep, Fold
<1>4. CASE BatchStep
  <2>1. CASE Announced BY <2>1, Names DEF Announced, PhaseInv, Group
  <2>2. CASE Executed BY <2>2, Names DEF Executed, PhaseInv, Group
  <2>3. CASE FoldNext BY <2>3, Names DEF FoldNext, PhaseInv, Group
  <2>4. CASE EndBatch BY <2>4, Names DEF EndBatch, PhaseInv, Group
  <2>5. CASE Continue BY <2>5, Names DEF Continue, PhaseInv, Group
  <2>6. CASE ExitDeferred BY <2>6, Names DEF ExitDeferred, PhaseInv, Group
  <2>7. ASSUME NEW pending, NEW R, NEW by, ApplyDeferredResults(pending, R, by), pc \in {"settle", "reconcile"}
        PROVE  PhaseInv'
    <3>1. Group = {} /\ \A c \in Calls : st[c] # "Failed" BY <2>7 DEF PhaseInv
    <3>2. \A c \in Calls : st'[c] = st[c] \/ (st[c] = "Filed" /\ st'[c] = "todo")
      BY <2>7 DEF ApplyDeferredResults
    <3>3. Group' = {} BY <3>1, <3>2, Names DEF Group
    <3>4. \A c \in Calls : st'[c] \notin Flying /\ st'[c] # "Failed"
      BY <3>1, <3>2, <3>3, Names DEF Group
    <3>5. QED BY <3>3, <3>4 DEF PhaseInv
  <2>8. CASE HandleDeferred BY <2>7, <2>8 DEF HandleDeferred
  <2>9. CASE ResolveAnswer
    <3>1. Head(todo) \in Calls BY <2>9, HeadTailProperties DEF ResolveAnswer, ShapeOK
    <3>2. QED BY <2>9, <3>1, RecoverPhase DEF ResolveAnswer
  <2>10. CASE ResolveApprove BY <2>10, Names DEF ResolveApprove, PhaseInv, Group
  <2>11. CASE ResolvePanics BY <2>11, Names DEF ResolvePanics, PhaseInv, Group
  <2>12. CASE ReconcileCall BY <2>12, PhaseSame DEF ReconcileCall
  <2>13. CASE ReconcileFails
    <3>1. Group = {} BY <2>13 DEF ReconcileFails, PhaseInv
    <3>2. \A c \in Calls : st[c] \notin Flying BY <3>1, Names DEF Group
    <3>3. QED BY <2>13, <3>2, PhaseGivesUp DEF ReconcileFails
  <2>14. CASE ResumeLoop
    <3>1. CASE PendingToolCalls(rows) = <<>>
      <4>1. Group = {} BY <2>14 DEF ResumeLoop, PhaseInv
      <4>2. \A c \in Calls : st[c] \notin Flying BY <4>1, Names DEF Group
      <4>3. QED BY <2>14, <3>1, <4>2, PhaseGivesUp DEF ResumeLoop
    <3>2. CASE PendingToolCalls(rows) # <<>> BY <2>7, <2>14, <3>2 DEF ResumeLoop
    <3>3. QED BY <3>1, <3>2
  <2>15. CASE ReenterLoop BY <2>15, Names DEF ReenterLoop, PhaseInv, Group
  <2>16. QED
    BY <1>4, <2>1, <2>2, <2>3, <2>4, <2>5, <2>6, <2>8, <2>9, <2>10, <2>11, <2>12, <2>13,
       <2>14, <2>15
    DEF BatchStep
<1>5. CASE Crash BY <1>5, NewProcessPhase DEF Crash
<1>6. CASE ResumeDeferred BY <1>6, NewProcessPhase DEF ResumeDeferred, StartReconcile
<1>7. CASE Reenter BY <1>7, NewProcessPhase DEF Reenter, StartReconcile
<1>8. CASE UNCHANGED vars BY <1>8, PhaseSame DEF vars
<1>9. QED
  BY <1>2, <1>3, <1>4, <1>5, <1>6, <1>7, <1>8 DEF Next, Drive, Quiescent

-----------------------------------------------------------------------------
(* What is still to take up, and what is filed.                            *)

\* The phases in which the driver takes calls up, and those of a batch.
Taking == {"admit", "announce", "execute", "fold", "resolve"}

Working == Taking \cup {"settle"}

\* The calls still to take up are there once, and untouched.
TodoInv ==
    /\ Injective(todo)
    /\ \A c \in Members(todo) : st[c] = "todo"
    /\ pc = "settle" => todo = <<>>
    /\ pc \in {"reconcile", "down"} => \A c \in Calls : st[c] = "todo"
    /\ pc = "resolve" => stage # "batch"

\* The requests being collected are the filed calls, each there once.
DeferInv ==
    pc \in Working =>
        /\ Injective(deferred.approvals) /\ Injective(deferred.calls)
        /\ Members(deferred.approvals) \cap Members(deferred.calls) = {}
        /\ \A c \in Calls : st[c] = "Filed" <=>
              c \in Members(deferred.approvals) \cup Members(deferred.calls)

LEMMA MembersType ==
    ASSUME NEW S, NEW s \in Seq(S)
    PROVE  Members(s) \subseteq S
<1>1. DOMAIN s = 1..Len(s) /\ \A k \in 1..Len(s) : s[k] \in S OBVIOUS
<1>2. QED BY <1>1 DEF Members

LEMMA MembersAppend ==
    ASSUME NEW S, NEW s \in Seq(S), NEW x \in S
    PROVE  /\ Append(s, x) \in Seq(S)
           /\ Members(Append(s, x)) = Members(s) \cup {x}
           /\ Injective(s) /\ x \notin Members(s) => Injective(Append(s, x))
<1> DEFINE t == Append(s, x)
           n == Len(s) + 1
<1>1. /\ t \in Seq(S) /\ DOMAIN s = 1..Len(s) /\ DOMAIN t = 1..n /\ Len(s) \in Nat
      /\ \A k \in 1..Len(s) : t[k] = s[k]
      /\ t[n] = x
  BY AppendProperties
<1>2. /\ \A k \in DOMAIN s : k \in DOMAIN t /\ t[k] = s[k]
      /\ \A k \in DOMAIN t : k \in DOMAIN s \/ k = n
      /\ n \in DOMAIN t
  BY <1>1
<1>3. t[n] = x BY <1>1
<1> HIDE DEF t, n
<1>4. Members(t) = Members(s) \cup {x} BY <1>2, <1>3 DEF Members
<1>5. Injective(s) /\ x \notin Members(s) => Injective(t) BY <1>2, <1>3 DEF Members, Injective
<1>6. QED BY <1>1, <1>4, <1>5 DEF t

LEMMA MembersConcat ==
    ASSUME NEW S, NEW s \in Seq(S), NEW t \in Seq(S), Injective(s), Injective(t),
           Members(s) \cap Members(t) = {}
    PROVE  /\ s \o t \in Seq(S) /\ Injective(s \o t)
           /\ Members(s \o t) = Members(s) \cup Members(t)
<1> DEFINE u == s \o t
<1>1. /\ u \in Seq(S) /\ Len(u) = Len(s) + Len(t)
      /\ \A k \in 1 .. Len(s) + Len(t) : u[k] = IF k <= Len(s) THEN s[k] ELSE t[k - Len(s)]
  BY ConcatProperties
<1>2. /\ Len(s) \in Nat /\ Len(t) \in Nat /\ DOMAIN s = 1..Len(s) /\ DOMAIN t = 1..Len(t)
      /\ DOMAIN u = 1 .. Len(s) + Len(t)
  BY <1>1
<1>3. ASSUME NEW k \in DOMAIN u
      PROVE  \/ k \in DOMAIN s /\ u[k] = s[k]
             \/ k - Len(s) \in DOMAIN t /\ u[k] = t[k - Len(s)] /\ ~(k <= Len(s))
  BY <1>1, <1>2
<1>4. \A k \in DOMAIN s : k \in DOMAIN u /\ u[k] = s[k] BY <1>1, <1>2
<1>5. ASSUME NEW k \in DOMAIN t PROVE k + Len(s) \in DOMAIN u /\ u[k + Len(s)] = t[k]
  <2>1. k + Len(s) \in 1 .. Len(s) + Len(t) /\ ~(k + Len(s) <= Len(s)) /\ k + Len(s) - Len(s) = k
    BY <1>2
  <2>2. QED BY <1>1, <1>2, <2>1
<1> HIDE DEF u
<1>6. Members(u) = Members(s) \cup Members(t)
  <2>1. Members(u) \subseteq Members(s) \cup Members(t) BY <1>3 DEF Members
  <2>2. Members(s) \subseteq Members(u) BY <1>4 DEF Members
  <2>3. Members(t) \subseteq Members(u) BY <1>5 DEF Members
  <2>4. QED BY <2>1, <2>2, <2>3
<1>7. Injective(u)
  <2> SUFFICES ASSUME NEW j \in DOMAIN u, NEW k \in DOMAIN u, u[j] = u[k] PROVE j = k
    BY DEF Injective
  <2>1. CASE j \in DOMAIN s /\ u[j] = s[j] /\ k \in DOMAIN s /\ u[k] = s[k]
    BY <2>1 DEF Injective
  <2>2. CASE /\ j - Len(s) \in DOMAIN t /\ u[j] = t[j - Len(s)]
             /\ k - Len(s) \in DOMAIN t /\ u[k] = t[k - Len(s)]
    <3>1. j - Len(s) = k - Len(s) BY <2>2 DEF Injective
    <3>2. j \in Int /\ k \in Int BY <1>2
    <3>3. QED BY <1>2, <3>1, <3>2
  <2>3. CASE j \in DOMAIN s /\ u[j] = s[j] /\ k - Len(s) \in DOMAIN t /\ u[k] = t[k - Len(s)]
    BY <2>3 DEF Members
  <2>4. CASE k \in DOMAIN s /\ u[k] = s[k] /\ j - Len(s) \in DOMAIN t /\ u[j] = t[j - Len(s)]
    BY <2>4 DEF Members
  <2>5. QED BY <1>3, <2>1, <2>2, <2>3, <2>4
<1>8. QED BY <1>1, <1>6, <1>7 DEF u

\* The first call to take up.
LEMMA HeadOfTodo ==
    ASSUME ShapeOK, TodoInv, todo # <<>>
    PROVE  /\ Head(todo) \in Calls /\ st[Head(todo)] = "todo"
           /\ Tail(todo) \in Seq(Calls) /\ Injective(Tail(todo))
           /\ Head(todo) \notin Members(Tail(todo))
           /\ Members(todo) = {Head(todo)} \cup Members(Tail(todo))
<1>1. todo \in Seq(Calls) /\ Calls \in SUBSET Int BY CallsAreInts DEF ShapeOK
<1>2. Head(todo) \in Calls BY <1>1, HeadTailProperties
<1>3. QED BY <1>1, <1>2, TailIs DEF TodoInv

LEMMA TodoInit == Init => TodoInv /\ DeferInv
<1> SUFFICES ASSUME Init PROVE TodoInv /\ DeferInv OBVIOUS
<1>1. Calls \in SUBSET Calls OBVIOUS
<1>2. Injective(todo) /\ Members(todo) = Calls BY <1>1, InOrderIs DEF Init
<1>3. deferred.approvals = <<>> /\ deferred.calls = <<>> BY DEF Init, NoDeferred
<1>4. TodoInv BY <1>2 DEF Init, TodoInv
<1>5. DeferInv BY <1>3, NoMembers DEF Init, DeferInv
<1>6. QED BY <1>4, <1>5

\* Calls outside the queue move on, none of them filed or taken off.
LEMMA TodoSame ==
    ASSUME TodoInv, DeferInv, todo' = todo, stage' = stage, deferred' = deferred,
           \A c \in Calls : \/ st'[c] = st[c]
                            \/ st[c] \notin {"todo", "Filed"} /\ st'[c] # "Filed",
           todo \in Seq(Calls),
           pc' \notin {"reconcile", "down"} \/ (pc' = pc /\ st' = st),
           pc' = "settle" => todo = <<>>,
           pc' = "resolve" => stage # "batch",
           pc' \in Working => pc \in Working
    PROVE  TodoInv' /\ DeferInv'
<1>1. Members(todo) \subseteq Calls BY DEF Members
<1>2. TodoInv' BY <1>1 DEF TodoInv
<1>3. DeferInv' BY DEF DeferInv
<1>4. QED BY <1>2, <1>3

\* The first call to take up is taken up.
LEMMA TodoTaken ==
    ASSUME ShapeOK, TodoInv, DeferInv, todo # <<>>, todo' = Tail(todo), stage' = stage,
           deferred' = deferred, NEW s, s # "Filed",
           \A c \in Calls : st'[c] = IF c = Head(todo) THEN s ELSE st[c],
           pc \in Working, pc' \in (Taking \ {"resolve"}) \cup {"failed"} \/ pc' = pc, pc # "settle"
    PROVE  TodoInv' /\ DeferInv'
<1>1. /\ Head(todo) \in Calls /\ st[Head(todo)] = "todo"
      /\ Tail(todo) \in Seq(Calls) /\ Injective(Tail(todo))
      /\ Head(todo) \notin Members(Tail(todo))
      /\ Members(todo) = {Head(todo)} \cup Members(Tail(todo))
  BY HeadOfTodo
<1>2. Members(Tail(todo)) \subseteq Calls BY <1>1 DEF Members
<1>3. \A c \in Members(todo') : st'[c] = "todo" BY <1>1, <1>2 DEF TodoInv
<1>4. pc' # "settle" /\ pc' \notin {"reconcile", "down"} /\ (pc' = "resolve" => stage' # "batch")
  BY DEF Working, Taking, TodoInv
<1>5. TodoInv' BY <1>1, <1>3, <1>4 DEF TodoInv
<1>6. DeferInv' BY <1>1 DEF DeferInv
<1>7. QED BY <1>5, <1>6

LEMMA FileTodo ==
    ASSUME ShapeOK, TodoInv, DeferInv, NEW c \in Calls, File(c), st[c] \notin {"todo", "Filed"},
           pc = "fold", pc' = pc, todo' = todo, stage' = stage
    PROVE  TodoInv' /\ DeferInv'
<1> DEFINE A == Members(deferred.approvals)
           B == Members(deferred.calls)
<1>1. \A d \in Calls : st'[d] = IF d = c THEN "Filed" ELSE st[d] BY DEF File, ShapeOK
<1>2. Members(todo) \subseteq Calls BY DEF Members, ShapeOK
<1>3. TodoInv' BY <1>1, <1>2 DEF TodoInv
<1>4. deferred \in [approvals : Seq(Calls), calls : Seq(Calls)] BY DEF ShapeOK
<1>5. pc \in Working BY DEF Working, Taking
<1>6. /\ Injective(deferred.approvals) /\ Injective(deferred.calls) /\ A \cap B = {}
      /\ \A d \in Calls : st[d] = "Filed" <=> d \in A \cup B
  BY <1>5 DEF DeferInv
<1>7. c \notin A \cup B BY <1>6
<1>8. CASE deferred' = [deferred EXCEPT !.approvals = Append(@, c)]
  <2>1. deferred'.approvals = Append(deferred.approvals, c) /\ deferred'.calls = deferred.calls
    BY <1>4, <1>8
  <2>2. Members(deferred'.approvals) = A \cup {c} /\ Injective(deferred'.approvals)
    BY <1>4, <1>6, <1>7, <2>1, MembersAppend
  <2>3. QED BY <1>1, <1>3, <1>6, <1>7, <2>1, <2>2 DEF DeferInv
<1>9. CASE deferred' = [deferred EXCEPT !.calls = Append(@, c)]
  <2>1. deferred'.calls = Append(deferred.calls, c) /\ deferred'.approvals = deferred.approvals
    BY <1>4, <1>9
  <2>2. Members(deferred'.calls) = B \cup {c} /\ Injective(deferred'.calls)
    BY <1>4, <1>6, <1>7, <2>1, MembersAppend
  <2>3. QED BY <1>1, <1>3, <1>6, <1>7, <2>1, <2>2 DEF DeferInv
<1>10. QED BY <1>8, <1>9 DEF File

LEMMA NewProcessTodo ==
    ASSUME NewProcess, Injective(todo'), Members(todo') \subseteq Calls, pc' \in {"reconcile", "down"}
    PROVE  TodoInv' /\ DeferInv'
  BY DEF NewProcess, TodoInv, DeferInv, Working, Taking

\* The filed calls, in the order in which a handler is asked about them.
LEMMA FiledCalls ==
    ASSUME ShapeOK, DeferInv, pc = "settle"
    PROVE  LET pending == deferred.approvals \o deferred.calls
           IN  /\ pending \in Seq(Calls) /\ Injective(pending)
               /\ Members(pending) = {c \in Calls : st[c] = "Filed"}
<1>1. deferred \in [approvals : Seq(Calls), calls : Seq(Calls)] BY DEF ShapeOK
<1> DEFINE pending == deferred.approvals \o deferred.calls
<1>2. pc \in Working BY DEF Working
<1>3. /\ pending \in Seq(Calls) /\ Injective(pending)
      /\ Members(pending) = Members(deferred.approvals) \cup Members(deferred.calls)
  BY <1>1, <1>2, MembersConcat DEF DeferInv
<1>4. Members(pending) \subseteq Calls BY <1>3, MembersType
<1> HIDE DEF pending
<1>5. QED BY <1>2, <1>3, <1>4 DEF DeferInv, pending

LEMMA ApplyTodo ==
    ASSUME ShapeOK, TodoInv, DeferInv, NEW pending \in Seq(Calls), NEW R,
           NEW by \in {"resume", "handled"},
           Injective(pending), \A c \in Members(pending) : st[c] \in {"Filed", "todo"},
           ApplyDeferredResults(pending, R, by)
    PROVE  TodoInv' /\ DeferInv'
<1>1. Members(pending) \subseteq Calls /\ Members(todo) \subseteq Calls
  <2>1. todo \in Seq(Calls) BY DEF ShapeOK
  <2>2. QED BY <2>1, MembersType
<1>2. deferred'.approvals = <<>> /\ deferred'.calls = <<>>
  BY DEF ApplyDeferredResults, NoDeferred
<1>3. CASE \A k \in DOMAIN pending : id[pending[k]] \in R
  <2>1. /\ pc' = "resolve" /\ todo' = pending /\ stage' # "batch"
        /\ st' = [c \in Calls |-> IF st[c] = "Filed" THEN "todo" ELSE st[c]]
    BY <1>3 DEF ApplyDeferredResults
  <2>2. \A c \in Calls : st'[c] # "Filed" BY <2>1
  <2>3. TodoInv' BY <1>1, <2>1 DEF TodoInv
  <2>4. DeferInv' BY <1>2, <2>2, NoMembers DEF DeferInv
  <2>5. QED BY <2>3, <2>4
<1>4. CASE ~ \A k \in DOMAIN pending : id[pending[k]] \in R
  <2>1. pc' = "failed" /\ todo' = todo /\ st' = st BY <1>4 DEF ApplyDeferredResults
  <2>2. QED BY <2>1 DEF TodoInv, DeferInv, Working, Taking
<1>5. QED BY <1>3, <1>4

LEMMA TodoStep ==
    ASSUME ShapeOK, PhaseInv, TodoInv, DeferInv, [Next]_vars
    PROVE  TodoInv' /\ DeferInv'
<1> USE DEF given, host, ghosts, bounds
<1>a. todo \in Seq(Calls) BY DEF ShapeOK
<1>b. Working = {"admit", "announce", "execute", "fold", "resolve", "settle"} BY DEF Working, Taking
<1>1. ASSUME NEW s \in Answers \cup {"Deferral", "Tool"}, NEW slots, Admitted(s, slots)
      PROVE  TodoInv' /\ DeferInv'
  <2>1. /\ todo # <<>> /\ todo' = Tail(todo) /\ stage' = stage /\ deferred' = deferred /\ s # "Filed"
        /\ pc = "admit" /\ pc' \in {"admit", "announce"}
    BY <1>1, Names DEF ShapeOK, Admitted
  <2>2. Head(todo) \in Calls BY <2>1, HeadOfTodo
  <2>3. \A c \in Calls : st'[c] = IF c = Head(todo) THEN s ELSE st[c]
    BY <1>1, <2>2 DEF ShapeOK, Admitted
  <2>4. pc \in Working /\ pc # "settle" /\ pc' \in (Taking \ {"resolve"}) \cup {"failed"}
    BY <2>1, <1>b DEF Taking
  <2>5. QED BY <2>1, <2>3, <2>4, TodoTaken
<1>2. CASE Admit
  <2>1. CASE AdmitFails BY <1>a, <1>b, <2>1, TodoSame DEF AdmitFails
  <2>2. CASE AdmitTool BY <1>1, <2>2 DEF AdmitTool
  <2>3. CASE AdmitCorrection BY <1>1, <2>3, Names DEF AdmitCorrection
  <2>4. CASE AdmitRefusal BY <1>1, <2>4, Names DEF AdmitRefusal
  <2>5. CASE AdmitTruncated BY <1>1, <2>5, Names DEF AdmitTruncated
  <2>6. CASE AdmitDeferral BY <1>1, <2>6 DEF AdmitDeferral
  <2>7. QED BY <1>2, <2>1, <2>2, <2>3, <2>4, <2>5, <2>6 DEF Admit
<1>3. ASSUME NEW c \in Calls, CallStep(c) PROVE TodoInv' /\ DeferInv'
  <2>1. CASE Announce(c)
    <3>1. st[c] = "Tool" BY <2>1 DEF Announce, Leads
    <3>2. \A d \in Calls : \/ st'[d] = st[d]
                           \/ st[d] \notin {"todo", "Filed"} /\ st'[d] # "Filed"
      BY <2>1, <3>1 DEF Announce, ShapeOK
    <3>3. QED BY <1>a, <1>b, <2>1, <3>2, TodoSame DEF Announce
  <2>2. CASE AnnounceFails(c)
    <3>1. st[c] = "Tool" BY <2>2 DEF AnnounceFails, Leads
    <3>2. \A d \in Calls : \/ st'[d] = st[d]
                           \/ st[d] \notin {"todo", "Filed"} /\ st'[d] # "Filed"
      BY <2>2, <3>1 DEF AnnounceFails, FailAll
    <3>3. QED BY <1>a, <1>b, <2>2, <3>2, TodoSame DEF AnnounceFails
  <2>3. CASE Poll(c)
    <3>1. \A d \in Calls : \/ st'[d] = st[d]
                           \/ st[d] \notin {"todo", "Filed"} /\ st'[d] # "Filed"
      BY <2>3 DEF Poll, ShapeOK
    <3>2. QED BY <1>a, <1>b, <2>3, <3>1, TodoSame DEF Poll
  <2>4. ASSUME NEW o \in Outcomes, Return(c, o) PROVE TodoInv' /\ DeferInv'
    <3>1. \A d \in Calls : \/ st'[d] = st[d]
                           \/ st[d] \notin {"todo", "Filed"} /\ st'[d] # "Filed"
      BY <2>4, Names DEF Return, ShapeOK
    <3>2. QED BY <1>a, <1>b, <2>4, <3>1, TodoSame DEF Return
  <2>5. CASE FoldAnswer(c)
    <3>1. Recover(c) /\ st[c] \in Answers /\ pc = "fold" /\ todo' = todo /\ stage' = stage
          /\ deferred' = deferred
      BY <2>5 DEF FoldAnswer
    <3>2. st' = [st EXCEPT ![c] = "Answered"] \/ st' = [d \in Calls |-> IF d \in {c} THEN "Failed" ELSE st[d]]
      BY <3>1 DEF Recover, Answer, FailAll
    <3>3. pc' \in {pc, "failed"} BY <3>1 DEF Recover
    <3>4. \A d \in Calls : \/ st'[d] = st[d]
                           \/ st[d] \notin {"todo", "Filed"} /\ st'[d] # "Filed"
      BY <3>1, <3>2, Names DEF ShapeOK
    <3>5. QED BY <1>a, <1>b, <3>1, <3>3, <3>4, TodoSame
  <2>6. CASE FoldDeferral(c) BY <2>6, FileTodo DEF FoldDeferral
  <2>7. CASE FoldPaused(c) BY <2>7, FileTodo DEF FoldPaused
  <2>8. CASE FoldOk(c)
    <3>1. st' = [st EXCEPT ![c] = "Answered"] /\ st[c] = "Ok" BY <2>8 DEF FoldOk, Answer
    <3>2. \A d \in Calls : \/ st'[d] = st[d]
                           \/ st[d] \notin {"todo", "Filed"} /\ st'[d] # "Filed"
      BY <3>1 DEF ShapeOK
    <3>3. pc = "fold" /\ pc' = pc /\ todo' = todo /\ stage' = stage /\ deferred' = deferred
      BY <2>8 DEF FoldOk
    <3>4. QED BY <1>a, <1>b, <3>2, <3>3, TodoSame
  <2>9. CASE FoldOkFails(c)
    <3>1. \A d \in Calls : \/ st'[d] = st[d]
                           \/ st[d] \notin {"todo", "Filed"} /\ st'[d] # "Filed"
      BY <2>9 DEF FoldOkFails, FailAll
    <3>2. QED BY <1>a, <1>b, <2>9, <3>1, TodoSame DEF FoldOkFails
  <2>10. CASE FoldFatal(c)
    <3>1. \A d \in Calls : \/ st'[d] = st[d]
                           \/ st[d] \notin {"todo", "Filed"} /\ st'[d] # "Filed"
      BY <2>10, Names DEF FoldFatal, FailAll
    <3>2. QED BY <1>a, <1>b, <2>10, <3>1, TodoSame DEF FoldFatal
  <2>11. QED
    BY <1>3, <2>1, <2>2, <2>3, <2>4, <2>5, <2>6, <2>7, <2>8, <2>9, <2>10 DEF CallStep, Fold
<1>4. CASE BatchStep
  <2>1. CASE Announced BY <1>a, <1>b, <2>1, TodoSame DEF Announced
  <2>2. CASE Executed BY <1>a, <1>b, <2>2, TodoSame DEF Executed
  <2>3. CASE FoldNext
    <3>1. pc' = "resolve" => stage # "batch" BY <2>3 DEF FoldNext, ShapeOK
    <3>2. QED BY <1>a, <1>b, <2>3, <3>1, TodoSame DEF FoldNext
  <2>4. CASE EndBatch BY <1>a, <1>b, <2>4, TodoSame DEF EndBatch
  <2>5. CASE Continue BY <1>a, <1>b, <2>5, TodoSame DEF Continue
  <2>6. CASE ExitDeferred BY <1>a, <1>b, <2>6, TodoSame DEF ExitDeferred
  <2>7. CASE HandleDeferred
    <3> DEFINE pending == deferred.approvals \o deferred.calls
    <3>1. PICK R \in SUBSET {id[c] : c \in {d \in Calls : st[d] = "Filed"}} :
             ApplyDeferredResults(pending, R, "handled")
      BY <2>7 DEF HandleDeferred
    <3>2. /\ pending \in Seq(Calls) /\ Injective(pending)
          /\ Members(pending) = {c \in Calls : st[c] = "Filed"}
      BY <2>7, FiledCalls DEF HandleDeferred
    <3> HIDE DEF pending
    <3>3. QED BY <3>1, <3>2, ApplyTodo
  <2>8. CASE ResolveAnswer
    <3>1. /\ todo # <<>> /\ todo' = Tail(todo) /\ stage' = stage /\ deferred' = deferred
          /\ pc = "resolve" /\ Recover(Head(todo))
      BY <2>8 DEF ResolveAnswer
    <3>2. Head(todo) \in Calls BY <3>1, HeadOfTodo
    <3>3. CASE st' = [st EXCEPT ![Head(todo)] = "Answered"] /\ pc' = pc
      <4>1. \A c \in Calls : st'[c] = IF c = Head(todo) THEN "Answered" ELSE st[c]
        BY <3>2, <3>3 DEF ShapeOK
      <4>2. QED BY <1>b, <3>1, <3>3, <4>1, TodoTaken
    <3>4. CASE st' = [d \in Calls |-> IF d \in {Head(todo)} THEN "Failed" ELSE st[d]] /\ pc' = "failed"
      <4>1. \A c \in Calls : st'[c] = IF c = Head(todo) THEN "Failed" ELSE st[c]
        BY <3>4
      <4>2. QED BY <1>b, <3>1, <3>4, <4>1, TodoTaken
    <3>5. QED BY <3>1, <3>3, <3>4 DEF Recover, Answer, FailAll
  <2>9. CASE ResolveApprove BY <1>a, <1>b, <2>9, TodoSame DEF ResolveApprove
  <2>10. CASE ResolvePanics BY <1>a, <1>b, <2>10, TodoSame DEF ResolvePanics
  <2>11. CASE ReconcileCall
    <3>1. /\ todo # <<>> /\ todo' = Tail(todo) /\ stage' = stage /\ st' = st /\ pc' = pc
          /\ pc = "reconcile"
      BY <2>11 DEF ReconcileCall
    <3>2. Injective(Tail(todo)) /\ Members(Tail(todo)) \subseteq Members(todo)
      BY <3>1, HeadOfTodo
    <3>3. QED BY <1>b, <3>1, <3>2 DEF TodoInv, DeferInv
  <2>12. CASE ReconcileFails BY <1>a, <1>b, <2>12, TodoSame DEF ReconcileFails
  <2>13. CASE ResumeLoop
    <3>1. CASE PendingToolCalls(rows) = <<>> BY <1>a, <1>b, <2>13, <3>1, TodoSame DEF ResumeLoop
    <3>2. CASE PendingToolCalls(rows) # <<>>
      <4>1. {c \in Calls : Pending(c, rows)} \in SUBSET Calls OBVIOUS
      <4>2. /\ PendingToolCalls(rows) \in Seq(Calls) /\ Injective(PendingToolCalls(rows))
            /\ Members(PendingToolCalls(rows)) \subseteq Calls
        BY <4>1, InOrderIs DEF PendingToolCalls
      <4>3. \A c \in Calls : st[c] = "todo" BY <2>13 DEF ResumeLoop, TodoInv
      <4>4. QED BY <2>13, <3>2, <4>2, <4>3, ApplyTodo DEF ResumeLoop
    <3>3. QED BY <3>1, <3>2
  <2>14. CASE ReenterLoop BY <1>a, <1>b, <2>14, TodoSame DEF ReenterLoop
  <2>15. QED
    BY <1>4, <2>1, <2>2, <2>3, <2>4, <2>5, <2>6, <2>7, <2>8, <2>9, <2>10, <2>11, <2>12, <2>13,
       <2>14
    DEF BatchStep
<1>5. CASE Crash BY <1>5, NewProcessTodo, NoMembers DEF Crash
<1>6. ASSUME NEW R, StartReconcile(R) PROVE TodoInv' /\ DeferInv'
  <2>1. {c \in Calls : RowsOf(id[c], rows) = 0 /\ id[c] \notin Earlier /\ id[c] \notin R}
          \in SUBSET Calls
    OBVIOUS
  <2>2. Injective(Unanswered(R)) /\ Members(Unanswered(R)) \subseteq Calls
    BY <2>1, InOrderIs DEF Unanswered
  <2>3. QED BY <1>6, <2>2, NewProcessTodo DEF StartReconcile
<1>7. CASE ResumeDeferred BY <1>6, <1>7 DEF ResumeDeferred
<1>8. CASE Reenter BY <1>6, <1>8 DEF Reenter
<1>9. CASE UNCHANGED vars BY <1>9 DEF vars, TodoInv, DeferInv
<1>10. QED
  BY <1>2, <1>3, <1>4, <1>5, <1>7, <1>8, <1>9 DEF Next, Drive, Quiescent

-----------------------------------------------------------------------------
(* What a step does to the calls.                                          *)

\* No call moves, but for filed ones that are taken up again.
Rests ==
    /\ \A c \in Calls : st'[c] = st[c] \/ (st[c] = "Filed" /\ st'[c] = "todo")
    /\ UNCHANGED <<started, terminal, active, count, landed>>
    /\ pc = "failed" => pc' = "failed"

\* The first call of the queue is admitted.
Takes(c, s, slots) ==
    /\ pc = "admit" /\ c = Head(todo) /\ st[c] = "todo"
    /\ st' = [st EXCEPT ![c] = s]
    /\ count' = count + slots
    /\ \/ s \in {"Tool", "Kept"} /\ slots = 1 /\ count < MaxToolCalls
       \/ s \in {"Free", "Deferral"} /\ slots = 0
    /\ UNCHANGED <<started, terminal, active, landed>>

\* A call is answered, or fails, without its tool.
Recovers(c) ==
    /\ Recover(c) /\ st[c] \in Answers \cup {"todo"} /\ pc \in {"fold", "resolve"}
    /\ UNCHANGED <<count, landed>>

Restarts == NewProcess /\ UNCHANGED landed /\ pc' \in {"down", "reconcile"}

LEMMA Effects ==
    ASSUME ShapeOK, TodoInv, [Next]_vars
    PROVE  /\ id' = id
           /\ \/ Rests \/ Restarts
              \/ \E c \in Calls : \E s, slots : Takes(c, s, slots)
              \/ \E c \in Calls :
                    \/ Announce(c) \/ AnnounceFails(c) \/ Poll(c) \/ \E o \in Outcomes : Return(c, o)
                    \/ Recovers(c) \/ FoldDeferral(c) \/ FoldPaused(c) \/ FoldOk(c)
                    \/ FoldOkFails(c) \/ FoldFatal(c)
<1> USE DEF given, host, ghosts, bounds
<1>i. id' = id
  <2>1. CASE Admit
    BY <2>1 DEF Admit, AdmitTool, AdmitCorrection, AdmitRefusal, AdmitTruncated, AdmitDeferral,
                AdmitFails, Admitted
  <2>2. ASSUME NEW c \in Calls, CallStep(c) PROVE id' = id
    <3>1. CASE Fold(c)
      BY <3>1 DEF Fold, FoldAnswer, FoldDeferral, FoldPaused, FoldOk, FoldOkFails, FoldFatal
    <3>2. QED BY <2>2, <3>1 DEF CallStep, Announce, AnnounceFails, Poll, Return
  <2>3. CASE BatchStep
    BY <2>3 DEF BatchStep, Announced, Executed, FoldNext, EndBatch, Continue, ExitDeferred,
                HandleDeferred, ResolveAnswer, ResolveApprove, ResolvePanics, ReconcileCall,
                ReconcileFails, ResumeLoop, ReenterLoop
  <2>4. CASE Crash \/ ResumeDeferred \/ Reenter \/ Quiescent \/ UNCHANGED vars
    BY <2>4 DEF Crash, ResumeDeferred, Reenter, Quiescent, vars
  <2>5. QED BY <2>1, <2>2, <2>3, <2>4 DEF Next, Drive
<1>1. CASE Admit
  <2>1. CASE AdmitFails
    <3>1. Rests BY <2>1 DEF AdmitFails, Rests
    <3>2. QED BY <1>i, <3>1
  <2>2. ASSUME NEW s, NEW slots, Admitted(s, slots),
               \/ s \in {"Tool", "Kept"} /\ slots = 1 /\ count < MaxToolCalls
               \/ s \in {"Free", "Deferral"} /\ slots = 0
        PROVE  \E c \in Calls : \E t, more : Takes(c, t, more)
    <3>1. todo # <<>> BY <2>2 DEF Admitted, ShapeOK
    <3>2. Head(todo) \in Calls /\ st[Head(todo)] = "todo" BY <3>1, HeadOfTodo
    <3>3. Takes(Head(todo), s, slots) BY <2>2, <3>2 DEF Admitted, Takes
    <3>4. QED BY <3>2, <3>3
  <2>3. CASE AdmitTool BY <1>i, <2>2, <2>3 DEF AdmitTool
  <2>4. CASE AdmitCorrection BY <1>i, <2>2, <2>4 DEF AdmitCorrection
  <2>5. CASE AdmitRefusal BY <1>i, <2>2, <2>5 DEF AdmitRefusal
  <2>6. CASE AdmitTruncated BY <1>i, <2>2, <2>6 DEF AdmitTruncated
  <2>7. CASE AdmitDeferral BY <1>i, <2>2, <2>7 DEF AdmitDeferral
  <2>8. QED BY <1>1, <2>1, <2>3, <2>4, <2>5, <2>6, <2>7 DEF Admit
<1>2. ASSUME NEW c \in Calls, CallStep(c)
      PROVE  \/ Announce(c) \/ AnnounceFails(c) \/ Poll(c) \/ \E o \in Outcomes : Return(c, o)
             \/ Recovers(c) \/ FoldDeferral(c) \/ FoldPaused(c) \/ FoldOk(c)
             \/ FoldOkFails(c) \/ FoldFatal(c)
  <2>1. FoldAnswer(c) => Recovers(c) BY DEF FoldAnswer, Recovers
  <2>2. QED BY <1>2, <2>1 DEF CallStep, Fold
<1>3. CASE BatchStep
  <2>1. CASE Announced \/ Executed \/ FoldNext \/ EndBatch \/ Continue \/ ExitDeferred
    <3>1. Rests BY <2>1 DEF Announced, Executed, FoldNext, EndBatch, Continue, ExitDeferred, Rests
    <3>2. QED BY <1>i, <3>1
  <2>2. CASE ResolveApprove \/ ResolvePanics \/ ReconcileCall \/ ReconcileFails \/ ReenterLoop
    <3>1. Rests
      BY <2>2 DEF ResolveApprove, ResolvePanics, ReconcileCall, ReconcileFails, ReenterLoop, Rests
    <3>2. QED BY <1>i, <3>1
  <2>3. CASE HandleDeferred
    <3>1. Rests BY <2>3 DEF HandleDeferred, ApplyDeferredResults, Rests
    <3>2. QED BY <1>i, <3>1
  <2>4. CASE ResumeLoop
    <3>1. Rests BY <2>4 DEF ResumeLoop, ApplyDeferredResults, Rests
    <3>2. QED BY <1>i, <3>1
  <2>5. CASE ResolveAnswer
    <3>1. Head(todo) \in Calls /\ st[Head(todo)] = "todo" BY <2>5, HeadOfTodo DEF ResolveAnswer
    <3>2. Recovers(Head(todo)) BY <2>5, <3>1 DEF ResolveAnswer, Recovers
    <3>3. QED BY <1>i, <3>1, <3>2
  <2>6. QED BY <1>3, <2>1, <2>2, <2>3, <2>4, <2>5 DEF BatchStep
<1>4. CASE Crash
  <2>1. Restarts BY <1>4 DEF Crash, Restarts
  <2>2. QED BY <1>i, <2>1
<1>5. CASE ResumeDeferred \/ Reenter
  <2>1. Restarts BY <1>5 DEF ResumeDeferred, Reenter, StartReconcile, Restarts
  <2>2. QED BY <1>i, <2>1
<1>6. CASE UNCHANGED vars
  <2>1. Rests BY <1>6 DEF vars, Rests
  <2>2. QED BY <1>i, <2>1
<1>7. QED BY <1>i, <1>1, <1>2, <1>3, <1>4, <1>5, <1>6 DEF Next, Drive, Quiescent

-----------------------------------------------------------------------------
(* Starts and their terminal partners.                                     *)

Aloft == {c \in Calls : st[c] \in Flying}

\* Of a set of calls, those of an id.
OfId(S, i) == {c \in S : id[c] = i}

OpenInv ==
    /\ \A c \in Calls : started[c] = terminal[c] + (IF st[c] \in Flying THEN 1 ELSE 0)
    /\ \A i \in Ids : active[i] = Cardinality(OfId(Aloft, i))

LEMMA WithoutCounts ==
    ASSUME NEW T \in SUBSET Calls, NEW S \in SUBSET T, NEW act \in [Ids -> Int],
           \A i \in Ids : act[i] = Cardinality(OfId(T, i))
    PROVE  \A i \in Ids : ActiveWithout(act, S)[i] = Cardinality(OfId(T \ S, i))
<1> TAKE i \in Ids
<1> DEFINE A == OfId(T, i)
           B == OfId(S, i)
<1>1. ActiveWithout(act, S)[i] = act[i] - Cardinality(B) BY DEF ActiveWithout, OfId
<1>2. A \in SUBSET Calls /\ A \cap B = B /\ OfId(T \ S, i) = A \ B BY DEF OfId
<1>3. IsFiniteSet(A) BY <1>2, CallsFinite
<1>4. Cardinality(A \ B) = Cardinality(A) - Cardinality(A \cap B) BY <1>3, FS_Difference
<1>5. QED BY <1>1, <1>2, <1>4

LEMMA StartCounts ==
    ASSUME NEW T \in SUBSET Calls, NEW c \in Calls \ T, id \in [Calls -> Ids],
           active \in [Ids -> Int], \A i \in Ids : active[i] = Cardinality(OfId(T, i))
    PROVE  \A i \in Ids : [active EXCEPT ![id[c]] = @ + 1][i] = Cardinality(OfId(T \cup {c}, i))
<1> TAKE i \in Ids
<1>1. OfId(T, i) \in SUBSET Calls /\ c \notin OfId(T, i) BY DEF OfId
<1>2. CASE id[c] = i
  <2>1. OfId(T \cup {c}, i) = OfId(T, i) \cup {c} BY <1>2 DEF OfId
  <2>2. Cardinality(OfId(T, i) \cup {c}) = Cardinality(OfId(T, i)) + 1 BY <1>1, OneMore
  <2>3. QED BY <1>2, <2>1, <2>2
<1>3. CASE id[c] # i
  <2>1. OfId(T \cup {c}, i) = OfId(T, i) BY <1>3 DEF OfId
  <2>2. QED BY <1>3, <2>1
<1>4. QED BY <1>2, <1>3

LEMMA OpenInit == Init => OpenInv
<1> SUFFICES ASSUME Init PROVE OpenInv OBVIOUS
<1>1. Aloft = {} BY Names DEF Aloft, Init
<1>2. \A i \in Ids : OfId(Aloft, i) = {} BY <1>1 DEF OfId
<1>3. \A i \in Ids : active[i] = Cardinality(OfId(Aloft, i)) BY <1>2, FS_EmptySet DEF Init
<1>4. \A c \in Calls : started[c] = 0 /\ terminal[c] = 0 /\ st[c] = "todo" BY DEF Init
<1>5. QED BY <1>3, <1>4, Names DEF OpenInv

LEMMA OpenSame ==
    ASSUME OpenInv, UNCHANGED <<id, started, terminal, active>>,
           \A c \in Calls : st'[c] \in Flying <=> st[c] \in Flying
    PROVE  OpenInv'
<1>1. Aloft' = Aloft BY DEF Aloft
<1>2. QED BY <1>1 DEF OpenInv, OfId

\* A call in flight is closed.
LEMMA OpenCloses ==
    ASSUME ShapeOK, OpenInv, NEW c \in Calls, st[c] \in Flying, id' = id, started' = started,
           NEW s, s \notin Flying, \A d \in Calls : st'[d] = IF d = c THEN s ELSE st[d],
           \A d \in Calls : terminal'[d] = IF d = c THEN terminal[d] + 1 ELSE terminal[d],
           active' = ActiveWithout(active, {c})
    PROVE  OpenInv'
<1>1. Aloft' = Aloft \ {c} /\ c \in Aloft /\ Aloft \in SUBSET Calls BY DEF Aloft
<1>2. \A i \in Ids : active'[i] = Cardinality(OfId(Aloft \ {c}, i))
  <2>1. active \in [Ids -> Int] /\ \A i \in Ids : active[i] = Cardinality(OfId(Aloft, i))
    BY DEF OpenInv, ShapeOK
  <2>2. {c} \in SUBSET Aloft BY <1>1
  <2>3. QED BY <1>1, <2>1, <2>2, WithoutCounts
<1>3. \A d \in Calls : terminal[d] \in Nat BY DEF ShapeOK
<1>4. \A d \in Calls : started'[d] = terminal'[d] + (IF st'[d] \in Flying THEN 1 ELSE 0)
  BY <1>3 DEF OpenInv
<1>5. \A i \in Ids : active'[i] = Cardinality(OfId(Aloft, i)')
  <2>1. ASSUME NEW i \in Ids PROVE OfId(Aloft, i)' = OfId(Aloft \ {c}, i) BY <1>1 DEF OfId
  <2>2. QED BY <1>2, <2>1
<1>6. QED BY ONLY <1>4, <1>5 DEF OpenInv

LEMMA OpenStep ==
    ASSUME ShapeOK, PhaseInv, TodoInv, OpenInv, [Next]_vars
    PROVE  OpenInv'
<1> USE DEF given, host, ghosts, bounds
<1>i. id' = id BY Effects
<1>s. /\ active \in [Ids -> Int] /\ id \in [Calls -> Ids]
      /\ \A i \in Ids : active[i] = Cardinality(OfId(Aloft, i))
  BY DEF OpenInv, ShapeOK
<1>t. \A c \in Calls : terminal[c] \in Nat /\ started[c] \in Nat BY DEF ShapeOK
<1>1. CASE Rests BY <1>i, <1>1, OpenSame, Names DEF Rests
<1>2. CASE Restarts
  <2>1. Aloft' = {} BY <1>2, Names DEF Restarts, NewProcess, Aloft
  <2>2. \A i \in Ids : OfId(Aloft, i)' = {} BY <2>1 DEF OfId
  <2>3. \A i \in Ids : active'[i] = Cardinality(OfId(Aloft, i)')
    BY <1>2, <2>2, FS_EmptySet DEF Restarts, NewProcess
  <2>4. \A c \in Calls : started'[c] = 0 /\ terminal'[c] = 0 /\ st'[c] = "todo"
    BY <1>2 DEF Restarts, NewProcess
  <2>5. QED BY <2>3, <2>4, Names DEF OpenInv
<1>3. ASSUME NEW c \in Calls, NEW s, NEW slots, Takes(c, s, slots) PROVE OpenInv'
  <2>1. \A d \in Calls : st'[d] = IF d = c THEN s ELSE st[d] BY <1>3 DEF Takes, ShapeOK
  <2>2. QED BY <1>i, <1>3, <2>1, OpenSame, Names DEF Takes
<1>4. ASSUME NEW c \in Calls, Announce(c) PROVE OpenInv'
  <2>1. st[c] = "Tool" BY <1>4 DEF Announce, Leads
  <2>2. \A d \in Calls : st'[d] = IF d = c THEN "Started" ELSE st[d] BY <1>4 DEF Announce, ShapeOK
  <2>3. Aloft' = Aloft \cup {c} /\ c \notin Aloft /\ Aloft \in SUBSET Calls
    BY <2>1, <2>2, Names DEF Aloft
  <2>4. \A i \in Ids : active'[i] = Cardinality(OfId(Aloft \cup {c}, i))
    BY <1>4, <2>3, StartCounts DEF OpenInv, ShapeOK, Announce, ToolStarted
  <2>5. \A d \in Calls : started'[d] = IF d = c THEN started[d] + 1 ELSE started[d]
    BY <1>4 DEF Announce, ToolStarted, ShapeOK
  <2>6. terminal' = terminal BY <1>4 DEF Announce
  <2>7. \A d \in Calls : started'[d] = terminal'[d] + (IF st'[d] \in Flying THEN 1 ELSE 0)
    BY <1>t, <2>1, <2>2, <2>5, <2>6, Names DEF OpenInv
  <2>8. \A i : OfId(Aloft, i)' = OfId(Aloft \cup {c}, i) BY <1>i, <2>3 DEF OfId
  <2>9. QED BY <2>4, <2>7, <2>8 DEF OpenInv
<1>5. ASSUME NEW c \in Calls, AnnounceFails(c) PROVE OpenInv'
  <2> DEFINE S == {d \in Calls : st[d] = "Started"} \cup {c}
             act == [active EXCEPT ![id[c]] = @ + 1]
  <2>1. /\ FailAll(S) /\ st[c] = "Tool" /\ pc = "announce" /\ active' = ActiveWithout(act, S)
        /\ started' = [started EXCEPT ![c] = @ + 1]
    BY <1>5 DEF AnnounceFails, Leads
  <2>2. \A d \in Calls : /\ st'[d] = IF d \in S THEN "Failed" ELSE st[d]
                         /\ terminal'[d] = IF d \in S THEN terminal[d] + 1 ELSE terminal[d]
    BY <2>1 DEF FailAll
  <2>3. \A d \in Calls : st[d] \in Flying <=> st[d] = "Started"
    BY <2>1, Names DEF PhaseInv, Group
  <2>4. S = Aloft \cup {c} /\ c \notin Aloft /\ Aloft \in SUBSET Calls
    BY <2>1, <2>3, Names DEF Aloft
  <2>5. \A i \in Ids : act[i] = Cardinality(OfId(S, i))
    BY <1>s, <2>4, StartCounts
  <2>6. act \in [Ids -> Int]
    <3>1. id[c] \in Ids BY <1>s
    <3>2. QED BY <1>s, <3>1
  <2>7. Aloft' = {} BY <2>2, <2>3, Names DEF Aloft
  <2>8. S \in SUBSET Calls /\ S \in SUBSET S OBVIOUS
  <2>9. \A d \in Calls : d \in S <=> st[d] \in Flying \/ d = c BY <2>3
  <2> HIDE DEF S, act
  <2>10. \A i \in Ids : active'[i] = Cardinality(OfId(S \ S, i))
    BY <2>1, <2>5, <2>6, <2>8, WithoutCounts
  <2>11. \A i : OfId(S \ S, i) = {} /\ OfId(Aloft, i)' = {} BY <2>7 DEF OfId
  <2>12. \A d \in Calls : started'[d] = IF d = c THEN started[d] + 1 ELSE started[d]
    BY <2>1 DEF ShapeOK
  <2>13. \A d \in Calls : st'[d] \notin Flying BY <2>7 DEF Aloft
  <2>14. ASSUME NEW d \in Calls PROVE started'[d] = terminal'[d] + 0
    <3>1. started[d] = terminal[d] + (IF st[d] \in Flying THEN 1 ELSE 0) BY DEF OpenInv
    <3>2. CASE d = c
      <4>1. started[d] = terminal[d] + 0 BY <2>1, <3>1, <3>2, Names
      <4>2. QED BY <1>t, <2>2, <2>9, <2>12, <3>2, <4>1
    <3>3. CASE d # c
      <4>1. CASE st[d] \in Flying BY <1>t, <2>2, <2>9, <2>12, <3>1, <3>3, <4>1
      <4>2. CASE st[d] \notin Flying BY <1>t, <2>2, <2>9, <2>12, <3>1, <3>3, <4>2
      <4>3. QED BY <4>1, <4>2
    <3>4. QED BY <3>2, <3>3
  <2>15. QED BY <2>10, <2>11, <2>13, <2>14 DEF OpenInv
<1>6. ASSUME NEW c \in Calls, Poll(c) PROVE OpenInv'
  <2>1. \A d \in Calls : st'[d] = IF d = c THEN "Running" ELSE st[d] BY <1>6 DEF Poll, ShapeOK
  <2>2. \A d \in Calls : st'[d] \in Flying <=> st[d] \in Flying BY <1>6, <2>1, Names DEF Poll
  <2>3. QED BY <1>i, <1>6, <2>2, OpenSame DEF Poll
<1>7. ASSUME NEW c \in Calls, NEW o \in Outcomes, Return(c, o) PROVE OpenInv'
  <2>1. \A d \in Calls : st'[d] = IF d = c THEN o ELSE st[d] BY <1>7 DEF Return, ShapeOK
  <2>2. \A d \in Calls : st'[d] \in Flying <=> st[d] \in Flying BY <1>7, <2>1, Names DEF Return
  <2>3. QED BY <1>i, <1>7, <2>2, OpenSame DEF Return
<1>8. ASSUME NEW c \in Calls, Recovers(c) PROVE OpenInv'
  <2>1. st[c] \notin Flying /\ active' = active BY <1>8, Names DEF Recovers, Recover
  <2>2. \A d \in Calls : started'[d] = IF d = c THEN started[d] + 1 ELSE started[d]
    BY <1>8 DEF Recovers, Recover, ShapeOK
  <2>3. \/ st' = [st EXCEPT ![c] = "Answered"] /\ terminal' = [terminal EXCEPT ![c] = @ + 1]
        \/ FailAll({c})
    BY <1>8 DEF Recovers, Recover, Answer
  <2>4. \A d \in Calls : /\ d = c \/ st'[d] = st[d]
                         /\ terminal'[d] = IF d = c THEN terminal[d] + 1 ELSE terminal[d]
    BY <2>3 DEF FailAll, ShapeOK
  <2>5. st'[c] \in {"Answered", "Failed"} BY <2>3 DEF FailAll, ShapeOK
  <2>6. \A d \in Calls : st'[d] \in Flying <=> st[d] \in Flying BY <2>1, <2>4, <2>5, Names
  <2>7. Aloft' = Aloft BY <2>6 DEF Aloft
  <2>8. \A d \in Calls : started'[d] = terminal'[d] + (IF st'[d] \in Flying THEN 1 ELSE 0)
    BY <1>t, <2>2, <2>4, <2>6 DEF OpenInv
  <2>9. QED BY <1>i, <2>1, <2>7, <2>8 DEF OpenInv, OfId
<1>9. ASSUME NEW c \in Calls, FoldDeferral(c) PROVE OpenInv'
  <2>1. \A d \in Calls : st'[d] = IF d = c THEN "Filed" ELSE st[d] BY <1>9 DEF FoldDeferral, File, ShapeOK
  <2>2. \A d \in Calls : st'[d] \in Flying <=> st[d] \in Flying
    BY <1>9, <2>1, Names DEF FoldDeferral
  <2>3. QED BY <1>i, <1>9, <2>2, OpenSame DEF FoldDeferral
<1>10. ASSUME NEW c \in Calls, FoldPaused(c) PROVE OpenInv'
  <2>1. \A d \in Calls : /\ st'[d] = IF d = c THEN "Filed" ELSE st[d]
                         /\ terminal'[d] = IF d = c THEN terminal[d] + 1 ELSE terminal[d]
    BY <1>10 DEF FoldPaused, File, ShapeOK
  <2>2. st[c] \in Flying /\ "Filed" \notin Flying /\ started' = started
        /\ active' = ActiveWithout(active, {c})
    BY <1>10, Names DEF FoldPaused
  <2>3. QED BY <1>i, <2>1, <2>2, OpenCloses
<1>11. ASSUME NEW c \in Calls, FoldOk(c) PROVE OpenInv'
  <2>1. st' = [st EXCEPT ![c] = "Answered"] /\ terminal' = [terminal EXCEPT ![c] = @ + 1]
    BY <1>11 DEF FoldOk, Answer
  <2>2. \A d \in Calls : /\ st'[d] = IF d = c THEN "Answered" ELSE st[d]
                         /\ terminal'[d] = IF d = c THEN terminal[d] + 1 ELSE terminal[d]
    BY <2>1 DEF ShapeOK
  <2>3. st[c] \in Flying /\ "Answered" \notin Flying /\ started' = started
        /\ active' = ActiveWithout(active, {c})
    BY <1>11, Names DEF FoldOk
  <2>4. QED BY <1>i, <2>2, <2>3, OpenCloses
<1>12. ASSUME NEW c \in Calls, FoldOkFails(c) PROVE OpenInv'
  <2>1. \A d \in Calls : /\ st'[d] = IF d = c THEN "Failed" ELSE st[d]
                         /\ terminal'[d] = IF d = c THEN terminal[d] + 1 ELSE terminal[d]
    BY <1>12 DEF FoldOkFails, FailAll
  <2>2. st[c] \in Flying /\ "Failed" \notin Flying /\ started' = started
        /\ active' = ActiveWithout(active, {c})
    BY <1>12, Names DEF FoldOkFails
  <2>3. QED BY <1>i, <2>1, <2>2, OpenCloses
<1>13. ASSUME NEW c \in Calls, FoldFatal(c) PROVE OpenInv'
  <2>1. FailAll({d \in Calls : st[d] \in Outcomes}) /\ pc = "fold" /\ started' = started
        /\ active' = ActiveWithout(active, {d \in Calls : st[d] \in Outcomes})
    BY <1>13 DEF FoldFatal
  <2>2. {d \in Calls : st[d] \in Outcomes} = Aloft BY <2>1, Names DEF PhaseInv, Group, Aloft
  <2>3. \A d \in Calls : /\ st'[d] = IF d \in Aloft THEN "Failed" ELSE st[d]
                         /\ terminal'[d] = IF d \in Aloft THEN terminal[d] + 1 ELSE terminal[d]
    BY <2>1, <2>2 DEF FailAll
  <2>4. Aloft' = {} BY <2>3, Names DEF Aloft
  <2>5. \A i \in Ids : active'[i] = Cardinality(OfId(Aloft \ Aloft, i))
    <3>1. Aloft \in SUBSET Calls /\ Aloft \in SUBSET Aloft BY DEF Aloft
    <3>2. active' = ActiveWithout(active, Aloft) BY <2>1, <2>2
    <3>3. \A i \in Ids : ActiveWithout(active, Aloft)[i] = Cardinality(OfId(Aloft \ Aloft, i))
      BY <1>s, <3>1, WithoutCounts
    <3>4. QED BY <3>2, <3>3
  <2>6. \A i : OfId(Aloft \ Aloft, i) = {} /\ OfId(Aloft, i)' = {} BY <2>4 DEF OfId
  <2>7. \A d \in Calls : st'[d] \notin Flying BY <2>4 DEF Aloft
  <2>8. ASSUME NEW d \in Calls PROVE started'[d] = terminal'[d] + 0
    <3>1. started[d] = terminal[d] + (IF st[d] \in Flying THEN 1 ELSE 0) BY DEF OpenInv
    <3>2. CASE d \in Aloft BY <1>t, <2>1, <2>3, <3>1, <3>2 DEF Aloft
    <3>3. CASE d \notin Aloft BY <1>t, <2>1, <2>3, <3>1, <3>3 DEF Aloft
    <3>4. QED BY <3>2, <3>3
  <2>9. QED BY <2>5, <2>6, <2>7, <2>8 DEF OpenInv
<1>14. QED
  BY <1>1, <1>2, <1>3, <1>4, <1>5, <1>6, <1>7, <1>8, <1>9, <1>10, <1>11, <1>12, <1>13, Effects

-----------------------------------------------------------------------------
(* The budget, and the ghost of effects that landed.                       *)

\* The calls that hold a slot, and those that may have used one up.
Holding == {c \in Calls : st[c] \in Flying \cup {"Kept", "Tool"}}

Charged == {c \in Calls : st[c] \notin {"todo", "Filed", "Free", "Deferral"}}

SlotInv ==
    /\ count >= 0
    /\ pc # "failed" => /\ count <= MaxToolCalls
                        /\ Cardinality(Holding) <= count
                        /\ count <= Cardinality(Charged)

\* An effect is not taken back before it was counted.
LandedInv ==
    \A c \in Calls : landed[c] >= 0 /\ (st[c] = "Running" => landed[c] >= 1)

LEMMA SlotSets ==
    /\ Holding \in SUBSET Calls /\ Charged \in SUBSET Calls
    /\ Cardinality(Holding) \in Nat /\ Cardinality(Charged) \in Nat
    /\ Holding' \in SUBSET Calls /\ Charged' \in SUBSET Calls
    /\ Cardinality(Holding') \in Nat /\ Cardinality(Charged') \in Nat
<1>1. /\ Holding \in SUBSET Calls /\ Charged \in SUBSET Calls
      /\ Holding' \in SUBSET Calls /\ Charged' \in SUBSET Calls
  BY DEF Holding, Charged
<1>2. QED BY <1>1, CallsFinite

LEMMA SlotInit == Init => SlotInv /\ LandedInv
<1> SUFFICES ASSUME Init PROVE SlotInv /\ LandedInv OBVIOUS
<1>1. Holding = {} /\ Charged = {} BY Names DEF Init, Holding, Charged
<1>2. Cardinality(Holding) = 0 /\ Cardinality(Charged) = 0 BY <1>1, FS_EmptySet
<1>3. SlotInv BY <1>2, CapAssumption DEF Init, SlotInv
<1>4. LandedInv BY DEF Init, LandedInv
<1>5. QED BY <1>3, <1>4

\* Slots may be given up while they stay charged.
LEMMA SlotKeeps ==
    ASSUME ShapeOK, SlotInv, count' = count, Holding' \subseteq Holding, Charged \subseteq Charged',
           pc = "failed" => pc' = "failed"
    PROVE  SlotInv'
<1>1. Cardinality(Holding') <= Cardinality(Holding) /\ Cardinality(Charged) <= Cardinality(Charged')
  BY SlotSets, Smaller
<1>2. count \in Int BY DEF ShapeOK
<1>3. QED BY <1>1, <1>2, SlotSets, CapAssumption DEF SlotInv

LEMMA SlotFails ==
    ASSUME SlotInv, count' = count, pc' = "failed"
    PROVE  SlotInv'
  BY DEF SlotInv

LEMMA SlotStep ==
    ASSUME ShapeOK, PhaseInv, TodoInv, SlotInv, [Next]_vars
    PROVE  SlotInv'
<1> USE DEF given, host, ghosts, bounds
<1>c. count \in Int /\ MaxToolCalls \in Int BY CapAssumption DEF ShapeOK
<1>1. CASE Rests
  <2>1. Holding' \subseteq Holding /\ Charged \subseteq Charged'
    BY <1>1, Names DEF Rests, Holding, Charged
  <2>2. QED BY <1>1, <2>1, SlotKeeps DEF Rests
<1>2. CASE Restarts
  <2>1. Holding' = {} /\ Charged' = {} BY <1>2, Names DEF Restarts, NewProcess, Holding, Charged
  <2>2. Cardinality(Holding') = 0 /\ Cardinality(Charged') = 0 BY <2>1, FS_EmptySet
  <2>3. count' = 0 BY <1>2 DEF Restarts, NewProcess
  <2>4. QED BY <2>2, <2>3, CapAssumption DEF SlotInv
<1>3. ASSUME NEW c \in Calls, NEW s, NEW slots, Takes(c, s, slots) PROVE SlotInv'
  <2>1. st[c] = "todo" /\ \A d \in Calls : st'[d] = IF d = c THEN s ELSE st[d]
    BY <1>3 DEF Takes, ShapeOK
  <2>2. CASE s \in {"Tool", "Kept"} /\ slots = 1 /\ count < MaxToolCalls
    <3>1. Holding' = Holding \cup {c} /\ c \notin Holding BY <2>1, <2>2, Names DEF Holding
    <3>2. Charged' = Charged \cup {c} /\ c \notin Charged BY <2>1, <2>2, Names DEF Charged
    <3>3. /\ Cardinality(Holding') = Cardinality(Holding) + 1
          /\ Cardinality(Charged') = Cardinality(Charged) + 1
      BY <3>1, <3>2, SlotSets, OneMore
    <3>4. pc = "admit" /\ count' = count + 1 BY <1>3, <2>2 DEF Takes
    <3>5. QED BY <1>c, <2>2, <3>3, <3>4, SlotSets DEF SlotInv
  <2>3. CASE s \in {"Free", "Deferral"} /\ slots = 0
    <3>1. Holding' = Holding /\ Charged' = Charged BY <2>1, <2>3, Names DEF Holding, Charged
    <3>2. pc = "admit" /\ count' = count BY <1>c, <1>3, <2>3 DEF Takes
    <3>3. QED BY <1>c, <3>1, <3>2, SlotKeeps
  <2>4. QED BY <1>3, <2>2, <2>3 DEF Takes
<1>4. ASSUME NEW c \in Calls, NEW s, \A d \in Calls : st'[d] = IF d = c THEN s ELSE st[d],
             st[c] \in Flying \cup {"Kept", "Tool", "Free"}, s \in Flying => st[c] # "Free",
             s \in Flying \cup {"Answered"}, count' = count, pc' = pc
      PROVE  SlotInv'
  <2>1. Holding' \subseteq Holding /\ Charged \subseteq Charged' BY <1>4, Names DEF Holding, Charged
  <2>2. QED BY <1>4, <2>1, SlotKeeps
<1>5. ASSUME NEW c \in Calls, Announce(c) PROVE SlotInv'
  <2>1. st[c] = "Tool" /\ count' = count /\ pc' = pc BY <1>5 DEF Announce, Leads
  <2>2. \A d \in Calls : st'[d] = IF d = c THEN "Started" ELSE st[d] BY <1>5 DEF Announce, ShapeOK
  <2>3. QED BY <1>4, <2>1, <2>2, Names
<1>6. ASSUME NEW c \in Calls, Poll(c) PROVE SlotInv'
  <2>1. st[c] = "Started" /\ count' = count /\ pc' = pc BY <1>6 DEF Poll
  <2>2. \A d \in Calls : st'[d] = IF d = c THEN "Running" ELSE st[d] BY <1>6 DEF Poll, ShapeOK
  <2>3. QED BY <1>4, <2>1, <2>2, Names
<1>7. ASSUME NEW c \in Calls, NEW o \in Outcomes, Return(c, o) PROVE SlotInv'
  <2>1. st[c] = "Running" /\ count' = count /\ pc' = pc BY <1>7 DEF Return
  <2>2. \A d \in Calls : st'[d] = IF d = c THEN o ELSE st[d] BY <1>7 DEF Return, ShapeOK
  <2>3. QED BY <1>4, <2>1, <2>2, Names
<1>8. ASSUME NEW c \in Calls, Recovers(c) PROVE SlotInv'
  <2>1. CASE Answer(c) /\ pc' = pc
    <3>1. st' = [st EXCEPT ![c] = "Answered"] BY <2>1 DEF Answer
    <3>2. \A d \in Calls : st'[d] = IF d = c THEN "Answered" ELSE st[d] BY <3>1 DEF ShapeOK
    <3>3. Holding' \subseteq Holding /\ Charged \subseteq Charged'
      BY <3>2, Names DEF Holding, Charged
    <3>4. QED BY <1>8, <2>1, <3>3, SlotKeeps DEF Recovers
  <2>2. CASE pc' = "failed" BY <1>8, <2>2, SlotFails DEF Recovers
  <2>3. QED BY <1>8, <2>1, <2>2 DEF Recovers, Recover
<1>9. ASSUME NEW c \in Calls, FoldDeferral(c) PROVE SlotInv'
  <2>1. \A d \in Calls : st'[d] = IF d = c THEN "Filed" ELSE st[d] BY <1>9 DEF FoldDeferral, File, ShapeOK
  <2>2. st[c] = "Deferral" /\ count' = count /\ pc' = pc BY <1>9 DEF FoldDeferral
  <2>3. Holding' = Holding /\ Charged' = Charged BY <2>1, <2>2, Names DEF Holding, Charged
  <2>4. QED BY <2>2, <2>3, SlotKeeps
<1>10. ASSUME NEW c \in Calls, FoldPaused(c) PROVE SlotInv'
  <2>1. \A d \in Calls : st'[d] = IF d = c THEN "Filed" ELSE st[d] BY <1>10 DEF FoldPaused, File, ShapeOK
  <2>2. st[c] = "Paused" /\ count' = count - 1 /\ pc' = pc /\ pc = "fold" BY <1>10 DEF FoldPaused
  <2>3. Holding' = Holding \ {c} /\ c \in Holding BY <2>1, <2>2, Names DEF Holding
  <2>4. Charged' = Charged \ {c} /\ c \in Charged BY <2>1, <2>2, Names DEF Charged
  <2>5. /\ Cardinality(Holding') = Cardinality(Holding) - 1
        /\ Cardinality(Charged') = Cardinality(Charged) - 1
    BY <2>3, <2>4, SlotSets, OneMore
  <2>6. QED BY <1>c, <2>2, <2>5, SlotSets DEF SlotInv
<1>11. ASSUME NEW c \in Calls, FoldOk(c) PROVE SlotInv'
  <2>1. st' = [st EXCEPT ![c] = "Answered"] /\ st[c] = "Ok" /\ count' = count /\ pc' = pc
    BY <1>11 DEF FoldOk, Answer
  <2>2. \A d \in Calls : st'[d] = IF d = c THEN "Answered" ELSE st[d] BY <2>1 DEF ShapeOK
  <2>3. QED BY <1>4, <2>1, <2>2, Names
<1>12. ASSUME NEW c \in Calls, AnnounceFails(c) \/ FoldOkFails(c) \/ FoldFatal(c) PROVE SlotInv'
  BY <1>12, SlotFails DEF AnnounceFails, FoldOkFails, FoldFatal
<1>13. QED
  BY <1>1, <1>2, <1>3, <1>5, <1>6, <1>7, <1>8, <1>9, <1>10, <1>11, <1>12, Effects

LEMMA LandedStep ==
    ASSUME ShapeOK, TodoInv, LandedInv, [Next]_vars
    PROVE  LandedInv'
<1> USE DEF given, host, ghosts, bounds
<1>l. \A c \in Calls : landed[c] \in Int BY DEF ShapeOK
<1>1. ASSUME landed' = landed,
             \A c \in Calls : st'[c] = "Running" => st[c] = "Running"
      PROVE  LandedInv'
  BY <1>1 DEF LandedInv
<1>2. CASE Rests BY <1>1, <1>2 DEF Rests
<1>3. CASE Restarts BY <1>1, <1>3 DEF Restarts, NewProcess
<1>4. ASSUME NEW c \in Calls, NEW s, NEW slots, Takes(c, s, slots) PROVE LandedInv'
  <2>1. \A d \in Calls : st'[d] = IF d = c THEN s ELSE st[d] BY <1>4 DEF Takes, ShapeOK
  <2>2. s # "Running" BY <1>4 DEF Takes
  <2>3. QED BY <1>1, <1>4, <2>1, <2>2 DEF Takes
<1>5. ASSUME NEW c \in Calls, Poll(c) PROVE LandedInv'
  <2>1. \A d \in Calls : /\ st'[d] = IF d = c THEN "Running" ELSE st[d]
                         /\ landed'[d] = IF d = c THEN landed[d] + 1 ELSE landed[d]
    BY <1>5 DEF Poll, ShapeOK
  <2>2. QED BY <1>l, <2>1 DEF LandedInv
<1>6. ASSUME NEW c \in Calls, NEW o \in Outcomes, Return(c, o) PROVE LandedInv'
  <2>1. \A d \in Calls : st'[d] = IF d = c THEN o ELSE st[d] BY <1>6 DEF Return, ShapeOK
  <2>2. \A d \in Calls :
           landed'[d] = IF d = c THEN (IF o = "Paused" THEN landed[d] - 1 ELSE landed[d])
                        ELSE landed[d]
    BY <1>6 DEF Return, ShapeOK
  <2>3. st[c] = "Running" /\ o # "Running" BY <1>6, Names DEF Return
  <2>4. QED BY <1>l, <2>1, <2>2, <2>3 DEF LandedInv
<1>7. ASSUME NEW c \in Calls, Announce(c) PROVE LandedInv' BY <1>1, <1>7 DEF Announce, ShapeOK
<1>8. ASSUME NEW c \in Calls, AnnounceFails(c) PROVE LandedInv'
  BY <1>1, <1>8 DEF AnnounceFails, FailAll
<1>9. ASSUME NEW c \in Calls, Recovers(c) PROVE LandedInv'
  <2>1. landed' = landed BY <1>9 DEF Recovers
  <2>2. st' = [st EXCEPT ![c] = "Answered"] \/ FailAll({c}) BY <1>9 DEF Recovers, Recover, Answer
  <2>3. \A d \in Calls : st'[d] = "Running" => st[d] = "Running" BY <2>2 DEF FailAll, ShapeOK
  <2>4. QED BY <1>1, <2>1, <2>3
<1>10. ASSUME NEW c \in Calls, FoldDeferral(c) PROVE LandedInv'
  BY <1>1, <1>10 DEF FoldDeferral, File, ShapeOK
<1>11. ASSUME NEW c \in Calls, FoldPaused(c) PROVE LandedInv'
  BY <1>1, <1>11 DEF FoldPaused, File, ShapeOK
<1>12. ASSUME NEW c \in Calls, FoldOk(c) PROVE LandedInv'
  <2>1. landed' = landed /\ st' = [st EXCEPT ![c] = "Answered"] BY <1>12 DEF FoldOk, Answer
  <2>2. \A d \in Calls : st'[d] = "Running" => st[d] = "Running" BY <2>1 DEF ShapeOK
  <2>3. QED BY <1>1, <2>1, <2>2
<1>13. ASSUME NEW c \in Calls, FoldOkFails(c) PROVE LandedInv'
  BY <1>1, <1>13 DEF FoldOkFails, FailAll
<1>14. ASSUME NEW c \in Calls, FoldFatal(c) PROVE LandedInv'
  BY <1>1, <1>14 DEF FoldFatal, FailAll
<1>15. QED
  BY <1>2, <1>3, <1>4, <1>5, <1>6, <1>7, <1>8, <1>9, <1>10, <1>11, <1>12, <1>13, <1>14, Effects

-----------------------------------------------------------------------------
(* Types, pairing and budget.                                              *)

CallInv == ShapeOK /\ PhaseInv /\ TodoInv /\ DeferInv /\ OpenInv /\ SlotInv /\ LandedInv

LEMMA CallsHold == Spec => []CallInv
<1>1. Init => CallInv
  BY ShapeInit, PhaseInit, TodoInit, OpenInit, SlotInit DEF CallInv
<1>2. CallInv /\ [Next]_vars => CallInv'
  <2> SUFFICES ASSUME CallInv, [Next]_vars PROVE CallInv' OBVIOUS
  <2>1. ShapeOK' BY ShapeStep DEF CallInv
  <2>2. PhaseInv' BY PhaseStep DEF CallInv
  <2>3. TodoInv' /\ DeferInv' BY TodoStep DEF CallInv
  <2>4. OpenInv' BY OpenStep DEF CallInv
  <2>5. SlotInv' BY SlotStep DEF CallInv
  <2>6. LandedInv' BY LandedStep DEF CallInv
  <2>7. QED BY <2>1, <2>2, <2>3, <2>4, <2>5, <2>6 DEF CallInv
<1>3. QED BY <1>1, <1>2, PTL DEF Spec

\* Every variable keeps its type.  That the slot count, the occurrences of an id in
\* active_tool_calls and the effects never go below zero rests on the budget and the
\* pairing of starts and terminal events (release_active_tool_call, rollback_tool_call).
THEOREM TypeCorrect == Spec => []TypeOK
<1>1. CallInv => TypeOK
  <2> SUFFICES ASSUME CallInv PROVE TypeOK OBVIOUS
  <2>1. ShapeOK BY DEF CallInv
  <2>2. count \in Nat BY DEF CallInv, ShapeOK, SlotInv
  <2>3. active \in [Ids -> Nat]
    <3>1. Aloft \in SUBSET Calls BY DEF Aloft
    <3>2. \A i \in Ids : OfId(Aloft, i) \in SUBSET Calls BY <3>1 DEF OfId
    <3>3. \A i \in Ids : active[i] \in Nat BY <3>2, CallsFinite DEF CallInv, OpenInv
    <3>4. active \in [Ids -> Int] BY DEF CallInv, ShapeOK
    <3>5. QED BY <3>3, <3>4
  <2>4. landed \in [Calls -> Nat]
    <3>1. landed \in [Calls -> Int] /\ \A c \in Calls : landed[c] >= 0
      BY DEF CallInv, ShapeOK, LandedInv
    <3>2. QED BY <3>1
  <2>5. rows \in Seq(Ids \cup {FollowUp}) BY <2>1 DEF ShapeOK, Row
  <2>6. QED BY <2>1, <2>2, <2>3, <2>4, <2>5, Zenon DEF ShapeOK, TypeOK
<1>2. QED BY <1>1, CallsHold, PTL

\* The announcements and their terminal events: for any number of calls and any ids,
\* no call is closed twice, active_tool_calls holds each id as often as it has open
\* calls, and a stopped driver leaves one open only behind a failed fold of a
\* concurrent batch (start_tool_call, finish_tool_call, fail_tool_call).
THEOREM PairedHolds == Spec => []Paired
<1>1. CallInv => Paired
  <2> SUFFICES ASSUME CallInv PROVE Paired OBVIOUS
  <2>1. \A c \in Calls : terminal[c] \in Nat /\ started[c] \in Nat BY DEF CallInv, ShapeOK
  <2>2. \A c \in Calls : started[c] = terminal[c] + (IF st[c] \in Flying THEN 1 ELSE 0)
    BY DEF CallInv, OpenInv
  <2>3. \A c \in Calls : terminal[c] <= started[c] /\ started[c] <= terminal[c] + 1 BY <2>1, <2>2
  <2>4. \A c \in Calls : Open(c) <=> st[c] \in Flying BY <2>1, <2>2 DEF Open
  <2>5. ASSUME NEW i \in Ids PROVE active[i] = Cardinality({c \in Calls : id[c] = i /\ Open(c)})
    <3>1. {c \in Calls : id[c] = i /\ Open(c)} = OfId(Aloft, i) BY <2>4 DEF OfId, Aloft
    <3>2. QED BY <3>1 DEF CallInv, OpenInv
  <2>6. ASSUME pc \notin Busy, NEW c \in Calls, Open(c)
        PROVE  /\ pc = "failed" /\ mode = "concurrent"
               /\ st[c] \in Outcomes
               /\ \E d \in Calls : d < c /\ st[d] = "Failed"
    <3>1. st[c] \in Flying /\ c \in Group BY <2>4, <2>6, Names DEF Group
    <3>2. pc = "failed" BY <2>6, <3>1, StateNames DEF CallInv, PhaseInv
    <3>3. QED BY <3>1, <3>2 DEF CallInv, PhaseInv
  <2>7. QED BY <2>3, <2>5, <2>6 DEF Paired, OpenOnlyAfterFoldFailure
<1>2. QED BY <1>1, CallsHold, PTL

\* The budget: for any cap and any mix of answers, refusals, deferrals and pauses, the
\* cap is never passed, a call in flight holds a slot, and one that was refused,
\* deferred or paused holds none (record_tool_call, rollback_tool_call).
THEOREM SlotsAreAccountedHolds == Spec => []SlotsAreAccounted
<1>1. CallInv => SlotsAreAccounted
  BY DEF CallInv, SlotInv, SlotsAreAccounted, Holding, Charged
<1>2. QED BY <1>1, CallsHold, PTL

-----------------------------------------------------------------------------
(* Answers owed.                                                           *)

\* The calls whose answer is still to come: queued, in hand or filed.
Due == {c \in Calls : c \in Members(todo) \/ st[c] \in InGroup \cup {"Filed"}}

\* An id has no more rows than calls without the ones whose answer is to come; while
\* a batch is worked on, exactly as many.
OwedInv ==
    \A i \in Ids :
        /\ RowsOf(i, rows) + Cardinality(OfId(Due, i)) <= Cardinality(OfId(Calls, i))
        /\ pc \in Working =>
              RowsOf(i, rows) + Cardinality(OfId(Due, i)) = Cardinality(OfId(Calls, i))

\* The pending calls of an id are those behind its first rows: as many as are missing.
LEMMA BehindCount ==
    ASSUME NEW S \in SUBSET Calls, NEW n \in Nat, n <= Cardinality(S)
    PROVE  Cardinality({c \in S : Place(c, S) > n}) = Cardinality(S) - n
<1> DEFINE m == Cardinality(S)
           P == {c \in S : Place(c, S) > n}
           T == (n + 1)..m
           f == [c \in P |-> Place(c, S)]
<1>1. m \in Nat BY CallsFinite
<1>2. \A c \in S : Place(c, S) \in 1..m BY PlaceGrows
<1>3. \A c \in P : Place(c, S) \in T BY <1>1, <1>2
<1>4. f \in [P -> T] BY <1>3
<1>5. \A c, d \in P : f[c] = f[d] => c = d BY PlaceTaken
<1>6. \A k \in T : \E c \in P : f[c] = k
  <2> TAKE k \in T
  <2>1. k \in 1..m /\ k > n BY <1>1
  <2>2. PICK c \in S : Place(c, S) = k BY <2>1, PlaceTaken
  <2>3. c \in P BY <2>1, <2>2
  <2>4. QED BY <2>2, <2>3
<1>7. P \in SUBSET Calls OBVIOUS
<1>8. Cardinality(T) = m - n
  <2>1. n + 1 \in Int /\ m \in Int BY <1>1
  <2>2. Cardinality(T) = IF n + 1 > m THEN 0 ELSE m - (n + 1) + 1 BY <2>1, FS_Interval
  <2>3. QED BY <1>1, <2>2
<1> HIDE DEF f, T, m
<1>9. f \in Injection(P, T)
  <2>1. DOMAIN f = P BY DEF f
  <2>2. QED BY <1>4, <1>5, <2>1 DEF Injection, IsInjective
<1>10. f \in Surjection(P, T) BY <1>4, <1>6 DEF Surjection
<1> HIDE DEF P
<1>11. ExistsBijection(P, T) BY <1>9, <1>10 DEF ExistsBijection, Bijection
<1>12. IsFiniteSet(P) BY <1>7, CallsFinite
<1>13. Cardinality(T) = Cardinality(P) BY <1>11, <1>12, FS_Bijection
<1>14. QED BY <1>8, <1>13 DEF m, P

LEMMA RankIsPlace ==
    ASSUME NEW c \in Calls
    PROVE  /\ Rank(c) = Place(c, OfId(Calls, id[c]))
           /\ Rank(c) \in 1..Cardinality(OfId(Calls, id[c]))
<1>1. \A d : d \in 1..c <=> d \in Calls /\ d <= c BY NAssumption DEF Calls
<1>2. {d \in 1..c : id[d] = id[c]} = {d \in OfId(Calls, id[c]) : d <= c} BY <1>1 DEF OfId
<1>3. Rank(c) = Place(c, OfId(Calls, id[c])) BY <1>2 DEF Rank, Place
<1>4. OfId(Calls, id[c]) \in SUBSET Calls /\ c \in OfId(Calls, id[c]) BY DEF OfId
<1>5. Place(c, OfId(Calls, id[c])) \in 1..Cardinality(OfId(Calls, id[c])) BY <1>4, PlaceGrows
<1>6. QED BY <1>3, <1>5

\* What pending_tool_calls returns is what the transcript lacks.
LEMMA PendingCount ==
    ASSUME ShapeOK, NEW i \in Ids, RowsOf(i, rows) <= Cardinality(OfId(Calls, i))
    PROVE  RowsOf(i, rows) + Cardinality(OfId({c \in Calls : Pending(c, rows)}, i))
              = Cardinality(OfId(Calls, i))
<1> DEFINE S == OfId(Calls, i)
           n == RowsOf(i, rows)
<1>1. n \in Nat BY RowsOfType DEF ShapeOK
<1>2. S \in SUBSET Calls /\ Cardinality(S) \in Nat
  <2>1. S \in SUBSET Calls BY DEF OfId
  <2>2. QED BY <2>1, CallsFinite
<1>3. OfId({c \in Calls : Pending(c, rows)}, i) = {c \in S : Place(c, S) > n}
  <2>1. ASSUME NEW c \in S PROVE Pending(c, rows) <=> Place(c, S) > n
    <3>1. c \in Calls /\ id[c] = i BY DEF OfId
    <3>2. Rank(c) = Place(c, S) BY <3>1, RankIsPlace
    <3>3. QED BY <3>1, <3>2 DEF Pending
  <2>2. OfId({c \in Calls : Pending(c, rows)}, i) = {c \in S : Pending(c, rows)} BY DEF OfId
  <2> HIDE DEF S, n
  <2>3. QED BY <2>1, <2>2
<1> HIDE DEF S, n
<1>4. Cardinality({c \in S : Place(c, S) > n}) = Cardinality(S) - n BY <1>1, <1>2, BehindCount DEF S, n
<1>5. QED BY <1>1, <1>2, <1>3, <1>4 DEF S, n

\* With as many rows as calls of its id, a call is answered.
LEMMA NotPending ==
    ASSUME NEW c \in Calls, NEW seq, RowsOf(id[c], seq) = Cardinality(OfId(Calls, id[c]))
    PROVE  ~Pending(c, seq)
<1>1. Rank(c) \in 1..Cardinality(OfId(Calls, id[c])) BY RankIsPlace
<1>2. OfId(Calls, id[c]) \in SUBSET Calls BY DEF OfId
<1>3. Cardinality(OfId(Calls, id[c])) \in Nat BY <1>2, CallsFinite
<1>4. QED BY <1>1, <1>3 DEF Pending

LEMMA OwedTypes ==
    ASSUME ShapeOK, NEW i \in Ids
    PROVE  /\ RowsOf(i, rows) \in Nat /\ Cardinality(OfId(Calls, i)) \in Nat
           /\ Cardinality(OfId(Due, i)) \in Nat /\ OfId(Due, i) \in SUBSET OfId(Calls, i)
<1>1. OfId(Calls, i) \in SUBSET Calls /\ OfId(Due, i) \in SUBSET Calls BY DEF OfId, Due
<1>2. RowsOf(i, rows) \in Nat BY RowsOfType DEF ShapeOK
<1>3. OfId(Due, i) \in SUBSET OfId(Calls, i) BY DEF OfId, Due
<1>4. QED BY <1>1, <1>2, <1>3, CallsFinite

LEMMA OwedInit == Init => OwedInv
<1> SUFFICES ASSUME Init, NEW i \in Ids
             PROVE  RowsOf(i, rows) + Cardinality(OfId(Due, i)) = Cardinality(OfId(Calls, i))
  <2>1. ASSUME Init,
               \A i \in Ids :
                  RowsOf(i, rows) + Cardinality(OfId(Due, i)) = Cardinality(OfId(Calls, i))
        PROVE  OwedInv
    <3>1. \A i \in Ids : OfId(Calls, i) \in SUBSET Calls BY DEF OfId
    <3>2. \A i \in Ids : Cardinality(OfId(Calls, i)) \in Nat BY <3>1, CallsFinite
    <3>3. QED BY <2>1, <3>2 DEF OwedInv
  <2>2. QED BY <2>1
<1>1. Calls \in SUBSET Calls OBVIOUS
<1>2. Members(todo) = Calls BY <1>1, InOrderIs DEF Init
<1>3. Due = Calls BY <1>2 DEF Due
<1>4. RowsOf(i, rows) = 0
  <2>1. {k \in DOMAIN rows : rows[k] = i} = {} BY DEF Init
  <2>2. QED BY <2>1, FS_EmptySet DEF RowsOf
<1>5. OfId(Calls, i) \in SUBSET Calls BY DEF OfId
<1>6. Cardinality(OfId(Calls, i)) \in Nat BY <1>5, CallsFinite
<1>7. QED BY <1>3, <1>4, <1>6

\* Fewer answers are to come, and no more rows there, when a batch is left.
LEMMA OwedDrops ==
    ASSUME ShapeOK, OwedInv, ShapeOK', id' = id, Due' \subseteq Due, pc' \notin Working,
           \A i \in Ids : RowsOf(i, rows') <= RowsOf(i, rows)
    PROVE  OwedInv'
<1> SUFFICES ASSUME NEW i \in Ids
             PROVE  RowsOf(i, rows') + Cardinality(OfId(Due, i)') <= Cardinality(OfId(Calls, i))
  BY DEF OwedInv, OfId
<1>1. OfId(Due, i) \in SUBSET Calls /\ OfId(Due, i)' \in SUBSET OfId(Due, i) BY DEF OfId, Due
<1>2. Cardinality(OfId(Due, i)') <= Cardinality(OfId(Due, i)) BY <1>1, Smaller
<1>3. Cardinality(OfId(Due, i)') \in Nat
  <2>1. OfId(Due, i)' \in SUBSET Calls BY <1>1
  <2>2. QED BY <2>1, CallsFinite
<1>4. RowsOf(i, rows') \in Nat
  <2>1. rows' \in Seq(Row) BY DEF ShapeOK
  <2>2. QED BY <2>1, RowsOfType
<1>5. QED BY <1>2, <1>3, <1>4, OwedTypes DEF OwedInv

LEMMA OwedSame ==
    ASSUME OwedInv, id' = id, Due' = Due, pc' \in Working => pc \in Working,
           \A i \in Ids : RowsOf(i, rows') = RowsOf(i, rows)
    PROVE  OwedInv'
  BY DEF OwedInv, OfId

\* A row for a call whose answer was to come.
LEMMA OwedPays ==
    ASSUME ShapeOK, OwedInv, id' = id, NEW c \in Due, Due' = Due \ {c},
           pc' \in Working => pc \in Working, rows' = Append(rows, id[c])
    PROVE  OwedInv'
<1> SUFFICES ASSUME NEW i \in Ids
             PROVE  RowsOf(i, rows') + Cardinality(OfId(Due, i)')
                       = RowsOf(i, rows) + Cardinality(OfId(Due, i))
  BY DEF OwedInv, OfId
<1>1. c \in Calls /\ id[c] \in Row /\ rows \in Seq(Row) BY DEF Due, ShapeOK, Row
<1>2. RowsOf(i, rows') = RowsOf(i, rows) + (IF id[c] = i THEN 1 ELSE 0) BY <1>1, RowsOfAppend
<1>3. OfId(Due, i) \in SUBSET Calls BY DEF OfId, Due
<1>4. CASE id[c] = i
  <2>1. OfId(Due, i)' = OfId(Due, i) \ {c} /\ c \in OfId(Due, i) BY <1>4 DEF OfId
  <2>2. Cardinality(OfId(Due, i)') = Cardinality(OfId(Due, i)) - 1 BY <1>1, <1>3, <2>1, OneMore
  <2>3. QED BY <1>2, <1>4, <2>2, OwedTypes
<1>5. CASE id[c] # i
  <2>1. OfId(Due, i)' = OfId(Due, i) BY <1>5 DEF OfId
  <2>2. QED BY <1>2, <1>5, <2>1, OwedTypes
<1>6. QED BY <1>4, <1>5

\* When deferred calls are taken up, everything the transcript lacks is queued.
LEMMA OwedResumes ==
    ASSUME ShapeOK, OwedInv, id' = id, rows' = rows, NEW S \in SUBSET Calls, Due' = S,
           \A i \in Ids : RowsOf(i, rows) + Cardinality(OfId(S, i)) = Cardinality(OfId(Calls, i))
    PROVE  OwedInv'
<1>1. \A i \in Ids : OfId(Due, i)' = OfId(S, i) /\ OfId(Calls, i)' = OfId(Calls, i) BY DEF OfId
<1>2. \A i \in Ids : Cardinality(OfId(Calls, i)) \in Nat BY OwedTypes
<1>3. QED BY <1>1, <1>2 DEF OwedInv

LEMMA DueSame ==
    ASSUME todo' = todo,
           \A c \in Calls : \/ st'[c] = st[c]
                            \/ {st[c], st'[c]} \subseteq InGroup \cup {"Filed"}
    PROVE  Due' = Due
  BY DEF Due

LEMMA DueShrinks ==
    ASSUME todo' = todo,
           \A c \in Calls : st'[c] = st[c] \/ st'[c] = "Failed"
    PROVE  Due' \subseteq Due
  BY Names DEF Due

\* The answer of a call in hand, or of the first of the queue.
LEMMA DuePays ==
    ASSUME ShapeOK, TodoInv, NEW c \in Calls, NEW s, s \notin InGroup \cup {"Filed"},
           \A d \in Calls : st'[d] = IF d = c THEN s ELSE st[d],
           \/ todo' = todo /\ st[c] \in InGroup
           \/ todo # <<>> /\ todo' = Tail(todo) /\ c = Head(todo)
    PROVE  c \in Due /\ Due' = Due \ {c}
<1>1. CASE todo' = todo /\ st[c] \in InGroup
  <2>1. c \notin Members(todo) BY <1>1, Names DEF TodoInv
  <2>2. QED BY <1>1, <2>1 DEF Due
<1>2. CASE todo # <<>> /\ todo' = Tail(todo) /\ c = Head(todo)
  <2>1. c \notin Members(todo') /\ Members(todo) = {c} \cup Members(todo') BY <1>2, HeadOfTodo
  <2>2. QED BY <2>1 DEF Due
<1>3. QED BY <1>1, <1>2

LEMMA RecoverOwed ==
    ASSUME ShapeOK, ShapeOK', TodoInv, OwedInv, NEW c \in Calls, Recover(c), id' = id,
           pc \in {"fold", "resolve"},
           \/ todo' = todo /\ st[c] \in InGroup
           \/ todo # <<>> /\ todo' = Tail(todo) /\ c = Head(todo)
    PROVE  OwedInv'
<1>1. CASE Answer(c) /\ pc' = pc
  <2>1. st' = [st EXCEPT ![c] = "Answered"] /\ rows' = Append(rows, id[c]) BY <1>1 DEF Answer
  <2>2. \A d \in Calls : st'[d] = IF d = c THEN "Answered" ELSE st[d] BY <2>1 DEF ShapeOK
  <2>3. "Answered" \notin InGroup \cup {"Filed"} BY Names
  <2>4. c \in Due /\ Due' = Due \ {c} BY <2>2, <2>3, DuePays
  <2>5. QED BY <1>1, <2>1, <2>4, OwedPays
<1>2. CASE FailAll({c}) /\ pc' = "failed" /\ rows' = rows
  <2>1. \A d \in Calls : st'[d] = IF d = c THEN "Failed" ELSE st[d] BY <1>2 DEF FailAll
  <2>2. "Failed" \notin InGroup \cup {"Filed"} BY Names
  <2>3. Due' \subseteq Due BY <2>1, <2>2, DuePays
  <2>4. pc' \notin Working BY <1>2 DEF Working, Taking
  <2>5. \A i \in Ids : RowsOf(i, rows') <= RowsOf(i, rows) BY <1>2, OwedTypes
  <2>6. QED BY <2>3, <2>4, <2>5, OwedDrops
<1>3. QED BY <1>1, <1>2 DEF Recover

\* The reconciliation looks at calls without a row.
LEMMA OwedReconciles ==
    ASSUME ShapeOK, OwedInv, id' = id, rows' = rows, NEW R, StartReconcile(R)
    PROVE  OwedInv'
<1> DEFINE S == {c \in Calls : RowsOf(id[c], rows) = 0 /\ id[c] \notin Earlier /\ id[c] \notin R}
<1>1. S \in SUBSET Calls OBVIOUS
<1>2. Members(todo') = S BY <1>1, InOrderIs DEF StartReconcile, Unanswered
<1>3. \A c \in Calls : st'[c] = "todo" BY DEF StartReconcile, NewProcess
<1>4. Due' = S BY <1>2, <1>3, Names DEF Due
<1>5. pc' \notin Working BY DEF StartReconcile, Working, Taking
<1>6. ASSUME NEW i \in Ids
      PROVE  RowsOf(i, rows) + Cardinality(OfId(S, i)) <= Cardinality(OfId(Calls, i))
  <2>1. RowsOf(i, rows) \in Nat /\ Cardinality(OfId(Calls, i)) \in Nat BY OwedTypes
  <2>2. CASE RowsOf(i, rows) = 0
    <3>1. OfId(Calls, i) \in SUBSET Calls /\ OfId(S, i) \in SUBSET OfId(Calls, i) BY DEF OfId
    <3>2. Cardinality(OfId(S, i)) <= Cardinality(OfId(Calls, i)) BY <3>1, Smaller
    <3>3. Cardinality(OfId(S, i)) \in Nat
      <4>1. OfId(S, i) \in SUBSET Calls BY DEF OfId
      <4>2. QED BY <4>1, CallsFinite
    <3>4. QED BY <2>1, <2>2, <3>2, <3>3
  <2>3. CASE RowsOf(i, rows) # 0
    <3>1. OfId(S, i) = {} BY <2>3 DEF OfId
    <3>2. Cardinality(OfId(S, i)) = 0 BY <3>1, FS_EmptySet
    <3>3. RowsOf(i, rows) + Cardinality(OfId(Due, i)) <= Cardinality(OfId(Calls, i)) BY DEF OwedInv
    <3>4. QED BY <2>1, <3>2, <3>3, OwedTypes
  <2>4. QED BY <2>2, <2>3
<1> HIDE DEF S
<1>7. \A i \in Ids : OfId(Due, i)' = OfId(S, i) /\ OfId(Calls, i)' = OfId(Calls, i) BY <1>4 DEF OfId
<1>8. QED BY <1>5, <1>6, <1>7 DEF OwedInv

LEMMA OwedStep ==
    ASSUME ShapeOK, PhaseInv, TodoInv, DeferInv, OwedInv, [Next]_vars
    PROVE  OwedInv'
<1> USE DEF given, host, ghosts, bounds
<1>i. id' = id BY Effects
<1>s. ShapeOK' BY ShapeStep
<1>w. Working = {"admit", "announce", "execute", "fold", "resolve", "settle"} BY DEF Working, Taking
<1>e. ASSUME rows' = rows PROVE \A i \in Ids : /\ RowsOf(i, rows') = RowsOf(i, rows)
                                               /\ RowsOf(i, rows') <= RowsOf(i, rows)
  BY <1>e, OwedTypes
<1>1. ASSUME todo' = todo, st' = st, rows' = rows, pc' \in Working => pc \in Working
      PROVE  OwedInv'
  <2>1. Due' = Due BY <1>1 DEF Due
  <2>2. QED BY <1>1, <1>e, <1>i, <2>1, OwedSame
<1>2. ASSUME NEW s \in Answers \cup {"Deferral", "Tool"}, NEW slots, Admitted(s, slots)
      PROVE  OwedInv'
  <2>1. /\ todo # <<>> /\ todo' = Tail(todo) /\ rows' = rows
        /\ pc = "admit" /\ pc' \in {"admit", "announce"}
    BY <1>2 DEF ShapeOK, Admitted
  <2>2. Head(todo) \in Calls /\ Members(todo) = {Head(todo)} \cup Members(todo') BY <2>1, HeadOfTodo
  <2>3. \A c \in Calls : st'[c] = IF c = Head(todo) THEN s ELSE st[c]
    BY <1>2, <2>2 DEF ShapeOK, Admitted
  <2>4. s \in InGroup BY Names
  <2>5. st[Head(todo)] = "todo" BY <2>1, HeadOfTodo
  <2>6. Due' = Due BY <2>2, <2>3, <2>4 DEF Due
  <2>7. QED BY <1>e, <1>i, <1>w, <2>1, <2>6, OwedSame
<1>3. CASE Admit
  <2>1. CASE AdmitFails BY <1>1, <1>w, <2>1 DEF AdmitFails
  <2>2. CASE AdmitTool BY <1>2, <2>2 DEF AdmitTool
  <2>3. CASE AdmitCorrection BY <1>2, <2>3, Names DEF AdmitCorrection
  <2>4. CASE AdmitRefusal BY <1>2, <2>4, Names DEF AdmitRefusal
  <2>5. CASE AdmitTruncated BY <1>2, <2>5, Names DEF AdmitTruncated
  <2>6. CASE AdmitDeferral BY <1>2, <2>6 DEF AdmitDeferral
  <2>7. QED BY <1>3, <2>1, <2>2, <2>3, <2>4, <2>5, <2>6 DEF Admit
<1>4. ASSUME NEW c \in Calls, NEW s, st' = [st EXCEPT ![c] = s], todo' = todo, rows' = rows,
             pc' = pc, st[c] \in InGroup, s \in InGroup \cup {"Filed"}
      PROVE  OwedInv'
  <2>1. \A d \in Calls : st'[d] = st[d] \/ {st[d], st'[d]} \subseteq InGroup \cup {"Filed"}
    BY <1>4 DEF ShapeOK
  <2>2. Due' = Due BY <1>4, <2>1, DueSame
  <2>3. QED BY <1>4, <1>e, <1>i, <2>2, OwedSame
<1>5. ASSUME NEW S, FailAll(S), todo' = todo, rows' = rows, pc' = "failed" PROVE OwedInv'
  <2>1. Due' \subseteq Due BY <1>5, DueShrinks DEF FailAll
  <2>2. QED BY <1>5, <1>e, <1>i, <1>s, <1>w, <2>1, OwedDrops
<1>6. ASSUME NEW c \in Calls, CallStep(c) PROVE OwedInv'
  <2>1. CASE Announce(c)
    <3>1. st[c] = "Tool" BY <2>1 DEF Announce, Leads
    <3>2. QED BY <1>4, <2>1, <3>1, Names DEF Announce
  <2>2. CASE AnnounceFails(c) BY <1>5, <2>2 DEF AnnounceFails
  <2>3. CASE Poll(c) BY <1>4, <2>3, Names DEF Poll
  <2>4. ASSUME NEW o \in Outcomes, Return(c, o) PROVE OwedInv' BY <1>4, <2>4, Names DEF Return
  <2>5. CASE FoldAnswer(c)
    <3>1. Recover(c) /\ pc = "fold" /\ todo' = todo /\ st[c] \in InGroup
      BY <2>5, Names DEF FoldAnswer
    <3>2. QED BY <1>i, <1>s, <3>1, RecoverOwed
  <2>6. CASE FoldDeferral(c) BY <1>4, <2>6, Names DEF FoldDeferral, File
  <2>7. CASE FoldPaused(c) BY <1>4, <2>7, Names DEF FoldPaused, File
  <2>8. CASE FoldOk(c)
    <3>1. /\ st' = [st EXCEPT ![c] = "Answered"] /\ rows' = Append(rows, id[c]) /\ st[c] = "Ok"
          /\ pc' = pc /\ todo' = todo
      BY <2>8 DEF FoldOk, Answer
    <3>2. \A d \in Calls : st'[d] = IF d = c THEN "Answered" ELSE st[d] BY <3>1 DEF ShapeOK
    <3>3. "Answered" \notin InGroup \cup {"Filed"} /\ st[c] \in InGroup BY <3>1, Names
    <3>4. c \in Due /\ Due' = Due \ {c} BY <3>1, <3>2, <3>3, DuePays
    <3>5. QED BY <1>i, <3>1, <3>4, OwedPays
  <2>9. CASE FoldOkFails(c) BY <1>5, <2>9 DEF FoldOkFails
  <2>10. CASE FoldFatal(c) BY <1>5, <2>10 DEF FoldFatal
  <2>11. QED
    BY <1>6, <2>1, <2>2, <2>3, <2>4, <2>5, <2>6, <2>7, <2>8, <2>9, <2>10 DEF CallStep, Fold
<1>7. CASE BatchStep
  <2>1. CASE Announced BY <1>1, <1>w, <2>1 DEF Announced
  <2>2. CASE Executed BY <1>1, <1>w, <2>2 DEF Executed
  <2>3. CASE FoldNext BY <1>1, <1>w, <2>3 DEF FoldNext
  <2>4. CASE EndBatch
    <3>1. rows' = rows \o follow /\ todo' = todo /\ st' = st /\ pc \in {"fold", "resolve"}
      BY <2>4 DEF EndBatch
    <3>2. \A i \in Ids : RowsOf(i, rows') = RowsOf(i, rows) BY <3>1, RowsOfFollow DEF ShapeOK
    <3>3. Due' = Due BY <3>1 DEF Due
    <3>4. QED BY <1>i, <1>w, <3>1, <3>2, <3>3, OwedSame
  <2>5. CASE Continue BY <1>1, <1>w, <2>5 DEF Continue
  <2>6. CASE ExitDeferred BY <1>1, <1>w, <2>6 DEF ExitDeferred
  <2>7. CASE HandleDeferred
    <3> DEFINE pending == deferred.approvals \o deferred.calls
               S == {c \in Calls : st[c] = "Filed"}
    <3>1. PICK R \in SUBSET {id[c] : c \in S} : ApplyDeferredResults(pending, R, "handled")
      BY <2>7 DEF HandleDeferred
    <3>2. pc = "settle" /\ rows' = rows /\ Members(pending) = S
      BY <2>7, FiledCalls DEF HandleDeferred
    <3>3. Group = {} /\ Members(todo) = {} BY <3>2, NoMembers DEF PhaseInv, TodoInv
    <3>4. Due = S BY <3>3 DEF Due, Group
    <3> HIDE DEF pending
    <3>5. CASE todo' = todo /\ st' = st BY <1>1, <1>w, <3>2, <3>5
    <3>6. CASE /\ todo' = pending
               /\ st' = [c \in Calls |-> IF st[c] = "Filed" THEN "todo" ELSE st[c]]
      <4>1. \A c \in Calls : st'[c] \notin InGroup \cup {"Filed"} BY <3>3, <3>6, Names DEF Group
      <4>2. Due' = Due BY <3>2, <3>4, <3>6, <4>1 DEF Due
      <4>3. QED BY <1>e, <1>i, <1>w, <3>2, <4>2, OwedSame
    <3>7. QED BY <3>1, <3>5, <3>6 DEF ApplyDeferredResults
  <2>8. CASE ResolveAnswer
    <3>1. todo # <<>> /\ todo' = Tail(todo) /\ pc = "resolve" /\ Recover(Head(todo))
      BY <2>8 DEF ResolveAnswer
    <3>2. Head(todo) \in Calls BY <3>1, HeadOfTodo
    <3>3. QED BY <1>i, <1>s, <3>1, <3>2, RecoverOwed
  <2>9. CASE ResolveApprove BY <1>1, <1>w, <2>9 DEF ResolveApprove
  <2>10. CASE ResolvePanics BY <1>1, <1>w, <2>10 DEF ResolvePanics
  <2>11. CASE ReconcileCall
    <3> DEFINE c == Head(todo)
    <3>1. todo # <<>> /\ todo' = Tail(todo) /\ pc = "reconcile" /\ pc' = pc /\ st' = st
      BY <2>11 DEF ReconcileCall
    <3>2. c \in Calls /\ st[c] = "todo" BY <3>1, HeadOfTodo
    <3>3. \A d \in Calls : st'[d] = IF d = c THEN "todo" ELSE st[d] BY <3>1, <3>2
    <3>4. "todo" \notin InGroup \cup {"Filed"} BY Names
    <3>5. c \in Due /\ Due' = Due \ {c} BY <3>1, <3>2, <3>3, <3>4, DuePays
    <3>6. CASE rows' = Append(rows, id[c]) BY <1>i, <3>1, <3>5, <3>6, OwedPays
    <3>7. CASE rows' = rows BY <1>e, <1>i, <1>s, <1>w, <3>1, <3>5, <3>7, OwedDrops
    <3>8. QED BY <2>11, <3>6, <3>7 DEF ReconcileCall
  <2>12. CASE ReconcileFails BY <1>1, <1>w, <2>12 DEF ReconcileFails
  <2>13. CASE ResumeLoop
    <3> DEFINE S == {c \in Calls : Pending(c, rows)}
    <3>1. pc = "reconcile" /\ rows' = rows /\ todo = <<>> BY <2>13 DEF ResumeLoop
    <3>2. CASE todo' = todo /\ st' = st /\ pc' = "failed" BY <1>1, <1>w, <3>1, <3>2
    <3>3. CASE /\ todo' = PendingToolCalls(rows)
               /\ st' = [c \in Calls |-> IF st[c] = "Filed" THEN "todo" ELSE st[c]]
      <4>1. S \in SUBSET Calls OBVIOUS
      <4>2. Members(todo') = S BY <3>3, <4>1, InOrderIs DEF PendingToolCalls
      <4>3. \A c \in Calls : st'[c] = "todo" BY <3>1, <3>3 DEF TodoInv
      <4>4. Due' = S BY <4>2, <4>3, Names DEF Due
      <4>5. ASSUME NEW i \in Ids
            PROVE  RowsOf(i, rows) + Cardinality(OfId(S, i)) = Cardinality(OfId(Calls, i))
        <5>1. RowsOf(i, rows) <= Cardinality(OfId(Calls, i)) BY OwedTypes DEF OwedInv
        <5>2. QED BY <5>1, PendingCount
      <4> HIDE DEF S
      <4>6. QED BY <1>i, <3>1, <4>1, <4>4, <4>5, OwedResumes
    <3>4. QED BY <2>13, <3>2, <3>3 DEF ResumeLoop, ApplyDeferredResults
  <2>14. CASE ReenterLoop BY <1>1, <1>w, <2>14 DEF ReenterLoop
  <2>15. QED
    BY <1>7, <2>1, <2>2, <2>3, <2>4, <2>5, <2>6, <2>7, <2>8, <2>9, <2>10, <2>11, <2>12, <2>13,
       <2>14
    DEF BatchStep
<1>8. CASE Crash
  <2>1. PICK k \in saved..Len(rows) : rows' = SubSeq(rows, 1, k) BY <1>8 DEF Crash
  <2>2. k \in 0..Len(rows) /\ rows \in Seq(Row) BY DEF ShapeOK
  <2>3. \A i \in Ids : RowsOf(i, rows') <= RowsOf(i, rows) BY <2>1, <2>2, RowsOfPrefix
  <2>4. todo' = <<>> /\ \A c \in Calls : st'[c] = "todo" BY <1>8 DEF Crash, NewProcess
  <2>5. Due' = {} BY <2>4, NoMembers, Names DEF Due
  <2>6. pc' \notin Working BY <1>8, <1>w DEF Crash
  <2>7. QED BY <1>i, <1>s, <2>3, <2>5, <2>6, OwedDrops
<1>9. CASE ResumeDeferred BY <1>9, <1>i, OwedReconciles DEF ResumeDeferred
<1>10. CASE Reenter BY <1>10, <1>i, OwedReconciles DEF Reenter
<1>11. CASE UNCHANGED vars BY <1>1, <1>11 DEF vars
<1>12. QED
  BY <1>3, <1>6, <1>7, <1>8, <1>9, <1>10, <1>11 DEF Next, Drive, Quiescent

LEMMA OwedHolds == Spec => [](CallInv /\ OwedInv)
<1>1. Init => OwedInv BY OwedInit
<1>2. CallInv /\ OwedInv /\ [Next]_vars => OwedInv' BY OwedStep DEF CallInv
<1>3. QED BY <1>1, <1>2, CallsHold, PTL DEF Spec

\* No call is answered twice: an id never has more rows than the assistant row has
\* calls with it, whatever was deferred, denied, approved, lost in a crash or
\* synthesized by a reconciliation (finish_tool_call, pending_tool_calls,
\* reconcile_tool_effects).
THEOREM AnsweredOnceHolds == Spec => []AnsweredOnce
<1>1. CallInv /\ OwedInv => AnsweredOnce
  <2> SUFFICES ASSUME CallInv, OwedInv, NEW i \in Ids
               PROVE  RowsOf(i, rows) <= Cardinality({c \in Calls : id[c] = i})
    BY DEF AnsweredOnce
  <2>1. RowsOf(i, rows) + Cardinality(OfId(Due, i)) <= Cardinality(OfId(Calls, i)) BY DEF OwedInv
  <2>2. QED BY <2>1, OwedTypes DEF OfId, CallInv
<1>2. QED BY <1>1, OwedHolds, PTL

-----------------------------------------------------------------------------
(* How a batch is left.                                                    *)

\* Of a batch, or of a resume of the whole of it, an untouched call is queued.
CoverInv ==
    pc \in Working /\ (stage = "batch" \/ whole) =>
        \A c \in Calls : st[c] = "todo" => c \in Members(todo)

\* Its votes stand for all the calls answered so far.
VoteInv ==
    (pc \in Taking /\ (stage = "batch" \/ whole) /\ \A k \in DOMAIN votes : votes[k]) =>
        \A c \in Calls : st[c] = "Answered" => c \in voted

\* A reconciliation follows a crash or serves a resume; what it reads as started, and
\* must not be replayed, is queued, excluded, taken for answered or
\* has a row.
ReconcileInv ==
    /\ pc = "down" => crashes > 0
    /\ pc = "reconcile" =>
        /\ crashes > 0 \/ (resumes > 0 /\ named # {})
        /\ \A i \in Ids : ledger[i] = "Started" => i \in unresolved
        /\ \A c \in Calls \ Safe :
              \/ c \in Members(todo) \/ id[c] \in named \cup Earlier
              \/ RowsOf(id[c], rows) > 0 \/ ledger[id[c]] # "Started"

\* A queue as long as the row holds every call of it.
LEMMA WholeQueue ==
    ASSUME NEW s \in Seq(Calls), Injective(s), Len(s) = N
    PROVE  Members(s) = Calls
<1>1. Len(s) \in Nat /\ DOMAIN s = 1..N /\ \A k \in 1..N : s[k] \in Calls OBVIOUS
<1>2. s \in [1..N -> Calls] BY <1>1
<1>3. s \in Injection(1..N, Calls)
  <2>1. DOMAIN s = 1..N BY <1>1
  <2>2. QED BY <1>2, <2>1 DEF Injection, IsInjective, Injective
<1>4. IsFiniteSet(Calls) /\ Cardinality(Calls) = N BY CallsFinite, CallsAreInts
<1>5. s \in Surjection(1..N, Calls)
  <2>1. Calls = 1..N BY DEF Calls
  <2>2. s \in Injection(Calls, Calls) BY <1>3, <2>1
  <2>3. s \in Surjection(Calls, Calls) BY <1>4, <2>2, FS_Injection
  <2>4. QED BY <2>1, <2>3
<1>6. \A c \in Calls : \E k \in 1..N : s[k] = c BY <1>5 DEF Surjection
<1>7. Members(s) \subseteq Calls BY MembersType
<1>8. QED BY <1>1, <1>6, <1>7 DEF Members

LEMMA LeftInit == Init => CoverInv /\ VoteInv /\ ReconcileInv /\ LeftAnswered
<1> SUFFICES ASSUME Init PROVE CoverInv /\ VoteInv /\ ReconcileInv /\ LeftAnswered OBVIOUS
<1>1. Calls \in SUBSET Calls OBVIOUS
<1>2. Members(todo) = Calls BY <1>1, InOrderIs DEF Init
<1>3. pc = "admit" /\ \A c \in Calls : st[c] = "todo" BY DEF Init
<1>4. CoverInv BY <1>2 DEF CoverInv
<1>5. VoteInv BY <1>3 DEF VoteInv
<1>6. QED
  BY <1>3, <1>4, <1>5 DEF ReconcileInv, LeftAnswered, NextIsAnswered, TerminationIsUnanimous

\* Calls leave the queue only when they are touched.
LEMMA CoverKeeps ==
    ASSUME CoverInv, stage' = stage, whole' = whole, pc' \in Working => pc \in Working,
           \A c \in Calls : st'[c] = "todo" => st[c] = "todo",
           \A c \in Calls : st'[c] = "todo" /\ c \in Members(todo) => c \in Members(todo')
    PROVE  CoverInv'
  BY DEF CoverInv

LEMMA VoteKeeps ==
    ASSUME VoteInv, stage' = stage, whole' = whole, votes' = votes, voted' = voted,
           pc' \in Taking => pc \in Taking,
           \A c \in Calls : st'[c] = "Answered" => st[c] = "Answered"
    PROVE  VoteInv'
  BY DEF VoteInv

LEMMA AnswerVotes ==
    ASSUME ShapeOK, VoteInv, stage' = stage, whole' = whole, NEW c \in Calls, Answer(c), pc' = pc
    PROVE  VoteInv'
<1>1. PICK v \in BOOLEAN : /\ votes' = Append(votes, v)
                           /\ voted' = IF v THEN voted \cup {c} ELSE voted \ {c}
  BY DEF Answer
<1>2. votes \in Seq(BOOLEAN) BY DEF ShapeOK
<1>3. st' = [st EXCEPT ![c] = "Answered"] BY DEF Answer
<1>4. \A d \in Calls : st'[d] = IF d = c THEN "Answered" ELSE st[d] BY <1>3 DEF ShapeOK
<1>5. SUFFICES ASSUME pc \in Taking, stage = "batch" \/ whole, \A k \in DOMAIN votes' : votes'[k],
                      NEW d \in Calls, st'[d] = "Answered"
               PROVE  d \in voted'
  BY DEF VoteInv
<1>6. /\ DOMAIN votes' = 1..(Len(votes) + 1) /\ DOMAIN votes = 1..Len(votes) /\ Len(votes) \in Nat
      /\ \A k \in 1..Len(votes) : votes'[k] = votes[k]
      /\ votes'[Len(votes) + 1] = v
  BY <1>1, <1>2, AppendProperties
<1>7. Len(votes) + 1 \in DOMAIN votes' /\ \A k \in DOMAIN votes : k \in DOMAIN votes' BY <1>6
<1>8. \A k \in DOMAIN votes : votes[k]
  <2>1. \A k \in DOMAIN votes : votes'[k] = votes[k] BY <1>6
  <2>2. QED BY <1>5, <1>7, <2>1
<1>9. v = TRUE
  <2>1. votes'[Len(votes) + 1] BY <1>5, <1>7
  <2>2. QED BY <1>6, <2>1
<1>10. voted' = voted \cup {c} BY <1>1, <1>9
<1>11. d = c \/ d \in voted BY <1>4, <1>5, <1>8 DEF VoteInv
<1>12. QED BY <1>10, <1>11

LEMMA RecoverVotes ==
    ASSUME ShapeOK, VoteInv, stage' = stage, whole' = whole, NEW c \in Calls, Recover(c)
    PROVE  VoteInv'
<1>1. CASE Answer(c) /\ pc' = pc BY <1>1, AnswerVotes
<1>2. CASE pc' = "failed" BY <1>2 DEF VoteInv, Taking
<1>3. QED BY <1>1, <1>2 DEF Recover

LEMMA ApplyLeft ==
    ASSUME NEW pending \in Seq(Calls), NEW R, NEW by \in {"resume", "handled"},
           Injective(pending), \A c \in Members(pending) : st[c] \in {"Filed", "todo"},
           ApplyDeferredResults(pending, R, by)
    PROVE  CoverInv' /\ VoteInv'
<1>1. CASE pc' = "failed" BY <1>1 DEF CoverInv, VoteInv, Working, Taking
<1>2. CASE /\ todo' = pending
           /\ st' = [c \in Calls |-> IF st[c] = "Filed" THEN "todo" ELSE st[c]]
  <2>1. stage' # "batch" /\ (whole' => Len(pending) = N) BY DEF ApplyDeferredResults
  <2>2. ASSUME whole' PROVE Members(todo') = Calls /\ \A c \in Calls : st'[c] = "todo"
    <3>1. Members(pending) = Calls BY <2>1, <2>2, WholeQueue
    <3>2. QED BY <1>2, <3>1
  <2>3. QED BY <2>1, <2>2 DEF CoverInv, VoteInv
<1>3. QED BY <1>1, <1>2 DEF ApplyDeferredResults

LEMMA VoteStep ==
    ASSUME ShapeOK, PhaseInv, TodoInv, DeferInv, CoverInv, VoteInv, [Next]_vars
    PROVE  CoverInv' /\ VoteInv'
<1> USE DEF given, host, ghosts, bounds
<1>w. /\ Working = {"admit", "announce", "execute", "fold", "resolve", "settle"}
      /\ Taking = {"admit", "announce", "execute", "fold", "resolve"}
  BY DEF Working, Taking
<1>1. ASSUME UNCHANGED <<stage, whole, todo, votes, voted>>,
             \A c \in Calls : st'[c] \in {"todo", "Answered"} => st'[c] = st[c],
             pc' \in Working => pc \in Working, pc' \in Taking => pc \in Taking
      PROVE  CoverInv' /\ VoteInv'
  BY <1>1, CoverKeeps, VoteKeeps
<1>2. ASSUME NEW s \in Answers \cup {"Deferral", "Tool"}, NEW slots, Admitted(s, slots)
      PROVE  CoverInv' /\ VoteInv'
  <2>1. /\ todo # <<>> /\ todo' = Tail(todo) /\ pc = "admit" /\ stage' = stage /\ whole' = whole
        /\ votes' = votes /\ voted' = voted
    BY <1>2 DEF ShapeOK, Admitted
  <2>2. Head(todo) \in Calls /\ Members(todo) = {Head(todo)} \cup Members(todo') BY <2>1, HeadOfTodo
  <2>3. \A c \in Calls : st'[c] = IF c = Head(todo) THEN s ELSE st[c]
    BY <1>2, <2>2 DEF ShapeOK, Admitted
  <2>4. s \notin {"todo", "Answered"} BY Names
  <2>5. CoverInv' BY <1>w, <2>1, <2>2, <2>3, <2>4, CoverKeeps
  <2>6. VoteInv' BY <1>w, <2>1, <2>3, <2>4, VoteKeeps
  <2>7. QED BY <2>5, <2>6
<1>3. CASE Admit
  <2>1. CASE AdmitFails BY <1>1, <1>w, <2>1 DEF AdmitFails
  <2>2. CASE AdmitTool BY <1>2, <2>2 DEF AdmitTool
  <2>3. CASE AdmitCorrection BY <1>2, <2>3, Names DEF AdmitCorrection
  <2>4. CASE AdmitRefusal BY <1>2, <2>4, Names DEF AdmitRefusal
  <2>5. CASE AdmitTruncated BY <1>2, <2>5, Names DEF AdmitTruncated
  <2>6. CASE AdmitDeferral BY <1>2, <2>6 DEF AdmitDeferral
  <2>7. QED BY <1>3, <2>1, <2>2, <2>3, <2>4, <2>5, <2>6 DEF Admit
<1>4. ASSUME NEW c \in Calls, CallStep(c) PROVE CoverInv' /\ VoteInv'
  <2>1. CASE Announce(c) BY <1>1, <1>w, <2>1 DEF Announce, ShapeOK
  <2>2. CASE AnnounceFails(c) BY <1>1, <1>w, <2>2 DEF AnnounceFails, FailAll
  <2>3. CASE Poll(c) BY <1>1, <1>w, <2>3 DEF Poll, ShapeOK
  <2>4. ASSUME NEW o \in Outcomes, Return(c, o) PROVE CoverInv' /\ VoteInv'
    <3>1. o \notin {"todo", "Answered"} BY Names
    <3>2. QED BY <1>1, <1>w, <2>4, <3>1 DEF Return, ShapeOK
  <2>5. CASE FoldAnswer(c)
    <3>1. Recover(c) /\ pc = "fold" /\ todo' = todo /\ stage' = stage /\ whole' = whole
      BY <2>5 DEF FoldAnswer
    <3>2. st' = [st EXCEPT ![c] = "Answered"] \/ FailAll({c}) BY <3>1 DEF Recover, Answer
    <3>3. \A d \in Calls : st'[d] = "todo" => st[d] = "todo" BY <3>2 DEF FailAll, ShapeOK
    <3>4. CoverInv' BY <1>w, <3>1, <3>3, CoverKeeps
    <3>5. VoteInv' BY <3>1, RecoverVotes
    <3>6. QED BY <3>4, <3>5
  <2>6. CASE FoldDeferral(c) BY <1>1, <1>w, <2>6 DEF FoldDeferral, File, ShapeOK
  <2>7. CASE FoldPaused(c) BY <1>1, <1>w, <2>7 DEF FoldPaused, File, ShapeOK
  <2>8. CASE FoldOk(c)
    <3>1. Answer(c) /\ pc = "fold" /\ pc' = pc /\ todo' = todo /\ stage' = stage /\ whole' = whole
      BY <2>8 DEF FoldOk
    <3>2. st' = [st EXCEPT ![c] = "Answered"] BY <3>1 DEF Answer
    <3>3. \A d \in Calls : st'[d] = "todo" => st[d] = "todo" BY <3>2 DEF ShapeOK
    <3>4. CoverInv' BY <1>w, <3>1, <3>3, CoverKeeps
    <3>5. VoteInv' BY <3>1, AnswerVotes
    <3>6. QED BY <3>4, <3>5
  <2>9. CASE FoldOkFails(c) BY <1>1, <1>w, <2>9 DEF FoldOkFails, FailAll
  <2>10. CASE FoldFatal(c) BY <1>1, <1>w, <2>10 DEF FoldFatal, FailAll
  <2>11. QED
    BY <1>4, <2>1, <2>2, <2>3, <2>4, <2>5, <2>6, <2>7, <2>8, <2>9, <2>10 DEF CallStep, Fold
<1>5. CASE BatchStep
  <2>1. CASE Announced BY <1>1, <1>w, <2>1 DEF Announced
  <2>2. CASE Executed BY <1>1, <1>w, <2>2 DEF Executed
  <2>3. CASE FoldNext BY <1>1, <1>w, <2>3 DEF FoldNext
  <2>4. CASE EndBatch
    <3>1. /\ todo' = todo /\ st' = st /\ pc \in {"fold", "resolve"} /\ pc' \in {"ended", "settle"}
          /\ stage' = stage /\ whole' = whole
      BY <2>4 DEF EndBatch
    <3>2. CoverInv' BY <1>w, <3>1, CoverKeeps
    <3>3. VoteInv' BY <1>w, <3>1 DEF VoteInv
    <3>4. QED BY <3>2, <3>3
  <2>5. CASE Continue BY <1>1, <1>w, <2>5 DEF Continue
  <2>6. CASE ExitDeferred BY <1>1, <1>w, <2>6 DEF ExitDeferred
  <2>7. CASE HandleDeferred
    <3> DEFINE pending == deferred.approvals \o deferred.calls
    <3>1. PICK R \in SUBSET {id[c] : c \in {d \in Calls : st[d] = "Filed"}} :
             ApplyDeferredResults(pending, R, "handled")
      BY <2>7 DEF HandleDeferred
    <3>2. /\ pending \in Seq(Calls) /\ Injective(pending)
          /\ Members(pending) = {c \in Calls : st[c] = "Filed"}
      BY <2>7, FiledCalls DEF HandleDeferred
    <3> HIDE DEF pending
    <3>3. QED BY <3>1, <3>2, ApplyLeft
  <2>8. CASE ResolveAnswer
    <3>1. /\ todo # <<>> /\ todo' = Tail(todo) /\ pc = "resolve" /\ Recover(Head(todo))
          /\ stage' = stage /\ whole' = whole
      BY <2>8 DEF ResolveAnswer
    <3>2. Head(todo) \in Calls /\ Members(todo) = {Head(todo)} \cup Members(todo') BY <3>1, HeadOfTodo
    <3>3. st' = [st EXCEPT ![Head(todo)] = "Answered"] \/ FailAll({Head(todo)})
      BY <3>1 DEF Recover, Answer
    <3>4. \A d \in Calls : st'[d] = "todo" => st[d] = "todo" /\ d # Head(todo)
      BY <3>2, <3>3 DEF FailAll, ShapeOK
    <3>5. CoverInv' BY <1>w, <3>1, <3>2, <3>4, CoverKeeps
    <3>6. VoteInv' BY <3>1, <3>2, RecoverVotes
    <3>7. QED BY <3>5, <3>6
  <2>9. CASE ResolveApprove BY <1>1, <1>w, <2>9 DEF ResolveApprove
  <2>10. CASE ResolvePanics BY <1>1, <1>w, <2>10 DEF ResolvePanics
  <2>11. CASE ReconcileCall BY <1>w, <2>11 DEF ReconcileCall, CoverInv, VoteInv
  <2>12. CASE ReconcileFails BY <1>1, <1>w, <2>12 DEF ReconcileFails
  <2>13. CASE ResumeLoop
    <3>1. CASE PendingToolCalls(rows) = <<>>
      BY <1>w, <2>13, <3>1 DEF ResumeLoop, CoverInv, VoteInv
    <3>2. CASE PendingToolCalls(rows) # <<>>
      <4>1. {c \in Calls : Pending(c, rows)} \in SUBSET Calls OBVIOUS
      <4>2. /\ PendingToolCalls(rows) \in Seq(Calls) /\ Injective(PendingToolCalls(rows))
            /\ Members(PendingToolCalls(rows)) \subseteq Calls
        BY <4>1, InOrderIs DEF PendingToolCalls
      <4>3. \A c \in Calls : st[c] = "todo" BY <2>13 DEF ResumeLoop, TodoInv
      <4>4. QED BY <2>13, <3>2, <4>2, <4>3, ApplyLeft DEF ResumeLoop
    <3>3. QED BY <3>1, <3>2
  <2>14. CASE ReenterLoop BY <1>1, <1>w, <2>14 DEF ReenterLoop
  <2>15. QED
    BY <1>5, <2>1, <2>2, <2>3, <2>4, <2>5, <2>6, <2>7, <2>8, <2>9, <2>10, <2>11, <2>12, <2>13,
       <2>14
    DEF BatchStep
<1>6. CASE Crash BY <1>6, <1>w DEF Crash, CoverInv, VoteInv
<1>7. CASE ResumeDeferred BY <1>7, <1>w DEF ResumeDeferred, StartReconcile, CoverInv, VoteInv
<1>8. CASE Reenter BY <1>8, <1>w DEF Reenter, StartReconcile, CoverInv, VoteInv
<1>9. CASE UNCHANGED vars BY <1>1, <1>9 DEF vars
<1>10. QED
  BY <1>3, <1>4, <1>5, <1>6, <1>7, <1>8, <1>9 DEF Next, Drive, Quiescent

\* The steps that leave a batch, end a process or start a new one.
LEMMA Departures ==
    ASSUME [Next]_vars, pc' \in {"next", "ended", "down", "reconcile"}
    PROVE  \/ Crash \/ ResumeDeferred \/ Reenter \/ ReconcileCall \/ Continue \/ ReenterLoop
           \/ EndBatch \/ UNCHANGED vars
<1> USE DEF given, host, ghosts, bounds
<1>1. CASE Admit
  BY <1>1 DEF Admit, AdmitTool, AdmitCorrection, AdmitRefusal, AdmitTruncated, AdmitDeferral,
              AdmitFails, Admitted
<1>2. ASSUME NEW c \in Calls, CallStep(c) PROVE FALSE
  <2>1. CASE Fold(c)
    <3>1. CASE FoldAnswer(c) BY <3>1 DEF FoldAnswer, Recover
    <3>2. CASE ~FoldAnswer(c)
      BY <2>1, <3>2 DEF Fold, FoldDeferral, FoldPaused, FoldOk, FoldOkFails, FoldFatal
    <3>3. QED BY <3>1, <3>2
  <2>2. QED BY <1>2, <2>1 DEF CallStep, Announce, AnnounceFails, Poll, Return
<1>3. CASE BatchStep
  <2>1. CASE Announced \/ Executed \/ FoldNext \/ ExitDeferred \/ ResolveApprove \/ ResolvePanics
             \/ ReconcileFails
    BY <2>1 DEF Announced, Executed, FoldNext, ExitDeferred, ResolveApprove, ResolvePanics,
                ReconcileFails
  <2>2. CASE HandleDeferred BY <2>2 DEF HandleDeferred, ApplyDeferredResults
  <2>3. CASE ResumeLoop BY <2>3 DEF ResumeLoop, ApplyDeferredResults
  <2>4. CASE ResolveAnswer BY <2>4 DEF ResolveAnswer, Recover
  <2>5. QED BY <1>3, <2>1, <2>2, <2>3, <2>4 DEF BatchStep
<1>4. QED BY <1>1, <1>2, <1>3 DEF Next, Drive, Quiescent

LEMMA ReconcileStep ==
    ASSUME ShapeOK, TodoInv, ReconcileInv, [Next]_vars
    PROVE  ReconcileInv'
<1> USE DEF given, host, ghosts, bounds
<1>b. crashes \in Nat /\ resumes \in Nat BY BoundsAssumption DEF ShapeOK
<1>1. CASE pc' \notin {"down", "reconcile"} BY <1>1 DEF ReconcileInv
<1>2. CASE Crash
  <2>1. pc' = "down" /\ crashes' > 0 BY <1>2, <1>b DEF Crash
  <2>2. QED BY <2>1 DEF ReconcileInv
<1>3. ASSUME NEW R, StartReconcile(R), id' = id, ledger' = ledger, rows' = rows,
             crashes' > 0 \/ (resumes' > 0 /\ R # {})
      PROVE  ReconcileInv'
  <2> DEFINE S == {c \in Calls : RowsOf(id[c], rows) = 0 /\ id[c] \notin Earlier /\ id[c] \notin R}
  <2>1. S \in SUBSET Calls OBVIOUS
  <2>2. Members(todo') = S BY <1>3, <2>1, InOrderIs DEF StartReconcile, Unanswered
  <2>3. pc' = "reconcile" /\ named' = R /\ unresolved' = {i \in Ids : ledger[i] = "Started"}
    BY <1>3 DEF StartReconcile
  <2>4. \A c \in Calls : RowsOf(id[c], rows) \in Nat BY RowsOfType DEF ShapeOK
  <2>5. \A c \in Calls : c \in Members(todo') \/ id[c] \in R \cup Earlier \/ RowsOf(id[c], rows) > 0
    BY <2>2, <2>4
  <2>6. QED BY <1>3, <2>3, <2>5 DEF ReconcileInv
<1>4. CASE ResumeDeferred
  <2>1. PICK R \in (SUBSET requests) \ {{}} : StartReconcile(R) BY <1>4 DEF ResumeDeferred
  <2>2. /\ resumes' > 0 /\ id' = id /\ ledger' = ledger /\ rows' = rows BY <1>4, <1>b DEF ResumeDeferred
  <2>3. R # {} OBVIOUS
  <2>4. QED BY <1>3, <2>1, <2>2, <2>3
<1>5. CASE Reenter
  <2>1. crashes' > 0 BY <1>5 DEF Reenter, ReconcileInv
  <2>2. QED BY <1>3, <1>5, <2>1 DEF Reenter
<1>6. CASE ReconcileCall
  <2> DEFINE c == Head(todo)
  <2>1. /\ todo # <<>> /\ todo' = Tail(todo) /\ pc = "reconcile" /\ pc' = pc
        /\ UNCHANGED <<id, unresolved, named, crashes, resumes>>
    BY <1>6 DEF ReconcileCall
  <2>2. c \in Calls /\ Members(todo) = {c} \cup Members(todo') BY <2>1, HeadOfTodo
  <2>3. id \in [Calls -> Ids] /\ rows \in Seq(Row) /\ id[c] \in Row BY <2>2 DEF ShapeOK, Row
  <2>4. CASE id[c] \in unresolved /\ c \notin Safe
    <3>1. rows' = Append(rows, id[c]) /\ Settled({c}, "Interrupted") BY <1>6, <2>4 DEF ReconcileCall
    <3>2. \A i \in Ids : ledger'[i] = ledger[i] \/ ledger'[i] = "Interrupted" BY <3>1 DEF Settled
    <3>3. \A d \in Calls : RowsOf(id[d], rows') = RowsOf(id[d], rows) + (IF id[c] = id[d] THEN 1 ELSE 0)
      BY <2>3, <3>1, RowsOfAppend
    <3>4. \A d \in Calls : RowsOf(id[d], rows) \in Nat BY <2>3, RowsOfType
    <3>5. \A d \in Calls : (d = c \/ RowsOf(id[d], rows) > 0) => RowsOf(id[d], rows') > 0
      BY <3>3, <3>4
    <3>6. \A i \in Ids : ledger'[i] = "Started" => ledger[i] = "Started" BY <3>2
    <3>7. \A d \in Calls \ Safe :
             \/ d \in Members(todo') \/ id[d] \in named \cup Earlier
             \/ RowsOf(id[d], rows') > 0 \/ ledger'[id[d]] # "Started"
      BY <2>1, <2>2, <2>3, <3>5, <3>6 DEF ReconcileInv
    <3>8. QED BY <2>1, <3>6, <3>7 DEF ReconcileInv
  <2>5. CASE ~(id[c] \in unresolved /\ c \notin Safe)
    <3>1. rows' = rows /\ ledger' = ledger BY <1>6, <2>5 DEF ReconcileCall
    <3>2. c \notin Safe => ledger[id[c]] # "Started" BY <2>1, <2>2, <2>3, <2>5 DEF ReconcileInv
    <3>3. QED BY <2>1, <2>2, <3>1, <3>2 DEF ReconcileInv
  <2>6. QED BY <2>4, <2>5
<1>7. CASE UNCHANGED vars BY <1>7 DEF vars, ReconcileInv
<1>8. CASE Continue \/ ReenterLoop \/ EndBatch BY <1>1, <1>8 DEF Continue, ReenterLoop, EndBatch
<1>9. QED BY <1>1, <1>2, <1>4, <1>5, <1>6, <1>7, <1>8, Departures

\* Nothing in hand, queued or filed: every call has its row.
LEMMA NothingDue ==
    ASSUME ShapeOK, OwedInv, DeferInv, pc \in Working, Group = {}, todo = <<>>,
           deferred = NoDeferred, NEW c \in Calls
    PROVE  /\ RowsOf(id[c], rows) = Cardinality(OfId(Calls, id[c]))
           /\ ~Pending(c, rows) /\ st[c] # "Filed"
<1>1. deferred.approvals = <<>> /\ deferred.calls = <<>> BY DEF NoDeferred
<1>2. \A d \in Calls : st[d] # "Filed" BY <1>1, NoMembers DEF DeferInv
<1>3. Due = {} BY <1>2, NoMembers DEF Due, Group
<1>4. OfId(Due, id[c]) = {} /\ id[c] \in Ids BY <1>3 DEF OfId, ShapeOK
<1>5. Cardinality(OfId(Due, id[c])) = 0 BY <1>4, FS_EmptySet
<1>6. RowsOf(id[c], rows) + Cardinality(OfId(Due, id[c])) = Cardinality(OfId(Calls, id[c]))
  BY <1>4 DEF OwedInv
<1>7. RowsOf(id[c], rows) = Cardinality(OfId(Calls, id[c])) BY <1>4, <1>5, <1>6, OwedTypes
<1>8. QED BY <1>2, <1>7, NotPending

LEMMA LeftStep ==
    ASSUME ShapeOK, PhaseInv, TodoInv, DeferInv, OwedInv, CoverInv, VoteInv, ReconcileInv,
           LeftAnswered, [Next]_vars
    PROVE  LeftAnswered'
<1> USE DEF given, host, ghosts, bounds
<1>w. /\ Working = {"admit", "announce", "execute", "fold", "resolve", "settle"}
      /\ Taking = {"admit", "announce", "execute", "fold", "resolve"}
  BY DEF Working, Taking
<1>q. ASSUME id' = id, NEW c \in Calls PROVE Pending(c, rows)' <=> Pending(c, rows')
  BY <1>q DEF Pending, Rank, RowsOf
<1>1. CASE pc' \notin {"next", "ended"}
  BY <1>1 DEF LeftAnswered, NextIsAnswered, TerminationIsUnanimous
<1>2. CASE Continue
  <2>1. /\ pc = "settle" /\ deferred = NoDeferred /\ rows' = rows /\ id' = id /\ pc' = "next"
        /\ todo = <<>> /\ Group = {}
    BY <1>2 DEF Continue, PhaseInv, TodoInv
  <2>2. \A c \in Calls : ~Pending(c, rows) BY <1>w, <2>1, NothingDue
  <2>3. \A c \in Calls : ~Pending(c, rows)' BY <1>q, <2>1, <2>2
  <2>4. QED BY <2>1, <2>3 DEF LeftAnswered, NextIsAnswered, TerminationIsUnanimous
<1>3. CASE ReenterLoop
  <2>1. /\ pc = "reconcile" /\ todo = <<>> /\ named = {} /\ pc' = "next"
        /\ UNCHANGED <<rows, id, ledger, crashes>>
    BY <1>3 DEF ReenterLoop
  <2>2. crashes > 0 BY <2>1 DEF ReconcileInv
  <2>3. \A c \in Calls \ Safe :
          RowsOf(id[c], rows) > 0 \/ ledger[id[c]] # "Started" \/ id[c] \in Earlier
    BY <2>1, NoMembers DEF ReconcileInv
  <2>4. \A c \in Calls : RowsOf(id[c], rows)' = RowsOf(id[c], rows) BY <2>1 DEF RowsOf
  <2>5. QED
    BY <2>1, <2>2, <2>3, <2>4 DEF LeftAnswered, NextIsAnswered, TerminationIsUnanimous
<1>4. CASE EndBatch
  <2>1. /\ pc \in {"fold", "resolve"} /\ todo = <<>> /\ rows' = rows \o follow /\ id' = id
        /\ pc' = IF Unanimous THEN "ended" ELSE "settle"
        /\ voted' = voted
    BY <1>4 DEF EndBatch
  <2>2. CASE ~Unanimous BY <1>1, <2>1, <2>2
  <2>3. CASE Unanimous
    <3>1. deferred = NoDeferred /\ (stage # "batch" => whole) /\ \A k \in DOMAIN votes : votes[k]
      BY <2>3 DEF Unanimous
    <3>2. stage = "batch" \/ whole BY <3>1 DEF ShapeOK
    <3>3. Group = {} BY <1>4 DEF EndBatch, PhaseInv
    <3>4. pc \in Working /\ pc \in Taking /\ pc # "failed" BY <1>w, <2>1
    <3>5. ASSUME NEW c \in Calls PROVE ~Pending(c, rows)' /\ c \in voted
      <4>1. RowsOf(id[c], rows) = Cardinality(OfId(Calls, id[c])) /\ st[c] # "Filed"
        BY <2>1, <3>1, <3>3, <3>4, NothingDue
      <4>2. id[c] \in Ids /\ rows \in Seq(Row) /\ follow \in Seq({FollowUp}) BY DEF ShapeOK
      <4>3. RowsOf(id[c], rows') = Cardinality(OfId(Calls, id[c])) BY <2>1, <4>1, <4>2, RowsOfFollow
      <4>4. ~Pending(c, rows)' BY <1>q, <2>1, <4>3, NotPending
      <4>5. st[c] # "todo" BY <2>1, <3>2, <3>4, NoMembers DEF CoverInv
      <4>6. st[c] # "Failed" /\ st[c] \notin InGroup BY <3>3, <3>4 DEF PhaseInv, Group
      <4>7. st[c] \in StateOf BY DEF ShapeOK
      <4>8. st[c] = "Answered" BY <4>1, <4>5, <4>6, <4>7 DEF StateOf
      <4>9. QED BY <3>1, <3>2, <3>4, <4>4, <4>8 DEF VoteInv
    <3>6. QED BY <2>1, <2>3, <3>5 DEF LeftAnswered, NextIsAnswered, TerminationIsUnanimous
  <2>4. QED BY <2>2, <2>3
<1>5. CASE Crash \/ ResumeDeferred \/ Reenter \/ ReconcileCall
  BY <1>1, <1>5 DEF Crash, ResumeDeferred, Reenter, StartReconcile, ReconcileCall
<1>6. CASE UNCHANGED vars
  <2>1. \A c \in Calls : (Pending(c, rows)' <=> Pending(c, rows))
                         /\ RowsOf(id[c], rows)' = RowsOf(id[c], rows)
    BY <1>6 DEF vars, Pending, Rank, RowsOf
  <2>2. UNCHANGED <<pc, crashes, ledger, id, voted>> BY <1>6 DEF vars
  <2>3. QED BY <2>1, <2>2 DEF LeftAnswered, NextIsAnswered, TerminationIsUnanimous
<1>7. QED BY <1>1, <1>2, <1>3, <1>4, <1>5, <1>6, Departures

LEMMA LeftHolds == Spec => [](CoverInv /\ VoteInv /\ ReconcileInv /\ LeftAnswered)
<1>1. Init => CoverInv /\ VoteInv /\ ReconcileInv /\ LeftAnswered BY LeftInit
<1>2. /\ CallInv /\ OwedInv /\ CoverInv /\ VoteInv /\ ReconcileInv /\ LeftAnswered /\ [Next]_vars
      => (CoverInv /\ VoteInv /\ ReconcileInv /\ LeftAnswered)'
  <2> SUFFICES ASSUME CallInv, OwedInv, CoverInv, VoteInv, ReconcileInv, LeftAnswered, [Next]_vars
               PROVE  CoverInv' /\ VoteInv' /\ ReconcileInv' /\ LeftAnswered'
    OBVIOUS
  <2>1. CoverInv' /\ VoteInv' BY VoteStep DEF CallInv
  <2>2. ReconcileInv' BY ReconcileStep DEF CallInv
  <2>3. LeftAnswered' BY LeftStep DEF CallInv
  <2>4. QED BY <2>1, <2>2, <2>3
<1>3. QED BY <1>1, <1>2, OwedHolds, PTL DEF Spec

\* However a batch is left, its calls are answered: the model is called again with a row
\* for every call, but for calls a crash left unanswered that are replayable, not recorded
\* as started, or share their id with an answered call of this or of an earlier turn; and a
\* batch ends the run only when every call has its row and
\* asked to terminate, also after a pause and a resume of the whole of it
\* (settle_batch_termination, pending_tool_calls, reconcile_tool_effects).
THEOREM LeftAnsweredHolds == Spec => []LeftAnswered
  BY LeftHolds, PTL

-----------------------------------------------------------------------------
(* The order of the transcript.                                            *)

\* Nothing was deferred or lost yet.
FirstRun == stage = "batch" /\ crashes = 0 /\ resumes = 0

Done == {c \in Calls : st[c] = "Answered"}

\* r holds the rows of the calls of S in their order, and follow-ups behind them.
Folded(r, S) ==
    /\ Len(r) >= Len(InOrder(S))
    /\ \A k \in DOMAIN r :
          r[k] = IF k <= Len(InOrder(S)) THEN id[InOrder(S)[k]] ELSE FollowUp

\* The calls answered come before those in hand, and these before the queue, which is
\* in order; no follow-up is in the transcript before the batch ends.
OrderInv ==
    FirstRun =>
        /\ Increasing(todo)
        /\ \A c \in Done, d \in Group \cup Members(todo) : c < d
        /\ \A c \in Group, d \in Members(todo) : c < d
        /\ pc \in Taking => Len(rows) = Cardinality(Done)
        /\ Folded(rows, Done)

LEMMA OrderInit == Init => OrderInv
<1> SUFFICES ASSUME Init PROVE OrderInv OBVIOUS
<1>1. Calls \in SUBSET Calls OBVIOUS
<1>2. Increasing(todo) BY <1>1, InOrderIs DEF Init
<1>3. Done = {} /\ Group = {} /\ rows = <<>> BY Names DEF Init, Done, Group
<1>4. Cardinality(Done) = 0 /\ Len(rows) = 0 BY <1>3, FS_EmptySet
<1>5. {} \in SUBSET Calls OBVIOUS
<1>6. Len(InOrder({})) = 0 BY <1>5, InOrderIs, FS_EmptySet
<1>7. Folded(rows, Done) BY <1>3, <1>6 DEF Folded
<1>8. QED BY <1>2, <1>3, <1>4, <1>7 DEF OrderInv

\* Nothing is answered, no call newly in hand.
LEMMA OrderSame ==
    ASSUME OrderInv, UNCHANGED <<stage, crashes, resumes, id, todo, rows>>, Done' = Done,
           Group' \subseteq Group, pc' \in Taking => pc \in Taking
    PROVE  OrderInv'
<1>1. Folded(rows, Done)' <=> Folded(rows, Done)
  <2>1. Folded(rows, Done)' <=> Folded(rows', Done')
    BY DEF Folded, InOrder, Place
  <2>2. QED BY <2>1
<1>2. QED BY <1>1 DEF OrderInv, FirstRun

LEMMA NotFirst ==
    ASSUME ~FirstRun'
    PROVE  OrderInv'
  BY DEF OrderInv

\* A call of the group is answered in the fold.
LEMMA OrderAnswers ==
    ASSUME ShapeOK, OrderInv, UNCHANGED <<stage, crashes, resumes, id, todo>>,
           NEW c \in Calls, Leads(c, Group), pc = "fold", pc' = pc, Answer(c)
    PROVE  OrderInv'
<1> SUFFICES ASSUME FirstRun PROVE OrderInv' BY DEF OrderInv, FirstRun
<1>1. st' = [st EXCEPT ![c] = "Answered"] /\ rows' = Append(rows, id[c]) BY DEF Answer
<1>2. \A d \in Calls : st'[d] = IF d = c THEN "Answered" ELSE st[d] BY <1>1 DEF ShapeOK
<1>3. c \in Group /\ st[c] # "Answered" /\ pc \in Taking BY Names DEF Leads, Group, Taking
<1>4. Done' = Done \cup {c} /\ c \notin Done /\ Group' = Group \ {c}
  BY <1>2, <1>3, Names DEF Done, Group
<1>5. \A d \in Done : d < c BY <1>3 DEF OrderInv
<1>6. \A d \in Group' \cup Members(todo) : c < d
  <2>1. \A d \in Group' : c < d
    <3> TAKE d \in Group'
    <3>1. d \in Group /\ d # c /\ c <= d BY <1>4 DEF Leads
    <3>2. d \in Int /\ c \in Int BY <3>1, CallsAreInts DEF Group
    <3>3. QED BY <3>1, <3>2
  <2>2. QED BY <1>3, <2>1 DEF OrderInv
<1>7. Done \in SUBSET Calls /\ Cardinality(Done) \in Nat
  <2>1. Done \in SUBSET Calls BY DEF Done
  <2>2. QED BY <2>1, CallsFinite
<1>8. Len(rows) = Cardinality(Done) /\ Folded(rows, Done) BY <1>3 DEF OrderInv
<1>9. /\ Len(InOrder(Done \cup {c})) = Len(InOrder(Done)) + 1
      /\ \A k \in 1..Len(InOrder(Done)) : InOrder(Done \cup {c})[k] = InOrder(Done)[k]
      /\ InOrder(Done \cup {c})[Len(InOrder(Done)) + 1] = c
  BY <1>5, <1>7, InOrderLast
<1>10. Len(InOrder(Done)) = Cardinality(Done) BY <1>7, InOrderIs
<1>11. Cardinality(Done') = Cardinality(Done) + 1 BY <1>4, <1>7, OneMore
<1> DEFINE n == Cardinality(Done)
           s == InOrder(Done)
           t == InOrder(Done \cup {c})
<1>12. rows \in Seq(Row) /\ id[c] \in Row BY DEF ShapeOK, Row
<1>13. /\ DOMAIN rows' = 1..(n + 1) /\ DOMAIN rows = 1..n /\ Len(rows') = n + 1
       /\ \A k \in 1..n : rows'[k] = rows[k]
       /\ rows'[n + 1] = id[c]
  BY <1>1, <1>8, <1>12, AppendProperties
<1>14. \A k \in 1..n : rows[k] = id[s[k]] BY <1>8, <1>10, <1>13 DEF Folded
<1>15. Len(t) = n + 1 /\ (\A k \in 1..n : t[k] = s[k]) /\ t[n + 1] = c BY <1>9, <1>10
<1> HIDE DEF n, s, t
<1>16. n \in Nat BY <1>7 DEF n
<1>17. \A k \in 1..(n + 1) : rows'[k] = id[t[k]]
  <2> TAKE k \in 1..(n + 1)
  <2>1. CASE k \in 1..n BY <1>13, <1>14, <1>15, <2>1
  <2>2. CASE k = n + 1 BY <1>13, <1>15, <2>2
  <2>3. QED BY <1>16, <2>1, <2>2
<1>18. Len(rows') >= Len(t) /\ \A k \in DOMAIN rows' : rows'[k] = IF k <= Len(t) THEN id[t[k]] ELSE FollowUp
  <2>1. \A k \in DOMAIN rows' : k <= Len(t) BY <1>13, <1>15, <1>16
  <2>2. QED BY <1>13, <1>15, <1>16, <1>17, <2>1
<1>19. Folded(rows, Done)' 
  <2>1. InOrder(Done)' = t BY <1>4 DEF t, InOrder, Place
  <2>2. QED BY <1>18, <2>1 DEF Folded
<1>20. \A d \in Done', e \in Group' \cup Members(todo)' : d < e
  <2>1. \A d \in Done, e \in Group \cup Members(todo) : d < e BY DEF OrderInv
  <2>2. Members(todo)' = Members(todo) BY DEF Members
  <2>3. QED BY <1>4, <1>6, <2>1, <2>2
<1>21. \A d \in Group', e \in Members(todo)' : d < e BY <1>4 DEF OrderInv, Members
<1>22. Increasing(todo)' BY DEF OrderInv, Increasing
<1>23. Len(rows') = Cardinality(Done') BY <1>11, <1>13 DEF n
<1>24. QED BY <1>19, <1>20, <1>21, <1>22, <1>23 DEF OrderInv

LEMMA OrderStep ==
    ASSUME ShapeOK, PhaseInv, TodoInv, ReconcileInv, OrderInv, [Next]_vars
    PROVE  OrderInv'
<1> USE DEF given, host, ghosts, bounds
<1>w. Taking = {"admit", "announce", "execute", "fold", "resolve"} BY DEF Taking
<1>n. crashes \in Nat /\ resumes \in Nat BY BoundsAssumption DEF ShapeOK
<1>1. ASSUME UNCHANGED <<stage, crashes, resumes, id, todo, rows, st>>,
             pc' \in Taking => pc \in Taking
      PROVE  OrderInv'
  <2>1. Done' = Done /\ Group' \subseteq Group BY <1>1 DEF Done, Group
  <2>2. QED BY <1>1, <2>1, OrderSame
<1>2. ASSUME NEW s \in Answers \cup {"Deferral", "Tool"}, NEW slots, Admitted(s, slots)
      PROVE  OrderInv'
  <2>1. /\ todo # <<>> /\ todo' = Tail(todo) /\ pc = "admit"
        /\ UNCHANGED <<stage, crashes, resumes, id, rows>>
    BY <1>2 DEF ShapeOK, Admitted
  <2> DEFINE h == Head(todo)
  <2>2. h \in Calls /\ Members(todo) = {h} \cup Members(todo') /\ st[h] = "todo" BY <2>1, HeadOfTodo
  <2>3. \A c \in Calls : st'[c] = IF c = h THEN s ELSE st[c]
    BY <1>2, <2>2 DEF ShapeOK, Admitted
  <2>4. s \in InGroup /\ s # "Answered" BY Names
  <2>5. Done' = Done /\ Group' = Group \cup {h} BY <2>2, <2>3, <2>4 DEF Done, Group
  <2> SUFFICES ASSUME FirstRun PROVE OrderInv' BY <2>1 DEF OrderInv, FirstRun
  <2>6. Increasing(todo') /\ \A d \in Members(todo') : h < d
    <3>1. todo \in Seq(Calls) /\ Calls \in SUBSET Int BY CallsAreInts DEF ShapeOK
    <3>2. Increasing(todo) BY DEF OrderInv
    <3>3. QED BY <2>1, <3>1, <3>2, TailIs
  <2>7. /\ \A c \in Done, d \in Group \cup Members(todo) : c < d
        /\ \A c \in Group, d \in Members(todo) : c < d
        /\ Len(rows) = Cardinality(Done)
        /\ Folded(rows, Done)
    BY <1>w, <2>1 DEF OrderInv
  <2>8. Folded(rows, Done)'
    <3>1. Folded(rows, Done)' <=> Folded(rows', Done') BY <2>1 DEF Folded, InOrder, Place
    <3>2. QED BY <2>1, <2>5, <2>7, <3>1
  <2>9. \A c \in Done', d \in Group' \cup Members(todo') : c < d BY <2>2, <2>5, <2>7
  <2>10. \A c \in Group', d \in Members(todo') : c < d BY <2>2, <2>5, <2>6, <2>7
  <2>11. Increasing(todo)' /\ Members(todo)' = Members(todo') BY <2>6 DEF Increasing, Members
  <2>12. Len(rows') = Cardinality(Done') BY <2>1, <2>5, <2>7
  <2>13. QED BY <2>8, <2>9, <2>10, <2>11, <2>12 DEF OrderInv
<1>3. CASE Admit
  <2>1. CASE AdmitFails BY <1>1, <1>w, <2>1 DEF AdmitFails
  <2>2. CASE AdmitTool BY <1>2, <2>2 DEF AdmitTool
  <2>3. CASE AdmitCorrection BY <1>2, <2>3, Names DEF AdmitCorrection
  <2>4. CASE AdmitRefusal BY <1>2, <2>4, Names DEF AdmitRefusal
  <2>5. CASE AdmitTruncated BY <1>2, <2>5, Names DEF AdmitTruncated
  <2>6. CASE AdmitDeferral BY <1>2, <2>6 DEF AdmitDeferral
  <2>7. QED BY <1>3, <2>1, <2>2, <2>3, <2>4, <2>5, <2>6 DEF Admit
<1>4. ASSUME UNCHANGED <<stage, crashes, resumes, id, todo, rows>>, pc \in Taking,
             \A d \in Calls : \/ st'[d] = st[d]
                              \/ st[d] \in InGroup /\ st'[d] # "Answered"
      PROVE  OrderInv'
  <2>1. Group' \subseteq Group BY <1>4 DEF Group
  <2>2. Done' = Done BY <1>4, Names DEF Done
  <2>3. QED BY <1>4, <2>1, <2>2, OrderSame
<1>5. ASSUME NEW c \in Calls, CallStep(c) PROVE OrderInv'
  <2>1. CASE Announce(c)
    <3>1. st[c] = "Tool" BY <2>1 DEF Announce, Leads
    <3>2. QED BY <1>4, <1>w, <2>1, <3>1, Names DEF Announce, ShapeOK
  <2>2. CASE AnnounceFails(c)
    <3>1. st[c] = "Tool" BY <2>2 DEF AnnounceFails, Leads
    <3>2. QED BY <1>4, <1>w, <2>2, <3>1, Names DEF AnnounceFails, FailAll
  <2>3. CASE Poll(c) BY <1>4, <1>w, <2>3, Names DEF Poll, ShapeOK
  <2>4. ASSUME NEW o \in Outcomes, Return(c, o) PROVE OrderInv'
    <3>1. o # "Answered" BY Names
    <3>2. QED BY <1>4, <1>w, <2>4, <3>1, Names DEF Return, ShapeOK
  <2>5. CASE FoldAnswer(c)
    <3>1. /\ Recover(c) /\ pc = "fold" /\ st[c] \in InGroup /\ Leads(c, Group)
          /\ UNCHANGED <<stage, crashes, resumes, id, todo>>
      BY <2>5, Names DEF FoldAnswer
    <3>2. CASE Answer(c) /\ pc' = pc BY <3>1, <3>2, OrderAnswers
    <3>3. CASE FailAll({c}) /\ rows' = rows BY <1>4, <1>w, <3>1, <3>3 DEF FailAll
    <3>4. QED BY <3>1, <3>2, <3>3 DEF Recover
  <2>6. CASE FoldDeferral(c) BY <1>4, <1>w, <2>6, Names DEF FoldDeferral, File, ShapeOK
  <2>7. CASE FoldPaused(c) BY <1>4, <1>w, <2>7, Names DEF FoldPaused, File, ShapeOK
  <2>8. CASE FoldOk(c)
    <3>1. /\ Answer(c) /\ pc = "fold" /\ pc' = pc /\ Leads(c, Group)
          /\ UNCHANGED <<stage, crashes, resumes, id, todo>>
      BY <2>8 DEF FoldOk
    <3>2. QED BY <3>1, OrderAnswers
  <2>9. CASE FoldOkFails(c) BY <1>4, <1>w, <2>9, Names DEF FoldOkFails, FailAll
  <2>10. CASE FoldFatal(c) BY <1>4, <1>w, <2>10, Names DEF FoldFatal, FailAll
  <2>11. QED
    BY <1>5, <2>1, <2>2, <2>3, <2>4, <2>5, <2>6, <2>7, <2>8, <2>9, <2>10 DEF CallStep, Fold
<1>6. CASE BatchStep
  <2>1. CASE Announced BY <1>1, <1>w, <2>1 DEF Announced
  <2>2. CASE Executed BY <1>1, <1>w, <2>2 DEF Executed
  <2>3. CASE FoldNext BY <1>1, <1>w, <2>3 DEF FoldNext
  <2>4. CASE EndBatch
    <3>1. /\ pc \in Taking /\ pc' \notin Taking /\ rows' = rows \o follow
          /\ UNCHANGED <<stage, crashes, resumes, id, todo, st>>
      BY <1>w, <2>4 DEF EndBatch
    <3>2. Done' = Done /\ Group' = Group BY <3>1 DEF Done, Group
    <3> SUFFICES ASSUME FirstRun PROVE OrderInv' BY <3>1 DEF OrderInv, FirstRun
    <3>3. Len(rows) = Cardinality(Done) /\ Folded(rows, Done) BY <3>1 DEF OrderInv
    <3>4. Len(InOrder(Done)) = Cardinality(Done)
      <4>1. Done \in SUBSET Calls BY DEF Done
      <4>2. QED BY <4>1, InOrderIs
    <3>5. rows \in Seq(Row) /\ follow \in Seq(Row) /\ \A k \in 1..Len(follow) : follow[k] = FollowUp
      <4>1. rows \in Seq(Row) /\ follow \in Seq(Row) BY DEF ShapeOK, Row
      <4>2. follow \in Seq({FollowUp}) BY DEF ShapeOK
      <4>3. \A k \in 1..Len(follow) : follow[k] = FollowUp BY <4>2
      <4>4. QED BY <4>1, <4>3
    <3>6. /\ Len(rows') = Len(rows) + Len(follow) /\ DOMAIN rows' = 1 .. Len(rows) + Len(follow)
          /\ \A k \in 1 .. Len(rows) + Len(follow) :
                rows'[k] = IF k <= Len(rows) THEN rows[k] ELSE follow[k - Len(rows)]
      BY <3>1, <3>5, ConcatProperties
    <3>7. Len(rows) \in Nat /\ Len(follow) \in Nat /\ DOMAIN rows = 1..Len(rows) BY <3>5
    <3>8. ASSUME NEW k \in DOMAIN rows'
          PROVE  rows'[k] = IF k <= Len(InOrder(Done)) THEN id[InOrder(Done)[k]] ELSE FollowUp
      <4>1. CASE k <= Len(rows)
        <5>1. k \in DOMAIN rows /\ rows'[k] = rows[k] BY <3>6, <3>7, <4>1
        <5>2. QED BY <3>3, <3>4, <4>1, <5>1 DEF Folded
      <4>2. CASE ~(k <= Len(rows))
        <5>1. k - Len(rows) \in 1..Len(follow) /\ rows'[k] = follow[k - Len(rows)]
          BY <3>6, <3>7, <4>2
        <5>2. QED BY <3>3, <3>4, <3>5, <4>2, <5>1
      <4>3. QED BY <4>1, <4>2
    <3>9. Len(rows') >= Len(InOrder(Done)) BY <3>3, <3>4, <3>6, <3>7
    <3>10. InOrder(Done)' = InOrder(Done) BY <3>2 DEF InOrder, Place
    <3>11. Folded(rows, Done)' BY <3>1, <3>8, <3>9, <3>10 DEF Folded
    <3>12. QED BY <3>1, <3>2, <3>11 DEF OrderInv, Members, Increasing
  <2>5. CASE Continue BY <1>1, <1>w, <2>5 DEF Continue
  <2>6. CASE ExitDeferred BY <1>1, <1>w, <2>6 DEF ExitDeferred
  <2>7. CASE HandleDeferred BY <2>7, NotFirst DEF HandleDeferred, ApplyDeferredResults, FirstRun
  <2>8. CASE ResolveAnswer BY <2>8, NotFirst DEF ResolveAnswer, TodoInv, FirstRun
  <2>9. CASE ResolveApprove BY <1>1, <1>w, <2>9 DEF ResolveApprove
  <2>10. CASE ResolvePanics BY <1>1, <1>w, <2>10 DEF ResolvePanics
  <2>11. CASE ReconcileCall
    <3>1. crashes' > 0 \/ resumes' > 0 BY <2>11 DEF ReconcileCall, ReconcileInv
    <3>2. QED BY <3>1, NotFirst DEF FirstRun
  <2>12. CASE ReconcileFails BY <1>1, <1>w, <2>12 DEF ReconcileFails
  <2>13. CASE ResumeLoop
    <3>1. crashes' > 0 \/ resumes' > 0 BY <2>13 DEF ResumeLoop, ReconcileInv
    <3>2. QED BY <3>1, NotFirst DEF FirstRun
  <2>14. CASE ReenterLoop BY <1>1, <1>w, <2>14 DEF ReenterLoop
  <2>15. QED
    BY <1>6, <2>1, <2>2, <2>3, <2>4, <2>5, <2>6, <2>7, <2>8, <2>9, <2>10, <2>11, <2>12, <2>13,
       <2>14
    DEF BatchStep
<1>7. CASE Crash
  <2>1. crashes' # 0 BY <1>7, <1>n DEF Crash
  <2>2. QED BY <2>1, NotFirst DEF FirstRun
<1>8. CASE ResumeDeferred
  <2>1. resumes' # 0 BY <1>8, <1>n DEF ResumeDeferred
  <2>2. QED BY <2>1, NotFirst DEF FirstRun
<1>9. CASE Reenter
  <2>1. crashes' # 0 BY <1>9, <1>n DEF Reenter, ReconcileInv
  <2>2. QED BY <2>1, NotFirst DEF FirstRun
<1>10. CASE UNCHANGED vars BY <1>1, <1>10 DEF vars
<1>11. QED
  BY <1>3, <1>5, <1>6, <1>7, <1>8, <1>9, <1>10 DEF Next, Drive, Quiescent

\* The transcript of a batch is its fold: as long as nothing was deferred or lost, the
\* tool rows are those of the answered calls in the order of the assistant row, however
\* their executions overlapped, and every follow-up is behind them
\* (execute_tools_concurrently, append_follow_ups).
THEOREM TranscriptIsFoldHolds == Spec => []TranscriptIsFold
<1>1. Init => OrderInv BY OrderInit
<1>2. CallInv /\ ReconcileInv /\ OrderInv /\ [Next]_vars => OrderInv' BY OrderStep DEF CallInv
<1>3. OrderInv => TranscriptIsFold BY DEF OrderInv, FirstRun, Folded, TranscriptIsFold, Done
<1>4. QED BY <1>1, <1>2, <1>3, CallsHold, LeftHolds, PTL DEF Spec

-----------------------------------------------------------------------------
(* Executions.  As long as the host has not decided twice, an effect that  *)
(* may have landed is behind its call: the call is not queued, about to    *)
(* run or filed, and when the run can be resumed it has a row, which keeps *)
(* pending_tool_calls from returning it.                                   *)

\* An answered call has a row of its id.
RowInv == \A c \in Calls : st[c] = "Answered" => RowsOf(id[c], rows) > 0

\* An earlier call of the row has the same id.
Twin(c) == \E d \in Calls : d < c /\ id[d] = id[c]

\* The host decided at most once, and a decision on the id of c is one on c.
Once(c) == resumes = 0 \/ (resumes = 1 /\ ~Twin(c))

\* The execution of c is still ahead, or was taken back.
Ahead(c) ==
    \/ c \in Members(todo)
    \/ st[c] \in {"Kept", "Free", "Deferral", "Tool", "Started", "Paused", "Filed"}

\* The tool of c was called.
Behind(c) == st[c] \in {"Running", "Ok", "Fatal", "Answered"}

Resumable == (pc = "deferred" /\ resumes = 0) \/ (pc = "reconcile" /\ named # {})

LandInv ==
    /\ resumes = 0 => named = {} /\ (requests = {} \/ pc = "deferred")
    /\ \A c \in Calls : Once(c) =>
          /\ landed[c] <= 1
          /\ pc \in Working /\ Ahead(c) => landed[c] = 0
          /\ pc \in Working /\ resumes = 0 /\ landed[c] > 0 => Behind(c)
          /\ Resumable /\ landed[c] > 0 => RowsOf(id[c], rows) > 0

LEMMA LandInit == Init => RowInv /\ LandInv
<1> SUFFICES ASSUME Init PROVE RowInv /\ LandInv OBVIOUS
<1>1. /\ \A c \in Calls : st[c] = "todo" /\ landed[c] = 0
      /\ pc = "admit" /\ named = {} /\ requests = {} /\ resumes = 0
  BY DEF Init
<1>2. QED BY <1>1 DEF RowInv, LandInv, Resumable

LEMMA RowKeeps ==
    ASSUME RowInv, id' = id, \A c \in Calls : st'[c] = "Answered" => st[c] = "Answered",
           \A c \in Calls : RowsOf(id[c], rows') = RowsOf(id[c], rows)
    PROVE  RowInv'
BY DEF RowInv, RowsOf

LEMMA RowGrows ==
    ASSUME ShapeOK, RowInv, id' = id, NEW c \in Calls, rows' = Append(rows, id[c]),
           \A d \in Calls : st'[d] = "Answered" => d = c \/ st[d] = "Answered"
    PROVE  RowInv'
<1>1. id \in [Calls -> Ids] /\ rows \in Seq(Row) /\ id[c] \in Row BY DEF ShapeOK, Row
<1>2. \A d \in Calls : RowsOf(id[d], rows') = RowsOf(id[d], rows) + (IF id[c] = id[d] THEN 1 ELSE 0)
  BY <1>1, RowsOfAppend
<1>3. \A d \in Calls : RowsOf(id[d], rows) \in Nat BY <1>1, RowsOfType
<1>4. \A d \in Calls : (d = c \/ RowsOf(id[d], rows) > 0) => RowsOf(id[d], rows') > 0
  BY <1>2, <1>3
<1>5. \A d \in Calls : st'[d] = "Answered" => RowsOf(id[d], rows') > 0 BY <1>4 DEF RowInv
<1>6. QED BY <1>5 DEF RowInv, RowsOf

LEMMA RecoverRow ==
    ASSUME ShapeOK, RowInv, id' = id, NEW c \in Calls, Recover(c)
    PROVE  RowInv'
<1>1. CASE Answer(c)
  <2>1. rows' = Append(rows, id[c]) BY <1>1 DEF Answer
  <2>2. \A d \in Calls : st'[d] = "Answered" => d = c \/ st[d] = "Answered"
    BY <1>1 DEF Answer, ShapeOK
  <2>3. QED BY <2>1, <2>2, RowGrows
<1>2. CASE FailAll({c}) /\ rows' = rows BY <1>2, RowKeeps DEF FailAll
<1>3. QED BY <1>1, <1>2 DEF Recover

LEMMA RowStep ==
    ASSUME ShapeOK, TodoInv, RowInv, [Next]_vars
    PROVE  RowInv'
<1> USE DEF given, host, ghosts, bounds
<1>i. id' = id BY Effects
<1>1. ASSUME rows' = rows, \A c \in Calls : st'[c] = "Answered" => st[c] = "Answered"
      PROVE  RowInv'
  BY <1>1, <1>i, RowKeeps
<1>2. ASSUME \A c \in Calls : st'[c] = "todo" PROVE RowInv' BY <1>2 DEF RowInv
<1>3. CASE Admit
  <2>1. CASE AdmitFails BY <1>1, <2>1 DEF AdmitFails
  <2>2. ASSUME NEW s \in {"Tool", "Kept", "Free", "Deferral"}, NEW slots, Admitted(s, slots)
        PROVE  RowInv'
    <3>1. \A c \in Calls : st'[c] = st[c] \/ st'[c] = s BY <2>2 DEF Admitted, ShapeOK
    <3>2. QED BY <1>1, <2>2, <3>1 DEF Admitted
  <2>3. QED
    BY <1>3, <2>1, <2>2 DEF Admit, AdmitTool, AdmitCorrection, AdmitRefusal, AdmitTruncated,
                            AdmitDeferral
<1>4. ASSUME NEW c \in Calls, CallStep(c) PROVE RowInv'
  <2>1. CASE Announce(c) BY <1>1, <2>1 DEF Announce, ShapeOK
  <2>2. CASE AnnounceFails(c) BY <1>1, <2>2 DEF AnnounceFails, FailAll
  <2>3. CASE Poll(c) BY <1>1, <2>3 DEF Poll, ShapeOK
  <2>4. ASSUME NEW o \in Outcomes, Return(c, o) PROVE RowInv'
    <3>1. o # "Answered" BY Names
    <3>2. QED BY <1>1, <2>4, <3>1 DEF Return, ShapeOK
  <2>5. CASE FoldAnswer(c) BY <1>i, <2>5, RecoverRow DEF FoldAnswer
  <2>6. CASE FoldDeferral(c) BY <1>1, <2>6 DEF FoldDeferral, File, ShapeOK
  <2>7. CASE FoldPaused(c) BY <1>1, <2>7 DEF FoldPaused, File, ShapeOK
  <2>8. CASE FoldOk(c)
    <3>1. rows' = Append(rows, id[c]) BY <2>8 DEF FoldOk, Answer
    <3>2. \A d \in Calls : st'[d] = "Answered" => d = c \/ st[d] = "Answered"
      BY <2>8 DEF FoldOk, Answer, ShapeOK
    <3>3. QED BY <1>i, <3>1, <3>2, RowGrows
  <2>9. CASE FoldOkFails(c) BY <1>1, <2>9 DEF FoldOkFails, FailAll
  <2>10. CASE FoldFatal(c) BY <1>1, <2>10 DEF FoldFatal, FailAll
  <2>11. QED
    BY <1>4, <2>1, <2>2, <2>3, <2>4, <2>5, <2>6, <2>7, <2>8, <2>9, <2>10 DEF CallStep, Fold
<1>5. CASE BatchStep
  <2>1. CASE Announced \/ Executed \/ FoldNext \/ Continue \/ ExitDeferred \/ ResolveApprove
             \/ ResolvePanics \/ ReconcileFails \/ ReenterLoop
    BY <1>1, <2>1 DEF Announced, Executed, FoldNext, Continue, ExitDeferred, ResolveApprove,
                      ResolvePanics, ReconcileFails, ReenterLoop
  <2>2. CASE EndBatch
    <3>1. rows' = rows \o follow /\ st' = st BY <2>2 DEF EndBatch
    <3>2. rows \in Seq(Row) /\ follow \in Seq({FollowUp}) /\ id \in [Calls -> Ids]
      BY DEF ShapeOK, Row
    <3>3. \A c \in Calls : RowsOf(id[c], rows') = RowsOf(id[c], rows) BY <3>1, <3>2, RowsOfFollow
    <3>4. QED BY <1>i, <3>1, <3>3, RowKeeps
  <2>3. CASE HandleDeferred
    BY <1>1, <2>3 DEF HandleDeferred, ApplyDeferredResults
  <2>4. CASE ResumeLoop
    BY <1>1, <2>4 DEF ResumeLoop, ApplyDeferredResults
  <2>5. CASE ResolveAnswer
    <3>1. Head(todo) \in Calls /\ Recover(Head(todo)) BY <2>5, HeadOfTodo DEF ResolveAnswer
    <3>2. QED BY <1>i, <3>1, RecoverRow
  <2>6. CASE ReconcileCall
    <3>1. \A c \in Calls : st'[c] = "todo" BY <2>6 DEF ReconcileCall, TodoInv
    <3>2. QED BY <1>2, <3>1
  <2>7. QED BY <1>5, <2>1, <2>2, <2>3, <2>4, <2>5, <2>6 DEF BatchStep
<1>6. CASE Crash BY <1>2, <1>6 DEF Crash, NewProcess
<1>7. CASE ResumeDeferred \/ Reenter
  BY <1>2, <1>7 DEF ResumeDeferred, Reenter, StartReconcile, NewProcess
<1>8. CASE UNCHANGED vars BY <1>1, <1>8 DEF vars
<1>9. QED BY <1>3, <1>4, <1>5, <1>6, <1>7, <1>8 DEF Next, Drive, Quiescent

\* The first call of its id is pending only while the id has no row.
LEMMA PendingFirstCall ==
    ASSUME ShapeOK, NEW c \in Calls, ~Twin(c), Pending(c, rows)
    PROVE  ~(RowsOf(id[c], rows) > 0)
<1>1. c \in Nat /\ c >= 1 /\ \A d \in 1..c : d \in Calls BY NAssumption DEF Calls
<1>2. {d \in 1..c : id[d] = id[c]} = {c}
  <2>1. \A d \in 1..c : id[d] = id[c] => d = c BY <1>1 DEF Twin
  <2>2. c \in 1..c BY <1>1
  <2>3. QED BY <2>1, <2>2
<1>3. Rank(c) = 1 BY <1>2, FS_Singleton DEF Rank
<1>4. RowsOf(id[c], rows) \in Nat BY RowsOfType DEF ShapeOK
<1>5. QED BY <1>3, <1>4 DEF Pending

\* A step inside a process that neither runs a tool nor puts an execution ahead again.
LEMMA LandKeeps ==
    ASSUME LandInv, UNCHANGED <<id, resumes, requests, named, landed>>,
           pc # "deferred", pc' \notin {"deferred", "reconcile"},
           pc' \in Working => /\ pc \in Working
                              /\ \A c \in Calls : Ahead(c)' => Ahead(c)
                              /\ \A c \in Calls : Behind(c) => Behind(c)'
    PROVE  LandInv'
<1>1. \A c \in Calls : Once(c)' <=> Once(c) BY DEF Once, Twin
<1>2. ~Resumable' BY DEF Resumable
<1>3. resumes' = 0 => named' = {} /\ requests' = {} BY DEF LandInv
<1>4. ASSUME NEW c \in Calls, Once(c)'
      PROVE  /\ landed'[c] <= 1
             /\ pc' \in Working /\ Ahead(c)' => landed'[c] = 0
             /\ pc' \in Working /\ resumes' = 0 /\ landed'[c] > 0 => Behind(c)'
  BY <1>1, <1>4 DEF LandInv
<1>5. QED BY <1>2, <1>3, <1>4 DEF LandInv, Working, Taking

LEMMA LandStep ==
    ASSUME ShapeOK, PhaseInv, TodoInv, DeferInv, LandedInv, RowInv, LandInv, [Next]_vars
    PROVE  LandInv'
<1> USE DEF given, host, ghosts, bounds
<1>i. id' = id BY Effects
<1>w. Working = {"admit", "announce", "execute", "fold", "resolve", "settle"} BY DEF Working, Taking
<1>l. landed \in [Calls -> Int] /\ resumes \in Nat BY BoundsAssumption DEF ShapeOK
<1>1. ASSUME UNCHANGED <<resumes, requests, named, landed, st, todo>>,
             pc # "deferred", pc' \notin {"deferred", "reconcile"},
             pc' \in Working => pc \in Working
      PROVE  LandInv'
  <2>1. \A c \in Calls : (Ahead(c)' <=> Ahead(c)) /\ (Behind(c)' <=> Behind(c))
    BY <1>1 DEF Ahead, Behind
  <2>2. QED BY <1>1, <1>i, <2>1, LandKeeps
<1>2. ASSUME NEW c \in Calls, UNCHANGED <<resumes, requests, named, landed>>,
             pc \in Working, pc' \in Working,
             \A d \in Calls : d # c => st'[d] = st[d],
             Members(todo') \subseteq Members(todo),
             Ahead(c)' => Ahead(c), Behind(c) => Behind(c)'
      PROVE  LandInv'
  <2>1. \A d \in Calls : (Ahead(d)' => Ahead(d)) /\ (Behind(d) => Behind(d)')
    BY <1>2 DEF Ahead, Behind
  <2>2. QED BY <1>2, <1>i, <1>w, <2>1, LandKeeps
<1>3. ASSUME UNCHANGED <<resumes, requests, named, landed>>, pc # "deferred", pc' = "failed"
      PROVE  LandInv'
  BY <1>3, <1>i, <1>w, LandKeeps
<1>4. ASSUME NEW c \in Calls, UNCHANGED <<resumes, requests, named, landed>>, Recover(c),
             pc \in Working, Ahead(c), c \notin Members(todo'),
             Members(todo') \subseteq Members(todo)
      PROVE  LandInv'
  <2>1. CASE Answer(c) /\ pc' = pc
    <3>1. \A d \in Calls : st'[d] = IF d = c THEN "Answered" ELSE st[d] BY <2>1 DEF Answer, ShapeOK
    <3>2. Behind(c)' BY <3>1 DEF Behind
    <3>3. QED BY <1>2, <1>4, <2>1, <3>1, <3>2
  <2>2. CASE pc' = "failed" BY <1>3, <1>4, <1>w, <2>2
  <2>3. QED BY <1>4, <2>1, <2>2 DEF Recover
<1>5. CASE Admit
  <2>1. CASE AdmitFails BY <1>3, <2>1 DEF AdmitFails
  <2>2. ASSUME NEW s \in {"Tool", "Kept", "Free", "Deferral"}, NEW slots, Admitted(s, slots)
        PROVE  LandInv'
    <3> DEFINE h == Head(todo)
    <3>1. /\ todo # <<>> /\ todo' = Tail(todo) /\ pc = "admit" /\ pc' \in {"admit", "announce"}
          /\ UNCHANGED <<resumes, requests, named, landed>>
      BY <2>2 DEF ShapeOK, Admitted
    <3>2. h \in Calls /\ Members(todo) = {h} \cup Members(todo') /\ st[h] = "todo"
      BY <3>1, HeadOfTodo
    <3>3. \A c \in Calls : st'[c] = IF c = h THEN s ELSE st[c] BY <2>2, <3>2 DEF ShapeOK, Admitted
    <3>4. Ahead(h) /\ ~Behind(h) BY <3>2 DEF Ahead, Behind
    <3> HIDE DEF h
    <3>5. QED BY <1>2, <1>w, <3>1, <3>2, <3>3, <3>4
  <2>3. QED
    BY <1>5, <2>1, <2>2 DEF Admit, AdmitTool, AdmitCorrection, AdmitRefusal, AdmitTruncated,
                            AdmitDeferral
<1>6. ASSUME NEW c \in Calls, CallStep(c) PROVE LandInv'
  <2>q. st[c] # "todo" => c \notin Members(todo) BY DEF TodoInv
  <2>1. CASE Announce(c)
    <3>1. st[c] = "Tool" BY <2>1 DEF Announce, Leads
    <3>2. /\ \A d \in Calls : d # c => st'[d] = st[d]
          /\ pc = "announce" /\ pc' = pc /\ todo' = todo
          /\ UNCHANGED <<resumes, requests, named, landed>>
      BY <2>1 DEF Announce, ShapeOK
    <3>3. Ahead(c) /\ ~Behind(c) BY <3>1 DEF Ahead, Behind
    <3>4. QED BY <1>2, <1>w, <3>2, <3>3
  <2>2. CASE AnnounceFails(c) BY <1>3, <2>2 DEF AnnounceFails
  <2>3. CASE Poll(c)
    <3>1. /\ \A d \in Calls : st'[d] = IF d = c THEN "Running" ELSE st[d]
          /\ \A d \in Calls : landed'[d] = IF d = c THEN landed[d] + 1 ELSE landed[d]
          /\ st[c] = "Started" /\ pc = "execute" /\ pc' = pc /\ todo' = todo
          /\ UNCHANGED <<resumes, requests, named>>
      BY <2>3, <1>l DEF Poll, ShapeOK
    <3>2. \A d \in Calls : Once(d)' <=> Once(d) BY <1>i, <3>1 DEF Once, Twin
    <3>3. ~Resumable' /\ pc \in Working BY <1>w, <3>1 DEF Resumable
    <3>4. Ahead(c) /\ Behind(c)' /\ ~Ahead(c)'
      BY <2>q, <3>1 DEF Ahead, Behind
    <3>5. \A d \in Calls : d # c => (Ahead(d)' <=> Ahead(d)) /\ (Behind(d)' <=> Behind(d))
      BY <3>1 DEF Ahead, Behind
    <3>6. ASSUME NEW d \in Calls, Once(d)'
          PROVE  /\ landed'[d] <= 1
                 /\ Ahead(d)' => landed'[d] = 0
                 /\ resumes' = 0 /\ landed'[d] > 0 => Behind(d)'
      <4>1. CASE d = c
        <5>1. landed[c] = 0 BY <3>2, <3>3, <3>4, <3>6, <4>1 DEF LandInv
        <5>2. QED BY <3>1, <3>4, <4>1, <5>1
      <4>2. CASE d # c BY <3>1, <3>2, <3>3, <3>5, <3>6, <4>2 DEF LandInv
      <4>3. QED BY <4>1, <4>2
    <3>7. resumes' = 0 => named' = {} /\ requests' = {} BY <3>1 DEF LandInv
    <3>8. QED BY <3>3, <3>6, <3>7 DEF LandInv
  <2>4. ASSUME NEW o \in Outcomes, Return(c, o) PROVE LandInv'
    <3>1. /\ \A d \in Calls : st'[d] = IF d = c THEN o ELSE st[d]
          /\ st[c] = "Running" /\ pc = "execute" /\ pc' = pc /\ todo' = todo
          /\ UNCHANGED <<resumes, requests, named>>
      BY <2>4 DEF Return, ShapeOK
    <3>a. \A d \in Calls : landed'[d] = IF d = c /\ o = "Paused" THEN landed[d] - 1 ELSE landed[d]
      BY <2>4, <1>l DEF Return
    <3>2. \A d \in Calls : Once(d)' <=> Once(d) BY <1>i, <3>1 DEF Once, Twin
    <3>3. ~Resumable' /\ pc \in Working BY <1>w, <3>1 DEF Resumable
    <3>4. (o = "Paused" \/ Behind(c)') /\ (Ahead(c)' => o = "Paused")
      BY <2>q, <3>1, Names DEF Ahead, Behind
    <3>5. \A d \in Calls : d # c => (Ahead(d)' <=> Ahead(d)) /\ (Behind(d)' <=> Behind(d))
      BY <3>1 DEF Ahead, Behind
    <3>6. ASSUME NEW d \in Calls, Once(d)'
          PROVE  /\ landed'[d] <= 1
                 /\ Ahead(d)' => landed'[d] = 0
                 /\ resumes' = 0 /\ landed'[d] > 0 => Behind(d)'
      <4>1. CASE d = c
        <5>1. landed[c] <= 1 /\ landed[c] >= 1 /\ landed[c] \in Int
          BY <1>l, <3>1, <3>2, <3>6, <4>1 DEF LandInv, LandedInv
        <5>2. landed'[c] = IF o = "Paused" THEN 0 ELSE 1 BY <3>a, <5>1
        <5>3. QED BY <3>4, <4>1, <5>2
      <4>2. CASE d # c BY <3>1, <3>a, <3>2, <3>3, <3>5, <3>6, <4>2 DEF LandInv
      <4>3. QED BY <4>1, <4>2
    <3>7. resumes' = 0 => named' = {} /\ requests' = {} BY <3>1 DEF LandInv
    <3>8. QED BY <3>3, <3>6, <3>7 DEF LandInv
  <2>5. CASE FoldAnswer(c)
    <3>1. /\ Recover(c) /\ pc = "fold" /\ todo' = todo /\ st[c] \in {"Kept", "Free"}
          /\ UNCHANGED <<resumes, requests, named, landed>>
      BY <2>5, Names DEF FoldAnswer
    <3>2. Ahead(c) /\ c \notin Members(todo') BY <2>q, <3>1 DEF Ahead
    <3>3. QED BY <1>4, <1>w, <3>1, <3>2
  <2>6. CASE FoldDeferral(c) \/ FoldPaused(c)
    <3>1. /\ \A d \in Calls : d # c => st'[d] = st[d]
          /\ pc = "fold" /\ pc' = pc /\ todo' = todo /\ st[c] \in {"Deferral", "Paused"}
          /\ UNCHANGED <<resumes, requests, named, landed>>
      BY <2>6 DEF FoldDeferral, FoldPaused, File, ShapeOK
    <3>2. Ahead(c) /\ ~Behind(c) BY <3>1 DEF Ahead, Behind
    <3>3. QED BY <1>2, <1>w, <3>1, <3>2
  <2>7. CASE FoldOk(c)
    <3>1. /\ \A d \in Calls : st'[d] = IF d = c THEN "Answered" ELSE st[d]
          /\ pc = "fold" /\ pc' = pc /\ todo' = todo /\ st[c] = "Ok"
          /\ UNCHANGED <<resumes, requests, named, landed>>
      BY <2>7 DEF FoldOk, Answer, ShapeOK
    <3>2. Behind(c)' /\ ~Ahead(c)' BY <2>q, <3>1 DEF Ahead, Behind
    <3>3. QED BY <1>2, <1>w, <3>1, <3>2
  <2>8. CASE FoldOkFails(c) BY <1>3, <2>8 DEF FoldOkFails
  <2>9. CASE FoldFatal(c) BY <1>3, <2>9 DEF FoldFatal
  <2>10. QED
    BY <1>6, <2>1, <2>2, <2>3, <2>4, <2>5, <2>6, <2>7, <2>8, <2>9 DEF CallStep, Fold
<1>7. CASE BatchStep
  <2>1. CASE Announced \/ Executed \/ FoldNext \/ Continue \/ EndBatch
    BY <1>1, <1>w, <2>1 DEF Announced, Executed, FoldNext, Continue, EndBatch
  <2>2. CASE ResolveApprove \/ ResolvePanics \/ ReconcileFails \/ ReenterLoop
    BY <1>1, <1>w, <2>2 DEF ResolveApprove, ResolvePanics, ReconcileFails, ReenterLoop
  <2>3. CASE ExitDeferred
    <3>1. /\ pc = "settle" /\ pc' = "deferred" /\ rows' = rows /\ Group = {}
          /\ UNCHANGED <<resumes, named, landed, st>>
      BY <2>3 DEF ExitDeferred, PhaseInv
    <3>2. \A c \in Calls : Once(c)' <=> Once(c) BY <1>i, <3>1 DEF Once, Twin
    <3>3. pc \in Working /\ pc' \notin Working BY <1>w, <3>1
    <3>4. ASSUME NEW c \in Calls, Once(c)', Resumable', landed'[c] > 0
          PROVE  RowsOf(id[c], rows) > 0
      <4>1. resumes = 0 BY <3>1, <3>4 DEF Resumable
      <4>2. Behind(c) BY <3>1, <3>2, <3>3, <3>4, <4>1 DEF LandInv
      <4>3. st[c] = "Answered" BY <3>1, <4>2, Names DEF Behind, Group
      <4>4. QED BY <4>3 DEF RowInv
    <3>5. \A c \in Calls : RowsOf(id'[c], rows') = RowsOf(id[c], rows) BY <1>i, <3>1
    <3>6. \A c \in Calls : Once(c)' => landed'[c] <= 1 BY <3>1, <3>2 DEF LandInv
    <3>7. resumes' = 0 => named' = {} BY <3>1 DEF LandInv
    <3>8. \A c \in Calls : (Once(c) /\ Resumable /\ landed[c] > 0)' => (RowsOf(id[c], rows) > 0)'
      BY <1>i, <3>1, <3>4 DEF RowsOf
    <3>9. QED BY <3>1, <3>3, <3>6, <3>7, <3>8 DEF LandInv
  <2>4. CASE HandleDeferred
    <3> DEFINE pending == deferred.approvals \o deferred.calls
               S == {c \in Calls : st[c] = "Filed"}
    <3>1. PICK R \in SUBSET {id[c] : c \in S} : ApplyDeferredResults(pending, R, "handled")
      BY <2>4 DEF HandleDeferred
    <3>2. pc = "settle" /\ Members(pending) = S /\ UNCHANGED <<resumes, requests, named, landed>>
      BY <2>4, FiledCalls DEF HandleDeferred
    <3> HIDE DEF pending
    <3>3. CASE pc' = "failed" BY <1>3, <3>2, <3>3
    <3>4. CASE /\ todo' = pending /\ pc' = "resolve"
               /\ st' = [c \in Calls |-> IF st[c] = "Filed" THEN "todo" ELSE st[c]]
      <4>1. \A c \in Calls : Ahead(c)' => Ahead(c)
        BY <3>2, <3>4 DEF Ahead
      <4>2. \A c \in Calls : Behind(c) => Behind(c)' BY <3>4 DEF Behind
      <4>3. QED BY <1>i, <1>w, <3>2, <3>4, <4>1, <4>2, LandKeeps
    <3>5. QED BY <3>1, <3>3, <3>4 DEF ApplyDeferredResults
  <2>5. CASE ResolveAnswer
    <3>1. /\ todo # <<>> /\ todo' = Tail(todo) /\ pc = "resolve" /\ Recover(Head(todo))
          /\ UNCHANGED <<resumes, requests, named, landed>>
      BY <2>5 DEF ResolveAnswer
    <3>2. /\ Head(todo) \in Calls /\ Members(todo) = {Head(todo)} \cup Members(todo')
          /\ Head(todo) \notin Members(todo')
      BY <3>1, HeadOfTodo
    <3>3. Ahead(Head(todo)) BY <3>2 DEF Ahead
    <3>4. QED BY <1>4, <1>w, <3>1, <3>2, <3>3
  <2>6. CASE ReconcileCall
    <3>1. /\ pc = "reconcile" /\ pc' = pc /\ todo # <<>>
          /\ UNCHANGED <<resumes, requests, named, landed>>
      BY <2>6 DEF ReconcileCall
    <3>2. \A c \in Calls : Once(c)' <=> Once(c) BY <1>i, <3>1 DEF Once, Twin
    <3>3. pc' \notin Working /\ (Resumable' <=> Resumable) BY <1>w, <3>1 DEF Resumable
    <3>4. ASSUME NEW c \in Calls, RowsOf(id[c], rows) > 0 PROVE RowsOf(id[c], rows') > 0
      <4> DEFINE h == Head(todo)
      <4>1. h \in Calls BY <3>1, HeadOfTodo
      <4>2. rows \in Seq(Row) /\ id[h] \in Row BY <4>1 DEF ShapeOK, Row
      <4>3. rows' = rows \/ rows' = Append(rows, id[h]) BY <2>6 DEF ReconcileCall
      <4>4. RowsOf(id[c], rows) \in Nat BY <4>2, RowsOfType
      <4>5. CASE rows' = rows BY <3>4, <4>5
      <4>6. CASE rows' = Append(rows, id[h])
        <5>1. RowsOf(id[c], rows') = RowsOf(id[c], rows) + (IF id[h] = id[c] THEN 1 ELSE 0)
          BY <4>2, <4>6, RowsOfAppend
        <5>2. QED BY <3>4, <4>4, <5>1
      <4>7. QED BY <4>3, <4>5, <4>6
    <3>5. \A c \in Calls : (Once(c) /\ Resumable /\ landed[c] > 0)' => (RowsOf(id[c], rows) > 0)'
      <4>1. \A c \in Calls : (Once(c) /\ Resumable /\ landed[c] > 0)' => RowsOf(id[c], rows') > 0
        BY <3>1, <3>2, <3>3, <3>4 DEF LandInv
      <4>2. QED BY <1>i, <4>1 DEF RowsOf
    <3>6. \A c \in Calls : Once(c)' => landed'[c] <= 1 BY <3>1, <3>2 DEF LandInv
    <3>7. resumes' = 0 => named' = {} /\ requests' = {} BY <3>1 DEF LandInv
    <3>8. QED BY <3>3, <3>5, <3>6, <3>7 DEF LandInv
  <2>7. CASE ResumeLoop
    <3>1. /\ pc = "reconcile" /\ named # {} /\ named' = {}
          /\ UNCHANGED <<resumes, requests, landed>>
      BY <2>7 DEF ResumeLoop
    <3>2. CASE pc' = "failed"
      <4>1. pc' \notin Working /\ ~Resumable' /\ resumes' # 0 BY <1>w, <3>1, <3>2 DEF Resumable, LandInv
      <4>2. \A c \in Calls : Once(c)' => Once(c) BY <1>i, <3>1 DEF Once, Twin
      <4>3. \A c \in Calls : Once(c)' => landed'[c] <= 1 BY <3>1, <4>2 DEF LandInv
      <4>4. QED BY <4>1, <4>3 DEF LandInv
    <3>3. CASE /\ todo' = PendingToolCalls(rows) /\ pc' = "resolve"
               /\ st' = [c \in Calls |-> IF st[c] = "Filed" THEN "todo" ELSE st[c]]
      <4> DEFINE S == {c \in Calls : Pending(c, rows)}
      <4>1. S \in SUBSET Calls OBVIOUS
      <4>2. Members(todo') = S BY <3>3, <4>1, InOrderIs DEF PendingToolCalls
      <4>3. \A c \in Calls : st'[c] = "todo" BY <3>1, <3>3 DEF TodoInv
      <4>4. \A c \in Calls : Ahead(c)' => Pending(c, rows) BY <4>2, <4>3 DEF Ahead
      <4>5. \A c \in Calls : Once(c)' => Once(c) /\ ~Twin(c)
        BY <1>i, <3>1 DEF Once, Twin, LandInv
      <4>6. Resumable /\ ~Resumable' /\ resumes' # 0 BY <3>1, <3>3 DEF Resumable, LandInv
      <4>7. ASSUME NEW c \in Calls, Once(c)'
            PROVE  landed'[c] <= 1 /\ (Ahead(c)' => landed'[c] = 0)
        <5>1. landed[c] <= 1 /\ (landed[c] > 0 => RowsOf(id[c], rows) > 0)
          BY <4>5, <4>6, <4>7 DEF LandInv
        <5>2. Ahead(c)' => ~(RowsOf(id[c], rows) > 0) BY <4>4, <4>5, <4>7, PendingFirstCall
        <5>3. landed[c] \in Int /\ landed[c] >= 0 BY <1>l DEF LandedInv
        <5>4. QED BY <3>1, <5>1, <5>2, <5>3
      <4>8. QED BY <4>6, <4>7 DEF LandInv
    <3>4. QED BY <2>7, <3>2, <3>3 DEF ResumeLoop, ApplyDeferredResults
  <2>8. QED BY <1>7, <2>1, <2>2, <2>3, <2>4, <2>5, <2>6, <2>7 DEF BatchStep
<1>8. CASE Crash
  BY <1>3, <1>8, <1>i, <1>w, LandKeeps DEF Crash, Busy
<1>9. CASE ResumeDeferred
  <2>1. /\ pc \in {"deferred", "down"} /\ requests # {} /\ rows' = rows /\ landed' = landed
        /\ resumes' = resumes + 1 /\ requests' = requests
    BY <1>9 DEF ResumeDeferred
  <2>2. pc' = "reconcile" /\ pc' \notin Working BY <1>9, <1>w DEF ResumeDeferred, StartReconcile
  <2>3. ASSUME NEW c \in Calls, Once(c)'
        PROVE  landed'[c] <= 1 /\ (landed'[c] > 0 => RowsOf(id[c], rows) > 0)
    <3>1. resumes = 0 BY <1>l, <2>1, <2>3 DEF Once
    <3>2. Once(c) /\ Resumable BY <2>1, <3>1 DEF Once, Resumable, LandInv
    <3>3. QED BY <2>1, <3>2 DEF LandInv
  <2>4. \A c \in Calls : (Once(c) /\ landed[c] > 0)' => (RowsOf(id[c], rows) > 0)'
    BY <1>i, <2>1, <2>3 DEF RowsOf
  <2>5. resumes' # 0 BY <1>l, <2>1
  <2>6. QED BY <2>2, <2>3, <2>4, <2>5 DEF LandInv
<1>10. CASE Reenter
  <2>1. /\ requests' = {} /\ named' = {} /\ landed' = landed /\ resumes' = resumes
        /\ pc' = "reconcile" /\ pc' \notin Working
    BY <1>10, <1>w DEF Reenter, StartReconcile
  <2>2. ~Resumable' BY <2>1 DEF Resumable
  <2>3. \A c \in Calls : Once(c)' <=> Once(c) BY <1>i, <2>1 DEF Once, Twin
  <2>4. QED BY <2>1, <2>2, <2>3 DEF LandInv
<1>11. CASE UNCHANGED vars
  BY <1>11 DEF vars, LandInv, Once, Twin, Ahead, Behind, Resumable, Members, RowsOf
<1>12. QED
  BY <1>5, <1>6, <1>7, <1>8, <1>9, <1>10, <1>11 DEF Next, Drive, Quiescent

\* A tool that must not be replayed runs again only on a second decision of the host, or,
\* where an earlier call has its id, on the first: whatever was paused, lost and reconciled,
\* an execution whose effect may have landed is not queued again (reconcile_tool_effects,
\* pending_tool_calls, apply_deferred_results).
THEOREM RerunIsDecidedHolds == Spec => []RerunIsDecided
<1>1. Init => RowInv /\ LandInv BY LandInit
<1>2. CallInv /\ RowInv /\ LandInv /\ [Next]_vars => RowInv' /\ LandInv'
  BY RowStep, LandStep DEF CallInv
<1>3. CallInv /\ LandInv => RerunIsDecided
  <2> SUFFICES ASSUME CallInv, LandInv, NEW c \in Calls, landed[c] > 1
               PROVE  resumes > 1 \/ (resumes = 1 /\ Twin(c))
    BY DEF RerunIsDecided, Twin
  <2>1. landed[c] \in Int /\ resumes \in Nat BY BoundsAssumption DEF CallInv, ShapeOK
  <2>2. ~Once(c) BY <2>1 DEF LandInv
  <2>3. QED BY <2>1, <2>2 DEF Once
<1>4. QED BY <1>1, <1>2, <1>3, CallsHold, PTL DEF Spec
=============================================================================
