-------------------------- MODULE AgentLoopProofs --------------------------
(***************************************************************************)
(* Theorems about AgentLoop, for any cap on the model calls, any recovery  *)
(* budgets and tools, and any number of messages and commands of the host. *)
(***************************************************************************)
EXTENDS AgentLoop, SequenceTheorems, FiniteSetTheorems, WellFoundedInduction, TLAPS

-----------------------------------------------------------------------------
(* Transcripts that grow.                                                  *)

\* r is the transcript with rows of these kinds added at its end.
Added(r, kinds) ==
    /\ r \in Seq(Rows)
    /\ Len(r) >= Len(rows)
    /\ \A i \in 1..Len(rows) : r[i] = rows[i]
    /\ \A i \in (Len(rows) + 1)..Len(r) : r[i] \in kinds

LEMMA AddNothing ==
    ASSUME rows \in Seq(Rows), NEW kinds
    PROVE  Added(rows, kinds)
  BY DEF Added

LEMMA AddOne ==
    ASSUME rows \in Seq(Rows), NEW x \in Rows
    PROVE  Added(Append(rows, x), {x}) /\ Len(Append(rows, x)) = Len(rows) + 1
  BY AppendProperties DEF Added

LEMMA TimesType ==
    ASSUME NEW S, NEW x \in S, NEW n \in Nat
    PROVE  Times(x, n) \in Seq(S) /\ Len(Times(x, n)) = n /\ \A i \in 1..n : Times(x, n)[i] = x
<1>1. Times(x, n) \in [1..n -> S] BY DEF Times
<1>2. Times(x, n) \in Seq(S) BY <1>1, SeqDef
<1>3. QED BY <1>1, <1>2 DEF Times

LEMMA AddSeq ==
    ASSUME rows \in Seq(Rows), NEW s \in Seq(Rows)
    PROVE  /\ Added(rows \o s, {s[i] : i \in 1..Len(s)})
           /\ Len(rows \o s) = Len(rows) + Len(s)
           /\ \A i \in 1..Len(s) : (rows \o s)[Len(rows) + i] = s[i]
<1>1. Len(rows) \in Nat /\ Len(s) \in Nat OBVIOUS
<1>2. /\ rows \o s \in Seq(Rows) /\ Len(rows \o s) = Len(rows) + Len(s)
      /\ \A i \in 1 .. Len(rows) + Len(s) :
            (rows \o s)[i] = IF i <= Len(rows) THEN rows[i] ELSE s[i - Len(rows)]
  BY ConcatProperties
<1>3. \A i \in 1..Len(rows) : (rows \o s)[i] = rows[i] BY <1>1, <1>2
<1>4. ASSUME NEW i \in (Len(rows) + 1)..Len(rows \o s)
      PROVE  (rows \o s)[i] \in {s[j] : j \in 1..Len(s)}
  <2>1. i - Len(rows) \in 1..Len(s) /\ i \in 1 .. Len(rows) + Len(s) /\ ~(i <= Len(rows))
    BY <1>1, <1>2, <1>4
  <2>2. (rows \o s)[i] = s[i - Len(rows)] BY <1>2, <2>1
  <2>3. QED BY <2>1, <2>2
<1>5. ASSUME NEW i \in 1..Len(s) PROVE (rows \o s)[Len(rows) + i] = s[i]
  <2>1. Len(rows) + i \in 1 .. Len(rows) + Len(s) /\ ~(Len(rows) + i <= Len(rows))
        /\ Len(rows) + i - Len(rows) = i
    BY <1>1, <1>5
  <2>2. QED BY <1>2, <2>1
<1>6. QED BY <1>1, <1>2, <1>3, <1>4, <1>5 DEF Added

LEMMA AddTimes ==
    ASSUME rows \in Seq(Rows), NEW x \in Rows, NEW n \in Nat
    PROVE  Added(rows \o Times(x, n), {x}) /\ Len(rows \o Times(x, n)) = Len(rows) + n
<1> DEFINE s == Times(x, n)
<1>1. s \in Seq(Rows) /\ Len(s) = n /\ \A i \in 1..n : s[i] = x BY TimesType
<1> HIDE DEF s
<1>2. Added(rows \o s, {s[i] : i \in 1..Len(s)}) /\ Len(rows \o s) = Len(rows) + Len(s)
  BY <1>1, AddSeq
<1>3. \A y \in {s[i] : i \in 1..Len(s)} : y = x BY <1>1
<1>4. Added(rows \o s, {x}) BY <1>2, <1>3 DEF Added
<1>5. QED BY <1>1, <1>2, <1>4 DEF s

LEMMA AddedMore ==
    ASSUME NEW r, NEW few, NEW many, Added(r, few), few \subseteq many
    PROVE  Added(r, many)
  BY DEF Added

\* Two at a time: ToolsReturn and FinishEarly.
LEMMA AddTwo ==
    ASSUME rows \in Seq(Rows), NEW x \in Rows, NEW y \in Rows
    PROVE  /\ Added(rows \o <<x, y>>, {x, y}) /\ Len(rows \o <<x, y>>) = Len(rows) + 2
           /\ Append(rows, x) \o <<y>> = rows \o <<x, y>>
           /\ Append(rows, x) \o <<>> = Append(rows, x)
<1>1. <<x, y>> \in Seq(Rows) /\ Len(<<x, y>>) = 2 /\ <<x, y>>[1] = x /\ <<x, y>>[2] = y
  OBVIOUS
<1>2. Added(rows \o <<x, y>>, {<<x, y>>[i] : i \in 1..2}) /\ Len(rows \o <<x, y>>) = Len(rows) + 2
  BY <1>1, AddSeq
<1>3. \A z \in {<<x, y>>[i] : i \in 1..2} : z \in {x, y} OBVIOUS
<1>4. Added(rows \o <<x, y>>, {x, y}) BY <1>2, <1>3 DEF Added
<1>5. Append(rows, x) \o <<y>> = rows \o <<x, y>>
  <2>1. Append(rows, x) = rows \o <<x>> BY AppendIsConcat
  <2>2. (rows \o <<x>>) \o <<y>> = rows \o (<<x>> \o <<y>>) BY ConcatAssociative
  <2>3. <<x>> \o <<y>> = <<x, y>>
    <3>1. <<x>> \in Seq(Rows) /\ <<y>> \in Seq(Rows) /\ Len(<<x>>) = 1 /\ Len(<<y>>) = 1
          /\ <<x>>[1] = x /\ <<y>>[1] = y
      OBVIOUS
    <3>2. /\ <<x>> \o <<y>> \in Seq(Rows) /\ Len(<<x>> \o <<y>>) = 2
          /\ (<<x>> \o <<y>>)[1] = x /\ (<<x>> \o <<y>>)[2] = y
      BY <3>1, ConcatProperties
    <3>3. \A i \in 1..2 : (<<x>> \o <<y>>)[i] = <<x, y>>[i] BY <1>1, <3>2
    <3>4. QED BY <1>1, <3>2, <3>3, SeqEqual
  <2>4. QED BY <2>1, <2>2, <2>3
<1>6. Append(rows, x) \o <<>> = Append(rows, x)
  BY AppendProperties, ConcatEmptySeq
<1>7. QED BY <1>2, <1>4, <1>5, <1>6

\* The first n rows of a transcript.
LEMMA Prefix ==
    ASSUME NEW S, NEW s \in Seq(S), NEW n \in 0..Len(s)
    PROVE  /\ SubSeq(s, 1, n) \in Seq(S) /\ Len(SubSeq(s, 1, n)) = n
           /\ \A i \in 1..n : SubSeq(s, 1, n)[i] = s[i]
<1>1. Len(s) \in Nat /\ \A i \in 1..n : s[i] \in S OBVIOUS
<1>2. n \in Int /\ 1 \in Int /\ n - 1 + 1 = n /\ n >= 0 BY <1>1
<1>4. /\ SubSeq(s, 1, n) \in Seq(S)
      /\ Len(SubSeq(s, 1, n)) = IF 1 <= n THEN n - 1 + 1 ELSE 0
      /\ \A i \in 1..(n - 1 + 1) : SubSeq(s, 1, n)[i] = s[1 + i - 1]
  BY <1>1, <1>2, SubSeqProperties
<1>5. Len(SubSeq(s, 1, n)) = n BY <1>2, <1>4
<1>6. \A i \in 1..n : SubSeq(s, 1, n)[i] = s[i]
  <2> TAKE i \in 1..n
  <2>1. i \in 1..(n - 1 + 1) /\ 1 + i - 1 = i BY <1>2
  <2>2. QED BY <1>4, <2>1
<1>7. QED BY <1>4, <1>5, <1>6

LEMMA SamePrefix ==
    ASSUME NEW s \in Seq(Rows), NEW t \in Seq(Rows), NEW n \in Nat, n <= Len(s), n <= Len(t),
           \A i \in 1..n : s[i] = t[i]
    PROVE  SubSeq(s, 1, n) = SubSeq(t, 1, n)
<1>1. n \in 0..Len(s) /\ n \in 0..Len(t) OBVIOUS
<1>2. /\ SubSeq(s, 1, n) \in Seq(Rows) /\ Len(SubSeq(s, 1, n)) = n
      /\ \A i \in 1..n : SubSeq(s, 1, n)[i] = s[i]
  BY <1>1, Prefix
<1>3. /\ SubSeq(t, 1, n) \in Seq(Rows) /\ Len(SubSeq(t, 1, n)) = n
      /\ \A i \in 1..n : SubSeq(t, 1, n)[i] = t[i]
  BY <1>1, Prefix
<1>4. \A i \in 1..n : SubSeq(s, 1, n)[i] = SubSeq(t, 1, n)[i] BY <1>2, <1>3
<1>5. QED BY <1>2, <1>3, <1>4, SeqEqual

\* What is left when the last row is popped.
LEMMA PopType ==
    ASSUME NEW s \in Seq(Rows), Len(s) >= 1
    PROVE  /\ Front(s) \in Seq(Rows) /\ Len(Front(s)) = Len(s) - 1
           /\ \A i \in 1..(Len(s) - 1) : Front(s)[i] = s[i]
<1>1. Len(s) - 1 \in 0..Len(s) OBVIOUS
<1>2. QED BY <1>1, Prefix DEF Front

-----------------------------------------------------------------------------
(* Turns and the observer's transcript, by what a step does to them.       *)

\* The transcript, the marks of TurnTracker on it and the observer's copy.
TurnInv ==
    /\ rows \in Seq(Rows) /\ Len(rows) >= 1
    /\ announced \in 0..Len(rows) /\ open \in 0..Len(rows)
    /\ turn \in Nat /\ completed \in Nat
    /\ MirrorAgrees
    /\ TurnsPaired

\* Rows are added and nothing is announced.
LEMMA Grows ==
    ASSUME TurnInv, Added(rows', Rows), UNCHANGED turnVars, pc' # "done"
    PROVE  TurnInv'
<1>1. rows' \in Seq(Rows) /\ Len(rows') >= Len(rows) /\ Len(rows) \in Nat /\ Len(rows') \in Nat
      /\ \A i \in 1..Len(rows) : rows'[i] = rows[i]
  BY DEF Added, TurnInv
<1>2. announced' = announced /\ announced \in Nat /\ announced <= Len(rows)
  BY <1>1 DEF TurnInv, turnVars
<1>3. SubSeq(rows, 1, announced) = SubSeq(rows', 1, announced)
  <2>1. \A i \in 1..announced : rows[i] = rows'[i] BY <1>1, <1>2
  <2>2. announced <= Len(rows') BY <1>1, <1>2
  <2>3. QED BY <1>1, <1>2, <2>1, <2>2, SamePrefix DEF TurnInv
<1>4. MirrorAgrees' BY <1>2, <1>3 DEF MirrorAgrees, TurnInv, turnVars
<1>5. TurnsPaired' BY DEF TurnsPaired, TurnInv, turnVars
<1>6. QED BY <1>1, <1>2, <1>4, <1>5 DEF TurnInv, turnVars

\* What Flush leaves.
LEMMA FlushAll ==
    ASSUME TurnInv, NEW r, Added(r, Rows), Flush(r)
    PROVE  mirror' = r /\ announced' = Len(r)
<1>1. r \in Seq(Rows) /\ Len(r) >= Len(rows) /\ Len(rows) \in Nat /\ Len(r) \in Nat
      /\ \A i \in 1..Len(rows) : r[i] = rows[i]
  BY DEF Added, TurnInv
<1>2. announced \in Nat /\ announced <= Len(rows) BY <1>1 DEF TurnInv
<1>3. mirror = SubSeq(r, 1, announced)
  <2>1. \A i \in 1..announced : rows[i] = r[i] BY <1>1, <1>2
  <2>2. announced <= Len(r) BY <1>1, <1>2
  <2>3. SubSeq(rows, 1, announced) = SubSeq(r, 1, announced)
    BY <1>1, <1>2, <2>1, <2>2, SamePrefix DEF TurnInv
  <2>4. QED BY <2>3 DEF TurnInv, MirrorAgrees
<1>4. SubSeq(r, 1, announced) \o SubSeq(r, announced + 1, Len(r)) = SubSeq(r, 1, Len(r))
  <2>1. 1 \in 1..(Len(r) + 1) /\ announced \in (1 - 1)..Len(r) /\ Len(r) \in announced..Len(r)
    BY <1>1, <1>2
  <2>2. QED BY <1>1, <2>1, ConcatAdjacentSubSeq
<1>5. SubSeq(r, 1, Len(r)) = r BY <1>1, SubSeqFull
<1>6. QED BY <1>3, <1>4, <1>5 DEF Flush

\* Rows are added and announced.
LEMMA Announces ==
    ASSUME TurnInv, Added(rows', Rows), Flush(rows'), UNCHANGED <<turn, open, completed>>,
           pc' # "done"
    PROVE  TurnInv'
<1>1. mirror' = rows' /\ announced' = Len(rows') BY FlushAll
<1>2. rows' \in Seq(Rows) /\ Len(rows') >= Len(rows) /\ Len(rows) \in Nat /\ Len(rows') \in Nat
  BY DEF Added, TurnInv
<1>3. SubSeq(rows', 1, Len(rows')) = rows' BY <1>2, SubSeqFull
<1>4. MirrorAgrees' BY <1>1, <1>3 DEF MirrorAgrees
<1>5. TurnsPaired' BY DEF TurnsPaired, TurnInv
<1>6. QED BY <1>1, <1>2, <1>4, <1>5 DEF TurnInv

\* The turn is closed.
LEMMA Closes ==
    ASSUME TurnInv, Added(rows', Rows), CloseTurn(rows')
    PROVE  TurnInv'
<1>1. mirror' = rows' /\ announced' = Len(rows') BY FlushAll DEF CloseTurn
<1>2. rows' \in Seq(Rows) /\ Len(rows') >= Len(rows) /\ Len(rows) \in Nat /\ Len(rows') \in Nat
  BY DEF Added, TurnInv
<1>3. SubSeq(rows', 1, Len(rows')) = rows' BY <1>2, SubSeqFull
<1>4. MirrorAgrees' BY <1>1, <1>3 DEF MirrorAgrees
<1>5. /\ turn' = turn /\ open' = Closed
      /\ completed' = IF open = Closed THEN completed ELSE completed + 1
  BY DEF CloseTurn
<1>6. TurnsPaired' BY <1>5 DEF TurnsPaired, TurnInv
<1>7. QED BY <1>1, <1>2, <1>4, <1>5, <1>6 DEF TurnInv, Closed

\* A turn is started.
LEMMA Starts ==
    ASSUME TurnInv, UNCHANGED rows, StartTurn, pc' # "done"
    PROVE  TurnInv'
<1>1. Added(rows, Rows) /\ Len(rows) \in Nat /\ rows \in Seq(Rows) BY AddNothing DEF TurnInv
<1>2. mirror' = rows /\ announced' = Len(rows) BY <1>1, FlushAll DEF StartTurn
<1>3. SubSeq(rows, 1, Len(rows)) = rows BY <1>1, SubSeqFull
<1>4. MirrorAgrees' BY <1>2, <1>3 DEF MirrorAgrees
<1>5. /\ turn' = turn + 1 /\ open' = Len(rows)
      /\ completed' = IF open = Closed THEN completed ELSE completed + 1
  BY DEF StartTurn
<1>6. TurnsPaired' BY <1>1, <1>5 DEF TurnsPaired, TurnInv, Closed
<1>7. QED BY <1>1, <1>2, <1>4, <1>5, <1>6 DEF TurnInv

\* What is pending is announced, and a row is added after it.
LEMMA Declares ==
    ASSUME TurnInv, Flush(rows), rows' = Append(rows, "system"),
           UNCHANGED <<turn, open, completed>>, pc' # "done"
    PROVE  TurnInv'
<1>1. rows \in Seq(Rows) /\ Len(rows) \in Nat /\ "system" \in Rows BY DEF TurnInv, Rows
<1>2. Added(rows', {"system"}) /\ Len(rows') = Len(rows) + 1 BY <1>1, AddOne
<1>3. mirror' = rows /\ announced' = Len(rows) BY <1>1, AddNothing, FlushAll
<1>4. rows' \in Seq(Rows) /\ \A i \in 1..Len(rows) : rows'[i] = rows[i] BY <1>2 DEF Added
<1>5. SubSeq(rows', 1, Len(rows)) = SubSeq(rows, 1, Len(rows))
  <2>1. Len(rows) <= Len(rows') /\ Len(rows) <= Len(rows) BY <1>1, <1>2
  <2>2. QED BY <1>1, <1>4, <2>1, SamePrefix
<1>6. SubSeq(rows, 1, Len(rows)) = rows BY <1>1, SubSeqFull
<1>7. MirrorAgrees' BY <1>3, <1>5, <1>6 DEF MirrorAgrees
<1>8. TurnsPaired' BY DEF TurnsPaired, TurnInv
<1>9. QED BY <1>1, <1>2, <1>3, <1>4, <1>7, <1>8 DEF TurnInv

\* The transcript with a leading row inserted.
LEMMA Prepend ==
    ASSUME NEW s \in Seq(Rows)
    PROVE  /\ <<"system">> \o s \in Seq(Rows) /\ Len(<<"system">> \o s) = Len(s) + 1
           /\ (<<"system">> \o s)[1] = "system"
           /\ \A i \in 1..Len(s) : (<<"system">> \o s)[i + 1] = s[i]
<1>1. <<"system">> \in Seq(Rows) /\ Len(<<"system">>) = 1 /\ <<"system">>[1] = "system"
      /\ Len(s) \in Nat
  BY DEF Rows
<1> DEFINE r == <<"system">> \o s
<1>2. /\ r \in Seq(Rows) /\ Len(r) = 1 + Len(s)
      /\ \A i \in 1 .. 1 + Len(s) : r[i] = IF i <= 1 THEN <<"system">>[i] ELSE s[i - 1]
  BY <1>1, ConcatProperties
<1> HIDE DEF r
<1>3. r[1] = "system" BY <1>1, <1>2
<1>4. \A i \in 1..Len(s) : r[i + 1] = s[i]
  <2> TAKE i \in 1..Len(s)
  <2>1. i + 1 \in 1 .. 1 + Len(s) /\ ~(i + 1 <= 1) /\ (i + 1) - 1 = i BY <1>1
  <2>2. QED BY <1>2, <2>1
<1>5. QED BY <1>1, <1>2, <1>3, <1>4 DEF r

LEMMA Inserts ==
    ASSUME TurnInv, rows' = <<"system">> \o rows, mirror' = rows', announced' = Len(rows'),
           UNCHANGED <<turn, open, completed>>, pc' # "done"
    PROVE  TurnInv'
<1>1. rows \in Seq(Rows) /\ Len(rows) \in Nat BY DEF TurnInv
<1>2. rows' \in Seq(Rows) /\ Len(rows') = Len(rows) + 1 BY <1>1, Prepend
<1>3. SubSeq(rows', 1, Len(rows')) = rows' BY <1>2, SubSeqFull
<1>4. MirrorAgrees' BY <1>3 DEF MirrorAgrees
<1>5. TurnsPaired' BY DEF TurnsPaired, TurnInv
<1>6. QED BY <1>1, <1>2, <1>4, <1>5 DEF TurnInv

\* The rows when the last one is popped and a nudge added.
LEMMA PopRows ==
    ASSUME NEW s \in Seq(Rows), Len(s) >= 1, NEW nudge \in Seq({"user"})
    PROVE  /\ Front(s) \o nudge \in Seq(Rows)
           /\ Len(Front(s) \o nudge) = Len(s) - 1 + Len(nudge) /\ Len(nudge) \in Nat
           /\ \A i \in 1..(Len(s) - 1) : (Front(s) \o nudge)[i] = s[i]
           /\ \A i \in Len(s)..Len(Front(s) \o nudge) : (Front(s) \o nudge)[i] = "user"
<1>1. nudge \in Seq(Rows) /\ Len(nudge) \in Nat /\ \A i \in 1..Len(nudge) : nudge[i] = "user"
  <2>1. {"user"} \subseteq Rows BY DEF Rows
  <2>2. nudge \in Seq(Rows) BY <2>1, SeqMonotonic
  <2>3. \A i \in 1..Len(nudge) : nudge[i] \in {"user"} BY ElementOfSeq
  <2>4. QED BY <2>2, <2>3
<1> DEFINE f == Front(s)
<1>2. f \in Seq(Rows) /\ Len(f) = Len(s) - 1 /\ \A i \in 1..(Len(s) - 1) : f[i] = s[i]
  BY PopType
<1> HIDE DEF f
<1>3. /\ f \o nudge \in Seq(Rows) /\ Len(f \o nudge) = Len(f) + Len(nudge)
      /\ \A i \in 1 .. Len(f) + Len(nudge) :
             (f \o nudge)[i] = IF i <= Len(f) THEN f[i] ELSE nudge[i - Len(f)]
  BY <1>1, <1>2, ConcatProperties
<1>4. \A i \in 1..(Len(s) - 1) : (f \o nudge)[i] = s[i]
  <2> TAKE i \in 1..(Len(s) - 1)
  <2>1. i \in 1 .. Len(f) + Len(nudge) /\ i <= Len(f) BY <1>1, <1>2
  <2>2. QED BY <1>2, <1>3, <2>1
<1>5. \A i \in Len(s)..Len(f \o nudge) : (f \o nudge)[i] = "user"
  <2> TAKE i \in Len(s)..Len(f \o nudge)
  <2>1. i \in 1 .. Len(f) + Len(nudge) /\ ~(i <= Len(f)) /\ i - Len(f) \in 1..Len(nudge)
    BY <1>1, <1>2, <1>3
  <2>2. QED BY <1>1, <1>3, <2>1
<1>6. QED BY <1>1, <1>2, <1>3, <1>4, <1>5 DEF f

\* The nudges of the recoveries.
LEMMA Nudges == <<>> \in Seq({"user"}) /\ <<"user">> \in Seq({"user"})
  OBVIOUS

\* The reply is popped.
LEMMA Pops ==
    ASSUME TurnInv, Len(rows) >= 2, Retract, NEW nudge \in Seq({"user"}),
           rows' = Front(rows) \o nudge, pc' # "done"
    PROVE  TurnInv'
<1> DEFINE n == Len(rows)
<1>1. rows \in Seq(Rows) /\ n \in Nat /\ n >= 2 /\ announced \in 0..n /\ open \in 0..n
      /\ turn \in Nat /\ completed \in Nat
  BY DEF TurnInv
<1>2. /\ rows' \in Seq(Rows) /\ Len(rows') >= n - 1 /\ Len(rows') \in Nat
      /\ \A i \in 1..(n - 1) : rows'[i] = rows[i]
  <2> DEFINE r == Front(rows) \o nudge
  <2>1. r \in Seq(Rows) /\ Len(r) = n - 1 + Len(nudge) /\ Len(nudge) \in Nat
        /\ \A i \in 1..(n - 1) : r[i] = rows[i]
    BY <1>1, PopRows
  <2> HIDE DEF r
  <2>2. rows' = r BY DEF r
  <2>3. QED BY <1>1, <2>1, <2>2
<1>3. mirror = SubSeq(rows, 1, announced) /\ Len(mirror) = announced /\ mirror \in Seq(Rows)
      /\ \A i \in 1..announced : mirror[i] = rows[i]
  BY <1>1, Prefix DEF TurnInv, MirrorAgrees
<1> HIDE DEF n
<1> DEFINE gone == IF announced > n - 1 THEN announced - (n - 1) ELSE 0
<1>4. MaxOf(n - 1, SeedLen) = n - 1 BY <1>1 DEF MaxOf, SeedLen
<1>5. /\ mirror' = SubSeq(mirror, 1, Len(mirror) - gone)
      /\ announced' = MinOf(announced, n - 1) /\ open' = MinOf(open, n - 1)
      /\ turn' = turn /\ completed' = completed
  BY <1>4 DEF Retract, n
<1>6. announced' = announced - gone /\ announced' \in 0..(n - 1) /\ announced' <= announced
      /\ announced' \in Nat
  BY <1>1, <1>5 DEF MinOf
<1>7. open' \in 0..(n - 1) /\ (open' = 0 <=> open = 0) BY <1>1, <1>5 DEF MinOf
<1>8. mirror' = SubSeq(mirror, 1, announced') BY <1>3, <1>5, <1>6
<1>9. SubSeq(mirror, 1, announced') = SubSeq(rows', 1, announced')
  <2>1. announced' <= Len(mirror) /\ announced' <= Len(rows') BY <1>1, <1>2, <1>3, <1>6
  <2>2. ASSUME NEW i \in 1..announced' PROVE mirror[i] = rows'[i]
    <3>1. i \in 1..announced /\ i \in 1..(n - 1) BY <1>1, <1>6
    <3>2. QED BY <1>2, <1>3, <3>1
  <2>3. QED BY <1>2, <1>3, <1>6, <2>1, <2>2, SamePrefix
<1>10. MirrorAgrees' BY <1>8, <1>9 DEF MirrorAgrees
<1>11. TurnsPaired' BY <1>5, <1>7 DEF TurnsPaired, TurnInv, Closed
<1>12. announced' \in 0..Len(rows') /\ open' \in 0..Len(rows') BY <1>1, <1>2, <1>6, <1>7
<1>13. QED BY <1>1, <1>2, <1>5, <1>10, <1>11, <1>12 DEF TurnInv

-----------------------------------------------------------------------------
(* What the steps add to the transcript.                                   *)

\* A set of natural numbers that is not empty has a least element.
LEMMA LeastNatural ==
    ASSUME NEW T \in SUBSET Nat, T # {}
    PROVE  \E x \in T : \A y \in T : x <= y
<1> DEFINE Below == {p \in Nat \X Nat : p[1] < p[2]}
<1>1. IsWellFoundedOn(Below, Nat) BY NatLessThanWellFounded DEF OpToRel
<1>2. \A x, y \in Nat : y < x => <<y, x>> \in Below OBVIOUS
<1> HIDE DEF Below
<1>3. PICK x \in T : \A y \in T : ~ (<<y, x>> \in Below) BY <1>1, WFMin
<1>4. x \in Nat /\ \A y \in T : y \in Nat OBVIOUS
<1>5. \A y \in T : ~ (y < x) BY <1>2, <1>3, <1>4
<1>6. QED BY <1>4, <1>5

LEMMA CountType ==
    ASSUME NEW S, NEW s \in Seq(S), NEW x
    PROVE  IsFiniteSet({k \in DOMAIN s : s[k] = x}) /\ Count(s, x) \in Nat
<1>1. Len(s) \in Nat /\ DOMAIN s = 1..Len(s) OBVIOUS
<1>2. IsFiniteSet(1..Len(s)) BY <1>1, FS_Interval
<1>3. {k \in DOMAIN s : s[k] = x} \in SUBSET (1..Len(s)) BY <1>1
<1>4. IsFiniteSet({k \in DOMAIN s : s[k] = x}) BY <1>2, <1>3, FS_Subset
<1>5. QED BY <1>4, FS_CardinalityType DEF Count

\* A batch without a Cancel is applied whole, any other up to the first one.
LEMMA AppliedType ==
    ASSUME NEW batch \in Seq(Commands)
    PROVE  /\ Applied(batch) \in Seq(Commands)
           /\ ~Cancelled(batch) => Applied(batch) = batch
<1> DEFINE cancels == {k \in DOMAIN batch : batch[k] = "Cancel"}
           first == CHOOSE k \in cancels : \A j \in cancels : k <= j
<1>1. Len(batch) \in Nat /\ DOMAIN batch = 1..Len(batch) OBVIOUS
<1>2. CASE cancels = {}
  <2>1. Applied(batch) = batch BY <1>2 DEF Applied
  <2>2. QED BY <2>1
<1>3. CASE cancels # {}
  <2>1. cancels \in SUBSET Nat BY <1>1
  <2>2. \E k \in cancels : \A j \in cancels : k <= j BY <1>3, <2>1, LeastNatural
  <2>3. first \in cancels BY <2>2
  <2>4. Applied(batch) = SubSeq(batch, 1, first - 1) BY <1>3 DEF Applied
  <2> HIDE DEF first
  <2>5. first \in 1..Len(batch) BY <1>1, <2>3
  <2> HIDE DEF cancels
  <2>6. first - 1 \in 0..Len(batch) /\ first - 1 < Len(batch) BY <1>1, <2>5
  <2>7. Applied(batch) \in Seq(Commands) /\ Len(Applied(batch)) = first - 1
    BY <2>4, <2>6, Prefix
  <2>8. QED BY <2>6, <2>7 DEF Cancelled
<1>4. QED BY <1>2, <1>3

\* The inbox holds commands and the lanes hold messages.
HostType == inbox \in Seq(Commands) /\ lanes \in [Lanes -> Nat]

LEMMA SteeringAdds ==
    ASSUME TurnInv, HostType
    PROVE  Added(rows \o Times("host", Count(Applied(inbox), "Inject")), {"host"})
<1>1. Count(Applied(inbox), "Inject") \in Nat BY AppliedType, CountType DEF HostType
<1>2. "host" \in Rows /\ rows \in Seq(Rows) BY DEF Rows, TurnInv
<1>3. QED BY <1>1, <1>2, AddTimes

LEMMA LaneAdds ==
    ASSUME TurnInv, HostType, NEW l \in Lanes, TakeLane(l)
    PROVE  Added(rows', {"host"}) /\ lanes' \in [Lanes -> Nat]
<1>1. lanes \in [Lanes -> Nat] BY DEF HostType
<1>2. PICK n \in {1, lanes[l]} : /\ lanes[l] > 0
                                 /\ rows' = rows \o Times("host", n)
                                 /\ lanes' = [lanes EXCEPT ![l] = lanes[l] - n]
  BY DEF TakeLane
<1>3. n \in Nat /\ lanes[l] - n \in Nat BY <1>1, <1>2
<1>4. "host" \in Rows /\ rows \in Seq(Rows) BY DEF Rows, TurnInv
<1>5. Added(rows', {"host"}) BY <1>2, <1>3, <1>4, AddTimes
<1>6. QED BY <1>1, <1>2, <1>3, <1>5

LEMMA CloseAdds ==
    ASSUME TurnInv
    PROVE  /\ Added(CloseUnanswered(rows), {"tool"})
           /\ Len(CloseUnanswered(rows)) = Len(rows) + CallsOf(Last(rows))
           /\ CallsOf(Last(rows)) \in Nat
<1>1. CallsOf(Last(rows)) \in Nat BY DEF CallsOf
<1>2. "tool" \in Rows /\ rows \in Seq(Rows) BY DEF Rows, TurnInv
<1>3. QED BY <1>1, <1>2, AddTimes DEF CloseUnanswered

\* The kinds of rows that answer, nudge or come from the host.
Others == {"user", "host", "system", "tool"}

LEMMA CheckpointAdds ==
    ASSUME TurnInv, NEW onward, Checkpoint(onward)
    PROVE  /\ Added(rows', {"tool"})
           /\ pc' \in {onward, "top", "exit"}
           /\ pc' = onward => rows' = rows \/ onward \in {"top", "exit"}
<1>1. rows \in Seq(Rows) BY DEF TurnInv
<1>2. Added(rows, {"tool"}) BY <1>1, AddNothing
<1>3. QED BY <1>2, CloseAdds DEF Checkpoint, StopRun, Leave

\* The answers to a cut schema call, and what after_tool may add behind them.
RefusedAs(r) == r = CloseUnanswered(rows) \/ r = Append(CloseUnanswered(rows), "user")

LEMMA RefusedForm ==
    ASSUME TurnInv, NEW more \in {<<>>, <<"user">>}, NEW r, r = CloseUnanswered(rows) \o more
    PROVE  RefusedAs(r)
<1>1. CloseUnanswered(rows) \in Seq(Rows) BY CloseAdds DEF Added
<1>2. CASE more = <<>> BY <1>1, <1>2, ConcatEmptySeq DEF RefusedAs
<1>3. CASE more = <<"user">>
  <2>1. Append(CloseUnanswered(rows), "user") = CloseUnanswered(rows) \o <<"user">>
    BY <1>1, AppendIsConcat DEF Rows
  <2>2. QED BY <1>3, <2>1 DEF RefusedAs
<1>4. QED BY <1>2, <1>3

LEMMA RefusedAdds ==
    ASSUME TurnInv, NEW r, RefusedAs(r)
    PROVE  /\ Added(r, {"tool", "user"})
           /\ Len(r) >= Len(CloseUnanswered(rows))
           /\ \A i \in 1..Len(CloseUnanswered(rows)) : r[i] = CloseUnanswered(rows)[i]
           /\ \A i \in (Len(CloseUnanswered(rows)) + 1)..Len(r) : r[i] = "user"
<1> DEFINE q == CloseUnanswered(rows)
<1>1. Added(q, {"tool"}) BY CloseAdds
<1>2. rows \in Seq(Rows) /\ "user" \in Rows BY DEF TurnInv, Rows
<1>3. r = q \/ r = Append(q, "user") BY DEF RefusedAs
<1> HIDE DEF q
<1>4. q \in Seq(Rows) /\ Len(q) \in Nat /\ Len(rows) \in Nat BY <1>1, <1>2 DEF Added
<1>5. CASE r = q BY <1>1, <1>4, <1>5 DEF Added, q
<1>6. CASE r = Append(q, "user")
  <2>1. /\ r \in Seq(Rows) /\ Len(r) = Len(q) + 1 /\ r[Len(q) + 1] = "user"
        /\ \A i \in 1..Len(q) : r[i] = q[i]
    BY <1>2, <1>4, <1>6, AppendProperties
  <2>2. Added(r, {"tool", "user"}) BY <1>1, <1>4, <2>1 DEF Added
  <2>3. QED BY <1>4, <2>1, <2>2 DEF q
<1>7. QED BY <1>3, <1>5, <1>6

LEMMA StopRunAdds ==
    ASSUME TurnInv, StopRun
    PROVE  Added(rows', {"tool"}) /\ pc' = "exit"
<1>1. rows \in Seq(Rows) BY DEF TurnInv
<1>2. Added(rows, {"tool"}) BY <1>1, AddNothing
<1>3. QED BY <1>2, CloseAdds DEF StopRun, Leave

-----------------------------------------------------------------------------
(* The transcript's shape is kept by every step.                           *)

AllReplies == TextReplies \cup StructReplies \cup CallReplies \cup BothReplies

\* While a reply is in hand its row ends the transcript, until its calls are
\* answered.  A reply is popped only in this phase, so what is popped is that
\* row and never the seed or a message of the host.
ReplyInv ==
    /\ pc \in {"replied", "reply"} =>
          Len(rows) >= 2 /\ reply # "none" /\ Last(rows) = RowOf(reply)
    /\ pc = "mixed" => Len(rows) >= 2 /\ reply \in {"both", "cutBoth"} /\ Last(rows) = "both"
    /\ pc \in {"tools", "child"} =>
          \/ reply \in CallReplies /\ Len(rows) >= 2 /\ Last(rows) = "calls"
          \/ /\ reply \in {"both", "cutBoth", "graceful"} /\ Len(rows) >= 3
             /\ Last(rows) = "tool" /\ Last(Front(rows)) = "both"

ReplyPhases == {"replied", "reply", "mixed", "tools", "child"}

Shape ==
    /\ pc \in Pcs
    /\ reply \in AllReplies \cup {"none"}
    /\ HostType
    /\ ReplyInv

LEMMA RowOfType ==
    /\ \A r \in TextReplies : RowOf(r) = "text"
    /\ \A r \in StructReplies : RowOf(r) = "structured"
    /\ \A r \in CallReplies : RowOf(r) = "calls"
    /\ \A r \in BothReplies : RowOf(r) = "both"
  BY DEF RowOf, TextReplies, StructReplies, CallReplies, BothReplies

LEMMA AppendLast ==
    ASSUME rows \in Seq(Rows), NEW x \in Rows
    PROVE  Last(Append(rows, x)) = x /\ Front(Append(rows, x)) = rows
<1> DEFINE r == Append(rows, x)
<1>1. /\ r \in Seq(Rows) /\ Len(r) = Len(rows) + 1 /\ Len(rows) \in Nat
      /\ \A i \in 1..Len(rows) : r[i] = rows[i]
      /\ r[Len(rows) + 1] = x
  BY AppendProperties
<1> HIDE DEF r
<1>2. Last(r) = x BY <1>1 DEF Last
<1>3. /\ Front(r) \in Seq(Rows) /\ Len(Front(r)) = Len(r) - 1
      /\ \A i \in 1..(Len(r) - 1) : Front(r)[i] = r[i]
  <2>1. Len(r) >= 1 BY <1>1
  <2>2. QED BY <1>1, <2>1, PopType
<1>4. Len(Front(r)) = Len(rows) BY <1>1, <1>3
<1>5. \A i \in 1..Len(rows) : Front(r)[i] = rows[i] BY <1>1, <1>3
<1>6. Front(r) = rows BY <1>3, <1>4, <1>5, SeqEqual
<1>7. QED BY <1>2, <1>6 DEF r

\* Out of the phases in which a reply is in hand.
LEMMA Away ==
    ASSUME pc' \in Pcs \ ReplyPhases
    PROVE  ReplyInv'
  BY DEF ReplyInv, ReplyPhases

LEMMA StaysPut ==
    ASSUME TurnInv, UNCHANGED <<rows, turnVars>>, pc' # "done"
    PROVE  TurnInv'
<1>1. Added(rows', Rows) BY AddNothing DEF TurnInv
<1>2. QED BY <1>1, Grows

LEMMA GrowsBy ==
    ASSUME TurnInv, NEW kinds \in SUBSET Rows, Added(rows', kinds), UNCHANGED turnVars,
           pc' # "done"
    PROVE  TurnInv'
<1>1. Added(rows', Rows) BY DEF Added
<1>2. QED BY <1>1, Grows

LEMMA BeforeCallShape ==
    ASSUME TurnInv, Shape, BeforeCall
    PROVE  TurnInv' /\ Shape'
<1>0. {"tool"} \in SUBSET Rows /\ {"host"} \in SUBSET Rows BY DEF Rows
<1>1. CASE Begin
  <2>1. pc' = "top" /\ UNCHANGED <<rows, turnVars, reply, inbox, lanes>>
    BY <1>1 DEF Begin, hostVars
  <2>2. TurnInv' BY <2>1, StaysPut
  <2>3. ReplyInv' BY <2>1, Away DEF Pcs, ReplyPhases
  <2>4. QED BY <2>1, <2>2, <2>3 DEF Shape, HostType, Pcs
<1>2. CASE Steer
  <2>1. pc' \in {"control", "exit"} /\ inbox' = <<>> /\ UNCHANGED <<turnVars, reply, lanes>>
    BY <1>2 DEF Steer, ApplySteering, Leave
  <2>2. Added(rows', {"host"}) BY <1>2, SteeringAdds DEF Steer, ApplySteering, Shape
  <2>3. TurnInv' BY <1>0, <2>1, <2>2, GrowsBy
  <2>4. ReplyInv' BY <2>1, Away DEF Pcs, ReplyPhases
  <2>5. QED BY <2>1, <2>3, <2>4 DEF Shape, HostType, Pcs
<1>3. CASE CheckTop
  <2>1. UNCHANGED <<turnVars, reply, inbox, lanes>> BY <1>3 DEF CheckTop, hostVars
  <2>2. Added(rows', {"tool"}) /\ pc' \in {"count", "top", "exit"}
    BY <1>3, CheckpointAdds DEF CheckTop
  <2>3. TurnInv' BY <1>0, <2>1, <2>2, GrowsBy
  <2>4. ReplyInv' BY <2>2, Away DEF Pcs, ReplyPhases
  <2>5. QED BY <2>1, <2>2, <2>3, <2>4 DEF Shape, HostType, Pcs
<1>4. CASE CountCall
  <2>1. pc' \in {"request", "exit"} /\ UNCHANGED <<rows, turnVars, reply, inbox, lanes>>
    BY <1>4 DEF CountCall, hostVars, Leave
  <2>2. TurnInv' BY <2>1, StaysPut
  <2>3. ReplyInv' BY <2>1, Away DEF Pcs, ReplyPhases
  <2>4. QED BY <2>1, <2>2, <2>3 DEF Shape, HostType, Pcs
<1>5. CASE PrepareRequest
  <2>1. pc' = "gate" /\ UNCHANGED <<turn, open, completed, reply, inbox, lanes>>
    BY <1>5 DEF PrepareRequest, hostVars
  <2>2. \/ Flush(rows) /\ UNCHANGED rows
        \/ Flush(rows) /\ rows' = Append(rows, "system")
        \/ rows' = <<"system">> \o rows /\ mirror' = rows' /\ announced' = Len(rows')
    BY <1>5 DEF PrepareRequest
  <2>3. TurnInv'
    <3>1. CASE Flush(rows) /\ UNCHANGED rows
      <4>1. Flush(rows') /\ Added(rows', Rows) BY <3>1, AddNothing DEF TurnInv, Flush
      <4>2. QED BY <2>1, <4>1, Announces
    <3>2. CASE Flush(rows) /\ rows' = Append(rows, "system") BY <2>1, <3>2, Declares
    <3>3. CASE rows' = <<"system">> \o rows /\ mirror' = rows' /\ announced' = Len(rows')
      BY <2>1, <3>3, Inserts
    <3>4. QED BY <2>2, <3>1, <3>2, <3>3
  <2>4. ReplyInv' BY <2>1, Away DEF Pcs, ReplyPhases
  <2>5. QED BY <2>1, <2>3, <2>4 DEF Shape, HostType, Pcs
<1>6. CASE CheckBeforeDispatch
  <2>1. UNCHANGED <<turnVars, reply, inbox, lanes>> BY <1>6 DEF CheckBeforeDispatch, hostVars
  <2>2. Added(rows', {"tool"}) /\ pc' \in {"admit", "top", "exit"}
    BY <1>6, CheckpointAdds DEF CheckBeforeDispatch
  <2>3. TurnInv' BY <1>0, <2>1, <2>2, GrowsBy
  <2>4. ReplyInv' BY <2>2, Away DEF Pcs, ReplyPhases
  <2>5. QED BY <2>1, <2>2, <2>3, <2>4 DEF Shape, HostType, Pcs
<1>7. CASE Dispatch
  <2>1. pc' = "model" /\ UNCHANGED <<rows, reply, inbox, lanes>> /\ StartTurn
    BY <1>7 DEF Dispatch, hostVars
  <2>2. TurnInv' BY <2>1, Starts
  <2>3. ReplyInv' BY <2>1, Away DEF Pcs, ReplyPhases
  <2>4. QED BY <2>1, <2>2, <2>3 DEF Shape, HostType, Pcs
<1>8. QED BY <1>1, <1>2, <1>3, <1>4, <1>5, <1>6, <1>7 DEF BeforeCall

LEMMA ModelCallShape ==
    ASSUME TurnInv, Shape, ModelCall
    PROVE  TurnInv' /\ Shape'
<1>0. {"tool"} \in SUBSET Rows BY DEF Rows
<1>1. ASSUME NEW r \in Replies, ReceiveReply(r) PROVE TurnInv' /\ Shape'
  <2>1. pc' = "replied" /\ rows' = Append(rows, RowOf(r)) /\ reply' = r /\ Flush(rows')
        /\ UNCHANGED <<turn, open, completed, inbox, lanes>>
    BY <1>1 DEF ReceiveReply, hostVars
  <2>2. r \in AllReplies /\ r # "none"
    BY DEF Replies, AllReplies, TextReplies, StructReplies, CallReplies, BothReplies
  <2>3. RowOf(r) \in Rows BY <2>2, RowOfType DEF AllReplies, Rows, AssistantRows
  <2>4. rows \in Seq(Rows) /\ Len(rows) \in Nat /\ Len(rows) >= 1 BY DEF TurnInv
  <2>5. Added(rows', {RowOf(r)}) /\ Len(rows') = Len(rows) + 1 BY <2>1, <2>3, <2>4, AddOne
  <2>6. Added(rows', Rows) BY <2>3, <2>5, AddedMore
  <2>7. TurnInv' BY <2>1, <2>6, Announces
  <2>8. Last(rows') = RowOf(r) BY <2>1, <2>3, <2>4, AppendLast
  <2>9. ReplyInv' BY <2>1, <2>2, <2>4, <2>5, <2>8 DEF ReplyInv
  <2>10. QED BY <2>1, <2>2, <2>7, <2>9 DEF Shape, HostType, Pcs
<1>2. CASE ModelFails
  <2>1. pc' = "exit" /\ UNCHANGED <<rows, turnVars, reply, inbox, lanes>>
    BY <1>2 DEF ModelFails, hostVars, Leave
  <2>2. TurnInv' BY <2>1, StaysPut
  <2>3. ReplyInv' BY <2>1, Away DEF Pcs, ReplyPhases
  <2>4. QED BY <2>1, <2>2, <2>3 DEF Shape, HostType, Pcs
<1>3. CASE CheckReply
  <2>1. pc = "replied" /\ UNCHANGED <<turnVars, inbox, lanes>>
        /\ reply' = IF pc' = "reply" THEN reply ELSE "none"
    BY <1>3 DEF CheckReply, hostVars
  <2>2. /\ Added(rows', {"tool"}) /\ pc' \in {"reply", "top", "exit"}
        /\ pc' = "reply" => rows' = rows
    BY <1>3, CheckpointAdds DEF CheckReply
  <2>3. TurnInv' BY <1>0, <2>1, <2>2, GrowsBy
  <2>4. ReplyInv'
    <3>1. CASE pc' = "reply" BY <2>1, <2>2, <3>1 DEF Shape, ReplyInv
    <3>2. CASE pc' # "reply" BY <2>2, <3>2, Away DEF Pcs, ReplyPhases
    <3>3. QED BY <3>1, <3>2
  <2>5. QED BY <2>1, <2>2, <2>3, <2>4 DEF Shape, HostType, Pcs
<1>4. QED BY <1>1, <1>2, <1>3 DEF ModelCall

\* The reply is popped, with or without a nudge, or taken as another kind.
LEMMA AskAgainShape ==
    ASSUME TurnInv, Shape, pc = "reply", NEW nudge \in Seq({"user"}), AskAgain(nudge)
    PROVE  TurnInv' /\ Shape'
<1>1. pc' = "top" /\ rows' = Front(rows) \o nudge /\ Retract /\ reply' = "none"
      /\ UNCHANGED <<inbox, lanes>>
  BY DEF AskAgain, Again, hostVars
<1>2. Len(rows) >= 2 BY DEF Shape, ReplyInv
<1>3. TurnInv' BY <1>1, <1>2, Pops
<1>4. ReplyInv' BY <1>1, Away DEF Pcs, ReplyPhases
<1>5. QED BY <1>1, <1>3, <1>4 DEF Shape, HostType, Pcs

LEMMA PopAndFailShape ==
    ASSUME TurnInv, Shape, pc = "reply", PopAndFail
    PROVE  TurnInv' /\ Shape'
<1>1. pc' = "exit" /\ rows' = Front(rows) /\ Retract /\ reply' = "none"
      /\ UNCHANGED <<inbox, lanes>>
  BY DEF PopAndFail, hostVars, Leave
<1>2. rows \in Seq(Rows) /\ Len(rows) \in Nat /\ Len(rows) >= 2 BY DEF TurnInv, Shape, ReplyInv
<1>3. Front(rows) \in Seq(Rows) BY <1>2, PopType
<1>4. rows' = Front(rows) \o <<>> BY <1>1, <1>3, ConcatEmptySeq
<1>5. TurnInv' BY <1>1, <1>2, <1>4, Pops, Nudges
<1>6. ReplyInv' BY <1>1, Away DEF Pcs, ReplyPhases
<1>7. QED BY <1>1, <1>5, <1>6 DEF Shape, HostType, Pcs

LEMMA TakenAsShape ==
    ASSUME TurnInv, Shape, pc = "reply", reply \in TextReplies, NEW kinds \in SUBSET TextReplies,
           TakenAs(kinds)
    PROVE  TurnInv' /\ Shape'
<1>1. pc' = "reply" /\ UNCHANGED <<rows, turnVars, inbox, lanes>> /\ reply' \in TextReplies
  BY DEF TakenAs, hostVars
<1>2. TurnInv' BY <1>1, StaysPut
<1>3. reply' # "none" BY <1>1 DEF TextReplies
<1>4. RowOf(reply') = RowOf(reply) BY <1>1, RowOfType
<1>5. ReplyInv' BY <1>1, <1>3, <1>4 DEF Shape, ReplyInv
<1>6. QED BY <1>1, <1>2, <1>5 DEF Shape, HostType, Pcs, AllReplies

LEMMA UserRowShape ==
    ASSUME TurnInv, Shape, UNCHANGED <<turnVars, inbox, lanes>>, reply' = "none",
           pc' \in {"top", "exit"}, rows' = rows \/ rows' = Append(rows, "user")
    PROVE  TurnInv' /\ Shape'
<1>1. rows \in Seq(Rows) /\ "user" \in Rows BY DEF TurnInv, Rows
<1>2. Added(rows', {"user"}) BY <1>1, AddOne, AddNothing
<1>3. {"user"} \in SUBSET Rows BY <1>1
<1>4. TurnInv' BY <1>2, <1>3, GrowsBy
<1>5. ReplyInv' BY Away DEF Pcs, ReplyPhases
<1>6. QED BY <1>4, <1>5 DEF Shape, HostType, Pcs

LEMMA RecoverShape ==
    ASSUME TurnInv, Shape, Recover
    PROVE  TurnInv' /\ Shape'
<1> USE Nudges
<1>1. CASE RecoverWithheld
  <2>1. CASE AskAgain(<<"user">>) BY <1>1, <2>1, AskAgainShape DEF RecoverWithheld
  <2>2. CASE TakenAs({"final", "blank", "empty", "dead", "badText", "continue"})
    <3>1. pc = "reply" /\ reply \in TextReplies BY <1>1 DEF RecoverWithheld, TextReplies
    <3>2. {"final", "blank", "empty", "dead", "badText", "continue"} \in SUBSET TextReplies
      BY DEF TextReplies
    <3>3. QED BY <2>2, <3>1, <3>2, TakenAsShape
  <2>3. QED BY <1>1, <2>1, <2>2 DEF RecoverWithheld
<1>2. CASE RetryDead BY <1>2, AskAgainShape DEF RetryDead
<1>3. CASE NudgeDead BY <1>3, AskAgainShape DEF NudgeDead
<1>4. CASE GiveUpDead
  <2>1. CASE reply = "deadInCall" /\ PopAndFail BY <1>4, <2>1, PopAndFailShape DEF GiveUpDead
  <2>2. CASE reply = "dead" /\ TakenAs({"blank", "dropped", "badText", "continue"})
    <3>1. pc = "reply" /\ reply \in TextReplies BY <1>4, <2>2 DEF GiveUpDead, TextReplies
    <3>2. {"blank", "dropped", "badText", "continue"} \in SUBSET TextReplies
      BY DEF TextReplies
    <3>3. QED BY <2>2, <3>1, <3>2, TakenAsShape
  <2>3. QED BY <1>4, <2>1, <2>2 DEF GiveUpDead
<1>5. CASE RecoverEmpty
  <2>1. CASE AskAgain(<<>>) BY <1>5, <2>1, AskAgainShape DEF RecoverEmpty
  <2>2. CASE TakenAs({"blank"})
    <3>1. pc = "reply" /\ reply \in TextReplies BY <1>5 DEF RecoverEmpty, TextReplies
    <3>2. {"blank"} \in SUBSET TextReplies BY DEF TextReplies
    <3>3. QED BY <2>2, <3>1, <3>2, TakenAsShape
  <2>3. QED BY <1>5, <2>1, <2>2 DEF RecoverEmpty
<1>6. CASE RecoverDropped
  <2>1. CASE TakenAs({"final", "blank", "badText", "continue"})
    <3>1. pc = "reply" /\ reply \in TextReplies BY <1>6 DEF RecoverDropped, TextReplies
    <3>2. {"final", "blank", "badText", "continue"} \in SUBSET TextReplies BY DEF TextReplies
    <3>3. QED BY <2>1, <3>1, <3>2, TakenAsShape
  <2>2. CASE ~TakenAs({"final", "blank", "badText", "continue"})
    <3>1. /\ UNCHANGED <<turnVars, inbox, lanes>> /\ reply' = "none" /\ pc' = "top"
          /\ rows' = rows \/ rows' = Append(rows, "user")
      BY <1>6, <2>2 DEF RecoverDropped, hostVars
    <3>2. QED BY <3>1, UserRowShape
  <2>3. QED BY <2>1, <2>2
<1>7. QED BY <1>1, <1>2, <1>3, <1>4, <1>5, <1>6 DEF Recover

LEMMA ResolveShape ==
    ASSUME TurnInv, Shape, Resolve
    PROVE  TurnInv' /\ Shape'
<1>1. CASE ContinueTurn
  <2>1. UNCHANGED <<turnVars, inbox, lanes>> /\ reply' = "none" /\ pc' = "top"
        /\ rows' = Append(rows, "user")
    BY <1>1 DEF ContinueTurn, hostVars
  <2>2. QED BY <2>1, UserRowShape
<1>2. CASE RejectOutput
  <2>1. UNCHANGED <<turnVars, inbox, lanes>> /\ reply' = "none" /\ pc' \in {"top", "exit"}
        /\ (rows' = rows \/ rows' = Append(rows, "user"))
    BY <1>2 DEF RejectOutput, hostVars, Leave
  <2>2. QED BY <2>1, UserRowShape
<1>3. CASE AcceptReply
  <2>1. pc' = "settle" /\ UNCHANGED <<rows, inbox, lanes>> /\ CloseTurn(rows) /\ reply' = "none"
    BY <1>3 DEF AcceptReply, hostVars
  <2>2. CloseTurn(rows') /\ Added(rows', Rows) BY <2>1, AddNothing DEF TurnInv, CloseTurn, Flush
  <2>3. TurnInv' BY <2>2, Closes
  <2>4. ReplyInv' BY <2>1, Away DEF Pcs, ReplyPhases
  <2>5. QED BY <2>1, <2>3, <2>4 DEF Shape, HostType, Pcs
<1>4. CASE RefuseBlank BY <1>4, PopAndFailShape DEF RefuseBlank
<1>5. QED BY <1>1, <1>2, <1>3, <1>4 DEF Resolve

\* A reply with two calls: one is answered, then the tool runs.
LEMMA HalfAnsweredShape ==
    ASSUME TurnInv, Shape, Mixed, rows' = Append(rows, "tool"), pc' \in {"tools", "child"},
           reply' \in {"both", "cutBoth", "graceful"}, UNCHANGED <<turnVars, inbox, lanes>>
    PROVE  TurnInv' /\ Shape'
<1>1. rows \in Seq(Rows) /\ "tool" \in Rows /\ Len(rows) \in Nat BY DEF TurnInv, Rows
<1>2. Added(rows', {"tool"}) /\ Len(rows') = Len(rows) + 1 BY <1>1, AddOne
<1>3. {"tool"} \in SUBSET Rows BY <1>1
<1>4. TurnInv' BY <1>2, <1>3, GrowsBy
<1>5. Len(rows) >= 2 /\ Last(rows) = "both"
  BY RowOfType DEF Shape, ReplyInv, Mixed, BothReplies
<1>6. Last(rows') = "tool" /\ Front(rows') = rows BY <1>1, AppendLast
<1>7. ReplyInv' BY <1>1, <1>2, <1>5, <1>6 DEF ReplyInv
<1>8. reply' \in AllReplies BY DEF AllReplies, BothReplies
<1>9. QED BY <1>4, <1>7, <1>8 DEF Shape, HostType, Pcs

LEMMA WithCallsShape ==
    ASSUME TurnInv, Shape, WithCalls
    PROVE  TurnInv' /\ Shape'
<1>0. rows \in Seq(Rows) /\ "tool" \in Rows /\ "user" \in Rows /\ "host" \in Rows
      /\ {"tool"} \in SUBSET Rows /\ {"host"} \in SUBSET Rows
  BY DEF TurnInv, Rows
<1>1. ASSUME NEW t \in Tools, FailCut(t) PROVE TurnInv' /\ Shape'
  BY <1>1, PopAndFailShape DEF FailCut
<1>2. ASSUME NEW t \in Tools, RefuseCut(t) PROVE TurnInv' /\ Shape'
  <2>1. pc = "reply" /\ UNCHANGED <<turnVars, inbox, lanes, reply>>
    BY <1>2 DEF RefuseCut, hostVars
  <2>2. CASE reply \in SchemaCut /\ RefusedAs(rows') /\ pc' = "lane"
    <3>1. Added(rows', {"tool", "user"}) BY <2>2, RefusedAdds
    <3>2. TurnInv' BY <1>0, <2>1, <2>2, <3>1, GrowsBy
    <3>3. ReplyInv' BY <2>2, Away DEF Pcs, ReplyPhases
    <3>4. QED BY <2>1, <2>2, <3>2, <3>3 DEF Shape, HostType, Pcs
  <2>3. CASE reply = "cutTools" /\ pc' = "tools" /\ UNCHANGED rows
    <3>1. TurnInv' BY <2>1, <2>3, StaysPut
    <3>2. ReplyInv' BY <2>1, <2>3, RowOfType DEF Shape, ReplyInv, CallReplies
    <3>3. QED BY <2>1, <2>3, <3>1, <3>2 DEF Shape, HostType, Pcs
  <2>4. CASE reply = "cutBoth" /\ pc' = "mixed" /\ UNCHANGED rows
    <3>1. TurnInv' BY <2>1, <2>4, StaysPut
    <3>2. ReplyInv' BY <2>1, <2>4, RowOfType DEF Shape, ReplyInv, BothReplies
    <3>3. QED BY <2>1, <2>4, <3>1, <3>2 DEF Shape, HostType, Pcs
  <2>5. QED BY <1>2, <2>2, <2>3, <2>4, RefusedForm DEF RefuseCut
<1>3. CASE StartTools
  <2>1. pc = "reply" /\ reply = "tools" /\ pc' \in {"tools", "child"}
        /\ UNCHANGED <<rows, turnVars, inbox, lanes, reply>>
    BY <1>3 DEF StartTools, RunTools, hostVars
  <2>2. TurnInv' BY <2>1, StaysPut
  <2>3. ReplyInv' BY <2>1, RowOfType DEF Shape, ReplyInv, CallReplies
  <2>4. QED BY <2>1, <2>2, <2>3 DEF Shape, HostType, Pcs
<1>4. CASE FinishEarly
  <2>1. pc' = "settle" /\ rows' = rows \o <<"tool", "tool">> /\ CloseTurn(rows')
        /\ reply' = "none" /\ UNCHANGED <<inbox, lanes>>
    BY <1>4 DEF FinishEarly, hostVars
  <2>2. Added(rows', Rows)
    <3>1. Added(rows', {"tool", "tool"}) BY <1>0, <2>1, AddTwo
    <3>2. QED BY <3>1 DEF Added
  <2>3. TurnInv' BY <2>1, <2>2, Closes
  <2>4. ReplyInv' BY <2>1, Away DEF Pcs, ReplyPhases
  <2>5. QED BY <2>1, <2>3, <2>4 DEF Shape, HostType, Pcs
<1>5. CASE FinishGracefully
  <2>1. Mixed /\ rows' = Append(rows, "tool") /\ pc' \in {"tools", "child"}
        /\ reply' = "graceful" /\ UNCHANGED <<turnVars, inbox, lanes>>
    BY <1>5 DEF FinishGracefully, RunTools, hostVars
  <2>2. QED BY <2>1, HalfAnsweredShape
<1>6. CASE GoOn
  <2>1. Mixed /\ rows' = Append(rows, "tool") /\ pc' \in {"tools", "child"}
        /\ reply' \in {"both", "cutBoth"} /\ UNCHANGED <<turnVars, inbox, lanes>>
    BY <1>6 DEF GoOn, RunTools, hostVars
  <2>2. QED BY <2>1, HalfAnsweredShape
<1>7. CASE ChildRuns
  <2>1. pc = "child" /\ pc' = "tools" /\ UNCHANGED <<rows, turnVars, inbox, lanes, reply>>
    BY <1>7 DEF ChildRuns, hostVars
  <2>2. TurnInv' BY <2>1, StaysPut
  <2>3. ReplyInv' BY <2>1 DEF Shape, ReplyInv
  <2>4. QED BY <2>1, <2>2, <2>3 DEF Shape, HostType, Pcs
<1>8. CASE ToolsReturn
  <2>1. pc' \in {"graceful", "lane"} /\ CloseTurn(rows') /\ UNCHANGED <<reply, inbox, lanes>>
    BY <1>8 DEF ToolsReturn, hostVars
  <2>2. rows' = Append(rows, "tool") \o <<>> \/ rows' = Append(rows, "tool") \o <<"user">>
    BY <1>8 DEF ToolsReturn
  <2>3. rows' = Append(rows, "tool") \/ rows' = rows \o <<"tool", "user">>
    BY <1>0, <2>2, AddTwo
  <2>4. Added(rows', Rows)
    <3>1. CASE rows' = Append(rows, "tool") BY <1>0, <3>1, AddOne, AddedMore
    <3>2. CASE rows' = rows \o <<"tool", "user">> 
      <4>1. Added(rows', {"tool", "user"}) BY <1>0, <3>2, AddTwo
      <4>2. QED BY <4>1 DEF Added
    <3>3. QED BY <2>3, <3>1, <3>2
  <2>5. TurnInv' BY <2>1, <2>4, Closes
  <2>6. ReplyInv' BY <2>1, Away DEF Pcs, ReplyPhases
  <2>7. QED BY <2>1, <2>5, <2>6 DEF Shape, HostType, Pcs
<1>9. CASE ToolsDefer
  <2>1. pc' = "exit" /\ UNCHANGED <<rows, turnVars, inbox, lanes>> /\ reply' = "none"
    BY <1>9 DEF ToolsDefer, hostVars, Leave
  <2>2. QED BY <2>1, UserRowShape
<1>10. CASE ApplySteerLane
  <2>1. pc' = "boundary" /\ reply' = "none" /\ UNCHANGED <<turnVars, inbox>>
    BY <1>10 DEF ApplySteerLane
  <2>2. Added(rows', {"host"}) /\ lanes' \in [Lanes -> Nat]
    <3>1. CASE TakeLane("Steer") BY <3>1, LaneAdds DEF Shape, Lanes
    <3>2. CASE UNCHANGED <<rows, lanes>> BY <1>0, <3>2, AddNothing DEF Shape, HostType
    <3>3. QED BY <1>10, <3>1, <3>2 DEF ApplySteerLane
  <2>3. TurnInv' BY <1>0, <2>1, <2>2, GrowsBy
  <2>4. ReplyInv' BY <2>1, Away DEF Pcs, ReplyPhases
  <2>5. QED BY <2>1, <2>2, <2>3, <2>4 DEF Shape, HostType, Pcs
<1>11. CASE CheckBoundary
  <2>1. UNCHANGED <<turnVars, reply, inbox, lanes>> BY <1>11 DEF CheckBoundary, hostVars
  <2>2. Added(rows', {"tool"}) /\ pc' \in {"top", "exit"}
    BY <1>11, CheckpointAdds DEF CheckBoundary
  <2>3. TurnInv' BY <1>0, <2>1, <2>2, GrowsBy
  <2>4. ReplyInv' BY <2>2, Away DEF Pcs, ReplyPhases
  <2>5. QED BY <2>1, <2>2, <2>3, <2>4 DEF Shape, HostType, Pcs
<1>12. CASE FinishGraceful
  <2>1. UNCHANGED <<turnVars, inbox, lanes>> /\ reply' = "none"
    BY <1>12 DEF FinishGraceful, hostVars
  <2>2. Added(rows', {"tool"}) /\ pc' \in {"settle", "exit"}
    <3>1. CASE StopRun BY <3>1, StopRunAdds
    <3>2. CASE pc' = "settle" /\ UNCHANGED rows BY <1>0, <3>2, AddNothing
    <3>3. QED BY <1>12, <3>1, <3>2 DEF FinishGraceful
  <2>3. TurnInv' BY <1>0, <2>1, <2>2, GrowsBy
  <2>4. ReplyInv' BY <2>2, Away DEF Pcs, ReplyPhases
  <2>5. QED BY <2>1, <2>2, <2>3, <2>4 DEF Shape, HostType, Pcs
<1>13. QED BY <1>1, <1>2, <1>3, <1>4, <1>5, <1>6, <1>7, <1>8, <1>9, <1>10, <1>11, <1>12
       DEF WithCalls

LEMMA SettleLaneShape ==
    ASSUME TurnInv, Shape, NEW at, NEW l \in Lanes, NEW go \in {"followups", "exit"},
           NEW onward, SettleLane(at, l, onward), onward => pc' = go
    PROVE  TurnInv' /\ Shape'
<1>0. rows \in Seq(Rows) /\ {"host"} \in SUBSET Rows BY DEF TurnInv, Rows
<1>1. UNCHANGED <<turnVars, inbox, reply>> BY DEF SettleLane
<1>2. Added(rows', {"host"}) /\ lanes' \in [Lanes -> Nat] /\ pc' \in {"top", go}
  <2>1. CASE TakeLane(l) /\ pc' = "top" BY <2>1, LaneAdds DEF Shape
  <2>2. CASE UNCHANGED <<rows, lanes>> /\ onward
    BY <1>0, <2>2, AddNothing DEF Shape, HostType
  <2>3. QED BY <2>1, <2>2 DEF SettleLane
<1>3. TurnInv' BY <1>0, <1>1, <1>2, GrowsBy
<1>4. ReplyInv' BY <1>2, Away DEF Pcs, ReplyPhases
<1>5. QED BY <1>1, <1>2, <1>3, <1>4 DEF Shape, HostType, Pcs

LEMMA EndingShape ==
    ASSUME TurnInv, Shape, Ending
    PROVE  TurnInv' /\ Shape'
<1>0. rows \in Seq(Rows) /\ {"host"} \in SUBSET Rows /\ "user" \in Rows BY DEF TurnInv, Rows
<1>1. CASE Settle
  <2>1. pc' \in {"top", "steers", "exit"} /\ inbox' = <<>> /\ UNCHANGED <<turnVars, reply, lanes>>
    BY <1>1 DEF Settle, ApplySteering, Leave
  <2>2. Added(rows', {"host"}) BY <1>1, SteeringAdds DEF Settle, ApplySteering, Shape
  <2>3. TurnInv' BY <1>0, <2>1, <2>2, GrowsBy
  <2>4. ReplyInv' BY <2>1, Away DEF Pcs, ReplyPhases
  <2>5. QED BY <2>1, <2>3, <2>4 DEF Shape, HostType, Pcs
<1>2. CASE SettleSteers
  <2>1. SettleLane("steers", "Steer", pc' = "followups" /\ UNCHANGED exit)
    BY <1>2 DEF SettleSteers
  <2>2. QED BY <2>1, SettleLaneShape DEF Lanes
<1>3. CASE SettleFollowups
  <2>1. SettleLane("followups", "Followup", Leave("finished")) BY <1>3 DEF SettleFollowups
  <2>2. Leave("finished") => pc' = "exit" BY DEF Leave
  <2>3. QED BY <2>1, <2>2, SettleLaneShape DEF Lanes
<1>4. CASE StepFails
  <2>1. pc' = "exit" /\ UNCHANGED <<rows, turnVars, inbox, lanes>> /\ reply' = "none"
    BY <1>4 DEF StepFails, hostVars, Leave
  <2>2. QED BY <2>1, UserRowShape
<1>5. CASE Conclude
  <2>1. pc' = "done" /\ CloseTurn(rows') /\ UNCHANGED <<reply, inbox, lanes>>
        /\ (rows' = rows \/ rows' = Append(rows, "user"))
    BY <1>5 DEF Conclude, hostVars
  <2>2. Added(rows', Rows)
    <3>1. Added(rows', {"user"}) BY <1>0, <2>1, AddNothing, AddOne
    <3>2. QED BY <3>1 DEF Added
  <2>3. TurnInv' BY <2>1, <2>2, Closes
  <2>4. ReplyInv' BY <2>1, Away DEF Pcs, ReplyPhases
  <2>5. QED BY <2>1, <2>3, <2>4 DEF Shape, HostType, Pcs
<1>6. QED BY <1>1, <1>2, <1>3, <1>4, <1>5 DEF Ending

LEMMA HostShape ==
    ASSUME TurnInv, Shape, Host
    PROVE  TurnInv' /\ Shape'
<1>0. pc \in Looks => pc # "done" BY DEF Looks
<1>1. ASSUME NEW n \in 1..MaxBatch, NEW batch \in [1..n -> Commands], SendCommands(batch)
      PROVE  TurnInv' /\ Shape'
  <2>1. pc' = pc /\ pc # "done" /\ UNCHANGED <<rows, turnVars, lanes, reply>>
        /\ inbox' = inbox \o batch
    BY <1>0, <1>1 DEF SendCommands
  <2>2. TurnInv' BY <2>1, StaysPut
  <2>3. batch \in Seq(Commands) BY <1>1, EventsAssumption, SeqDef
  <2>4. inbox' \in Seq(Commands) BY <2>1, <2>3, ConcatProperties DEF Shape, HostType
  <2>5. ReplyInv' BY <2>1 DEF Shape, ReplyInv
  <2>6. QED BY <2>1, <2>2, <2>4, <2>5 DEF Shape, HostType
<1>2. ASSUME NEW n \in 1..MaxBatch, NEW l \in Lanes, Enqueue(l, n) PROVE TurnInv' /\ Shape'
  <2>1. pc' = pc /\ pc # "done" /\ UNCHANGED <<rows, turnVars, inbox, reply>>
        /\ lanes' = [lanes EXCEPT ![l] = lanes[l] + n]
    BY <1>0, <1>2 DEF Enqueue
  <2>2. TurnInv' BY <2>1, StaysPut
  <2>3. lanes' \in [Lanes -> Nat] BY <2>1, EventsAssumption DEF Shape, HostType
  <2>4. ReplyInv' BY <2>1 DEF Shape, ReplyInv
  <2>5. QED BY <2>1, <2>2, <2>3, <2>4 DEF Shape, HostType
<1>3. QED BY <1>1, <1>2 DEF Host

LEMMA ShapeInit ==
    ASSUME Init
    PROVE  TurnInv /\ Shape
<1>1. rows \in Seq(Rows) /\ Len(rows) = 1
  BY TimesType DEF Init, SeedLen, Rows
<1>2. SubSeq(rows, 1, 1) = rows BY <1>1, SubSeqFull
<1>3. MirrorAgrees BY <1>1, <1>2 DEF Init, MirrorAgrees, SeedLen
<1>4. TurnsPaired BY DEF Init, TurnsPaired, Closed
<1>5. TurnInv
  <2>1. announced = 1 /\ open = 0 /\ turn = 0 /\ completed = 0 BY DEF Init, SeedLen, Closed
  <2>2. QED BY ONLY <1>1, <1>3, <1>4, <2>1 DEF TurnInv
<1>6. QED BY <1>5 DEF Init, Shape, HostType, ReplyInv, Pcs, Lanes

LEMMA ShapeStep ==
    ASSUME TurnInv, Shape, [Next]_vars
    PROVE  TurnInv' /\ Shape'
<1>1. CASE UNCHANGED vars
  BY <1>1 DEF vars, TurnInv, Shape, HostType, ReplyInv, MirrorAgrees, TurnsPaired
<1>2. CASE Next
  BY <1>2, BeforeCallShape, ModelCallShape, RecoverShape, ResolveShape, WithCallsShape,
     EndingShape, HostShape DEF Next, Loop
<1>3. QED BY <1>1, <1>2

\* The transcript, the turn marks and the observer's copy keep their shape
\* through every recovery, checkpoint and exit: a retraction pops the reply in
\* hand and nothing else.
THEOREM ShapeHolds == Spec => [](TurnInv /\ Shape)
<1>1. Init => TurnInv /\ Shape BY ShapeInit
<1>2. TurnInv /\ Shape /\ [Next]_vars => (TurnInv /\ Shape)' BY ShapeStep
<1>3. QED BY <1>1, <1>2, PTL DEF Spec

\* An observer of the lifecycle events holds the announced prefix of the
\* transcript at every moment and all of it when the run is over.
THEOREM MirrorAgreesHolds == Spec => []MirrorAgrees
<1>1. TurnInv => MirrorAgrees BY DEF TurnInv
<1>2. QED BY <1>1, ShapeHolds, PTL

\* Each turn that starts is completed once, before the next one and before
\* the end of the run, on every path of the loop.
THEOREM TurnsPairedHolds == Spec => []TurnsPaired
<1>1. TurnInv => TurnsPaired BY DEF TurnInv
<1>2. QED BY <1>1, ShapeHolds, PTL

-----------------------------------------------------------------------------
(* How a run ends.                                                         *)

\* A discarded reply leaves a call to replace it until that call is counted,
\* and a run on its way to finishing of itself holds its last reply.
EndInv ==
    /\ exit = "none" <=> pc \notin {"exit", "done"}
    /\ discarded => CallsRemain
    /\ pc \in {"settle", "steers", "followups"} => final = {answered}
    /\ ExitIsEarned

\* The run goes on.
LEMMA EndGoesOn ==
    ASSUME EndInv, exit' = "none", pc' \notin {"exit", "done", "settle", "steers", "followups"},
           UNCHANGED <<calls, discarded>>
    PROVE  EndInv'
  BY DEF EndInv, CallsRemain, ExitIsEarned, DiscardedIsReplaced, FinalIsCurrent

\* The run finishes of itself, or is about to.
LEMMA EndSettles ==
    ASSUME EndInv, UNCHANGED <<exit, calls, discarded>>, exit = "none",
           final' = {answered'}, pc' \in {"settle", "steers", "followups"}
    PROVE  EndInv'
  BY DEF EndInv, CallsRemain, ExitIsEarned, DiscardedIsReplaced, FinalIsCurrent

\* The run is left in another way than at its limit or of itself.
LEMMA EndLeaves ==
    ASSUME EndInv, pc' = "exit", exit' \notin {"none", "limit", "finished"},
           UNCHANGED <<calls, discarded>>
    PROVE  EndInv'
  BY DEF EndInv, CallsRemain, ExitIsEarned, DiscardedIsReplaced, FinalIsCurrent

LEMMA EndSteering ==
    ASSUME EndInv, NEW onward \in {"control", "top", "steers"}, ApplySteering(onward), exit = "none",
           UNCHANGED <<final, answered, calls, discarded>>,
           onward = "steers" => pc = "settle"
    PROVE  EndInv'
<1>1. CASE pc' = "exit" /\ exit' \in {"error", "paused"} BY <1>1, EndLeaves
<1>2. CASE pc' = onward /\ UNCHANGED exit
  <2>1. CASE onward = "steers" BY <1>2, <2>1, EndSettles DEF EndInv
  <2>2. CASE onward # "steers" BY <1>2, <2>2, EndGoesOn
  <2>3. QED BY <2>1, <2>2
<1>3. QED BY <1>1, <1>2 DEF ApplySteering, Leave

LEMMA EndCheckpoint ==
    ASSUME EndInv, NEW onward \in {"count", "admit", "reply", "top"}, Checkpoint(onward),
           exit = "none", UNCHANGED <<calls, discarded>>
    PROVE  EndInv'
<1>1. CASE pc' = "exit" /\ exit' \in {"ended", "stopped", "error"} BY <1>1, EndLeaves
<1>2. CASE pc' \in {onward, "top"} /\ UNCHANGED exit BY <1>2, EndGoesOn
<1>3. QED BY <1>1, <1>2 DEF Checkpoint, StopRun, Leave

LEMMA EndAskAgain ==
    ASSUME EndInv, pc = "reply", CallsRemain, NEW nudge, AskAgain(nudge)
    PROVE  EndInv'
<1>1. pc' = "top" /\ exit' = exit /\ calls' = calls BY DEF AskAgain, Again, ended, counts
<1>2. exit = "none" BY DEF EndInv
<1>3. QED BY <1>1, <1>2
      DEF EndInv, CallsRemain, ExitIsEarned, DiscardedIsReplaced, FinalIsCurrent

LEMMA EndPopAndFail ==
    ASSUME EndInv, PopAndFail
    PROVE  EndInv'
<1>1. pc' = "exit" /\ exit' = "error" /\ UNCHANGED <<calls, discarded>>
  BY DEF PopAndFail, Leave, counts, ghosts
<1>2. QED BY <1>1, EndLeaves

LEMMA EndStep ==
    ASSUME EndInv, [Next]_vars
    PROVE  EndInv'
<1> USE DEF counts, ended, ghosts
<1>1. CASE UNCHANGED vars
  BY <1>1 DEF vars, EndInv, CallsRemain, ExitIsEarned, DiscardedIsReplaced, FinalIsCurrent
<1>2. CASE BeforeCall
  <2>0. exit = "none"
    BY <1>2 DEF BeforeCall, Begin, Steer, CheckTop, CountCall, PrepareRequest,
       CheckBeforeDispatch, Dispatch, EndInv
  <2>1. CASE Begin BY <2>0, <2>1, EndGoesOn DEF Begin
  <2>2. CASE Steer BY <2>0, <2>2, EndSteering DEF Steer
  <2>3. CASE CheckTop BY <2>0, <2>3, EndCheckpoint DEF CheckTop
  <2>4. CASE CountCall
    <3>1. CASE CallsRemain
      <4>1. pc' = "request" /\ discarded' = FALSE /\ exit' = "none" BY <2>0, <2>4, <3>1 DEF CountCall
      <4>2. QED BY <4>1 DEF EndInv, ExitIsEarned, DiscardedIsReplaced, FinalIsCurrent
    <3>2. CASE ~CallsRemain
      <4>1. pc' = "exit" /\ discarded' = discarded /\ exit' \in {"limit", "error"}
        BY <2>4, <3>2 DEF CountCall, Leave
      <4>2. ~discarded BY <3>2 DEF EndInv
      <4>3. QED BY <4>1, <4>2 DEF EndInv, ExitIsEarned, DiscardedIsReplaced, FinalIsCurrent
    <3>3. QED BY <3>1, <3>2
  <2>5. CASE PrepareRequest BY <2>0, <2>5, EndGoesOn DEF PrepareRequest
  <2>6. CASE CheckBeforeDispatch BY <2>0, <2>6, EndCheckpoint DEF CheckBeforeDispatch
  <2>7. CASE Dispatch BY <2>0, <2>7, EndGoesOn DEF Dispatch
  <2>8. QED BY <1>2, <2>1, <2>2, <2>3, <2>4, <2>5, <2>6, <2>7 DEF BeforeCall
<1>3. CASE ModelCall
  <2>0. exit = "none" BY <1>3 DEF ModelCall, ReceiveReply, ModelFails, CheckReply, EndInv
  <2>1. ASSUME NEW r \in Replies, ReceiveReply(r) PROVE EndInv'
    BY <2>0, <2>1, EndGoesOn DEF ReceiveReply
  <2>2. CASE ModelFails BY <2>2, EndLeaves DEF ModelFails, Leave
  <2>3. CASE CheckReply BY <2>0, <2>3, EndCheckpoint DEF CheckReply
  <2>4. QED BY <1>3, <2>1, <2>2, <2>3 DEF ModelCall
<1>4. ASSUME pc = "reply", NEW kinds, TakenAs(kinds) PROVE EndInv'
  <2>1. exit = "none" BY <1>4 DEF EndInv
  <2>2. QED BY <1>4, <2>1, EndGoesOn DEF TakenAs
<1>5. CASE Recover
  <2>1. CASE RecoverWithheld BY <1>4, <2>1, EndAskAgain DEF RecoverWithheld
  <2>2. CASE RetryDead BY <2>2, EndAskAgain DEF RetryDead
  <2>3. CASE NudgeDead BY <2>3, EndAskAgain DEF NudgeDead
  <2>4. CASE GiveUpDead BY <1>4, <2>4, EndPopAndFail DEF GiveUpDead
  <2>5. CASE RecoverEmpty BY <1>4, <2>5, EndAskAgain DEF RecoverEmpty
  <2>6. CASE RecoverDropped
    <3>1. CASE TakenAs({"final", "blank", "badText", "continue"})
      BY <1>4, <2>6, <3>1 DEF RecoverDropped
    <3>2. CASE ~TakenAs({"final", "blank", "badText", "continue"})
      <4>1. pc = "reply" /\ pc' = "top" /\ UNCHANGED <<exit, calls, discarded>>
        BY <2>6, <3>2 DEF RecoverDropped
      <4>2. exit = "none" BY <4>1 DEF EndInv
      <4>3. QED BY <4>1, <4>2, EndGoesOn
    <3>3. QED BY <3>1, <3>2
  <2>7. QED BY <1>5, <2>1, <2>2, <2>3, <2>4, <2>5, <2>6 DEF Recover
<1>6. CASE Resolve
  <2>0. exit = "none"
    BY <1>6 DEF Resolve, ContinueTurn, RejectOutput, AcceptReply, RefuseBlank, EndInv
  <2>1. CASE ContinueTurn BY <2>0, <2>1, EndGoesOn DEF ContinueTurn
  <2>2. CASE RejectOutput
    <3>1. CASE pc' = "top" /\ UNCHANGED exit BY <2>0, <2>2, <3>1, EndGoesOn DEF RejectOutput
    <3>2. CASE Leave("error") BY <2>2, <3>2, EndLeaves DEF RejectOutput, Leave
    <3>3. QED BY <2>2, <3>1, <3>2 DEF RejectOutput
  <2>3. CASE AcceptReply BY <2>0, <2>3, EndSettles DEF AcceptReply, RecordFinal
  <2>4. CASE RefuseBlank BY <2>4, EndPopAndFail DEF RefuseBlank
  <2>5. QED BY <1>6, <2>1, <2>2, <2>3, <2>4 DEF Resolve
<1>7. CASE WithCalls
  <2>0. exit = "none"
    BY <1>7 DEF WithCalls, FailCut, RefuseCut, StartTools, FinishEarly, FinishGracefully, GoOn,
       Mixed, ChildRuns, ToolsReturn, ToolsDefer, ApplySteerLane, CheckBoundary, FinishGraceful,
       EndInv
  <2>1. ASSUME NEW t \in Tools, FailCut(t) PROVE EndInv' BY <2>1, EndPopAndFail DEF FailCut
  <2>2. ASSUME NEW t \in Tools, RefuseCut(t) PROVE EndInv'
    <3>1. pc' \in {"lane", "tools", "mixed"} /\ UNCHANGED <<exit, calls, discarded>>
      BY <2>2 DEF RefuseCut
    <3>2. QED BY <2>0, <3>1, EndGoesOn
  <2>3. CASE StartTools BY <2>0, <2>3, EndGoesOn DEF StartTools, RunTools
  <2>4. CASE FinishEarly BY <2>0, <2>4, EndSettles DEF FinishEarly, RecordFinal
  <2>5. CASE FinishGracefully BY <2>0, <2>5, EndGoesOn DEF FinishGracefully, RunTools
  <2>6. CASE GoOn BY <2>0, <2>6, EndGoesOn DEF GoOn, RunTools
  <2>7. CASE ChildRuns BY <2>0, <2>7, EndGoesOn DEF ChildRuns
  <2>8. CASE ToolsReturn BY <2>0, <2>8, EndGoesOn DEF ToolsReturn
  <2>9. CASE ToolsDefer BY <2>9, EndLeaves DEF ToolsDefer, Leave
  <2>10. CASE ApplySteerLane BY <2>0, <2>10, EndGoesOn DEF ApplySteerLane
  <2>11. CASE CheckBoundary BY <2>0, <2>11, EndCheckpoint DEF CheckBoundary
  <2>12. CASE FinishGraceful
    <3>1. CASE StopRun BY <2>12, <3>1, EndLeaves DEF FinishGraceful, StopRun, Leave
    <3>2. CASE ~StopRun BY <2>0, <2>12, <3>2, EndSettles DEF FinishGraceful, RecordFinal
    <3>3. QED BY <3>1, <3>2
  <2>13. QED BY <1>7, <2>1, <2>2, <2>3, <2>4, <2>5, <2>6, <2>7, <2>8, <2>9, <2>10, <2>11, <2>12
         DEF WithCalls
<1>8. CASE Ending
  <2>1. CASE Settle
    <3>1. exit = "none" /\ pc = "settle" BY <2>1 DEF Settle, EndInv
    <3>2. CASE Count(Applied(inbox), "Inject") > 0
      BY <2>1, <3>1, <3>2, EndSteering DEF Settle
    <3>3. CASE ~(Count(Applied(inbox), "Inject") > 0)
      BY <2>1, <3>1, <3>3, EndSteering DEF Settle
    <3>4. QED BY <3>2, <3>3
  <2>2. CASE SettleSteers
    <3>1. pc = "steers" /\ exit = "none" /\ final = {answered}
          /\ UNCHANGED <<exit, calls, discarded, final, answered>> /\ pc' \in {"top", "followups"}
      BY <2>2 DEF SettleSteers, SettleLane, EndInv
    <3>2. CASE pc' = "top" BY <3>1, <3>2, EndGoesOn
    <3>3. CASE pc' = "followups" BY <3>1, <3>3, EndSettles
    <3>4. QED BY <3>1, <3>2, <3>3
  <2>3. CASE SettleFollowups
    <3>1. pc = "followups" /\ exit = "none" /\ final = {answered}
          /\ UNCHANGED <<calls, discarded, final, answered>>
      BY <2>3 DEF SettleFollowups, SettleLane, EndInv
    <3>2. CASE pc' = "top" /\ UNCHANGED exit BY <3>1, <3>2, EndGoesOn
    <3>3. CASE Leave("finished")
      BY <3>1, <3>3
      DEF Leave, EndInv, CallsRemain, ExitIsEarned, DiscardedIsReplaced, FinalIsCurrent
    <3>4. QED BY <2>3, <3>2, <3>3 DEF SettleFollowups, SettleLane
  <2>4. CASE StepFails BY <2>4, EndLeaves DEF StepFails, Leave
  <2>5. CASE Conclude
    <3>1. pc = "exit" /\ pc' = "done" /\ exit' \in {exit, "error"}
          /\ UNCHANGED <<calls, discarded, final, answered>>
      BY <2>5 DEF Conclude
    <3>2. QED BY <3>1
          DEF EndInv, CallsRemain, ExitIsEarned, DiscardedIsReplaced, FinalIsCurrent
  <2>6. QED BY <1>8, <2>1, <2>2, <2>3, <2>4, <2>5 DEF Ending
<1>9. CASE Host
  <2>1. UNCHANGED <<pc, exit, calls, discarded, final, answered>>
    BY <1>9 DEF Host, SendCommands, Enqueue
  <2>2. QED BY <2>1
        DEF EndInv, CallsRemain, ExitIsEarned, DiscardedIsReplaced, FinalIsCurrent
<1>10. QED BY <1>1, <1>2, <1>3, <1>5, <1>6, <1>7, <1>8, <1>9 DEF Next, Loop

\* A run that finishes of itself returns its last reply, and no run stops at
\* the cap right after it threw a reply away, whatever the cap, the budgets
\* and the order of recoveries, checkpoints and queued messages.
THEOREM ExitIsEarnedHolds == Spec => []ExitIsEarned
<1>1. Init => EndInv
  BY DEF Init, EndInv, ExitIsEarned, DiscardedIsReplaced, FinalIsCurrent
<1>2. EndInv /\ [Next]_vars => EndInv' BY EndStep
<1>3. EndInv => ExitIsEarned BY DEF EndInv
<1>4. QED BY <1>1, <1>2, <1>3, PTL DEF Spec

-----------------------------------------------------------------------------
(* Counting rows.                                                          *)

\* A set of positions moved by n has as many elements.
LEMMA Shifted ==
    ASSUME NEW A \in SUBSET Nat, IsFiniteSet(A), NEW n \in Nat, NEW B,
           \A k : k \in B <=> \E j \in A : k = j + n
    PROVE  IsFiniteSet(B) /\ Cardinality(B) = Cardinality(A)
<1> DEFINE f == [j \in A |-> j + n]
<1>1. f \in [A -> B] OBVIOUS
<1>2. \A i, j \in A : f[i] = f[j] => i = j
  <2> TAKE i, j \in A
  <2>1. i \in Nat /\ j \in Nat /\ f[i] = i + n /\ f[j] = j + n OBVIOUS
  <2>2. QED BY <2>1
<1>3. \A k \in B : \E j \in A : f[j] = k OBVIOUS
<1> HIDE DEF f
<1>4. f \in Injection(A, B)
  <2>1. DOMAIN f = A BY <1>1
  <2>2. QED BY <1>1, <1>2, <2>1 DEF Injection, IsInjective
<1>5. f \in Surjection(A, B) BY <1>1, <1>3 DEF Surjection
<1>6. ExistsBijection(A, B) BY <1>4, <1>5 DEF ExistsBijection, Bijection
<1>7. QED BY <1>6, FS_Bijection

LEMMA CountConcat ==
    ASSUME NEW S, NEW s \in Seq(S), NEW t \in Seq(S), NEW x
    PROVE  Count(s \o t, x) = Count(s, x) + Count(t, x)
<1> DEFINE A == {k \in DOMAIN s : s[k] = x}
           B == {k \in DOMAIN t : t[k] = x}
           C == {k \in DOMAIN (s \o t) : (s \o t)[k] = x}
           D == {k \in (Len(s) + 1)..(Len(s) + Len(t)) : t[k - Len(s)] = x}
<1>1. /\ s \o t \in Seq(S) /\ Len(s \o t) = Len(s) + Len(t)
      /\ \A i \in 1 .. Len(s) + Len(t) :
             (s \o t)[i] = IF i <= Len(s) THEN s[i] ELSE t[i - Len(s)]
  BY ConcatProperties
<1>2. /\ Len(s) \in Nat /\ Len(t) \in Nat
      /\ DOMAIN s = 1..Len(s) /\ DOMAIN t = 1..Len(t) /\ DOMAIN (s \o t) = 1 .. Len(s) + Len(t)
  BY <1>1
<1>3. IsFiniteSet(A) /\ IsFiniteSet(B) BY CountType
<1>4. C = A \cup D
  <2>1. ASSUME NEW k \in C PROVE k \in A \cup D BY <1>1, <1>2
  <2>2. ASSUME NEW k \in A PROVE k \in C
    <3>1. k \in 1..Len(s) /\ s[k] = x BY <1>2
    <3>2. k \in 1 .. Len(s) + Len(t) /\ k <= Len(s) BY <1>2, <3>1
    <3>3. QED BY <1>1, <1>2, <3>1, <3>2
  <2>3. ASSUME NEW k \in D PROVE k \in C
    <3>1. k \in 1 .. Len(s) + Len(t) /\ ~(k <= Len(s)) BY <1>2
    <3>2. QED BY <1>1, <1>2, <3>1
  <2>4. QED BY <2>1, <2>2, <2>3
<1>5. A \cap D = {} BY <1>2
<1>6. IsFiniteSet(D) /\ Cardinality(D) = Cardinality(B)
  <2>1. B \in SUBSET Nat BY <1>2
  <2>2. ASSUME NEW k PROVE k \in D <=> \E j \in B : k = j + Len(s)
    <3>1. ASSUME k \in D PROVE \E j \in B : k = j + Len(s)
      <4>1. k - Len(s) \in B /\ k = (k - Len(s)) + Len(s) BY <1>2, <3>1
      <4>2. QED BY <4>1
    <3>2. ASSUME NEW j \in B, k = j + Len(s) PROVE k \in D
      <4>1. j \in 1..Len(t) /\ t[j] = x BY <1>2
      <4>2. k \in (Len(s) + 1)..(Len(s) + Len(t)) /\ k - Len(s) = j BY <1>2, <3>2, <4>1
      <4>3. QED BY <4>1, <4>2
    <3>3. QED BY <3>1, <3>2
  <2> HIDE DEF B, D
  <2>3. QED BY <1>2, <1>3, <2>1, <2>2, Shifted
<1>7. Cardinality(A) \in Nat /\ Cardinality(D) \in Nat BY <1>3, <1>6, FS_CardinalityType
<1> HIDE DEF A, B, C, D
<1>8. Cardinality(C) = Cardinality(A) + Cardinality(D) - Cardinality({})
  BY <1>3, <1>4, <1>5, <1>6, FS_Union
<1>9. Cardinality(C) = Cardinality(A) + Cardinality(B) BY <1>6, <1>7, <1>8, FS_EmptySet
<1>10. QED BY <1>9 DEF Count, A, B, C

LEMMA CountTimes ==
    ASSUME NEW x, NEW n \in Nat
    PROVE  Count(Times(x, n), x) = n
<1>1. {k \in DOMAIN Times(x, n) : Times(x, n)[k] = x} = 1..n BY DEF Times
<1>2. Cardinality(1..n) = n BY FS_Interval
<1>3. QED BY <1>1, <1>2 DEF Count

\* Rows of another kind do not count.
LEMMA CountNone ==
    ASSUME NEW s, NEW x, \A i \in DOMAIN s : s[i] # x
    PROVE  Count(s, x) = 0
<1>1. {k \in DOMAIN s : s[k] = x} = {} OBVIOUS
<1>2. QED BY <1>1, FS_EmptySet DEF Count

LEMMA CountAdded ==
    ASSUME TurnInv, NEW kinds, NEW x, x \notin kinds, NEW r, Added(r, kinds)
    PROVE  Count(r, x) = Count(rows, x)
<1>1. /\ rows \in Seq(Rows) /\ r \in Seq(Rows) /\ Len(rows) \in Nat /\ Len(r) \in Nat
      /\ Len(r) >= Len(rows) /\ DOMAIN rows = 1..Len(rows) /\ DOMAIN r = 1..Len(r)
  BY DEF TurnInv, Added
<1>2. \A k : k \in {i \in DOMAIN r : r[i] = x} <=> k \in {i \in DOMAIN rows : rows[i] = x}
  <2> TAKE k
  <2>1. CASE k \in 1..Len(rows) BY <1>1, <2>1 DEF Added
  <2>2. CASE k \in (Len(rows) + 1)..Len(r) BY <1>1, <2>2 DEF Added
  <2>3. CASE k \notin 1..Len(r) BY <1>1, <2>3
  <2>4. QED BY <1>1, <2>1, <2>2, <2>3
<1>3. {i \in DOMAIN r : r[i] = x} = {i \in DOMAIN rows : rows[i] = x} BY <1>2
<1>4. QED BY <1>3 DEF Count

\* A transcript whose last row, of another kind, is popped and nudged.
LEMMA CountPopped ==
    ASSUME NEW s \in Seq(Rows), Len(s) >= 1, NEW nudge \in Seq({"user"}), Last(s) # "host"
    PROVE  Count(Front(s) \o nudge, "host") = Count(s, "host")
<1> DEFINE r == Front(s) \o nudge
<1>1. /\ r \in Seq(Rows) /\ Len(r) = Len(s) - 1 + Len(nudge) /\ Len(nudge) \in Nat
      /\ \A i \in 1..(Len(s) - 1) : r[i] = s[i]
      /\ \A i \in Len(s)..Len(r) : r[i] = "user"
  BY PopRows
<1> HIDE DEF r
<1>2. Len(s) \in Nat /\ DOMAIN s = 1..Len(s) /\ DOMAIN r = 1..Len(r) /\ Len(r) \in Nat BY <1>1
<1>3. \A k : k \in {i \in DOMAIN r : r[i] = "host"} <=> k \in {i \in DOMAIN s : s[i] = "host"}
  <2> TAKE k
  <2>1. CASE k \in 1..(Len(s) - 1)
    <3>1. k \in 1..Len(s) /\ k \in 1..Len(r) BY <1>1, <1>2, <2>1
    <3>2. QED BY <1>1, <1>2, <2>1, <3>1
  <2>2. CASE k = Len(s)
    <3>1. s[k] # "host" BY <2>2 DEF Last
    <3>2. k \in 1..Len(r) => r[k] = "user" BY <1>1, <1>2, <2>2
    <3>3. QED BY <1>2, <3>1, <3>2
  <2>3. CASE k \in (Len(s) + 1)..Len(r)
    <3>1. r[k] = "user" BY <1>1, <1>2, <2>3
    <3>2. k \notin 1..Len(s) BY <1>2, <2>3
    <3>3. QED BY <1>2, <3>1, <3>2
  <2>4. CASE k \notin 1..Len(r) /\ k \notin 1..Len(s) BY <1>2, <2>4
  <2>5. QED BY <1>1, <1>2, <2>1, <2>2, <2>3, <2>4
<1>4. {i \in DOMAIN r : r[i] = "host"} = {i \in DOMAIN s : s[i] = "host"} BY <1>3
<1>5. QED BY <1>4 DEF Count, r

-----------------------------------------------------------------------------
(* Messages of the host.                                                   *)

\* Every term of the sum is a number.
LEMMA HeldType ==
    ASSUME TurnInv, Shape
    PROVE  /\ Count(rows, "host") \in Nat /\ Count(inbox, "Inject") \in Nat
           /\ lanes["Steer"] \in Nat /\ lanes["Followup"] \in Nat
  BY CountType DEF TurnInv, Shape, HostType, Lanes

\* The transcript holds as many messages of the host as before.
LEMMA KeptSame ==
    ASSUME HostMessagesKept, UNCHANGED hostVars, Count(rows', "host") = Count(rows, "host"),
           exit' = exit \/ exit = "none"
    PROVE  HostMessagesKept'
  BY DEF HostMessagesKept, hostVars

LEMMA KeptAdded ==
    ASSUME HostMessagesKept, TurnInv, UNCHANGED hostVars, exit' = exit \/ exit = "none",
           NEW kinds, "host" \notin kinds, Added(rows', kinds)
    PROVE  HostMessagesKept'
<1>1. Count(rows', "host") = Count(rows, "host") BY CountAdded
<1>2. QED BY <1>1, KeptSame

LEMMA KeptStill ==
    ASSUME HostMessagesKept, UNCHANGED <<rows, hostVars>>, exit' = exit \/ exit = "none"
    PROVE  HostMessagesKept'
  BY KeptSame

\* Steering moves the injected messages of the inbox to the transcript.
LEMMA KeptSteering ==
    ASSUME HostMessagesKept, TurnInv, Shape, NEW onward, ApplySteering(onward), exit = "none",
           UNCHANGED <<lanes, sent>>
    PROVE  HostMessagesKept'
<1>1. CASE Cancelled(inbox) BY <1>1 DEF ApplySteering, Leave, HostMessagesKept
<1>2. CASE ~Cancelled(inbox)
  <2> DEFINE n == Count(inbox, "Inject")
  <2>1. n \in Nat /\ Count(rows, "host") \in Nat BY HeldType
  <2>2. rows' = rows \o Times("host", n) /\ inbox' = <<>>
    BY <1>2, AppliedType DEF ApplySteering, Shape, HostType
  <2>3. Times("host", n) \in Seq(Rows) /\ rows \in Seq(Rows)
    BY <2>1, TimesType DEF TurnInv, Rows
  <2> HIDE DEF n
  <2>4. Count(rows', "host") = Count(rows, "host") + n
    BY <2>1, <2>2, <2>3, CountConcat, CountTimes
  <2>5. Count(inbox', "Inject") = 0 BY <2>2, CountNone
  <2>6. Count(rows, "host") + n + lanes["Steer"] + lanes["Followup"] = sent
    BY DEF HostMessagesKept, n
  <2>7. QED BY <2>1, <2>4, <2>5, <2>6, HeldType DEF HostMessagesKept
<1>3. QED BY <1>1, <1>2

\* Taking a lane moves messages to the transcript.
LEMMA KeptLane ==
    ASSUME HostMessagesKept, TurnInv, Shape, NEW l \in Lanes, TakeLane(l), exit = "none",
           UNCHANGED <<inbox, sent>>
    PROVE  HostMessagesKept'
<1>1. lanes \in [Lanes -> Nat] BY DEF Shape, HostType
<1>2. PICK n \in {1, lanes[l]} : /\ lanes[l] > 0
                                 /\ rows' = rows \o Times("host", n)
                                 /\ lanes' = [lanes EXCEPT ![l] = lanes[l] - n]
  BY DEF TakeLane
<1>3. n \in Nat BY <1>1, <1>2
<1>4. Times("host", n) \in Seq(Rows) /\ rows \in Seq(Rows) BY <1>3, TimesType DEF TurnInv, Rows
<1>5. Count(rows', "host") = Count(rows, "host") + n
  BY <1>2, <1>3, <1>4, CountConcat, CountTimes
<1>6. lanes'["Steer"] + lanes'["Followup"] = lanes["Steer"] + lanes["Followup"] - n
  <2>1. "Steer" \in Lanes /\ "Followup" \in Lanes BY DEF Lanes
  <2>2. CASE l = "Steer" BY <1>1, <1>2, <1>3, <2>1, <2>2
  <2>3. CASE l = "Followup" BY <1>1, <1>2, <1>3, <2>1, <2>3
  <2>4. QED BY <2>2, <2>3 DEF Lanes
<1>7. lanes'["Steer"] \in Int /\ lanes'["Followup"] \in Int
  BY <1>1, <1>2, <1>3 DEF Lanes
<1>8. Count(rows, "host") + Count(inbox, "Inject") + lanes["Steer"] + lanes["Followup"] = sent
  BY DEF HostMessagesKept
<1>9. Count(rows', "host") + Count(inbox, "Inject") + lanes'["Steer"] + lanes'["Followup"] = sent
  BY <1>3, <1>5, <1>6, <1>7, <1>8, HeldType
<1>10. QED BY <1>9 DEF HostMessagesKept

LEMMA KeptCheckpoint ==
    ASSUME HostMessagesKept, TurnInv, NEW onward, Checkpoint(onward) \/ StopRun, exit = "none",
           UNCHANGED hostVars
    PROVE  HostMessagesKept'
<1>1. Added(rows', {"tool"}) BY CheckpointAdds, StopRunAdds
<1>2. QED BY <1>1, KeptAdded

\* The row that is popped is the reply's, not a message of the host.
LEMMA KeptPopped ==
    ASSUME HostMessagesKept, TurnInv, Shape, pc = "reply", NEW nudge \in Seq({"user"}),
           rows' = Front(rows) \o nudge, UNCHANGED hostVars, exit = "none"
    PROVE  HostMessagesKept'
<1>1. rows \in Seq(Rows) /\ Len(rows) >= 1 BY DEF TurnInv
<1>2. Last(rows) # "host"
  <2>1. reply \in AllReplies /\ Last(rows) = RowOf(reply) BY DEF Shape, ReplyInv
  <2>2. RowOf(reply) \in {"text", "structured", "calls", "both"}
    BY <2>1, RowOfType DEF AllReplies
  <2>3. QED BY <2>1, <2>2
<1>3. Count(rows', "host") = Count(rows, "host") BY <1>1, <1>2, CountPopped
<1>4. QED BY <1>3, KeptSame

LEMMA KeptAskAgain ==
    ASSUME HostMessagesKept, TurnInv, Shape, pc = "reply", exit = "none",
           NEW nudge \in Seq({"user"}), AskAgain(nudge)
    PROVE  HostMessagesKept'
  BY KeptPopped DEF AskAgain

LEMMA KeptPopAndFail ==
    ASSUME PopAndFail
    PROVE  HostMessagesKept'
  BY DEF PopAndFail, Leave, HostMessagesKept

LEMMA KeptUserRow ==
    ASSUME HostMessagesKept, TurnInv, exit = "none", UNCHANGED hostVars,
           rows' = rows \/ rows' = Append(rows, "user") \/ rows' = Append(rows, "tool")
    PROVE  HostMessagesKept'
<1>1. rows \in Seq(Rows) /\ "user" \in Rows /\ "tool" \in Rows BY DEF TurnInv, Rows
<1>2. CASE rows' = rows BY <1>2, KeptStill
<1>3. CASE rows' = Append(rows, "user")
  <2>1. Added(rows', {"user"}) BY <1>1, <1>3, AddOne
  <2>2. QED BY <2>1, KeptAdded
<1>4. CASE rows' = Append(rows, "tool")
  <2>1. Added(rows', {"tool"}) BY <1>1, <1>4, AddOne
  <2>2. QED BY <2>1, KeptAdded
<1>5. QED BY <1>2, <1>3, <1>4

LEMMA KeptBeforeCall ==
    ASSUME HostMessagesKept, TurnInv, Shape, exit = "none", BeforeCall
    PROVE  HostMessagesKept'
<1>0. rows \in Seq(Rows) /\ "system" \in Rows BY DEF TurnInv, Rows
<1>1. CASE Begin BY <1>1, KeptStill DEF Begin
<1>2. CASE Steer BY <1>2, KeptSteering DEF Steer
<1>3. CASE CheckTop BY <1>3, KeptCheckpoint DEF CheckTop
<1>4. CASE CountCall BY <1>4, KeptStill DEF CountCall
<1>5. CASE PrepareRequest
  <2>0. UNCHANGED <<hostVars, exit>> BY <1>5 DEF PrepareRequest, ended
  <2>1. CASE UNCHANGED rows BY <2>0, <2>1, KeptStill
  <2>2. CASE rows' = Append(rows, "system")
    <3>1. Added(rows', {"system"}) BY <1>0, <2>2, AddOne
    <3>2. QED BY <2>0, <3>1, KeptAdded
  <2>3. CASE rows' = <<"system">> \o rows
    <3>1. <<"system">> \in Seq(Rows) BY <1>0
    <3>2. Count(<<"system">>, "host") = 0
      <4>1. \A i \in DOMAIN <<"system">> : <<"system">>[i] # "host" OBVIOUS
      <4>2. QED BY <4>1, CountNone
    <3>3. Count(rows', "host") = 0 + Count(rows, "host")
      BY <1>0, <2>3, <3>1, <3>2, CountConcat
    <3>4. QED BY <2>0, <3>3, KeptSame, HeldType
  <2>4. QED BY <1>5, <2>1, <2>2, <2>3 DEF PrepareRequest
<1>6. CASE CheckBeforeDispatch BY <1>6, KeptCheckpoint DEF CheckBeforeDispatch
<1>7. CASE Dispatch BY <1>7, KeptStill DEF Dispatch
<1>8. QED BY <1>1, <1>2, <1>3, <1>4, <1>5, <1>6, <1>7 DEF BeforeCall

LEMMA KeptModelCall ==
    ASSUME HostMessagesKept, TurnInv, Shape, exit = "none", ModelCall
    PROVE  HostMessagesKept'
<1>1. ASSUME NEW r \in Replies, ReceiveReply(r) PROVE HostMessagesKept'
  <2>1. RowOf(r) \in AssistantRows
    BY RowOfType DEF Replies, AssistantRows
  <2>2. RowOf(r) \in Rows /\ "host" \notin {RowOf(r)} BY <2>1 DEF Rows, AssistantRows
  <2>3. Added(rows', {RowOf(r)}) BY <1>1, <2>2, AddOne DEF ReceiveReply, TurnInv
  <2>4. QED BY <1>1, <2>2, <2>3, KeptAdded DEF ReceiveReply
<1>2. CASE ModelFails BY <1>2, KeptStill DEF ModelFails
<1>3. CASE CheckReply BY <1>3, KeptCheckpoint DEF CheckReply
<1>4. QED BY <1>1, <1>2, <1>3 DEF ModelCall

LEMMA KeptReply ==
    ASSUME HostMessagesKept, TurnInv, Shape, exit = "none", Recover \/ Resolve
    PROVE  HostMessagesKept'
<1> USE Nudges
<1>0. ASSUME NEW kinds, TakenAs(kinds) PROVE HostMessagesKept' BY <1>0, KeptStill DEF TakenAs
<1>1. CASE RecoverWithheld BY <1>0, <1>1, KeptAskAgain DEF RecoverWithheld
<1>2. CASE RetryDead BY <1>2, KeptAskAgain DEF RetryDead
<1>3. CASE NudgeDead BY <1>3, KeptAskAgain DEF NudgeDead
<1>4. CASE GiveUpDead BY <1>0, <1>4, KeptPopAndFail DEF GiveUpDead
<1>5. CASE RecoverEmpty BY <1>0, <1>5, KeptAskAgain DEF RecoverEmpty
<1>6. CASE RecoverDropped
  <2>1. CASE TakenAs({"final", "blank", "badText", "continue"}) BY <1>0, <2>1
  <2>2. CASE ~TakenAs({"final", "blank", "badText", "continue"})
    BY <1>6, <2>2, KeptUserRow DEF RecoverDropped
  <2>3. QED BY <2>1, <2>2
<1>7. CASE ContinueTurn BY <1>7, KeptUserRow DEF ContinueTurn
<1>8. CASE RejectOutput BY <1>8, KeptUserRow DEF RejectOutput
<1>9. CASE AcceptReply BY <1>9, KeptStill DEF AcceptReply
<1>10. CASE RefuseBlank BY <1>10, KeptPopAndFail DEF RefuseBlank
<1>11. QED BY <1>1, <1>2, <1>3, <1>4, <1>5, <1>6, <1>7, <1>8, <1>9, <1>10 DEF Recover, Resolve

LEMMA KeptWithCalls ==
    ASSUME HostMessagesKept, TurnInv, Shape, exit = "none", WithCalls
    PROVE  HostMessagesKept'
<1>0. rows \in Seq(Rows) /\ "tool" \in Rows /\ "user" \in Rows BY DEF TurnInv, Rows
<1>1. ASSUME NEW t \in Tools, FailCut(t) PROVE HostMessagesKept'
  BY <1>1, KeptPopAndFail DEF FailCut
<1>2. ASSUME NEW t \in Tools, RefuseCut(t) PROVE HostMessagesKept'
  <2>1. UNCHANGED hostVars BY <1>2 DEF RefuseCut
  <2>2. CASE RefusedAs(rows')
    <3>1. Added(rows', {"tool", "user"}) BY <2>2, RefusedAdds
    <3>2. QED BY <2>1, <3>1, KeptAdded
  <2>3. CASE UNCHANGED rows BY <2>1, <2>3, KeptStill
  <2>4. QED BY <1>2, <2>2, <2>3, RefusedForm DEF RefuseCut
<1>3. CASE StartTools BY <1>3, KeptStill DEF StartTools
<1>4. CASE FinishEarly
  <2>1. Added(rows', {"tool", "tool"}) BY <1>0, <1>4, AddTwo DEF FinishEarly
  <2>2. QED BY <1>4, <2>1, KeptAdded DEF FinishEarly
<1>5. CASE FinishGracefully BY <1>5, KeptUserRow DEF FinishGracefully
<1>6. CASE GoOn BY <1>6, KeptUserRow DEF GoOn
<1>7. CASE ChildRuns BY <1>7, KeptStill DEF ChildRuns
<1>8. CASE ToolsReturn
  <2>1. rows' = Append(rows, "tool") \o <<>> \/ rows' = Append(rows, "tool") \o <<"user">>
    BY <1>8 DEF ToolsReturn
  <2>2. rows' = Append(rows, "tool") \/ rows' = rows \o <<"tool", "user">>
    BY <1>0, <2>1, AddTwo
  <2>3. CASE rows' = Append(rows, "tool") BY <1>8, <2>3, KeptUserRow DEF ToolsReturn
  <2>4. CASE rows' = rows \o <<"tool", "user">>
    <3>1. Added(rows', {"tool", "user"}) BY <1>0, <2>4, AddTwo
    <3>2. QED BY <1>8, <3>1, KeptAdded DEF ToolsReturn
  <2>5. QED BY <2>2, <2>3, <2>4
<1>9. CASE ToolsDefer BY <1>9, KeptStill DEF ToolsDefer
<1>10. CASE ApplySteerLane
  <2>1. CASE TakeLane("Steer") BY <1>10, <2>1, KeptLane DEF ApplySteerLane, Lanes
  <2>2. CASE UNCHANGED <<rows, lanes>> BY <1>10, <2>2, KeptStill DEF ApplySteerLane, hostVars
  <2>3. QED BY <1>10, <2>1, <2>2 DEF ApplySteerLane
<1>11. CASE CheckBoundary BY <1>11, KeptCheckpoint DEF CheckBoundary
<1>12. CASE FinishGraceful
  <2>1. CASE StopRun BY <1>12, <2>1, KeptCheckpoint DEF FinishGraceful
  <2>2. CASE ~StopRun BY <1>12, <2>2, KeptStill DEF FinishGraceful
  <2>3. QED BY <2>1, <2>2
<1>13. QED BY <1>1, <1>2, <1>3, <1>4, <1>5, <1>6, <1>7, <1>8, <1>9, <1>10, <1>11, <1>12
       DEF WithCalls

LEMMA KeptSettleLane ==
    ASSUME HostMessagesKept, TurnInv, Shape, exit = "none", NEW at, NEW l \in Lanes, NEW onward,
           SettleLane(at, l, onward)
    PROVE  HostMessagesKept'
<1>1. CASE TakeLane(l) BY <1>1, KeptLane DEF SettleLane
<1>2. CASE ~TakeLane(l) BY <1>2, KeptStill DEF SettleLane, hostVars
<1>3. QED BY <1>1, <1>2

LEMMA KeptEnding ==
    ASSUME HostMessagesKept, TurnInv, Shape, EndInv, Ending
    PROVE  HostMessagesKept'
<1>1. CASE Conclude
  <2>1. UNCHANGED hostVars BY <1>1 DEF Conclude
  <2>2. CASE exit' = "error" BY <2>2 DEF HostMessagesKept
  <2>3. CASE exit' = exit /\ rows' = rows BY <2>1, <2>3, KeptStill
  <2>4. CASE exit' = exit /\ rows' = Append(rows, "user")
    <3>1. Added(rows', {"user"}) BY <2>4, AddOne DEF TurnInv, Rows
    <3>2. QED BY <2>1, <2>4, <3>1, KeptAdded
  <2>5. QED BY <1>1, <2>2, <2>3, <2>4 DEF Conclude
<1>2. CASE Settle \/ SettleSteers \/ SettleFollowups \/ StepFails
  <2>0. exit = "none"
    BY <1>2 DEF EndInv, Settle, SettleSteers, SettleFollowups, SettleLane, StepFails
  <2>1. CASE Settle BY <2>0, <2>1, KeptSteering DEF Settle
  <2>2. CASE SettleSteers BY <2>0, <2>2, KeptSettleLane DEF SettleSteers, Lanes
  <2>3. CASE SettleFollowups BY <2>0, <2>3, KeptSettleLane DEF SettleFollowups, Lanes
  <2>4. CASE StepFails BY <2>4 DEF StepFails, Leave, HostMessagesKept
  <2>5. QED BY <1>2, <2>1, <2>2, <2>3, <2>4
<1>3. QED BY <1>1, <1>2 DEF Ending

LEMMA KeptHost ==
    ASSUME HostMessagesKept, TurnInv, Shape, EndInv, Host
    PROVE  HostMessagesKept'
<1>0. exit = "none" BY DEF Host, SendCommands, Enqueue, Looks, EndInv
<1>1. Count(rows, "host") + Count(inbox, "Inject") + lanes["Steer"] + lanes["Followup"] = sent
  BY <1>0 DEF HostMessagesKept
<1>2. ASSUME NEW n \in 1..MaxBatch, NEW batch \in [1..n -> Commands], SendCommands(batch)
      PROVE  HostMessagesKept'
  <2>1. batch \in Seq(Commands) BY <1>2, EventsAssumption, SeqDef
  <2>2. Count(inbox', "Inject") = Count(inbox, "Inject") + Count(batch, "Inject")
    BY <1>2, <2>1, CountConcat DEF SendCommands, Shape, HostType
  <2>3. Count(batch, "Inject") \in Nat BY <2>1, CountType
  <2>4. sent' = sent + Count(batch, "Inject") /\ UNCHANGED <<rows, lanes, exit>>
    BY <1>2 DEF SendCommands, ended
  <2>5. QED BY <1>1, <2>2, <2>3, <2>4, HeldType DEF HostMessagesKept
<1>3. ASSUME NEW n \in 1..MaxBatch, NEW l \in Lanes, Enqueue(l, n) PROVE HostMessagesKept'
  <2>1. lanes' = [lanes EXCEPT ![l] = lanes[l] + n] /\ sent' = sent + n
        /\ UNCHANGED <<rows, inbox, exit>>
    BY <1>3 DEF Enqueue, ended
  <2>2. n \in Nat /\ lanes \in [Lanes -> Nat] /\ "Steer" \in Lanes /\ "Followup" \in Lanes
    BY EventsAssumption DEF Shape, HostType, Lanes
  <2>3. lanes'["Steer"] + lanes'["Followup"] = lanes["Steer"] + lanes["Followup"] + n
    <3>1. CASE l = "Steer" BY <2>1, <2>2, <3>1
    <3>2. CASE l = "Followup" BY <2>1, <2>2, <3>2
    <3>3. QED BY <3>1, <3>2 DEF Lanes
  <2>4. lanes'["Steer"] \in Nat /\ lanes'["Followup"] \in Nat BY <2>1, <2>2
  <2>5. Count(rows, "host") + Count(inbox, "Inject") + lanes'["Steer"] + lanes'["Followup"]
            = sent + n
    BY <1>1, <2>2, <2>3, <2>4, HeldType
  <2>6. QED BY <2>1, <2>5 DEF HostMessagesKept
<1>4. QED BY <1>2, <1>3 DEF Host

LEMMA KeptStep ==
    ASSUME HostMessagesKept, TurnInv, Shape, EndInv, [Next]_vars
    PROVE  HostMessagesKept'
<1>1. CASE UNCHANGED vars BY <1>1 DEF vars, HostMessagesKept
<1>2. CASE Ending BY <1>2, KeptEnding
<1>3. CASE Host BY <1>3, KeptHost
<1>4. CASE BeforeCall \/ ModelCall \/ Recover \/ Resolve \/ WithCalls
  <2>1. exit = "none"
    <3>1. pc \notin {"exit", "done"}
      <4>1. CASE BeforeCall
        BY <4>1 DEF BeforeCall, Begin, Steer, CheckTop, CountCall, PrepareRequest,
           CheckBeforeDispatch, Dispatch
      <4>2. CASE ModelCall BY <4>2 DEF ModelCall, ReceiveReply, ModelFails, CheckReply
      <4>3. CASE Recover
        BY <4>3 DEF Recover, RecoverWithheld, RetryDead, NudgeDead, GiveUpDead, RecoverEmpty,
           RecoverDropped
      <4>4. CASE Resolve
        BY <4>4 DEF Resolve, ContinueTurn, RejectOutput, AcceptReply, RefuseBlank
      <4>5. CASE WithCalls
        BY <4>5 DEF WithCalls, FailCut, RefuseCut, StartTools, FinishEarly, FinishGracefully,
           GoOn, Mixed, ChildRuns, ToolsReturn, ToolsDefer, ApplySteerLane, CheckBoundary,
           FinishGraceful
      <4>6. QED BY <1>4, <4>1, <4>2, <4>3, <4>4, <4>5
    <3>2. QED BY <3>1 DEF EndInv
  <2>2. QED BY <1>4, <2>1, KeptBeforeCall, KeptModelCall, KeptReply, KeptWithCalls
<1>5. QED BY <1>1, <1>2, <1>3, <1>4 DEF Next, Loop

\* No message of the host is lost or applied twice: each is in the inbox, in
\* its lane or on the transcript, for any number of them and whatever replies
\* are popped meanwhile.
THEOREM HostMessagesKeptHolds == Spec => []HostMessagesKept
<1>1. Init => HostMessagesKept
  <2> SUFFICES ASSUME Init PROVE HostMessagesKept OBVIOUS
  <2>1. rows = Times("user", 1) /\ inbox = <<>> /\ lanes = [l \in Lanes |-> 0] /\ sent = 0
    BY DEF Init, SeedLen
  <2>2. Count(rows, "host") = 0
    <3>1. \A i \in DOMAIN rows : rows[i] # "host" BY <2>1 DEF Times
    <3>2. QED BY <3>1, CountNone
  <2>3. Count(inbox, "Inject") = 0 BY <2>1, CountNone
  <2>4. QED BY <2>1, <2>2, <2>3 DEF HostMessagesKept, Lanes
<1>2. Init => EndInv
  BY DEF Init, EndInv, ExitIsEarned, DiscardedIsReplaced, FinalIsCurrent
<1>3. EndInv /\ [Next]_vars => EndInv' BY EndStep
<1>4. HostMessagesKept /\ TurnInv /\ Shape /\ EndInv /\ [Next]_vars => HostMessagesKept'
  BY KeptStep
<1>5. QED BY <1>1, <1>2, <1>3, <1>4, ShapeHolds, PTL DEF Spec

-----------------------------------------------------------------------------
(* Calls and their answers.                                                *)

\* AnswersTo, on any transcript.
Answers(s, k) ==
    {j \in DOMAIN s : /\ j > k
                      /\ s[j] = "tool"
                      /\ \A i \in (k + 1)..j : s[i] \notin AssistantRows}

\* Row k has its answers.
Settled(s, k) ==
    LET n == Cardinality(Answers(s, k))
    IN  n = CallsOf(s[k]) \/ (s[k] = "structured" /\ n = 0)

Complete(s) == \A k \in DOMAIN s : s[k] \in AssistantRows => Settled(s, k)

Silent == {"user", "host", "system"}

\* Rows that neither call nor answer leave a transcript complete.
LEMMA CompleteMore ==
    ASSUME NEW s \in Seq(Rows), NEW t \in Seq(Rows), Len(t) >= Len(s),
           \A i \in 1..Len(s) : t[i] = s[i],
           \A i \in (Len(s) + 1)..Len(t) : t[i] \in Silent,
           Complete(s)
    PROVE  Complete(t)
<1>1. Len(s) \in Nat /\ Len(t) \in Nat /\ DOMAIN s = 1..Len(s) /\ DOMAIN t = 1..Len(t)
  OBVIOUS
<1>2. "tool" \notin Silent /\ \A x \in Silent : x \notin AssistantRows
  BY DEF Silent, AssistantRows
<1>3. ASSUME NEW k \in DOMAIN t, t[k] \in AssistantRows PROVE Settled(t, k)
  <2>1. k \in 1..Len(s)
    <3>1. k \notin (Len(s) + 1)..Len(t) BY <1>2, <1>3
    <3>2. QED BY <1>1, <3>1
  <2>2. t[k] = s[k] /\ Settled(s, k) BY <1>1, <1>3, <2>1 DEF Complete
  <2>3. Answers(t, k) = Answers(s, k)
    <3>1. ASSUME NEW j \in Answers(t, k) PROVE j \in Answers(s, k)
      <4>1. j \in 1..Len(t) /\ j > k /\ t[j] = "tool"
            /\ \A i \in (k + 1)..j : t[i] \notin AssistantRows
        BY <1>1, <3>1 DEF Answers
      <4>2. j \notin (Len(s) + 1)..Len(t) BY <1>2, <4>1
      <4>3. j \in 1..Len(s) BY <1>1, <4>1, <4>2
      <4>4. \A i \in (k + 1)..j : i \in 1..Len(s) BY <1>1, <2>1, <4>3
      <4>5. QED BY <1>1, <4>1, <4>3, <4>4 DEF Answers
    <3>2. ASSUME NEW j \in Answers(s, k) PROVE j \in Answers(t, k)
      <4>1. j \in 1..Len(s) /\ j > k /\ s[j] = "tool"
            /\ \A i \in (k + 1)..j : s[i] \notin AssistantRows
        BY <1>1, <3>2 DEF Answers
      <4>2. \A i \in (k + 1)..j : i \in 1..Len(s) BY <1>1, <2>1, <4>1
      <4>3. j \in 1..Len(t) BY <1>1, <4>1
      <4>4. QED BY <1>1, <4>1, <4>2, <4>3 DEF Answers
    <3>3. QED BY <3>1, <3>2
  <2>4. QED BY <2>2, <2>3 DEF Settled
<1>4. QED BY <1>3 DEF Complete

\* A reply whose calls are answered at once completes a complete transcript.
LEMMA CompleteReply ==
    ASSUME NEW f \in Seq(Rows), NEW t \in Seq(Rows), NEW p \in Nat, NEW n \in Nat,
           p = Len(f) + 1, Len(t) >= p + n,
           \A i \in 1..Len(f) : t[i] = f[i],
           t[p] \in AssistantRows,
           n = CallsOf(t[p]) \/ (t[p] = "structured" /\ n = 0),
           \A i \in (p + 1)..(p + n) : t[i] = "tool",
           \A i \in (p + n + 1)..Len(t) : t[i] \in Silent,
           Complete(f)
    PROVE  Complete(t)
<1>1. Len(f) \in Nat /\ Len(t) \in Nat /\ DOMAIN f = 1..Len(f) /\ DOMAIN t = 1..Len(t)
  OBVIOUS
<1>2. "tool" \notin Silent /\ "tool" \notin AssistantRows /\ \A x \in Silent : x \notin AssistantRows
  BY DEF Silent, AssistantRows
<1>3. \A i \in (p + 1)..Len(t) : t[i] \notin AssistantRows
  <2> TAKE i \in (p + 1)..Len(t)
  <2>1. CASE i \in (p + 1)..(p + n) BY <1>2, <2>1
  <2>2. CASE i \in (p + n + 1)..Len(t) BY <1>2, <2>2
  <2>3. QED BY <1>1, <2>1, <2>2
<1>4. ASSUME NEW k \in DOMAIN t, t[k] \in AssistantRows PROVE Settled(t, k)
  <2>1. CASE k = p
    <3>1. Answers(t, k) = (p + 1)..(p + n)
      <4>1. ASSUME NEW j \in Answers(t, k) PROVE j \in (p + 1)..(p + n)
        <5>1. j \in 1..Len(t) /\ j > p /\ t[j] = "tool" BY <1>1, <2>1, <4>1 DEF Answers
        <5>2. j \notin (p + n + 1)..Len(t) BY <1>2, <5>1
        <5>3. QED BY <1>1, <5>1, <5>2
      <4>2. ASSUME NEW j \in (p + 1)..(p + n) PROVE j \in Answers(t, k)
        <5>1. t[j] = "tool" /\ j \in 1..Len(t) /\ j > k BY <1>1, <2>1
        <5>2. \A i \in (k + 1)..j : i \in (p + 1)..Len(t) BY <1>1, <2>1, <5>1
        <5>3. QED BY <1>1, <1>3, <5>1, <5>2 DEF Answers
      <4>3. QED BY <4>1, <4>2
    <3>2. Cardinality((p + 1)..(p + n)) = n
      <4>1. p + 1 \in Int /\ p + n \in Int OBVIOUS
      <4>2. Cardinality((p + 1)..(p + n))
                = IF p + 1 > p + n THEN 0 ELSE (p + n) - (p + 1) + 1
        BY <4>1, FS_Interval
      <4>3. QED BY <4>2
    <3>3. QED BY <2>1, <3>1, <3>2 DEF Settled
  <2>2. CASE k # p
    <3>1. k \in 1..Len(f)
      <4>1. k \notin (p + 1)..Len(t) BY <1>3, <1>4
      <4>2. QED BY <1>1, <2>2, <4>1
    <3>2. t[k] = f[k] /\ Settled(f, k) BY <1>1, <1>4, <3>1 DEF Complete
    <3>3. Answers(t, k) = Answers(f, k)
      <4>1. ASSUME NEW j \in Answers(t, k) PROVE j \in Answers(f, k)
        <5>1. j \in 1..Len(t) /\ j > k /\ t[j] = "tool"
              /\ \A i \in (k + 1)..j : t[i] \notin AssistantRows
          BY <1>1, <4>1 DEF Answers
        <5>2. p \notin (k + 1)..j BY <5>1
        <5>3. j \in 1..Len(f) BY <1>1, <3>1, <5>1, <5>2
        <5>4. \A i \in (k + 1)..j : i \in 1..Len(f) BY <1>1, <3>1, <5>3
        <5>5. QED BY <1>1, <5>1, <5>3, <5>4 DEF Answers
      <4>2. ASSUME NEW j \in Answers(f, k) PROVE j \in Answers(t, k)
        <5>1. j \in 1..Len(f) /\ j > k /\ f[j] = "tool"
              /\ \A i \in (k + 1)..j : f[i] \notin AssistantRows
          BY <1>1, <4>2 DEF Answers
        <5>2. \A i \in (k + 1)..j : i \in 1..Len(f) BY <1>1, <3>1, <5>1
        <5>3. j \in 1..Len(t) BY <1>1, <5>1
        <5>4. QED BY <1>1, <5>1, <5>2, <5>3 DEF Answers
      <4>3. QED BY <4>1, <4>2
    <3>4. QED BY <3>2, <3>3 DEF Settled
  <2>3. QED BY <2>1, <2>2
<1>5. QED BY <1>4 DEF Complete

\* What stands before a last assistant row was complete without it.
LEMMA CompleteFront ==
    ASSUME NEW s \in Seq(Rows), Len(s) >= 1, Last(s) \in AssistantRows, Complete(s)
    PROVE  Complete(Front(s)) /\ (CallsOf(Last(s)) # 0 => Last(s) = "structured")
<1> DEFINE f == Front(s)
<1>1. f \in Seq(Rows) /\ Len(f) = Len(s) - 1 /\ \A i \in 1..(Len(s) - 1) : f[i] = s[i]
  BY PopType
<1> HIDE DEF f
<1>2. /\ Len(s) \in Nat /\ Len(f) \in Nat /\ DOMAIN s = 1..Len(s) /\ DOMAIN f = 1..Len(f)
      /\ s[Len(s)] \in AssistantRows
  BY <1>1 DEF Last
<1>3. ASSUME NEW k \in DOMAIN f, f[k] \in AssistantRows PROVE Settled(f, k)
  <2>1. k \in 1..Len(f) /\ k \in 1..Len(s) /\ f[k] = s[k] BY <1>1, <1>2
  <2>2. Settled(s, k) BY <1>2, <1>3, <2>1 DEF Complete
  <2>3. Answers(s, k) = Answers(f, k)
    <3>1. ASSUME NEW j \in Answers(s, k) PROVE j \in Answers(f, k)
      <4>1. j \in 1..Len(s) /\ j > k /\ s[j] = "tool"
            /\ \A i \in (k + 1)..j : s[i] \notin AssistantRows
        BY <1>2, <3>1 DEF Answers
      <4>2. Len(s) \notin (k + 1)..j BY <1>2, <4>1
      <4>3. j \in 1..Len(f) BY <1>1, <1>2, <2>1, <4>1, <4>2
      <4>4. \A i \in (k + 1)..j : i \in 1..(Len(s) - 1) BY <1>1, <1>2, <2>1, <4>3
      <4>5. QED BY <1>1, <1>2, <4>1, <4>3, <4>4 DEF Answers
    <3>2. ASSUME NEW j \in Answers(f, k) PROVE j \in Answers(s, k)
      <4>1. j \in 1..Len(f) /\ j > k /\ f[j] = "tool"
            /\ \A i \in (k + 1)..j : f[i] \notin AssistantRows
        BY <1>2, <3>2 DEF Answers
      <4>2. \A i \in (k + 1)..j : i \in 1..(Len(s) - 1) BY <1>1, <1>2, <2>1, <4>1
      <4>3. j \in 1..Len(s) BY <1>1, <1>2, <4>1
      <4>4. QED BY <1>1, <1>2, <4>1, <4>2, <4>3 DEF Answers
    <3>3. QED BY <3>1, <3>2
  <2>4. QED BY <2>1, <2>2, <2>3 DEF Settled
<1>4. CallsOf(Last(s)) # 0 => Last(s) = "structured"
  <2>1. Settled(s, Len(s)) BY <1>2 DEF Complete
  <2>2. Answers(s, Len(s)) = {} BY <1>2 DEF Answers
  <2>3. QED BY <2>1, <2>2, FS_EmptySet DEF Settled, Last
<1>5. QED BY <1>3, <1>4 DEF Complete, f

\* A leading system row moves every row by one.
LEMMA CompletePrepend ==
    ASSUME NEW s \in Seq(Rows), Complete(s)
    PROVE  Complete(<<"system">> \o s)
<1> DEFINE t == <<"system">> \o s
<1>1. /\ t \in Seq(Rows) /\ Len(t) = Len(s) + 1 /\ t[1] = "system"
      /\ \A i \in 1..Len(s) : t[i + 1] = s[i]
  BY Prepend
<1> HIDE DEF t
<1>2. Len(s) \in Nat /\ Len(t) \in Nat /\ DOMAIN s = 1..Len(s) /\ DOMAIN t = 1..Len(t)
  BY <1>1
<1>3. "system" \notin AssistantRows BY DEF AssistantRows
<1>4. \A i \in 2..Len(t) : i - 1 \in 1..Len(s) /\ t[i] = s[i - 1]
  <2> TAKE i \in 2..Len(t)
  <2>1. i - 1 \in 1..Len(s) /\ (i - 1) + 1 = i BY <1>1, <1>2
  <2>2. QED BY <1>1, <2>1
<1>5. ASSUME NEW m \in DOMAIN t, t[m] \in AssistantRows PROVE Settled(t, m)
  <2>1. m \in 2..Len(t) BY <1>1, <1>2, <1>3, <1>5
  <2> DEFINE k == m - 1
  <2>2. k \in 1..Len(s) /\ m = k + 1 /\ t[m] = s[k] BY <1>2, <1>4, <2>1
  <2> HIDE DEF k
  <2>3. Settled(s, k) BY <1>2, <1>5, <2>2 DEF Complete
  <2> DEFINE A == Answers(s, k)
             B == Answers(t, m)
  <2>4. A \in SUBSET (1..Len(s)) BY <1>2 DEF Answers
  <2>5. A \in SUBSET Nat BY <2>4
  <2>6. IsFiniteSet(A)
    <3>1. IsFiniteSet(1..Len(s)) BY <1>2, FS_Interval
    <3>2. QED BY <2>4, <3>1, FS_Subset
  <2>7. ASSUME NEW j PROVE j \in B <=> \E a \in A : j = a + 1
    <3>1. ASSUME j \in B PROVE \E a \in A : j = a + 1
      <4>1. j \in 1..Len(t) /\ j > m /\ t[j] = "tool"
            /\ \A i \in (m + 1)..j : t[i] \notin AssistantRows
        BY <1>2, <3>1 DEF Answers
      <4>2. j \in 2..Len(t) BY <1>2, <2>1, <4>1
      <4>3. j - 1 \in 1..Len(s) /\ s[j - 1] = "tool" /\ j - 1 > k BY <1>4, <2>2, <4>1, <4>2
      <4>4. ASSUME NEW i \in (k + 1)..(j - 1) PROVE s[i] \notin AssistantRows
        <5>1. i + 1 \in (m + 1)..j /\ i \in 1..Len(s) BY <1>2, <2>2, <4>2, <4>3
        <5>2. QED BY <1>1, <4>1, <5>1
      <4>5. j - 1 \in A BY <1>2, <4>3, <4>4 DEF Answers
      <4>6. j = (j - 1) + 1 BY <4>2
      <4>7. QED BY <4>5, <4>6
    <3>2. ASSUME NEW a \in A, j = a + 1 PROVE j \in B
      <4>1. a \in 1..Len(s) /\ a > k /\ s[a] = "tool"
            /\ \A i \in (k + 1)..a : s[i] \notin AssistantRows
        BY <1>2, <3>2 DEF Answers
      <4>2. j \in 1..Len(t) /\ j > m /\ t[j] = "tool" BY <1>1, <1>2, <2>2, <3>2, <4>1
      <4>3. ASSUME NEW i \in (m + 1)..j PROVE t[i] \notin AssistantRows
        <5>1. i - 1 \in (k + 1)..a /\ i \in 2..Len(t) BY <1>1, <1>2, <2>2, <3>2, <4>1
        <5>2. QED BY <1>4, <4>1, <5>1
      <4>4. QED BY <1>2, <4>2, <4>3 DEF Answers
    <3>3. QED BY <3>1, <3>2
  <2> HIDE DEF A, B
  <2>8. Cardinality(B) = Cardinality(A) BY <2>5, <2>6, <2>7, Shifted
  <2>9. QED BY <2>2, <2>3, <2>8 DEF Settled, A, B
<1>6. QED BY <1>5 DEF Complete, t

\* Outside the phases in which a reply is in hand every call has its answers;
\* within them, all that stands before the reply is complete.
CallInv ==
    /\ pc \notin ReplyPhases \cup {"exit", "done"} => Complete(rows)
    /\ pc \in {"replied", "reply", "mixed"} => Complete(Front(rows))
    /\ pc \in {"tools", "child"} =>
          IF reply \in CallReplies THEN Complete(Front(rows)) ELSE Complete(Front(Front(rows)))

\* The forms in which the steps use it.
LEMMA CallsLeft ==
    ASSUME pc' \in {"exit", "done"}
    PROVE  CallInv'
  BY DEF CallInv, ReplyPhases

LEMMA CallsComplete ==
    ASSUME pc' \notin ReplyPhases, Complete(rows')
    PROVE  CallInv'
  BY DEF CallInv, ReplyPhases

LEMMA CallsSilent ==
    ASSUME TurnInv, Complete(rows), NEW kinds \in SUBSET Silent, Added(rows', kinds),
           pc' \notin ReplyPhases
    PROVE  CallInv'
<1>1. \A i \in (Len(rows) + 1)..Len(rows') : rows'[i] \in Silent BY DEF Added
<1>2. Complete(rows') BY <1>1, CompleteMore DEF Added, TurnInv
<1>3. QED BY <1>2, CallsComplete

LEMMA CallsStill ==
    ASSUME Complete(rows), UNCHANGED rows, pc' \notin ReplyPhases
    PROVE  CallInv'
  BY CallsComplete

\* The reply at the end of the transcript gets n answers, and what follows is
\* silent.
LEMMA CallsAnswered ==
    ASSUME TurnInv, Complete(Front(rows)), Last(rows) \in AssistantRows, NEW r, Added(r, Rows),
           NEW n \in Nat, n = CallsOf(Last(rows)) \/ (Last(rows) = "structured" /\ n = 0),
           Len(r) >= Len(rows) + n,
           \A i \in (Len(rows) + 1)..(Len(rows) + n) : r[i] = "tool",
           \A i \in (Len(rows) + n + 1)..Len(r) : r[i] \in Silent
    PROVE  Complete(r)
<1> DEFINE f == Front(rows)
           p == Len(rows)
<1>1. rows \in Seq(Rows) /\ p \in Nat /\ p >= 1 /\ r \in Seq(Rows) /\ Len(r) \in Nat
      /\ \A i \in 1..p : r[i] = rows[i]
  BY DEF TurnInv, Added
<1>2. f \in Seq(Rows) /\ Len(f) = p - 1 /\ \A i \in 1..(p - 1) : f[i] = rows[i]
  BY <1>1, PopType
<1>3. \A i \in (p + 1)..(p + n) : r[i] = "tool" OBVIOUS
<1>4. \A i \in (p + n + 1)..Len(r) : r[i] \in Silent OBVIOUS
<1>5. Complete(f) /\ rows[p] = Last(rows) /\ Len(r) >= p + n BY DEF Last
<1> HIDE DEF f, p
<1>6. p = Len(f) + 1 BY <1>1, <1>2
<1>7. r[p] = Last(rows) BY <1>1, <1>5
<1>8. \A i \in 1..Len(f) : r[i] = f[i] BY <1>1, <1>2
<1>9. r[p] \in AssistantRows /\ (n = CallsOf(r[p]) \/ (r[p] = "structured" /\ n = 0))
  BY <1>7
<1>10. r \in Seq(Rows) /\ p \in Nat /\ f \in Seq(Rows) /\ Complete(f) /\ Len(r) >= p + n
  BY <1>1, <1>2, <1>5
<1>11. QED BY <1>3, <1>4, <1>6, <1>8, <1>9, <1>10, CompleteReply

\* close_unanswered_tool_calls answers the calls of a reply that has none of
\* its answers.
LEMMA ClosedReply ==
    ASSUME TurnInv, Complete(Front(rows)), Last(rows) \in AssistantRows
    PROVE  Complete(CloseUnanswered(rows))
<1> DEFINE r == CloseUnanswered(rows)
           n == CallsOf(Last(rows))
<1>1. Added(r, {"tool"}) /\ Len(r) = Len(rows) + n /\ n \in Nat BY CloseAdds
<1> HIDE DEF r, n
<1>2. Len(rows) \in Nat BY DEF TurnInv
<1>3. Added(r, Rows) BY <1>1 DEF Added
<1>4. \A i \in (Len(rows) + 1)..(Len(rows) + n) : r[i] = "tool" BY <1>1 DEF Added
<1>5. \A i \in (Len(rows) + n + 1)..Len(r) : r[i] \in Silent BY <1>1, <1>2
<1>6. Len(r) >= Len(rows) + n BY <1>1, <1>2
<1>7. Complete(r) BY <1>1, <1>3, <1>4, <1>5, <1>6, CallsAnswered DEF n
<1>8. QED BY <1>7 DEF r

\* On a complete transcript it closes at most a structured-output call.
LEMMA ClosedComplete ==
    ASSUME TurnInv, Complete(rows)
    PROVE  Complete(CloseUnanswered(rows))
<1>1. CASE Last(rows) \in AssistantRows
  <2>1. Complete(Front(rows)) BY <1>1, CompleteFront DEF TurnInv
  <2>2. QED BY <1>1, <2>1, ClosedReply
<1>2. CASE Last(rows) \notin AssistantRows
  <2> DEFINE r == CloseUnanswered(rows)
  <2>1. CallsOf(Last(rows)) = 0 BY <1>2 DEF CallsOf, AssistantRows
  <2>2. Added(r, {"tool"}) /\ Len(r) = Len(rows) + CallsOf(Last(rows)) BY CloseAdds
  <2> HIDE DEF r
  <2>3. Len(rows) \in Nat /\ Len(r) = Len(rows) BY <2>1, <2>2 DEF TurnInv
  <2>4. \A i \in (Len(rows) + 1)..Len(r) : r[i] \in Silent BY <2>3
  <2>5. Complete(r) BY <2>2, <2>3, <2>4, CompleteMore DEF Added, TurnInv
  <2>6. QED BY <2>5 DEF r
<1>3. QED BY <1>1, <1>2

LEMMA CallsCheckpoint ==
    ASSUME TurnInv, Complete(rows), NEW onward, Checkpoint(onward), onward \notin ReplyPhases
    PROVE  CallInv'
<1>1. CASE pc' = "exit" BY <1>1, CallsLeft
<1>2. CASE pc' = onward /\ UNCHANGED rows BY <1>2, CallsStill
<1>3. CASE pc' = "top" /\ rows' = CloseUnanswered(rows)
  BY <1>3, ClosedComplete, CallsComplete DEF ReplyPhases
<1>4. QED BY <1>1, <1>2, <1>3 DEF Checkpoint, StopRun, Leave

LEMMA CallsSteering ==
    ASSUME TurnInv, Shape, Complete(rows), NEW onward, ApplySteering(onward),
           onward \notin ReplyPhases
    PROVE  CallInv'
<1>1. Added(rows', {"host"}) BY SteeringAdds DEF ApplySteering, Shape
<1>2. {"host"} \in SUBSET Silent BY DEF Silent
<1>3. pc' \in {"exit", onward} BY DEF ApplySteering, Leave
<1>4. QED BY <1>1, <1>2, <1>3, CallsSilent DEF ReplyPhases

LEMMA CallsLane ==
    ASSUME TurnInv, Shape, Complete(rows), NEW l \in Lanes, TakeLane(l), pc' \notin ReplyPhases
    PROVE  CallInv'
<1>1. Added(rows', {"host"}) BY LaneAdds DEF Shape
<1>2. {"host"} \in SUBSET Silent BY DEF Silent
<1>3. QED BY <1>1, <1>2, CallsSilent

\* A text or structured-output reply stays, with or without a nudge.
LEMMA CallsReplyStays ==
    ASSUME TurnInv, Shape, CallInv, pc = "reply", reply \in TextReplies \cup StructReplies,
           rows' = rows \/ rows' = Append(rows, "user"), pc' \notin ReplyPhases
    PROVE  CallInv'
<1>1. rows \in Seq(Rows) /\ Len(rows) \in Nat /\ "user" \in Rows /\ "user" \in Silent
  BY DEF TurnInv, Rows, Silent
<1>2. Last(rows) \in {"text", "structured"}
  BY RowOfType DEF Shape, ReplyInv
<1>3. Last(rows) \in AssistantRows /\ (0 = CallsOf(Last(rows)) \/ Last(rows) = "structured")
  BY <1>2 DEF AssistantRows, CallsOf
<1>4. Added(rows', {"user"}) BY <1>1, AddOne, AddNothing
<1>5. Added(rows', Rows) /\ Len(rows') >= Len(rows) BY <1>4 DEF Added
<1>6. \A i \in (Len(rows) + 1)..(Len(rows) + 0) : rows'[i] = "tool" BY <1>1
<1>7. \A i \in (Len(rows) + 0 + 1)..Len(rows') : rows'[i] \in Silent BY <1>1, <1>4 DEF Added
<1>8. Complete(Front(rows)) BY DEF CallInv
<1>9. Complete(rows') BY <1>1, <1>3, <1>5, <1>6, <1>7, <1>8, CallsAnswered
<1>10. QED BY <1>9, CallsComplete

LEMMA CallsAskAgain ==
    ASSUME TurnInv, Shape, CallInv, pc = "reply", NEW nudge \in Seq({"user"}), AskAgain(nudge)
    PROVE  CallInv'
<1> DEFINE f == Front(rows)
           r == f \o nudge
<1>1. rows \in Seq(Rows) /\ Len(rows) >= 1 /\ Len(rows) \in Nat BY DEF TurnInv
<1>2. f \in Seq(Rows) /\ Len(f) = Len(rows) - 1 /\ \A i \in 1..(Len(rows) - 1) : f[i] = rows[i]
  BY <1>1, PopType
<1>3. /\ r \in Seq(Rows) /\ Len(r) = Len(rows) - 1 + Len(nudge) /\ Len(nudge) \in Nat
      /\ \A i \in 1..(Len(rows) - 1) : r[i] = rows[i]
      /\ \A i \in Len(rows)..Len(r) : r[i] = "user"
  BY <1>1, PopRows
<1>4. Complete(f) BY DEF CallInv
<1>5. pc' = "top" /\ rows' = r BY DEF AskAgain, Again
<1> HIDE DEF f, r
<1>6. \A i \in (Len(f) + 1)..Len(r) : r[i] \in Silent BY <1>1, <1>2, <1>3 DEF Silent
<1>7. \A i \in 1..Len(f) : r[i] = f[i] BY <1>1, <1>2, <1>3
<1>8. Len(r) >= Len(f) BY <1>1, <1>2, <1>3
<1>9. Complete(r) BY <1>2, <1>3, <1>4, <1>6, <1>7, <1>8, CompleteMore
<1>10. QED BY <1>5, <1>9, CallsComplete DEF ReplyPhases

LEMMA CallsTakenAs ==
    ASSUME CallInv, pc = "reply", NEW kinds, TakenAs(kinds)
    PROVE  CallInv'
  BY DEF CallInv, TakenAs, ReplyPhases

LEMMA CallsBeforeCall ==
    ASSUME TurnInv, Shape, CallInv, BeforeCall
    PROVE  CallInv'
<1> USE DEF ReplyPhases
<1>0. Complete(rows) /\ rows \in Seq(Rows) /\ "system" \in Rows
  BY DEF BeforeCall, Begin, Steer, CheckTop, CountCall, PrepareRequest, CheckBeforeDispatch,
     Dispatch, CallInv, TurnInv, Rows
<1>1. CASE Begin BY <1>0, <1>1, CallsStill DEF Begin
<1>2. CASE Steer BY <1>0, <1>2, CallsSteering DEF Steer
<1>3. CASE CheckTop BY <1>0, <1>3, CallsCheckpoint DEF CheckTop
<1>4. CASE CountCall
  <2>1. pc' \in {"request", "exit"} /\ UNCHANGED rows BY <1>4 DEF CountCall, Leave
  <2>2. QED BY <1>0, <2>1, CallsStill
<1>5. CASE PrepareRequest
  <2>0. pc' = "gate" BY <1>5 DEF PrepareRequest
  <2>1. CASE UNCHANGED rows BY <1>0, <2>0, <2>1, CallsStill
  <2>2. CASE rows' = Append(rows, "system")
    <3>1. Added(rows', {"system"}) BY <1>0, <2>2, AddOne
    <3>2. {"system"} \in SUBSET Silent BY DEF Silent
    <3>3. QED BY <1>0, <2>0, <3>1, <3>2, CallsSilent
  <2>3. CASE rows' = <<"system">> \o rows BY <1>0, <2>0, <2>3, CompletePrepend, CallsComplete
  <2>4. QED BY <1>5, <2>1, <2>2, <2>3 DEF PrepareRequest
<1>6. CASE CheckBeforeDispatch BY <1>0, <1>6, CallsCheckpoint DEF CheckBeforeDispatch
<1>7. CASE Dispatch BY <1>0, <1>7, CallsStill DEF Dispatch
<1>8. QED BY <1>1, <1>2, <1>3, <1>4, <1>5, <1>6, <1>7 DEF BeforeCall

\* The reply in hand ends the transcript with an assistant row.
LEMMA ReplyIsLast ==
    ASSUME Shape, pc \in {"replied", "reply", "mixed"}
    PROVE  Last(rows) \in AssistantRows
<1>1. CASE pc = "mixed" BY <1>1 DEF Shape, ReplyInv, AssistantRows
<1>2. CASE pc \in {"replied", "reply"}
  <2>1. reply \in AllReplies /\ Last(rows) = RowOf(reply) BY <1>2 DEF Shape, ReplyInv
  <2>2. QED BY <2>1, RowOfType DEF AllReplies, AssistantRows
<1>3. QED BY <1>1, <1>2

LEMMA CallsModelCall ==
    ASSUME TurnInv, Shape, CallInv, ModelCall
    PROVE  CallInv'
<1>1. ASSUME NEW r \in Replies, ReceiveReply(r) PROVE CallInv'
  <2>1. Complete(rows) BY <1>1 DEF ReceiveReply, CallInv, ReplyPhases
  <2>2. RowOf(r) \in Rows BY RowOfType DEF Replies, Rows, AssistantRows
  <2>3. Front(rows') = rows BY <1>1, <2>2, AppendLast DEF ReceiveReply, TurnInv
  <2>4. pc' = "replied" BY <1>1 DEF ReceiveReply
  <2>5. QED BY <2>1, <2>3, <2>4 DEF CallInv, ReplyPhases
<1>2. CASE ModelFails BY <1>2, CallsLeft DEF ModelFails, Leave
<1>3. CASE CheckReply
  <2>1. pc = "replied" /\ Complete(Front(rows)) BY <1>3 DEF CheckReply, CallInv
  <2>2. CASE pc' = "exit" BY <2>2, CallsLeft
  <2>3. CASE pc' = "reply" /\ UNCHANGED rows BY <2>1, <2>3 DEF CallInv, ReplyPhases
  <2>4. CASE pc' = "top" /\ rows' = CloseUnanswered(rows)
    BY <2>1, <2>4, ReplyIsLast, ClosedReply, CallsComplete DEF ReplyPhases
  <2>5. QED BY <1>3, <2>2, <2>3, <2>4 DEF CheckReply, Checkpoint, StopRun, Leave
<1>4. QED BY <1>1, <1>2, <1>3 DEF ModelCall

LEMMA CallsReply ==
    ASSUME TurnInv, Shape, CallInv, Recover \/ Resolve
    PROVE  CallInv'
<1> USE Nudges
<1>0. ASSUME PopAndFail PROVE CallInv' BY <1>0, CallsLeft DEF PopAndFail, Leave
<1>1. CASE RecoverWithheld BY <1>1, CallsAskAgain, CallsTakenAs DEF RecoverWithheld
<1>2. CASE RetryDead BY <1>2, CallsAskAgain DEF RetryDead
<1>3. CASE NudgeDead BY <1>3, CallsAskAgain DEF NudgeDead
<1>4. CASE GiveUpDead BY <1>0, <1>4, CallsTakenAs DEF GiveUpDead
<1>5. CASE RecoverEmpty BY <1>5, CallsAskAgain, CallsTakenAs DEF RecoverEmpty
<1>6. CASE RecoverDropped
  <2>1. CASE TakenAs({"final", "blank", "badText", "continue"})
    BY <1>6, <2>1, CallsTakenAs DEF RecoverDropped
  <2>2. CASE ~TakenAs({"final", "blank", "badText", "continue"})
    <3>1. pc = "reply" /\ reply \in TextReplies /\ pc' = "top"
          /\ (rows' = rows \/ rows' = Append(rows, "user"))
      BY <1>6, <2>2 DEF RecoverDropped, TextReplies
    <3>2. QED BY <3>1, CallsReplyStays DEF ReplyPhases
  <2>3. QED BY <2>1, <2>2
<1>7. CASE ContinueTurn
  <2>1. pc = "reply" /\ reply \in TextReplies /\ pc' = "top" /\ rows' = Append(rows, "user")
    BY <1>7 DEF ContinueTurn, TextReplies
  <2>2. QED BY <2>1, CallsReplyStays DEF ReplyPhases
<1>8. CASE RejectOutput
  <2>1. pc = "reply" /\ reply \in TextReplies \cup StructReplies /\ pc' \in {"top", "exit"}
        /\ (rows' = rows \/ rows' = Append(rows, "user"))
    BY <1>8 DEF RejectOutput, TextReplies, StructReplies, Leave
  <2>2. QED BY <2>1, CallsReplyStays DEF ReplyPhases
<1>9. CASE AcceptReply
  <2>1. pc = "reply" /\ reply \in TextReplies \cup StructReplies /\ pc' = "settle"
        /\ rows' = rows
    BY <1>9 DEF AcceptReply, TextReplies, StructReplies
  <2>2. QED BY <2>1, CallsReplyStays DEF ReplyPhases
<1>10. CASE RefuseBlank BY <1>0, <1>10 DEF RefuseBlank
<1>11. QED BY <1>1, <1>2, <1>3, <1>4, <1>5, <1>6, <1>7, <1>8, <1>9, <1>10 DEF Recover, Resolve

\* A reply with two calls.
LEMMA MixedReply ==
    ASSUME TurnInv, Shape, CallInv, Mixed
    PROVE  /\ Last(rows) = "both" /\ Complete(Front(rows)) /\ reply \in {"both", "cutBoth"}
<1>1. CASE pc = "mixed" BY <1>1 DEF Shape, ReplyInv, CallInv
<1>2. CASE pc = "reply" /\ reply = "both"
  <2>1. Last(rows) = "both" BY <1>2, RowOfType DEF Shape, ReplyInv, BothReplies
  <2>2. QED BY <1>2, <2>1 DEF CallInv
<1>3. QED BY <1>1, <1>2 DEF Mixed

LEMMA CallsHalfAnswered ==
    ASSUME TurnInv, Shape, CallInv, Mixed, rows' = Append(rows, "tool"),
           pc' \in {"tools", "child"}, reply' \in {"both", "cutBoth", "graceful"}
    PROVE  CallInv'
<1>1. Complete(Front(rows)) BY MixedReply
<1>2. Front(rows') = rows BY AppendLast DEF TurnInv, Rows
<1>3. reply' \notin CallReplies BY DEF CallReplies
<1>4. QED BY <1>1, <1>2, <1>3 DEF CallInv, ReplyPhases

\* The rows a tool turn leaves.
LEMMA CallsFinishEarly ==
    ASSUME TurnInv, Shape, CallInv, FinishEarly
    PROVE  CallInv'
<1>1. Last(rows) = "both" /\ Complete(Front(rows)) BY MixedReply DEF FinishEarly
<1>2. rows' = rows \o <<"tool", "tool">> /\ pc' = "settle" BY DEF FinishEarly
<1>3. rows \in Seq(Rows) /\ "tool" \in Rows /\ Len(rows) \in Nat BY DEF TurnInv, Rows
<1>4. Added(rows', {"tool", "tool"}) /\ Len(rows') = Len(rows) + 2 BY <1>2, <1>3, AddTwo
<1>5. \A i \in (Len(rows) + 1)..(Len(rows) + 2) : rows'[i] = "tool" BY <1>4 DEF Added
<1>6. \A i \in (Len(rows) + 2 + 1)..Len(rows') : rows'[i] \in Silent BY <1>3, <1>4
<1>7. Added(rows', Rows) BY <1>4 DEF Added
<1>8. "both" \in AssistantRows /\ CallsOf("both") = 2 BY DEF AssistantRows, CallsOf
<1>9. Len(rows') >= Len(rows) + 2 BY <1>3, <1>4
<1>10. Complete(rows') BY <1>1, <1>5, <1>6, <1>7, <1>8, <1>9, CallsAnswered
<1>11. QED BY <1>2, <1>10, CallsComplete DEF ReplyPhases

LEMMA CallsToolsReturn ==
    ASSUME TurnInv, Shape, CallInv, ToolsReturn
    PROVE  CallInv'
<1>0. rows \in Seq(Rows) /\ "tool" \in Rows /\ "user" \in Rows /\ Len(rows) \in Nat
      /\ Len(rows) >= 1
  BY DEF TurnInv, Rows
<1>1. pc = "tools" /\ pc' \in {"graceful", "lane"} BY DEF ToolsReturn
<1>2. rows' = Append(rows, "tool") \o <<>> \/ rows' = Append(rows, "tool") \o <<"user">>
  BY DEF ToolsReturn
<1>3. rows' = Append(rows, "tool") \/ rows' = rows \o <<"tool", "user">>
  BY <1>0, <1>2, AddTwo
<1>4. /\ rows' \in Seq(Rows) /\ Len(rows') \in Nat /\ Len(rows') >= Len(rows) + 1
      /\ \A i \in 1..Len(rows) : rows'[i] = rows[i]
      /\ rows'[Len(rows) + 1] = "tool"
      /\ \A i \in (Len(rows) + 2)..Len(rows') : rows'[i] \in Silent
  <2>1. CASE rows' = Append(rows, "tool")
    <3>1. Added(rows', {"tool"}) /\ Len(rows') = Len(rows) + 1 BY <1>0, <2>1, AddOne
    <3>2. QED BY <1>0, <3>1 DEF Added
  <2>2. CASE rows' = rows \o <<"tool", "user">>
    <3>1. Added(rows', {"tool", "user"}) /\ Len(rows') = Len(rows) + 2 BY <1>0, <2>2, AddTwo
    <3>2. <<"tool", "user">> \in Seq(Rows) /\ Len(<<"tool", "user">>) = 2
          /\ <<"tool", "user">>[1] = "tool" /\ <<"tool", "user">>[2] = "user"
      BY <1>0
    <3>3. rows'[Len(rows) + 1] = "tool" /\ rows'[Len(rows) + 2] = "user"
      BY <1>0, <2>2, <3>2, AddSeq
    <3>4. \A i \in (Len(rows) + 2)..Len(rows') : i = Len(rows) + 2 BY <1>0, <3>1
    <3>5. \A i \in (Len(rows) + 2)..Len(rows') : rows'[i] \in Silent BY <3>3, <3>4 DEF Silent
    <3>6. QED BY <1>0, <3>1, <3>3, <3>5 DEF Added
  <2>3. QED BY <1>3, <2>1, <2>2
<1>5. CASE reply \in CallReplies /\ Last(rows) = "calls"
  <2>1. Complete(Front(rows)) BY <1>1, <1>5 DEF CallInv
  <2>2. "calls" \in AssistantRows /\ CallsOf("calls") = 1 BY DEF AssistantRows, CallsOf
  <2>3. \A i \in (Len(rows) + 1)..(Len(rows) + 1) : rows'[i] = "tool" BY <1>0, <1>4
  <2>4. \A i \in (Len(rows) + 1 + 1)..Len(rows') : rows'[i] \in Silent BY <1>0, <1>4
  <2>5. Added(rows', Rows) BY <1>4 DEF Added
  <2>6. Complete(rows') BY <1>4, <1>5, <2>1, <2>2, <2>3, <2>4, <2>5, CallsAnswered
  <2>7. QED BY <1>1, <2>6, CallsComplete DEF ReplyPhases
<1>6. CASE reply \in {"both", "cutBoth", "graceful"} /\ Len(rows) >= 3 /\ Last(rows) = "tool"
           /\ Last(Front(rows)) = "both"
  <2> DEFINE g == Front(rows)
             f == Front(g)
             p == Len(rows) - 1
  <2>1. g \in Seq(Rows) /\ Len(g) = p /\ (\A i \in 1..p : g[i] = rows[i]) /\ p \in Nat /\ p >= 2
    BY <1>0, <1>6, PopType
  <2>2. f \in Seq(Rows) /\ Len(f) = Len(g) - 1 /\ \A i \in 1..(Len(g) - 1) : f[i] = g[i]
    BY <2>1, PopType
  <2>3. Complete(f)
    <3>1. reply \notin CallReplies BY <1>6 DEF CallReplies
    <3>2. QED BY <1>1, <3>1 DEF CallInv
  <2>4. g[p] = "both" /\ rows[p + 1] = "tool" /\ Len(rows) = p + 1
    BY <1>0, <1>6, <2>1 DEF Last
  <2> HIDE DEF g, f, p
  <2>5. p = Len(f) + 1 BY <2>1, <2>2
  <2>6. \A i \in 1..Len(f) : rows'[i] = f[i] BY <1>4, <2>1, <2>2, <2>4
  <2>7. rows'[p] = "both" BY <1>4, <2>1, <2>4
  <2>8. \A i \in (p + 1)..(p + 2) : rows'[i] = "tool"
    <3>1. rows'[p + 1] = "tool" /\ rows'[p + 2] = "tool" BY <1>4, <2>1, <2>4
    <3>2. \A i \in (p + 1)..(p + 2) : i = p + 1 \/ i = p + 2 BY <2>1
    <3>3. QED BY <3>1, <3>2
  <2>9. \A i \in (p + 2 + 1)..Len(rows') : rows'[i] \in Silent BY <1>4, <2>1, <2>4
  <2>10. Len(rows') >= p + 2 BY <1>4, <2>1, <2>4
  <2>11. rows'[p] \in AssistantRows /\ 2 = CallsOf(rows'[p])
    BY <2>7 DEF AssistantRows, CallsOf
  <2>12. rows' \in Seq(Rows) /\ p \in Nat /\ f \in Seq(Rows) BY <1>4, <2>1, <2>2
  <2>13. Complete(rows')
    BY <2>3, <2>5, <2>6, <2>8, <2>9, <2>10, <2>11, <2>12, CompleteReply
  <2>14. QED BY <1>1, <2>13, CallsComplete DEF ReplyPhases
<1>7. QED BY <1>1, <1>5, <1>6 DEF Shape, ReplyInv

LEMMA CallsWithCalls ==
    ASSUME TurnInv, Shape, CallInv, WithCalls
    PROVE  CallInv'
<1>1. ASSUME NEW t \in Tools, FailCut(t) PROVE CallInv'
  BY <1>1, CallsLeft DEF FailCut, PopAndFail, Leave
<1>2. ASSUME NEW t \in Tools, RefuseCut(t) PROVE CallInv'
  <2>1. pc = "reply" /\ Complete(Front(rows)) /\ reply' = reply
    BY <1>2 DEF RefuseCut, CallInv
  <2>2. CASE RefusedAs(rows') /\ pc' = "lane"
    <3>1. Complete(CloseUnanswered(rows)) BY <2>1, ReplyIsLast, ClosedReply
    <3>2. CloseUnanswered(rows) \in Seq(Rows) BY CloseAdds DEF Added
    <3>3. rows' \in Seq(Rows) BY <2>2, RefusedAdds DEF Added
    <3>4. \A i \in (Len(CloseUnanswered(rows)) + 1)..Len(rows') : rows'[i] \in Silent
      BY <2>2, RefusedAdds DEF Silent
    <3>5. Complete(rows') BY <2>2, <3>1, <3>2, <3>3, <3>4, RefusedAdds, CompleteMore
    <3>6. QED BY <2>2, <3>5, CallsComplete DEF ReplyPhases
  <2>3. CASE reply = "cutTools" /\ pc' = "tools" /\ UNCHANGED rows
    BY <2>1, <2>3 DEF CallInv, ReplyPhases, CallReplies
  <2>4. CASE pc' = "mixed" /\ UNCHANGED rows BY <2>1, <2>4 DEF CallInv, ReplyPhases
  <2>5. QED BY <1>2, <2>2, <2>3, <2>4, RefusedForm DEF RefuseCut
<1>3. CASE StartTools
  <2>1. pc = "reply" /\ reply = "tools" /\ pc' \in {"tools", "child"}
        /\ reply' = reply /\ UNCHANGED rows
    BY <1>3 DEF StartTools, RunTools
  <2>2. QED BY <2>1 DEF CallInv, ReplyPhases, CallReplies
<1>4. CASE FinishEarly BY <1>4, CallsFinishEarly
<1>5. CASE FinishGracefully BY <1>5, CallsHalfAnswered DEF FinishGracefully, RunTools
<1>6. CASE GoOn
  <2>1. Mixed /\ rows' = Append(rows, "tool") /\ pc' \in {"tools", "child"} /\ reply' = reply
    BY <1>6 DEF GoOn, RunTools
  <2>2. reply \in {"both", "cutBoth"} BY <2>1, MixedReply
  <2>3. QED BY <2>1, <2>2, CallsHalfAnswered
<1>7. CASE ChildRuns
  <2>1. pc = "child" /\ pc' = "tools" /\ reply' = reply /\ UNCHANGED rows
    BY <1>7 DEF ChildRuns
  <2>2. QED BY <2>1 DEF CallInv, ReplyPhases
<1>8. CASE ToolsReturn BY <1>8, CallsToolsReturn
<1>9. CASE ToolsDefer BY <1>9, CallsLeft DEF ToolsDefer, Leave
<1>10. CASE ApplySteerLane
  <2>1. pc' = "boundary" /\ Complete(rows) BY <1>10 DEF ApplySteerLane, CallInv, ReplyPhases
  <2>2. CASE TakeLane("Steer") BY <2>1, <2>2, CallsLane DEF Lanes, ReplyPhases
  <2>3. CASE UNCHANGED rows BY <2>1, <2>3, CallsStill DEF ReplyPhases
  <2>4. QED BY <1>10, <2>2, <2>3 DEF ApplySteerLane
<1>11. CASE CheckBoundary
  <2>1. Complete(rows) BY <1>11 DEF CheckBoundary, CallInv, ReplyPhases
  <2>2. QED BY <1>11, <2>1, CallsCheckpoint DEF CheckBoundary, ReplyPhases
<1>12. CASE FinishGraceful
  <2>1. Complete(rows) BY <1>12 DEF FinishGraceful, CallInv, ReplyPhases
  <2>2. CASE StopRun BY <2>2, CallsLeft DEF StopRun, Leave
  <2>3. CASE pc' = "settle" /\ UNCHANGED rows BY <2>1, <2>3, CallsStill DEF ReplyPhases
  <2>4. QED BY <1>12, <2>2, <2>3 DEF FinishGraceful
<1>13. QED BY <1>1, <1>2, <1>3, <1>4, <1>5, <1>6, <1>7, <1>8, <1>9, <1>10, <1>11, <1>12
       DEF WithCalls

LEMMA CallsEnding ==
    ASSUME TurnInv, Shape, CallInv, Ending
    PROVE  CallInv'
<1> USE DEF ReplyPhases
<1>1. CASE Settle
  <2>1. Complete(rows) BY <1>1 DEF Settle, CallInv
  <2>2. CASE Count(Applied(inbox), "Inject") > 0
    BY <1>1, <2>1, <2>2, CallsSteering DEF Settle
  <2>3. CASE ~(Count(Applied(inbox), "Inject") > 0)
    BY <1>1, <2>1, <2>3, CallsSteering DEF Settle
  <2>4. QED BY <2>2, <2>3
<1>2. CASE SettleSteers
  <2>1. Complete(rows) BY <1>2 DEF SettleSteers, SettleLane, CallInv
  <2>2. CASE TakeLane("Steer") /\ pc' = "top" BY <2>1, <2>2, CallsLane DEF Lanes
  <2>3. CASE pc' = "followups" /\ UNCHANGED rows BY <2>1, <2>3, CallsStill
  <2>4. QED BY <1>2, <2>2, <2>3 DEF SettleSteers, SettleLane
<1>3. CASE SettleFollowups
  <2>1. Complete(rows) BY <1>3 DEF SettleFollowups, SettleLane, CallInv
  <2>2. CASE TakeLane("Followup") /\ pc' = "top" BY <2>1, <2>2, CallsLane DEF Lanes
  <2>3. CASE pc' = "exit" BY <2>3, CallsLeft
  <2>4. QED BY <1>3, <2>2, <2>3 DEF SettleFollowups, SettleLane, Leave
<1>4. CASE StepFails BY <1>4, CallsLeft DEF StepFails, Leave
<1>5. CASE Conclude BY <1>5, CallsLeft DEF Conclude
<1>6. QED BY <1>1, <1>2, <1>3, <1>4, <1>5 DEF Ending

LEMMA CallsStep ==
    ASSUME TurnInv, Shape, CallInv, [Next]_vars
    PROVE  CallInv'
<1>1. CASE UNCHANGED vars BY <1>1 DEF vars, CallInv
<1>2. CASE Host
  <2>1. UNCHANGED <<pc, rows, reply>> BY <1>2 DEF Host, SendCommands, Enqueue
  <2>2. QED BY <2>1 DEF CallInv
<1>3. CASE Loop
  BY <1>3, CallsBeforeCall, CallsModelCall, CallsReply, CallsWithCalls, CallsEnding DEF Loop
<1>4. QED BY <1>1, <1>2, <1>3 DEF Next

\* Whenever a request goes out every call on the transcript has its answers,
\* however many turns, recoveries and inserted rows came before: the reply in
\* hand is the only one whose answers are still missing.
THEOREM CallsAreAnsweredHolds == Spec => []CallsAreAnswered
<1>1. Init => CallInv
  <2> SUFFICES ASSUME Init PROVE CallInv OBVIOUS
  <2>1. \A k \in DOMAIN rows : rows[k] = "user" BY DEF Init, Times, SeedLen
  <2>2. Complete(rows) BY <2>1 DEF Complete, AssistantRows
  <2>3. QED BY <2>2 DEF Init, CallInv, ReplyPhases
<1>2. TurnInv /\ Shape /\ CallInv /\ [Next]_vars => CallInv' BY CallsStep
<1>3. CallInv => CallsAreAnswered
  BY DEF CallInv, CallsAreAnswered, AnswersTo, Answers, Settled, Complete, ReplyPhases
<1>4. QED BY <1>1, <1>2, <1>3, ShapeHolds, PTL DEF Spec

-----------------------------------------------------------------------------
(* Types, and the run's numbers.                                           *)

\* A model call is counted before it is dispatched, a turn is started and a
\* reply received once for each counted call, and the budget gate's permit is
\* held during the provider call and at no other time.
CountInv ==
    /\ calls \in Nat /\ answered \in Nat /\ turn \in Nat
    /\ pc \notin {"exit", "done"} => calls <= MaxModelCalls
    /\ calls <= MaxModelCalls + 1
    /\ answered <= calls /\ answered <= MaxModelCalls
    /\ turn <= calls /\ turn <= MaxModelCalls
    /\ pc \in {"request", "gate", "admit", "model"} => answered < calls
    /\ pc \in {"request", "gate", "admit"} => turn < calls
    /\ free = IF pc = "model" THEN Permits - 1 ELSE Permits
    /\ final \in SUBSET (0..MaxModelCalls)

LEMMA CountsStill ==
    ASSUME CountInv, UNCHANGED <<counts, turn>>, final' \in {final, {answered}},
           pc \notin {"model", "exit", "done"}, pc' \notin {"request", "gate", "admit", "model"}
    PROVE  CountInv'
<1> USE CapAssumption
<1>1. UNCHANGED <<answered, calls, free>> BY DEF counts
<1>2. final' \in SUBSET (0..MaxModelCalls) BY DEF CountInv
<1>3. QED BY <1>1, <1>2 DEF CountInv

LEMMA TurnKept ==
    ASSUME \/ UNCHANGED turnVars
           \/ \E r : CloseTurn(r)
           \/ Retract
    PROVE  turn' = turn
  BY DEF turnVars, CloseTurn, Retract

LEMMA CountsCheckpoint ==
    ASSUME CountInv, NEW onward, Checkpoint(onward) \/ StopRun, UNCHANGED <<counts, turnVars>>,
           pc \notin {"model", "exit", "done"}, onward \notin {"request", "gate", "admit", "model"}
    PROVE  CountInv'
<1>1. turn' = turn BY TurnKept
<1>2. final' \in {final, {answered}} /\ pc' \in {onward, "top", "exit"}
  BY DEF Checkpoint, StopRun, Leave
<1>3. QED BY <1>1, <1>2, CountsStill

LEMMA CountsBeforeCall ==
    ASSUME CountInv, BeforeCall
    PROVE  CountInv'
<1> USE CapAssumption, PermitsAssumption
<1>1. CASE Begin
  <2>1. turn' = turn BY <1>1, TurnKept DEF Begin
  <2>2. QED BY <1>1, <2>1, CountsStill DEF Begin, ended
<1>2. CASE Steer
  <2>1. turn' = turn /\ pc' \in {"control", "exit"}
    BY <1>2, TurnKept DEF Steer, ApplySteering, Leave
  <2>2. QED BY <1>2, <2>1, CountsStill DEF Steer
<1>3. CASE CheckTop BY <1>3, CountsCheckpoint DEF CheckTop
<1>4. CASE CountCall
  <2>1. pc = "count" /\ calls' = calls + 1 /\ UNCHANGED <<answered, free, final, turn>>
    BY <1>4, TurnKept DEF CountCall
  <2>2. CASE CallsRemain /\ pc' = "request" BY <2>1, <2>2 DEF CountInv, CallsRemain
  <2>3. CASE ~CallsRemain /\ pc' = "exit" BY <2>1, <2>3 DEF CountInv, CallsRemain
  <2>4. QED BY <1>4, <2>2, <2>3 DEF CountCall, Leave
<1>5. CASE PrepareRequest
  <2>1. pc = "request" /\ pc' = "gate" /\ UNCHANGED <<answered, calls, free, final, turn>>
    BY <1>5 DEF PrepareRequest, counts, ended
  <2>2. QED BY <2>1 DEF CountInv
<1>6. CASE CheckBeforeDispatch
  <2>1. pc = "gate" /\ UNCHANGED <<counts, turn>> BY <1>6, TurnKept DEF CheckBeforeDispatch
  <2>2. CASE pc' = "admit" /\ UNCHANGED final BY <2>1, <2>2 DEF CountInv, counts
  <2>3. CASE pc' \in {"top", "exit"} /\ final' \in {final, {answered}}
    BY <2>1, <2>3, CountsStill
  <2>4. QED BY <1>6, <2>2, <2>3 DEF CheckBeforeDispatch, Checkpoint, StopRun, Leave
<1>7. CASE Dispatch
  <2>1. pc = "admit" /\ pc' = "model" /\ UNCHANGED <<answered, calls, final>>
        /\ free' = free - 1 /\ turn' = turn + 1
    BY <1>7 DEF Dispatch, ended, StartTurn
  <2>2. QED BY <2>1 DEF CountInv
<1>8. QED BY <1>1, <1>2, <1>3, <1>4, <1>5, <1>6, <1>7 DEF BeforeCall

LEMMA CountsModelCall ==
    ASSUME CountInv, ModelCall
    PROVE  CountInv'
<1> USE CapAssumption, PermitsAssumption
<1>1. ASSUME NEW r \in Replies, ReceiveReply(r) PROVE CountInv'
  <2>1. pc = "model" /\ pc' = "replied" /\ UNCHANGED <<calls, final, turn>>
        /\ free' = free + 1 /\ answered' = answered + 1
    BY <1>1 DEF ReceiveReply, DropPermit, ended
  <2>2. QED BY <2>1 DEF CountInv
<1>2. CASE ModelFails
  <2>1. pc = "model" /\ pc' = "exit" /\ UNCHANGED <<calls, final, turn>>
        /\ free' = free + 1 /\ answered' \in {answered, answered + 1}
    BY <1>2, TurnKept DEF ModelFails, Leave
  <2>2. QED BY <2>1 DEF CountInv
<1>3. CASE CheckReply BY <1>3, CountsCheckpoint DEF CheckReply
<1>4. QED BY <1>1, <1>2, <1>3 DEF ModelCall

LEMMA CountsReply ==
    ASSUME CountInv, Recover \/ Resolve
    PROVE  CountInv'
<1> USE DEF ended
<1>1. ASSUME NEW nudge, pc = "reply", AskAgain(nudge) PROVE CountInv'
  <2>1. turn' = turn BY <1>1, TurnKept DEF AskAgain
  <2>2. QED BY <1>1, <2>1, CountsStill DEF AskAgain, Again
<1>2. ASSUME NEW kinds, pc = "reply", TakenAs(kinds) PROVE CountInv'
  <2>1. turn' = turn BY <1>2, TurnKept DEF TakenAs
  <2>2. QED BY <1>2, <2>1, CountsStill DEF TakenAs
<1>3. ASSUME pc = "reply", PopAndFail PROVE CountInv'
  <2>1. turn' = turn BY <1>3, TurnKept DEF PopAndFail
  <2>2. QED BY <1>3, <2>1, CountsStill DEF PopAndFail, Leave
<1>4. CASE RecoverWithheld BY <1>1, <1>2, <1>4 DEF RecoverWithheld
<1>5. CASE RetryDead BY <1>1, <1>5 DEF RetryDead
<1>6. CASE NudgeDead BY <1>1, <1>6 DEF NudgeDead
<1>7. CASE GiveUpDead BY <1>2, <1>3, <1>7 DEF GiveUpDead
<1>8. CASE RecoverEmpty BY <1>1, <1>2, <1>8 DEF RecoverEmpty
<1>9. CASE RecoverDropped
  <2>1. CASE TakenAs({"final", "blank", "badText", "continue"})
    BY <1>2, <1>9, <2>1 DEF RecoverDropped
  <2>2. CASE ~TakenAs({"final", "blank", "badText", "continue"})
    <3>1. pc = "reply" /\ pc' = "top" /\ UNCHANGED <<counts, turnVars, final>>
      BY <1>9, <2>2 DEF RecoverDropped
    <3>2. QED BY <3>1, TurnKept, CountsStill
  <2>3. QED BY <2>1, <2>2
<1>10. CASE ContinueTurn
  <2>1. turn' = turn BY <1>10, TurnKept DEF ContinueTurn
  <2>2. QED BY <1>10, <2>1, CountsStill DEF ContinueTurn
<1>11. CASE RejectOutput
  <2>1. turn' = turn /\ pc' \in {"top", "exit"} BY <1>11, TurnKept DEF RejectOutput, Leave
  <2>2. QED BY <1>11, <2>1, CountsStill DEF RejectOutput
<1>12. CASE AcceptReply
  <2>1. turn' = turn BY <1>12, TurnKept DEF AcceptReply
  <2>2. QED BY <1>12, <2>1, CountsStill DEF AcceptReply, RecordFinal
<1>13. CASE RefuseBlank BY <1>3, <1>13 DEF RefuseBlank
<1>14. QED BY <1>4, <1>5, <1>6, <1>7, <1>8, <1>9, <1>10, <1>11, <1>12, <1>13 DEF Recover, Resolve

LEMMA CountsWithCalls ==
    ASSUME CountInv, WithCalls
    PROVE  CountInv'
<1> USE DEF ended
<1>1. ASSUME NEW t \in Tools, FailCut(t) PROVE CountInv'
  <2>1. turn' = turn BY <1>1, TurnKept DEF FailCut, PopAndFail
  <2>2. QED BY <1>1, <2>1, CountsStill DEF FailCut, PopAndFail, Leave
<1>2. ASSUME NEW t \in Tools, RefuseCut(t) PROVE CountInv'
  <2>1. turn' = turn /\ pc' \in {"lane", "tools", "mixed"} BY <1>2, TurnKept DEF RefuseCut
  <2>2. QED BY <1>2, <2>1, CountsStill DEF RefuseCut
<1>3. CASE StartTools
  <2>1. turn' = turn BY <1>3, TurnKept DEF StartTools
  <2>2. QED BY <1>3, <2>1, CountsStill DEF StartTools, RunTools
<1>4. CASE FinishEarly
  <2>1. turn' = turn /\ pc \in {"reply", "mixed"} BY <1>4, TurnKept DEF FinishEarly, Mixed
  <2>2. QED BY <1>4, <2>1, CountsStill DEF FinishEarly, RecordFinal
<1>5. CASE FinishGracefully
  <2>1. turn' = turn /\ pc \in {"reply", "mixed"} BY <1>5, TurnKept DEF FinishGracefully, Mixed
  <2>2. QED BY <1>5, <2>1, CountsStill DEF FinishGracefully, RunTools
<1>6. CASE GoOn
  <2>1. turn' = turn /\ pc \in {"reply", "mixed"} BY <1>6, TurnKept DEF GoOn, Mixed
  <2>2. QED BY <1>6, <2>1, CountsStill DEF GoOn, RunTools
<1>7. CASE ChildRuns
  <2>1. turn' = turn BY <1>7, TurnKept DEF ChildRuns
  <2>2. QED BY <1>7, <2>1, CountsStill DEF ChildRuns
<1>8. CASE ToolsReturn
  <2>1. turn' = turn /\ pc' \in {"graceful", "lane"} BY <1>8, TurnKept DEF ToolsReturn
  <2>2. QED BY <1>8, <2>1, CountsStill DEF ToolsReturn
<1>9. CASE ToolsDefer
  <2>1. turn' = turn BY <1>9, TurnKept DEF ToolsDefer
  <2>2. QED BY <1>9, <2>1, CountsStill DEF ToolsDefer, Leave
<1>10. CASE ApplySteerLane
  <2>1. turn' = turn BY <1>10, TurnKept DEF ApplySteerLane
  <2>2. QED BY <1>10, <2>1, CountsStill DEF ApplySteerLane
<1>11. CASE CheckBoundary BY <1>11, CountsCheckpoint DEF CheckBoundary
<1>12. CASE FinishGraceful
  <2>1. CASE StopRun BY <1>12, <2>1, CountsCheckpoint DEF FinishGraceful
  <2>2. CASE ~StopRun
    <3>1. turn' = turn BY <1>12, TurnKept DEF FinishGraceful
    <3>2. QED BY <1>12, <2>2, <3>1, CountsStill DEF FinishGraceful, RecordFinal
  <2>3. QED BY <2>1, <2>2
<1>13. QED BY <1>1, <1>2, <1>3, <1>4, <1>5, <1>6, <1>7, <1>8, <1>9, <1>10, <1>11, <1>12
       DEF WithCalls

LEMMA CountsEnding ==
    ASSUME CountInv, Ending
    PROVE  CountInv'
<1>1. CASE Settle
  <2>1. turn' = turn /\ pc' \in {"top", "steers", "exit"}
    BY <1>1, TurnKept DEF Settle, ApplySteering, Leave
  <2>2. QED BY <1>1, <2>1, CountsStill DEF Settle
<1>2. CASE SettleSteers
  <2>1. turn' = turn /\ pc' \in {"top", "followups"}
    BY <1>2, TurnKept DEF SettleSteers, SettleLane
  <2>2. QED BY <1>2, <2>1, CountsStill DEF SettleSteers, SettleLane
<1>3. CASE SettleFollowups
  <2>1. turn' = turn /\ pc' \in {"top", "exit"}
    BY <1>3, TurnKept DEF SettleFollowups, SettleLane, Leave
  <2>2. QED BY <1>3, <2>1, CountsStill DEF SettleFollowups, SettleLane
<1>4. CASE StepFails
  <2>1. turn' = turn BY <1>4, TurnKept DEF StepFails
  <2>2. QED BY <1>4, <2>1, CountsStill DEF StepFails, Leave
<1>5. CASE Conclude
  <2>1. turn' = turn BY <1>5, TurnKept DEF Conclude
  <2>2. pc = "exit" /\ pc' = "done" /\ UNCHANGED <<answered, calls, free, final>>
    BY <1>5 DEF Conclude, counts
  <2>3. QED BY <2>1, <2>2 DEF CountInv
<1>6. QED BY <1>1, <1>2, <1>3, <1>4, <1>5 DEF Ending

LEMMA CountStep ==
    ASSUME CountInv, [Next]_vars
    PROVE  CountInv'
<1>1. CASE UNCHANGED vars BY <1>1 DEF vars, CountInv
<1>2. CASE Host
  <2>1. UNCHANGED <<pc, counts, final, turnVars>> BY <1>2 DEF Host, SendCommands, Enqueue, ended
  <2>2. QED BY <2>1 DEF CountInv, counts, turnVars
<1>3. CASE Loop
  BY <1>3, CountsBeforeCall, CountsModelCall, CountsReply, CountsWithCalls, CountsEnding DEF Loop
<1>4. QED BY <1>1, <1>2, <1>3 DEF Next

\* The run stays within its cap and holds the host's permit during the
\* provider call only, so a sub-agent of its tools never waits for a permit
\* that its own parent keeps.
THEOREM CountsHold == Spec => []CountInv
<1>1. Init => CountInv BY CapAssumption, PermitsAssumption DEF Init, CountInv
<1>2. CountInv /\ [Next]_vars => CountInv' BY CountStep
<1>3. QED BY <1>1, <1>2, PTL DEF Spec

\* What a recovery counter may reach.
Limit(b) == IF b = "withheld" THEN Retries["dropped"]
            ELSE IF b = "nudge" THEN MaxOf(Retries["nudge"], Retries["clock"]) ELSE Retries[b]

Within(u) == u \in [Counters -> Nat] /\ \A b \in Counters : u[b] <= Limit(b)

LEMMA LimitType == \A b \in Counters : Limit(b) \in Nat
  BY RetriesAssumption DEF Limit, Counters, Budgets, MaxOf

LEMMA Bumped ==
    ASSUME NEW u, Within(u), NEW b \in Counters, NEW n \in Nat, n <= Limit(b)
    PROVE  Within([u EXCEPT ![b] = n])
  BY DEF Within

LEMMA ResetWithin ==
    ASSUME NEW u, Within(u)
    PROVE  Within(ResetNudges(u)) /\ Within(ResetCounters(u))
<1>0. /\ "dropped" \in Counters /\ "withheld" \in Counters /\ "empty" \in Counters
      /\ "cut" \in Counters /\ "dead" \in Counters /\ "nudge" \in Counters
  BY DEF Counters, Budgets
<1>1. \A b \in Counters : 0 <= Limit(b) BY LimitType
<1>2. ASSUME NEW v, Within(v), NEW b \in Counters PROVE Within([v EXCEPT ![b] = 0])
  BY <1>1, <1>2, Bumped
<1>3. Within(ResetNudges(u)) BY <1>0, <1>2 DEF ResetNudges
<1>4. Within(ResetCounters(u)) BY <1>0, <1>2, <1>3 DEF ResetCounters
<1>5. QED BY <1>3, <1>4

Names == Tools \cup {Schema}

PolicyInv == Within(used) /\ cutNames \subseteq Names /\ cutRepeat \subseteq Names

LEMMA PolicyStill ==
    ASSUME PolicyInv, UNCHANGED recovery
    PROVE  PolicyInv'
  BY DEF PolicyInv, recovery

LEMMA PolicyReset ==
    ASSUME PolicyInv, ResetAll
    PROVE  PolicyInv'
  BY ResetWithin DEF PolicyInv, ResetAll

LEMMA PolicySpent ==
    ASSUME PolicyInv, NEW b \in Counters, used[b] < Limit(b), Spend(b)
    PROVE  PolicyInv'
<1>1. used[b] + 1 \in Nat /\ used[b] + 1 <= Limit(b) BY LimitType DEF PolicyInv, Within
<1>2. Within(used') BY <1>1, Bumped DEF Spend, PolicyInv
<1>3. QED BY <1>2 DEF PolicyInv, Spend

LEMMA PolicyStep ==
    ASSUME PolicyInv, [Next]_vars
    PROVE  PolicyInv'
<1>0. /\ "dropped" \in Counters /\ "withheld" \in Counters /\ "empty" \in Counters
      /\ "cut" \in Counters /\ "dead" \in Counters /\ "nudge" \in Counters
      /\ "output" \in Counters
      /\ Retries["nudge"] \in Nat /\ Retries["clock"] \in Nat
  BY RetriesAssumption DEF Counters, Budgets
<1>1. CASE UNCHANGED vars BY <1>1, PolicyStill DEF vars, recovery
<1>2. CASE Host BY <1>2, PolicyStill DEF Host, SendCommands, Enqueue
<1>3. CASE BeforeCall
  BY <1>3, PolicyStill DEF BeforeCall, Begin, Steer, CheckTop, CountCall, PrepareRequest,
     CheckBeforeDispatch, Dispatch
<1>4. CASE ModelCall BY <1>4, PolicyStill DEF ModelCall, ReceiveReply, ModelFails, CheckReply
<1>5. CASE Recover
  <2>1. CASE RecoverWithheld
    <3>1. CASE Spend("withheld") /\ used["withheld"] < Retries["dropped"]
      BY <1>0, <3>1, PolicySpent DEF Limit
    <3>2. CASE UNCHANGED recovery BY <3>2, PolicyStill
    <3>3. QED BY <2>1, <3>1, <3>2 DEF RecoverWithheld, TakenAs
  <2>2. CASE RetryDead BY <1>0, <2>2, PolicySpent DEF RetryDead, Limit
  <2>3. CASE NudgeDead
    <3>1. used["nudge"] \in Nat BY <1>0 DEF PolicyInv, Within
    <3>2. used["nudge"] < Limit("nudge") BY <1>0, <2>3, <3>1 DEF NudgeDead, Limit, MaxOf
    <3>3. QED BY <1>0, <2>3, <3>2, PolicySpent DEF NudgeDead
  <2>4. CASE GiveUpDead BY <2>4, PolicyStill DEF GiveUpDead, TakenAs
  <2>5. CASE RecoverEmpty
    <3>1. CASE Spend("empty") /\ used["empty"] < Retries["empty"]
      BY <1>0, <3>1, PolicySpent DEF Limit
    <3>2. CASE UNCHANGED recovery BY <3>2, PolicyStill
    <3>3. QED BY <2>5, <3>1, <3>2 DEF RecoverEmpty, TakenAs
  <2>6. CASE RecoverDropped
    <3>1. CASE Spend("dropped") /\ used["dropped"] < Retries["dropped"]
      BY <1>0, <3>1, PolicySpent DEF Limit
    <3>2. CASE UNCHANGED recovery BY <3>2, PolicyStill
    <3>3. QED BY <2>6, <3>1, <3>2 DEF RecoverDropped, TakenAs
  <2>7. QED BY <1>5, <2>1, <2>2, <2>3, <2>4, <2>5, <2>6 DEF Recover
<1>6. CASE Resolve
  <2>1. CASE ContinueTurn \/ AcceptReply \/ RefuseBlank
    BY <2>1, PolicyReset DEF ContinueTurn, AcceptReply, RefuseBlank
  <2>2. CASE RejectOutput
    <3>1. Within(ResetCounters(used)) BY ResetWithin DEF PolicyInv
    <3>2. CASE used' = ResetCounters(used) BY <2>2, <3>1, <3>2 DEF RejectOutput, PolicyInv
    <3>3. CASE used["output"] < Retries["output"]
               /\ used' = [ResetCounters(used) EXCEPT !["output"] = used["output"] + 1]
      <4>1. used["output"] + 1 \in Nat /\ used["output"] + 1 <= Limit("output")
        BY <1>0, <3>3, LimitType DEF Limit, PolicyInv, Within
      <4>2. Within(used') BY <1>0, <3>1, <3>3, <4>1, Bumped
      <4>3. QED BY <2>2, <4>2 DEF RejectOutput, PolicyInv
    <3>4. QED BY <2>2, <3>2, <3>3 DEF RejectOutput
  <2>3. QED BY <1>6, <2>1, <2>2 DEF Resolve
<1>7. CASE WithCalls
  <2>1. ASSUME NEW t \in Tools, FailCut(t) PROVE PolicyInv' BY <2>1, PolicyStill DEF FailCut
  <2>2. ASSUME NEW t \in Tools, RefuseCut(t) PROVE PolicyInv'
    <3> DEFINE u == IF reply = "cutTools" THEN ResetNudges(used) ELSE used
    <3>1. Within(u) BY ResetWithin DEF PolicyInv
    <3>2. used["cut"] < Retries["cut"]
      <4>1. ~(used["cut"] >= Retries["cut"]) BY <2>2 DEF RefuseCut, CutIsHopeless
      <4>2. used["cut"] \in Nat /\ Retries["cut"] \in Nat
        BY <1>0, RetriesAssumption DEF PolicyInv, Within, Budgets
      <4>3. QED BY <4>1, <4>2
    <3>3. used["cut"] + 1 \in Nat /\ used["cut"] + 1 <= Limit("cut")
      BY <1>0, <3>2, LimitType DEF Limit, PolicyInv, Within
    <3>4. used' = [u EXCEPT !["cut"] = used["cut"] + 1] BY <2>2 DEF RefuseCut
    <3> HIDE DEF u
    <3>5. Within(used') BY <1>0, <3>1, <3>3, <3>4, Bumped
    <3>6. CutName(t) \in Names BY DEF CutName, Names
    <3>7. cutRepeat' = cutRepeat \cup ({CutName(t)} \cap cutNames) /\ cutNames' = {CutName(t)}
      BY <2>2 DEF RefuseCut
    <3>8. QED BY <3>5, <3>6, <3>7 DEF PolicyInv
  <2>3. CASE StartTools BY <2>3, PolicyReset DEF StartTools
  <2>4. CASE GoOn
    <3>1. CASE ResetAll BY <3>1, PolicyReset
    <3>2. CASE used' = ResetNudges(used) /\ UNCHANGED <<cutNames, cutRepeat>>
      BY <3>2, ResetWithin DEF PolicyInv
    <3>3. QED BY <2>4, <3>1, <3>2 DEF GoOn
  <2>5. CASE \/ FinishEarly \/ FinishGracefully \/ ChildRuns \/ ToolsReturn \/ ToolsDefer
             \/ ApplySteerLane \/ CheckBoundary \/ FinishGraceful
    BY <2>5, PolicyStill DEF FinishEarly, FinishGracefully, ChildRuns, ToolsReturn, ToolsDefer,
       ApplySteerLane, CheckBoundary, FinishGraceful
  <2>6. QED BY <1>7, <2>1, <2>2, <2>3, <2>4, <2>5 DEF WithCalls
<1>8. CASE Ending
  BY <1>8, PolicyStill DEF Ending, Settle, SettleSteers, SettleFollowups, SettleLane, StepFails,
     Conclude
<1>9. QED BY <1>1, <1>2, <1>3, <1>4, <1>5, <1>6, <1>7, <1>8 DEF Next, Loop

\* What the host and the hooks leave behind, and how the loop left.
EventInv ==
    /\ control \in Controls
    /\ exit \in Exits
    /\ discarded \in BOOLEAN
    /\ events \in 0..MaxEvents
    /\ sent \in 0..(events * MaxBatch)

\* A step of the loop sends nothing and takes at most one of the bounded events.
Quiet ==
    /\ control' \in Controls
    /\ exit' \in Exits
    /\ discarded' \in {discarded, TRUE, FALSE}
    /\ sent' = sent
    /\ events' = events \/ Event

LEMMA RequestedType ==
    ASSUME control \in Controls, NEW c \in Controls
    PROVE  Requested(c) \in Controls
  BY DEF Requested

LEMMA HookQuiet ==
    ASSUME control \in Controls, RunHook
    PROVE  control' \in Controls /\ (events' = events \/ Event)
  BY RequestedType DEF RunHook

LEMMA CheckpointQuiet ==
    ASSUME control \in Controls, exit \in Exits, NEW onward, Checkpoint(onward) \/ StopRun
    PROVE  control' \in Controls /\ exit' \in Exits
  BY DEF Checkpoint, StopRun, Leave, Exits, Controls

LEMMA SteeringQuiet ==
    ASSUME exit \in Exits, NEW onward, ApplySteering(onward)
    PROVE  exit' \in Exits
  BY DEF ApplySteering, Leave, Exits

LEMMA QuietBeforeCall ==
    ASSUME EventInv, BeforeCall
    PROVE  Quiet
<1> USE DEF EventInv, hostVars, ghosts, ended
<1>1. CASE Begin BY <1>1, HookQuiet DEF Begin, Quiet
<1>2. CASE Steer BY <1>2, SteeringQuiet DEF Steer, Quiet
<1>3. CASE CheckTop BY <1>3, CheckpointQuiet DEF CheckTop, Quiet
<1>4. CASE CountCall BY <1>4 DEF CountCall, Leave, Exits, Quiet
<1>5. CASE PrepareRequest BY <1>5, HookQuiet DEF PrepareRequest, Quiet
<1>6. CASE CheckBeforeDispatch BY <1>6, CheckpointQuiet DEF CheckBeforeDispatch, Quiet
<1>7. CASE Dispatch BY <1>7 DEF Dispatch, Quiet
<1>8. QED BY <1>1, <1>2, <1>3, <1>4, <1>5, <1>6, <1>7 DEF BeforeCall

LEMMA QuietReply ==
    ASSUME EventInv, ModelCall \/ Recover \/ Resolve
    PROVE  Quiet
<1> USE DEF EventInv, hostVars, ghosts, ended
<1>1. ASSUME NEW r \in Replies, ReceiveReply(r) PROVE Quiet BY <1>1, HookQuiet DEF ReceiveReply, Quiet
<1>2. CASE ModelFails BY <1>2 DEF ModelFails, Leave, Exits, Quiet
<1>3. CASE CheckReply BY <1>3, CheckpointQuiet DEF CheckReply, Quiet
<1>4. ASSUME NEW nudge, AskAgain(nudge) PROVE Quiet BY <1>4 DEF AskAgain, Quiet
<1>5. ASSUME NEW kinds, TakenAs(kinds) PROVE Quiet BY <1>5 DEF TakenAs, Quiet
<1>6. ASSUME PopAndFail PROVE Quiet BY <1>6 DEF PopAndFail, Leave, Exits, Quiet
<1>7. CASE RecoverWithheld BY <1>4, <1>5, <1>7 DEF RecoverWithheld
<1>8. CASE RetryDead \/ NudgeDead BY <1>4, <1>8 DEF RetryDead, NudgeDead
<1>9. CASE GiveUpDead BY <1>5, <1>6, <1>9 DEF GiveUpDead
<1>10. CASE RecoverEmpty BY <1>4, <1>5, <1>10 DEF RecoverEmpty
<1>11. CASE RecoverDropped
  <2>1. CASE TakenAs({"final", "blank", "badText", "continue"}) BY <1>5, <2>1
  <2>2. CASE ~TakenAs({"final", "blank", "badText", "continue"})
    <3>1. UNCHANGED <<control, ended, hostVars, ghosts>> BY <1>11, <2>2 DEF RecoverDropped
    <3>2. QED BY <3>1 DEF Quiet
  <2>3. QED BY <2>1, <2>2
<1>12. CASE ContinueTurn BY <1>12 DEF ContinueTurn, Quiet
<1>13. CASE RejectOutput BY <1>13 DEF RejectOutput, Leave, Exits, Quiet
<1>14. CASE AcceptReply BY <1>14 DEF AcceptReply, Quiet
<1>15. CASE RefuseBlank BY <1>6, <1>15 DEF RefuseBlank
<1>16. QED BY <1>1, <1>2, <1>3, <1>7, <1>8, <1>9, <1>10, <1>11, <1>12, <1>13, <1>14, <1>15
       DEF ModelCall, Recover, Resolve

LEMMA QuietWithCalls ==
    ASSUME EventInv, WithCalls
    PROVE  Quiet
<1> USE DEF EventInv, hostVars, ghosts, ended
<1>1. ASSUME NEW t \in Tools, FailCut(t) PROVE Quiet
  BY <1>1 DEF FailCut, PopAndFail, Leave, Exits, Quiet
<1>2. ASSUME NEW t \in Tools, RefuseCut(t) PROVE Quiet
  BY <1>2, HookQuiet DEF RefuseCut, Quiet
<1>3. CASE StartTools \/ ChildRuns BY <1>3 DEF StartTools, ChildRuns, Quiet
<1>4. CASE FinishEarly BY <1>4 DEF FinishEarly, Quiet
<1>5. CASE FinishGracefully \/ GoOn BY <1>5 DEF FinishGracefully, GoOn, Quiet
<1>6. CASE ToolsReturn BY <1>6, HookQuiet DEF ToolsReturn, Quiet
<1>7. CASE ToolsDefer BY <1>7 DEF ToolsDefer, Leave, Exits, Quiet
<1>8. CASE ApplySteerLane
  <2>1. "end" \in Controls BY DEF Controls
  <2>2. QED BY <1>8, <2>1, RequestedType DEF ApplySteerLane, Quiet
<1>9. CASE CheckBoundary BY <1>9, CheckpointQuiet DEF CheckBoundary, Quiet
<1>10. CASE FinishGraceful BY <1>10, CheckpointQuiet DEF FinishGraceful, Controls, Quiet
<1>11. QED BY <1>1, <1>2, <1>3, <1>4, <1>5, <1>6, <1>7, <1>8, <1>9, <1>10 DEF WithCalls

LEMMA QuietEnding ==
    ASSUME EventInv, Ending
    PROVE  Quiet
<1> USE DEF EventInv, hostVars, ghosts, ended
<1>1. CASE Settle BY <1>1, SteeringQuiet DEF Settle, Quiet
<1>2. CASE SettleSteers BY <1>2 DEF SettleSteers, SettleLane, Quiet
<1>3. CASE SettleFollowups BY <1>3 DEF SettleFollowups, SettleLane, Leave, Exits, Quiet
<1>4. CASE StepFails BY <1>4 DEF StepFails, Leave, Exits, Quiet
<1>5. CASE Conclude BY <1>5 DEF Conclude, Exits, Quiet
<1>6. QED BY <1>1, <1>2, <1>3, <1>4, <1>5 DEF Ending

LEMMA OneBatchMore ==
    ASSUME NEW e \in Nat
    PROVE  e * MaxBatch \in Nat /\ (e + 1) * MaxBatch = e * MaxBatch + MaxBatch
  BY EventsAssumption

LEMMA EventStep ==
    ASSUME EventInv, [Next]_vars
    PROVE  EventInv'
<1> USE EventsAssumption
<1>1. CASE UNCHANGED vars BY <1>1 DEF vars, EventInv
<1>2. CASE Loop
  <2>1. Quiet
    BY <1>2, QuietBeforeCall, QuietReply, QuietWithCalls, QuietEnding DEF Loop
  <2>2. discarded' \in BOOLEAN BY <2>1 DEF Quiet, EventInv
  <2>3. events' = events \/ (events < MaxEvents /\ events' = events + 1)
    BY <2>1 DEF Quiet, Event
  <2>4. events' \in 0..MaxEvents /\ sent' \in 0..(events' * MaxBatch)
    BY <2>1, <2>3, OneBatchMore DEF Quiet, EventInv
  <2>5. QED BY <2>1, <2>2, <2>4 DEF Quiet, EventInv
<1>3. CASE Host
  <2>1. PICK n \in 1..MaxBatch :
            \/ \E batch \in [1..n -> Commands] : SendCommands(batch)
            \/ \E l \in Lanes : Enqueue(l, n)
    BY <1>3 DEF Host
  <2>2. /\ UNCHANGED <<control, exit, discarded>>
        /\ events < MaxEvents /\ events' = events + 1
    BY <2>1 DEF SendCommands, Enqueue, Event, ended
  <2>3. \E k \in 0..MaxBatch : sent' = sent + k
    <3>1. ASSUME NEW batch \in [1..n -> Commands], SendCommands(batch)
          PROVE  \E k \in 0..MaxBatch : sent' = sent + k
      <4>1. {k \in DOMAIN batch : batch[k] = "Inject"} \subseteq 1..n OBVIOUS
      <4>2. IsFiniteSet(1..n) /\ Cardinality(1..n) = n
        <5>1. 1 \in Int /\ n \in Int OBVIOUS
        <5>2. IsFiniteSet(1..n) /\ Cardinality(1..n) = IF 1 > n THEN 0 ELSE n - 1 + 1
          BY <5>1, FS_Interval
        <5>3. QED BY <5>2
      <4>3. Count(batch, "Inject") \in Nat /\ Count(batch, "Inject") <= n
        BY <4>1, <4>2, FS_Subset, FS_CardinalityType DEF Count
      <4>4. QED BY <3>1, <4>3 DEF SendCommands
    <3>2. ASSUME NEW l \in Lanes, Enqueue(l, n)
          PROVE  \E k \in 0..MaxBatch : sent' = sent + k
      BY <3>2 DEF Enqueue
    <3>3. QED BY <2>1, <3>1, <3>2
  <2>4. events' \in 0..MaxEvents /\ sent' \in 0..(events' * MaxBatch)
    BY <2>2, <2>3, OneBatchMore DEF EventInv
  <2>5. QED BY <2>2, <2>4 DEF EventInv
<1>4. QED BY <1>1, <1>2, <1>3 DEF Next

\* Every variable of a run has its type; in particular no recovery is tried
\* more often than the policy's budget for it, however the recoveries and
\* their resets follow each other.
THEOREM TypeCorrect == Spec => []TypeOK
<1>1. Init => PolicyInv
  <2> SUFFICES ASSUME Init PROVE PolicyInv OBVIOUS
  <2>1. used = [b \in Counters |-> 0] /\ cutNames = {} /\ cutRepeat = {} BY DEF Init
  <2>2. QED BY <2>1, LimitType DEF PolicyInv, Within
<1>2. Init => EventInv
  <2> SUFFICES ASSUME Init PROVE EventInv OBVIOUS
  <2>1. control \in Controls /\ exit \in Exits BY DEF Init, Controls, Exits
  <2>2. discarded \in BOOLEAN BY DEF Init
  <2>3. events = 0 /\ sent = 0 BY DEF Init
  <2>4. events \in 0..MaxEvents /\ sent \in 0..(events * MaxBatch)
    BY <2>3, EventsAssumption
  <2>5. QED BY <2>1, <2>2, <2>4 DEF EventInv
<1>3. Init => EndInv
  BY DEF Init, EndInv, ExitIsEarned, DiscardedIsReplaced, FinalIsCurrent
<1>4. PolicyInv /\ [Next]_vars => PolicyInv' BY PolicyStep
<1>5. EventInv /\ [Next]_vars => EventInv' BY EventStep
<1>6. EndInv /\ [Next]_vars => EndInv' BY EndStep
<1>7. TurnInv /\ Shape /\ CountInv /\ EndInv /\ PolicyInv /\ EventInv => TypeOK
  <2> SUFFICES ASSUME TurnInv, Shape, CountInv, EndInv, PolicyInv, EventInv PROVE TypeOK
    OBVIOUS
  <2>1. /\ pc \in Pcs /\ rows \in Seq(Rows)
        /\ reply \in TextReplies \cup StructReplies \cup CallReplies \cup BothReplies \cup {"none"}
        /\ announced \in 0..Len(rows) /\ open \in 0..Len(rows)
        /\ inbox \in Seq(Commands) /\ lanes \in [Lanes -> Nat]
    BY DEF TurnInv, Shape, HostType, AllReplies
  <2>2. mirror \in Seq(Rows) BY <2>1 DEF TurnInv, MirrorAgrees
  <2>3. /\ answered \in 0..MaxModelCalls /\ calls \in 0..(MaxModelCalls + 1)
        /\ turn \in 0..MaxModelCalls /\ final \in SUBSET (0..MaxModelCalls)
    BY CapAssumption DEF CountInv
  <2>4. free \in 0..Permits BY PermitsAssumption DEF CountInv
  <2>5. completed \in 0..MaxModelCalls
    BY <2>3, CapAssumption DEF TurnInv, TurnsPaired
  <2>6. /\ used \in [Counters -> Nat]
        /\ \A b \in Counters \ {"withheld", "nudge"} : used[b] <= Retries[b]
        /\ used["withheld"] <= Retries["dropped"]
        /\ used["nudge"] <= MaxOf(Retries["nudge"], Retries["clock"])
    <3>1. "withheld" \in Counters /\ "nudge" \in Counters BY DEF Counters, Budgets
    <3>2. used \in [Counters -> Nat] /\ \A b \in Counters : used[b] <= Limit(b)
      BY DEF PolicyInv, Within
    <3>3. QED BY <3>1, <3>2 DEF Limit
  <2>7. cutNames \subseteq Tools \cup {Schema} /\ cutRepeat \subseteq Tools \cup {Schema}
    BY DEF PolicyInv, Names
  <2>8. /\ control \in Controls /\ exit \in Exits /\ events \in 0..MaxEvents
        /\ sent \in 0..(events * MaxBatch)
    BY DEF EventInv
  <2>9. discarded \in BOOLEAN BY DEF EventInv
  <2>10. exit = "none" <=> pc \notin {"exit", "done"} BY DEF EndInv
  <2>11. QED BY <2>1, <2>2, <2>3, <2>4, <2>5, <2>6, <2>7, <2>8, <2>9, <2>10 DEF TypeOK
<1>8. QED BY <1>1, <1>2, <1>3, <1>4, <1>5, <1>6, <1>7, ShapeHolds, CountsHold, PTL DEF Spec
=============================================================================
