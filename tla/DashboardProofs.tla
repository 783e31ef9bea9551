-------------------------- MODULE DashboardProofs --------------------------
(***************************************************************************)
(* Proofs about Dashboard, for all files, forms, numbers of batches and    *)
(* failures: the preview and its price cover what a batch sends, the range *)
(* offered after a batch fits to what it has recorded, and batches sent    *)
(* one from the offer of the other send each row once.                     *)
(***************************************************************************)
EXTENDS Dashboard, SequenceTheorems, FiniteSetTheorems, WellFoundedInduction, TLAPS

LEMMA RangeLemma ==
    ASSUME NEW rows \in Seq(Item), NEW start \in Nat, NEW end \in Nat
    PROVE  /\ ApplyDataRange(rows, start, end) \in Seq(Item)
           /\ Len(ApplyDataRange(rows, start, end)) =
                LET last == IF end = 0 \/ end > Len(rows) THEN Len(rows) ELSE end
                    first == IF start = 0 THEN 1 ELSE start
                IN  IF first <= last THEN last - first + 1 ELSE 0
<1> DEFINE last == IF end = 0 THEN Len(rows) ELSE Least(end, Len(rows))
           first == FirstOf(start)
<1>1. Len(rows) \in Nat /\ first \in Nat /\ first >= 1 /\ last \in Nat /\ last <= Len(rows)
  BY DEF FirstOf, Most, Least
<1>2. \A i \in first..last : rows[i] \in Item
  BY <1>1, SMT
<1> HIDE DEF first, last
<1>3. /\ SubSeq(rows, first, last) \in Seq(Item)
      /\ Len(SubSeq(rows, first, last)) = IF first <= last THEN last - first + 1 ELSE 0
  BY <1>1, <1>2, SubSeqProperties
<1>4. ApplyDataRange(rows, start, end) = SubSeq(rows, first, last)
  BY DEF ApplyDataRange, first, last
<1>5. first = IF start = 0 THEN 1 ELSE start
  BY DEF first, FirstOf, Most
<1>6. last = IF end = 0 \/ end > Len(rows) THEN Len(rows) ELSE end
  BY <1>1 DEF last, Least
<1> QED BY <1>3, <1>4, <1>5, <1>6

-----------------------------------------------------------------------------
(* Sets of numbers.                                                        *)

\* The least-number principle.
LEMMA LeastElement ==
    ASSUME NEW T \in SUBSET Nat, T # {}
    PROVE  \E m \in T : \A n \in T : m <= n
<1> DEFINE R == OpToRel(<, Nat)
<1>1. IsWellFoundedOn(R, Nat)
  BY NatLessThanWellFounded
<1>2. \A x, y \in Nat : <<x, y>> \in R <=> x < y
  BY DEF OpToRel
<1> HIDE DEF R
<1>3. PICK m \in T : \A y \in T : ~(<<y, m>> \in R)
  BY <1>1, WFMin
<1>4. m \in Nat /\ \A n \in T : n \in Nat /\ ~(n < m)
  BY <1>2, <1>3
<1>5. \A n \in T : m <= n
  BY <1>4
<1> QED BY <1>5

-----------------------------------------------------------------------------
(* The numbers the processing remembers.                                   *)

\* What is remembered after k rows, without the loop: a row whose number is
\* known already adds nothing, so skipping makes no difference.
KnownNumbers(rows, k) ==
    {rows[j].phone : j \in {i \in 1..k : rows[i].renders /\ rows[i].phone # NoPhone}}

LEMMA KnownNumbersGrow ==
    ASSUME NEW rows \in Seq(Item), NEW skip \in BOOLEAN, NEW k \in 1..Len(rows)
    PROVE  KnownNumbers(rows, k) =
             IF Outcome(rows[k], KnownNumbers(rows, k - 1), skip) = "send"
             THEN KnownNumbers(rows, k - 1) \cup {rows[k].phone} ELSE KnownNumbers(rows, k - 1)
<1>1. k \in Nat /\ 1..k = 1..k - 1 \cup {k}
  OBVIOUS
<1>2. KnownNumbers(rows, k) = IF rows[k].renders /\ rows[k].phone # NoPhone
                         THEN KnownNumbers(rows, k - 1) \cup {rows[k].phone}
                         ELSE KnownNumbers(rows, k - 1)
  BY <1>1 DEF KnownNumbers
<1>3. CASE Outcome(rows[k], KnownNumbers(rows, k - 1), skip) = "send"
  BY <1>2, <1>3 DEF Outcome
<1>4. CASE Outcome(rows[k], KnownNumbers(rows, k - 1), skip) # "send"
  <2>1. (rows[k].renders /\ rows[k].phone # NoPhone) => rows[k].phone \in KnownNumbers(rows, k - 1)
    BY <1>4 DEF Outcome
  <2> QED BY <1>2, <1>4, <2>1
<1> QED BY <1>3, <1>4

LEMMA SeenEquation ==
    ASSUME NEW rows \in Seq(Item), NEW skip \in BOOLEAN
    PROVE  LET seen == SeenAfter(rows, skip) IN
             /\ seen[0] = {}
             /\ \A k \in 1..Len(rows) :
                  seen[k] = IF Outcome(rows[k], seen[k - 1], skip) = "send"
                            THEN seen[k - 1] \cup {rows[k].phone} ELSE seen[k - 1]
<1> DEFINE Step(f, k) == IF k = 0 THEN {}
                         ELSE IF Outcome(rows[k], f[k-1], skip) = "send"
                                THEN f[k-1] \cup {rows[k].phone} ELSE f[k-1]
           known == [k \in 0..Len(rows) |-> KnownNumbers(rows, k)]
           seen == SeenAfter(rows, skip)
<1>1. \A k \in 0..Len(rows) : known[k] = Step(known, k)
  <2>1. KnownNumbers(rows, 0) = {}
    BY DEF KnownNumbers
  <2>2. \A k \in 1..Len(rows) : known[k - 1] = KnownNumbers(rows, k - 1)
    OBVIOUS
  <2>3. \A k \in 1..Len(rows) : known[k] = Step(known, k)
    BY <2>2, KnownNumbersGrow
  <2>4. known[0] = Step(known, 0)
    BY <2>1
  <2>5. \A k \in 0..Len(rows) : k = 0 \/ k \in 1..Len(rows)
    OBVIOUS
  <2> HIDE DEF known, Step
  <2> QED BY <2>3, <2>4, <2>5
<1>2. known = [k \in 0..Len(rows) |-> Step(known, k)]
  BY <1>1
<1>3. seen = [k \in 0..Len(rows) |-> Step(seen, k)]
  <2> HIDE DEF known
  <2> QED BY <1>2 DEF SeenAfter
<1> HIDE DEF seen
<1>4. \A k \in 0..Len(rows) : seen[k] = Step(seen, k)
  BY <1>3
<1>5. Len(rows) \in Nat
  OBVIOUS
<1>6. seen[0] = {}
  <2>1. 0 \in 0..Len(rows)
    BY <1>5
  <2>2. seen[0] = Step(seen, 0)
    BY <1>4, <2>1
  <2> QED BY <2>2
<1>7. ASSUME NEW k \in 1..Len(rows)
      PROVE  seen[k] = IF Outcome(rows[k], seen[k - 1], skip) = "send"
                       THEN seen[k - 1] \cup {rows[k].phone} ELSE seen[k - 1]
  <2>1. k \in 0..Len(rows) /\ k # 0
    BY <1>5
  <2> QED BY <1>4, <2>1
<1> QED BY <1>6, <1>7 DEF seen

LEMMA SeenIsKnownNumbers ==
    ASSUME NEW rows \in Seq(Item), NEW skip \in BOOLEAN
    PROVE  \A k \in 0..Len(rows) : SeenAfter(rows, skip)[k] = KnownNumbers(rows, k)
<1> DEFINE seen == SeenAfter(rows, skip)
           T == {k \in 0..Len(rows) : seen[k] # KnownNumbers(rows, k)}
<1>1. /\ seen[0] = {}
      /\ \A k \in 1..Len(rows) :
           seen[k] = IF Outcome(rows[k], seen[k - 1], skip) = "send"
                     THEN seen[k - 1] \cup {rows[k].phone} ELSE seen[k - 1]
  BY SeenEquation
<1> HIDE DEF seen
<1> SUFFICES ASSUME T # {} PROVE FALSE
  BY DEF seen
<1>2. PICK m \in T : \A n \in T : m <= n
  <2>1. T \in SUBSET Nat
    OBVIOUS
  <2> HIDE DEF T
  <2> QED BY <2>1, LeastElement
<1>3. m # 0
  BY <1>1 DEF KnownNumbers
<1>4. m \in 1..Len(rows) /\ m - 1 \in 0..Len(rows)
  BY <1>3
<1>5. m - 1 \notin T
  BY <1>2, <1>4
<1>6. seen[m - 1] = KnownNumbers(rows, m - 1)
  BY <1>4, <1>5
<1>7. seen[m] = KnownNumbers(rows, m)
  BY <1>1, <1>4, <1>6, KnownNumbersGrow
<1> QED BY <1>7

\* The outcome of each row, without the loop.
LEMMA OutcomeOf ==
    ASSUME NEW rows \in Seq(Item), NEW skip \in BOOLEAN, NEW k \in DOMAIN rows
    PROVE  Outcomes(rows, skip)[k] = Outcome(rows[k], KnownNumbers(rows, k - 1), skip)
<1>1. k \in 1..Len(rows) /\ k - 1 \in 0..Len(rows)
  OBVIOUS
<1> QED BY <1>1, SeenIsKnownNumbers DEF Outcomes

-----------------------------------------------------------------------------
(* The preview and the processing count the same rows.                     *)

LEMMA LimitedIsPrefix ==
    ASSUME NEW rows \in Seq(Item), NEW limit \in Nat
    PROVE  LET part == Limited(rows, limit) IN
             /\ part \in Seq(Item) /\ Len(part) <= Len(rows)
             /\ \A k \in DOMAIN part : part[k] = rows[k]
<1> DEFINE last == Least(limit, Len(rows))
<1>1. last \in Nat /\ last <= Len(rows) /\ Len(rows) \in Nat
  BY DEF Least
<1>2. \A i \in 1..last : rows[i] \in Item
  BY <1>1, SMT
<1>3. Limited(rows, limit) = IF limit = 0 THEN rows ELSE SubSeq(rows, 1, last)
  BY DEF Limited
<1> HIDE DEF last
<1>4. PICK part : part = SubSeq(rows, 1, last)
  OBVIOUS
<1>5. /\ part \in Seq(Item)
      /\ Len(part) = IF 1 <= last THEN last - 1 + 1 ELSE 0
      /\ \A i \in 1..last - 1 + 1 : part[i] = rows[1 + i - 1]
  BY <1>1, <1>2, <1>4, SubSeqProperties
<1>6. Len(part) = last /\ DOMAIN part = 1..last
  BY <1>1, <1>5
<1>7. \A k \in DOMAIN part : part[k] = rows[k]
  BY <1>1, <1>5, <1>6
<1> QED BY <1>1, <1>3, <1>4, <1>5, <1>6, <1>7

\* Which rows the preview counts.
Counted(rows, status) == {k \in DOMAIN rows : PreviewStatus(rows, k) = status}

LEMMA CountedIsFinite ==
    ASSUME NEW rows \in Seq(Item), NEW status
    PROVE  /\ Counted(rows, status) \subseteq 1..Len(rows)
           /\ IsFiniteSet(Counted(rows, status))
           /\ CountOf(rows, status) = Cardinality(Counted(rows, status))
           /\ CountOf(rows, status) \in Nat
<1>1. Counted(rows, status) \subseteq 1..Len(rows) /\ Len(rows) \in Nat
  BY DEF Counted
<1>2. IsFiniteSet(1..Len(rows))
  BY <1>1, FS_Interval
<1>3. IsFiniteSet(Counted(rows, status))
  BY <1>1, <1>2, FS_Subset
<1>4. CountOf(rows, status) = Cardinality(Counted(rows, status))
  BY DEF CountOf, Counted
<1> QED BY <1>1, <1>3, <1>4, FS_CardinalityType

\* Every number in the rows is counted as "ok" where it stands first.
LEMMA FirstOfItsNumber ==
    ASSUME NEW rows \in Seq(Item), NEW k \in DOMAIN rows, rows[k].phone # NoPhone
    PROVE  \E j \in Counted(rows, "ok") : rows[j].phone = rows[k].phone
<1> DEFINE T == {j \in 1..k : rows[j].phone = rows[k].phone}
<1>1. k \in 1..Len(rows) /\ T \in SUBSET Nat /\ k \in T
  OBVIOUS
<1>2. PICK m \in T : \A n \in T : m <= n
  <2> HIDE DEF T
  <2> QED BY <1>1, LeastElement
<1>3. m \in DOMAIN rows /\ rows[m].phone # NoPhone
  BY <1>1
<1>4. \A j \in 1..m - 1 : rows[j].phone # rows[m].phone
  BY <1>1, <1>2
<1>5. PreviewStatus(rows, m) = "ok"
  BY <1>3, <1>4 DEF PreviewStatus
<1> QED BY <1>3, <1>5 DEF Counted

\* The first n rows of a part send no more messages than the preview of the
\* whole counts rows with a number, and with skipping than it counts as "ok".
LEMMA SendsAreCounted ==
    ASSUME NEW rows \in Seq(Item), NEW part \in Seq(Item), Len(part) <= Len(rows),
           \A k \in DOMAIN part : part[k] = rows[k],
           NEW skip \in BOOLEAN, NEW n \in Nat, n <= Len(part)
    PROVE  LET sends == Cardinality({k \in 1..n : Outcomes(part, skip)[k] = "send"})
           IN  /\ sends <= CountOf(rows, "ok") + CountOf(rows, "duplicate")
               /\ skip => sends <= CountOf(rows, "ok")
<1> DEFINE S == {k \in 1..n : Outcomes(part, skip)[k] = "send"}
           V == Counted(rows, "ok")
           D == Counted(rows, "duplicate")
<1>1. /\ IsFiniteSet(V) /\ CountOf(rows, "ok") = Cardinality(V)
      /\ IsFiniteSet(D) /\ CountOf(rows, "duplicate") = Cardinality(D)
      /\ Cardinality(V) \in Nat /\ Cardinality(D) \in Nat
  BY CountedIsFinite
<1>2. ASSUME NEW k \in S
      PROVE  /\ k \in DOMAIN part /\ k \in DOMAIN rows /\ k \in Nat /\ part[k] = rows[k]
             /\ rows[k].renders /\ rows[k].phone # NoPhone
             /\ skip => rows[k].phone \notin KnownNumbers(part, k - 1)
  <2>1. k \in DOMAIN part /\ k \in DOMAIN rows /\ k \in Nat /\ part[k] = rows[k]
    OBVIOUS
  <2>2. Outcome(part[k], KnownNumbers(part, k - 1), skip) = "send"
    BY <2>1, OutcomeOf
  <2> QED BY <2>1, <2>2 DEF Outcome
<1> HIDE DEF S
<1>3. Cardinality(S) <= Cardinality(V) + Cardinality(D)
  <2>1. S \subseteq V \cup D
    BY <1>2 DEF Counted, PreviewStatus
  <2>2. V \cap D = {}
    BY DEF Counted
  <2> HIDE DEF V, D
  <2>3. IsFiniteSet(V \cup D) /\ Cardinality(V \cup D) = Cardinality(V) + Cardinality(D)
    <3>1. /\ IsFiniteSet(V \cup D)
          /\ Cardinality(V \cup D) = Cardinality(V) + Cardinality(D) - Cardinality(V \cap D)
      BY <1>1, FS_Union
    <3>2. Cardinality(V \cap D) = 0
      BY <2>2, FS_EmptySet
    <3> QED BY <1>1, <3>1, <3>2
  <2>4. Cardinality(S) <= Cardinality(V \cup D)
    BY <2>1, <2>3, FS_Subset
  <2> QED BY <2>3, <2>4
<1>4. ASSUME skip PROVE Cardinality(S) <= Cardinality(V)
  <2> DEFINE f == [k \in S |-> CHOOSE j \in V : rows[j].phone = rows[k].phone]
  <2>1. ASSUME NEW k \in S PROVE f[k] \in V /\ rows[f[k]].phone = rows[k].phone
    BY <1>2, FirstOfItsNumber
  <2>2. ASSUME NEW j \in S, NEW k \in S, j < k PROVE rows[j].phone # rows[k].phone
    <3>1. /\ j \in Nat /\ k \in Nat /\ rows[k].phone \notin KnownNumbers(part, k - 1)
          /\ part[j].renders /\ part[j].phone # NoPhone /\ part[j] = rows[j]
          /\ j \in DOMAIN part
      BY <1>2, <1>4
    <3>2. j \in 1..k - 1
      BY <2>2, <3>1
    <3>3. part[j].phone \in KnownNumbers(part, k - 1)
      BY <3>1, <3>2 DEF KnownNumbers
    <3> QED BY <3>1, <3>3
  <2>3. ASSUME NEW j \in S, NEW k \in S, f[j] = f[k] PROVE j = k
    <3>1. rows[j].phone = rows[k].phone
      BY <2>1, <2>3
    <3>2. j \in Nat /\ k \in Nat
      BY <1>2
    <3> QED BY <2>2, <3>1, <3>2
  <2>4. f \in [S -> V]
    BY <2>1
  <2> HIDE DEF f, V
  <2>5. f \in Injection(S, V)
    BY <2>3, <2>4 DEF Injection, IsInjective
  <2> QED BY <1>1, <2>5, FS_Injection
<1> QED BY <1>1, <1>3, <1>4 DEF S

\* With skipping and rows that all render, each row has the outcome the preview
\* told.
LEMMA OutcomesArePreviewed ==
    ASSUME NEW rows \in Seq(Item), \A k \in DOMAIN rows : rows[k].renders
    PROVE  LET Recorded(s) == Cardinality({k \in 1..Len(rows) : Outcomes(rows, TRUE)[k] = s})
           IN  /\ Recorded("send") = CountOf(rows, "ok")
               /\ Recorded("invalid_phone") = CountOf(rows, "invalid_phone")
               /\ Recorded("duplicate") = CountOf(rows, "duplicate")
<1>1. ASSUME NEW k \in DOMAIN rows
      PROVE  LET o == Outcomes(rows, TRUE)[k]
                 p == PreviewStatus(rows, k)
             IN  /\ o = "send" <=> p = "ok"
                 /\ o = "invalid_phone" <=> p = "invalid_phone"
                 /\ o = "duplicate" <=> p = "duplicate"
  <2>1. k \in 1..Len(rows) /\ rows[k].renders /\ \A j \in 1..k - 1 : rows[j].renders
    OBVIOUS
  <2>2. rows[k].phone # NoPhone =>
          (rows[k].phone \in KnownNumbers(rows, k - 1)
             <=> \E j \in 1..k - 1 : rows[j].phone = rows[k].phone)
    BY <2>1 DEF KnownNumbers
  <2>3. Outcomes(rows, TRUE)[k] = Outcome(rows[k], KnownNumbers(rows, k - 1), TRUE)
    BY OutcomeOf
  <2> QED BY <2>1, <2>2, <2>3 DEF Outcome, PreviewStatus
<1>2. DOMAIN rows = 1..Len(rows)
  OBVIOUS
<1>3. /\ {k \in 1..Len(rows) : Outcomes(rows, TRUE)[k] = "send"}
           = {k \in DOMAIN rows : PreviewStatus(rows, k) = "ok"}
      /\ {k \in 1..Len(rows) : Outcomes(rows, TRUE)[k] = "invalid_phone"}
           = {k \in DOMAIN rows : PreviewStatus(rows, k) = "invalid_phone"}
      /\ {k \in 1..Len(rows) : Outcomes(rows, TRUE)[k] = "duplicate"}
           = {k \in DOMAIN rows : PreviewStatus(rows, k) = "duplicate"}
  BY <1>1, <1>2
<1> QED BY <1>3 DEF CountOf

-----------------------------------------------------------------------------
(* One life.                                                               *)

\* A count k is at most the row in hand behind what will be recorded.
Near(l, k) == k <= l.recorded /\ l.recorded + l.in_hand <= k + 1

\* What holds of the life of a batch of n rows: total_rows is out of date by
\* the row in hand at most, and exact if nobody pressed stop.
LifeInv(l, n) ==
    /\ l \in Life!Lives(n)
    /\ l.in_hand = 1 => l.phase = "active" /\ l.recorded < n
    /\ l.stop = "counted" => Near(l, l.counted)
    /\ l.total_rows # 0 => Near(l, l.total_rows) /\ (Life!Stopped(l) \/ l.phase # "active")
    /\ (~Life!Stopped(l) /\ l.phase \in {"ending", "counted", "finished"}) =>
          l.recorded = n
    /\ (~Life!Stopped(l) /\ l.phase \in {"counted", "finished"}) =>
          l.total_rows = l.recorded

LEMMA NewLifeInv ==
    ASSUME NEW n \in Nat
    PROVE  LifeInv(Life!NewLife, n)
BY DEF LifeInv, Life!NewLife, Life!Lives, Life!Phases, Life!Stops, Life!Stopped, Near

LEMMA ThreadGone ==
    ASSUME NEW n \in Nat, NEW l, LifeInv(l, n)
    PROVE  LifeInv(Life!WithoutThread(l), n)
<1> DEFINE m == [l EXCEPT !.phase = "lost", !.in_hand = 0]
<1>1. /\ m.phase = "lost" /\ m.recorded = l.recorded
      /\ m.in_hand = 0 /\ m.stop = l.stop
      /\ m.counted = l.counted /\ m.total_rows = l.total_rows
  BY DEF LifeInv, Life!Lives
<1>2. m \in Life!Lives(n)
  BY DEF LifeInv, Life!Lives, Life!Phases
<1> HIDE DEF m
<1>3. LifeInv(m, n)
  BY <1>1, <1>2 DEF LifeInv, Life!Lives, Life!Stopped, Near
<1> QED BY <1>3 DEF Life!WithoutThread, m

LEMMA StopGone ==
    ASSUME NEW n \in Nat, NEW l, LifeInv(l, n)
    PROVE  LifeInv(Life!WithoutStop(l), n)
<1>1. CASE l.stop = "accepted"
  <2> DEFINE m == [l EXCEPT !.stop = "none"]
  <2>1. /\ m.phase = l.phase /\ m.recorded = l.recorded
        /\ m.in_hand = l.in_hand /\ m.stop = "none"
        /\ m.counted = l.counted /\ m.total_rows = l.total_rows
    BY DEF LifeInv, Life!Lives
  <2>2. m \in Life!Lives(n)
    BY DEF LifeInv, Life!Lives, Life!Stops
  <2> HIDE DEF m
  <2>3. LifeInv(m, n)
    BY <1>1, <2>1, <2>2 DEF LifeInv, Life!Lives, Life!Stopped, Near
  <2> QED BY <1>1, <2>3 DEF Life!WithoutStop, m
<1>2. CASE l.stop # "accepted" /\ Life!Stopped(l)
  <2> DEFINE m == [l EXCEPT !.stop = "done", !.counted = 0]
  <2>1. /\ m.phase = l.phase /\ m.recorded = l.recorded
        /\ m.in_hand = l.in_hand /\ m.stop = "done"
        /\ m.counted = 0 /\ m.total_rows = l.total_rows
    BY DEF LifeInv, Life!Lives
  <2>2. 0 \in 0..n
    OBVIOUS
  <2>3. m \in Life!Lives(n)
    BY <2>2 DEF LifeInv, Life!Lives, Life!Stops
  <2> HIDE DEF m
  <2>4. LifeInv(m, n)
    BY <1>2, <2>1, <2>3 DEF LifeInv, Life!Lives, Life!Stopped, Near
  <2> QED BY <1>2, <2>4 DEF Life!WithoutStop, m
<1>3. CASE l.stop # "accepted" /\ ~Life!Stopped(l)
  BY <1>3 DEF Life!WithoutStop
<1> QED BY <1>1, <1>2, <1>3

\* Every step of a life keeps it so.
LEMMA LifeKept ==
    ASSUME NEW n \in Nat, NEW l, LifeInv(l, n), NEW m \in Life!LifeSteps(l, n)
    PROVE  LifeInv(m, n)
<1>1. CASE m \in Life!TakeUp(l, n)
  <2> SUFFICES ASSUME l.phase = "active" /\ l.in_hand = 0 /\ ~Life!Stopped(l) /\ l.recorded < n,
                      m = [l EXCEPT !.in_hand = 1]
               PROVE  LifeInv(m, n)
    BY <1>1 DEF Life!TakeUp, Life!When
  <2>1. /\ m.phase = l.phase /\ m.recorded = l.recorded
        /\ m.in_hand = 1 /\ m.stop = l.stop
        /\ m.counted = l.counted /\ m.total_rows = l.total_rows
    BY DEF LifeInv, Life!Lives
  <2>2. m \in Life!Lives(n)
    BY DEF LifeInv, Life!Lives, Life!Phases, Life!Stops
  <2> QED BY <2>1, <2>2 DEF LifeInv, Life!Lives, Life!Phases, Life!Stops, Life!Stopped, Near
<1>2. CASE m \in Life!Record(l)
  <2> SUFFICES ASSUME l.phase = "active" /\ l.in_hand = 1,
                      m = [l EXCEPT !.in_hand = 0, !.recorded = l.recorded + 1]
               PROVE  LifeInv(m, n)
    BY <1>2 DEF Life!Record, Life!When
  <2>1. /\ m.phase = l.phase /\ m.recorded = l.recorded + 1
        /\ m.in_hand = 0 /\ m.stop = l.stop
        /\ m.counted = l.counted /\ m.total_rows = l.total_rows
    BY DEF LifeInv, Life!Lives
  <2>3. l.recorded + 1 \in 0..n
    BY DEF LifeInv, Life!Lives
  <2>2. m \in Life!Lives(n)
    BY <2>3 DEF LifeInv, Life!Lives, Life!Phases, Life!Stops
  <2> QED BY <2>1, <2>2 DEF LifeInv, Life!Lives, Life!Phases, Life!Stops, Life!Stopped, Near
<1>3. CASE m \in Life!Leave(l, n)
  <2> SUFFICES ASSUME l.phase = "active" /\ l.in_hand = 0 /\ (Life!Stopped(l) \/ l.recorded = n),
                      m = [l EXCEPT !.phase = "ending"]
               PROVE  LifeInv(m, n)
    BY <1>3 DEF Life!Leave, Life!When
  <2>1. /\ m.phase = "ending" /\ m.recorded = l.recorded
        /\ m.in_hand = l.in_hand /\ m.stop = l.stop
        /\ m.counted = l.counted /\ m.total_rows = l.total_rows
    BY DEF LifeInv, Life!Lives
  <2>2. m \in Life!Lives(n)
    BY DEF LifeInv, Life!Lives, Life!Phases, Life!Stops
  <2> QED BY <2>1, <2>2 DEF LifeInv, Life!Lives, Life!Phases, Life!Stops, Life!Stopped, Near
<1>4. CASE m \in Life!Close(l)
  <2> SUFFICES ASSUME l.phase = "active" /\ l.in_hand = 0 /\ Life!Stopped(l) /\ l.recorded = 0,
                      m = [l EXCEPT !.phase = "finished"]
               PROVE  LifeInv(m, n)
    BY <1>4 DEF Life!Close, Life!When
  <2>1. /\ m.phase = "finished" /\ m.recorded = l.recorded
        /\ m.in_hand = l.in_hand /\ m.stop = l.stop
        /\ m.counted = l.counted /\ m.total_rows = l.total_rows
    BY DEF LifeInv, Life!Lives
  <2>2. m \in Life!Lives(n)
    BY DEF LifeInv, Life!Lives, Life!Phases, Life!Stops
  <2> QED BY <2>1, <2>2 DEF LifeInv, Life!Lives, Life!Phases, Life!Stops, Life!Stopped, Near
<1>5. CASE m \in Life!Raise(l)
  <2> SUFFICES ASSUME l.phase \in {"active", "ending", "counted"},
                      m = [l EXCEPT !.phase = "failing", !.in_hand = 0]
               PROVE  LifeInv(m, n)
    BY <1>5 DEF Life!Raise, Life!When
  <2>1. /\ m.phase = "failing" /\ m.recorded = l.recorded
        /\ m.in_hand = 0 /\ m.stop = l.stop
        /\ m.counted = l.counted /\ m.total_rows = l.total_rows
    BY DEF LifeInv, Life!Lives
  <2>2. m \in Life!Lives(n)
    BY DEF LifeInv, Life!Lives, Life!Phases, Life!Stops
  <2> QED BY <2>1, <2>2 DEF LifeInv, Life!Lives, Life!Phases, Life!Stops, Life!Stopped, Near
<1>6. CASE m \in Life!SaveTotal(l)
  <2> SUFFICES ASSUME NEW q \in {"counted", "noted"}, l.phase \in {"ending", "failing"} /\ (q = "counted" <=> l.phase = "ending"),
                      m = [l EXCEPT !.phase = q, !.total_rows = l.recorded]
               PROVE  LifeInv(m, n)
    BY <1>6 DEF Life!SaveTotal, Life!When
  <2>1. /\ m.phase = q /\ m.recorded = l.recorded
        /\ m.in_hand = l.in_hand /\ m.stop = l.stop
        /\ m.counted = l.counted /\ m.total_rows = l.recorded
    BY DEF LifeInv, Life!Lives
  <2>2. m \in Life!Lives(n)
    BY DEF LifeInv, Life!Lives, Life!Phases, Life!Stops
  <2> QED BY <2>1, <2>2 DEF LifeInv, Life!Lives, Life!Phases, Life!Stops, Life!Stopped, Near
<1>7. CASE m \in Life!End(l)
  <2> SUFFICES ASSUME NEW q \in {"finished", "failed"}, l.phase \in {"counted", "noted"} /\ (q = "finished" <=> l.phase = "counted"),
                      m = [l EXCEPT !.phase = q]
               PROVE  LifeInv(m, n)
    BY <1>7 DEF Life!End, Life!When
  <2>1. /\ m.phase = q /\ m.recorded = l.recorded
        /\ m.in_hand = l.in_hand /\ m.stop = l.stop
        /\ m.counted = l.counted /\ m.total_rows = l.total_rows
    BY DEF LifeInv, Life!Lives
  <2>2. m \in Life!Lives(n)
    BY DEF LifeInv, Life!Lives, Life!Phases, Life!Stops
  <2> QED BY <2>1, <2>2 DEF LifeInv, Life!Lives, Life!Phases, Life!Stops, Life!Stopped, Near
<1>8. CASE m \in Life!StopAccept(l)
  <2> SUFFICES ASSUME l.phase \notin {"finished", "failed"} /\ l.stop = "none",
                      m = [l EXCEPT !.stop = "accepted"]
               PROVE  LifeInv(m, n)
    BY <1>8 DEF Life!StopAccept, Life!When
  <2>1. /\ m.phase = l.phase /\ m.recorded = l.recorded
        /\ m.in_hand = l.in_hand /\ m.stop = "accepted"
        /\ m.counted = l.counted /\ m.total_rows = l.total_rows
    BY DEF LifeInv, Life!Lives
  <2>2. m \in Life!Lives(n)
    BY DEF LifeInv, Life!Lives, Life!Phases, Life!Stops
  <2> QED BY <2>1, <2>2 DEF LifeInv, Life!Lives, Life!Phases, Life!Stops, Life!Stopped, Near
<1>9. CASE m \in Life!StopSave(l)
  <2> SUFFICES ASSUME l.stop = "accepted",
                      m = [l EXCEPT !.stop = "saved"]
               PROVE  LifeInv(m, n)
    BY <1>9 DEF Life!StopSave, Life!When
  <2>1. /\ m.phase = l.phase /\ m.recorded = l.recorded
        /\ m.in_hand = l.in_hand /\ m.stop = "saved"
        /\ m.counted = l.counted /\ m.total_rows = l.total_rows
    BY DEF LifeInv, Life!Lives
  <2>2. m \in Life!Lives(n)
    BY DEF LifeInv, Life!Lives, Life!Phases, Life!Stops
  <2> QED BY <2>1, <2>2 DEF LifeInv, Life!Lives, Life!Phases, Life!Stops, Life!Stopped, Near
<1>10. CASE m \in Life!StopCount(l)
  <2> SUFFICES ASSUME l.stop = "saved",
                      m = [l EXCEPT !.stop = "counted", !.counted = l.recorded]
               PROVE  LifeInv(m, n)
    BY <1>10 DEF Life!StopCount, Life!When
  <2>1. /\ m.phase = l.phase /\ m.recorded = l.recorded
        /\ m.in_hand = l.in_hand /\ m.stop = "counted"
        /\ m.counted = l.recorded /\ m.total_rows = l.total_rows
    BY DEF LifeInv, Life!Lives
  <2>2. m \in Life!Lives(n)
    BY DEF LifeInv, Life!Lives, Life!Phases, Life!Stops
  <2> QED BY <2>1, <2>2 DEF LifeInv, Life!Lives, Life!Phases, Life!Stops, Life!Stopped, Near
<1>11. CASE m \in Life!StopTotal(l)
  <2> SUFFICES ASSUME l.stop = "counted",
                      m = [l EXCEPT !.stop = "done", !.total_rows = l.counted, !.counted = 0]
               PROVE  LifeInv(m, n)
    BY <1>11 DEF Life!StopTotal, Life!When
  <2>1. /\ m.phase = l.phase /\ m.recorded = l.recorded
        /\ m.in_hand = l.in_hand /\ m.stop = "done"
        /\ m.counted = 0 /\ m.total_rows = l.counted
    BY DEF LifeInv, Life!Lives
  <2>3. 0 \in 0..n
    BY DEF LifeInv, Life!Lives
  <2>2. m \in Life!Lives(n)
    BY <2>3 DEF LifeInv, Life!Lives, Life!Phases, Life!Stops
  <2> QED BY <2>1, <2>2 DEF LifeInv, Life!Lives, Life!Phases, Life!Stops, Life!Stopped, Near
<1>12. CASE m \in Life!Lose(l) \cup Life!StopFails(l) \cup Life!Restart(l)
  BY <1>12, ThreadGone, StopGone DEF Life!Lose, Life!StopFails, Life!Restart
<1> QED BY <1>1, <1>2, <1>3, <1>4, <1>5, <1>6, <1>7, <1>8, <1>9, <1>10, <1>11, <1>12 DEF Life!LifeSteps

\* A batch whose end is saved, with no stop request under way, keeps its rows
\* and its total; one without a thread stays so.
LEMMA LifeFinal ==
    ASSUME NEW n \in Nat, NEW l, LifeInv(l, n), NEW m \in Life!LifeSteps(l, n)
    PROVE  /\ (l.phase \in {"finished", "failed"} /\ l.stop \in {"none", "done"}) =>
                 /\ m.phase = l.phase /\ m.stop \in {"none", "done"}
                 /\ m.recorded = l.recorded /\ m.total_rows = l.total_rows
           /\ l.phase = "lost" => m.phase = "lost"
<1> USE DEF Life!When
<1>1. l \in Life!Lives(n)
  BY DEF LifeInv
<1>2. CASE l.phase \in {"finished", "failed"} /\ l.stop \in {"none", "done"}
  <2>1. m \in Life!Lose(l) \cup Life!StopFails(l) \cup Life!Restart(l)
    BY <1>2 DEF Life!LifeSteps, Life!TakeUp, Life!Record, Life!Leave, Life!Close, Life!Raise,
       Life!SaveTotal, Life!End, Life!StopAccept, Life!StopSave, Life!StopCount, Life!StopTotal
  <2>2. Life!WithoutThread(l) = l
    BY <1>2 DEF Life!WithoutThread, Life!Over
  <2>3. LifeInv(Life!WithoutStop(l), n)
    BY StopGone
  <2>4. CASE l.stop = "none"
    BY <1>2, <2>1, <2>2, <2>4 DEF Life!WithoutStop, Life!Stopped, Life!Lose, Life!StopFails,
       Life!Restart, Life!WithoutThread, Life!Over
  <2>5. CASE l.stop = "done"
    <3> DEFINE k == [l EXCEPT !.stop = "done", !.counted = 0]
    <3>1. /\ k.phase = l.phase /\ k.stop = "done"
          /\ k.recorded = l.recorded /\ k.total_rows = l.total_rows
      BY <1>1 DEF Life!Lives
    <3>2. Life!WithoutStop(l) = k
      BY <2>5 DEF Life!WithoutStop, Life!Stopped
    <3> HIDE DEF k
    <3>3. Life!WithoutThread(k) = k
      BY <1>2, <3>1 DEF Life!WithoutThread, Life!Over
    <3>4. m = l \/ m = k
      BY <2>1, <2>2, <3>2, <3>3 DEF Life!Lose, Life!StopFails, Life!Restart
    <3> QED BY <1>2, <2>5, <3>1, <3>4
  <2> QED BY <1>2, <2>4, <2>5
<1>3. CASE l.phase = "lost"
  <2>1. m \in UNION {Life!StopAccept(l), Life!StopSave(l), Life!StopCount(l),
                     Life!StopTotal(l), Life!Lose(l), Life!StopFails(l), Life!Restart(l)}
    BY <1>3 DEF Life!LifeSteps, Life!TakeUp, Life!Record, Life!Leave, Life!Close, Life!Raise,
       Life!SaveTotal, Life!End
  <2>2. Life!WithoutThread(l) = l
    BY <1>3 DEF Life!WithoutThread, Life!Over
  <2>3. Life!WithoutStop(l).phase = "lost"
    BY <1>1, <1>3 DEF Life!WithoutStop, Life!Lives
  <2>4. Life!WithoutThread(Life!WithoutStop(l)) = Life!WithoutStop(l)
    BY <2>3 DEF Life!WithoutThread, Life!Over
  <2>5. m \in Life!Lose(l) \cup Life!StopFails(l) \cup Life!Restart(l) => m.phase = "lost"
    BY <1>3, <2>2, <2>3, <2>4 DEF Life!Lose, Life!StopFails, Life!Restart
  <2>6. m \in UNION {Life!StopAccept(l), Life!StopSave(l), Life!StopCount(l), Life!StopTotal(l)}
           => m.phase = "lost"
    BY <1>1, <1>3 DEF Life!StopAccept, Life!StopSave, Life!StopCount, Life!StopTotal, Life!Lives
  <2> QED BY <1>3, <2>1, <2>5, <2>6
<1> QED BY <1>2, <1>3

-----------------------------------------------------------------------------
(* The dashboard.                                                          *)

AnyForm == [start : Nat, end : Nat, limit : Nat, skip : BOOLEAN,
            from : Nat, settled : BOOLEAN]
AnyLife == [phase : Life!Phases, recorded : Nat, in_hand : {0, 1}, stop : Life!Stops,
            counted : Nat, total_rows : Nat]
AnyBatch == [form : AnyForm, life : AnyLife]

\* A form that may be offered by one of the first k batches.
FormOK(f, k) ==
    f \in [start : Nat, end : Bounds, limit : Limits, skip : BOOLEAN,
          from : 0..k, settled : BOOLEAN]

\* What batch a offers next will not change, or its thread is lost.
Offers(a) ==
    LET life == batches[a].life
    IN  /\ life.phase \in Life!Over
        /\ life.phase # "lost" => life.stop \in {"none", "done"}

\* A form offered by a batch that was over then, still tells its next start.
Offered(f) ==
    (f.settled /\ f.from # 0) =>
        /\ Offers(f.from)
        /\ batches[f.from].life.phase # "lost" => f.start = NextStart(f.from)

DashInv ==
    /\ sheet \in Sheets
    /\ faults \in 0..MaxFaults
    /\ batches \in Seq(AnyBatch) /\ Len(batches) <= MaxBatches
    /\ FormOK(form, Len(batches)) /\ Offered(form)
    /\ \A b \in DOMAIN batches :
          /\ FormOK(batches[b].form, b - 1)
          /\ LifeInv(batches[b].life, RowsToGo(b))
          /\ Offered(batches[b].form)

LEMMA FormTypes ==
    ASSUME NEW f, NEW k \in Nat, FormOK(f, k)
    PROVE  /\ f \in AnyForm
           /\ f.start \in Nat /\ f.end \in Nat /\ f.limit \in Nat
           /\ f.from \in 0..k /\ f.settled \in BOOLEAN
<1>1. Bounds \subseteq Nat /\ Limits \subseteq Nat /\ 0..k \subseteq Nat
  BY BoundsAssumption
<1>2. /\ f.start \in Nat /\ f.end \in Bounds /\ f.limit \in Limits
      /\ f.from \in 0..k /\ f.settled \in BOOLEAN
  BY DEF FormOK
<1>3. f \in AnyForm
  BY <1>1 DEF FormOK, AnyForm
<1> QED BY <1>1, <1>2, <1>3

LEMMA LifeTypes ==
    ASSUME NEW l, NEW n \in Nat, LifeInv(l, n)
    PROVE  l \in AnyLife /\ l.recorded \in Nat /\ l.total_rows \in Nat /\ l.in_hand \in {0, 1}
BY DEF LifeInv, Life!Lives, AnyLife

LEMMA RowsToGoType ==
    ASSUME DashInv, NEW f \in AnyForm
    PROVE  Len(SelectionOf(f)) \in Nat
<1>1. sheet \in Seq(Item) /\ f.start \in Nat /\ f.end \in Nat /\ f.limit \in Nat
  BY SheetsAssumption DEF DashInv, AnyForm
<1>2. ApplyDataRange(sheet, f.start, f.end) \in Seq(Item)
  BY <1>1, RangeLemma
<1>3. Limited(RangeOf(f), f.limit) \in Seq(Item)
  BY <1>1, <1>2, LimitedIsPrefix DEF RangeOf
<1> QED BY <1>3 DEF SelectionOf

\* What the invariant says of one batch.
LEMMA BatchTypes ==
    ASSUME DashInv, NEW b \in DOMAIN batches
    PROVE  /\ b \in 1..Len(batches) /\ Len(batches) \in Nat
           /\ batches[b] \in AnyBatch
           /\ RowsToGo(b) \in Nat
           /\ batches[b].form.start \in Nat /\ batches[b].form.end \in Nat
           /\ batches[b].form.from \in 0..b - 1
           /\ NextStart(b) \in Nat
<1>1. b \in 1..Len(batches) /\ Len(batches) \in Nat /\ batches[b] \in AnyBatch
  BY DEF DashInv
<1>2. FormOK(batches[b].form, b - 1) /\ b - 1 \in Nat
  BY <1>1 DEF DashInv
<1>3. /\ batches[b].form \in AnyForm
      /\ batches[b].form.start \in Nat /\ batches[b].form.end \in Nat
      /\ batches[b].form.from \in 0..b - 1
  BY <1>2, FormTypes
<1>4. RowsToGo(b) \in Nat
  BY <1>3, RowsToGoType DEF RowsToGo
<1>5. batches[b].life.total_rows \in Nat
  BY <1>1 DEF AnyBatch, AnyLife
<1>6. NextStart(b) \in Nat
  BY <1>3, <1>5 DEF NextStart
<1> QED BY <1>1, <1>3, <1>4, <1>6

\* A step of one batch.
LEMMA BecomesKeeps ==
    ASSUME DashInv, NEW b \in DOMAIN batches,
           NEW m \in Life!LifeSteps(batches[b].life, RowsToGo(b)),
           batches' = [batches EXCEPT ![b].life = m],
           UNCHANGED <<sheet, form>>, faults' \in 0..MaxFaults
    PROVE  DashInv'
<1>1. LifeInv(m, RowsToGo(b))
  BY BatchTypes, LifeKept DEF DashInv
<1>2. m \in AnyLife
  BY <1>1, BatchTypes, LifeTypes
<1>3. batches \in Seq(AnyBatch) /\ batches[b] \in AnyBatch
  BY DEF DashInv
<1>4. [batches[b] EXCEPT !.life = m] \in AnyBatch
  BY <1>2, <1>3 DEF AnyBatch
<1>5. /\ batches' \in Seq(AnyBatch) /\ Len(batches') = Len(batches)
      /\ DOMAIN batches' = DOMAIN batches
      /\ \A c \in DOMAIN batches : c # b => batches'[c] = batches[c]
      /\ batches'[b] = [batches[b] EXCEPT !.life = m]
  BY <1>3, <1>4
<1>6. batches'[b].form = batches[b].form /\ batches'[b].life = m
  BY <1>3, <1>5 DEF AnyBatch
<1>7. \A c \in DOMAIN batches :
         /\ batches'[c].form = batches[c].form
         /\ batches'[c].life = IF c = b THEN m ELSE batches[c].life
  BY <1>5, <1>6
<1>8. \A c \in DOMAIN batches : RowsToGo(c)' = RowsToGo(c)
  BY <1>7 DEF RowsToGo, SelectionOf, RangeOf
<1>9. \A a \in DOMAIN batches : Offers(a) =>
         /\ Offers(a)'
         /\ batches'[a].life.phase # "lost" =>
               batches[a].life.phase # "lost" /\ NextStart(a)' = NextStart(a)
  <2> SUFFICES ASSUME NEW a \in DOMAIN batches, Offers(a)
               PROVE  /\ Offers(a)'
                      /\ batches'[a].life.phase # "lost" =>
                            batches[a].life.phase # "lost" /\ NextStart(a)' = NextStart(a)
    OBVIOUS
  <2>1. CASE a # b
    BY <1>7, <2>1 DEF Offers, NextStart
  <2>2. CASE a = b
    <3> DEFINE l == batches[b].life
    <3>1. LifeInv(l, RowsToGo(b)) /\ RowsToGo(b) \in Nat
      BY BatchTypes DEF DashInv
    <3>2. /\ (l.phase \in {"finished", "failed"} /\ l.stop \in {"none", "done"}) =>
                /\ m.phase = l.phase /\ m.stop \in {"none", "done"}
                /\ m.recorded = l.recorded /\ m.total_rows = l.total_rows
          /\ l.phase = "lost" => m.phase = "lost"
      BY <3>1, LifeFinal
    <3>3. /\ m.phase # "lost" =>
                /\ l.phase # "lost" /\ m.stop \in {"none", "done"}
                /\ m.total_rows = l.total_rows
          /\ m.phase \in Life!Over
      BY <2>2, <3>2 DEF Offers, Life!Over
    <3>4. batches'[a].life = m /\ batches'[a].form = batches[a].form /\ l = batches[a].life
      BY <1>7, <2>2
    <3> HIDE DEF l
    <3>5. Offers(a)'
      BY <3>3, <3>4 DEF Offers
    <3>6. m.phase # "lost" => NextStart(a)' = NextStart(a)
      BY <3>3, <3>4 DEF NextStart
    <3> QED BY <3>3, <3>4, <3>5, <3>6
  <2> QED BY <2>1, <2>2
<1>10. \A f : (f.from = 0 \/ f.from \in DOMAIN batches) /\ Offered(f) =>
          ((f.settled /\ f.from # 0) =>
             /\ Offers(f.from)'
             /\ batches'[f.from].life.phase # "lost" => f.start = NextStart(f.from)')
  BY <1>9 DEF Offered
<1>11. FormOK(form, Len(batches))' /\ Offered(form)'
  <2>1. FormOK(form, Len(batches)) /\ Offered(form) /\ Len(batches) \in Nat
    BY <1>3 DEF DashInv
  <2>2. form.from = 0 \/ form.from \in DOMAIN batches
    BY <1>3, <2>1 DEF FormOK
  <2> QED BY <1>5, <1>10, <2>1, <2>2 DEF Offered, FormOK
<1>12. ASSUME NEW c \in DOMAIN batches
       PROVE  /\ FormOK(batches[c].form, c - 1)'
              /\ LifeInv(batches[c].life, RowsToGo(c))'
              /\ Offered(batches[c].form)'
  <2>1. /\ FormOK(batches[c].form, c - 1) /\ Offered(batches[c].form)
        /\ LifeInv(batches[c].life, RowsToGo(c))
    BY DEF DashInv
  <2>2. batches[c].form.from = 0 \/ batches[c].form.from \in DOMAIN batches
    BY <1>3, BatchTypes
  <2>3. Offered(batches[c].form)'
    BY <1>7, <1>10, <2>1, <2>2 DEF Offered
  <2>4. LifeInv(batches'[c].life, RowsToGo(c)')
    BY <1>1, <1>7, <1>8, <2>1
  <2>5. FormOK(batches[c].form, c - 1)'
    BY <1>7, <2>1 DEF FormOK
  <2>6. LifeInv(batches[c].life, RowsToGo(c))'
    BY <2>4 DEF LifeInv, Near
  <2> QED BY <2>3, <2>5, <2>6
<1>13. /\ (sheet \in Sheets)' /\ (faults \in 0..MaxFaults)'
       /\ (batches \in Seq(AnyBatch) /\ Len(batches) <= MaxBatches)'
  BY <1>5 DEF DashInv
<1> QED BY <1>5, <1>11, <1>12, <1>13 DEF DashInv

\* A form that may be submitted: typed in, or offered by what the page's was.
Submittable(f) ==
    /\ FormOK(f, Len(batches))
    /\ f.settled => form.settled /\ f.from = form.from /\ f.start = form.start

LEMMA FilledInType ==
    ASSUME DashInv, NEW e \in Bounds, NEW l \in Limits
    PROVE  Submittable(FilledIn(e, l))
<1>1. FormOK(form, Len(batches))
  BY DEF DashInv
<1> QED BY <1>1 DEF FormOK, FilledIn, Submittable

LEMMA TypedInType ==
    ASSUME DashInv, NEW b \in Bounds, NEW e \in Bounds, NEW l \in Limits, NEW s \in BOOLEAN
    PROVE  Submittable(TypedIn(b, e, l, s))
<1>1. Len(batches) \in Nat
  BY DEF DashInv
<1>2. b \in Nat /\ 0 \in Nat /\ 0 \in 0..Len(batches) /\ 0 \in Bounds /\ 0 \in Limits
  BY <1>1, BoundsAssumption
<1>3. FormOK(FreshForm, Len(batches)) /\ ~FreshForm.settled
  BY <1>2 DEF FormOK, FreshForm
<1> QED BY <1>2, <1>3 DEF FormOK, TypedIn, Submittable

\* A batch is created from such a form.
LEMMA SendKeeps ==
    ASSUME DashInv, NEW f, Submittable(f), Send(f), NEW n \in Nat, n = Len(batches)
    PROVE  DashInv'
<1> DEFINE new == [form |-> f, life |-> Life!NewLife]
<1>1. n \in Nat /\ batches \in Seq(AnyBatch) /\ FormOK(form, n) /\ Offered(form)
  BY DEF DashInv
<1>2. FormOK(f, n) /\ (f.settled => /\ form.settled /\ f.from = form.from
                                     /\ f.start = form.start)
  BY DEF Submittable
<1>3. f \in AnyForm /\ (f.from = 0 \/ f.from \in DOMAIN batches)
  BY <1>1, <1>2, FormTypes DEF FormOK
<1>4. Offered(f)
  BY <1>1, <1>2 DEF Offered
<1>5. LifeInv(Life!NewLife, Len(SelectionOf(f))) /\ Len(SelectionOf(f)) \in Nat
  BY <1>3, RowsToGoType, NewLifeInv
<1>6. new \in AnyBatch /\ new.form = f /\ new.life = Life!NewLife
  BY <1>3, <1>5, LifeTypes DEF AnyBatch
<1> HIDE DEF new
<1>7. batches' = Append(batches, new) /\ form' = FreshForm /\ UNCHANGED <<sheet, faults>>
  BY DEF Send, new
<1>8. /\ batches' \in Seq(AnyBatch) /\ Len(batches') = n + 1
      /\ DOMAIN batches' = 1..n + 1 /\ batches'[n + 1] = new
      /\ \A c \in DOMAIN batches : c \in DOMAIN batches' /\ batches'[c] = batches[c]
  BY <1>1, <1>6, <1>7
<1>9. Len(batches') <= MaxBatches
  BY <1>1, <1>8, MaxAssumption DEF Send, MayCreate
<1>10. \A c \in DOMAIN batches : RowsToGo(c)' = RowsToGo(c)
  BY <1>7, <1>8 DEF RowsToGo, SelectionOf, RangeOf
<1>11. \A a \in DOMAIN batches : Offers(a)' = Offers(a) /\ NextStart(a)' = NextStart(a)
  BY <1>8 DEF Offers, NextStart
<1>12. \A g : (g.from = 0 \/ g.from \in DOMAIN batches) /\ Offered(g) =>
          ((g.settled /\ g.from # 0) =>
             /\ Offers(g.from)'
             /\ batches'[g.from].life.phase # "lost" => g.start = NextStart(g.from)')
  BY <1>8, <1>11 DEF Offered
<1>13. FormOK(form, Len(batches))' /\ Offered(form)'
  <2>1. FormOK(FreshForm, n + 1)
    <3>1. 0 \in 0..n + 1 /\ 0 \in Nat
      BY <1>1
    <3> QED BY <3>1, BoundsAssumption DEF FormOK, FreshForm
  <2>2. ~FreshForm.settled
    BY DEF FreshForm
  <2> QED BY <1>7, <1>8, <2>1, <2>2 DEF FormOK, Offered
<1>14. ASSUME NEW c \in DOMAIN batches
       PROVE  /\ FormOK(batches[c].form, c - 1)'
              /\ LifeInv(batches[c].life, RowsToGo(c))'
              /\ Offered(batches[c].form)'
  <2>1. /\ FormOK(batches[c].form, c - 1) /\ Offered(batches[c].form)
        /\ LifeInv(batches[c].life, RowsToGo(c))
    BY DEF DashInv
  <2>2. batches[c].form.from = 0 \/ batches[c].form.from \in DOMAIN batches
    BY <1>1, BatchTypes
  <2>3. Offered(batches[c].form)'
    BY <1>8, <1>12, <2>1, <2>2 DEF Offered
  <2>4. LifeInv(batches'[c].life, RowsToGo(c)')
    BY <1>8, <1>10, <2>1
  <2>5. FormOK(batches[c].form, c - 1)'
    BY <1>8, <2>1 DEF FormOK
  <2>6. LifeInv(batches[c].life, RowsToGo(c))'
    BY <2>4 DEF LifeInv, Near
  <2> QED BY <2>3, <2>5, <2>6
<1>15. /\ FormOK(batches[n + 1].form, n + 1 - 1)'
       /\ LifeInv(batches[n + 1].life, RowsToGo(n + 1))'
       /\ Offered(batches[n + 1].form)'
  <2>1. RowsToGo(n + 1)' = Len(SelectionOf(f))
    BY <1>6, <1>7, <1>8 DEF RowsToGo, SelectionOf, RangeOf
  <2>2. LifeInv(batches'[n + 1].life, RowsToGo(n + 1)')
    BY <1>5, <1>6, <1>8, <2>1
  <2>3. LifeInv(batches[n + 1].life, RowsToGo(n + 1))'
    BY <1>7, <2>2 DEF LifeInv, Near
  <2>4. FormOK(batches'[n + 1].form, n)
    BY <1>2, <1>6, <1>8
  <2>5. FormOK(batches[n + 1].form, n + 1 - 1)'
    BY <1>1, <1>7, <2>4 DEF FormOK
  <2>6. Offered(batches[n + 1].form)'
    BY <1>3, <1>4, <1>6, <1>8, <1>12 DEF Offered
  <2> QED BY <2>3, <2>5, <2>6
<1>16. \A c \in DOMAIN batches' : c \in DOMAIN batches \/ c = n + 1
  BY <1>1, <1>8
<1>17. (sheet \in Sheets)' /\ (faults \in 0..MaxFaults)'
  BY <1>7 DEF DashInv
<1> QED BY <1>8, <1>9, <1>13, <1>14, <1>15, <1>16, <1>17 DEF DashInv

LEMMA ReuseKeeps ==
    ASSUME DashInv, NEW b \in DOMAIN batches, Reuse(b)
    PROVE  DashInv'
<1> DEFINE f == batches[b].form
           g == [f EXCEPT !.start = NextStart(b), !.end = 0, !.from = b,
                          !.settled = Settled(b)]
<1>1. /\ b \in 1..Len(batches) /\ Len(batches) \in Nat /\ NextStart(b) \in Nat
      /\ FormOK(f, b - 1)
  BY BatchTypes DEF DashInv
<1>2. 0 \in Bounds /\ b \in 0..Len(batches) /\ Settled(b) \in BOOLEAN
  BY <1>1, BoundsAssumption DEF Settled
<1> HIDE DEF f
<1>3. /\ FormOK(g, Len(batches))
      /\ g.from = b /\ g.start = NextStart(b) /\ g.settled = Settled(b)
  BY <1>1, <1>2 DEF FormOK
<1> HIDE DEF g
<1>4. form' = g /\ UNCHANGED <<sheet, batches, faults>>
  BY DEF Reuse, f, g
<1>5. Offered(g)
  BY <1>3 DEF Offered, Offers, Settled
<1>6. FormOK(form, Len(batches))' /\ Offered(form)'
  BY <1>3, <1>4, <1>5 DEF FormOK, Offered, Offers, NextStart
<1>7. \A c \in DOMAIN batches :
         /\ FormOK(batches[c].form, c - 1)'
         /\ LifeInv(batches[c].life, RowsToGo(c))'
         /\ Offered(batches[c].form)'
  BY <1>4 DEF DashInv, FormOK, LifeInv, Near, RowsToGo, SelectionOf, RangeOf,
              Offered, Offers, NextStart
<1> QED BY <1>4, <1>6, <1>7 DEF DashInv

\* Whatever happens to a batch is a step of its life.
LEMMA LifeActionsKeep ==
    ASSUME DashInv, NEW b \in DOMAIN batches,
           Process(b) \/ Stop(b) \/ Refused(b) \/ Fail(b)
    PROVE  DashInv'
<1> DEFINE l == batches[b].life
           n == RowsToGo(b)
<1>1. \E m \in Life!LifeSteps(l, n) :
         /\ batches' = [batches EXCEPT ![b].life = m]
         /\ UNCHANGED <<sheet, form>>
  BY DEF Process, Stop, Refused, Fail, Becomes, Life!LifeSteps
<1>2. faults' \in 0..MaxFaults
  BY MaxAssumption DEF DashInv, Process, Stop, Refused, Fail
<1> QED BY <1>1, <1>2, BecomesKeeps

LEMMA DashInit == Init => DashInv
<1> SUFFICES ASSUME Init PROVE DashInv
  OBVIOUS
<1>1. batches = <<>> /\ Len(batches) = 0 /\ batches \in Seq(AnyBatch) /\ DOMAIN batches = {}
  BY DEF Init
<1>2. form = [start |-> 0, end |-> 0, limit |-> 0, skip |-> TRUE,
              from |-> 0, settled |-> FALSE]
  BY DEF Init, FreshForm
<1>3. FormOK(form, Len(batches)) /\ Offered(form)
  BY <1>1, <1>2, BoundsAssumption DEF FormOK, Offered
<1> QED BY <1>1, <1>3, MaxAssumption DEF Init, DashInv

LEMMA DashNext == DashInv /\ [Next]_vars => DashInv'
<1> SUFFICES ASSUME DashInv, [Next]_vars PROVE DashInv'
  OBVIOUS
<1>1. ASSUME NEW e \in Bounds, NEW l \in Limits, Send(FilledIn(e, l))
      PROVE  DashInv'
  <2>1. Len(batches) \in Nat
    BY DEF DashInv
  <2> QED BY <1>1, <2>1, FilledInType, SendKeeps
<1>2. ASSUME NEW b \in Bounds, NEW e \in Bounds, NEW l \in Limits, NEW s \in BOOLEAN,
             Send(TypedIn(b, e, l, s))
      PROVE  DashInv'
  <2>1. Len(batches) \in Nat
    BY DEF DashInv
  <2> QED BY <1>2, <2>1, TypedInType, SendKeeps
<1>3. ASSUME NEW b \in DOMAIN batches, Reuse(b)
      PROVE  DashInv'
  BY <1>3, ReuseKeeps
<1>4. ASSUME NEW b \in DOMAIN batches, Process(b) \/ Stop(b) \/ Refused(b) \/ Fail(b)
      PROVE  DashInv'
  BY <1>4, LifeActionsKeep
<1>5. CASE UNCHANGED vars
  BY <1>5 DEF vars, DashInv, FormOK, LifeInv, Near, RowsToGo, SelectionOf, RangeOf,
              Offered, Offers, NextStart
<1> QED BY <1>1, <1>2, <1>3, <1>4, <1>5 DEF Next

\* The invariant of the dashboard: every batch keeps to its life, and a form
\* offered by a batch that was over still tells that batch's next start.
THEOREM DashInvariance == Spec => []DashInv
BY DashInit, DashNext, PTL DEF Spec

-----------------------------------------------------------------------------
(* What follows.                                                           *)

\* TypeOK: among others, no batch records more rows than it selected.
THEOREM TypeCorrect == Spec => []TypeOK
<1>1. ASSUME DashInv PROVE TypeOK
  <2>1. Len(batches) \in Nat /\ FormOK(form, Len(batches))
    BY <1>1 DEF DashInv
  <2>2. ASSUME NEW b \in DOMAIN batches
        PROVE  /\ batches[b] \in
                    [form : [start : Nat, end : Bounds, limit : Limits, skip : BOOLEAN,
                             from : 0..Len(batches), settled : BOOLEAN],
                     life : Life!Lives(Len(SelectionOf(batches[b].form)))]
               /\ batches[b].form.from < b
    <3>1. /\ b \in 1..Len(batches) /\ batches[b] \in AnyBatch
          /\ batches[b].form.from \in 0..b - 1
      BY <1>1, BatchTypes
    <3>2. FormOK(batches[b].form, b - 1) /\ LifeInv(batches[b].life, RowsToGo(b))
      BY <1>1 DEF DashInv
    <3>3. batches[b].form \in [start : Nat, end : Bounds, limit : Limits, skip : BOOLEAN,
                               from : 0..Len(batches), settled : BOOLEAN]
      <4>1. 0..b - 1 \subseteq 0..Len(batches)
        BY <2>1, <3>1
      <4> QED BY <3>2, <4>1 DEF FormOK
    <3>4. batches[b].life \in Life!Lives(Len(SelectionOf(batches[b].form)))
      BY <3>2 DEF LifeInv, RowsToGo
    <3>5. batches[b].form.from < b
      BY <2>1, <3>1
    <3> QED BY <3>1, <3>3, <3>4, <3>5 DEF AnyBatch
  <2> QED BY <1>1, <2>1, <2>2 DEF TypeOK, DashInv, FormOK
<1> QED BY <1>1, DashInvariance, PTL

\* A batch that another was offered after: it is over, and unless its thread
\* was lost the other starts where it said.
LEMMA BeforeOffers ==
    ASSUME DashInv, NEW b \in DOMAIN batches, NEW a, a = Before(b), a # 0
    PROVE  /\ a \in DOMAIN batches
           /\ batches[a].life.phase # "lost" =>
                 batches[b].form.start = NextStart(a)
<1>1. batches[b].form.settled /\ batches[b].form.from = a
  BY DEF Before
<1>2. a \in DOMAIN batches
  BY <1>1, BatchTypes
<1>3. Offered(batches[b].form)
  BY DEF DashInv
<1> QED BY <1>1, <1>2, <1>3 DEF Offered

\* NextRangeRepeatsAtMostOneRow: "send the next range" after a stopped or
\* failed batch leaves no row out and sends at most one a second time.
THEOREM NextRangeIsClose == Spec => []NextRangeRepeatsAtMostOneRow
<1>1. ASSUME DashInv PROVE NextRangeRepeatsAtMostOneRow
  <2> SUFFICES ASSUME NEW b \in DOMAIN batches, NEW a, a = Before(b), a # 0,
                      batches[a].form.end = 0,
                      batches[a].life.phase # "lost",
                      batches[a].life.total_rows > 0
               PROVE  FirstOf(batches[b].form.start) \in {LastOf(a), LastOf(a) + 1}
    BY DEF NextRangeRepeatsAtMostOneRow
  <2>1. a \in DOMAIN batches /\ batches[b].form.start = NextStart(a)
    BY <1>1, BeforeOffers
  <2> DEFINE l == batches[a].life
             start == batches[a].form.start
  <2>2. LifeInv(l, RowsToGo(a)) /\ RowsToGo(a) \in Nat /\ start \in Nat
    BY <1>1, <2>1, BatchTypes DEF DashInv
  <2>3. l.recorded \in Nat /\ l.total_rows \in Nat /\ l.in_hand \in {0, 1}
    BY <2>2, LifeTypes
  <2>4. l.total_rows = l.recorded \/ l.total_rows = l.recorded - 1
    BY <2>2, <2>3 DEF LifeInv, Near
  <2>5. NextStart(a) = FirstOf(start) + l.total_rows
    BY <2>2, <2>3 DEF NextStart, FirstOf, Most
  <2>6. FirstOf(start) \in Nat /\ FirstOf(start) >= 1
    BY <2>2 DEF FirstOf, Most
  <2>7. FirstOf(NextStart(a)) = NextStart(a)
    BY <2>3, <2>5, <2>6 DEF FirstOf, Most
  <2> QED BY <2>1, <2>3, <2>4, <2>5, <2>6, <2>7 DEF LastOf
<1> QED BY <1>1, DashInvariance, PTL

\* The link of two batches of which one was offered after the other: if the
\* first went through, the second starts at the very next row, or the first
\* reached the end of the file.
LinkFits ==
    \A b \in DOMAIN batches :
        LET a == Before(b) IN
        (a # 0 /\ WentThrough(a)) =>
            \/ FirstOf(batches[b].form.start) = LastOf(a) + 1
            \/ LastOf(a) = Len(sheet) /\ FirstOf(batches[b].form.start) > Len(sheet)

\* LinkFits: one link of the chains of ChainIsSeamless.
THEOREM LinksFit == Spec => []LinkFits
<1>1. ASSUME DashInv PROVE LinkFits
  <2> SUFFICES ASSUME NEW b \in DOMAIN batches, NEW a, a = Before(b), a # 0,
                      WentThrough(a)
               PROVE  \/ FirstOf(batches[b].form.start) = LastOf(a) + 1
                      \/ LastOf(a) = Len(sheet) /\ FirstOf(batches[b].form.start) > Len(sheet)
    BY DEF LinkFits
  <2> DEFINE l == batches[a].life
             f == batches[a].form
  <2>1. a \in DOMAIN batches /\ batches[b].form.start = NextStart(a)
    BY <1>1, BeforeOffers DEF WentThrough
  <2>2. /\ LifeInv(l, RowsToGo(a)) /\ RowsToGo(a) \in Nat
        /\ f.start \in Nat /\ f.end \in Nat /\ sheet \in Seq(Item)
    BY <1>1, <2>1, BatchTypes, SheetsAssumption DEF DashInv
  <2>3. l.recorded \in Nat /\ l.total_rows \in Nat
    BY <2>2, LifeTypes
  <2>4. l.total_rows = l.recorded /\ l.recorded = RowsToGo(a) /\ l.recorded > 0
    BY <2>2 DEF WentThrough, LifeInv, Life!Stopped
  <2>5. FirstOf(f.start) \in Nat /\ FirstOf(f.start) >= 1
    BY <2>2 DEF FirstOf, Most
  <2>6. CASE f.end = 0
    <3>1. NextStart(a) = FirstOf(f.start) + l.total_rows
      BY <2>2, <2>3, <2>4, <2>6 DEF NextStart, FirstOf, Most
    <3>2. FirstOf(NextStart(a)) = NextStart(a)
      BY <2>3, <2>5, <3>1 DEF FirstOf, Most
    <3> QED BY <2>1, <2>3, <2>4, <2>5, <3>1, <3>2 DEF LastOf
  <2>7. CASE f.end # 0
    <3>1. RowsToGo(a) = Len(ApplyDataRange(sheet, f.start, f.end))
      BY <2>7 DEF WentThrough, RowsToGo, RangeOf
    <3>2. \A i, j \in Nat :
            Len(ApplyDataRange(sheet, i, j)) =
              LET last == IF j = 0 \/ j > Len(sheet) THEN Len(sheet) ELSE j
                  first == IF i = 0 THEN 1 ELSE i
              IN  IF first <= last THEN last - first + 1 ELSE 0
      <4> HIDE DEF l, f
      <4> QED BY <2>2, RangeLemma
    <3>3. LastOf(a) = IF f.end > Len(sheet) THEN Len(sheet) ELSE f.end
      <4>1. Len(sheet) \in Nat
        BY <2>2
      <4>2. FirstOf(f.start) = IF f.start = 0 THEN 1 ELSE f.start
        BY <2>2 DEF FirstOf, Most
      <4> DEFINE last == IF f.end > Len(sheet) THEN Len(sheet) ELSE f.end
                 first == FirstOf(f.start)
      <4>3. last \in Nat /\ first \in Nat
        BY <2>2, <2>5, <4>1
      <4>4. RowsToGo(a) = IF first <= last THEN last - first + 1 ELSE 0
        <5> HIDE DEF l, f
        <5>1. Len(ApplyDataRange(sheet, f.start, f.end)) =
                LET k == IF f.end = 0 \/ f.end > Len(sheet) THEN Len(sheet) ELSE f.end
                    i == IF f.start = 0 THEN 1 ELSE f.start
                IN  IF i <= k THEN k - i + 1 ELSE 0
          BY <2>2, <3>2, Zenon
        <5> QED BY <2>7, <3>1, <4>2, <5>1
      <4>5. LastOf(a) = first + l.recorded - 1
        BY DEF LastOf
      <4> HIDE DEF last, first, l
      <4>6. LastOf(a) = last
        BY <2>3, <2>4, <4>3, <4>4, <4>5
      <4> QED BY <4>6 DEF last
    <3>4. FirstOf(NextStart(a)) = f.end + 1
      BY <2>2, <2>7 DEF NextStart, FirstOf, Most
    <3>5. Len(sheet) \in Nat
      BY <2>2
    <3>6. FirstOf(batches[b].form.start) = f.end + 1
      BY <2>1, <3>4
    <3>7. CASE f.end > Len(sheet)
      <4>1. LastOf(a) = Len(sheet)
        BY <3>3, <3>7
      <4>2. f.end + 1 > Len(sheet)
        BY <2>2, <3>5, <3>7
      <4> QED BY <3>6, <4>1, <4>2
    <3>8. CASE ~(f.end > Len(sheet))
      BY <3>3, <3>6, <3>8
    <3> QED BY <3>7, <3>8
  <2> QED BY <2>6, <2>7
<1> QED BY <1>1, DashInvariance, PTL

-----------------------------------------------------------------------------
(* The preview.                                                            *)

\* What the invariant says of the rows of one batch.
LEMMA BatchRows ==
    ASSUME DashInv, NEW b \in DOMAIN batches
    PROVE  LET f == batches[b].form
               n == batches[b].life.recorded
           IN  /\ RangeOf(f) \in Seq(Item) /\ SelectionOf(f) \in Seq(Item)
               /\ Len(SelectionOf(f)) <= Len(RangeOf(f))
               /\ \A k \in DOMAIN SelectionOf(f) : SelectionOf(f)[k] = RangeOf(f)[k]
               /\ f.limit = 0 => SelectionOf(f) = RangeOf(f)
               /\ f.skip \in BOOLEAN
               /\ n \in Nat /\ n <= Len(SelectionOf(f)) /\ RowsToGo(b) = Len(SelectionOf(f))
<1> DEFINE f == batches[b].form
           n == batches[b].life.recorded
<1>1. b \in 1..Len(batches) /\ b - 1 \in Nat /\ sheet \in Seq(Item)
  BY SheetsAssumption DEF DashInv
<1>2. f \in AnyForm
  BY <1>1, FormTypes DEF DashInv
<1>3. f.start \in Nat /\ f.end \in Nat /\ f.limit \in Nat /\ f.skip \in BOOLEAN
  BY <1>2 DEF AnyForm
<1> HIDE DEF f
<1>4. RangeOf(f) \in Seq(Item)
  BY <1>1, <1>3, RangeLemma DEF RangeOf
<1>5. /\ SelectionOf(f) \in Seq(Item) /\ Len(SelectionOf(f)) <= Len(RangeOf(f))
      /\ \A k \in DOMAIN SelectionOf(f) : SelectionOf(f)[k] = RangeOf(f)[k]
  BY <1>3, <1>4, LimitedIsPrefix DEF SelectionOf
<1>6. f.limit = 0 => SelectionOf(f) = RangeOf(f)
  BY DEF SelectionOf, Limited
<1>7. LifeInv(batches[b].life, RowsToGo(b)) /\ RowsToGo(b) = Len(SelectionOf(f))
  BY DEF DashInv, RowsToGo, f
<1>8. n \in 0..Len(SelectionOf(f))
  BY <1>7 DEF LifeInv, Life!Lives
<1> QED BY <1>3, <1>4, <1>5, <1>6, <1>7, <1>8 DEF f

\* EstimateCoversSends: with duplicates skipped a batch sends no more messages
\* than are priced, without skipping no more than the previewed duplicates on
\* top, for every sheet, range, limit and number of rows done so far.
THEOREM EstimateHolds == Spec => []EstimateCoversSends
<1>1. ASSUME DashInv PROVE EstimateCoversSends
  <2> SUFFICES ASSUME NEW b \in DOMAIN batches
               PROVE  LET f == batches[b].form
                          sends == RecordedAs(b, "send")
                      IN  /\ f.skip => sends <= PreviewOf(f).valid
                          /\ ~f.skip => sends <= PreviewOf(f).valid + PreviewOf(f).duplicate
    BY DEF EstimateCoversSends
  <2> DEFINE f == batches[b].form
             rows == RangeOf(f)
             part == SelectionOf(f)
             n == batches[b].life.recorded
  <2>1. /\ rows \in Seq(Item) /\ part \in Seq(Item) /\ Len(part) <= Len(rows)
        /\ \A k \in DOMAIN part : part[k] = rows[k]
        /\ f.skip \in BOOLEAN /\ n \in Nat /\ n <= Len(part)
    BY <1>1, BatchRows
  <2>2. /\ PreviewOf(f).valid = CountOf(rows, "ok")
        /\ PreviewOf(f).duplicate = CountOf(rows, "duplicate")
    BY DEF PreviewOf, PreviewCounts
  <2>3. RecordedAs(b, "send")
          = Cardinality({k \in 1..n : Outcomes(part, f.skip)[k] = "send"})
    BY DEF RecordedAs
  <2> HIDE DEF f, rows, part, n
  <2>4. LET sends == Cardinality({k \in 1..n : Outcomes(part, f.skip)[k] = "send"})
        IN  /\ sends <= CountOf(rows, "ok") + CountOf(rows, "duplicate")
            /\ f.skip => sends <= CountOf(rows, "ok")
    BY <2>1, SendsAreCounted
  <2> QED BY <2>2, <2>3, <2>4 DEF f
<1> QED BY <1>1, DashInvariance, PTL

\* FullRunMatchesPreview: what the preview told is what a full run records.
THEOREM FullRunPreviewed == Spec => []FullRunMatchesPreview
<1>1. ASSUME DashInv PROVE FullRunMatchesPreview
  <2> SUFFICES ASSUME NEW b \in DOMAIN batches,
                      batches[b].form.limit = 0, batches[b].form.skip,
                      batches[b].life.recorded = Len(RangeOf(batches[b].form)),
                      \A k \in DOMAIN RangeOf(batches[b].form) :
                          RangeOf(batches[b].form)[k].renders
               PROVE  LET p == PreviewOf(batches[b].form)
                      IN  /\ RecordedAs(b, "send") = p.valid
                          /\ RecordedAs(b, "invalid_phone") = p.invalid
                          /\ RecordedAs(b, "duplicate") = p.duplicate
    BY DEF FullRunMatchesPreview
  <2> DEFINE f == batches[b].form
             rows == RangeOf(f)
  <2>1. rows \in Seq(Item) /\ SelectionOf(f) = rows /\ f.skip = TRUE
    BY <1>1, BatchRows
  <2>2. \A s : RecordedAs(b, s)
                 = Cardinality({k \in 1..Len(rows) : Outcomes(rows, TRUE)[k] = s})
    BY <2>1 DEF RecordedAs
  <2>3. /\ PreviewOf(f).valid = CountOf(rows, "ok")
        /\ PreviewOf(f).invalid = CountOf(rows, "invalid_phone")
        /\ PreviewOf(f).duplicate = CountOf(rows, "duplicate")
    BY DEF PreviewOf, PreviewCounts
  <2>4. \A k \in DOMAIN rows : rows[k].renders
    OBVIOUS
  <2> HIDE DEF rows
  <2>5. LET Recorded(s) == Cardinality({k \in 1..Len(rows) : Outcomes(rows, TRUE)[k] = s})
        IN  /\ Recorded("send") = CountOf(rows, "ok")
            /\ Recorded("invalid_phone") = CountOf(rows, "invalid_phone")
            /\ Recorded("duplicate") = CountOf(rows, "duplicate")
    BY <2>1, <2>4, OutcomesArePreviewed
  <2> QED BY <2>2, <2>3, <2>5
<1> QED BY <1>1, DashInvariance, PTL

-----------------------------------------------------------------------------
(* Chains.                                                                 *)

\* Sets that hold, with a batch, the one it was offered after; what every one
\* of them with b in it holds is b's chain.
ClosedUnderBefore(S) == \A x \in S : Before(x) # 0 => Before(x) \in S
ChainOf(b) ==
    {a \in DOMAIN batches :
        \A S \in SUBSET DOMAIN batches : (b \in S /\ ClosedUnderBefore(S)) => a \in S}

LEMMA BeforeIsEarlier ==
    ASSUME DashInv, NEW b \in DOMAIN batches
    PROVE  /\ b \in Nat \ {0} /\ Before(b) \in 0..b - 1
           /\ Before(b) # 0 => Before(b) \in DOMAIN batches
BY BatchTypes DEF Before, DashInv

LEMMA ChainOfStep ==
    ASSUME DashInv, NEW b \in DOMAIN batches
    PROVE  ChainOf(b) = {b} \cup (IF Before(b) = 0 THEN {} ELSE ChainOf(Before(b)))
<1>1. ASSUME Before(b) = 0 PROVE ChainOf(b) = {b}
  <2>1. {b} \in SUBSET DOMAIN batches /\ ClosedUnderBefore({b})
    BY <1>1 DEF ClosedUnderBefore
  <2> QED BY <2>1 DEF ChainOf
<1>2. ASSUME Before(b) # 0 PROVE ChainOf(b) = {b} \cup ChainOf(Before(b))
  <2>1. {b} \cup ChainOf(Before(b)) \subseteq ChainOf(b)
    BY <1>2 DEF ChainOf, ClosedUnderBefore
  <2>2. ASSUME NEW a \in ChainOf(b), a # b, a \notin ChainOf(Before(b)) PROVE FALSE
    <3>1. a \in DOMAIN batches
      BY DEF ChainOf
    <3>2. PICK S \in SUBSET DOMAIN batches :
              Before(b) \in S /\ ClosedUnderBefore(S) /\ a \notin S
      BY <2>2, <3>1 DEF ChainOf
    <3>3. S \cup {b} \in SUBSET DOMAIN batches /\ ClosedUnderBefore(S \cup {b})
      BY <3>2 DEF ClosedUnderBefore
    <3>4. a \in S \cup {b}
      BY <3>3 DEF ChainOf
    <3> QED BY <2>2, <3>2, <3>4
  <2> QED BY <2>1, <2>2
<1> QED BY <1>1, <1>2

LEMMA ChainEquation ==
    ASSUME DashInv
    PROVE  /\ Chain[0] = {}
           /\ \A b \in DOMAIN batches : Chain[b] = {b} \cup Chain[Before(b)]
<1> DEFINE D == 0..Len(batches)
           Step(f, b) == IF b = 0 THEN {} ELSE {b} \cup f[Before(b)]
           known == [b \in D |-> IF b = 0 THEN {} ELSE ChainOf(b)]
<1>1. DOMAIN batches = 1..Len(batches) /\ Len(batches) \in Nat
  BY DEF DashInv
<1>2. \A b \in D : known[b] = Step(known, b)
  <2>1. ASSUME NEW b \in DOMAIN batches PROVE known[b] = {b} \cup known[Before(b)]
    <3>1. b \in D /\ b # 0 /\ Before(b) \in D
      BY <1>1, <2>1, BeforeIsEarlier
    <3> QED BY <2>1, <3>1, ChainOfStep
  <2>2. known[0] = {}
    BY <1>1
  <2>3. \A b \in D : b = 0 \/ b \in DOMAIN batches
    BY <1>1
  <2> HIDE DEF known
  <2> QED BY <2>1, <2>2, <2>3
<1>3. known = [b \in D |-> Step(known, b)]
  BY <1>2
<1>4. Chain = [b \in D |-> Step(Chain, b)]
  <2> HIDE DEF known
  <2> QED BY <1>3 DEF Chain
<1>5. 0 \in D /\ \A b \in DOMAIN batches : b \in D /\ b # 0
  BY <1>1
<1> HIDE DEF D
<1> QED BY <1>4, <1>5

LEMMA ChainIsEarlier ==
    ASSUME DashInv
    PROVE  \A b \in DOMAIN batches :
              Chain[b] \subseteq 1..b /\ Chain[b] \subseteq DOMAIN batches
<1> DEFINE Bad == {b \in DOMAIN batches : ~(Chain[b] \subseteq 1..b)}
<1>1. DOMAIN batches = 1..Len(batches) /\ Len(batches) \in Nat
  BY DEF DashInv
<1>2. Bad \in SUBSET Nat
  BY <1>1
<1>3. ASSUME Bad # {} PROVE FALSE
  <2> HIDE DEF Bad
  <2>1. PICK b \in Bad : \A c \in Bad : b <= c
    BY <1>2, <1>3, LeastElement
  <2> USE DEF Bad
  <2>2. b \in DOMAIN batches
    OBVIOUS
  <2>3. /\ b \in Nat \ {0} /\ Before(b) \in 0..b - 1
        /\ Before(b) # 0 => Before(b) \in DOMAIN batches
    BY <2>2, BeforeIsEarlier
  <2>4. Chain[Before(b)] \subseteq 1..Before(b)
    <3>1. CASE Before(b) = 0
      BY <3>1, ChainEquation
    <3>2. CASE Before(b) # 0
      BY <2>1, <2>3, <3>2
    <3> QED BY <3>1, <3>2
  <2>5. Chain[b] = {b} \cup Chain[Before(b)]
    BY <2>2, ChainEquation
  <2>6. Chain[b] \subseteq 1..b
    BY <2>3, <2>4, <2>5
  <2> QED BY <2>6
<1>4. \A b \in DOMAIN batches : Chain[b] \subseteq 1..b
  BY <1>3
<1>5. \A b \in DOMAIN batches : 1..b \subseteq DOMAIN batches
  BY <1>1
<1> QED BY <1>4, <1>5

\* ChainIsSeamless for the chain of b, with what carries it to the next batch:
\* what was sent lies before b's rows, and fills them up to there.
Seam(b) ==
    LET C == Chain[b]
        first == FirstOf(batches[b].form.start)
    IN  (\A a \in C \ {b} : WentThrough(a)) =>
            /\ \A a \in C \ {b} : LastOf(a) < first
            /\ \A a \in C, r \in DOMAIN sheet :
                  (FirstOf(batches[a].form.start) <= r /\ r < first) =>
                      \E c \in C \ {b} : r \in RowsOf(c)
            /\ \A a, c \in C : a # c => RowsOf(a) \cap RowsOf(c) = {}

\* Where the rows of a batch lie.
LEMMA RowsTypes ==
    ASSUME DashInv, NEW b \in DOMAIN batches
    PROVE  /\ FirstOf(batches[b].form.start) \in Nat
           /\ LastOf(b) \in Int
           /\ WentThrough(b) => FirstOf(batches[b].form.start) <= LastOf(b)
<1>1. batches[b].form.start \in Nat
  BY BatchTypes
<1>2. FirstOf(batches[b].form.start) \in Nat
  BY <1>1 DEF FirstOf, Most
<1>3. batches[b].life.recorded \in Nat
  BY BatchRows
<1> QED BY <1>2, <1>3 DEF LastOf, WentThrough

LEMMA SeamKept ==
    ASSUME DashInv, LinkFits, NEW b \in DOMAIN batches,
           Before(b) # 0 => Seam(Before(b))
    PROVE  Seam(b)
<1> DEFINE p == Before(b)
           First(a) == FirstOf(batches[a].form.start)
<1>1. Chain[b] = {b} \cup Chain[p]
  BY ChainEquation
<1>2. CASE p = 0
  <2>1. Chain[b] = {b}
    BY <1>1, <1>2, ChainEquation
  <2>2. First(b) \in Nat
    BY RowsTypes
  <2>3. \A r \in DOMAIN sheet : ~(First(b) <= r /\ r < First(b))
    <3>1. \A r \in DOMAIN sheet : r \in Nat
      BY SheetsAssumption DEF DashInv
    <3> QED BY <2>2, <3>1
  <2> QED BY <2>1, <2>3 DEF Seam
<1>3. CASE p # 0
  <2> SUFFICES ASSUME \A a \in Chain[b] \ {b} : WentThrough(a)
               PROVE  /\ \A a \in Chain[b] \ {b} : LastOf(a) < First(b)
                      /\ \A a \in Chain[b], r \in DOMAIN sheet :
                            (First(a) <= r /\ r < First(b)) =>
                                \E c \in Chain[b] \ {b} : r \in RowsOf(c)
                      /\ \A a, c \in Chain[b] :
                            a # c => RowsOf(a) \cap RowsOf(c) = {}
    BY DEF Seam
  <2>1. p \in DOMAIN batches /\ p \in 0..b - 1 /\ b \in Nat
    BY <1>3, BeforeIsEarlier
  <2>2. Chain[p] \subseteq 1..p /\ Chain[p] \subseteq DOMAIN batches /\ p \in Chain[p]
    BY <2>1, ChainIsEarlier, ChainEquation
  <2>3. b \notin Chain[p] /\ Chain[b] \ {b} = Chain[p]
    BY <1>1, <2>1, <2>2
  <2>4. WentThrough(p) /\ \A a \in Chain[p] \ {p} : WentThrough(a)
    BY <2>2, <2>3
  <2>5. /\ \A a \in Chain[p] \ {p} : LastOf(a) < First(p)
        /\ \A a \in Chain[p], r \in DOMAIN sheet :
              (First(a) <= r /\ r < First(p)) =>
                  \E c \in Chain[p] \ {p} : r \in RowsOf(c)
        /\ \A a, c \in Chain[p] : a # c => RowsOf(a) \cap RowsOf(c) = {}
    BY <1>3, <2>4 DEF Seam
  <2>6. First(b) = LastOf(p) + 1 \/ (LastOf(p) = Len(sheet) /\ First(b) > Len(sheet))
    BY <1>3, <2>4 DEF LinkFits
  <2>7. /\ First(b) \in Nat /\ First(p) \in Nat /\ First(p) <= LastOf(p)
        /\ \A a \in Chain[p] : First(a) \in Nat /\ LastOf(a) \in Int
        /\ LastOf(p) \in Int
    BY <2>1, <2>2, <2>4, RowsTypes
  <2>8. Len(sheet) \in Nat /\ DOMAIN sheet = 1..Len(sheet)
    BY SheetsAssumption DEF DashInv
  <2> HIDE DEF p, First
  <2>9. LastOf(p) < First(b)
    BY <2>6, <2>7, <2>8
  <2>10. ASSUME NEW a \in Chain[p] PROVE LastOf(a) < First(b)
    BY <2>5, <2>7, <2>9
  <2>11. ASSUME NEW a \in Chain[b], NEW r \in DOMAIN sheet, First(a) <= r, r < First(b)
         PROVE  \E c \in Chain[p] : r \in RowsOf(c)
    <3>1. r \in Nat /\ r <= Len(sheet)
      BY <2>8
    <3>2. a \in Chain[p]
      <4>1. a # b
        BY <2>7, <2>11, <3>1
      <4> QED BY <1>1, <4>1
    <3>3. CASE r < First(p)
      BY <2>5, <2>11, <3>2, <3>3
    <3>4. CASE ~(r < First(p))
      <4>1. First(p) <= r /\ r <= LastOf(p)
        BY <2>6, <2>7, <2>8, <2>11, <3>1, <3>4
      <4>2. r \in RowsOf(p)
        BY <2>7, <3>1, <4>1 DEF RowsOf, First
      <4> QED BY <2>2, <4>2
    <3> QED BY <3>3, <3>4
  <2>12. ASSUME NEW a \in Chain[p] PROVE RowsOf(a) \cap RowsOf(b) = {}
    <3>1. LastOf(a) < First(b) /\ LastOf(a) \in Int /\ First(a) \in Nat /\ First(b) \in Nat
      BY <2>7, <2>10
    <3>2. \A r \in RowsOf(a) : r \in Int /\ r <= LastOf(a)
      BY <3>1 DEF RowsOf, First
    <3>3. \A r \in RowsOf(b) : r \in Int /\ r >= First(b)
      BY <3>1, RowsTypes DEF RowsOf, First
    <3> QED BY <3>1, <3>2, <3>3
  <2>13. ASSUME NEW a \in Chain[b], NEW c \in Chain[b], a # c
         PROVE  RowsOf(a) \cap RowsOf(c) = {}
    BY <1>1, <2>5, <2>12, <2>13
  <2> QED BY <2>3, <2>10, <2>11, <2>13
<1> QED BY <1>2, <1>3

LEMMA EverySeam ==
    ASSUME DashInv, LinkFits
    PROVE  \A b \in DOMAIN batches : Seam(b)
<1> DEFINE Bad == {b \in DOMAIN batches : ~Seam(b)}
<1>1. Bad \in SUBSET Nat
  BY DEF DashInv
<1>2. ASSUME Bad # {} PROVE FALSE
  <2> HIDE DEF Bad
  <2>1. PICK b \in Bad : \A c \in Bad : b <= c
    BY <1>1, <1>2, LeastElement
  <2> USE DEF Bad
  <2>2. b \in DOMAIN batches /\ ~Seam(b)
    OBVIOUS
  <2>3. /\ b \in Nat \ {0} /\ Before(b) \in 0..b - 1
        /\ Before(b) # 0 => Before(b) \in DOMAIN batches
    BY <2>2, BeforeIsEarlier
  <2>4. Before(b) # 0 => Seam(Before(b))
    BY <2>1, <2>3
  <2> QED BY <2>2, <2>4, SeamKept
<1> QED BY <1>2

\* ChainIsSeamless: however many batches were sent one from the offer of the
\* other, each after the one before went through, they send no row twice and
\* leave none out.
THEOREM ChainsAreSeamless == Spec => []ChainIsSeamless
<1>1. ASSUME DashInv, LinkFits PROVE ChainIsSeamless
  <2> SUFFICES ASSUME NEW b \in DOMAIN batches,
                      \A a \in Chain[b] \ {b} : WentThrough(a)
               PROVE  /\ \A a, c \in Chain[b] : a # c => RowsOf(a) \cap RowsOf(c) = {}
                      /\ \A a \in Chain[b], r \in DOMAIN sheet :
                            r \in FirstOf(batches[a].form.start)..LastOf(b) =>
                                \E c \in Chain[b] : r \in RowsOf(c)
    BY DEF ChainIsSeamless
  <2> DEFINE First(a) == FirstOf(batches[a].form.start)
  <2>1. /\ \A a \in Chain[b], r \in DOMAIN sheet :
              (First(a) <= r /\ r < First(b)) => \E c \in Chain[b] \ {b} : r \in RowsOf(c)
        /\ \A a, c \in Chain[b] : a # c => RowsOf(a) \cap RowsOf(c) = {}
    BY <1>1, EverySeam DEF Seam
  <2>2. ASSUME NEW a \in Chain[b], NEW r \in DOMAIN sheet, r \in First(a)..LastOf(b)
        PROVE  \E c \in Chain[b] : r \in RowsOf(c)
    <3>1. b \in Chain[b] /\ a \in DOMAIN batches
      BY <1>1, ChainEquation, ChainIsEarlier
    <3>2. First(a) \in Nat /\ First(b) \in Nat /\ LastOf(b) \in Int
      BY <1>1, <3>1, RowsTypes
    <3>3. r \in Int /\ First(a) <= r /\ r <= LastOf(b)
      BY <2>2, <3>2
    <3>4. CASE r < First(b)
      BY <2>1, <3>3, <3>4
    <3>5. CASE ~(r < First(b))
      <4>1. r \in RowsOf(b)
        BY <3>2, <3>3, <3>5 DEF RowsOf
      <4> QED BY <3>1, <4>1
    <3> QED BY <3>4, <3>5
  <2> QED BY <2>1, <2>2
<1> QED BY <1>1, DashInvariance, LinksFit, PTL

\* A chain from the first row on, ending in a batch without end and without
\* limit, that went through: the whole file is sent.
SendsTheFile(b) ==
    /\ \A a \in Chain[b] : WentThrough(a)
    /\ \E a \in Chain[b] : FirstOf(batches[a].form.start) = 1
    /\ batches[b].form.end = 0
    /\ SelectionOf(batches[b].form) = RangeOf(batches[b].form)

EachRowOnce ==
    \A b \in DOMAIN batches : SendsTheFile(b) =>
        \A r \in DOMAIN sheet :
            \E c \in Chain[b] :
                r \in RowsOf(c) /\ \A d \in Chain[b] : r \in RowsOf(d) => d = c

\* EachRowOnce, from ChainIsSeamless: a file sent range by range, the last one
\* open, has each of its rows recorded by exactly one of the batches.
THEOREM FileIsSentOnce == Spec => []EachRowOnce
<1>1. ASSUME DashInv, ChainIsSeamless PROVE EachRowOnce
  <2> SUFFICES ASSUME NEW b \in DOMAIN batches, SendsTheFile(b), NEW r \in DOMAIN sheet
               PROVE  \E c \in Chain[b] :
                         r \in RowsOf(c) /\ \A d \in Chain[b] : r \in RowsOf(d) => d = c
    BY DEF EachRowOnce
  <2> DEFINE f == batches[b].form
             l == batches[b].life
  <2>1. b \in Chain[b] /\ WentThrough(b) /\ \A a \in Chain[b] : WentThrough(a)
    BY <1>1, ChainEquation DEF SendsTheFile
  <2>2. PICK a \in Chain[b] : FirstOf(batches[a].form.start) = 1
    BY DEF SendsTheFile
  <2>3. Len(sheet) \in Nat /\ r \in 1..Len(sheet) /\ sheet \in Seq(Item)
    BY <1>1, SheetsAssumption DEF DashInv
  <2>4. LastOf(b) = Len(sheet)
    <3>1. l.recorded = RowsToGo(b) /\ l.recorded > 0
      BY <1>1, <2>1 DEF DashInv, LifeInv, WentThrough, Life!Stopped
    <3>2. f.start \in Nat /\ l.recorded \in Nat
      BY <1>1, BatchTypes, BatchRows
    <3>3. RowsToGo(b) = Len(ApplyDataRange(sheet, f.start, 0))
      BY DEF SendsTheFile, RowsToGo, RangeOf
    <3> HIDE DEF f, l
    <3>4. Len(ApplyDataRange(sheet, f.start, 0))
            = LET first == IF f.start = 0 THEN 1 ELSE f.start
              IN  IF first <= Len(sheet) THEN Len(sheet) - first + 1 ELSE 0
      BY <2>3, <3>2, RangeLemma
    <3>5. FirstOf(f.start) = IF f.start = 0 THEN 1 ELSE f.start
      BY <3>2 DEF FirstOf, Most
    <3>6. LastOf(b) = FirstOf(f.start) + l.recorded - 1
      BY DEF LastOf, f, l
    <3> QED BY <2>3, <3>1, <3>2, <3>3, <3>4, <3>5, <3>6
  <2>5. r \in FirstOf(batches[a].form.start)..LastOf(b)
    BY <2>2, <2>3, <2>4
  <2>6. /\ \A c, d \in Chain[b] : c # d => RowsOf(c) \cap RowsOf(d) = {}
        /\ \E c \in Chain[b] : r \in RowsOf(c)
    BY <1>1, <2>1, <2>5 DEF ChainIsSeamless
  <2> QED BY <2>6
<1> QED BY <1>1, DashInvariance, ChainsAreSeamless, PTL
=============================================================================
