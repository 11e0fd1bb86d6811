--------------------------- MODULE HistoryProofs ---------------------------
(***************************************************************************)
(* What the operators of History preserve: the entries stay entries, and   *)
(* the history keeps its shape (OnlyNewestRuns).  The lemmas hold for any  *)
(* sets of Preparations P and of records R and D.                          *)
(***************************************************************************)
EXTENDS History, SequenceTheorems, WellFoundedInduction, TLAPS

\* A non-empty set of positions has a last one.
LEMMA LastExists ==
  ASSUME NEW n \in Nat, NEW S \in SUBSET (1 .. n), S # {}
  PROVE  \E m \in S : \A k \in S : k <= m
<1> DEFINE T == {m \in Nat : \E k \in S : m = n - k}
<1>1. T \subseteq Nat /\ T # {}
  <2>1. PICK k \in S : TRUE
    OBVIOUS
  <2>2. n - k \in Nat
    OBVIOUS
  <2> QED BY <2>2
<1>2. PICK x \in T : \A y \in T : ~(<<y, x>> \in OpToRel(<, Nat))
  BY <1>1, WFMin, NatLessThanWellFounded
<1>3. \A y \in T : ~(y < x)
  BY <1>1, <1>2 DEF OpToRel
<1>4. PICK m \in S : x = n - m
  OBVIOUS
<1>5. ASSUME NEW k \in S PROVE k <= m
  <2>1. n - k \in T /\ k \in Nat /\ m \in Nat
    OBVIOUS
  <2> QED BY <1>3, <1>4, <2>1
<1> QED
  BY <1>5

\* A function on 1 .. n is a sequence of length n.
LEMMA FunctionIsSeq ==
  ASSUME NEW S, NEW n \in Nat, NEW f \in [1 .. n -> S]
  PROVE  f \in Seq(S) /\ Len(f) = n /\ DOMAIN f = 1 .. n
OBVIOUS

\* Where the newest promoted entry of a history is: the first entry, or the
\* second one while a promotion is pending.
LEMMA DeployedIndexIs ==
  ASSUME NEW P, NEW R, NEW D, NEW h \in Seq(RecordedEntriesOf(P, R, D)),
         OnlyNewestRuns(h)
  PROVE  /\ IsDeployed(h) => DeployedIndex(h) \in Promotions(h)
         /\ ~IsDeployed(h) => DeployedIndex(h) = 0
         /\ IsDeployed(h) /\ ~HasPending(h) => DeployedIndex(h) = 1
         /\ IsDeployed(h) /\ HasPending(h) => DeployedIndex(h) = 2
         /\ ~IsDeployed(h) /\ HasPending(h) => Len(h) = 1
<1>1. Len(h) \in Nat /\ DOMAIN h = 1 .. Len(h)
  OBVIOUS
<1>2. \A i \in DOMAIN h : i # 1 => Promoted(h[i])
  BY DEF OnlyNewestRuns
<1>3. CASE ~IsDeployed(h)
  BY <1>1, <1>2, <1>3 DEF IsDeployed, DeployedIndex, HasPending, Promotions
<1>4. CASE IsDeployed(h) /\ ~HasPending(h)
  <2>1. 1 \in Promotions(h)
    BY <1>1, <1>4 DEF IsDeployed, HasPending, Promotions
  <2>2. \A j \in Promotions(h) : 1 <= j
    BY <1>1 DEF Promotions
  <2>3. \A i \in Promotions(h) : i <= 1 => i = 1
    BY <1>1 DEF Promotions
  <2>4. DeployedIndex(h) = 1
    BY <2>1, <2>2, <2>3 DEF DeployedIndex
  <2> QED BY <1>4, <2>1, <2>4
<1>5. CASE IsDeployed(h) /\ HasPending(h)
  <2>1. 1 \notin Promotions(h)
    BY <1>5 DEF HasPending, Promotions
  <2>2. PICK k \in Promotions(h) : TRUE
    BY <1>5 DEF IsDeployed
  <2>3. k \in 2 .. Len(h)
    BY <1>1, <2>1, <2>2 DEF Promotions
  <2>4. 2 \in Promotions(h)
    BY <1>1, <1>2, <2>3 DEF Promotions
  <2>5. \A j \in Promotions(h) : 2 <= j /\ j \in Nat
    BY <1>1, <2>1 DEF Promotions
  <2>6. DeployedIndex(h) = 2
    <3>1. \A i \in Promotions(h) :
            (\A j \in Promotions(h) : i <= j) <=> i = 2
      BY <2>4, <2>5
    <3> QED BY <2>4, <3>1 DEF DeployedIndex
  <2> QED BY <1>5, <2>4, <2>6
<1> QED
  BY <1>3, <1>4, <1>5

\* Truncating keeps a prefix, and with it the shape.
LEMMA TruncateShape ==
  ASSUME NEW P, NEW R, NEW D, NEW h \in Seq(RecordedEntriesOf(P, R, D)),
         \A i \in DOMAIN h : i # 1 => Promoted(h[i]),
         \A i, j \in DOMAIN h : i < j /\ Promoted(h[i]) => h[j].ended # Never
  PROVE  /\ Truncate(h) \in Seq(RecordedEntriesOf(P, R, D))
         /\ OnlyNewestRuns(Truncate(h))
<1> DEFINE n == IF Len(h) < MaxEntries THEN Len(h) ELSE MaxEntries
<1>1. n \in Nat /\ n <= Len(h) /\ n <= MaxEntries /\ DOMAIN h = 1 .. Len(h)
  BY MaxEntriesAssumption
<1>2. Truncate(h) = [i \in 1 .. n |-> h[i]]
  BY DEF Truncate
<1>3. \A i \in 1 .. n : h[i] \in RecordedEntriesOf(P, R, D) /\ i \in DOMAIN h
  BY <1>1
<1> HIDE DEF n
<1>4. Truncate(h) \in Seq(RecordedEntriesOf(P, R, D))
  BY <1>1, <1>2, <1>3, IsASeq
<1>5. Len(Truncate(h)) = n /\ DOMAIN Truncate(h) = 1 .. n
  BY <1>1, <1>2
<1> QED
  BY <1>1, <1>2, <1>3, <1>4, <1>5 DEF OnlyNewestRuns

\* A sequence with an element inserted is a sequence, one longer.
LEMMA InsertSeq ==
  ASSUME NEW P, NEW R, NEW D, NEW h \in Seq(RecordedEntriesOf(P, R, D)),
         NEW e \in RecordedEntriesOf(P, R, D), NEW i \in 1 .. Len(h) + 1
  PROVE  /\ Insert(h, i, e) \in Seq(RecordedEntriesOf(P, R, D))
         /\ DOMAIN Insert(h, i, e) = 1 .. Len(h) + 1
         /\ Insert(h, i, e)[i] = e
         /\ \A j \in 1 .. Len(h) + 1 : j < i => Insert(h, i, e)[j] = h[j]
         /\ \A j \in 1 .. Len(h) + 1 : i < j => Insert(h, i, e)[j] = h[j - 1]
<1>1. Len(h) \in Nat /\ \A j \in 1 .. Len(h) : h[j] \in RecordedEntriesOf(P, R, D)
  OBVIOUS
<1>2. \A j \in 1 .. Len(h) + 1 : Insert(h, i, e)[j] \in RecordedEntriesOf(P, R, D)
  BY <1>1 DEF Insert
<1>3. Insert(h, i, e) = [j \in 1 .. Len(h) + 1 |-> Insert(h, i, e)[j]]
  BY DEF Insert
<1>4. Len(h) + 1 \in Nat
  BY <1>1
<1>5. Insert(h, i, e) \in Seq(RecordedEntriesOf(P, R, D))
  BY <1>2, <1>3, <1>4, IsASeq
<1> QED
  BY <1>1, <1>5 DEF Insert

\* Dropping a pending promotion leaves none, and the deployed entry first.
LEMMA DropShape ==
  ASSUME NEW P, NEW R, NEW D, NEW h \in Seq(RecordedEntriesOf(P, R, D)),
         OnlyNewestRuns(h)
  PROVE  /\ Drop(h) \in Seq(RecordedEntriesOf(P, R, D))
         /\ OnlyNewestRuns(Drop(h))
         /\ ~HasPending(Drop(h))
<1>1. CASE ~HasPending(h)
  BY <1>1 DEF Drop
<1>2. CASE HasPending(h)
  <2> DEFINE t == Tail(h)
  <2>1. h # << >> /\ Drop(h) = t
    BY <1>2 DEF HasPending, Drop
  <2>2. /\ t \in Seq(RecordedEntriesOf(P, R, D))
        /\ Len(t) = Len(h) - 1 /\ Len(h) \in Nat
        /\ \A i \in 1 .. Len(t) : t[i] = h[i + 1] /\ i + 1 \in 1 .. Len(h)
    BY <2>1
  <2>3. DOMAIN t = 1 .. Len(t) /\ DOMAIN h = 1 .. Len(h)
    BY <2>2
  <2> HIDE DEF t
  <2>4. \A i \in DOMAIN t : Promoted(t[i])
    <3> SUFFICES ASSUME NEW i \in DOMAIN t PROVE Promoted(t[i])
      OBVIOUS
    <3>1. i + 1 \in DOMAIN h /\ i + 1 # 1 /\ t[i] = h[i + 1]
      BY <2>2, <2>3
    <3> QED BY <3>1 DEF OnlyNewestRuns
  <2>5. \A i, j \in DOMAIN t : i < j => t[j].ended # Never
    <3> SUFFICES ASSUME NEW i \in DOMAIN t, NEW j \in DOMAIN t, i < j
                 PROVE  t[j].ended # Never
      OBVIOUS
    <3>1. i + 1 \in DOMAIN h /\ j + 1 \in DOMAIN h /\ i + 1 < j + 1
      BY <2>2, <2>3
    <3>2. t[i] = h[i + 1] /\ t[j] = h[j + 1]
      BY <2>2, <2>3
    <3> QED BY <2>4, <3>1, <3>2 DEF OnlyNewestRuns
  <2>6. Len(t) <= MaxEntries
    BY <2>2, MaxEntriesAssumption DEF OnlyNewestRuns
  <2>7. OnlyNewestRuns(t)
    BY <2>4, <2>5, <2>6 DEF OnlyNewestRuns
  <2>8. ~HasPending(t)
    BY <2>2, <2>3, <2>4 DEF HasPending
  <2> QED BY <2>1, <2>2, <2>7, <2>8
<1> QED
  BY <1>1, <1>2

\* What is pending is not deployed, so dropping it changes nothing of that.
LEMMA DropDeployed ==
  ASSUME NEW P, NEW R, NEW D, NEW h \in Seq(RecordedEntriesOf(P, R, D)),
         OnlyNewestRuns(h), IsDeployed(h)
  PROVE  IsDeployed(Drop(h)) /\ Deployed(Drop(h)) = Deployed(h)
<1>1. CASE ~HasPending(h)
  BY <1>1 DEF Drop
<1>2. CASE HasPending(h)
  <2> DEFINE t == Tail(h)
  <2>1. h # << >> /\ Drop(h) = t
    BY <1>2 DEF HasPending, Drop
  <2>2. DeployedIndex(h) = 2 /\ 2 \in DOMAIN h /\ Promoted(h[2])
    BY <1>2, DeployedIndexIs DEF Promotions
  <2>3. t[1] = h[2] /\ 1 \in DOMAIN t
    BY <2>1, <2>2
  <2> HIDE DEF t
  <2>4. IsDeployed(t)
    BY <2>2, <2>3 DEF IsDeployed, Promotions
  <2>5. DeployedIndex(t) = 1
    BY <2>1, <2>4, DropShape, DeployedIndexIs
  <2> QED BY <2>1, <2>2, <2>3, <2>4, <2>5 DEF Deployed
<1> QED BY <1>1, <1>2

\* Opening a promotion puts its pending entry first.
LEMMA OpenShape ==
  ASSUME NEW P, NEW R, NEW D, NEW h \in Seq(RecordedEntriesOf(P, R, D)),
         OnlyNewestRuns(h), NEW p \in P, NEW now \in Nat \ {Never}
  PROVE  /\ Open(h, p, now) \in Seq(RecordedEntriesOf(P, R, D))
         /\ OnlyNewestRuns(Open(h, p, now))
<1> DEFINE d == Drop(h)
           e == PendingEntry(p, now)
           s == Insert(d, 1, e)
<1>1. /\ d \in Seq(RecordedEntriesOf(P, R, D)) /\ OnlyNewestRuns(d)
      /\ ~HasPending(d)
  BY DropShape
<1>2. e \in RecordedEntriesOf(P, R, D) /\ ~Promoted(e)
  BY DEF PendingEntry, RecordedEntriesOf, EntriesOf, Promoted, Never, NotEnded
<1>3. Open(h, p, now) = Truncate(s)
  BY DEF Open, Prepend
<1>4. Len(d) \in Nat /\ DOMAIN d = 1 .. Len(d) /\ 1 \in 1 .. Len(d) + 1
  BY <1>1
<1>5. \A i \in DOMAIN d : Promoted(d[i])
  BY <1>1, <1>4 DEF OnlyNewestRuns, HasPending
<1> HIDE DEF d, e
<1>6. /\ s \in Seq(RecordedEntriesOf(P, R, D))
      /\ DOMAIN s = 1 .. Len(d) + 1 /\ s[1] = e
      /\ \A j \in 1 .. Len(d) + 1 : 1 < j => s[j] = d[j - 1]
  BY <1>1, <1>2, <1>4, InsertSeq
<1> HIDE DEF s
<1>7. \A i \in DOMAIN s : i # 1 => Promoted(s[i])
  <2> SUFFICES ASSUME NEW i \in DOMAIN s, i # 1 PROVE Promoted(s[i])
    OBVIOUS
  <2>1. i - 1 \in DOMAIN d /\ s[i] = d[i - 1]
    BY <1>4, <1>6
  <2> QED BY <1>5, <2>1
<1>8. \A i, j \in DOMAIN s : i < j /\ Promoted(s[i]) => s[j].ended # Never
  <2> SUFFICES ASSUME NEW i \in DOMAIN s, NEW j \in DOMAIN s, i < j, Promoted(s[i])
               PROVE  s[j].ended # Never
    OBVIOUS
  <2>1. i # 1
    BY <1>2, <1>6
  <2>2. /\ i - 1 \in DOMAIN d /\ j - 1 \in DOMAIN d /\ i - 1 < j - 1
        /\ s[j] = d[j - 1]
    BY <1>4, <1>6, <2>1
  <2> QED BY <1>1, <1>5, <2>2 DEF OnlyNewestRuns
<1> QED
  BY <1>3, <1>6, <1>7, <1>8, TruncateShape

\* Starting the pending entry ends what it replaces.
LEMMA StartShape ==
  ASSUME NEW P, NEW R, NEW D, NEW h \in Seq(RecordedEntriesOf(P, R, D)),
         OnlyNewestRuns(h), NEW r \in R,
         HasPending(h) => r.preparation = h[1].preparation
  PROVE  /\ Start(h, r) \in Seq(RecordedEntriesOf(P, R, D))
         /\ OnlyNewestRuns(Start(h, r))
<1>1. CASE ~HasPending(h)
  BY <1>1 DEF Start
<1>2. CASE HasPending(h)
  <2> DEFINE k == DeployedIndex(h)
             u == Supersede(h, k)
             v == [u EXCEPT ![1].promotionRecord = r]
  <2>1. Start(h, r) = v
    BY <1>2 DEF Start
  <2>2. /\ Len(h) \in Nat /\ DOMAIN h = 1 .. Len(h) /\ 1 \in DOMAIN h
        /\ \A i \in DOMAIN h : h[i] \in RecordedEntriesOf(P, R, D)
        /\ Len(h) <= MaxEntries
    BY <1>2 DEF HasPending, OnlyNewestRuns
  <2>3. /\ k = 0 => Len(h) = 1
        /\ k # 0 => k = 2 /\ 2 \in DOMAIN h
    <3>1. CASE ~IsDeployed(h)
      BY <1>2, <3>1, DeployedIndexIs
    <3>2. CASE IsDeployed(h)
      <4>1. k = 2 /\ k \in Promotions(h)
        BY <1>2, <3>2, DeployedIndexIs
      <4> QED BY <4>1 DEF Promotions
    <3> QED BY <3>1, <3>2
  <2> HIDE DEF k
  <2>4. h[1].started # Never
    BY <2>2 DEF RecordedEntriesOf, EntriesOf
  <2>5. /\ u \in [1 .. Len(h) -> RecordedEntriesOf(P, R, D)]
        /\ u[1] = h[1]
        /\ \A i \in DOMAIN h : i # 1 => Promoted(u[i])
        /\ \A i \in DOMAIN h : i # 1 => u[i].ended # Never
    <3>1. CASE k = 0 \/ h[k].ended # Never
      <4>1. u = h
        BY <3>1 DEF Supersede
      <4>2. \A i \in DOMAIN h : i # 1 => Promoted(h[i]) /\ h[i].ended # Never
        <5> SUFFICES ASSUME NEW i \in DOMAIN h, i # 1
                     PROVE  Promoted(h[i]) /\ h[i].ended # Never
          OBVIOUS
        <5>1. k = 2 /\ 2 \in DOMAIN h /\ Promoted(h[2]) /\ h[2].ended # Never
          BY <2>2, <2>3, <3>1 DEF OnlyNewestRuns
        <5>2. i = 2 \/ 2 < i
          BY <2>2
        <5> QED BY <5>1, <5>2 DEF OnlyNewestRuns
      <4> QED BY <2>2, <4>1, <4>2
    <3>2. CASE ~(k = 0 \/ h[k].ended # Never)
      <4>1. k = 2 /\ 2 \in DOMAIN h /\ Promoted(h[2])
        BY <2>3, <3>2 DEF OnlyNewestRuns
      <4> DEFINE e == [h[2] EXCEPT !.ended = h[1].started, !.endReason = Superseded]
      <4>2. u = [h EXCEPT ![2] = e]
        BY <3>2, <4>1 DEF Supersede
      <4>3. /\ e \in RecordedEntriesOf(P, R, D) /\ Promoted(e)
            /\ e.ended # Never
        <5>1. /\ h[2] \in EntriesOf(P, R, D)
              /\ h[2].promotionRecord.preparation = h[2].preparation
              /\ h[2].promotionRecord # NoRecord
          BY <2>2, <4>1 DEF RecordedEntriesOf, Promoted
        <5>2. h[1].started \in Nat \ {Never}
          BY <2>2 DEF RecordedEntriesOf, EntriesOf
        <5>3. /\ e \in EntriesOf(P, R, D)
              /\ e.preparation = h[2].preparation
              /\ e.promotionRecord = h[2].promotionRecord
              /\ e.ended = h[1].started /\ e.endReason = Superseded
          BY <5>1, <5>2 DEF EntriesOf, Superseded
        <5> HIDE DEF e
        <5> QED
          BY <5>1, <5>2, <5>3
             DEF RecordedEntriesOf, Promoted, NotEnded, Superseded
      <4>4. \A i \in DOMAIN h : i # 1 /\ i # 2 =>
              Promoted(h[i]) /\ h[i].ended # Never
        <5> SUFFICES ASSUME NEW i \in DOMAIN h, i # 1, i # 2
                     PROVE  Promoted(h[i]) /\ h[i].ended # Never
          OBVIOUS
        <5>1. 2 < i
          BY <2>2
        <5> QED BY <4>1, <5>1 DEF OnlyNewestRuns
      <4> HIDE DEF e
      <4> QED BY <2>2, <4>1, <4>2, <4>3, <4>4
    <3> QED BY <3>1, <3>2
  <2> HIDE DEF u
  <2>6. [h[1] EXCEPT !.promotionRecord = r] \in RecordedEntriesOf(P, R, D)
    BY <1>2, <2>2 DEF RecordedEntriesOf, EntriesOf, Promoted
  <2>7. v = [u EXCEPT ![1] = [h[1] EXCEPT !.promotionRecord = r]]
    BY <2>2, <2>5
  <2> HIDE DEF v
  <2>8. /\ v \in [1 .. Len(h) -> RecordedEntriesOf(P, R, D)]
        /\ \A i \in DOMAIN h : i # 1 => v[i] = u[i]
    BY <2>2, <2>5, <2>6, <2>7
  <2>9. /\ v \in Seq(RecordedEntriesOf(P, R, D))
        /\ Len(v) = Len(h) /\ DOMAIN v = DOMAIN h
    BY <2>2, <2>8
  <2>10. \A i \in DOMAIN v : i # 1 => Promoted(v[i])
    BY <2>5, <2>8, <2>9
  <2>11. \A i, j \in DOMAIN v : i < j => v[j].ended # Never
    <3> SUFFICES ASSUME NEW i \in DOMAIN v, NEW j \in DOMAIN v, i < j
                 PROVE  v[j].ended # Never
      OBVIOUS
    <3>1. j # 1
      BY <2>2, <2>9
    <3> QED BY <2>5, <2>8, <2>9, <3>1
  <2> QED BY <2>1, <2>2, <2>9, <2>10, <2>11 DEF OnlyNewestRuns
<1> QED
  BY <1>1, <1>2

\* Nothing but the first two entries of a history runs or is pending.
LEMMA BelowDeployedEnded ==
  ASSUME NEW P, NEW R, NEW D, NEW h \in Seq(RecordedEntriesOf(P, R, D)),
         OnlyNewestRuns(h), IsDeployed(h)
  PROVE  /\ DeployedIndex(h) \in DOMAIN h
         /\ \A i \in DOMAIN h : i < DeployedIndex(h) => i = 1 /\ ~Promoted(h[i])
         /\ \A i \in DOMAIN h :
              DeployedIndex(h) < i => Promoted(h[i]) /\ h[i].ended # Never
<1> DEFINE k == DeployedIndex(h)
<1>1. /\ k \in DOMAIN h /\ Promoted(h[k])
      /\ k = 1 \/ (k = 2 /\ ~Promoted(h[1]))
  BY DeployedIndexIs DEF Promotions, HasPending
<1>2. DOMAIN h = 1 .. Len(h) /\ Len(h) \in Nat
  OBVIOUS
<1> HIDE DEF k
<1>3. \A i \in DOMAIN h : i < k => i = 1 /\ ~Promoted(h[i])
  BY <1>1, <1>2
<1>4. \A i \in DOMAIN h : k < i => Promoted(h[i]) /\ h[i].ended # Never
  BY <1>1, <1>2 DEF OnlyNewestRuns
<1> QED
  BY <1>1, <1>3, <1>4 DEF k

\* Replacing the deployed entry by one of the same Preparation and record
\* keeps the shape, whether it runs or not.
LEMMA ReplaceDeployedShape ==
  ASSUME NEW P, NEW R, NEW D, NEW h \in Seq(RecordedEntriesOf(P, R, D)),
         OnlyNewestRuns(h), IsDeployed(h),
         NEW e \in RecordedEntriesOf(P, R, D), Promoted(e)
  PROVE  /\ [h EXCEPT ![DeployedIndex(h)] = e] \in Seq(RecordedEntriesOf(P, R, D))
         /\ OnlyNewestRuns([h EXCEPT ![DeployedIndex(h)] = e])
<1> DEFINE k == DeployedIndex(h)
           g == [h EXCEPT ![k] = e]
<1>1. DOMAIN h = 1 .. Len(h) /\ Len(h) \in Nat /\ Len(h) <= MaxEntries
  BY DEF OnlyNewestRuns
<1>2. /\ k \in DOMAIN h
      /\ \A i \in DOMAIN h : i < k => i = 1 /\ ~Promoted(h[i])
      /\ \A i \in DOMAIN h : k < i => Promoted(h[i]) /\ h[i].ended # Never
  BY BelowDeployedEnded
<1> HIDE DEF k
<1>3. g \in Seq(RecordedEntriesOf(P, R, D)) /\ Len(g) = Len(h) /\ DOMAIN g = DOMAIN h
  BY <1>1, <1>2, ExceptSeq
<1>4. g[k] = e /\ \A i \in DOMAIN h : i # k => g[i] = h[i]
  BY <1>1, <1>2
<1> HIDE DEF g
<1>5. \A i \in DOMAIN g : i # 1 => Promoted(g[i])
  BY <1>1, <1>2, <1>3, <1>4
<1>6. \A i, j \in DOMAIN g : i < j /\ Promoted(g[i]) => g[j].ended # Never
  <2> SUFFICES ASSUME NEW i \in DOMAIN g, NEW j \in DOMAIN g, i < j, Promoted(g[i])
               PROVE  g[j].ended # Never
    OBVIOUS
  <2>1. ~(i < k)
    BY <1>1, <1>2, <1>3, <1>4
  <2>2. k < j
    BY <1>1, <1>2, <1>3, <2>1
  <2> QED BY <1>1, <1>2, <1>3, <1>4, <2>2
<1> QED
  BY <1>1, <1>3, <1>5, <1>6 DEF OnlyNewestRuns, g, k

\* Inserting a promoted entry before the deployed one, which ended, keeps it.
LEMMA RecoverShape ==
  ASSUME NEW P, NEW R, NEW D, NEW h \in Seq(RecordedEntriesOf(P, R, D)),
         OnlyNewestRuns(h), IsDeployed(h), Deployed(h).ended # Never,
         NEW e \in RecordedEntriesOf(P, R, D), Promoted(e)
  PROVE  /\ Truncate(Insert(h, DeployedIndex(h), e)) \in Seq(RecordedEntriesOf(P, R, D))
         /\ OnlyNewestRuns(Truncate(Insert(h, DeployedIndex(h), e)))
<1> DEFINE k == DeployedIndex(h)
           s == Insert(h, k, e)
<1>1. DOMAIN h = 1 .. Len(h) /\ Len(h) \in Nat
  OBVIOUS
<1>2. /\ k \in DOMAIN h
      /\ \A i \in DOMAIN h : i < k => i = 1 /\ ~Promoted(h[i])
      /\ \A i \in DOMAIN h : k < i => Promoted(h[i]) /\ h[i].ended # Never
  BY BelowDeployedEnded
<1>3. h[k].ended # Never /\ Promoted(h[k])
  BY DeployedIndexIs DEF Deployed, Promotions
<1> HIDE DEF k
<1>4a. k \in 1 .. Len(h) + 1
  BY <1>1, <1>2
<1>4. /\ s \in Seq(RecordedEntriesOf(P, R, D))
      /\ DOMAIN s = 1 .. Len(h) + 1 /\ s[k] = e
      /\ \A j \in 1 .. Len(h) + 1 : j < k => s[j] = h[j]
      /\ \A j \in 1 .. Len(h) + 1 : k < j => s[j] = h[j - 1]
  BY <1>4a, InsertSeq
<1> HIDE DEF s
<1>5. \A j \in DOMAIN s : k < j => Promoted(s[j]) /\ s[j].ended # Never
  <2> SUFFICES ASSUME NEW j \in DOMAIN s, k < j
               PROVE  Promoted(s[j]) /\ s[j].ended # Never
    OBVIOUS
  <2>1. j - 1 \in DOMAIN h /\ (j - 1 = k \/ k < j - 1)
    BY <1>1, <1>2, <1>4
  <2> QED BY <1>2, <1>3, <1>4, <2>1
<1>6. \A j \in DOMAIN s : j < k => j = 1 /\ ~Promoted(s[j])
  BY <1>1, <1>2, <1>4
<1>7. \A j \in DOMAIN s : j < k \/ j = k \/ k < j
  BY <1>1, <1>2, <1>4
<1>8. \A j \in DOMAIN s : j # 1 => Promoted(s[j])
  BY <1>4, <1>5, <1>6, <1>7
<1>9. \A i, j \in DOMAIN s : i < j /\ Promoted(s[i]) => s[j].ended # Never
  <2> SUFFICES ASSUME NEW i \in DOMAIN s, NEW j \in DOMAIN s, i < j, Promoted(s[i])
               PROVE  s[j].ended # Never
    OBVIOUS
  <2>1. i = k \/ k < i
    BY <1>6, <1>7
  <2>2. k < j
    BY <1>1, <1>2, <1>4, <2>1
  <2> QED BY <1>5, <2>2
<1> QED
  BY <1>4, <1>8, <1>9, TruncateShape DEF s, k

\* What Argo CD reports keeps the shape.
LEMMA ObserveShape ==
  ASSUME NEW P, NEW R, NEW D, NEW h \in Seq(RecordedEntriesOf(P, R, D)),
         OnlyNewestRuns(h), NEW revision, NEW health, NEW now \in Nat \ {Never}
  PROVE  /\ Observe(h, revision, health, now) \in Seq(RecordedEntriesOf(P, R, D))
         /\ OnlyNewestRuns(Observe(h, revision, health, now))
<1> DEFINE k == DeployedIndex(h)
           e == h[k]
           good(g) == g \in Seq(RecordedEntriesOf(P, R, D)) /\ OnlyNewestRuns(g)
<1>1. CASE ~IsDeployed(h) \/ e.preparation # revision
  BY <1>1 DEF Observe
<1>2. CASE IsDeployed(h) /\ e.preparation = revision
  <2>1. k \in DOMAIN h /\ e \in RecordedEntriesOf(P, R, D) /\ Promoted(e)
    BY <1>2, DeployedIndexIs DEF Promotions
  <2>2. good([h EXCEPT ![k].healthy = now])
    <3>1. /\ [e EXCEPT !.healthy = now] \in RecordedEntriesOf(P, R, D)
          /\ Promoted([e EXCEPT !.healthy = now])
      BY <2>1 DEF RecordedEntriesOf, EntriesOf, Promoted
    <3>2. [h EXCEPT ![k].healthy = now] = [h EXCEPT ![k] = [e EXCEPT !.healthy = now]]
      BY <2>1
    <3> QED BY <1>2, <3>1, <3>2, ReplaceDeployedShape
  <2>3. good([h EXCEPT ![k].ended = now, ![k].endReason = Degraded])
    <3> DEFINE d == [e EXCEPT !.ended = now, !.endReason = Degraded]
    <3>1. d \in RecordedEntriesOf(P, R, D) /\ Promoted(d)
      BY <2>1 DEF RecordedEntriesOf, EntriesOf, Promoted, NotEnded, Degraded
    <3>2. [h EXCEPT ![k].ended = now, ![k].endReason = Degraded] = [h EXCEPT ![k] = d]
      BY <2>1
    <3> QED BY <1>2, <3>1, <3>2, ReplaceDeployedShape
  <2>4. e.ended # Never => good(Truncate(Insert(h, k, Recovery(e, now))))
    <3>1. /\ Recovery(e, now) \in RecordedEntriesOf(P, R, D)
          /\ Promoted(Recovery(e, now))
      BY <2>1 DEF Recovery, RecordedEntriesOf, EntriesOf, Promoted, Never, NotEnded
    <3> QED BY <1>2, <3>1, RecoverShape DEF Deployed
  <2>5. e.endReason = Degraded => e.ended # Never
    BY <2>1 DEF RecordedEntriesOf, NotEnded, Degraded
  <2> QED BY <1>2, <2>2, <2>3, <2>4, <2>5 DEF Observe
<1> QED
  BY <1>1, <1>2

=============================================================================
