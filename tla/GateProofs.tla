------------------------------ MODULE GateProofs ------------------------------
(***************************************************************************)
(* What holds of the upstream gate for any number of stages, soaks,        *)
(* Preparations and changes: what the downstream stage promotes first is   *)
(* proved by records of what each upstream stage ran, and ran there for    *)
(* its soak; and the gate is asked again when that may have changed.       *)
(***************************************************************************)
EXTENDS UpstreamGate, HistoryProofs

Entries(u) == RecordedEntriesOf(Preps, UpstreamRecords(u), DeploymentRecords)

SelfEntries == RecordedEntriesOf(Preps, SelfRecords, {})

\* What an entry claims at time t of a stage with soak: nothing in it is ahead of
\* the clock, what is pending is not healthy yet, and what was healthy was served
\* for the soak or as long as it says, also by the streak that goes on.
EntryGood(e, soak, t, run, earned) ==
  /\ e.started <= t /\ e.healthy <= t /\ e.ended <= t
  /\ ~Promoted(e) => e.healthy = Never
  /\ Promoted(e) /\ e.healthy # Never =>
       earned[e.preparation] >= soak \/ earned[e.preparation] >= HealthyFor(e, t)
  /\ Promoted(e) /\ e.healthy # Never /\ Running(e) =>
       run >= soak \/ run >= t - e.healthy

HistoryGood(h, soak, t, run, earned) ==
  /\ OnlyNewestRuns(h)
  /\ \A i \in DOMAIN h : EntryGood(h[i], soak, t, run, earned)

\* A stage as it is; an Order that is gone has no history.
StageGood(u) ==
  /\ upstream[u].product = "None" => upstream[u].history = << >>
  /\ HistoryGood(upstream[u].history, Soak[u], now, streak[u], served[u])

\* A copy of a stage, of whatever age.
CopyGood(u) ==
  \A i \in DOMAIN seen[u].history : seen[u].history[i].ended <= now

Inductive ==
  /\ TypeOK
  /\ \A u \in Stages : StageGood(u) /\ CopyGood(u)
  /\ OnlyNewestRuns(self)
  /\ EvidenceRecorded

-----------------------------------------------------------------------------
(* The entries of the histories that the operators of History give.        *)

\* An entry with its promotion record, its time of health, or its end.
WithRecord(e, r) == [e EXCEPT !.promotionRecord = r]
WithHealth(e, t) == [e EXCEPT !.healthy = t]
WithEnd(e, t, reason) == [e EXCEPT !.ended = t, !.endReason = reason]

\* A pending entry is new or was there, and what is left of a history that is
\* dropped, or truncated, was in it.
LEMMA DropEntries ==
  ASSUME NEW S, NEW h \in Seq(S)
  PROVE  \A i \in DOMAIN Drop(h) : \E j \in DOMAIN h : Drop(h)[i] = h[j]
<1>1. CASE ~HasPending(h)
  BY <1>1 DEF Drop
<1>2. CASE HasPending(h)
  <2>1. Drop(h) = Tail(h) /\ h # << >>
    BY <1>2 DEF Drop, HasPending
  <2>2. DOMAIN h = 1 .. Len(h) /\ Len(h) \in Nat /\ DOMAIN Tail(h) = 1 .. Len(h) - 1
        /\ \A i \in 1 .. Len(h) - 1 : Tail(h)[i] = h[i + 1] /\ i + 1 \in 1 .. Len(h)
    BY <2>1
  <2> QED BY <2>1, <2>2
<1> QED BY <1>1, <1>2

LEMMA InsertEntries ==
  ASSUME NEW S, NEW h \in Seq(S), NEW k \in 1 .. Len(h) + 1, NEW e
  PROVE  \A i \in DOMAIN Truncate(Insert(h, k, e)) :
           \/ Truncate(Insert(h, k, e))[i] = e
           \/ \E j \in DOMAIN h : Truncate(Insert(h, k, e))[i] = h[j]
<1> DEFINE s == Insert(h, k, e)
<1>1. Len(h) \in Nat /\ DOMAIN h = 1 .. Len(h)
  OBVIOUS
<1>2. DOMAIN s = 1 .. Len(h) + 1 /\ Len(s) = Len(h) + 1
  <2>1. s = [j \in 1 .. Len(h) + 1 |-> s[j]]
    BY DEF Insert
  <2>2. Len(h) + 1 \in Nat
    BY <1>1
  <2> HIDE DEF s
  <2> QED BY <2>1, <2>2
<1>3. \A i \in 1 .. Len(h) + 1 : s[i] = e \/ \E j \in DOMAIN h : s[i] = h[j]
  <2> SUFFICES ASSUME NEW i \in 1 .. Len(h) + 1
               PROVE  s[i] = e \/ \E j \in DOMAIN h : s[i] = h[j]
    OBVIOUS
  <2>1. CASE i = k
    BY <2>1 DEF Insert
  <2>2. CASE i < k
    <3>1. i \in DOMAIN h /\ s[i] = h[i]
      BY <1>1, <2>2 DEF Insert
    <3> QED BY <3>1
  <2>3. CASE k < i
    <3>1. i - 1 \in DOMAIN h /\ s[i] = h[i - 1]
      BY <1>1, <2>3 DEF Insert
    <3> QED BY <3>1
  <2> QED BY <1>1, <2>1, <2>2, <2>3
<1> HIDE DEF s
<1>4. \A i \in DOMAIN Truncate(s) : i \in 1 .. Len(h) + 1 /\ Truncate(s)[i] = s[i]
  BY <1>1, <1>2, MaxEntriesAssumption DEF Truncate
<1> QED BY <1>3, <1>4 DEF s

LEMMA OpenEntries ==
  ASSUME NEW P, NEW R, NEW D, NEW h \in Seq(RecordedEntriesOf(P, R, D)),
         OnlyNewestRuns(h), NEW p, NEW t
  PROVE  \A i \in DOMAIN Open(h, p, t) :
           \/ Open(h, p, t)[i] = PendingEntry(p, t)
           \/ \E j \in DOMAIN h : Open(h, p, t)[i] = h[j]
<1> DEFINE d == Drop(h)
<1>1. d \in Seq(RecordedEntriesOf(P, R, D))
  BY DropShape
<1>2. \A i \in DOMAIN d : \E j \in DOMAIN h : d[i] = h[j]
  BY DropEntries
<1>3. Open(h, p, t) = Truncate(Insert(d, 1, PendingEntry(p, t)))
  BY DEF Open, Prepend
<1> HIDE DEF d
<1>4. 1 \in 1 .. Len(d) + 1
  BY <1>1
<1> QED BY <1>1, <1>2, <1>3, <1>4, InsertEntries

\* Starting what is pending gives it its record, and ends what it replaces when
\* it was opened.
LEMMA StartEntries ==
  ASSUME NEW P, NEW R, NEW D, NEW h \in Seq(RecordedEntriesOf(P, R, D)),
         OnlyNewestRuns(h), HasPending(h), NEW r
  PROVE  LET v == Start(h, r)
         IN  /\ 1 \in DOMAIN h /\ DOMAIN v = DOMAIN h
             /\ v[1] = WithRecord(h[1], r)
             /\ \A i \in DOMAIN h \ {1} :
                  /\ v[i].ended # Never
                  /\ v[i] = h[i] \/ ( /\ Running(h[i])
                                      /\ v[i] = WithEnd(h[i], h[1].started, Superseded))
<1> DEFINE k == DeployedIndex(h)
           u == Supersede(h, k)
<1>1. /\ Len(h) \in Nat /\ DOMAIN h = 1 .. Len(h) /\ 1 \in DOMAIN h
      /\ \A i \in DOMAIN h : h[i] \in RecordedEntriesOf(P, R, D)
  BY DEF HasPending
<1>2. /\ k = 0 => Len(h) = 1
      /\ k # 0 => k = 2 /\ 2 \in DOMAIN h /\ Promoted(h[2])
  <2>1. CASE ~IsDeployed(h)
    BY <2>1, DeployedIndexIs
  <2>2. CASE IsDeployed(h)
    <3>1. k = 2 /\ k \in Promotions(h)
      BY <2>2, DeployedIndexIs
    <3> QED BY <3>1 DEF Promotions
  <2> QED BY <2>1, <2>2
<1>3. Start(h, r) = [u EXCEPT ![1].promotionRecord = r]
  BY DEF Start
<1> HIDE DEF k
<1>4. h[1].started # Never
  BY <1>1 DEF RecordedEntriesOf, EntriesOf
<1>5. \A i \in DOMAIN h : 2 < i => h[i].ended # Never
  BY <1>1, <1>2 DEF OnlyNewestRuns
<1>6. /\ DOMAIN u = DOMAIN h /\ u[1] = h[1]
      /\ \A i \in DOMAIN h \ {1} :
           /\ u[i].ended # Never
           /\ u[i] = h[i] \/ ( /\ Running(h[i])
                               /\ u[i] = WithEnd(h[i], h[1].started, Superseded))
  <2>1. CASE k = 0 \/ h[k].ended # Never
    <3>1. u = h
      BY <2>1 DEF Supersede
    <3>2. \A i \in DOMAIN h \ {1} : i = 2 \/ 2 < i
      BY <1>1
    <3>3. \A i \in DOMAIN h \ {1} : h[i].ended # Never
      BY <1>1, <1>2, <1>5, <2>1, <3>2
    <3> QED BY <3>1, <3>3
  <2>2. CASE ~(k = 0 \/ h[k].ended # Never)
    <3> DEFINE e == WithEnd(h[2], h[1].started, Superseded)
    <3>1. k = 2 /\ 2 \in DOMAIN h /\ Running(h[2])
      BY <1>2, <2>2 DEF Running
    <3>2. u = [h EXCEPT ![2] = e]
      BY <2>2, <3>1 DEF Supersede, WithEnd
    <3>3. e.ended # Never
      BY <1>1, <1>4, <3>1 DEF RecordedEntriesOf, EntriesOf, WithEnd
    <3>4. \A i \in DOMAIN h \ {1} : i = 2 \/ 2 < i
      BY <1>1
    <3> HIDE DEF e
    <3>5. /\ DOMAIN u = DOMAIN h /\ u[1] = h[1] /\ u[2] = e
          /\ \A i \in DOMAIN h : 2 < i => u[i] = h[i]
      BY <1>1, <3>1, <3>2
    <3> QED BY <1>5, <3>1, <3>3, <3>4, <3>5 DEF e
  <2> QED BY <2>1, <2>2
<1> HIDE DEF u
<1>7. LET v == [u EXCEPT ![1].promotionRecord = r]
      IN  /\ DOMAIN v = DOMAIN u
          /\ v[1] = WithRecord(u[1], r)
          /\ \A i \in DOMAIN u \ {1} : v[i] = u[i]
  BY <1>1, <1>6 DEF WithRecord
<1> QED BY <1>1, <1>3, <1>6, <1>7

\* What a report of Argo CD at t leaves in a history: entries of it that ended or
\* are pending, and the deployed one with its time of health or its end, or its
\* recovery.
Reported(h, x, t) ==
  LET e == Deployed(h)
  IN  \/ \E j \in DOMAIN h : x = h[j] /\ (Promoted(h[j]) => ~Running(h[j]))
      \/ Running(e) /\ e.healthy = Never /\ x = WithHealth(e, t)
      \/ x = Recovery(e, t)
      \/ Running(e) /\ x = WithEnd(e, t, Degraded)

LEMMA ObserveEntries ==
  ASSUME NEW P, NEW R, NEW D, NEW h \in Seq(RecordedEntriesOf(P, R, D)),
         OnlyNewestRuns(h), IsDeployed(h), NEW health \in {"Healthy", "Degraded"}, NEW t
  PROVE  LET g == Observe(h, Deployed(h).preparation, health, t)
         IN  g = h \/ \A i \in DOMAIN g : Reported(h, g[i], t)
<1> DEFINE k == DeployedIndex(h)
           e == h[k]
           g == Observe(h, e.preparation, health, t)
           c == WithHealth(e, t)
           d == WithEnd(e, t, Degraded)
<1>1. /\ k \in DOMAIN h
      /\ \A i \in DOMAIN h : i < k => ~Promoted(h[i])
      /\ \A i \in DOMAIN h : k < i => h[i].ended # Never
  BY BelowDeployedEnded
<1>2. DOMAIN h = 1 .. Len(h) /\ Len(h) \in Nat /\ e \in RecordedEntriesOf(P, R, D)
  BY <1>1
<1>3. \A i \in DOMAIN h \ {k} : Promoted(h[i]) => ~Running(h[i])
  BY <1>1, <1>2 DEF Running
<1>4. \/ g = h
      \/ Running(e) /\ e.healthy = Never /\ g = [h EXCEPT ![k] = c]
      \/ ~Running(e) /\ g = Truncate(Insert(h, k, Recovery(e, t)))
      \/ Running(e) /\ g = [h EXCEPT ![k] = d]
  <2>1. e.endReason = Degraded => ~Running(e)
    BY <1>2 DEF RecordedEntriesOf, Running, Degraded, NotEnded
  <2>2. /\ [h EXCEPT ![k].healthy = t] = [h EXCEPT ![k] = c]
        /\ [h EXCEPT ![k].ended = t, ![k].endReason = Degraded] = [h EXCEPT ![k] = d]
    BY <1>1 DEF WithHealth, WithEnd
  <2> QED BY <2>1, <2>2 DEF Observe
<1> HIDE DEF g, c, d
<1>5. \A x : \A i \in DOMAIN [h EXCEPT ![k] = x] :
        \/ i = k /\ [h EXCEPT ![k] = x][i] = x
        \/ i \in DOMAIN h \ {k} /\ [h EXCEPT ![k] = x][i] = h[i]
  BY <1>1
<1>6. CASE Running(e) /\ e.healthy = Never /\ g = [h EXCEPT ![k] = c]
  BY <1>3, <1>5, <1>6 DEF Deployed, Reported, g, c
<1>7. CASE Running(e) /\ g = [h EXCEPT ![k] = d]
  BY <1>3, <1>5, <1>7 DEF Deployed, Reported, g, d
<1>8. CASE ~Running(e) /\ g = Truncate(Insert(h, k, Recovery(e, t)))
  <2>1. k \in 1 .. Len(h) + 1
    BY <1>1, <1>2
  <2>2. \A i \in DOMAIN g : g[i] = Recovery(e, t) \/ \E j \in DOMAIN h : g[i] = h[j]
    BY <1>8, <2>1, InsertEntries
  <2>3. \A j \in DOMAIN h : Promoted(h[j]) => ~Running(h[j])
    BY <1>3, <1>8
  <2> QED BY <2>2, <2>3 DEF Deployed, Reported, g
<1>9. CASE g = h
  BY <1>9 DEF Deployed, g
<1> QED BY <1>4, <1>6, <1>7, <1>8, <1>9

-----------------------------------------------------------------------------
(* A good history stays good.                                              *)

LEMMA EntryTyped ==
  ASSUME NEW u, NEW e \in Entries(u)
  PROVE  /\ e.started \in Nat \ {Never} /\ e.healthy \in Nat /\ e.ended \in Nat
         /\ e.preparation \in Preps
         /\ e.endReason = Degraded => ~Running(e)
BY DEF Entries, RecordedEntriesOf, EntriesOf, Running, NotEnded, Degraded

LEMMA OpenGood ==
  ASSUME NEW u, NEW h \in Seq(Entries(u)), NEW soak \in Nat, NEW t \in Nat \ {Never},
         NEW run, NEW earned, HistoryGood(h, soak, t, run, earned), NEW p \in Preps
  PROVE  /\ Open(h, p, t) \in Seq(Entries(u))
         /\ HistoryGood(Open(h, p, t), soak, t, run, earned)
<1>1. Open(h, p, t) \in Seq(Entries(u)) /\ OnlyNewestRuns(Open(h, p, t))
  BY OpenShape DEF Entries, HistoryGood
<1>2. EntryGood(PendingEntry(p, t), soak, t, run, earned)
  BY DEF EntryGood, PendingEntry, Promoted, Never
<1>3. \A i \in DOMAIN Open(h, p, t) :
           \/ Open(h, p, t)[i] = PendingEntry(p, t)
           \/ \E j \in DOMAIN h : Open(h, p, t)[i] = h[j]
  BY OpenEntries DEF Entries, HistoryGood
<1> QED BY <1>1, <1>2, <1>3 DEF HistoryGood

\* The streak begins anew with the new deployment, which is not healthy yet.
LEMMA StartGood ==
  ASSUME NEW u, NEW h \in Seq(Entries(u)), NEW soak \in Nat, NEW t \in Nat,
         NEW run, NEW earned \in [Preps -> Nat], HistoryGood(h, soak, t, run, earned),
         HasPending(h), NEW r \in UpstreamRecords(u), r.preparation = h[1].preparation
  PROVE  /\ Start(h, r) \in Seq(Entries(u))
         /\ HistoryGood(Start(h, r), soak, t, 0, earned)
<1> DEFINE v == Start(h, r)
<1>0. h \in Seq(RecordedEntriesOf(Preps, UpstreamRecords(u), DeploymentRecords)) /\ OnlyNewestRuns(h)
  BY DEF Entries, HistoryGood
<1>1. v \in Seq(Entries(u)) /\ OnlyNewestRuns(v)
  BY StartShape DEF Entries, HistoryGood
<1>2. /\ 1 \in DOMAIN h /\ DOMAIN v = DOMAIN h
      /\ v[1] = WithRecord(h[1], r)
      /\ \A i \in DOMAIN h \ {1} :
           /\ v[i].ended # Never
           /\ v[i] = h[i] \/ ( /\ Running(h[i])
                               /\ v[i] = WithEnd(h[i], h[1].started, Superseded))
  BY <1>0, StartEntries
<1> HIDE DEF v
<1>3. \A i \in DOMAIN h : h[i] \in Entries(u) /\ EntryGood(h[i], soak, t, run, earned)
  BY DEF HistoryGood
<1>4. EntryGood(v[1], soak, t, 0, earned)
  <2>1. /\ h[1].started <= t /\ h[1].healthy = Never /\ h[1].ended <= t
    BY <1>2, <1>3 DEF HasPending, EntryGood
  <2>2. v[1].started = h[1].started /\ v[1].healthy = h[1].healthy /\ v[1].ended = h[1].ended
    BY <1>2, <1>3 DEF Entries, RecordedEntriesOf, EntriesOf, WithRecord
  <2> QED BY <2>1, <2>2 DEF EntryGood, Never
<1>5. ASSUME NEW i \in DOMAIN h \ {1} PROVE EntryGood(v[i], soak, t, 0, earned)
  <2>1. CASE v[i] = h[i]
    BY <1>2, <1>3, <2>1 DEF EntryGood, Running
  <2>2. CASE Running(h[i]) /\ v[i] = WithEnd(h[i], h[1].started, Superseded)
    <3>1. /\ v[i].started = h[i].started /\ v[i].healthy = h[i].healthy
          /\ v[i].ended = h[1].started /\ v[i].preparation = h[i].preparation
          /\ v[i].promotionRecord = h[i].promotionRecord
      BY <1>3, <2>2 DEF Entries, RecordedEntriesOf, EntriesOf, WithHealth, WithEnd
    <3>2. /\ h[1].started \in Nat /\ h[1].started <= t
          /\ h[i].healthy \in Nat /\ h[i].preparation \in Preps
      BY <1>2, <1>3, EntryTyped DEF EntryGood
    <3>3. ~Running(v[i])
      BY <1>2 DEF Running
    <3>4. HealthyFor(h[i], t) = t - h[i].healthy /\ HealthyFor(v[i], t) = h[1].started - h[i].healthy
      BY <2>2, <3>1, <3>3 DEF HealthyFor
    <3>5. EntryGood(h[i], soak, t, run, earned)
      BY <1>3
    <3>6. earned[h[i].preparation] \in Nat
      BY <3>2
    <3> QED BY <3>1, <3>2, <3>3, <3>4, <3>5, <3>6 DEF EntryGood, Promoted
  <2> QED BY <1>2, <2>1, <2>2
<1> QED BY <1>1, <1>2, <1>4, <1>5 DEF HistoryGood, v

\* What turns healthy was so for no time yet; what degrades was so until now.
LEMMA ObserveGood ==
  ASSUME NEW u, NEW h \in Seq(Entries(u)), NEW soak \in Nat, NEW t \in Nat \ {Never},
         NEW run, NEW earned \in [Preps -> Nat], HistoryGood(h, soak, t, run, earned),
         IsDeployed(h), NEW health \in {"Healthy", "Degraded"},
         Observe(h, Deployed(h).preparation, health, t) # h
  PROVE  /\ Observe(h, Deployed(h).preparation, health, t) \in Seq(Entries(u))
         /\ HistoryGood(Observe(h, Deployed(h).preparation, health, t), soak, t, 0, earned)
<1> DEFINE e == Deployed(h)
           g == Observe(h, e.preparation, health, t)
<1>0. h \in Seq(RecordedEntriesOf(Preps, UpstreamRecords(u), DeploymentRecords)) /\ OnlyNewestRuns(h)
  BY DEF Entries, HistoryGood
<1>1. g \in Seq(Entries(u)) /\ OnlyNewestRuns(g)
  BY ObserveShape DEF Entries, HistoryGood
<1>2. \A i \in DOMAIN g : Reported(h, g[i], t)
  BY <1>0, ObserveEntries
<1>3. e \in Entries(u) /\ EntryGood(e, soak, t, run, earned) /\ Promoted(e)
  <2>1. DeployedIndex(h) \in Promotions(h)
    BY DeployedIndexIs DEF Entries, HistoryGood
  <2> QED BY <2>1 DEF Promotions, Deployed, HistoryGood
<1> HIDE DEF g, e
<1>4. /\ e.started \in Nat /\ e.healthy \in Nat /\ e.ended \in Nat /\ e.preparation \in Preps
      /\ earned[e.preparation] \in Nat
  BY <1>3, EntryTyped
<1>5. ASSUME NEW i \in DOMAIN g PROVE EntryGood(g[i], soak, t, 0, earned)
  <2>1. CASE \E j \in DOMAIN h : g[i] = h[j] /\ (Promoted(h[j]) => ~Running(h[j]))
    BY <2>1 DEF HistoryGood, EntryGood
  <2>2. CASE Running(e) /\ e.healthy = Never /\ g[i] = WithHealth(e, t)
    <3>1. /\ g[i].started = e.started /\ g[i].healthy = t /\ g[i].ended = e.ended
          /\ g[i].preparation = e.preparation /\ g[i].promotionRecord = e.promotionRecord
      BY <1>3, <2>2 DEF Entries, RecordedEntriesOf, EntriesOf, WithHealth, WithEnd
    <3>2. HealthyFor(g[i], t) = 0
      BY <2>2, <3>1 DEF HealthyFor, Running
    <3> QED BY <1>3, <1>4, <3>1, <3>2 DEF EntryGood, Promoted
  <2>3. CASE g[i] = Recovery(e, t)
    <3>1. /\ g[i].started = t /\ g[i].healthy = t /\ g[i].ended = Never
          /\ g[i].preparation = e.preparation /\ g[i].promotionRecord = e.promotionRecord
      BY <1>3, <2>3 DEF Recovery, Entries, RecordedEntriesOf, EntriesOf
    <3>2. HealthyFor(g[i], t) = 0
      BY <3>1 DEF HealthyFor, Running
    <3> QED BY <1>3, <1>4, <3>1, <3>2 DEF EntryGood, Promoted, Never
  <2>4. CASE Running(e) /\ g[i] = WithEnd(e, t, Degraded)
    <3>1. /\ g[i].started = e.started /\ g[i].healthy = e.healthy /\ g[i].ended = t
          /\ g[i].preparation = e.preparation /\ g[i].promotionRecord = e.promotionRecord
      BY <1>3, <2>4 DEF Entries, RecordedEntriesOf, EntriesOf, WithHealth, WithEnd
    <3>2. HealthyFor(g[i], t) = t - e.healthy /\ HealthyFor(e, t) = t - e.healthy
      BY <2>4, <3>1 DEF HealthyFor, Running
    <3>3. ~Running(g[i])
      BY <3>1 DEF Running
    <3> QED BY <1>3, <1>4, <3>1, <3>2, <3>3 DEF EntryGood, Promoted
  <2> QED BY <1>2, <2>1, <2>2, <2>3, <2>4 DEF Reported, e
<1> QED BY <1>1, <1>5 DEF HistoryGood, g, e

\* A record that is added to an entry changes nothing else of it.
LEMMA RecordGood ==
  ASSUME NEW u, NEW h \in Seq(Entries(u)), NEW soak, NEW t, NEW run, NEW earned,
         HistoryGood(h, soak, t, run, earned),
         NEW i \in DOMAIN h, NEW r \in DeploymentRecords
  PROVE  /\ [h EXCEPT ![i].deploymentRecord = r] \in Seq(Entries(u))
         /\ HistoryGood([h EXCEPT ![i].deploymentRecord = r], soak, t, run, earned)
<1> DEFINE e == [h[i] EXCEPT !.deploymentRecord = r]
           g == [h EXCEPT ![i] = e]
<1>1. DOMAIN h = 1 .. Len(h) /\ Len(h) \in Nat /\ h[i] \in Entries(u)
  OBVIOUS
<1>2. /\ e \in Entries(u) /\ e.started = h[i].started /\ e.healthy = h[i].healthy
      /\ e.ended = h[i].ended /\ e.preparation = h[i].preparation
      /\ e.promotionRecord = h[i].promotionRecord
  BY <1>1 DEF Entries, RecordedEntriesOf, EntriesOf, Promoted
<1>3. [h EXCEPT ![i].deploymentRecord = r] = g
  BY <1>1
<1> HIDE DEF e
<1>4. /\ g \in Seq(Entries(u)) /\ Len(g) = Len(h) /\ DOMAIN g = DOMAIN h /\ g[i] = e
      /\ \A j \in DOMAIN h \ {i} : g[j] = h[j]
  BY <1>1, <1>2, ExceptSeq
<1> HIDE DEF g
<1>5. \A j \in DOMAIN h : /\ Promoted(g[j]) <=> Promoted(h[j])
                          /\ g[j].ended = h[j].ended
                          /\ EntryGood(h[j], soak, t, run, earned)
  BY <1>2, <1>4 DEF Promoted, HistoryGood
<1>6. OnlyNewestRuns(g)
  BY <1>4, <1>5 DEF OnlyNewestRuns, HistoryGood
<1>7. EntryGood(g[i], soak, t, run, earned)
  BY <1>2, <1>4, <1>5 DEF EntryGood, Promoted, Running, HealthyFor
<1> QED BY <1>3, <1>4, <1>5, <1>6, <1>7 DEF HistoryGood

\* A tick is served by what runs healthily, which only what is deployed does.
LEMMA TickGood ==
  ASSUME NEW u, NEW h \in Seq(Entries(u)), NEW soak \in Nat, NEW t \in Nat,
         NEW run \in Nat, NEW earned \in [Preps -> Nat],
         HistoryGood(h, soak, t, run, earned),
         NEW run1 \in Nat, NEW earned1 \in [Preps -> Nat],
         \A p \in Preps : earned1[p] >= earned[p],
         IsDeployed(h) /\ Running(Deployed(h)) /\ Deployed(h).healthy # Never =>
           /\ run1 >= soak \/ run1 >= run + 1
           /\ earned1[Deployed(h).preparation] >= run1
  PROVE  HistoryGood(h, soak, t + 1, run1, earned1)
<1> SUFFICES ASSUME NEW i \in DOMAIN h PROVE EntryGood(h[i], soak, t + 1, run1, earned1)
  BY DEF HistoryGood
<1> DEFINE e == h[i]
<1>1. /\ e \in Entries(u) /\ EntryGood(e, soak, t, run, earned)
      /\ DOMAIN h = 1 .. Len(h) /\ Len(h) \in Nat
  BY DEF HistoryGood
<1>2. /\ e.started \in Nat /\ e.healthy \in Nat /\ e.ended \in Nat /\ e.preparation \in Preps
  BY <1>1, EntryTyped
<1>3. Promoted(e) /\ Running(e) => IsDeployed(h) /\ Deployed(h) = e
  <2> SUFFICES ASSUME Promoted(e), Running(e) PROVE IsDeployed(h) /\ Deployed(h) = e
    OBVIOUS
  <2>1. IsDeployed(h)
    BY DEF IsDeployed, Promotions
  <2>2. /\ DeployedIndex(h) \in DOMAIN h
        /\ \A j \in DOMAIN h : j < DeployedIndex(h) => j = 1 /\ ~Promoted(h[j])
        /\ \A j \in DOMAIN h : DeployedIndex(h) < j => Promoted(h[j]) /\ h[j].ended # Never
    BY <2>1, BelowDeployedEnded DEF Entries, HistoryGood
  <2>3. i = DeployedIndex(h)
    BY <1>1, <2>2 DEF Running
  <2> QED BY <2>1, <2>3 DEF Deployed
<1> HIDE DEF e
<1>4. earned[e.preparation] \in Nat /\ earned1[e.preparation] \in Nat
      /\ earned1[e.preparation] >= earned[e.preparation]
  BY <1>2
<1>5. CASE Promoted(e) /\ e.healthy # Never /\ Running(e)
  <2>1. /\ run1 >= soak \/ run1 >= run + 1
        /\ earned1[e.preparation] >= run1
    BY <1>3, <1>5
  <2>2. run1 >= soak \/ run1 >= (t + 1) - e.healthy
    BY <1>1, <1>2, <1>5, <2>1 DEF EntryGood
  <2>3. HealthyFor(e, t + 1) = (t + 1) - e.healthy
    BY <1>2, <1>5 DEF HealthyFor, Running
  <2>4. e.started <= t + 1 /\ e.healthy <= t + 1 /\ e.ended <= t + 1
    BY <1>1, <1>2 DEF EntryGood
  <2>5. \/ earned1[e.preparation] >= soak
        \/ earned1[e.preparation] >= HealthyFor(e, t + 1)
    BY <1>2, <1>4, <2>1, <2>2, <2>3
  <2>6. EntryGood(e, soak, t + 1, run1, earned1)
    BY <1>5, <2>2, <2>4, <2>5 DEF EntryGood, Promoted, Running
  <2> QED BY <2>6 DEF e
<1>6. CASE ~(Promoted(e) /\ e.healthy # Never /\ Running(e))
  <2>1. Promoted(e) /\ e.healthy # Never =>
          HealthyFor(e, t) = e.ended - e.healthy /\ HealthyFor(e, t + 1) = e.ended - e.healthy
    BY <1>6 DEF HealthyFor
  <2> QED BY <1>1, <1>2, <1>4, <1>6, <2>1 DEF EntryGood, e
<1> QED BY <1>5, <1>6

\* A history without entries.
LEMMA EmptyGood ==
  ASSUME NEW u, NEW soak, NEW t, NEW run, NEW earned
  PROVE  << >> \in Seq(Entries(u)) /\ HistoryGood(<< >>, soak, t, run, earned)
<1>1. << >> \in Seq(Entries(u)) /\ Len(<< >>) = 0 /\ DOMAIN << >> = 1 .. 0
  BY EmptySeq, LenProperties
<1> QED BY <1>1, MaxEntriesAssumption DEF HistoryGood, OnlyNewestRuns

-----------------------------------------------------------------------------
(* What the gate decides.                                                  *)

\* Numbers have a least one.
LEMMA LeastExists ==
  ASSUME NEW S \in SUBSET Nat, S # {}
  PROVE  \E m \in S : \A k \in S : m <= k
<1>1. PICK m \in S : \A y \in S : ~(<<y, m>> \in OpToRel(<, Nat))
  BY WFMin, NatLessThanWellFounded
<1>2. \A y \in S : ~(y < m)
  BY <1>1 DEF OpToRel
<1> QED BY <1>2

LEMMA NewestIn ==
  ASSUME NEW S, NEW h \in Seq(S), NEW I \in SUBSET DOMAIN h, I # {}
  PROVE  Newest(I) \in I
<1>1. I \in SUBSET Nat
  OBVIOUS
<1>2. \E i \in I : \A j \in I : i <= j
  BY <1>1, LeastExists
<1> QED BY <1>2 DEF Newest

\* The verdict on one stage: satisfied by a deployment that qualifies, and
\* otherwise with the time that is left, if that is known.
LEMMA StageVerdict ==
  ASSUME NEW u \in Stages, NEW s \in StageOf(u), NEW p \in Preps, NEW t \in Nat
  PROVE  LET v == EvaluateStage(s, p, u, t)
         IN  /\ v.outcome \in {"Satisfied", "Soaking", "NotDeployedUpstream", "InvalidPipeline"}
             /\ v.remaining \in Nat
             /\ v.outcome = "Satisfied" => Qualifying(s.history, p, u, t) # {}
<1> DEFINE h == s.history
           I == Soaking(h, p, u, t)
<1>1. h \in Seq(Entries(u)) /\ s.product \in {"None", "Own", "Other"} /\ Soak[u] \in Nat
  BY SoakAssumption DEF StageOf, Entries
<1> HIDE DEF h
<1>2. I # {} => SoakLeft(h, p, u, t) \in Nat
  <2> SUFFICES ASSUME I # {} PROVE SoakLeft(h, p, u, t) \in Nat
    OBVIOUS
  <2> DEFINE i == Newest(I)
  <2>1. I \in SUBSET DOMAIN h
    BY DEF Soaking, Soaked, Candidates
  <2>2. i \in I
    BY <1>1, <2>1, NewestIn
  <2>3. i \in DOMAIN h /\ i \in Candidates(h, p)
    BY <2>2 DEF Soaking, Soaked, Candidates
  <2>4. h[i] \in Entries(u)
    BY <1>1, <2>3
  <2>5. HealthyFor(h[i], t) \in Int
    BY <2>4, EntryTyped DEF HealthyFor
  <2>6. i \notin Soaked(h, p, u, t) => ~(HealthyFor(h[i], t) >= Soak[u])
    BY <2>3 DEF Soaked
  <2>7. i \notin Soaked(h, p, u, t) => Soak[u] - HealthyFor(h[i], t) \in Nat
    BY <1>1, <2>5, <2>6
  <2> HIDE DEF i, I
  <2> QED BY <2>7 DEF SoakLeft, i, I
<1> HIDE DEF I
<1>3. CASE s.product = "None"
  BY <1>3 DEF EvaluateStage, Verdict
<1>4. CASE s.product = "Other"
  BY <1>4 DEF EvaluateStage, Verdict
<1>5. CASE s.product = "Own"
  <2>1. EvaluateStage(s, p, u, t) =
          IF Qualifying(h, p, u, t) # {} THEN Verdict("Satisfied", 0)
          ELSE IF I # {} THEN Verdict("Soaking", SoakLeft(h, p, u, t))
          ELSE Verdict("NotDeployedUpstream", 0)
    BY <1>5 DEF EvaluateStage, h, I
  <2> QED BY <1>2, <2>1 DEF Verdict, h
<1> QED BY <1>1, <1>3, <1>4, <1>5

\* What is promoted for the first time qualifies at every stage; the time until
\* the gate looks again is a time.
LEMMA GateVerdict ==
  ASSUME NEW stages, \A u \in Stages : stages[u] \in StageOf(u),
         NEW p \in Preps, NEW t \in Nat, NEW history
  PROVE  LET gate == Evaluate(history, stages, p, t)
         IN  /\ gate.remaining \in Nat
             /\ gate.outcome = "Satisfied" /\ ~PromotedBefore(history, p) =>
                  \A u \in Stages : /\ EvaluateStage(stages[u], p, u, t).outcome = "Satisfied"
                                    /\ Qualifying(stages[u].history, p, u, t) # {}
<1> DEFINE gate == Evaluate(history, stages, p, t)
           verdicts == {EvaluateStage(stages[u], p, u, t) : u \in Stages}
           Severe(k) == \E v \in verdicts : v.outcome = Outcomes[k]
           waits == {v.remaining : v \in verdicts} \ {0}
           worst == CHOOSE k \in 1 .. 4 : Severe(k) /\ \A j \in k + 1 .. 4 : ~Severe(j)
           first == CHOOSE w \in waits : \A x \in waits : w <= x
<1>1. \A u \in Stages :
        LET v == EvaluateStage(stages[u], p, u, t)
        IN  /\ v.outcome \in {"Satisfied", "Soaking", "NotDeployedUpstream", "InvalidPipeline"}
            /\ v.remaining \in Nat
            /\ v.outcome = "Satisfied" => Qualifying(stages[u].history, p, u, t) # {}
  BY StageVerdict
<1>2. gate = IF Stages = {} \/ PromotedBefore(history, p) THEN Verdict("Satisfied", 0)
             ELSE Verdict(Outcomes[worst], IF waits = {} THEN 0 ELSE first)
  BY DEF Evaluate
<1>3. waits # {} => first \in Nat
  <2>1. waits \in SUBSET Nat
    BY <1>1
  <2> HIDE DEF waits
  <2>2. waits # {} => \E w \in waits : \A x \in waits : w <= x
    BY <2>1, LeastExists
  <2> QED BY <2>1, <2>2
<1>4. /\ Outcomes[1] = "Satisfied" /\ Outcomes[2] = "Soaking"
      /\ Outcomes[3] = "NotDeployedUpstream" /\ Outcomes[4] = "InvalidPipeline"
  BY DEF Outcomes
<1>5. \A v \in verdicts : \E k \in 1 .. 4 : v.outcome = Outcomes[k]
  BY <1>1, <1>4
<1>6. Stages # {} /\ Outcomes[worst] = "Satisfied" =>
        \A u \in Stages : EvaluateStage(stages[u], p, u, t).outcome = "Satisfied"
  <2> SUFFICES ASSUME Stages # {}, Outcomes[worst] = "Satisfied", NEW u \in Stages
               PROVE  EvaluateStage(stages[u], p, u, t).outcome = "Satisfied"
    OBVIOUS
  <2>1. EvaluateStage(stages[u], p, u, t) \in verdicts
    OBVIOUS
  <2>2. \E k \in 1 .. 4 : Severe(k)
    BY <1>5, <2>1
  <2>3. \A v \in verdicts : \A k \in 1 .. 4 : v.outcome = Outcomes[k] => Severe(k)
    OBVIOUS
  <2> HIDE DEF Severe, verdicts
  <2>4. \E k \in 1 .. 4 : Severe(k) /\ \A j \in k + 1 .. 4 : ~Severe(j)
    <3>1. CASE Severe(4)
      BY <3>1
    <3>2. CASE ~Severe(4) /\ Severe(3)
      BY <3>2
    <3>3. CASE ~Severe(4) /\ ~Severe(3) /\ Severe(2)
      BY <3>3
    <3>4. CASE ~Severe(4) /\ ~Severe(3) /\ ~Severe(2) /\ Severe(1)
      BY <3>4
    <3> QED BY <2>2, <3>1, <3>2, <3>3, <3>4
  <2>5. worst \in 1 .. 4 /\ \A j \in worst + 1 .. 4 : ~Severe(j)
    BY <2>4
  <2> HIDE DEF worst
  <2>6. worst = 1
    BY <1>4, <2>5
  <2>7. ~Severe(2) /\ ~Severe(3) /\ ~Severe(4)
    BY <2>5, <2>6
  <2>8. PICK k \in 1 .. 4 : EvaluateStage(stages[u], p, u, t).outcome = Outcomes[k]
    BY <1>5, <2>1
  <2>9. k = 1
    BY <2>1, <2>3, <2>7, <2>8
  <2> QED BY <1>4, <2>8, <2>9
<1> HIDE DEF worst, first, waits
<1>7. gate.remaining \in Nat
  BY <1>2, <1>3 DEF Verdict
<1>8. ASSUME gate.outcome = "Satisfied", ~PromotedBefore(history, p), NEW u \in Stages
      PROVE  /\ EvaluateStage(stages[u], p, u, t).outcome = "Satisfied"
             /\ Qualifying(stages[u].history, p, u, t) # {}
  <2>1. Outcomes[worst] = "Satisfied"
    BY <1>2, <1>8 DEF Verdict
  <2> QED BY <1>1, <1>6, <2>1
<1> QED BY <1>7, <1>8

-----------------------------------------------------------------------------
(* The upstream stages' steps.                                             *)

\* What the type invariant says of one stage.
LEMMA StageTyped ==
  ASSUME TypeOK, NEW u \in Stages
  PROVE  /\ upstream[u] \in StageOf(u) /\ seen[u] \in StageOf(u)
         /\ upstream[u].history \in Seq(Entries(u)) /\ seen[u].history \in Seq(Entries(u))
         /\ Soak[u] \in Nat /\ streak[u] \in Nat /\ served[u] \in [Preps -> Nat]
         /\ now \in Nat \ {Never}
BY SoakAssumption, MaxTimeAssumption DEF TypeOK, StageOf, Entries, Never

\* A status write of a stage that keeps its history good keeps everything, however
\* little of its streak goes on.
LEMMA WriteInductive ==
  ASSUME Inductive, NEW u \in Stages, NEW h \in Seq(Entries(u)), Write(u, h),
         upstream[u].history # << >>  \/ upstream[u].product # "None",
         NEW run \in Nat, streak' = [streak EXCEPT ![u] = run],
         HistoryGood(h, Soak[u], now, run, served[u]),
         registry \subseteq registry', registry' \subseteq DeploymentRecords,
         edits' \in Nat,
         UNCHANGED <<now, served, seen, after, downstreamVars>>
  PROVE  Inductive'
<1>1. /\ now' = now /\ served' = served /\ seen' = seen /\ after' = after
      /\ wanted' = wanted /\ self' = self /\ queued' = queued /\ due' = due
  BY DEF downstreamVars
<1>2. upstream = [v \in Stages |-> upstream[v]] /\ upstream[u] \in StageOf(u)
  BY DEF Inductive, TypeOK
<1> DEFINE s == [upstream[u] EXCEPT !.history = h]
<1>3. s \in StageOf(u) /\ s.history = h /\ s.product = upstream[u].product
  BY <1>2 DEF StageOf, Entries
<1>4. upstream' = [upstream EXCEPT ![u] = s]
  BY <1>2 DEF Write
<1> HIDE DEF s
<1>5. /\ upstream' = [v \in Stages |-> upstream'[v]] /\ upstream'[u] = s
      /\ \A v \in Stages \ {u} : upstream'[v] = upstream[v]
  BY <1>2, <1>4
<1>6. /\ streak' \in [Stages -> Nat] /\ streak'[u] = run
      /\ \A v \in Stages \ {u} : streak'[v] = streak[v]
  BY DEF Inductive, TypeOK
<1>7. TypeOK'
  BY <1>1, <1>3, <1>5, <1>6 DEF Inductive, TypeOK, StageOf
<1>8. ASSUME NEW v \in Stages PROVE StageGood(v)' /\ CopyGood(v)'
  <2>1. CopyGood(v)'
    BY <1>1 DEF Inductive, CopyGood
  <2>2. CASE v = u
    <3>1. upstream[u].product # "None"
      BY DEF Inductive, StageGood
    <3> QED BY <1>1, <1>3, <1>5, <1>6, <2>1, <2>2, <3>1 DEF StageGood
  <2>3. CASE v # u
    <3>1. StageGood(v)
      BY DEF Inductive
    <3>2. upstream'[v] = upstream[v] /\ streak'[v] = streak[v] /\ served'[v] = served[v]
      BY <1>1, <1>5, <1>6, <2>3
    <3> QED BY <1>1, <2>1, <3>1, <3>2 DEF StageGood
  <2> QED BY <2>2, <2>3
<1>9. OnlyNewestRuns(self)' /\ EvidenceRecorded'
  BY <1>1 DEF Inductive, EvidenceRecorded
<1> QED BY <1>7, <1>8, <1>9 DEF Inductive

LEMMA Edited == ASSUME TypeOK, NEW kind, Edit(kind) PROVE edits' \in Nat
BY DEF Edit, TypeOK

LEMMA OpenPromotionInductive ==
  ASSUME Inductive, NEW u \in Stages, OpenPromotion(u)
  PROVE  Inductive'
<1> DEFINE h == upstream[u].history
<1>1. PICK p \in Preps : Write(u, Open(h, p, now))
  BY DEF OpenPromotion
<1>2. /\ h \in Seq(Entries(u)) /\ Soak[u] \in Nat /\ streak[u] \in Nat /\ now \in Nat \ {Never}
      /\ HistoryGood(h, Soak[u], now, streak[u], served[u])
  BY StageTyped DEF Inductive, StageGood
<1> HIDE DEF h
<1>3. /\ Open(h, p, now) \in Seq(Entries(u))
      /\ HistoryGood(Open(h, p, now), Soak[u], now, streak[u], served[u])
  BY <1>2, OpenGood
<1>4. /\ upstream[u].product # "None" /\ edits' \in Nat
      /\ registry' = registry /\ streak' = streak
      /\ UNCHANGED <<now, served, seen, after, downstreamVars>>
  BY Edited DEF OpenPromotion, Inductive, soakVars
<1>5. streak' = [streak EXCEPT ![u] = streak[u]] /\ registry' \subseteq DeploymentRecords
  BY <1>4 DEF Inductive, TypeOK
<1> QED BY <1>1, <1>2, <1>3, <1>4, <1>5, WriteInductive

LEMMA StartPromotionInductive ==
  ASSUME Inductive, NEW u \in Stages, StartPromotion(u)
  PROVE  Inductive'
<1> DEFINE h == upstream[u].history
           r == [order |-> u, preparation |-> h[1].preparation, started |-> h[1].started]
<1>1. /\ HasPending(h) /\ Write(u, Start(h, r))
      /\ streak' = [streak EXCEPT ![u] = 0] /\ registry' = registry /\ edits' = edits
      /\ UNCHANGED <<now, served, seen, after, downstreamVars>>
  BY DEF StartPromotion
<1>2. /\ h \in Seq(Entries(u)) /\ Soak[u] \in Nat /\ now \in Nat \ {Never}
      /\ served[u] \in [Preps -> Nat]
      /\ HistoryGood(h, Soak[u], now, streak[u], served[u])
  BY StageTyped DEF Inductive, StageGood
<1>3. h # << >> /\ h[1] \in Entries(u)
  BY <1>1, <1>2 DEF HasPending
<1>4. r \in UpstreamRecords(u) /\ r.preparation = h[1].preparation
  BY <1>3, EntryTyped DEF UpstreamRecords
<1> HIDE DEF h, r
<1>5. /\ Start(h, r) \in Seq(Entries(u))
      /\ HistoryGood(Start(h, r), Soak[u], now, 0, served[u])
  BY <1>1, <1>2, <1>4, StartGood
<1>6. registry \subseteq registry' /\ registry' \subseteq DeploymentRecords /\ edits' \in Nat
  BY <1>1 DEF Inductive, TypeOK
<1>7. upstream[u].history # << >> /\ 0 \in Nat
  BY <1>3 DEF h
<1> QED BY <1>1, <1>5, <1>6, <1>7, WriteInductive

LEMMA ObserveHealthInductive ==
  ASSUME Inductive, NEW u \in Stages, ObserveHealth(u)
  PROVE  Inductive'
<1> DEFINE h == upstream[u].history
           observed(health) == Observe(h, Deployed(h).preparation, health, now)
<1>1. /\ IsDeployed(h) /\ upstream' # upstream
      /\ streak' = [streak EXCEPT ![u] = 0] /\ registry' = registry
      /\ UNCHANGED <<now, served, seen, after, downstreamVars>>
  BY DEF ObserveHealth
<1>2. PICK health \in {"Healthy", "Degraded"} : Write(u, observed(health))
  BY DEF ObserveHealth
<1>3. edits' \in Nat
  BY Edited DEF ObserveHealth, Inductive, TypeOK
<1>4. /\ h \in Seq(Entries(u)) /\ Soak[u] \in Nat /\ now \in Nat \ {Never}
      /\ served[u] \in [Preps -> Nat]
      /\ HistoryGood(h, Soak[u], now, streak[u], served[u])
  BY StageTyped DEF Inductive, StageGood
<1>5. observed(health) # h
  <2>1. upstream = [upstream EXCEPT ![u].history = h]
    <3>1. upstream = [v \in Stages |-> upstream[v]] /\ upstream[u] \in StageOf(u)
      BY DEF Inductive, TypeOK
    <3>2. [upstream[u] EXCEPT !.history = upstream[u].history] = upstream[u]
      BY <3>1 DEF StageOf
    <3> QED BY <3>1, <3>2
  <2> QED BY <1>1, <1>2, <2>1 DEF Write
<1>6. h # << >>
  BY <1>1 DEF IsDeployed, Promotions
<1> HIDE DEF h
<1>7. /\ observed(health) \in Seq(Entries(u))
      /\ HistoryGood(observed(health), Soak[u], now, 0, served[u])
  BY <1>1, <1>4, <1>5, ObserveGood
<1>8. registry \subseteq registry' /\ registry' \subseteq DeploymentRecords
  BY <1>1 DEF Inductive, TypeOK
<1>9. upstream[u].history # << >> /\ 0 \in Nat
  BY <1>6 DEF h
<1> HIDE DEF observed
<1> QED BY <1>1, <1>2, <1>3, <1>7, <1>8, <1>9, WriteInductive

LEMMA RecordDeploymentInductive ==
  ASSUME Inductive, NEW u \in Stages, RecordDeployment(u)
  PROVE  Inductive'
<1> DEFINE h == upstream[u].history
<1>1. PICK i \in Unrecorded(h) :
        LET record == DeploymentRecord(u, h[i])
        IN  /\ registry' = registry \cup {record}
            /\ \/ Write(u, [h EXCEPT ![i].deploymentRecord = record]) /\ UNCHANGED edits
               \/ record \notin registry /\ Edit("Failure") /\ UNCHANGED upstream
  BY DEF RecordDeployment
<1> DEFINE r == DeploymentRecord(u, h[i])
<1>2. /\ h \in Seq(Entries(u)) /\ streak[u] \in Nat /\ served[u] \in [Preps -> Nat]
      /\ HistoryGood(h, Soak[u], now, streak[u], served[u])
  BY StageTyped DEF Inductive, StageGood
<1>3. i \in DOMAIN h /\ h[i] \in Entries(u)
  BY <1>2 DEF Unrecorded
<1>4. r \in DeploymentRecords
  BY <1>3, EntryTyped DEF DeploymentRecord, DeploymentRecords
<1>5. UNCHANGED <<now, streak, served, seen, after, downstreamVars>>
  BY DEF RecordDeployment, soakVars
<1>6. registry \subseteq registry' /\ registry' \subseteq DeploymentRecords
  BY <1>1, <1>4 DEF Inductive, TypeOK
<1>7. CASE Write(u, [h EXCEPT ![i].deploymentRecord = r]) /\ UNCHANGED edits
  <2> HIDE DEF h, r
  <2>1. /\ [h EXCEPT ![i].deploymentRecord = r] \in Seq(Entries(u))
        /\ HistoryGood([h EXCEPT ![i].deploymentRecord = r], Soak[u], now, streak[u], served[u])
    BY <1>2, <1>3, <1>4, RecordGood
  <2>2. streak' = [streak EXCEPT ![u] = streak[u]] /\ edits' \in Nat
    BY <1>5, <1>7 DEF Inductive, TypeOK
  <2>3. upstream[u].history # << >>
    BY <1>3, EmptySeq, LenProperties DEF h
  <2> QED BY <1>2, <1>5, <1>6, <1>7, <2>1, <2>2, <2>3, WriteInductive
<1>8. CASE Edit("Failure") /\ UNCHANGED upstream
  <2>1. edits' \in Nat
    BY <1>8, Edited DEF Inductive
  <2>2. TypeOK'
    BY <1>5, <1>6, <1>8, <2>1 DEF Inductive, TypeOK, downstreamVars
  <2>3. \A v \in Stages : StageGood(v)' /\ CopyGood(v)'
    BY <1>5, <1>8 DEF Inductive, StageGood, CopyGood
  <2>4. OnlyNewestRuns(self)' /\ EvidenceRecorded'
    BY <1>5, <1>6 DEF Inductive, EvidenceRecorded, downstreamVars
  <2> QED BY <2>2, <2>3, <2>4 DEF Inductive
<1> QED BY <1>1, <1>7, <1>8

\* What a stage served is forgotten with its Order.
LEMMA ChangeOrderInductive ==
  ASSUME Inductive, NEW u \in Stages, ChangeOrder(u)
  PROVE  Inductive'
<1>1. /\ UNCHANGED <<now, registry, seen, after, downstreamVars>>
      /\ streak' = [streak EXCEPT ![u] = 0]
      /\ served' = [served EXCEPT ![u] = [p \in Preps |-> 0]]
      /\ edits' \in Nat
  BY Edited DEF ChangeOrder, Inductive
<1>2. /\ upstream = [v \in Stages |-> upstream[v]] /\ upstream[u] \in StageOf(u)
      /\ upstream[u].product = "None" => upstream[u].history = << >>
  BY DEF Inductive, TypeOK, StageGood
<1>3. << >> \in Seq(Entries(u))
  BY EmptyGood
<1>4. PICK s : /\ upstream' = [upstream EXCEPT ![u] = s]
               /\ s \in StageOf(u) /\ s.history = << >>
  <2>1. CASE upstream[u].product = "None"
    <3>1. PICK product \in {"Own", "Other"} : upstream' = [upstream EXCEPT ![u].product = product]
      BY <2>1 DEF ChangeOrder
    <3> DEFINE s == [upstream[u] EXCEPT !.product = product]
    <3>2. s \in StageOf(u) /\ s.history = << >>
      BY <1>2, <2>1 DEF StageOf
    <3>3. upstream' = [upstream EXCEPT ![u] = s]
      BY <1>2, <3>1
    <3> QED BY <3>2, <3>3
  <2>2. CASE upstream[u].product # "None"
    <3> DEFINE s == [product |-> "None", history |-> << >>]
    <3>1. upstream' = [upstream EXCEPT ![u] = s]
      BY <2>2 DEF ChangeOrder
    <3>2. s \in StageOf(u) /\ s.history = << >>
      BY <1>3 DEF StageOf, Entries
    <3> QED BY <3>1, <3>2
  <2> QED BY <2>1, <2>2
<1>5. /\ upstream' = [v \in Stages |-> upstream'[v]] /\ upstream'[u] = s
      /\ \A v \in Stages \ {u} : upstream'[v] = upstream[v]
  BY <1>2, <1>4
<1>6. /\ streak' \in [Stages -> Nat] /\ served' \in [Stages -> [Preps -> Nat]]
      /\ \A v \in Stages \ {u} : streak'[v] = streak[v] /\ served'[v] = served[v]
  BY <1>1 DEF Inductive, TypeOK
<1>7. TypeOK'
  BY <1>1, <1>4, <1>5, <1>6 DEF Inductive, TypeOK, StageOf, downstreamVars
<1>8. ASSUME NEW v \in Stages PROVE StageGood(v)' /\ CopyGood(v)'
  <2>1. CopyGood(v)'
    BY <1>1 DEF Inductive, CopyGood
  <2>2. CASE v = u
    BY <1>4, <1>5, <2>1, <2>2, EmptyGood DEF StageGood
  <2>3. CASE v # u
    <3>1. StageGood(v)
      BY DEF Inductive
    <3> QED BY <1>1, <1>5, <1>6, <2>1, <2>3, <3>1 DEF StageGood
  <2> QED BY <2>2, <2>3
<1>9. OnlyNewestRuns(self)' /\ EvidenceRecorded'
  BY <1>1 DEF Inductive, EvidenceRecorded, downstreamVars
<1> QED BY <1>7, <1>8, <1>9 DEF Inductive

LEMMA TickInductive ==
  ASSUME Inductive, Tick
  PROVE  Inductive'
<1>1. /\ now < MaxTime /\ now' = now + 1 /\ now \in Nat \ {Never}
      /\ UNCHANGED <<upstream, registry, seen, after, downstreamVars, edits>>
  BY MaxTimeAssumption DEF Tick, upstreamVars, Inductive, TypeOK, Never
<1>2. now' \in 1 .. MaxTime
  BY <1>1, MaxTimeAssumption
<1>3. streak' = [u \in Stages |->
        IF ~RunsHealthily(u) THEN 0
        ELSE IF streak[u] < Soak[u] THEN streak[u] + 1 ELSE streak[u]]
  BY DEF Tick
<1>4. \A u \in Stages :
        /\ streak[u] \in Nat /\ Soak[u] \in Nat /\ streak'[u] \in Nat
        /\ RunsHealthily(u) => streak'[u] >= Soak[u] \/ streak'[u] >= streak[u] + 1
  BY <1>3, StageTyped DEF Inductive
<1>5. ASSUME NEW u \in Stages
      PROVE  /\ served'[u] \in [Preps -> Nat]
             /\ \A p \in Preps : served'[u][p] >= served[u][p]
             /\ RunsHealthily(u) =>
                  served'[u][Deployed(upstream[u].history).preparation] >= streak'[u]
  <2> DEFINE q == Deployed(upstream[u].history).preparation
             best == IF streak'[u] > served[u][q] THEN streak'[u] ELSE served[u][q]
  <2>1. served'[u] = IF ~RunsHealthily(u) THEN served[u] ELSE [served[u] EXCEPT ![q] = best]
    BY DEF Tick
  <2>2. served[u] \in [Preps -> Nat] /\ streak'[u] \in Nat
    BY <1>4, StageTyped DEF Inductive
  <2>3. CASE ~RunsHealthily(u)
    BY <2>1, <2>2, <2>3
  <2>4. CASE RunsHealthily(u)
    <3>1. /\ upstream[u].history \in Seq(Entries(u)) /\ IsDeployed(upstream[u].history)
          /\ OnlyNewestRuns(upstream[u].history)
      BY <2>4, StageTyped DEF Inductive, RunsHealthily, StageGood, HistoryGood
    <3>2. DeployedIndex(upstream[u].history) \in DOMAIN upstream[u].history
      BY <3>1, BelowDeployedEnded DEF Entries
    <3>3. q \in Preps
      BY <3>1, <3>2, EntryTyped DEF Deployed
    <3> HIDE DEF q
    <3>4. best \in Nat /\ best >= streak'[u] /\ best >= served[u][q]
      BY <2>2, <3>3
    <3> HIDE DEF best
    <3> QED BY <2>1, <2>2, <2>4, <3>3, <3>4 DEF q
  <2> QED BY <2>3, <2>4
<1>6. TypeOK'
  <2>1. streak' \in [Stages -> Nat]
    BY <1>3, <1>4
  <2>2. served' \in [Stages -> [Preps -> Nat]]
    <3>1. served' = [u \in Stages |-> served'[u]]
      BY DEF Tick
    <3> QED BY <1>5, <3>1
  <2> QED BY <1>1, <1>2, <2>1, <2>2 DEF Inductive, TypeOK, downstreamVars
<1>7. ASSUME NEW u \in Stages PROVE StageGood(u)'
  <2> DEFINE h == upstream[u].history
  <2>1. /\ h \in Seq(Entries(u)) /\ Soak[u] \in Nat /\ streak[u] \in Nat
        /\ served[u] \in [Preps -> Nat] /\ now \in Nat
        /\ HistoryGood(h, Soak[u], now, streak[u], served[u])
    BY StageTyped DEF Inductive, StageGood
  <2>2. IsDeployed(h) /\ Running(Deployed(h)) /\ Deployed(h).healthy # Never =>
          /\ streak'[u] >= Soak[u] \/ streak'[u] >= streak[u] + 1
          /\ served'[u][Deployed(h).preparation] >= streak'[u]
    BY <1>4, <1>5 DEF RunsHealthily
  <2>3. upstream'[u] = upstream[u] /\ (upstream[u].product = "None" => h = << >>)
    BY <1>1 DEF Inductive, StageGood
  <2> HIDE DEF h
  <2>4. /\ streak'[u] \in Nat /\ served'[u] \in [Preps -> Nat]
        /\ \A p \in Preps : served'[u][p] >= served[u][p]
    BY <1>4, <1>5
  <2>5. HistoryGood(h, Soak[u], now + 1, streak'[u], served'[u])
    BY <2>1, <2>2, <2>4, TickGood
  <2> QED BY <1>1, <2>3, <2>5 DEF StageGood, h
<1>8. ASSUME NEW u \in Stages PROVE CopyGood(u)'
  <2>1. \A i \in DOMAIN seen[u].history :
          seen[u].history[i].ended \in Nat /\ seen[u].history[i].ended <= now
    BY StageTyped, EntryTyped DEF Inductive, CopyGood
  <2> QED BY <1>1, <2>1 DEF CopyGood
<1>9. EvidenceRecorded'
  <2> SUFFICES ASSUME NEW i \in DOMAIN self, Promoted(self[i]),
                      self[i].promotionRecord.upstream # << >>, NEW u \in Stages
               PROVE  self[i].promotionRecord.upstream[u].healthy + Soak[u] <= now + 1
    BY <1>1 DEF Inductive, EvidenceRecorded, downstreamVars
  <2> DEFINE r == self[i].promotionRecord.upstream[u]
  <2>1. r \in registry /\ r.healthy + Soak[u] <= now
    BY DEF Inductive, EvidenceRecorded
  <2>2. r.healthy \in Nat /\ Soak[u] \in Nat
    BY <2>1, SoakAssumption DEF Inductive, TypeOK, DeploymentRecords
  <2> HIDE DEF r
  <2>3. r.healthy + Soak[u] <= now + 1
    BY <1>1, <2>1, <2>2
  <2> QED BY <2>3 DEF r
<1>10. OnlyNewestRuns(self)'
  BY <1>1 DEF Inductive, downstreamVars
<1> QED BY <1>6, <1>7, <1>8, <1>9, <1>10 DEF Inductive

\* An informer delivers a stage as it is now.
LEMMA SyncUpstreamInductive ==
  ASSUME Inductive, NEW u \in Stages, SyncUpstream(u)
  PROVE  Inductive'
<1>1. /\ seen' = [seen EXCEPT ![u] = upstream[u]]
      /\ queued' = (queued \/ u \in after)
      /\ now' = now /\ upstream' = upstream /\ registry' = registry /\ streak' = streak
      /\ served' = served /\ after' = after /\ wanted' = wanted /\ self' = self
      /\ due' = due /\ edits' = edits
  BY DEF SyncUpstream, upstreamVars, soakVars
<1>2. /\ seen = [v \in Stages |-> seen[v]] /\ upstream[u] \in StageOf(u)
      /\ queued \in BOOLEAN
  BY DEF Inductive, TypeOK
<1>3. /\ seen' = [v \in Stages |-> seen'[v]] /\ seen'[u] = upstream[u]
      /\ \A v \in Stages \ {u} : seen'[v] = seen[v]
  BY <1>1, <1>2
<1>4. queued' \in BOOLEAN
  BY <1>1, <1>2, Zenon
<1>5. TypeOK'
  BY <1>1, <1>2, <1>3, <1>4 DEF Inductive, TypeOK, StageOf
<1>6. ASSUME NEW v \in Stages PROVE StageGood(v)' /\ CopyGood(v)'
  <2>1. StageGood(v) /\ CopyGood(v)
    BY DEF Inductive
  <2>2. StageGood(v)'
    BY <1>1, <2>1 DEF StageGood
  <2>3. CASE v = u
    <3>1. \A i \in DOMAIN upstream[u].history : upstream[u].history[i].ended <= now
      BY <2>1, <2>3 DEF StageGood, HistoryGood, EntryGood
    <3> QED BY <1>1, <1>3, <2>2, <2>3, <3>1 DEF CopyGood
  <2>4. CASE v # u
    BY <1>1, <1>3, <2>1, <2>2, <2>4 DEF CopyGood
  <2> QED BY <2>3, <2>4
<1>7. OnlyNewestRuns(self)' /\ EvidenceRecorded'
  BY <1>1 DEF Inductive, EvidenceRecorded
<1> QED BY <1>5, <1>6, <1>7 DEF Inductive

-----------------------------------------------------------------------------
(* The downstream stage's steps.                                           *)

\* What EvidenceRecorded says of one entry, with the registry records and at t.
EntryProved(e, records, t) ==
  Promoted(e) /\ e.promotionRecord.upstream # << >> =>
    \A u \in Stages :
      LET record == e.promotionRecord.upstream[u]
      IN  /\ record \in records
          /\ record.order = u /\ record.preparation = e.preparation
          /\ record.healthy + Soak[u] <= t

\* A step of the downstream stage keeps what it keeps of its own history.
LEMMA DownstreamInductive ==
  ASSUME Inductive, UNCHANGED <<now, upstreamVars, soakVars, seen>>,
         after' \subseteq Stages, wanted' \in Preps, edits' \in Nat,
         queued' \in BOOLEAN, due' \in Nat,
         self' \in Seq(SelfEntries), OnlyNewestRuns(self'),
         \A i \in DOMAIN self' : EntryProved(self'[i], registry, now)
  PROVE  Inductive'
<1>1. /\ now' = now /\ upstream' = upstream /\ registry' = registry /\ streak' = streak
      /\ served' = served /\ seen' = seen
  BY DEF upstreamVars, soakVars
<1>2. TypeOK'
  BY <1>1 DEF Inductive, TypeOK, StageOf, SelfEntries
<1>3. \A u \in Stages : StageGood(u)' /\ CopyGood(u)'
  BY <1>1 DEF Inductive, StageGood, CopyGood
<1>4. EvidenceRecorded'
  BY <1>1 DEF EvidenceRecorded, EntryProved
<1> QED BY <1>2, <1>3, <1>4 DEF Inductive

LEMMA SelfTyped ==
  ASSUME Inductive
  PROVE  /\ self \in Seq(SelfEntries) /\ OnlyNewestRuns(self)
         /\ \A i \in DOMAIN self : self[i] \in SelfEntries /\ EntryProved(self[i], registry, now)
         /\ wanted \in Preps /\ after \subseteq Stages /\ edits \in Nat
         /\ queued \in BOOLEAN /\ due \in Nat /\ now \in Nat \ {Never}
<1>1. now \in Nat \ {Never}
  BY MaxTimeAssumption DEF Inductive, TypeOK, Never
<1>2. self \in Seq(SelfEntries)
  BY DEF Inductive, TypeOK, SelfEntries
<1>3. \A i \in DOMAIN self : self[i] \in SelfEntries
  BY <1>2
<1>4. \A i \in DOMAIN self : EntryProved(self[i], registry, now)
  BY DEF Inductive, EvidenceRecorded, EntryProved
<1> QED BY <1>1, <1>2, <1>3, <1>4 DEF Inductive, TypeOK

LEMMA HoldCandidateInductive ==
  ASSUME Inductive, HoldCandidate
  PROVE  Inductive'
<1> DEFINE gate == Evaluate(Drop(self), seen, wanted, now)
<1>1. /\ self' = Drop(self) /\ queued' = FALSE
      /\ due' = due \/ due' = Sooner(due, gate.remaining)
      /\ UNCHANGED <<now, upstreamVars, soakVars, seen>>
      /\ wanted' = wanted /\ after' = after /\ edits' = edits
  BY DEF HoldCandidate
<1>2. gate.remaining \in Nat
  <2>1. \A u \in Stages : seen[u] \in StageOf(u)
    BY DEF Inductive, TypeOK
  <2> QED BY <2>1, SelfTyped, GateVerdict
<1> HIDE DEF gate
<1>3. due' \in Nat
  <2>1. now \in Nat /\ due \in Nat
    BY SelfTyped
  <2>2. now + gate.remaining \in Nat
    BY <1>2, <2>1
  <2> QED BY <1>1, <2>1, <2>2 DEF Sooner
<1>4. Drop(self) \in Seq(SelfEntries) /\ OnlyNewestRuns(Drop(self))
  BY SelfTyped, DropShape DEF SelfEntries
<1>5. \A i \in DOMAIN Drop(self) : EntryProved(Drop(self)[i], registry, now)
  <2>1. \A i \in DOMAIN Drop(self) : \E j \in DOMAIN self : Drop(self)[i] = self[j]
    BY SelfTyped, DropEntries
  <2> QED BY <2>1, SelfTyped
<1>6. /\ self' \in Seq(SelfEntries) /\ OnlyNewestRuns(self')
      /\ \A i \in DOMAIN self' : EntryProved(self'[i], registry, now)
  BY <1>1, <1>4, <1>5
<1>7. after' \subseteq Stages /\ wanted' \in Preps /\ edits' \in Nat /\ queued' \in BOOLEAN
  BY <1>1, SelfTyped
<1> QED BY <1>1, <1>3, <1>6, <1>7, DownstreamInductive

\* What qualifies a candidate ran healthily for the soak, and its health is as old.
LEMMA QualifiedSoaked ==
  ASSUME Inductive, Evaluate(Drop(self), seen, wanted, now).outcome = "Satisfied",
         ~PromotedBefore(Drop(self), wanted), NEW u \in Stages
  PROVE  LET e == Qualified(seen[u], wanted, u, now)
         IN  /\ \E i \in DOMAIN seen[u].history : e = seen[u].history[i]
             /\ e.preparation = wanted /\ Promoted(e) /\ e.healthy # Never
             /\ HealthyFor(e, now) >= Soak[u]
             /\ e.healthy + Soak[u] <= now
<1> DEFINE h == seen[u].history
           I == Qualifying(h, wanted, u, now)
           e == Qualified(seen[u], wanted, u, now)
<1>1. /\ h \in Seq(Entries(u)) /\ Soak[u] \in Nat /\ now \in Nat
      /\ \A i \in DOMAIN h : h[i].ended <= now
  BY StageTyped DEF Inductive, CopyGood
<1>2. I # {}
  <2>1. \A v \in Stages : seen[v] \in StageOf(v)
    BY DEF Inductive, TypeOK
  <2> QED BY <2>1, SelfTyped, GateVerdict
<1>3. I \in SUBSET DOMAIN h
  BY DEF Qualifying, Soaked, Candidates
<1>4. Newest(I) \in I
  BY <1>1, <1>2, <1>3, NewestIn
<1>5. e = h[Newest(I)] /\ Newest(I) \in DOMAIN h
  BY <1>3, <1>4 DEF Qualified
<1>6. /\ e.preparation = wanted /\ Promoted(e) /\ e.healthy # Never
      /\ HealthyFor(e, now) >= Soak[u]
  BY <1>4, <1>5 DEF Qualifying, Soaked, Candidates
<1>7. e \in Entries(u) /\ e.ended <= now
  BY <1>1, <1>5
<1> HIDE DEF e, I, h
<1>8. e.healthy \in Nat /\ e.ended \in Nat
  BY <1>7, EntryTyped
<1>9. e.healthy + Soak[u] <= now
  BY <1>1, <1>6, <1>7, <1>8 DEF HealthyFor
<1> QED BY <1>5, <1>6, <1>9 DEF e, h

LEMMA PromotedBeforeDrop ==
  ASSUME NEW p, PromotedBefore(Drop(self), p), Inductive
  PROVE  PromotedBefore(self, p)
<1>1. \A i \in DOMAIN Drop(self) : \E j \in DOMAIN self : Drop(self)[i] = self[j]
  BY SelfTyped, DropEntries
<1> QED BY <1>1 DEF PromotedBefore

\* The evidence of a candidate that passes is a record of each stage, in the
\* registry, of what ran there for the soak.
LEMMA EvidenceProves ==
  ASSUME Inductive, Evaluate(Drop(self), seen, wanted, now).outcome = "Satisfied",
         QualifiedVerify
  PROVE  /\ Evidence \in {<< >>} \cup [Stages -> DeploymentRecords]
         /\ Evidence # << >> => \A u \in Stages :
              /\ Evidence[u] \in registry /\ Evidence[u].order = u
              /\ Evidence[u].preparation = wanted
              /\ Evidence[u].healthy + Soak[u] <= now
<1>1. CASE PromotedBefore(Drop(self), wanted)
  BY <1>1 DEF Evidence
<1>2. CASE ~PromotedBefore(Drop(self), wanted)
  <2>1. Evidence = [u \in Stages |-> Qualified(seen[u], wanted, u, now).deploymentRecord]
    BY <1>2 DEF Evidence
  <2>2. ASSUME NEW u \in Stages
        PROVE  /\ Evidence[u] \in registry /\ Evidence[u].order = u
               /\ Evidence[u].preparation = wanted
               /\ Evidence[u].healthy + Soak[u] <= now
    <3> DEFINE e == Qualified(seen[u], wanted, u, now)
    <3>1. e.preparation = wanted /\ e.healthy + Soak[u] <= now
      BY <1>2, QualifiedSoaked
    <3>2. Verifies(e, u)
      BY <1>2 DEF QualifiedVerify
    <3>3. Evidence[u] = e.deploymentRecord
      BY <2>1
    <3> HIDE DEF e
    <3> QED BY <3>1, <3>2, <3>3 DEF Verifies
  <2>3. registry \subseteq DeploymentRecords
    BY DEF Inductive, TypeOK
  <2>4. Evidence = [u \in Stages |-> Evidence[u]]
    BY <2>1
  <2>5. Evidence \in [Stages -> DeploymentRecords]
    BY <2>2, <2>3, <2>4
  <2> QED BY <2>2, <2>5
<1> QED BY <1>1, <1>2

LEMMA PromoteCandidateInductive ==
  ASSUME Inductive, PromoteCandidate
  PROVE  Inductive'
<1> DEFINE step == NextStep(self, wanted)
           r == [preparation |-> wanted, started |-> self[1].started, upstream |-> Evidence]
<1>1. /\ step # "Deployed"
      /\ Evaluate(Drop(self), seen, wanted, now).outcome = "Satisfied" /\ QualifiedVerify
      /\ self' = IF step = "Open" THEN Open(self, wanted, now) ELSE Start(self, r)
      /\ queued' = (step = "Open")
      /\ UNCHANGED <<now, upstreamVars, soakVars, seen>>
      /\ after' = after /\ wanted' = wanted /\ due' = due /\ edits' = edits
  BY DEF PromoteCandidate
<1>2. /\ self \in Seq(SelfEntries) /\ OnlyNewestRuns(self)
      /\ \A i \in DOMAIN self : self[i] \in SelfEntries /\ EntryProved(self[i], registry, now)
      /\ wanted \in Preps /\ now \in Nat \ {Never}
  BY SelfTyped
<1>3. ASSUME step = "Open"
      PROVE  /\ self' \in Seq(SelfEntries) /\ OnlyNewestRuns(self')
             /\ \A i \in DOMAIN self' : EntryProved(self'[i], registry, now)
  <2>1. self' = Open(self, wanted, now)
    BY <1>1, <1>3
  <2>2. Open(self, wanted, now) \in Seq(SelfEntries) /\ OnlyNewestRuns(Open(self, wanted, now))
    BY <1>2, OpenShape DEF SelfEntries
  <2>3. \A i \in DOMAIN Open(self, wanted, now) :
          \/ Open(self, wanted, now)[i] = PendingEntry(wanted, now)
          \/ \E j \in DOMAIN self : Open(self, wanted, now)[i] = self[j]
    BY <1>2, OpenEntries DEF SelfEntries
  <2>4. EntryProved(PendingEntry(wanted, now), registry, now)
    BY DEF EntryProved, Promoted, PendingEntry
  <2> QED BY <1>2, <2>1, <2>2, <2>3, <2>4
<1>4. ASSUME step # "Open"
      PROVE  /\ self' \in Seq(SelfEntries) /\ OnlyNewestRuns(self')
             /\ \A i \in DOMAIN self' : EntryProved(self'[i], registry, now)
  <2>1. HasPending(self) /\ self[1].preparation = wanted
    BY <1>1, <1>4 DEF NextStep
  <2>2. 1 \in DOMAIN self /\ self[1].started \in Nat
    <3>1. 1 \in DOMAIN self
      BY <1>2, <2>1 DEF HasPending
    <3> QED BY <1>2, <3>1 DEF SelfEntries, RecordedEntriesOf, EntriesOf
  <2>3. r \in SelfRecords /\ r.preparation = self[1].preparation
    <3>1. Evidence \in {<< >>} \cup [Stages -> DeploymentRecords]
      BY <1>1, EvidenceProves
    <3> HIDE DEF step
    <3> QED BY <1>2, <2>1, <2>2, <3>1 DEF SelfRecords
  <2>4. self' = Start(self, r)
    BY <1>1, <1>4
  <2>5. r.preparation = wanted /\ r.upstream = Evidence
    OBVIOUS
  <2> HIDE DEF r, step
  <2>6. Start(self, r) \in Seq(SelfEntries) /\ OnlyNewestRuns(Start(self, r))
    BY <1>2, <2>3, StartShape DEF SelfEntries
  <2> DEFINE v == Start(self, r)
  <2>7. /\ DOMAIN v = DOMAIN self /\ v[1] = WithRecord(self[1], r)
        /\ \A i \in DOMAIN self \ {1} :
             /\ v[i].ended # Never
             /\ v[i] = self[i] \/ ( /\ Running(self[i])
                                    /\ v[i] = WithEnd(self[i], self[1].started, Superseded))
    BY <1>2, <2>1, StartEntries DEF SelfEntries
  <2> HIDE DEF v
  <2>8. EntryProved(v[1], registry, now)
    <3>1. v[1].promotionRecord = r /\ v[1].preparation = wanted
      BY <1>2, <2>1, <2>2, <2>7 DEF WithRecord, SelfEntries, RecordedEntriesOf, EntriesOf
    <3> QED BY <1>1, <2>5, <3>1, EvidenceProves DEF EntryProved
  <2>9. ASSUME NEW i \in DOMAIN self \ {1} PROVE EntryProved(v[i], registry, now)
    <3>1. CASE v[i] = self[i]
      BY <1>2, <3>1
    <3>2. CASE v[i] = WithEnd(self[i], self[1].started, Superseded)
      <4>1. /\ v[i].promotionRecord = self[i].promotionRecord
            /\ v[i].preparation = self[i].preparation
        BY <1>2, <3>2 DEF WithEnd, SelfEntries, RecordedEntriesOf, EntriesOf
      <4>2. EntryProved(self[i], registry, now)
        BY <1>2
      <4> QED BY <4>1, <4>2 DEF EntryProved, Promoted
    <3> QED BY <2>7, <3>1, <3>2
  <2> QED BY <2>4, <2>6, <2>7, <2>8, <2>9 DEF v
<1>5. /\ self' \in Seq(SelfEntries) /\ OnlyNewestRuns(self')
      /\ \A i \in DOMAIN self' : EntryProved(self'[i], registry, now)
  BY <1>3, <1>4
<1>6. /\ after' \subseteq Stages /\ wanted' \in Preps /\ edits' \in Nat
      /\ queued' \in BOOLEAN /\ due' \in Nat
  BY <1>1, SelfTyped
<1>7. UNCHANGED <<now, upstreamVars, soakVars, seen>>
  BY <1>1
<1> HIDE DEF step, r
<1> QED BY <1>5, <1>6, <1>7, DownstreamInductive

\* Being woken, another Preparation or other stages change no history.
LEMMA EventInductive ==
  ASSUME Inductive, Wake \/ Want \/ ChangeAfter
  PROVE  Inductive'
<1>1. UNCHANGED <<now, upstreamVars, soakVars, seen>> /\ self' = self /\ queued' = TRUE
  BY DEF Wake, Want, ChangeAfter
<1>2. /\ after' \subseteq Stages /\ wanted' \in Preps /\ edits' \in Nat /\ due' \in Nat
  <2>1. CASE Wake
    BY <2>1, SelfTyped DEF Wake, NoTime
  <2>2. CASE Want
    BY <2>2, SelfTyped, Edited DEF Want, Inductive
  <2>3. CASE ChangeAfter
    BY <2>3, SelfTyped, Edited DEF ChangeAfter, Inductive
  <2> QED BY <2>1, <2>2, <2>3
<1>3. /\ self \in Seq(SelfEntries) /\ OnlyNewestRuns(self)
      /\ \A i \in DOMAIN self : EntryProved(self[i], registry, now)
  BY SelfTyped
<1>4. /\ self' \in Seq(SelfEntries) /\ OnlyNewestRuns(self')
      /\ \A i \in DOMAIN self' : EntryProved(self'[i], registry, now)
  BY <1>1, <1>3
<1>5. queued' \in BOOLEAN
  BY <1>1
<1>6. UNCHANGED <<now, upstreamVars, soakVars, seen>>
  BY <1>1
<1> QED BY <1>2, <1>4, <1>5, <1>6, DownstreamInductive

-----------------------------------------------------------------------------
(* All steps.                                                              *)

\* A first deployment is pending and then promoted, at the first instant.
LEMMA FirstHistoryGood ==
  ASSUME NEW u \in Stages, NEW earned \in [Preps -> Nat]
  PROVE  /\ FirstHistory(u) \in Seq(Entries(u))
         /\ HistoryGood(FirstHistory(u), Soak[u], 1, 0, earned)
<1> DEFINE h == Open(<< >>, 1, 1)
           r == [order |-> u, preparation |-> 1, started |-> 1]
<1>1. << >> \in Seq(Entries(u)) /\ HistoryGood(<< >>, Soak[u], 1, 0, earned)
  BY EmptyGood
<1>2. 1 \in Preps /\ 1 \in Nat \ {Never} /\ Soak[u] \in Nat
  BY NumPrepsAssumption, SoakAssumption DEF Preps, Never
<1>3. h \in Seq(Entries(u)) /\ HistoryGood(h, Soak[u], 1, 0, earned)
  BY <1>1, <1>2, OpenGood
<1>4. h # << >> /\ h[1] = PendingEntry(1, 1)
  <2> DEFINE s == Insert(<< >>, 1, PendingEntry(1, 1))
  <2>1. h = Truncate(s)
    BY DEF Open, Prepend, Drop, HasPending
  <2>2. s = [j \in 1 .. 1 |-> PendingEntry(1, 1)]
    BY DEF Insert
  <2> HIDE DEF s
  <2>3. Len(s) = 1 /\ s[1] = PendingEntry(1, 1)
    BY <2>2
  <2>4. (IF Len(s) < MaxEntries THEN Len(s) ELSE MaxEntries) = 1
    BY <2>3, MaxEntriesAssumption
  <2>5. Truncate(s) = [j \in 1 .. 1 |-> s[j]]
    BY <2>4 DEF Truncate
  <2> HIDE DEF h
  <2>6. h[1] = s[1] /\ DOMAIN h = 1 .. 1
    BY <2>1, <2>5
  <2> QED BY <2>3, <2>6
<1>5. HasPending(h) /\ r.preparation = h[1].preparation /\ r \in UpstreamRecords(u)
  BY <1>2, <1>4 DEF HasPending, Promoted, PendingEntry, UpstreamRecords
<1>6. FirstHistory(u) = Start(h, r)
  BY DEF FirstHistory
<1> HIDE DEF h, r
<1> QED BY <1>2, <1>3, <1>5, <1>6, StartGood

LEMMA InitInductive == Init => Inductive
<1> SUFFICES ASSUME Init PROVE Inductive
  OBVIOUS
<1>1. PICK deployed, missing \in SUBSET Stages :
        /\ deployed \cap missing = {}
        /\ upstream = [u \in Stages |->
             [product |-> IF u \in missing THEN "None" ELSE "Own",
              history |-> IF u \in deployed THEN FirstHistory(u) ELSE << >>]]
  BY DEF Init
<1>2. /\ now = 1 /\ registry = {} /\ streak = [u \in Stages |-> 0]
      /\ served = [u \in Stages |-> [p \in Preps |-> 0]] /\ seen = upstream
      /\ after = Stages /\ wanted = 1 /\ self = << >> /\ queued = TRUE /\ due = 0 /\ edits = 0
  BY DEF Init, NoTime
<1>3. ASSUME NEW u \in Stages
      PROVE  /\ upstream[u] \in StageOf(u) /\ StageGood(u)
             /\ HistoryGood(upstream[u].history, Soak[u], 1, 0, served[u])
  <2>1. served[u] \in [Preps -> Nat] /\ streak[u] = 0
    BY <1>2
  <2>2. /\ upstream[u].product = IF u \in missing THEN "None" ELSE "Own"
        /\ upstream[u].history = IF u \in deployed THEN FirstHistory(u) ELSE << >>
    BY <1>1
  <2>3. /\ upstream[u].history \in Seq(Entries(u))
        /\ HistoryGood(upstream[u].history, Soak[u], 1, 0, served[u])
    BY <2>1, <2>2, EmptyGood, FirstHistoryGood
  <2>4. upstream[u] = [product |-> upstream[u].product, history |-> upstream[u].history]
    BY <1>1
  <2>5. upstream[u] \in StageOf(u)
    BY <2>2, <2>3, <2>4 DEF StageOf, Entries
  <2>6. upstream[u].product = "None" => upstream[u].history = << >>
    BY <1>1, <2>2
  <2> QED BY <1>2, <2>1, <2>3, <2>5, <2>6 DEF StageGood
<1>4. \A u \in Stages : CopyGood(u)
  BY <1>2, <1>3 DEF CopyGood, HistoryGood, EntryGood
<1>5. /\ << >> \in Seq(SelfEntries) /\ Len(<< >>) = 0 /\ DOMAIN << >> = 1 .. 0
  BY EmptySeq, LenProperties
<1>6. OnlyNewestRuns(self) /\ EvidenceRecorded
  BY <1>2, <1>5, MaxEntriesAssumption DEF OnlyNewestRuns, EvidenceRecorded
<1>7. upstream = [u \in Stages |-> upstream[u]]
  BY <1>1
<1>8. now \in 1 .. MaxTime /\ wanted \in Preps
  BY <1>2, MaxTimeAssumption, NumPrepsAssumption DEF Preps
<1>9. TypeOK
  BY <1>2, <1>3, <1>5, <1>7, <1>8 DEF TypeOK, SelfEntries
<1> QED BY <1>3, <1>4, <1>6, <1>9 DEF Inductive

LEMMA NextInductive == Inductive /\ [Next]_vars => Inductive'
<1> SUFFICES ASSUME Inductive, [Next]_vars PROVE Inductive'
  OBVIOUS
<1>1. ASSUME NEW u \in Stages, Upstream(u) PROVE Inductive'
  BY <1>1, OpenPromotionInductive, StartPromotionInductive, ObserveHealthInductive,
     RecordDeploymentInductive, ChangeOrderInductive DEF Upstream
<1>2. ASSUME NEW u \in Stages, SyncUpstream(u) PROVE Inductive'
  BY <1>2, SyncUpstreamInductive
<1>3. CASE Downstream
  BY <1>3, HoldCandidateInductive, PromoteCandidateInductive DEF Downstream
<1>4. CASE Wake \/ Want \/ ChangeAfter
  BY <1>4, EventInductive
<1>5. CASE Tick
  BY <1>5, TickInductive
<1>6. CASE UNCHANGED vars
  <2>1. /\ UNCHANGED <<now, upstream, registry, streak, served, seen, after>>
        /\ UNCHANGED <<wanted, self, queued, due, edits>>
    BY <1>6 DEF vars, upstreamVars, soakVars, downstreamVars
  <2>2. TypeOK'
    BY <2>1 DEF Inductive, TypeOK, StageOf
  <2>3. \A u \in Stages : StageGood(u)' /\ CopyGood(u)'
    BY <2>1 DEF Inductive, StageGood, CopyGood
  <2>4. OnlyNewestRuns(self)' /\ EvidenceRecorded'
    BY <2>1 DEF Inductive, EvidenceRecorded
  <2> QED BY <2>2, <2>3, <2>4 DEF Inductive
<1> QED BY <1>1, <1>2, <1>3, <1>4, <1>5, <1>6 DEF Next

\* A stage that is as the gate saw it ran what passes for the first time for its
\* soak.
LEMMA PromotionServed ==
  ASSUME Inductive, PromoteCandidate, ~PromotedBefore(self, wanted),
         NEW u \in Stages, seen[u] = upstream[u]
  PROVE  served[u][wanted] >= Soak[u]
<1> DEFINE e == Qualified(seen[u], wanted, u, now)
<1>1. ~PromotedBefore(Drop(self), wanted)
  BY PromotedBeforeDrop
<1>2. /\ \E i \in DOMAIN upstream[u].history : e = upstream[u].history[i]
      /\ e.preparation = wanted /\ Promoted(e) /\ e.healthy # Never
      /\ HealthyFor(e, now) >= Soak[u]
  BY <1>1, QualifiedSoaked DEF PromoteCandidate
<1> HIDE DEF e
<1>3. e \in Entries(u) /\ EntryGood(e, Soak[u], now, streak[u], served[u])
  <2>1. upstream[u].history \in Seq(Entries(u))
    BY StageTyped DEF Inductive
  <2> QED BY <1>2, <2>1 DEF Inductive, StageGood, HistoryGood
<1>4. /\ Soak[u] \in Nat /\ now \in Nat /\ served[u][wanted] \in Nat
      /\ e.healthy \in Nat /\ e.ended \in Nat
  BY <1>3, EntryTyped, StageTyped, SelfTyped DEF Inductive
<1>5. HealthyFor(e, now) \in Int
  BY <1>4 DEF HealthyFor
<1> QED BY <1>2, <1>3, <1>4, <1>5 DEF EntryGood

LEMMA StepServed ==
  Inductive /\ [Next]_vars =>
    [~PromotedBefore(self, wanted) /\ PromotedBefore(self', wanted) =>
       \A u \in Stages :
         seen[u] = upstream[u] => served[u][wanted] >= Soak[u]]_self
<1> SUFFICES ASSUME Inductive, [Next]_vars, self' # self,
                    ~PromotedBefore(self, wanted), PromotedBefore(self', wanted),
                    NEW u \in Stages, seen[u] = upstream[u]
             PROVE  served[u][wanted] >= Soak[u]
  OBVIOUS
<1>1. \/ \E v \in Stages : Upstream(v) \/ SyncUpstream(v)
      \/ Downstream \/ Wake \/ Want \/ ChangeAfter \/ Tick
  BY DEF Next, vars, downstreamVars
<1>2. \A v \in Stages : ~Upstream(v) /\ ~SyncUpstream(v)
  BY DEF Upstream, OpenPromotion, StartPromotion, ObserveHealth, RecordDeployment,
         ChangeOrder, SyncUpstream, downstreamVars
<1>3. ~Wake /\ ~Want /\ ~ChangeAfter /\ ~Tick
  BY DEF Wake, Want, ChangeAfter, Tick, downstreamVars
<1>4. ~HoldCandidate
  BY PromotedBeforeDrop DEF HoldCandidate
<1>5. PromoteCandidate
  BY <1>1, <1>2, <1>3, <1>4 DEF Downstream
<1> QED BY <1>5, PromotionServed

-----------------------------------------------------------------------------
(* The gate never passes with nobody looking.                              *)

\* What runs is the newest that was promoted, so it is what a soak that is under
\* way is about.
LEMMA RunningIsNewest ==
  ASSUME NEW u \in Stages, NEW h \in Seq(Entries(u)), OnlyNewestRuns(h),
         NEW p \in Preps, NEW t \in Nat, NEW i \in Candidates(h, p), Running(h[i])
  PROVE  Newest(Soaking(h, p, u, t)) = i
<1> DEFINE I == Soaking(h, p, u, t)
<1>1. i \in I /\ I \in SUBSET DOMAIN h /\ I \subseteq Candidates(h, p)
  BY DEF Soaking, Soaked, Candidates
<1>2. DOMAIN h = 1 .. Len(h) /\ Len(h) \in Nat
  OBVIOUS
<1>3. \A j \in I : Promoted(h[j])
  BY <1>1 DEF Candidates
<1>4. ASSUME NEW j \in I PROVE i <= j
  <2>1. i \in Nat /\ j \in Nat
    BY <1>1, <1>2
  <2>2. j < i => h[i].ended # Never
    BY <1>1, <1>3 DEF OnlyNewestRuns
  <2> QED BY <2>1, <2>2 DEF Running
<1>5. Newest(I) \in I
  BY <1>1, NewestIn
<1>6. \A j \in I : Newest(I) <= j
  <2> HIDE DEF I
  <2> QED BY <1>1, <1>4 DEF Newest
<1>7. Newest(I) \in Nat /\ i \in Nat
  BY <1>1, <1>2, <1>5
<1> QED BY <1>1, <1>4, <1>5, <1>6, <1>7

\* A stage that does not satisfy the gate now satisfies it by a copy that does not
\* change no sooner than the time it says is left.
LEMMA StageWaits ==
  ASSUME NEW u \in Stages, NEW s \in StageOf(u), OnlyNewestRuns(s.history),
         NEW p \in Preps, NEW t0 \in Nat, NEW t \in Nat, t0 <= t,
         EvaluateStage(s, p, u, t0).outcome # "Satisfied",
         EvaluateStage(s, p, u, t).outcome = "Satisfied"
  PROVE  LET w == EvaluateStage(s, p, u, t0).remaining
         IN  w \in Nat \ {0} /\ t0 + w <= t
<1> DEFINE h == s.history
<1>1. h \in Seq(Entries(u)) /\ s.product \in {"None", "Own", "Other"} /\ Soak[u] \in Nat
  BY SoakAssumption DEF StageOf, Entries
<1>2. s.product = "Own"
  BY <1>1 DEF EvaluateStage, Verdict
<1>3. Qualifying(h, p, u, t) # {}
  BY StageVerdict
<1>4. PICK i \in Qualifying(h, p, u, t) : TRUE
  BY <1>3
<1>5. Qualifying(h, p, u, t0) = {}
  BY <1>2 DEF EvaluateStage, Verdict
<1> HIDE DEF h
<1>6. i \in DOMAIN h /\ i \in Candidates(h, p) /\ HealthyFor(h[i], t) >= Soak[u]
  BY <1>4 DEF Qualifying, Soaked, Candidates
<1>7. i \notin Soaked(h, p, u, t0)
  BY <1>4, <1>5 DEF Qualifying
<1>8. ~(HealthyFor(h[i], t0) >= Soak[u])
  BY <1>6, <1>7 DEF Soaked
<1>9. h[i] \in Entries(u)
  BY <1>1, <1>6
<1>10. h[i].healthy \in Nat /\ h[i].ended \in Nat
  BY <1>9, EntryTyped
<1>11. Running(h[i])
  BY <1>6, <1>8 DEF HealthyFor
<1>12. Newest(Soaking(h, p, u, t0)) = i
  BY <1>1, <1>6, <1>11, RunningIsNewest DEF h
<1>13. i \in Soaking(h, p, u, t0)
  BY <1>6, <1>11 DEF Soaking
<1>14. EvaluateStage(s, p, u, t0) = Verdict("Soaking", SoakLeft(h, p, u, t0))
  BY <1>2, <1>5, <1>13 DEF EvaluateStage, h
<1>15. SoakLeft(h, p, u, t0) = Soak[u] - (t0 - h[i].healthy)
  BY <1>7, <1>11, <1>12 DEF SoakLeft, HealthyFor
<1>16. t - h[i].healthy >= Soak[u] /\ ~(t0 - h[i].healthy >= Soak[u])
  BY <1>6, <1>8, <1>11 DEF HealthyFor
<1> QED BY <1>1, <1>10, <1>14, <1>15, <1>16 DEF Verdict

\* The gate is satisfied when every stage is, and waits for none longer than for the
\* first soak to end.
LEMMA GateOutcome ==
  ASSUME NEW stages, \A u \in Stages : stages[u] \in StageOf(u),
         NEW p \in Preps, NEW t \in Nat, NEW history,
         Stages # {}, ~PromotedBefore(history, p)
  PROVE  LET gate == Evaluate(history, stages, p, t)
         IN  /\ gate.outcome # "Satisfied" =>
                  \E u \in Stages : EvaluateStage(stages[u], p, u, t).outcome # "Satisfied"
             /\ \A u \in Stages :
                  LET w == EvaluateStage(stages[u], p, u, t).remaining
                  IN  w # 0 => gate.remaining \in Nat \ {0} /\ gate.remaining <= w
<1> DEFINE gate == Evaluate(history, stages, p, t)
           verdicts == {EvaluateStage(stages[u], p, u, t) : u \in Stages}
           Severe(k) == \E v \in verdicts : v.outcome = Outcomes[k]
           waits == {v.remaining : v \in verdicts} \ {0}
           worst == CHOOSE k \in 1 .. 4 : Severe(k) /\ \A j \in k + 1 .. 4 : ~Severe(j)
           first == CHOOSE w \in waits : \A x \in waits : w <= x
<1>1. gate = Verdict(Outcomes[worst], IF waits = {} THEN 0 ELSE first)
  BY DEF Evaluate
<1>2. /\ Outcomes[1] = "Satisfied" /\ Outcomes[2] = "Soaking"
      /\ Outcomes[3] = "NotDeployedUpstream" /\ Outcomes[4] = "InvalidPipeline"
  BY DEF Outcomes
<1>3. ASSUME \A u \in Stages : EvaluateStage(stages[u], p, u, t).outcome = "Satisfied"
      PROVE  Outcomes[worst] = "Satisfied"
  <2>1. \A v \in verdicts : v.outcome = "Satisfied"
    BY <1>3
  <2>2. verdicts # {}
    OBVIOUS
  <2>3. Severe(1) /\ ~Severe(2) /\ ~Severe(3) /\ ~Severe(4)
    BY <1>2, <2>1, <2>2
  <2> HIDE DEF Severe
  <2>4. \A k \in 1 .. 4 : Severe(k) <=> k = 1
    BY <2>3
  <2>5. worst = 1
    BY <2>4
  <2> QED BY <1>2, <2>5
<1>4. ASSUME NEW w \in waits PROVE first \in waits /\ first <= w /\ waits \subseteq Nat
  <2>1. \A u \in Stages : EvaluateStage(stages[u], p, u, t).remaining \in Nat
    BY StageVerdict
  <2>2. waits \in SUBSET Nat
    BY <2>1
  <2> HIDE DEF waits
  <2>3. \E x \in waits : \A y \in waits : x <= y
    BY <1>4, <2>2, LeastExists
  <2> QED BY <1>4, <2>2, <2>3
<1>5. ASSUME NEW u \in Stages, EvaluateStage(stages[u], p, u, t).remaining # 0
      PROVE  /\ gate.remaining \in Nat \ {0}
             /\ gate.remaining <= EvaluateStage(stages[u], p, u, t).remaining
  <2> DEFINE w == EvaluateStage(stages[u], p, u, t).remaining
  <2>1. w \in waits
    BY <1>5
  <2>2. 0 \notin waits
    OBVIOUS
  <2> HIDE DEF w, waits, worst
  <2>3. first \in waits /\ first <= w /\ waits \subseteq Nat
    BY <1>4, <2>1
  <2>4. gate.remaining = first
    BY <1>1, <2>1 DEF Verdict
  <2> QED BY <2>2, <2>3, <2>4 DEF w
<1> HIDE DEF worst, waits, first, verdicts
<1>6. gate.outcome # "Satisfied" =>
        \E u \in Stages : EvaluateStage(stages[u], p, u, t).outcome # "Satisfied"
  BY <1>1, <1>3 DEF Verdict
<1> QED BY <1>5, <1>6

\* The gate that holds now passes, if nothing changes, after the time it asks for
\* at the soonest.
LEMMA GateWaits ==
  ASSUME NEW stages,
         \A u \in Stages : stages[u] \in StageOf(u) /\ OnlyNewestRuns(stages[u].history),
         NEW p \in Preps, NEW history, NEW t0 \in Nat, NEW t \in Nat, t0 <= t,
         Evaluate(history, stages, p, t0).outcome # "Satisfied",
         Evaluate(history, stages, p, t).outcome = "Satisfied"
  PROVE  LET w == Evaluate(history, stages, p, t0).remaining
         IN  w \in Nat \ {0} /\ t0 + w <= t
<1>1. Stages # {} /\ ~PromotedBefore(history, p)
  BY DEF Evaluate, Verdict
<1>2. PICK u \in Stages : EvaluateStage(stages[u], p, u, t0).outcome # "Satisfied"
  BY <1>1, GateOutcome
<1>3. EvaluateStage(stages[u], p, u, t).outcome = "Satisfied"
  BY <1>1, GateVerdict
<1> DEFINE v == EvaluateStage(stages[u], p, u, t0).remaining
           w == Evaluate(history, stages, p, t0).remaining
<1>4. v \in Nat \ {0} /\ t0 + v <= t
  BY <1>2, <1>3, StageWaits
<1>5. v # 0 => w \in Nat \ {0} /\ w <= v
  BY <1>1, GateOutcome
<1> HIDE DEF v, w
<1>6. w \in Nat \ {0} /\ t0 + w <= t
  BY <1>4, <1>5
<1> QED BY <1>6 DEF w

\* Nothing is queued for the candidate, and no timer for it fires by t.
Unwoken(t) == t >= now /\ (due = NoTime \/ t < due)

\* When nothing is queued, the gate would hold the candidate whenever it is asked
\* before the timer fires, by the copies of the stages that are there.
Waiting ==
  /\ \A u \in Stages : OnlyNewestRuns(seen[u].history)
  /\ ~queued /\ after = Stages /\ NextStep(self, wanted) # "Deployed" =>
       \A t \in Nat :
         Unwoken(t) => Evaluate(self, seen, wanted, t).outcome # "Satisfied"

\* The clock goes on, and the stages do, while nothing reaches the downstream stage.
LEMMA UnseenWaiting ==
  ASSUME Inductive, Waiting, UNCHANGED <<seen, after, downstreamVars>>, now' \in Nat, now <= now'
  PROVE  Waiting'
<1>1. /\ seen' = seen /\ after' = after /\ wanted' = wanted /\ self' = self
      /\ queued' = queued /\ due' = due
  BY DEF downstreamVars
<1>2. now \in Nat
  BY SelfTyped
<1>3. \A t \in Nat : Unwoken(t)' => Unwoken(t)
  BY <1>1, <1>2 DEF Unwoken
<1> QED BY <1>1, <1>3 DEF Waiting

\* A copy that arrives queues the Serving of an Order that names all stages.
LEMMA SyncUpstreamWaiting ==
  ASSUME Inductive, Waiting, NEW u \in Stages, SyncUpstream(u)
  PROVE  Waiting'
<1>1. \A v \in Stages : seen'[v] = seen[v] \/ (v = u /\ seen'[v] = upstream[u])
  BY DEF SyncUpstream, Inductive, TypeOK
<1>2. \A v \in Stages : OnlyNewestRuns(seen'[v].history)
  BY <1>1 DEF Waiting, Inductive, StageGood, HistoryGood
<1>3. queued' \/ after' # Stages
  BY DEF SyncUpstream
<1> QED BY <1>2, <1>3 DEF Waiting

\* What the status is written without stays deployed.
LEMMA DeployedDrop ==
  ASSUME Inductive, NEW p
  PROVE  NextStep(self, p) = "Deployed" => NextStep(Drop(self), p) = "Deployed"
<1> SUFFICES ASSUME NextStep(self, p) = "Deployed" PROVE NextStep(Drop(self), p) = "Deployed"
  OBVIOUS
<1>1. IsDeployed(self) /\ Deployed(self).preparation = p
  BY DEF NextStep
<1>2. IsDeployed(Drop(self)) /\ Deployed(Drop(self)) = Deployed(self)
  BY <1>1, SelfTyped, DropDeployed DEF SelfEntries
<1> QED BY <1>1, <1>2 DEF NextStep

\* A candidate that is held is asked about again when the first soak ends.
LEMMA HoldCandidateWaiting ==
  ASSUME Inductive, Waiting, HoldCandidate
  PROVE  Waiting'
<1> DEFINE gate == Evaluate(Drop(self), seen, wanted, now)
           current == NextStep(self, wanted) = "Deployed"
<1>1. /\ current \/ gate.outcome # "Satisfied"
      /\ self' = Drop(self) /\ now' = now /\ seen' = seen /\ after' = after /\ wanted' = wanted
      /\ due' = IF current THEN due ELSE Sooner(due, gate.remaining)
  BY DEF HoldCandidate
<1>2. CASE current
  BY <1>1, <1>2, DeployedDrop DEF Waiting
<1>3. CASE ~current
  <2> SUFFICES ASSUME NEW t \in Nat, Unwoken(t)'
               PROVE  Evaluate(self', seen, wanted, t).outcome # "Satisfied"
    BY <1>1 DEF Waiting
  <2> SUFFICES ASSUME Evaluate(Drop(self), seen, wanted, t).outcome = "Satisfied"
               PROVE  FALSE
    BY <1>1
  <2>1. /\ now \in Nat /\ due \in Nat /\ wanted \in Preps /\ now <= t
        /\ due' = NoTime \/ t < due'
    BY <1>1, SelfTyped DEF Unwoken
  <2>2. \A u \in Stages : seen[u] \in StageOf(u) /\ OnlyNewestRuns(seen[u].history)
    BY DEF Inductive, TypeOK, Waiting
  <2>3. gate.outcome # "Satisfied" /\ due' = Sooner(due, gate.remaining)
    BY <1>1, <1>3
  <2>4. gate.remaining \in Nat \ {0} /\ now + gate.remaining <= t
    BY <2>1, <2>2, <2>3, GateWaits
  <2> HIDE DEF gate
  <2>5. due' # NoTime /\ due' <= now + gate.remaining
    BY <2>1, <2>3, <2>4 DEF Sooner, NoTime
  <2>6. due' \in Nat
    BY <2>1, <2>3, <2>4 DEF Sooner
  <2> QED BY <2>1, <2>4, <2>5, <2>6
<1> QED BY <1>2, <1>3

\* A candidate that passes is queued once more, and then it is deployed.
LEMMA PromoteCandidateWaiting ==
  ASSUME Inductive, Waiting, PromoteCandidate
  PROVE  Waiting'
<1> DEFINE r == [preparation |-> wanted, started |-> self[1].started, upstream |-> Evidence]
<1>1. /\ NextStep(self, wanted) # "Deployed"
      /\ Evaluate(Drop(self), seen, wanted, now).outcome = "Satisfied" /\ QualifiedVerify
      /\ seen' = seen /\ wanted' = wanted
      /\ NextStep(self, wanted) # "Open" => self' = Start(self, r)
      /\ queued' = (NextStep(self, wanted) = "Open")
  BY DEF PromoteCandidate
<1>2. ASSUME NextStep(self, wanted) # "Open"
      PROVE  NextStep(Start(self, r), wanted) = "Deployed"
  <2>1. HasPending(self) /\ self[1].preparation = wanted
    BY <1>1, <1>2 DEF NextStep
  <2>2. 1 \in DOMAIN self /\ self[1] \in SelfEntries
    BY <2>1, SelfTyped DEF HasPending
  <2>3. r \in SelfRecords
    <3>1. Evidence \in {<< >>} \cup [Stages -> DeploymentRecords]
      BY <1>1, EvidenceProves
    <3>2. self[1].started \in Nat /\ wanted \in Preps
      BY <2>2, SelfTyped DEF SelfEntries, RecordedEntriesOf, EntriesOf
    <3> QED BY <3>1, <3>2 DEF SelfRecords
  <2> HIDE DEF r
  <2> DEFINE v == Start(self, r)
  <2>4. 1 \in DOMAIN v /\ v[1] = WithRecord(self[1], r)
    BY <2>1, SelfTyped, StartEntries DEF SelfEntries
  <2>5. v[1].preparation = wanted /\ Promoted(v[1])
    BY <2>1, <2>2, <2>3, <2>4, NoRecordAssumption
       DEF WithRecord, Promoted, SelfEntries, RecordedEntriesOf, EntriesOf
  <2>6. v \in Seq(SelfEntries) /\ OnlyNewestRuns(v)
    <3>1. r.preparation = self[1].preparation
      BY <2>1 DEF r
    <3> QED BY <2>1, <2>3, <3>1, SelfTyped, StartShape DEF SelfEntries
  <2> HIDE DEF v
  <2>7. IsDeployed(v)
    BY <2>4, <2>5 DEF IsDeployed, Promotions
  <2>8. DeployedIndex(v) = 1
    <3>1. /\ DeployedIndex(v) \in DOMAIN v
          /\ \A i \in DOMAIN v : i < DeployedIndex(v) => ~Promoted(v[i])
      BY <2>6, <2>7, BelowDeployedEnded DEF SelfEntries
    <3>2. DOMAIN v = 1 .. Len(v) /\ Len(v) \in Nat
      BY <2>6
    <3> QED BY <2>4, <2>5, <3>1, <3>2
  <2> QED BY <2>5, <2>7, <2>8 DEF NextStep, Deployed, v
<1> HIDE DEF r
<1> QED BY <1>1, <1>2 DEF Waiting

LEMMA InitWaiting == Init => Waiting
<1> SUFFICES ASSUME Init PROVE Waiting
  OBVIOUS
<1>1. queued = TRUE /\ seen = upstream
  BY DEF Init
<1>2. \A u \in Stages : OnlyNewestRuns(upstream[u].history)
  BY InitInductive DEF Inductive, StageGood, HistoryGood
<1> QED BY <1>1, <1>2 DEF Waiting

LEMMA NextWaiting == Inductive /\ Waiting /\ [Next]_vars => Waiting'
<1> SUFFICES ASSUME Inductive, Waiting, [Next]_vars PROVE Waiting'
  OBVIOUS
<1>1. now \in Nat
  BY SelfTyped
<1>2. ASSUME NEW u \in Stages, Upstream(u) PROVE Waiting'
  <2>1. UNCHANGED <<now, seen, after, downstreamVars>>
    BY <1>2 DEF Upstream, OpenPromotion, StartPromotion, ObserveHealth, RecordDeployment,
                ChangeOrder
  <2> QED BY <1>1, <2>1, UnseenWaiting
<1>3. ASSUME NEW u \in Stages, SyncUpstream(u) PROVE Waiting'
  BY <1>3, SyncUpstreamWaiting
<1>4. CASE Downstream
  BY <1>4, HoldCandidateWaiting, PromoteCandidateWaiting DEF Downstream
<1>5. CASE Wake \/ Want \/ ChangeAfter
  BY <1>5 DEF Wake, Want, ChangeAfter, Waiting
<1>6. CASE Tick
  <2>1. UNCHANGED <<seen, after, downstreamVars>> /\ now' \in Nat /\ now <= now'
    BY <1>1, <1>6 DEF Tick
  <2> QED BY <2>1, UnseenWaiting
<1>7. CASE UNCHANGED vars
  <2>1. UNCHANGED <<now, seen, after, downstreamVars>>
    BY <1>7 DEF vars
  <2> QED BY <1>1, <2>1, UnseenWaiting
<1> QED BY <1>2, <1>3, <1>4, <1>5, <1>6, <1>7 DEF Next

-----------------------------------------------------------------------------
(* The theorems.                                                           *)

\* The inductive invariant holds of every reachable state.
THEOREM InductiveHolds == Spec => []Inductive
<1>1. Init => Inductive
  BY InitInductive
<1>2. Inductive /\ [Next]_vars => Inductive'
  BY NextInductive
<1> QED BY <1>1, <1>2, PTL DEF Spec

\* Every variable has its type, and every record that an entry has is of its own
\* stage and Preparation (promotion.History, DeploymentEntry).
THEOREM TypeCorrect == Spec => []TypeOK
<1>1. Inductive => TypeOK
  BY DEF Inductive
<1> QED BY <1>1, InductiveHolds, PTL

\* Every first promotion names, for every stage, a record in the registry of a
\* deployment of the same revision that was healthy for the soak
\* (evaluateStage, VerifyDeployment).
THEOREM EvidenceRecordedHolds == Spec => []EvidenceRecorded
<1>1. Inductive => EvidenceRecorded
  BY DEF Inductive
<1> QED BY <1>1, InductiveHolds, PTL

\* What is promoted for the first time ran for its soak, without an interruption,
\* at every stage that is as the gate saw it (evaluateStage, History.Observe).
THEOREM SoakServedHolds == Spec => SoakServed
<1>1. Inductive /\ [Next]_vars =>
        [~PromotedBefore(self, wanted) /\ PromotedBefore(self', wanted) =>
           \A u \in Stages :
             seen[u] = upstream[u] => served[u][wanted] >= Soak[u]]_self
  BY StepServed
<1> QED BY <1>1, InductiveHolds, PTL DEF Spec, SoakServed

\* When nothing is queued, nothing happens and no timer is due, what was promoted by
\* hand is deployed or a stage holds it: the changes of the stages that the Order
\* names, and the end of the first soak, are all that has to wake the Serving
\* (historyChanged, ServingReconciler.upstream, Evaluate).
THEOREM GateWakesHolds == Spec => []GateWakes
<1>1. Init => Waiting
  BY InitWaiting
<1>2. Inductive /\ Waiting /\ [Next]_vars => Waiting'
  BY NextWaiting
<1>3. Inductive /\ Waiting => GateWakes
  <2> SUFFICES ASSUME Inductive, Waiting, after = Stages, Quiet,
                      NextStep(self, wanted) # "Deployed"
               PROVE  Evaluate(self, upstream, wanted, now).outcome # "Satisfied"
    BY DEF GateWakes, QueuedPromotionDeploys
  <2>1. now \in Nat /\ due \in Nat /\ (due = NoTime \/ due > now) /\ ~queued /\ seen = upstream
    BY SelfTyped DEF Quiet
  <2>2. Unwoken(now)
    BY <2>1 DEF Unwoken
  <2> QED BY <2>1, <2>2 DEF Waiting
<1> QED BY <1>1, <1>2, <1>3, InductiveHolds, PTL DEF Spec

===============================================================================
