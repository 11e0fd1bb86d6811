--------------------------- MODULE ServingProofs ---------------------------
(***************************************************************************)
(* What holds of the Serving and its controller for any number of          *)
(* Preparations, of changes, failures and crashes, and any time: the       *)
(* history keeps its shape, and the registry holds the record of whatever  *)
(* is promoted or deployed.  Then, that it implements module Promotion,    *)
(* that no promotion is left half way, and that no wake-up is lost.        *)
(***************************************************************************)
EXTENDS Serving, HistoryProofs

-----------------------------------------------------------------------------
(* The operators the steps are made of.                                    *)

\* A history that is good stays so while records are added.
LEMMA GoodGrows ==
  ASSUME NEW rs, NEW qs, rs \subseteq qs, NEW h, GoodHistory(h, rs)
  PROVE  GoodHistory(h, qs)
<1> DEFINE E(ss) == RecordedEntriesOf(Preps, ss \cap PromotionRecords,
                                      ss \cap DeploymentRecords)
<1>1. E(rs) \subseteq E(qs)
  BY DEF RecordedEntriesOf, EntriesOf
<1>2. Seq(E(rs)) \subseteq Seq(E(qs))
  BY <1>1, SeqMonotonic
<1> QED
  BY <1>2 DEF GoodHistory

\* A good history has its type.
LEMMA GoodType ==
  ASSUME NEW rs, NEW h, GoodHistory(h, rs)
  PROVE  h \in Seq(Entries)
<1>1. RecordedEntriesOf(Preps, rs \cap PromotionRecords, rs \cap DeploymentRecords)
        \subseteq Entries
  BY DEF RecordedEntriesOf, EntriesOf, Entries
<1> QED
  BY <1>1, SeqMonotonic DEF GoodHistory

\* What is deployed was promoted, and its record is of its Preparation.
LEMMA GoodDeployed ==
  ASSUME NEW rs, NEW h, GoodHistory(h, rs), IsDeployed(h)
  PROVE  /\ Deployed(h).preparation \in Preps
         /\ Deployed(h).promotionRecord \in rs
         /\ Deployed(h).promotionRecord.kind = "Promotion"
         /\ Deployed(h).promotionRecord.preparation = Deployed(h).preparation
<1> DEFINE E == RecordedEntriesOf(Preps, rs \cap PromotionRecords,
                                  rs \cap DeploymentRecords)
<1>1. h \in Seq(E) /\ OnlyNewestRuns(h)
  BY DEF GoodHistory
<1>2. DeployedIndex(h) \in DOMAIN h /\ Promoted(Deployed(h))
  BY <1>1, DeployedIndexIs DEF Promotions, Deployed
<1>3. Deployed(h) \in E
  BY <1>1, <1>2 DEF Deployed
<1> QED
  BY <1>2, <1>3 DEF RecordedEntriesOf, EntriesOf, Promoted, PromotionRecords

\* Dropping the pending entry (History.Drop) keeps a history good.
LEMMA DropGood ==
  ASSUME NEW rs, NEW h, GoodHistory(h, rs)
  PROVE  GoodHistory(Drop(h), rs)
BY DropShape DEF GoodHistory

\* The first pass of a promotion (History.Open) keeps a history good.
LEMMA OpenGood ==
  ASSUME NEW rs, NEW h, GoodHistory(h, rs), NEW p \in Preps,
         NEW t \in Nat \ {Never}
  PROVE  GoodHistory(Open(h, p, t), rs)
BY OpenShape DEF GoodHistory

\* Recording what Argo CD reports (History.Observe) keeps a history good.
LEMMA ObserveGood ==
  ASSUME NEW rs, NEW h, GoodHistory(h, rs), NEW revision, NEW health,
         NEW t \in Nat \ {Never}
  PROVE  GoodHistory(Observe(h, revision, health, t), rs)
BY ObserveShape DEF GoodHistory

\* The record of the pending entry is one, and starts it.
LEMMA PushGood ==
  ASSUME NEW rs, NEW h, GoodHistory(h, rs), HasPending(h), NEW mode \in Orders
  PROVE  LET r == PromotionRecord(h[1], mode, PreviousOf(h))
         IN  /\ r \in PromotionRecords
             /\ GoodHistory(Start(h, r), rs \cup {r})
<1> DEFINE r == PromotionRecord(h[1], mode, PreviousOf(h))
           E(ss) == RecordedEntriesOf(Preps, ss \cap PromotionRecords,
                                      ss \cap DeploymentRecords)
<1>1. GoodHistory(Drop(h), rs)
  BY DropGood
<1>2. PreviousOf(h) \in Preps \cup {NoPrep}
  BY <1>1, GoodDeployed DEF PreviousOf
<1>3. h[1] \in E(rs)
  BY DEF GoodHistory, HasPending
<1>4. r \in PromotionRecords /\ r.preparation = h[1].preparation
  BY <1>2, <1>3 DEF PromotionRecord, PromotionRecords, RecordedEntriesOf, EntriesOf
<1>5. GoodHistory(h, rs \cup {r})
  BY GoodGrows
<1> HIDE DEF r
<1>6. r \in (rs \cup {r}) \cap PromotionRecords
  BY <1>4
<1>7. GoodHistory(Start(h, r), rs \cup {r})
  BY <1>4, <1>5, <1>6, StartShape DEF GoodHistory
<1> QED
  BY <1>4, <1>7 DEF r

\* The Preparation a Serving converges to is one of the Order's.
LEMMA CandidateType ==
  ASSUME TypeOK, NEW wanted \in Preps
  PROVE  Candidate(wanted) \in Preps \cup {NoPrep}
<1>1. ReadyPreps \subseteq 1 .. NumPreps /\ NumPreps \in Nat
  BY NumPrepsAssumption DEF ReadyPreps, Preps
<1>2. ReadyPreps # {} => NewestReady \in ReadyPreps
  BY <1>1, LastExists DEF NewestReady
<1> QED
  BY <1>1, <1>2 DEF Candidate, Preps

\* The deployments a pass records get records of promotions in the registry.
LEMMA RecordsGood ==
  ASSUME NEW rs, NEW h, GoodHistory(h, rs)
  PROVE  LET todo == ToRecord(h)
             new  == {RecordOf(h[i]) : i \in todo}
         IN  /\ new \subseteq DeploymentRecords
             /\ \A r \in new : r.promotion \in rs
             /\ GoodHistory(WithRecords(h, todo), rs \cup new)
<1> DEFINE todo == ToRecord(h)
           new  == {RecordOf(h[i]) : i \in todo}
           E(ss) == RecordedEntriesOf(Preps, ss \cap PromotionRecords,
                                      ss \cap DeploymentRecords)
           g == WithRecords(h, todo)
           same(i) == {j \in todo : /\ h[j].preparation = h[i].preparation
                                    /\ h[j].healthy = h[i].healthy}
<1>1. /\ h \in Seq(E(rs)) /\ OnlyNewestRuns(h)
      /\ Len(h) \in Nat /\ DOMAIN h = 1 .. Len(h)
  BY DEF GoodHistory
<1>2. todo \subseteq 1 .. Len(h) /\ \A i \in todo : IsUnrecorded(h[i])
  BY <1>1 DEF ToRecord, Unrecorded
<1>3. \A i \in todo : RecordOf(h[i]) \in DeploymentRecords
                     /\ RecordOf(h[i]).promotion \in rs
  <2> SUFFICES ASSUME NEW i \in todo
               PROVE  /\ RecordOf(h[i]) \in DeploymentRecords
                      /\ RecordOf(h[i]).promotion \in rs
    OBVIOUS
  <2>1. h[i] \in E(rs) /\ h[i].promotionRecord \in rs \cap PromotionRecords
    BY <1>1, <1>2 DEF IsUnrecorded, Promoted, RecordedEntriesOf, EntriesOf
  <2>2. h[i].preparation \in Preps /\ h[i].healthy \in Nat
    BY <2>1 DEF RecordedEntriesOf, EntriesOf
  <2> QED BY <2>1, <2>2 DEF RecordOf, DeploymentRecord, DeploymentRecords
<1>4. new \subseteq DeploymentRecords /\ \A r \in new : r.promotion \in rs
  BY <1>3
<1>5. \A i \in 1 .. Len(h) : h[i] \in E(rs \cup new)
  <2>1. GoodHistory(h, rs \cup new)
    BY GoodGrows
  <2> QED BY <1>1, <2>1 DEF GoodHistory
<1>6. \A i \in 1 .. Len(h) :
        /\ g[i] \in E(rs \cup new)
        /\ Promoted(g[i]) <=> Promoted(h[i])
        /\ g[i].ended = h[i].ended
  <2> SUFFICES ASSUME NEW i \in 1 .. Len(h)
               PROVE  /\ g[i] \in E(rs \cup new)
                      /\ Promoted(g[i]) <=> Promoted(h[i])
                      /\ g[i].ended = h[i].ended
    OBVIOUS
  <2>1. CASE same(i) = {}
    BY <1>1, <1>5, <2>1 DEF WithRecords
  <2>2. CASE same(i) # {}
    <3> DEFINE j == CHOOSE j \in same(i) : \A k \in same(i) : k <= j
               r == RecordOf(h[j])
    <3>1. same(i) \in SUBSET (1 .. Len(h))
      BY <1>2
    <3>2. \E m \in same(i) : \A k \in same(i) : k <= m
      BY <1>1, <2>2, <3>1, LastExists
    <3>3. j \in same(i)
      BY <3>2
    <3>4. g[i] = [h[i] EXCEPT !.deploymentRecord = r]
      BY <1>1, <2>2 DEF WithRecords
    <3>5. r \in new /\ r \in DeploymentRecords
      BY <1>3, <3>3
    <3> HIDE DEF r, new
    <3> QED BY <1>5, <3>4, <3>5 DEF RecordedEntriesOf, EntriesOf, Promoted
  <2> QED BY <2>1, <2>2
<1>7. /\ DOMAIN g = 1 .. Len(h) /\ Len(g) = Len(h) /\ g \in Seq(E(rs \cup new))
  <2>1. g = [i \in 1 .. Len(h) |-> g[i]]
    BY <1>1 DEF WithRecords
  <2> HIDE DEF g, new
  <2>2. g \in [1 .. Len(h) -> E(rs \cup new)]
    BY <1>6, <2>1
  <2> HIDE DEF E
  <2> QED BY <1>1, <2>2, FunctionIsSeq
<1> HIDE DEF g, todo
<1>8. OnlyNewestRuns(g)
  BY <1>1, <1>6, <1>7 DEF OnlyNewestRuns
<1> QED
  BY <1>4, <1>7, <1>8 DEF GoodHistory, g, todo

\* What a pass makes of what Argo CD reports.
LEMMA ReportGood ==
  ASSUME TypeOK, pass \in PassStates, GoodHistory(pass.history, records),
         IsDeployed(pass.history), NEW state, Report(state)
  PROVE  /\ pass' \in PassStates
         /\ pass'.base = pass.base
         /\ pass'.step \in {"Report", "Patch"}
         /\ GoodHistory(pass'.history, records)
<1> DEFINE p == Deployed(pass.history).preparation
           o == ObservationOf(state, p)
           h == Observe(pass.history, o.revision, o.health, now)
<1>1. p \in Preps /\ now \in Nat \ {Never}
  BY GoodDeployed DEF TypeOK
<1>2. GoodHistory(h, records) /\ h \in Seq(Entries)
  BY <1>1, ObserveGood, GoodType
<1>3. pass' = [pass EXCEPT
         !.history = h,
         !.running = IF o.health = "Healthy" THEN p ELSE NoPrep,
         !.requeue = pass.requeue \/ h # pass.history,
         !.step    = IF h = pass.history /\ Unrecorded(h) # {}
                     THEN "Report" ELSE "Patch"]
  BY DEF Report
<1> HIDE DEF h, o, p
<1> QED
  BY <1>1, <1>2, <1>3 DEF PassStates

-----------------------------------------------------------------------------
(* Every step keeps the inductive invariant.                               *)

\* What a pass that is not idle is.
LEMMA InPass ==
  ASSUME Inductive, pass.step # "Idle"
  PROVE  /\ pass \in PassStates
         /\ GoodHistory(pass.base.history, records)
         /\ GoodHistory(pass.history, records)
BY DEF Inductive, TypeOK, Idle

\* A step of a pass that changes nothing but the pass and the Application.
LEMMA PassStep ==
  ASSUME Inductive, UNCHANGED <<now, order, gates, site, objVars, records>>,
         edits' \in Nat, queued' \in BOOLEAN, timer' \in BOOLEAN,
         pass' \in PassStates, pass'.base = pass.base, pass.step # "Idle",
         GoodHistory(pass'.history, records),
         pass'.step = "Push" => HasPending(pass'.history),
         {app', seenApp'} \subseteq Apps, appFresh' \in BOOLEAN,
         app' # NoApp => PromotionRecorded(app'.at)
  PROVE  Inductive'
<1>1. GoodHistory(pass.base.history, records)
  BY InPass
<1>2. TypeOK'
  BY DEF Inductive, TypeOK, objVars
<1> QED
  BY <1>1, <1>2 DEF Inductive, objVars, RecordsChain, PromotionRecorded

\* Reconcile takes its copy of the Serving from the cache, whose history is
\* good; a pass that starts pushes nothing yet.
LEMMA StartPassInductive ==
  ASSUME Inductive, StartPass
  PROVE  Inductive'
<1>1. seen \in Servings /\ GoodHistory(seen.history, records)
  BY DEF Inductive, TypeOK
<1>2. /\ pass' \in PassStates \cup {Idle}
      /\ pass' # Idle => /\ pass'.base = seen
                         /\ pass'.history = seen.history
      /\ pass'.step # "Push"
  BY <1>1 DEF StartPass, PassStates, Servings, Idle, Inductive, TypeOK, Orders
<1>3. TypeOK'
  BY <1>2 DEF StartPass, Inductive, TypeOK, world, appVars, objVars
<1> QED
  BY <1>1, <1>2, <1>3
     DEF StartPass, Inductive, world, appVars, objVars, RecordsChain, PromotionRecorded

\* The first half of reconcileServing drops, opens or keeps an entry, and
\* pushes only what is pending.
LEMMA PromoteInductive ==
  ASSUME Inductive, Promote
  PROVE  Inductive'
<1> DEFINE p == Candidate(pass.base.wanted)
<1>1. /\ pass.step # "Idle" /\ pass \in PassStates
      /\ GoodHistory(pass.history, records) /\ pass.history \in Seq(Entries)
  BY InPass, GoodType DEF Promote
<1>2. p \in Preps \cup {NoPrep}
  BY <1>1, CandidateType DEF PassStates, Servings, Inductive
<1>3. /\ GoodHistory(Drop(pass.history), records)
      /\ Drop(pass.history) \in Seq(Entries)
  BY <1>1, DropGood, GoodType
<1>4. p \in Preps => /\ GoodHistory(Open(pass.history, p, now), records)
                     /\ Open(pass.history, p, now) \in Seq(Entries)
  BY <1>1, OpenGood, GoodType DEF Inductive, TypeOK
<1>5. order \in Orders
  BY DEF Inductive, TypeOK
<1>6. /\ pass' \in PassStates /\ pass'.base = pass.base
      /\ GoodHistory(pass'.history, records)
      /\ pass'.step = "Push" => HasPending(pass'.history)
  <2>1. CASE PromoteNothing
    BY <1>1, <1>3, <1>5, <2>1 DEF PromoteNothing, PassStates
  <2>2. CASE p # NoPrep /\ HoldBeforeTarget(p)
    BY <1>1, <1>3, <1>5, <2>2 DEF HoldBeforeTarget, PassStates
  <2>3. CASE p # NoPrep /\ HoldTarget(p)
    BY <1>1, <1>2, <1>3, <1>5, <2>3 DEF HoldTarget, PassStates
  <2>4. CASE p # NoPrep /\ OpenPromotion(p)
    BY <1>1, <1>2, <1>4, <1>5, <2>4 DEF OpenPromotion, PassStates
  <2>5. CASE p # NoPrep /\ DecideToRecord(p)
    <3>1. HasPending(pass.history)
      BY <2>5 DEF DecideToRecord, NextStep
    <3> QED BY <1>1, <1>2, <1>5, <2>5, <3>1 DEF DecideToRecord, PassStates
  <2> QED BY <2>1, <2>2, <2>3, <2>4, <2>5 DEF Promote
<1> QED
  BY <1>1, <1>6, PassStep
     DEF Promote, world, appVars, Inductive, TypeOK, PromotionRecorded

\* A read that fails leaves the history the pass holds as it was.
LEMMA PromoteFailsInductive ==
  ASSUME Inductive, PromoteFails
  PROVE  Inductive'
<1>1. /\ pass.step # "Idle" /\ pass \in PassStates
      /\ GoodHistory(pass.history, records)
  BY InPass DEF PromoteFails
<1>2. /\ pass' \in PassStates /\ pass'.base = pass.base
      /\ pass'.history = pass.history /\ pass'.step = "Deploy"
  BY <1>1 DEF PromoteFails, PassStates, Orders, Inductive, TypeOK
<1> QED
  BY <1>1, <1>2, PassStep
     DEF PromoteFails, Failure, appVars, Inductive, TypeOK, PromotionRecorded

\* A push adds records; what was recorded stays so.
LEMMA RecordStep ==
  ASSUME Inductive, UNCHANGED <<now, order, gates, site, appVars, objVars>>,
         edits' \in Nat, queued' \in BOOLEAN, timer' \in BOOLEAN,
         pass' \in PassStates, pass'.base = pass.base, pass.step # "Idle",
         records \subseteq records',
         records' \subseteq PromotionRecords \cup DeploymentRecords,
         \A r \in records' \ records : r.kind = "Deployment" => r.promotion \in records,
         GoodHistory(pass'.history, records'),
         pass'.step # "Push"
  PROVE  Inductive'
<1>1. /\ GoodHistory(pass.base.history, records')
      /\ GoodHistory(serving.history, records')
      /\ GoodHistory(seen.history, records')
  BY InPass, GoodGrows DEF Inductive
<1>2. TypeOK'
  BY DEF Inductive, TypeOK, appVars, objVars
<1>3. RecordsChain'
  BY DEF Inductive, RecordsChain
<1>4. (app # NoApp => PromotionRecorded(app.at))'
  BY DEF Inductive, PromotionRecorded, appVars
<1> QED
  BY <1>1, <1>2, <1>3, <1>4 DEF Inductive, objVars

\* The record of the pending entry is in the registry when the entry starts
\* (recordPromotion, History.Start).
LEMMA PushPromotionInductive ==
  ASSUME Inductive, PushPromotion
  PROVE  Inductive'
<1> DEFINE r == PromotionRecord(pass.history[1], pass.mode, PreviousOf(pass.history))
<1>1. /\ pass.step # "Idle" /\ pass \in PassStates
      /\ GoodHistory(pass.history, records)
      /\ HasPending(pass.history) /\ pass.mode \in Orders
  BY InPass DEF PushPromotion, Inductive, PassStates
<1>2. r \in PromotionRecords /\ GoodHistory(Start(pass.history, r), records \cup {r})
  BY <1>1, PushGood
<1>3. Start(pass.history, r) \in Seq(Entries)
  BY <1>2, GoodType
<1>4. /\ records' = records \cup {r}
      /\ pass' = [pass EXCEPT !.history = Start(pass.history, r),
                              !.target = pass.target, !.step = "Deploy"]
  BY DEF PushPromotion, Settle
<1>5. r.kind # "Deployment"
  BY <1>2 DEF PromotionRecords
<1> HIDE DEF r
<1>6. pass' \in PassStates /\ pass'.base = pass.base /\ pass'.step = "Deploy"
  BY <1>1, <1>3, <1>4 DEF PassStates
<1>7. GoodHistory(pass'.history, records')
  BY <1>1, <1>2, <1>4 DEF PassStates
<1>8. records \subseteq PromotionRecords \cup DeploymentRecords
  BY DEF Inductive, TypeOK
<1> QED
  BY <1>1, <1>2, <1>4, <1>5, <1>6, <1>7, <1>8, RecordStep
     DEF PushPromotion, world, Inductive, TypeOK

\* A push that fails, or whose answer is lost, may add the record and starts
\* nothing.
LEMMA PushPromotionFailsInductive ==
  ASSUME Inductive, PushPromotionFails
  PROVE  Inductive'
<1> DEFINE r == PromotionRecord(pass.history[1], pass.mode, PreviousOf(pass.history))
<1>1. /\ pass.step # "Idle" /\ pass \in PassStates
      /\ GoodHistory(pass.history, records)
      /\ HasPending(pass.history) /\ pass.mode \in Orders
  BY InPass DEF PushPromotionFails, Inductive, PassStates
<1>2. r \in PromotionRecords
  BY <1>1, PushGood
<1>3. r.kind # "Deployment"
  BY <1>2 DEF PromotionRecords
<1>4. /\ records' = records \/ records' = records \cup {r}
      /\ pass' = [pass EXCEPT !.requeue = TRUE, !.step = "Deploy"]
  BY DEF PushPromotionFails
<1> HIDE DEF r
<1>5. /\ pass' \in PassStates /\ pass'.base = pass.base /\ pass'.step = "Deploy"
      /\ pass'.history = pass.history
  BY <1>1, <1>4 DEF PassStates
<1>6. GoodHistory(pass'.history, records')
  BY <1>1, <1>4, <1>5, GoodGrows
<1>7. records \subseteq PromotionRecords \cup DeploymentRecords
  BY DEF Inductive, TypeOK
<1> QED
  BY <1>1, <1>2, <1>3, <1>4, <1>5, <1>6, <1>7, RecordStep
     DEF PushPromotionFails, Failure, Inductive, TypeOK

\* The deployments that get a record have it in the registry, and what they
\* record is a promotion the registry holds (recordDeployments).
LEMMA RecordDeploymentsInductive ==
  ASSUME Inductive, RecordDeployments \/ RecordDeploymentsFails
  PROVE  Inductive'
<1> DEFINE todo == ToRecord(pass.history)
           new  == {RecordOf(pass.history[i]) : i \in todo}
           h    == WithRecords(pass.history, todo)
<1>1. /\ pass.step # "Idle" /\ pass \in PassStates
      /\ GoodHistory(pass.history, records)
  BY InPass DEF RecordDeployments, RecordDeploymentsFails
<1>2. /\ new \subseteq DeploymentRecords
      /\ \A r \in new : r.promotion \in records
      /\ GoodHistory(h, records \cup new)
  BY <1>1, RecordsGood
<1>3. h \in Seq(Entries)
  BY <1>2, GoodType
<1>4. records \subseteq PromotionRecords \cup DeploymentRecords
  BY DEF Inductive, TypeOK
<1>5. CASE RecordDeployments
  <2>1. /\ records' = records \cup new
        /\ pass' = [pass EXCEPT !.history = h, !.target = pass.target, !.step = "Patch"]
    BY <1>5 DEF RecordDeployments, Settle
  <2> HIDE DEF new, h
  <2>2. /\ pass' \in PassStates /\ pass'.base = pass.base /\ pass'.step = "Patch"
        /\ GoodHistory(pass'.history, records')
    BY <1>1, <1>2, <1>3, <2>1 DEF PassStates
  <2> QED BY <1>1, <1>2, <1>4, <1>5, <2>1, <2>2, RecordStep
             DEF RecordDeployments, world, Inductive, TypeOK
<1>6. CASE RecordDeploymentsFails
  <2>1. PICK k \in DOMAIN pass.history :
          records' = records \cup {RecordOf(pass.history[i]) : i \in {j \in todo : j < k}}
    BY <1>6 DEF RecordDeploymentsFails
  <2>2. records \subseteq records' /\ records' \subseteq records \cup new
    BY <2>1
  <2>3. pass' = [pass EXCEPT !.requeue = TRUE, !.step = "Patch"]
    BY <1>6 DEF RecordDeploymentsFails
  <2> HIDE DEF new, h
  <2>4. /\ pass' \in PassStates /\ pass'.base = pass.base /\ pass'.step = "Patch"
        /\ pass'.history = pass.history
    BY <1>1, <2>3 DEF PassStates
  <2>5. GoodHistory(pass'.history, records')
    BY <1>1, <2>2, <2>4, GoodGrows
  <2> QED BY <1>1, <1>2, <1>4, <1>6, <2>2, <2>4, <2>5, RecordStep
             DEF RecordDeploymentsFails, Failure, Inductive, TypeOK
<1> QED
  BY <1>5, <1>6

\* Removing the Application leaves none, or the one there is.
LEMMA RemoveGood ==
  ASSUME Inductive, pass \in PassStates, NEW step \in {"Patch", "Finalize"},
         RemoveApplication(step)
  PROVE  /\ pass' \in PassStates /\ pass'.base = pass.base
         /\ pass'.history = pass.history /\ pass'.step # "Push"
         /\ {app', seenApp'} \subseteq Apps /\ appFresh' \in BOOLEAN
         /\ app' = app \/ app' = NoApp
<1>1. \/ pass' = [pass EXCEPT !.step = step]
      \/ pass' = [pass EXCEPT !.requeue = TRUE, !.step = "Patch"]
  BY DEF RemoveApplication, Continue
<1>2. /\ pass' \in PassStates /\ pass'.base = pass.base
      /\ pass'.history = pass.history /\ pass'.step # "Push"
  BY <1>1 DEF PassStates
<1>3. {app, seenApp} \subseteq Apps /\ appFresh \in BOOLEAN
  BY DEF Inductive, TypeOK
<1>4. /\ seenApp' = seenApp /\ appFresh' \in BOOLEAN
      /\ app' = app \/ app' = NoApp
  BY <1>3 DEF RemoveApplication, appVars
<1>5. NoApp \in Apps
  BY DEF Apps, NoApp, Healths
<1> QED
  BY <1>2, <1>3, <1>4, <1>5

\* The Application is pointed at what is deployed, which is recorded.
LEMMA ApplyGood ==
  ASSUME Inductive, pass.step # "Idle", IsDeployed(pass.history),
         Apply(Deployed(pass.history).preparation)
  PROVE  /\ pass' \in PassStates /\ pass'.base = pass.base
         /\ GoodHistory(pass'.history, records) /\ pass'.step # "Push"
         /\ {app', seenApp'} \subseteq Apps /\ appFresh' \in BOOLEAN
         /\ app' # NoApp => PromotionRecorded(app'.at)
<1> DEFINE p == Deployed(pass.history).preparation
           created == [NoApp EXCEPT !.at = p]
           updated == [app EXCEPT !.at = p]
<1>1. pass \in PassStates /\ GoodHistory(pass.history, records) /\ TypeOK
  BY InPass DEF Inductive
<1>2. p \in Preps /\ PromotionRecorded(p)
  BY <1>1, GoodDeployed DEF PromotionRecorded
<1>3. \/ \E state : Report(state)
      \/ pass' = [pass EXCEPT !.requeue = TRUE, !.step = "Patch"]
  BY DEF Apply
<1>4. /\ pass' \in PassStates /\ pass'.base = pass.base
      /\ GoodHistory(pass'.history, records) /\ pass'.step # "Push"
  <2>1. CASE \E state : Report(state)
    BY <1>1, <2>1, ReportGood
  <2>2. CASE pass' = [pass EXCEPT !.requeue = TRUE, !.step = "Patch"]
    BY <1>1, <2>2 DEF PassStates
  <2> QED BY <1>3, <2>1, <2>2
<1>5. /\ seenApp' = seenApp /\ appFresh' \in BOOLEAN
      /\ app' \in {app, created, updated}
  BY <1>1 DEF Apply, appVars, TypeOK
<1> HIDE DEF p
<1>6. /\ created \in Apps /\ created.at = p
      /\ updated \in Apps /\ updated.at = p
  BY <1>1, <1>2 DEF TypeOK, Apps, NoApp, Healths
<1> HIDE DEF created, updated
<1> QED
  BY <1>1, <1>2, <1>4, <1>5, <1>6 DEF Inductive, TypeOK

\* deploy points the Application only at the deployed Preparation, which has
\* its record, and observes it.
LEMMA DeployInductive ==
  ASSUME Inductive, Deploy
  PROVE  Inductive'
<1>1. /\ pass.step # "Idle" /\ pass \in PassStates /\ TypeOK
      /\ GoodHistory(pass.history, records)
  BY InPass DEF Deploy, Inductive
<1>2. /\ pass' \in PassStates /\ pass'.base = pass.base
      /\ GoodHistory(pass'.history, records) /\ pass'.step # "Push"
      /\ {app', seenApp'} \subseteq Apps /\ appFresh' \in BOOLEAN
      /\ app' # NoApp => PromotionRecorded(app'.at)
  <2>1. CASE ~HasDeployment /\ Continue("Patch") /\ UNCHANGED appVars
    BY <1>1, <2>1 DEF Continue, PassStates, appVars, Inductive, TypeOK
  <2>2. CASE HasDeployment /\ RemoveApplication("Patch")
    BY <1>1, <2>2, RemoveGood DEF Inductive
  <2>3. CASE HasDeployment /\ Report(NothingObserved) /\ UNCHANGED appVars
    BY <1>1, <2>3, ReportGood DEF HasDeployment, appVars, Inductive, TypeOK
  <2>4. CASE HasDeployment /\ Apply(Deployed(pass.history).preparation)
    BY <1>1, <2>4, ApplyGood DEF HasDeployment
  <2> QED BY <2>1, <2>2, <2>3, <2>4 DEF Deploy
<1>3. PromotionRecorded(app'.at) => PromotionRecorded(app.at)'
  BY DEF Deploy, PromotionRecorded
<1> QED
  BY <1>1, <1>2, <1>3, PassStep DEF Deploy, world, objVars, TypeOK

\* A deployment whose answer is lost may have updated the Application, to the
\* deployed Preparation still.
LEMMA DeployFailsInductive ==
  ASSUME Inductive, DeployFails
  PROVE  Inductive'
<1> DEFINE p == Deployed(pass.history).preparation
<1>1. /\ pass.step # "Idle" /\ pass \in PassStates /\ TypeOK
      /\ GoodHistory(pass.history, records)
  BY InPass DEF DeployFails, Inductive
<1>2. p \in Preps /\ PromotionRecorded(p)
  BY <1>1, GoodDeployed DEF DeployFails, HasDeployment, PromotionRecorded
<1>3. /\ pass' \in PassStates /\ pass'.base = pass.base
      /\ pass'.history = pass.history /\ pass'.step # "Push"
  BY <1>1 DEF DeployFails, PassStates
<1>4. /\ seenApp' = seenApp /\ appFresh' \in BOOLEAN
      /\ app' = app \/ app' = [app EXCEPT !.at = p]
  BY <1>1 DEF DeployFails, appVars, TypeOK
<1> HIDE DEF p
<1>5. [app EXCEPT !.at = p] \in Apps /\ [app EXCEPT !.at = p].at = p
  BY <1>1, <1>2 DEF TypeOK, Apps
<1>6. /\ {app', seenApp'} \subseteq Apps
      /\ app' # NoApp => PromotionRecorded(app'.at)
  BY <1>1, <1>2, <1>4, <1>5 DEF Inductive, TypeOK
<1> QED
  BY <1>1, <1>3, <1>4, <1>6, PassStep DEF DeployFails, Failure, objVars, TypeOK

\* Removing the Application (argoCD.Remove) leaves histories and records.
LEMMA RemoveInductive ==
  ASSUME Inductive, Remove
  PROVE  Inductive'
<1>1. /\ pass.step # "Idle" /\ pass \in PassStates
      /\ GoodHistory(pass.history, records)
  BY InPass DEF Remove
<1>2. /\ pass' \in PassStates /\ pass'.base = pass.base
      /\ pass'.history = pass.history /\ pass'.step # "Push"
      /\ {app', seenApp'} \subseteq Apps /\ appFresh' \in BOOLEAN
      /\ app' = app \/ app' = NoApp
  BY <1>1, RemoveGood DEF Remove
<1>3. app' # NoApp => PromotionRecorded(app'.at)
  BY <1>2 DEF Inductive
<1> QED
  BY <1>1, <1>2, <1>3, PassStep DEF Remove, world, objVars, Inductive, TypeOK

\* Removing the finalizer leaves histories and records.
LEMMA FinalizeInductive ==
  ASSUME Inductive, Finalize
  PROVE  Inductive'
<1>1. [serving EXCEPT !.life = "Gone"] \in Servings
  BY DEF Inductive, TypeOK, Servings
<1>2. /\ serving' \in Servings /\ serving'.history = serving.history
      /\ seenFresh' \in BOOLEAN /\ timer' \in BOOLEAN
  BY <1>1 DEF Finalize, Inductive, TypeOK, Servings
<1>3. TypeOK'
  BY <1>2 DEF Finalize, Inductive, TypeOK, world, appVars
<1> QED
  BY <1>2, <1>3
     DEF Finalize, Idle, Inductive, world, appVars, RecordsChain, PromotionRecorded

\* What patchStatus writes is the history the pass holds, which is good.
LEMMA PatchStatusInductive ==
  ASSUME Inductive, PatchStatus
  PROVE  Inductive'
<1>1. /\ pass \in PassStates /\ GoodHistory(pass.history, records)
      /\ pass.history \in Seq(Entries)
  BY InPass, GoodType DEF PatchStatus
<1>2. [serving EXCEPT !.history = pass.history, !.target = pass.target] \in Servings
  BY <1>1 DEF Inductive, TypeOK, Servings, PassStates
<1>3. /\ serving' \in Servings /\ GoodHistory(serving'.history, records)
      /\ seenFresh' \in BOOLEAN /\ timer' \in BOOLEAN
  BY <1>1, <1>2 DEF PatchStatus, Inductive, TypeOK, Servings, PassStates
<1>4. TypeOK'
  BY <1>3 DEF PatchStatus, Inductive, TypeOK, world, appVars
<1> QED
  BY <1>3, <1>4
     DEF PatchStatus, Idle, Inductive, world, appVars, RecordsChain, PromotionRecorded

\* A write the API server fails changes nothing that is stored.
LEMMA PatchStatusFailsInductive ==
  ASSUME Inductive, PatchStatusFails
  PROVE  Inductive'
<1>1. TypeOK'
  BY DEF PatchStatusFails, Failure, Inductive, TypeOK, appVars, objVars
<1> QED
  BY <1>1 DEF PatchStatusFails, Idle, Inductive, appVars, objVars, RecordsChain, PromotionRecorded

\* A delayed retry only queues the Serving.
LEMMA RequeueInductive ==
  ASSUME Inductive, Requeue
  PROVE  Inductive'
<1>1. TypeOK'
  BY DEF Requeue, Inductive, TypeOK, world, appVars, objVars
<1> QED
  BY <1>1 DEF Requeue, Inductive, appVars, objVars, RecordsChain, PromotionRecorded

\* A manager that starts again holds nothing but what the API server has.
LEMMA CrashInductive ==
  ASSUME Inductive, Crash
  PROVE  Inductive'
<1>1. /\ {app', seenApp'} \subseteq Apps /\ {serving', seen'} \subseteq Servings
      /\ edits' \in Nat
  BY DEF Crash, Inductive, TypeOK
<1>2. /\ pass' = Idle /\ {queued', timer', appFresh', seenFresh'} \subseteq BOOLEAN
      /\ UNCHANGED <<now, order, gates, site, records>>
  BY DEF Crash
<1>3. TypeOK'
  BY <1>1, <1>2 DEF Inductive, TypeOK
<1> QED
  BY <1>3 DEF Crash, Idle, Inductive, RecordsChain, PromotionRecorded

\* The informers copy what the API server has, and so what is good.
LEMMA InformersInductive ==
  ASSUME Inductive, Informers
  PROVE  Inductive'
<1>1. CASE SyncServing
  <2>1. TypeOK'
    BY <1>1 DEF SyncServing, Inductive, TypeOK, world, appVars
  <2> QED BY <1>1, <2>1 DEF SyncServing, Inductive, appVars, RecordsChain, PromotionRecorded
<1>2. CASE SyncApplication
  <2>1. TypeOK'
    BY <1>2 DEF SyncApplication, Inductive, TypeOK, world, objVars
  <2> QED BY <1>2, <2>1 DEF SyncApplication, Inductive, objVars, RecordsChain, PromotionRecorded
<1> QED
  BY <1>1, <1>2 DEF Informers

\* Argo CD never changes what the Application points at.
LEMMA ArgoInductive ==
  ASSUME Inductive, ArgoCD
  PROVE  Inductive'
<1>1. PICK a : ArgoReports(a) /\ a \in Apps /\ a.at = app.at /\ app # NoApp
  <2>1. app \in Apps
    BY DEF Inductive, TypeOK
  <2>2. app.live # NoRevision => app # NoApp
    BY DEF NoApp
  <2>3. /\ [app EXCEPT !.compared = app.at] \in Apps
        /\ [app EXCEPT !.live = app.compared, !.health = "Progressing"] \in Apps
        /\ [app EXCEPT !.health = "Healthy"] \in Apps
        /\ [app EXCEPT !.health = "Degraded"] \in Apps
    BY <2>1 DEF Apps, Healths
  <2>4. CASE ArgoCompares
    BY <2>1, <2>3, <2>4 DEF ArgoCompares, Apps
  <2>5. CASE ArgoSyncs
    BY <2>1, <2>3, <2>5 DEF ArgoSyncs, Apps
  <2>6. CASE ArgoTurnsHealthy
    BY <2>1, <2>2, <2>3, <2>6 DEF ArgoTurnsHealthy, Apps
  <2>7. CASE ArgoTurnsDegraded
    BY <2>1, <2>2, <2>3, <2>7 DEF ArgoTurnsDegraded, Apps
  <2> QED BY <2>4, <2>5, <2>6, <2>7 DEF ArgoCD
<1>2. edits' \in Nat
  BY DEF ArgoCD, ArgoCompares, ArgoSyncs, ArgoTurnsHealthy, ArgoTurnsDegraded,
         Inductive, TypeOK
<1>3. TypeOK'
  BY <1>1, <1>2 DEF ArgoReports, Inductive, TypeOK, objVars
<1> QED
  BY <1>1, <1>3 DEF ArgoReports, Inductive, objVars, RecordsChain, PromotionRecorded

\* Time passes.
LEMMA TickInductive ==
  ASSUME Inductive, Tick
  PROVE  Inductive'
<1>1. TypeOK'
  BY DEF Tick, Inductive, TypeOK, Never, appVars, objVars
<1> QED
  BY <1>1 DEF Tick, Inductive, appVars, objVars, RecordsChain, PromotionRecorded

\* Users and other controllers change gates, the Order, the cluster and the
\* spec of the Serving, never its history.
LEMMA EnvironmentInductive ==
  ASSUME Inductive, Environment
  PROVE  Inductive'
<1>1. /\ UNCHANGED <<now, app, seenApp, appFresh, records, timer, seen>>
      /\ edits' \in Nat
  BY DEF Environment, ChangeOrder, ChangeGate, ChangeSite, ChangeWanted,
         DeleteServing, Edit, appVars, objVars, Inductive, TypeOK
<1>2. order' \in Orders /\ site' \in Sites /\ queued' \in BOOLEAN
  BY DEF Environment, ChangeOrder, ChangeGate, ChangeSite, ChangeWanted,
         DeleteServing, Inductive, TypeOK
<1>3. gates' \in [Preps -> SUBSET Gates]
  <2>1. gates \in [Preps -> SUBSET Gates]
    BY DEF Inductive, TypeOK
  <2>2. CASE ChangeGate
    <3>1. PICK p \in Preps, gate \in Gates :
            gates' = [gates EXCEPT ![p] =
                        IF gate \in @ THEN @ \ {gate} ELSE @ \cup {gate}]
      BY <2>2 DEF ChangeGate
    <3> QED BY <2>1, <3>1
  <2>3. CASE ~ChangeGate
    BY <2>1, <2>3
       DEF Environment, ChangeOrder, ChangeSite, ChangeWanted, DeleteServing
  <2> QED BY <2>2, <2>3
<1>4. serving' \in Servings /\ serving'.history = serving.history
  <2>1. serving \in Servings
    BY DEF Inductive, TypeOK
  <2>2. \A p \in Preps : /\ [serving EXCEPT !.wanted = p] \in Servings
                         /\ [serving EXCEPT !.wanted = p].history = serving.history
    BY <2>1 DEF Servings
  <2>3. /\ [serving EXCEPT !.life = "Deleting"] \in Servings
        /\ [serving EXCEPT !.life = "Deleting"].history = serving.history
    BY <2>1 DEF Servings
  <2>4. \/ serving' = serving
        \/ \E p \in Preps : serving' = [serving EXCEPT !.wanted = p]
        \/ serving' = [serving EXCEPT !.life = "Deleting"]
    BY DEF Environment, ChangeOrder, ChangeGate, ChangeSite, ChangeWanted,
           DeleteServing, objVars
  <2> QED BY <2>1, <2>2, <2>3, <2>4
<1>4a. /\ seenFresh' \in BOOLEAN
       /\ pass' = pass \/ (pass.step # "Idle" /\ pass' = [pass EXCEPT !.fresh = FALSE])
  <2>1. seenFresh \in BOOLEAN
    BY DEF Inductive, TypeOK
  <2>2. CASE Outdate
    BY <2>2 DEF Outdate
  <2>3. CASE UNCHANGED <<seenFresh, pass>>
    BY <2>1, <2>3
  <2>4. Outdate \/ UNCHANGED <<seenFresh, pass>>
    BY DEF Environment, ChangeOrder, ChangeGate, ChangeSite, ChangeWanted,
           DeleteServing, objVars
  <2> QED BY <2>2, <2>3, <2>4
<1>5. /\ pass' \in PassStates \cup {Idle}
      /\ pass' # Idle => /\ pass # Idle /\ pass'.base = pass.base
                         /\ pass'.history = pass.history
                         /\ pass'.step = pass.step
      /\ pass' = Idle => pass = Idle
  <2>1. pass.step # "Idle" => pass \in PassStates /\ pass # Idle
    BY DEF Inductive, TypeOK, Idle
  <2> QED BY <1>4a, <2>1 DEF Inductive, TypeOK, PassStates, Idle
<1>6. TypeOK'
  BY <1>1, <1>2, <1>3, <1>4, <1>4a, <1>5 DEF Inductive, TypeOK
<1> QED
  BY <1>1, <1>4, <1>5, <1>6
     DEF Inductive, Idle, RecordsChain, PromotionRecorded

-----------------------------------------------------------------------------
(* The theorems.                                                           *)

\* A new Serving has no history, no Application and no records.
LEMMA InitInductive == Init => Inductive
<1> SUFFICES ASSUME Init PROVE Inductive
  OBVIOUS
<1>1. serving \in Servings /\ serving.history = << >>
  <2>1. << >> \in Seq(Entries)
    OBVIOUS
  <2> QED BY <2>1 DEF Init, Servings
<1>2. NoApp \in Apps
  BY DEF NoApp, Apps, Healths
<1>3. GoodHistory(<< >>, {})
  BY MaxEntriesAssumption DEF GoodHistory, OnlyNewestRuns
<1>4. TypeOK
  <2>1. gates \in [Preps -> SUBSET Gates]
    BY DEF Init
  <2>2. order \in Orders /\ site \in Sites /\ now \in Nat \ {Never}
    BY DEF Init, Orders, Sites, Never
  <2>3. {serving, seen} \subseteq Servings /\ {app, seenApp} \subseteq Apps
    BY <1>1, <1>2 DEF Init
  <2> QED BY <2>1, <2>2, <2>3 DEF Init, TypeOK
<1> QED
  BY <1>1, <1>3, <1>4 DEF Init, Inductive, Idle, RecordsChain

\* The invariant is kept by every step, one lemma above for each action.
LEMMA NextInductive == Inductive /\ [Next]_vars => Inductive'
<1> SUFFICES ASSUME Inductive, [Next]_vars PROVE Inductive'
  OBVIOUS
<1>1. CASE UNCHANGED vars
  BY <1>1 DEF vars, world, appVars, objVars, Inductive, TypeOK, RecordsChain,
              PromotionRecorded
<1>2. CASE Pass
  BY <1>2, StartPassInductive, PromoteInductive, PushPromotionInductive,
     DeployInductive, RecordDeploymentsInductive, RemoveInductive,
     FinalizeInductive, PatchStatusInductive DEF Pass
<1>3. CASE Failures
  BY <1>3, PromoteFailsInductive, PushPromotionFailsInductive,
     DeployFailsInductive, RecordDeploymentsInductive,
     PatchStatusFailsInductive, CrashInductive DEF Failures
<1> QED
  BY <1>1, <1>2, <1>3, RequeueInductive, InformersInductive, ArgoInductive,
     TickInductive, EnvironmentInductive DEF Next, Reconcile

\* The invariant the theorems below follow from.
THEOREM InductiveHolds == Spec => []Inductive
BY InitInductive, NextInductive, PTL DEF Spec

\* Every variable has its type.
THEOREM TypeCorrect == Spec => []TypeOK
<1>1. Inductive => TypeOK
  BY DEF Inductive
<1> QED BY <1>1, InductiveHolds, PTL

\* The history of the status keeps its shape (history.go:67-69): only the
\* first entry is pending, and nothing below the deployed one still runs.
THEOREM HistoryShape == Spec => []HistoryInv
<1>1. Inductive => HistoryInv
  BY DEF Inductive, GoodHistory, HistoryInv
<1> QED BY <1>1, InductiveHolds, PTL

\* What the Application points at and what the history says was promoted or
\* deployed is in the registry (serving_controller.go:284).
THEOREM RegistryFirst == Spec => []RecordedFirst
<1>1. ASSUME Inductive PROVE RecordedFirst
  <2> DEFINE E == RecordedEntriesOf(Preps, records \cap PromotionRecords,
                                    records \cap DeploymentRecords)
  <2>1. \A i \in DOMAIN serving.history : serving.history[i] \in E
    BY <1>1 DEF Inductive, GoodHistory
  <2>2. \A e \in E : {e.promotionRecord, e.deploymentRecord} \subseteq records \cup {NoRecord}
    BY DEF RecordedEntriesOf, EntriesOf
  <2> HIDE DEF E
  <2> QED BY <1>1, <2>1, <2>2 DEF Inductive, RecordedFirst
<1> QED BY <1>1, InductiveHolds, PTL

\* A deployment record names a promotion record the registry holds.
THEOREM ChainHolds == Spec => []RecordsChain
<1>1. Inductive => RecordsChain
  BY DEF Inductive
<1> QED BY <1>1, InductiveHolds, PTL

-----------------------------------------------------------------------------
(***************************************************************************)
(* The Serving controller implements module Promotion.  A status write is  *)
(* locked to the version the pass read, so all there is to show is that    *)
(* what a pass makes of the history it read is one step of a promotion, or *)
(* none, whatever it read it from and whatever happened since.             *)
(***************************************************************************)

\* What a pass that read the history b may hold: no step, or one step of
\* module Promotion.
Follows(b, h) ==
  \/ /\ DeployedPromotion(h) = DeployedPromotion(b)
     /\ \/ PendingPromotion(h) = PendingPromotion(b)
        \/ PendingPromotion(h) = NoRecord
        \/ /\ PendingPromotion(h) \in Promises!Promotions
           /\ DeployedPromotion(b) # NoRecord =>
                PendingPromotion(h).started >= DeployedPromotion(b).started
  \/ /\ HasPending(b) /\ IsDeployed(h)
     /\ DeployedPromotion(h) = PendingPromotion(b)
     /\ PendingPromotion(h) = NoRecord

\* The invariant behind the refinement: a copy that is fresh is what the API
\* server holds, a pass keeps to one step of a promotion, and nothing is
\* pending or recorded ahead of the clock.
Copies ==
  /\ seenFresh => seen = serving
  /\ pass.step # "Idle" =>
       /\ pass.fresh => pass.base = serving
       /\ Follows(pass.base.history, pass.history)
       /\ pass.step \in {"Promote", "Push"} => pass.history = pass.base.history
       /\ HasPending(pass.history) => pass.history[1].started <= now
  /\ HasPending(serving.history) => serving.history[1].started <= now
  /\ HasPending(seen.history) => seen.history[1].started <= now
  /\ \A r \in records : r.kind = "Promotion" => r.started \in 1 .. now

-----------------------------------------------------------------------------
(* What the methods of a history make of its two promotions.               *)

\* Where the deployed entry is: first, or second while one is pending.
LEMMA DeployedAt ==
  ASSUME NEW rs, NEW h, GoodHistory(h, rs)
  PROVE  LET k == IF HasPending(h) THEN 2 ELSE 1
         IN  /\ IsDeployed(h) <=> k \in DOMAIN h
             /\ IsDeployed(h) => Deployed(h) = h[k]
<1>1. /\ IsDeployed(h) => DeployedIndex(h) \in Promotions(h)
      /\ IsDeployed(h) /\ ~HasPending(h) => DeployedIndex(h) = 1
      /\ IsDeployed(h) /\ HasPending(h) => DeployedIndex(h) = 2
  BY DeployedIndexIs DEF GoodHistory
<1>2. DOMAIN h = 1 .. Len(h) /\ Len(h) \in Nat
      /\ \A i \in DOMAIN h : i # 1 => Promoted(h[i])
  BY DEF GoodHistory, OnlyNewestRuns
<1>3. CASE HasPending(h)
  BY <1>1, <1>2, <1>3 DEF Promotions, IsDeployed, Deployed
<1>4. CASE ~HasPending(h)
  <2>1. 1 \in DOMAIN h => Promoted(h[1])
    BY <1>2, <1>4 DEF HasPending
  <2> QED BY <1>1, <1>2, <1>4, <2>1 DEF Promotions, IsDeployed, Deployed
<1> QED BY <1>3, <1>4

\* Two good histories of the same kind whose first entries agree on what a
\* promotion is have the same promotions.
LEMMA SamePromotions ==
  ASSUME NEW rs, NEW qs, NEW h, NEW g, GoodHistory(h, rs), GoodHistory(g, qs),
         HasPending(g) <=> HasPending(h),
         HasPending(h) => PromotionOf(g[1]) = PromotionOf(h[1]),
         LET k == IF HasPending(h) THEN 2 ELSE 1
         IN  /\ k \in DOMAIN g <=> k \in DOMAIN h
             /\ k \in DOMAIN h => g[k].promotionRecord = h[k].promotionRecord
  PROVE  /\ PendingPromotion(g) = PendingPromotion(h)
         /\ DeployedPromotion(g) = DeployedPromotion(h)
         /\ IsDeployed(g) <=> IsDeployed(h)
BY DeployedAt DEF PendingPromotion, DeployedPromotion

\* Drop leaves what is deployed.
LEMMA DropPromotions ==
  ASSUME NEW rs, NEW h, GoodHistory(h, rs)
  PROVE  /\ PendingPromotion(Drop(h)) = NoRecord
         /\ DeployedPromotion(Drop(h)) = DeployedPromotion(h)
         /\ IsDeployed(Drop(h)) => IsDeployed(h) /\ Deployed(Drop(h)) = Deployed(h)
<1> DEFINE d == Drop(h)
<1>1. GoodHistory(d, rs) /\ ~HasPending(d)
  BY DropGood, DropShape DEF GoodHistory
<1>2. PendingPromotion(d) = NoRecord
  BY <1>1 DEF PendingPromotion
<1>3. CASE ~HasPending(h)
  BY <1>2, <1>3 DEF Drop
<1>4. CASE HasPending(h)
  <2>1. d = Tail(h) /\ h # << >> /\ h \in Seq(Entries)
    BY <1>4, GoodType DEF Drop, HasPending
  <2>2. /\ 1 \in DOMAIN d <=> 2 \in DOMAIN h
        /\ 1 \in DOMAIN d => d[1] = h[2]
    BY <2>1
  <2> HIDE DEF d
  <2>3. /\ DeployedPromotion(d) = DeployedPromotion(h)
        /\ IsDeployed(d) => IsDeployed(h) /\ Deployed(d) = Deployed(h)
    BY <1>1, <1>4, <2>2, DeployedAt DEF DeployedPromotion
  <2> QED BY <1>2, <2>3 DEF d
<1> QED BY <1>2, <1>3, <1>4

\* Open makes p pending and leaves what is deployed.
LEMMA OpenPromotions ==
  ASSUME NEW rs, NEW h, GoodHistory(h, rs), NEW p \in Preps,
         NEW t \in Nat \ {Never}
  PROVE  /\ HasPending(Open(h, p, t)) /\ Open(h, p, t)[1].started = t
         /\ PendingPromotion(Open(h, p, t)) = [preparation |-> p, started |-> t]
         /\ DeployedPromotion(Open(h, p, t)) = DeployedPromotion(h)
         /\ Open(h, p, t)[1].endReason = NotEnded
         /\ IsDeployed(Open(h, p, t)) =>
              IsDeployed(h) /\ Deployed(Open(h, p, t)) = Deployed(h)
<1> DEFINE d == Drop(h)
           e == PendingEntry(p, t)
           s == Insert(d, 1, e)
           g == Truncate(s)
<1>1. GoodHistory(d, rs) /\ ~HasPending(d) /\ GoodHistory(Open(h, p, t), rs)
  BY DropGood, OpenGood, DropShape DEF GoodHistory
<1>2. Open(h, p, t) = g
  BY DEF Open, Prepend
<1>3. Len(d) \in Nat /\ DOMAIN d = 1 .. Len(d)
  BY <1>1 DEF GoodHistory
<1>4. /\ DOMAIN s = 1 .. Len(d) + 1 /\ s[1] = e
      /\ \A j \in 1 .. Len(d) + 1 : 1 < j => s[j] = d[j - 1]
      /\ Len(s) = Len(d) + 1
  <2>1. s = [j \in 1 .. Len(d) + 1 |->
               CASE j < 1 -> d[j] [] j = 1 -> e [] j > 1 -> d[j - 1]]
    BY DEF Insert
  <2> HIDE DEF d, e, s
  <2> QED BY <1>3, <2>1
<1> HIDE DEF s, d
<1>5. /\ 1 \in DOMAIN g /\ g[1] = s[1]
      /\ 2 \in DOMAIN g <=> 2 \in DOMAIN s
      /\ 2 \in DOMAIN g => g[2] = s[2]
  BY <1>3, <1>4, MaxEntriesAssumption DEF Truncate
<1>6. /\ 2 \in DOMAIN g <=> 1 \in DOMAIN d
      /\ 2 \in DOMAIN g => g[2] = d[1]
  BY <1>3, <1>4, <1>5
<1>7. /\ HasPending(g) /\ g[1] = e
      /\ PendingPromotion(g) = [preparation |-> p, started |-> t]
  BY <1>4, <1>5 DEF HasPending, PendingEntry, Promoted, PendingPromotion, PromotionOf
<1>8. /\ DeployedPromotion(g) = DeployedPromotion(d)
      /\ IsDeployed(g) => IsDeployed(d) /\ Deployed(g) = Deployed(d)
  <2> HIDE DEF g, e
  <2> QED BY <1>1, <1>2, <1>6, <1>7, DeployedAt DEF DeployedPromotion
<1>9. /\ DeployedPromotion(d) = DeployedPromotion(h)
      /\ IsDeployed(d) => IsDeployed(h) /\ Deployed(d) = Deployed(h)
  BY DropPromotions DEF d
<1> QED
  BY <1>2, <1>7, <1>8, <1>9 DEF PendingEntry

\* Start deploys what was pending.
LEMMA StartPromotions ==
  ASSUME NEW rs, NEW h, GoodHistory(h, rs), HasPending(h), NEW mode \in Orders
  PROVE  LET g == Start(h, PromotionRecord(h[1], mode, PreviousOf(h)))
         IN  /\ ~HasPending(g) /\ IsDeployed(g)
             /\ PendingPromotion(g) = NoRecord
             /\ DeployedPromotion(g) = PendingPromotion(h)
             /\ Deployed(g).endReason = h[1].endReason
<1> DEFINE r == PromotionRecord(h[1], mode, PreviousOf(h))
           u == Supersede(h, DeployedIndex(h))
           g == [u EXCEPT ![1].promotionRecord = r]
<1>1. r \in PromotionRecords /\ GoodHistory(Start(h, r), rs \cup {r})
  BY PushGood
<1>2. Start(h, r) = g
  BY DEF Start
<1>3. 1 \in DOMAIN h /\ DOMAIN h = 1 .. Len(h) /\ h \in Seq(Entries)
      /\ h[1] \in Entries
  BY GoodType DEF HasPending
<1>4. /\ DOMAIN u = DOMAIN h
      /\ u[1] = h[1]
  <2>1. IsDeployed(h) => DeployedIndex(h) = 2
    BY DeployedIndexIs DEF GoodHistory
  <2>2. ~IsDeployed(h) => DeployedIndex(h) = 0
    BY DEF IsDeployed, DeployedIndex
  <2> QED BY <1>3, <2>1, <2>2 DEF Supersede
<1>5. r # NoRecord /\ PromotionOf(r) = PromotionOf(h[1])
  BY <1>1, NoRecordAssumption DEF PromotionRecord, PromotionOf
<1> HIDE DEF r, u
<1>6. /\ g[1].promotionRecord = r /\ 1 \in DOMAIN g
      /\ g[1].endReason = h[1].endReason
  BY <1>3, <1>4 DEF Entries, EntriesOf
<1>7. ~HasPending(g)
  BY <1>5, <1>6 DEF HasPending, Promoted
<1>8. /\ DeployedPromotion(g) = PromotionOf(r) /\ IsDeployed(g)
      /\ Deployed(g) = g[1]
  <2> HIDE DEF g
  <2> QED BY <1>1, <1>2, <1>6, <1>7, DeployedAt DEF DeployedPromotion
<1> QED
  BY <1>2, <1>5, <1>6, <1>7, <1>8 DEF PendingPromotion, r

\* Observe leaves both: a recovery is of the promotion that degraded.
LEMMA ObservePromotions ==
  ASSUME NEW rs, NEW h, GoodHistory(h, rs), NEW revision, NEW health,
         NEW t \in Nat \ {Never}
  PROVE  LET g == Observe(h, revision, health, t)
         IN  /\ PendingPromotion(g) = PendingPromotion(h)
             /\ DeployedPromotion(g) = DeployedPromotion(h)
             /\ HasPending(g) <=> HasPending(h)
             /\ IsDeployed(g) <=> IsDeployed(h)
             /\ HasPending(h) => g[1] = h[1]
             /\ IsDeployed(h) =>
                  Deployed(g).endReason \in {Deployed(h).endReason, NotEnded, Degraded}
<1> DEFINE g == Observe(h, revision, health, t)
           i == DeployedIndex(h)
           e == h[i]
           k == IF HasPending(h) THEN 2 ELSE 1
<1>1. GoodHistory(g, rs)
  BY ObserveGood
<1>2. CASE ~IsDeployed(h) \/ e.preparation # revision
  BY <1>2 DEF Observe
<1>3. CASE IsDeployed(h) /\ e.preparation = revision
  <2>1. i = k /\ k \in DOMAIN h /\ DOMAIN h = 1 .. Len(h) /\ Len(h) \in Nat
        /\ h \in Seq(Entries) /\ e \in Entries
    <3>1. i = k /\ i \in DOMAIN h
      BY <1>3, DeployedIndexIs DEF GoodHistory, Promotions
    <3>2. h \in Seq(Entries)
      BY GoodType
    <3> QED BY <3>1, <3>2
  <2> DEFINE healed == [h EXCEPT ![i].healthy = t]
             broken == [h EXCEPT ![i].ended = t, ![i].endReason = Degraded]
             back   == Truncate(Insert(h, i, Recovery(e, t)))
  <2>2. g \in {h, healed, broken, back}
    BY <1>3 DEF Observe
  <2>3. /\ k \in DOMAIN g
        /\ g[k].promotionRecord = e.promotionRecord
        /\ g[k].endReason \in {e.endReason, NotEnded, Degraded}
        /\ 1 \in DOMAIN g
        /\ HasPending(h) => g[1] = h[1]
    <3>1. CASE g = h
      BY <2>1, <3>1
    <3>2. CASE g = healed
      BY <2>1, <3>2 DEF Entries, EntriesOf
    <3>3. CASE g = broken
      <4>1. broken = [h EXCEPT ![i] = [e EXCEPT !.ended = t, !.endReason = Degraded]]
        BY <2>1
      <4> HIDE DEF broken
      <4> QED BY <2>1, <3>3, <4>1 DEF Entries, EntriesOf
    <3>4. CASE g = back
      <4> DEFINE s == Insert(h, i, Recovery(e, t))
      <4>1. s = [j \in 1 .. Len(h) + 1 |->
                   CASE j < i -> h[j] [] j = i -> Recovery(e, t) [] j > i -> h[j - 1]]
        BY DEF Insert
      <4>2. /\ Recovery(e, t).promotionRecord = e.promotionRecord
            /\ Recovery(e, t).endReason = NotEnded
        BY <2>1 DEF Recovery, Entries, EntriesOf
      <4> HIDE DEF i, e
      <4>3. /\ DOMAIN s = 1 .. Len(h) + 1 /\ Len(s) = Len(h) + 1
            /\ s[k].promotionRecord = e.promotionRecord
            /\ s[k].endReason = NotEnded
            /\ k = 2 => s[1] = h[1]
        BY <2>1, <4>1, <4>2
      <4> HIDE DEF s
      <4>4. /\ {1, 2} \subseteq DOMAIN back /\ \A j \in {1, 2} : back[j] = s[j]
        BY <2>1, <4>3, MaxEntriesAssumption DEF Truncate, s
      <4> QED BY <3>4, <4>3, <4>4
    <3> QED BY <2>2, <3>1, <3>2, <3>3, <3>4
  <2>4. /\ e = Deployed(h) /\ Promoted(e)
    BY <1>3, DeployedIndexIs DEF GoodHistory, Promotions, Deployed
  <2> HIDE DEF g, e
  <2>5. HasPending(g) <=> HasPending(h)
    <3>1. CASE HasPending(h)
      BY <2>3, <3>1 DEF HasPending
    <3>2. CASE ~HasPending(h)
      BY <2>3, <2>4, <3>2 DEF HasPending, Promoted
    <3> QED BY <3>1, <3>2
  <2>6. k \in DOMAIN h /\ h[k].promotionRecord = e.promotionRecord
    BY <2>1 DEF e
  <2>7. /\ PendingPromotion(g) = PendingPromotion(h)
        /\ DeployedPromotion(g) = DeployedPromotion(h)
        /\ IsDeployed(g) <=> IsDeployed(h)
    BY <1>1, <2>3, <2>5, <2>6, SamePromotions
  <2>8. Deployed(g) = g[k]
    BY <1>1, <1>3, <2>5, <2>7, DeployedAt
  <2> QED BY <2>3, <2>4, <2>5, <2>7, <2>8 DEF g
<1> QED
  BY <1>2, <1>3

\* Recording the deployments leaves both.
LEMMA RecordsPromotions ==
  ASSUME NEW rs, NEW h, GoodHistory(h, rs)
  PROVE  LET g == WithRecords(h, ToRecord(h))
         IN  /\ PendingPromotion(g) = PendingPromotion(h)
             /\ DeployedPromotion(g) = DeployedPromotion(h)
             /\ HasPending(g) <=> HasPending(h)
             /\ IsDeployed(g) <=> IsDeployed(h)
             /\ HasPending(h) => g[1].started = h[1].started
<1> DEFINE g  == WithRecords(h, ToRecord(h))
           qs == rs \cup {RecordOf(h[i]) : i \in ToRecord(h)}
<1>1. GoodHistory(g, qs)
  BY RecordsGood
<1>2. h \in Seq(Entries) /\ DOMAIN g = DOMAIN h
  BY GoodType DEF WithRecords
<1>3. \A i \in DOMAIN h : /\ g[i].promotionRecord = h[i].promotionRecord
                          /\ PromotionOf(g[i]) = PromotionOf(h[i])
                          /\ g[i].started = h[i].started
  <2> SUFFICES ASSUME NEW i \in DOMAIN h
               PROVE  /\ g[i].promotionRecord = h[i].promotionRecord
                      /\ PromotionOf(g[i]) = PromotionOf(h[i])
                      /\ g[i].started = h[i].started
    OBVIOUS
  <2>1. h[i] \in Entries
    BY <1>2
  <2>2. g[i] = h[i] \/ \E r : g[i] = [h[i] EXCEPT !.deploymentRecord = r]
    BY DEF WithRecords
  <2> QED BY <2>1, <2>2 DEF Entries, EntriesOf, PromotionOf
<1> HIDE DEF g, qs
<1>4. HasPending(g) <=> HasPending(h)
  <2>1. h # << >> <=> 1 \in DOMAIN h
    BY <1>2
  <2>2. g # << >> <=> 1 \in DOMAIN g
    BY <1>1 DEF GoodHistory
  <2> QED BY <1>2, <1>3, <2>1, <2>2 DEF HasPending, Promoted
<1>5. HasPending(h) => 1 \in DOMAIN h
  BY <1>2 DEF HasPending
<1>6. /\ PendingPromotion(g) = PendingPromotion(h)
      /\ DeployedPromotion(g) = DeployedPromotion(h)
      /\ IsDeployed(g) <=> IsDeployed(h)
  BY <1>1, <1>2, <1>3, <1>4, <1>5, SamePromotions
<1> QED
  BY <1>3, <1>4, <1>5, <1>6 DEF g

-----------------------------------------------------------------------------
(* Every step keeps the invariant Copies.                                  *)

\* A step of a pass that writes no status and ends no pass.
LEMMA PassCopies ==
  ASSUME Copies, pass.step # "Idle", UNCHANGED <<now, objVars>>,
         pass'.step # "Idle",
         pass'.base = pass.base, pass'.fresh = pass.fresh,
         Follows(pass.base.history, pass'.history),
         pass'.step \in {"Promote", "Push"} => pass'.history = pass.base.history,
         HasPending(pass'.history) => pass'.history[1].started <= now,
         \A r \in records' : r.kind = "Promotion" => r.started \in 1 .. now
  PROVE  Copies'
BY DEF Copies, objVars

\* A pending entry was decided at some time.
LEMMA PendingTime ==
  ASSUME NEW h \in Seq(Entries), HasPending(h)
  PROVE  h[1].started \in Nat \ {Never}
<1>1. h[1] \in Entries
  BY DEF HasPending
<1> QED BY <1>1 DEF Entries, EntriesOf

\* A history that was read follows itself.
LEMMA FollowsItself ==
  ASSUME NEW b
  PROVE  Follows(b, b)
BY DEF Follows

\* Promote drops the pending promotion or decides a later one.
LEMMA PromoteCopies ==
  ASSUME Inductive, Copies, Promote
  PROVE  Copies'
<1> DEFINE p == Candidate(pass.base.wanted)
           b == pass.base.history
<1>1. /\ pass.step = "Promote" /\ pass \in PassStates
      /\ pass.history = b /\ GoodHistory(b, records) /\ TypeOK
      /\ HasPending(b) => b[1].started <= now
  BY InPass DEF Promote, Copies, Inductive
<1>2. p \in Preps \cup {NoPrep}
  BY <1>1, CandidateType DEF PassStates, Servings
<1>3. /\ Follows(b, b) /\ Follows(b, Drop(b)) /\ ~HasPending(Drop(b))
  BY <1>1, FollowsItself, DropPromotions, DropShape DEF Follows, GoodHistory
<1>4. ASSUME p \in Preps
      PROVE  /\ Follows(b, Open(b, p, now))
             /\ Open(b, p, now)[1].started <= now
  <2>1. now \in Nat \ {Never}
    BY <1>1 DEF TypeOK
  <2>2. /\ Open(b, p, now)[1].started = now
        /\ PendingPromotion(Open(b, p, now)) = [preparation |-> p, started |-> now]
        /\ DeployedPromotion(Open(b, p, now)) = DeployedPromotion(b)
    BY <1>1, <1>4, <2>1, OpenPromotions
  <2>3. DeployedPromotion(b) # NoRecord => now >= DeployedPromotion(b).started
    <3>1. IsDeployed(b) => /\ Deployed(b).promotionRecord \in records
                           /\ Deployed(b).promotionRecord.kind = "Promotion"
      BY <1>1, GoodDeployed
    <3>2. IsDeployed(b) => Deployed(b).promotionRecord.started \in 1 .. now
      BY <3>1 DEF Copies
    <3> QED BY <2>1, <3>2 DEF DeployedPromotion, PromotionOf
  <2>4. [preparation |-> p, started |-> now] \in Promises!Promotions
    BY <1>4, <2>1 DEF Promises!Promotions
  <2> QED BY <2>1, <2>2, <2>3, <2>4 DEF Follows
<1>5. /\ pass'.base = pass.base /\ pass'.fresh = pass.fresh /\ pass'.step # "Idle"
      /\ Follows(b, pass'.history)
      /\ pass'.step \in {"Promote", "Push"} => pass'.history = b
      /\ HasPending(pass'.history) => pass'.history[1].started <= now
  <2> HIDE DEF p
  <2>1. CASE PromoteNothing
    BY <1>1, <1>3, <2>1 DEF PromoteNothing, PassStates
  <2>2. CASE p # NoPrep /\ HoldBeforeTarget(p)
    BY <1>1, <1>3, <2>2 DEF HoldBeforeTarget, PassStates
  <2>3. CASE p # NoPrep /\ HoldTarget(p)
    BY <1>1, <1>3, <2>3 DEF HoldTarget, PassStates
  <2>4. CASE p # NoPrep /\ OpenPromotion(p)
    BY <1>1, <1>2, <1>4, <2>4 DEF OpenPromotion, PassStates
  <2>5. CASE p # NoPrep /\ DecideToRecord(p)
    BY <1>1, <1>3, <2>5 DEF DecideToRecord, PassStates
  <2> QED BY <2>1, <2>2, <2>3, <2>4, <2>5 DEF Promote, p
<1> QED
  BY <1>1, <1>5, PassCopies DEF Promote, Copies, world

\* The record that is pushed is of the pending promotion, which the entry that
\* starts was.
LEMMA PushPromotionCopies ==
  ASSUME Inductive, Copies, PushPromotion \/ PushPromotionFails
  PROVE  Copies'
<1> DEFINE b == pass.base.history
           r == PromotionRecord(b[1], pass.mode, PreviousOf(b))
           g == Start(b, r)
<1>1. /\ pass.step = "Push" /\ pass \in PassStates
      /\ pass.history = b /\ GoodHistory(b, records) /\ TypeOK
      /\ HasPending(b) /\ b[1].started <= now /\ pass.mode \in Orders
  BY InPass DEF PushPromotion, PushPromotionFails, Copies, Inductive, PassStates
<1>2. ~HasPending(g) /\ Follows(b, g)
  BY <1>1, StartPromotions DEF Follows
<1>3. r.started \in 1 .. now
  <2>1. now \in Nat
    BY <1>1 DEF TypeOK
  <2>2. b[1].started \in Nat \ {Never}
    BY <1>1, GoodType, PendingTime
  <2> QED BY <1>1, <2>1, <2>2 DEF PromotionRecord, Never
<1>4. /\ records' \subseteq records \cup {r}
      /\ pass'.base = pass.base /\ pass'.fresh = pass.fresh /\ pass'.step = "Deploy"
      /\ pass'.history \in {b, g}
      /\ UNCHANGED <<now, objVars>>
  <2>1. CASE PushPromotion
    <3>1. /\ records' = records \cup {r} /\ UNCHANGED <<now, objVars>>
          /\ pass' = [pass EXCEPT !.history = g, !.target = pass.target, !.step = "Deploy"]
      BY <1>1, <2>1 DEF PushPromotion, Settle, world
    <3> HIDE DEF g, r
    <3> QED BY <1>1, <3>1 DEF PassStates
  <2>2. CASE PushPromotionFails
    <3>1. /\ records' \subseteq records \cup {r} /\ UNCHANGED <<now, objVars>>
          /\ pass' = [pass EXCEPT !.requeue = TRUE, !.step = "Deploy"]
      BY <1>1, <2>2 DEF PushPromotionFails, Failure
    <3> HIDE DEF g, r
    <3> QED BY <1>1, <3>1 DEF PassStates
  <2> QED BY <2>1, <2>2
<1>5. \A q \in records' : q.kind = "Promotion" => q.started \in 1 .. now
  BY <1>3, <1>4 DEF Copies
<1> HIDE DEF g, r
<1> QED
  BY <1>1, <1>2, <1>4, <1>5, FollowsItself, PassCopies

\* What the engine reports changes neither promotion.
LEMMA ReportCopies ==
  ASSUME Inductive, Copies, pass.step = "Deploy", IsDeployed(pass.history),
         NEW state, Report(state)
  PROVE  /\ Follows(pass.base.history, pass'.history)
         /\ HasPending(pass'.history) => pass'.history[1].started <= now
         /\ pass'.base = pass.base /\ pass'.fresh = pass.fresh
         /\ pass'.step \in {"Report", "Patch"}
<1> DEFINE o == ObservationOf(state, Deployed(pass.history).preparation)
           g == Observe(pass.history, o.revision, o.health, now)
<1>1. pass \in PassStates /\ GoodHistory(pass.history, records) /\ now \in Nat \ {Never}
  BY InPass DEF Inductive, TypeOK
<1>2. /\ PendingPromotion(g) = PendingPromotion(pass.history)
      /\ DeployedPromotion(g) = DeployedPromotion(pass.history)
      /\ HasPending(g) <=> HasPending(pass.history)
      /\ IsDeployed(g) <=> IsDeployed(pass.history)
      /\ HasPending(pass.history) => g[1] = pass.history[1]
  BY <1>1, ObservePromotions
<1>3. /\ pass'.history = g /\ pass'.base = pass.base /\ pass'.fresh = pass.fresh
      /\ pass'.step \in {"Report", "Patch"}
  BY <1>1 DEF Report, PassStates
<1> HIDE DEF g
<1> QED
  BY <1>2, <1>3 DEF Copies, Follows

\* deploy changes neither promotion.
LEMMA DeployCopies ==
  ASSUME Inductive, Copies, Deploy \/ DeployFails
  PROVE  Copies'
<1>1. /\ pass.step = "Deploy" /\ pass \in PassStates
      /\ UNCHANGED <<now, objVars, records>>
  BY InPass DEF Deploy, DeployFails, Failure, world
<1>2. CASE HasDeployment /\ \E state : Report(state)
  BY <1>1, <1>2, ReportCopies, PassCopies DEF HasDeployment, Copies
<1>3. CASE /\ pass'.history = pass.history /\ pass'.base = pass.base
           /\ pass'.fresh = pass.fresh /\ pass'.step = "Patch"
  BY <1>1, <1>3, PassCopies DEF Copies
<1>4. ASSUME NEW step \in {"Patch"}, Continue(step)
      PROVE  /\ pass'.history = pass.history /\ pass'.base = pass.base
             /\ pass'.fresh = pass.fresh /\ pass'.step = "Patch"
  BY <1>1, <1>4 DEF Continue, PassStates
<1>5. ASSUME pass' = [pass EXCEPT !.requeue = TRUE, !.step = "Patch"]
      PROVE  /\ pass'.history = pass.history /\ pass'.base = pass.base
             /\ pass'.fresh = pass.fresh /\ pass'.step = "Patch"
  BY <1>1, <1>5 DEF PassStates
<1>6. CASE Deploy
  <2>1. CASE ~HasDeployment /\ Continue("Patch")
    BY <1>3, <1>4, <2>1
  <2>2. CASE RemoveApplication("Patch")
    BY <1>3, <1>4, <1>5, <2>2 DEF RemoveApplication
  <2>3. CASE HasDeployment /\ Report(NothingObserved)
    BY <1>2, <2>3
  <2>4. CASE HasDeployment /\ Apply(Deployed(pass.history).preparation)
    BY <1>2, <1>3, <1>5, <2>4 DEF Apply
  <2> QED BY <1>6, <2>1, <2>2, <2>3, <2>4 DEF Deploy
<1>7. CASE DeployFails
  BY <1>3, <1>5, <1>7 DEF DeployFails
<1> QED
  BY <1>6, <1>7

\* Recording the deployments changes neither promotion.
LEMMA RecordDeploymentsCopies ==
  ASSUME Inductive, Copies, RecordDeployments \/ RecordDeploymentsFails
  PROVE  Copies'
<1> DEFINE g == WithRecords(pass.history, ToRecord(pass.history))
<1>1. /\ pass.step = "Report" /\ pass \in PassStates
      /\ GoodHistory(pass.history, records)
      /\ UNCHANGED <<now, objVars>>
  BY InPass DEF RecordDeployments, RecordDeploymentsFails, Failure, world
<1>2. /\ PendingPromotion(g) = PendingPromotion(pass.history)
      /\ DeployedPromotion(g) = DeployedPromotion(pass.history)
      /\ HasPending(g) <=> HasPending(pass.history)
      /\ IsDeployed(g) <=> IsDeployed(pass.history)
      /\ HasPending(pass.history) => g[1].started = pass.history[1].started
  BY <1>1, RecordsPromotions
<1>3. \A r \in records' \ records : r.kind = "Deployment"
  BY DEF RecordDeployments, RecordDeploymentsFails, RecordOf, DeploymentRecord
<1>4. /\ pass'.history \in {g, pass.history}
      /\ pass'.base = pass.base /\ pass'.fresh = pass.fresh /\ pass'.step = "Patch"
  <2>1. CASE RecordDeployments
    <3>1. pass' = [pass EXCEPT !.history = g, !.target = pass.target, !.step = "Patch"]
      BY <2>1 DEF RecordDeployments, Settle
    <3> HIDE DEF g
    <3> QED BY <1>1, <3>1 DEF PassStates
  <2>2. CASE RecordDeploymentsFails
    BY <1>1, <2>2 DEF RecordDeploymentsFails, PassStates
  <2> QED BY <2>1, <2>2
<1> HIDE DEF g
<1>5. /\ Follows(pass.base.history, pass'.history)
      /\ HasPending(pass'.history) => pass'.history[1].started <= now
  BY <1>1, <1>2, <1>4 DEF Copies, Follows
<1>6. \A r \in records' : r.kind = "Promotion" => r.started \in 1 .. now
  BY <1>3 DEF Copies
<1> QED
  BY <1>1, <1>4, <1>5, <1>6, PassCopies

\* The other steps of a pass: it starts from the cache, its reads fail, or it
\* removes the Application.
LEMMA OtherCopies ==
  ASSUME Inductive, Copies, StartPass \/ PromoteFails \/ Remove
  PROVE  Copies'
<1>1. CASE StartPass
  BY <1>1, FollowsItself
     DEF StartPass, Copies, Idle, world, objVars, Inductive, TypeOK
<1>2. CASE PromoteFails \/ Remove
  <2>1. /\ pass.step \in {"Promote", "Remove"} /\ pass \in PassStates
        /\ UNCHANGED <<now, objVars, records>>
    BY <1>2, InPass DEF PromoteFails, Remove, Failure, world
  <2>2. /\ pass'.history = pass.history /\ pass'.base = pass.base
        /\ pass'.fresh = pass.fresh
        /\ pass'.step \in {"Deploy", "Finalize", "Patch"}
    BY <1>2, <2>1 DEF PromoteFails, Remove, RemoveApplication, Continue, PassStates
  <2> QED BY <2>1, <2>2, PassCopies DEF Copies
<1> QED BY <1>1, <1>2

\* A write of the pass makes its own copy old, and ends it.
LEMMA WriteCopies ==
  ASSUME Inductive, Copies, PatchStatus \/ PatchStatusFails \/ Finalize
  PROVE  Copies'
<1>1. /\ pass.step # "Idle" /\ pass \in PassStates /\ serving \in Servings
      /\ UNCHANGED <<now, seen, records>> /\ pass' = Idle
  BY InPass
     DEF PatchStatus, PatchStatusFails, Finalize, Failure, world, objVars, Inductive, TypeOK
<1>2. \/ UNCHANGED <<serving, seenFresh>>
      \/ /\ seenFresh' = FALSE
         /\ \/ serving' = [serving EXCEPT !.life = "Gone"]
            \/ serving' = [serving EXCEPT !.history = pass.history, !.target = pass.target]
  BY DEF PatchStatus, PatchStatusFails, Finalize, objVars
<1>3. seenFresh' => seen' = serving'
  BY <1>1, <1>2 DEF Copies
<1>4. serving'.history \in {serving.history, pass.history}
  BY <1>1, <1>2 DEF Servings
<1> QED
  BY <1>1, <1>3, <1>4 DEF Copies, Idle

\* The steps of others: their writes make the copies old, the informers and a
\* restart make them fresh, and time passes.
LEMMA WorldCopies ==
  ASSUME Inductive, Copies,
         Requeue \/ Crash \/ Informers \/ ArgoCD \/ Tick \/ Environment
  PROVE  Copies'
<1>1. CASE Requeue \/ ArgoCD
  BY <1>1
     DEF Requeue, ArgoCD, ArgoCompares, ArgoSyncs, ArgoTurnsHealthy,
         ArgoTurnsDegraded, ArgoReports, world, objVars, Copies
<1>2. CASE Crash
  BY <1>2 DEF Crash, Copies, Idle
<1>3. CASE Informers
  <2>1. CASE SyncServing
    <3>1. /\ seen' = serving /\ serving' = serving
          /\ now' = now /\ records' = records /\ pass' = pass
      BY <2>1 DEF SyncServing, world
    <3> QED BY <3>1 DEF Copies
  <2>2. CASE SyncApplication
    BY <2>2 DEF SyncApplication, world, objVars, Copies
  <2> QED BY <1>3, <2>1, <2>2 DEF Informers
<1>4. CASE Tick
  <2>1. now \in Nat /\ now' = now + 1 /\ UNCHANGED <<objVars, records, pass>>
    BY <1>4 DEF Tick, Inductive, TypeOK
  <2>2. /\ serving.history \in Seq(Entries) /\ seen.history \in Seq(Entries)
        /\ pass.step # "Idle" => pass.history \in Seq(Entries)
    BY InPass, GoodType DEF Inductive
  <2>3. \A h \in Seq(Entries) :
          HasPending(h) /\ h[1].started <= now => h[1].started <= now'
    <3>1. \A h \in Seq(Entries) : HasPending(h) => h[1].started \in Nat
      BY PendingTime
    <3> QED BY <2>1, <3>1
  <2>4. 1 .. now \subseteq 1 .. now'
    BY <2>1
  <2>5. /\ HasPending(serving.history) => serving.history[1].started <= now'
        /\ HasPending(seen.history) => seen.history[1].started <= now'
        /\ pass.step # "Idle" =>
             (HasPending(pass.history) => pass.history[1].started <= now')
    BY <2>2, <2>3 DEF Copies
  <2>6. \A r \in records : r.kind = "Promotion" => r.started \in 1 .. now'
    BY <2>4 DEF Copies
  <2> QED BY <2>1, <2>5, <2>6 DEF Copies, objVars
<1>5. CASE Environment
  <2>1. UNCHANGED <<now, records, seen>>
    BY <1>5 DEF Environment, ChangeOrder, ChangeGate, ChangeSite, ChangeWanted,
                DeleteServing, Edit, objVars
  <2>2. CASE UNCHANGED <<objVars, pass>>
    BY <2>1, <2>2 DEF Copies, objVars
  <2>3. CASE Outdate /\ (ChangeWanted \/ DeleteServing)
    <3>1. serving'.history = serving.history
      BY <2>3 DEF ChangeWanted, DeleteServing, Inductive, TypeOK, Servings
    <3>2. pass.step # "Idle" => pass \in PassStates
      BY InPass
    <3> QED BY <2>1, <2>3, <3>1, <3>2 DEF Outdate, Copies, PassStates
  <2> QED BY <1>5, <2>2, <2>3
          DEF Environment, ChangeOrder, ChangeGate, ChangeSite, ChangeWanted, DeleteServing
<1> QED BY <1>1, <1>2, <1>3, <1>4, <1>5

-----------------------------------------------------------------------------
(* Every step of the controller is a step of a promotion, or none.         *)

\* A new Serving has nothing pending, deployed or recorded.
LEMMA InitRefines == Init => Copies /\ Promises!Init
<1> SUFFICES ASSUME Init PROVE Copies /\ Promises!Init
  OBVIOUS
<1>1. /\ serving.history = << >> /\ seen.history = << >> /\ seen = serving
      /\ records = {} /\ pass.step = "Idle" /\ app.at = NoRevision
  BY DEF Init, Idle, NoApp
<1>2. ~HasPending(<< >>) /\ ~IsDeployed(<< >>)
  BY DEF HasPending, IsDeployed, Promotions
<1> QED
  BY <1>1, <1>2
     DEF Copies, Promises!Init, PendingPromotion, DeployedPromotion

LEMMA NextCopies == Inductive /\ Copies /\ [Next]_vars => Copies'
<1> SUFFICES ASSUME Inductive, Copies, [Next]_vars PROVE Copies'
  OBVIOUS
<1>1. CASE UNCHANGED vars
  BY <1>1 DEF vars, world, objVars, Copies
<1> QED
  BY <1>1, PromoteCopies, PushPromotionCopies, DeployCopies,
     RecordDeploymentsCopies, OtherCopies, WriteCopies, WorldCopies
     DEF Next, Reconcile, Pass, Failures

\* A step that leaves the history and the records may move the Application,
\* to what has its record.
LEMMA PointStep ==
  ASSUME Inductive', serving'.history = serving.history, records' = records
  PROVE  [Promises!Next]_Promises!vars
<1> DEFINE registry == {PromotionOf(r) : r \in {q \in records : q.kind = "Promotion"}}
<1>1. app'.at \in {r.preparation : r \in registry} \cup {NoRevision}
  <2>1. CASE app' = NoApp
    BY <2>1 DEF NoApp
  <2>2. CASE app' # NoApp
    <3>1. PICK r \in records : r.kind = "Promotion" /\ r.preparation = app'.at
      BY <2>2 DEF Inductive, PromotionRecorded
    <3>2. PromotionOf(r) \in registry /\ PromotionOf(r).preparation = app'.at
      BY <3>1 DEF PromotionOf
    <3> HIDE DEF registry
    <3> QED BY <3>2
  <2> QED BY <2>1, <2>2
<1>2. Promises!Point
  BY <1>1 DEF Promises!Point
<1> QED BY <1>2 DEF Promises!Next

\* A step that only pushes records.
LEMMA PushStep ==
  ASSUME Inductive', Copies', records \subseteq records',
         UNCHANGED <<app, serving>>
  PROVE  [Promises!Next]_Promises!vars
<1>1. ASSUME NEW q \in records', q.kind = "Promotion"
      PROVE  PromotionOf(q) \in Promises!Promotions
  <2>1. q.preparation \in Preps
    BY DEF Inductive, TypeOK, PromotionRecords, DeploymentRecords
  <2>2. q.started \in 1 .. now' /\ now' \in Nat
    BY <1>1 DEF Copies, Inductive, TypeOK
  <2> QED BY <2>1, <2>2 DEF PromotionOf, Promises!Promotions, Never
<1>2. Promises!Record
  BY <1>1 DEF Promises!Record
<1> QED BY <1>2 DEF Promises!Next

\* A status write that a fresh pass makes.
LEMMA PatchStep ==
  ASSUME Inductive, Copies, PatchStatus
  PROVE  [Promises!Next]_Promises!vars
<1> DEFINE b == serving.history
           h == pass.history
<1>1. UNCHANGED <<app, records>> /\ pass \in PassStates /\ serving \in Servings
      /\ GoodHistory(h, records)
  BY InPass DEF PatchStatus, world, appVars, Inductive, TypeOK
<1>2. CASE serving' = serving
  BY <1>1, <1>2 DEF Promises!vars
<1>3. CASE serving' # serving
  <2>1. serving'.history = h /\ Follows(b, h)
    BY <1>1, <1>3 DEF PatchStatus, Copies, Servings
  <2>2. CASE /\ HasPending(b) /\ IsDeployed(h)
             /\ DeployedPromotion(h) = PendingPromotion(b)
             /\ PendingPromotion(h) = NoRecord
    <3>1. /\ Deployed(h).promotionRecord \in records
          /\ Deployed(h).promotionRecord.kind = "Promotion"
      BY <1>1, <2>2, GoodDeployed
    <3>2. DeployedPromotion(h) \in
            {PromotionOf(r) : r \in {q \in records : q.kind = "Promotion"}}
      BY <2>2, <3>1 DEF DeployedPromotion
    <3>3. Promises!Promote
      BY <1>1, <2>1, <2>2, <3>2 DEF Promises!Promote
    <3> QED BY <3>3 DEF Promises!Next
  <2>3. CASE /\ DeployedPromotion(h) = DeployedPromotion(b)
             /\ PendingPromotion(h) = PendingPromotion(b)
    BY <1>1, <2>1, <2>3 DEF Promises!vars
  <2>4. CASE /\ DeployedPromotion(h) = DeployedPromotion(b)
             /\ PendingPromotion(h) = NoRecord
    <3>1. Promises!Withdraw
      BY <1>1, <2>1, <2>4 DEF Promises!Withdraw
    <3> QED BY <3>1 DEF Promises!Next
  <2>5. CASE /\ DeployedPromotion(h) = DeployedPromotion(b)
             /\ PendingPromotion(h) \in Promises!Promotions
             /\ DeployedPromotion(b) # NoRecord =>
                  PendingPromotion(h).started >= DeployedPromotion(b).started
    <3>1. Promises!Decide
      BY <1>1, <2>1, <2>5 DEF Promises!Decide
    <3> QED BY <3>1 DEF Promises!Next
  <2> QED BY <2>1, <2>2, <2>3, <2>4, <2>5 DEF Follows
<1> QED BY <1>2, <1>3

\* Each step of the controller and of its world.
LEMMA NextRefines ==
  Inductive /\ Copies /\ [Next]_vars => [Promises!Next]_Promises!vars
<1> SUFFICES ASSUME Inductive, Copies, [Next]_vars
             PROVE  [Promises!Next]_Promises!vars
  OBVIOUS
<1>1. Inductive' /\ Copies'
  BY NextInductive, NextCopies
<1>2. serving \in Servings
  BY DEF Inductive, TypeOK
<1>3. CASE PatchStatus
  BY <1>3, PatchStep
<1>4. CASE PushPromotion \/ PushPromotionFails \/ RecordDeployments
             \/ RecordDeploymentsFails
  <2>1. records \subseteq records' /\ UNCHANGED <<app, serving>>
    BY <1>4 DEF PushPromotion, PushPromotionFails, RecordDeployments,
                RecordDeploymentsFails, appVars, objVars
  <2> QED BY <1>1, <2>1, PushStep
<1>5. CASE UNCHANGED vars
  BY <1>1, <1>5, PointStep DEF vars, objVars
<1>6. CASE StartPass \/ Promote \/ PromoteFails \/ Deploy \/ DeployFails
             \/ Remove \/ Finalize \/ PatchStatusFails \/ Requeue \/ Crash
             \/ Informers \/ ArgoCD \/ Tick \/ Environment
  <2>1. records' = records
    BY <1>6
       DEF StartPass, Promote, PromoteFails, Deploy, DeployFails, Remove, Finalize,
           PatchStatusFails, Requeue, Crash, Informers, SyncServing, SyncApplication,
           ArgoCD, ArgoCompares, ArgoSyncs, ArgoTurnsHealthy, ArgoTurnsDegraded,
           ArgoReports, Tick, Environment, ChangeOrder, ChangeGate, ChangeSite,
           ChangeWanted, DeleteServing, Edit
  <2>2. serving'.history = serving.history
    <3>1. \/ serving' = serving
          \/ \E p \in Preps : serving' = [serving EXCEPT !.wanted = p]
          \/ \E l \in {"Deleting", "Gone"} : serving' = [serving EXCEPT !.life = l]
      BY <1>6
         DEF StartPass, Promote, PromoteFails, Deploy, DeployFails, Remove, Finalize,
             PatchStatusFails, Requeue, Crash, Informers, SyncServing, SyncApplication,
             ArgoCD, ArgoCompares, ArgoSyncs, ArgoTurnsHealthy, ArgoTurnsDegraded,
             ArgoReports, Tick, Environment, ChangeOrder, ChangeGate, ChangeSite,
             ChangeWanted, DeleteServing, objVars
    <3> QED BY <1>2, <3>1 DEF Servings
  <2> QED BY <1>1, <2>1, <2>2, PointStep
<1> QED
  BY <1>3, <1>4, <1>5, <1>6 DEF Next, Reconcile, Pass, Failures

\* The controller keeps what module Promotion promises of a promotion: decided
\* in the status first, recorded in the registry, then deployed, never
\* forgotten nor taken back (serving_controller.go, promote, deploy and
\* patchStatus), through failures, crashes and passes on old copies.
THEOREM Implements == Spec => KeepsPromises
<1>1. Init => Promises!Init /\ Copies
  BY InitRefines
<1>2. Inductive /\ Copies /\ [Next]_vars => [Promises!Next]_Promises!vars
  BY NextRefines
<1>3. Inductive /\ Copies /\ [Next]_vars => Copies'
  BY NextCopies
<1> QED
  BY <1>1, <1>2, <1>3, InductiveHolds, PTL DEF Spec, KeepsPromises, Promises!Spec

-----------------------------------------------------------------------------
(* No pending promotion is left to itself.                                 *)

\* A Serving that is deleted never lives again, so a copy that says it is
\* deleted is right; only a pass on such a copy removes the Application.
Lives ==
  /\ seen.life # "Live" => serving.life # "Live"
  /\ pass.step # "Idle" =>
       /\ pass.base.life # "Live" => serving.life # "Live"
       /\ pass.step \in {"Remove", "Finalize"} => pass.base.life # "Live"

\* A pass that is past the gates leaves a promotion pending only if it asks to
\* run again: it opened it, or a call failed.
Retries ==
  /\ pass.step \notin {"Idle", "Promote", "Push"} /\ pass.base.life = "Live"
  /\ HasPending(pass.history)
  => pass.requeue

\* A pass is to look at the pending promotion: no copy without it, in the
\* cache or in a pass, is the last one to be looked at.
Awaited ==
  /\ seen.history # serving.history => timer
  /\ pass.step = "Idle" => queued \/ timer
  /\ pass.step # "Idle" /\ pass.base.history # serving.history => queued \/ timer

\* The invariant behind NothingPends, on top of Inductive and Copies.
Pursued ==
  /\ Lives
  /\ Retries
  /\ serving.life = "Live" /\ HasPending(serving.history) => Awaited

\* A step of a pass that writes no status and ends no pass.
LEMMA PassPursued ==
  ASSUME Pursued, pass.step # "Idle", UNCHANGED <<objVars, queued, timer>>,
         pass'.step # "Idle", pass'.base = pass.base,
         pass'.step \in {"Remove", "Finalize"} => pass.base.life # "Live",
         Retries'
  PROVE  Pursued'
BY DEF Pursued, Lives, Awaited, objVars

\* What the engine reports leaves the promotion pending, and the pass asks to
\* run again as before.
LEMMA ReportPending ==
  ASSUME Inductive, pass.step = "Deploy", NEW state, Report(state)
  PROVE  /\ HasPending(pass'.history) <=> HasPending(pass.history)
         /\ pass.requeue => pass'.requeue
         /\ pass'.base = pass.base
         /\ pass'.step \in {"Report", "Patch"}
<1> DEFINE o == ObservationOf(state, Deployed(pass.history).preparation)
           g == Observe(pass.history, o.revision, o.health, now)
<1>1. pass \in PassStates /\ GoodHistory(pass.history, records) /\ now \in Nat \ {Never}
  BY InPass DEF Inductive, TypeOK
<1>2. HasPending(g) <=> HasPending(pass.history)
  BY <1>1, ObservePromotions
<1>3. /\ pass'.history = g /\ pass'.base = pass.base
      /\ pass'.requeue = (pass.requeue \/ g # pass.history)
      /\ pass'.step \in {"Report", "Patch"}
  BY <1>1 DEF Report, PassStates
<1> HIDE DEF g
<1> QED BY <1>2, <1>3

\* The gates drop the pending promotion, start it, or open one and ask for
\* another pass.
LEMMA GatesPursued ==
  ASSUME Inductive, Copies, Pursued,
         Promote \/ PromoteFails \/ PushPromotion \/ PushPromotionFails
  PROVE  Pursued'
<1> DEFINE p == Candidate(pass.base.wanted)
           h == pass.history
           r == PromotionRecord(h[1], pass.mode, PreviousOf(h))
<1>1. /\ pass.step \in {"Promote", "Push"} /\ pass \in PassStates
      /\ GoodHistory(h, records)
      /\ UNCHANGED <<objVars, queued, timer>>
  BY InPass DEF Promote, PromoteFails, PushPromotion, PushPromotionFails, world
<1>2. ~HasPending(Drop(h))
  BY <1>1, DropShape DEF GoodHistory
<1>3. /\ pass'.base = pass.base
      /\ pass'.step \in {"Push", "Deploy"}
      /\ pass'.step = "Deploy" => pass'.requeue \/ ~HasPending(pass'.history)
  <2>1. CASE Promote
    <3> HIDE DEF p
    <3>1. CASE PromoteNothing
      BY <1>1, <1>2, <3>1 DEF PromoteNothing, PassStates
    <3>2. CASE p # NoPrep /\ HoldBeforeTarget(p)
      BY <1>1, <1>2, <3>2 DEF HoldBeforeTarget, PassStates
    <3>3. CASE p # NoPrep /\ HoldTarget(p)
      BY <1>1, <1>2, <3>3 DEF HoldTarget, PassStates
    <3>4. CASE p # NoPrep /\ OpenPromotion(p)
      BY <1>1, <3>4 DEF OpenPromotion, PassStates
    <3>5. CASE p # NoPrep /\ DecideToRecord(p)
      BY <1>1, <3>5 DEF DecideToRecord, PassStates
    <3> QED BY <2>1, <3>1, <3>2, <3>3, <3>4, <3>5 DEF Promote, p
  <2>2. CASE PromoteFails
    BY <1>1, <2>2 DEF PromoteFails, PassStates
  <2>3. CASE PushPromotion
    <3>1. HasPending(h) /\ pass.mode \in Orders
      BY <1>1, <2>3 DEF PushPromotion, Inductive, PassStates
    <3>2. ~HasPending(Start(h, r))
      BY <1>1, <3>1, StartPromotions
    <3>3. pass' = [pass EXCEPT !.history = Start(h, r), !.target = pass.target,
                               !.step = "Deploy"]
      BY <2>3 DEF PushPromotion, Settle
    <3> HIDE DEF h, r
    <3> QED BY <1>1, <3>2, <3>3 DEF PassStates
  <2>4. CASE PushPromotionFails
    BY <1>1, <2>4 DEF PushPromotionFails, PassStates
  <2> QED BY <2>1, <2>2, <2>3, <2>4
<1>4. Retries'
  BY <1>3 DEF Retries
<1> QED
  BY <1>1, <1>3, <1>4, PassPursued

\* deploy, the records of deployments and the removal of the Application leave
\* what is pending, and what asks for another pass.
LEMMA DeployPursued ==
  ASSUME Inductive, Copies, Pursued,
         \/ Deploy \/ DeployFails
         \/ RecordDeployments \/ RecordDeploymentsFails \/ Remove
  PROVE  Pursued'
<1> DEFINE h == pass.history
           g == WithRecords(h, ToRecord(h))
<1>1. /\ pass.step \in {"Deploy", "Report", "Remove"} /\ pass \in PassStates
      /\ GoodHistory(h, records)
      /\ UNCHANGED <<objVars, queued, timer>>
  BY InPass
     DEF Deploy, DeployFails, RecordDeployments, RecordDeploymentsFails, Remove, world
<1>2. /\ pass'.base = pass.base
      /\ pass'.step \in {"Report", "Patch", "Finalize"}
      /\ pass'.step = "Finalize" => pass.step = "Remove"
      /\ HasPending(pass'.history) => HasPending(h)
      /\ pass.requeue => pass'.requeue
  <2>1. CASE pass' = [pass EXCEPT !.requeue = TRUE, !.step = "Patch"]
    BY <1>1, <2>1 DEF PassStates
  <2>2. ASSUME NEW step \in {"Patch", "Finalize"}, Continue(step),
               step = "Finalize" => pass.step = "Remove"
        PROVE  /\ pass'.base = pass.base
               /\ pass'.step \in {"Report", "Patch", "Finalize"}
               /\ pass'.step = "Finalize" => pass.step = "Remove"
               /\ HasPending(pass'.history) => HasPending(h)
               /\ pass.requeue => pass'.requeue
    BY <1>1, <2>2 DEF Continue, PassStates
  <2>3. CASE pass.step = "Deploy" /\ \E state : Report(state)
    BY <2>3, ReportPending
  <2>4. CASE Deploy
    <3>1. CASE Continue("Patch")
      BY <2>2, <3>1
    <3>2. CASE RemoveApplication("Patch")
      BY <2>1, <2>2, <3>2 DEF RemoveApplication
    <3>3. CASE Report(NothingObserved)
      BY <2>3, <2>4, <3>3 DEF Deploy
    <3>4. CASE Apply(Deployed(h).preparation)
      BY <2>1, <2>3, <2>4, <3>4 DEF Apply, Deploy
    <3> QED BY <2>4, <3>1, <3>2, <3>3, <3>4 DEF Deploy
  <2>5. CASE Remove
    BY <2>1, <2>2, <2>5 DEF Remove, RemoveApplication
  <2>6. CASE DeployFails \/ RecordDeploymentsFails
    BY <2>1, <2>6 DEF DeployFails, RecordDeploymentsFails
  <2>7. CASE RecordDeployments
    <3>1. pass' = [pass EXCEPT !.history = g, !.target = pass.target, !.step = "Patch"]
      BY <2>7 DEF RecordDeployments, Settle
    <3>2. HasPending(g) <=> HasPending(h)
      BY <1>1, RecordsPromotions
    <3> HIDE DEF g
    <3> QED BY <1>1, <3>1, <3>2 DEF PassStates
  <2> QED BY <2>4, <2>5, <2>6, <2>7
<1>3. Retries'
  BY <1>1, <1>2 DEF Retries, Pursued
<1>4. pass'.step \in {"Remove", "Finalize"} => pass.base.life # "Live"
  BY <1>1, <1>2 DEF Pursued, Lives
<1> QED
  BY <1>1, <1>2, <1>3, <1>4, PassPursued

\* Every way a pass ends leaves what is pending in the timer, if it is from a
\* copy of what the Serving holds now.
LEMMA EndPursued ==
  ASSUME Inductive, Copies, Pursued, PatchStatus \/ PatchStatusFails \/ Finalize
  PROVE  Pursued'
<1>1. /\ pass.step \in {"Patch", "Finalize"} /\ pass \in PassStates
      /\ serving \in Servings /\ timer \in BOOLEAN
      /\ UNCHANGED <<seen, queued>> /\ pass' = Idle /\ pass'.step = "Idle"
  BY InPass
     DEF PatchStatus, PatchStatusFails, Finalize, Failure, world, objVars,
         Inductive, TypeOK, Idle
<1>2. \/ serving' = serving
      \/ serving' = [serving EXCEPT !.life = "Gone"]
      \/ serving' = [serving EXCEPT !.history = pass.history, !.target = pass.target]
  BY DEF PatchStatus, PatchStatusFails, Finalize, objVars
<1>3. serving'.life # serving.life => serving'.life = "Gone"
  BY <1>1, <1>2 DEF Servings
<1>4. Lives' /\ Retries'
  BY <1>1, <1>3 DEF Pursued, Lives, Retries
<1>5. ASSUME serving'.life = "Live", HasPending(serving'.history) PROVE Awaited'
  <2>1. serving.life = "Live" /\ (pass.step # "Idle" => pass.base.life = "Live")
    BY <1>1, <1>3, <1>5 DEF Pursued, Lives
  <2>2. CASE timer'
    BY <1>1, <2>2 DEF Awaited
  <2>3. CASE PatchStatus
    <3>1. CASE /\ pass.history = pass.base.history
               /\ timer' = (timer \/ pass.requeue)
               /\ UNCHANGED serving
      <4>1. HasPending(serving.history) /\ Awaited
        BY <1>5, <2>1, <3>1 DEF Pursued
      <4>2. CASE pass.base.history = serving.history
        BY <1>1, <2>1, <2>2, <3>1, <4>1, <4>2 DEF Pursued, Retries
      <4>3. CASE pass.base.history # serving.history
        BY <1>1, <3>1, <4>1, <4>3 DEF Awaited
      <4> QED BY <4>2, <4>3
    <3>2. CASE /\ serving' = [serving EXCEPT !.history = pass.history,
                                             !.target  = pass.target]
               /\ timer' = (timer \/ pass.requeue)
      <4>1. serving'.history = pass.history /\ pass.step = "Patch"
        BY <1>1, <2>3, <3>2 DEF Servings, PatchStatus
      <4> QED BY <1>5, <2>1, <2>2, <3>2, <4>1 DEF Pursued, Retries
    <3>3. CASE timer' = (timer \/ pass.requeue \/ serving.life # "Gone")
      BY <2>1, <2>2, <3>3
    <3> QED BY <2>3, <3>1, <3>2, <3>3 DEF PatchStatus
  <2>4. CASE PatchStatusFails
    BY <2>2, <2>4 DEF PatchStatusFails
  <2>5. CASE Finalize
    BY <1>1, <2>1, <2>5 DEF Finalize, Pursued, Lives
  <2> QED BY <2>3, <2>4, <2>5
<1> QED BY <1>4, <1>5 DEF Pursued

\* What a pass takes from the queue it looks at, and what the timer holds it
\* queues with a fresh copy; the writes of others leave the history.
LEMMA WorldPursued ==
  ASSUME Inductive, Copies, Pursued,
         \/ StartPass \/ Requeue \/ Crash \/ Informers \/ ArgoCD \/ Tick
         \/ Environment
  PROVE  Pursued'
<1>1. CASE StartPass
  BY <1>1 DEF StartPass, Pursued, Lives, Retries, Awaited, Idle, objVars
<1>2. CASE Requeue
  BY <1>2 DEF Requeue, Copies, Pursued, Lives, Retries, Awaited, objVars
<1>3. CASE Crash
  BY <1>3 DEF Crash, Pursued, Lives, Retries, Awaited, Idle
<1>4. CASE SyncServing
  BY <1>4 DEF SyncServing, Pursued, Lives, Retries, Awaited
<1>5. CASE SyncApplication \/ ArgoCD \/ Tick
  <2>1. UNCHANGED <<objVars, pass, timer>>
    BY <1>5 DEF SyncApplication, ArgoCD, ArgoCompares, ArgoSyncs, ArgoTurnsHealthy,
                ArgoTurnsDegraded, ArgoReports, Tick
  <2>2. queued => queued'
    <3>1. CASE SyncApplication
      BY <3>1, Zenon DEF SyncApplication
    <3>2. CASE ArgoCD \/ Tick
      BY <3>2 DEF ArgoCD, ArgoCompares, ArgoSyncs, ArgoTurnsHealthy,
                  ArgoTurnsDegraded, ArgoReports, Tick
    <3> QED BY <1>5, <3>1, <3>2
  <2> QED BY <2>1, <2>2 DEF Pursued, Lives, Retries, Awaited, objVars
<1>6. CASE ChangeOrder \/ ChangeGate \/ ChangeSite
  <2>1. UNCHANGED <<objVars, pass, timer>> /\ queued'
    BY <1>6 DEF ChangeOrder, ChangeGate, ChangeSite, Edit
  <2> QED BY <2>1 DEF Pursued, Lives, Retries, Awaited, objVars
<1>7. CASE ChangeWanted \/ DeleteServing
  <2>1. /\ serving'.history = serving.history
        /\ serving'.life # "Live" \/ serving'.life = serving.life
        /\ UNCHANGED <<seen, queued, timer>>
    BY <1>7 DEF ChangeWanted, DeleteServing, Edit, Inductive, TypeOK, Servings
  <2>2. /\ pass'.step = pass.step
        /\ pass.step # "Idle" => /\ pass'.base = pass.base
                                 /\ pass'.history = pass.history
                                 /\ pass'.requeue = pass.requeue
    <3>1. pass.step # "Idle" => pass \in PassStates
      BY InPass
    <3> QED BY <1>7, <3>1 DEF ChangeWanted, DeleteServing, Outdate, PassStates
  <2>3. Lives'
    BY <1>7, <2>1, <2>2 DEF ChangeWanted, DeleteServing, Pursued, Lives
  <2>4. Retries'
    BY <2>2 DEF Pursued, Retries
  <2>5. serving'.life = "Live" /\ HasPending(serving'.history) => Awaited'
    BY <2>1, <2>2 DEF Pursued, Awaited
  <2> QED BY <2>3, <2>4, <2>5 DEF Pursued
<1> QED
  BY <1>1, <1>2, <1>3, <1>4, <1>5, <1>6, <1>7 DEF Informers, Environment

LEMMA InitPursued == Init => Pursued
BY DEF Init, Idle, Pursued, Lives, Retries, Awaited

LEMMA NextPursued == Inductive /\ Copies /\ Pursued /\ [Next]_vars => Pursued'
<1> SUFFICES ASSUME Inductive, Copies, Pursued, [Next]_vars PROVE Pursued'
  OBVIOUS
<1>1. CASE UNCHANGED vars
  BY <1>1 DEF vars, objVars, Pursued, Lives, Retries, Awaited
<1> QED
  BY <1>1, GatesPursued, DeployPursued, EndPursued, WorldPursued
     DEF Next, Reconcile, Pass, Failures

\* Once nothing is to be done no promotion is left half way (the requeue of
\* promote and the conflicts of patchStatus, serving_controller.go:228-231),
\* however passes on old copies, failures and crashes interleave.
THEOREM NothingPendsHolds == Spec => []NothingPends
<1>1. Init => Copies /\ Pursued
  BY InitRefines, InitPursued
<1>2. Inductive /\ Copies /\ Pursued /\ [Next]_vars => Copies' /\ Pursued'
  BY NextCopies, NextPursued
<1>3. Pursued => NothingPends
  BY DEF Pursued, Awaited, NothingPends, Quiet
<1> QED
  BY <1>1, <1>2, <1>3, InductiveHolds, PTL DEF Spec

-----------------------------------------------------------------------------
(* No wake-up is lost: what the passes that need no other one leave behind. *)

\* The pending entry did not end, and nothing that was replaced is deployed.
Current(h) ==
  /\ HasPending(h) => h[1].endReason = NotEnded
  /\ IsDeployed(h) => Deployed(h).endReason # Superseded

\* s is b, with deployment records added or renewed.
Amends(b, s) ==
  /\ DOMAIN s = DOMAIN b
  /\ \A i \in DOMAIN b :
       /\ s[i] = [b[i] EXCEPT !.deploymentRecord = s[i].deploymentRecord]
       /\ b[i].deploymentRecord # NoRecord => s[i].deploymentRecord # NoRecord

\* A pass on b knows what s has deployed, or cannot leave b as it is.
Suffices(b, s) == HasPending(b) \/ Amends(b, s)

\* Argo CD reports health on p, once the Application is at p.
Shows(a, p, health) ==
  StateOf([a EXCEPT !.at = p]) = [revision |-> p, health |-> health]

\* The history says what Argo CD reports of what is deployed.
Noted(h, a) ==
  LET e == Deployed(h)
  IN  /\ Shows(a, e.preparation, "Healthy") => Running(e) /\ e.healthy # Never
      /\ Shows(a, e.preparation, "Degraded") => e.endReason = Degraded

Kept(h, a) ==
  Shows(a, Deployed(h).preparation, "Healthy") => Deployed(h).deploymentRecord # NoRecord

\* The Order may deploy what h has deployed.
Deployable(h) ==
  /\ order # "Missing" /\ site = "Admitted"
  /\ IsDeployed(h) /\ Passes(Deployed(h).preparation, "Exists")

\* Fresh copies are what they copy.
Cached ==
  /\ appFresh => seenApp = app
  /\ pass.step # "Idle" /\ pass.fresh => seenFresh

Currents ==
  /\ Current(serving.history)
  /\ Current(seen.history)
  /\ pass.step # "Idle" => Current(pass.history) /\ Current(pass.base.history)

\* The Order did not change since the pass read it, or queued the Serving.
Modes ==
  pass.step \notin {"Idle", "Promote", "Remove", "Finalize"} /\ ~queued /\ ~pass.requeue
    => pass.mode = order

\* A pass that asks for no other one changed the history by settling what is
\* pending, or by recording deployments.
Turns ==
  pass.step # "Idle" /\ ~pass.requeue => Suffices(pass.base.history, pass.history)

\* No copy of the Serving that is behind is the last one looked at, unless it
\* suffices.
Behind ==
  /\ ~timer => Suffices(seen.history, serving.history)
  /\ pass.step # "Idle" /\ ~timer /\ ~queued =>
       Suffices(pass.base.history, serving.history)

\* Once no pass is to run, the Application is at what is deployed, and the
\* history says what the cache holds of it.  An Application the cache does not
\* hold is new to it.
Rests ==
  /\ pass.step = "Idle" /\ ~queued /\ ~timer
  /\ serving.life = "Live" /\ Deployable(serving.history)
  => /\ app.at = Deployed(serving.history).preparation
     /\ seenApp # NoApp =>
          Noted(serving.history, seenApp) /\ Kept(serving.history, seenApp)

\* The same of a pass that looked and asks for no other one.
Saw ==
  /\ pass.step \in {"Report", "Patch"} /\ ~queued /\ ~timer /\ ~pass.requeue
  /\ Deployable(pass.history)
  => /\ app.at = Deployed(pass.history).preparation
     /\ seenApp # NoApp =>
          /\ Noted(pass.history, seenApp)
          /\ pass.step = "Patch" => Kept(pass.history, seenApp)

\* The invariant behind NoLostWakeup, on top of Inductive, Copies and Pursued.
Noticed == Cached /\ Currents /\ Modes /\ Turns /\ Behind /\ Rests /\ Saw

\* A history amends itself.
LEMMA AmendsItself ==
  ASSUME NEW h \in Seq(Entries)
  PROVE  Amends(h, h) /\ Suffices(h, h)
<1>1. \A i \in DOMAIN h : h[i] \in Entries
  OBVIOUS
<1> QED BY <1>1 DEF Amends, Suffices, Entries, EntriesOf

LEMMA AmendsAgain ==
  ASSUME NEW b \in Seq(Entries), NEW h \in Seq(Entries), NEW s \in Seq(Entries),
         Amends(b, h), Amends(h, s)
  PROVE  Amends(b, s)
<1> SUFFICES ASSUME NEW i \in DOMAIN b
             PROVE  /\ s[i] = [b[i] EXCEPT !.deploymentRecord = s[i].deploymentRecord]
                    /\ b[i].deploymentRecord # NoRecord =>
                         s[i].deploymentRecord # NoRecord
  BY DEF Amends
<1>1. /\ h[i] = [b[i] EXCEPT !.deploymentRecord = h[i].deploymentRecord]
      /\ s[i] = [h[i] EXCEPT !.deploymentRecord = s[i].deploymentRecord]
      /\ b[i].deploymentRecord # NoRecord => h[i].deploymentRecord # NoRecord
      /\ h[i].deploymentRecord # NoRecord => s[i].deploymentRecord # NoRecord
      /\ b[i] \in Entries /\ h[i] \in Entries /\ s[i] \in Entries
  BY DEF Amends
<1> QED BY <1>1 DEF Entries, EntriesOf

\* What amends a history has the same promotions.
LEMMA AmendsDeployed ==
  ASSUME NEW rs, NEW qs, NEW b, NEW s, GoodHistory(b, rs), GoodHistory(s, qs),
         Amends(b, s)
  PROVE  /\ HasPending(s) <=> HasPending(b)
         /\ HasPending(b) => s[1].endReason = b[1].endReason
         /\ IsDeployed(s) <=> IsDeployed(b)
         /\ IsDeployed(b) =>
              /\ Deployed(s).preparation = Deployed(b).preparation
              /\ Deployed(s).healthy = Deployed(b).healthy
              /\ Deployed(s).ended = Deployed(b).ended
              /\ Deployed(s).endReason = Deployed(b).endReason
              /\ Deployed(b).deploymentRecord # NoRecord =>
                   Deployed(s).deploymentRecord # NoRecord
<1>1. /\ b \in Seq(Entries) /\ s \in Seq(Entries) /\ DOMAIN s = DOMAIN b
  BY GoodType DEF Amends
<1>2. ASSUME NEW i \in DOMAIN b
      PROVE  /\ s[i].preparation = b[i].preparation
             /\ s[i].healthy = b[i].healthy
             /\ s[i].ended = b[i].ended
             /\ s[i].endReason = b[i].endReason
             /\ s[i].promotionRecord = b[i].promotionRecord
             /\ b[i].deploymentRecord # NoRecord => s[i].deploymentRecord # NoRecord
  <2>1. /\ b[i] \in Entries
        /\ s[i] = [b[i] EXCEPT !.deploymentRecord = s[i].deploymentRecord]
    BY <1>1, <1>2 DEF Amends
  <2> QED BY <1>2, <2>1 DEF Amends, Entries, EntriesOf
<1>3. HasPending(s) <=> HasPending(b)
  <2>1. (b # << >> <=> 1 \in DOMAIN b) /\ (s # << >> <=> 1 \in DOMAIN s)
    BY <1>1
  <2> QED BY <1>1, <1>2, <2>1 DEF HasPending, Promoted
<1>4. HasPending(b) => 1 \in DOMAIN b
  BY <1>1 DEF HasPending
<1> DEFINE k == IF HasPending(b) THEN 2 ELSE 1
<1>5. /\ IsDeployed(b) <=> k \in DOMAIN b
      /\ IsDeployed(b) => Deployed(b) = b[k]
      /\ IsDeployed(s) <=> k \in DOMAIN s
      /\ IsDeployed(s) => Deployed(s) = s[k]
  BY <1>3, DeployedAt
<1> HIDE DEF k
<1> QED BY <1>1, <1>2, <1>3, <1>4, <1>5

LEMMA AmendsCurrent ==
  ASSUME NEW rs, NEW qs, NEW b, NEW s, GoodHistory(b, rs), GoodHistory(s, qs),
         Amends(b, s), Current(b)
  PROVE  Current(s)
BY AmendsDeployed DEF Current

\* What says what is reported still does once it is amended.
LEMMA AmendsNoted ==
  ASSUME NEW rs, NEW qs, NEW b, NEW s, GoodHistory(b, rs), GoodHistory(s, qs),
         Amends(b, s), IsDeployed(b), NEW a
  PROVE  /\ Noted(b, a) => Noted(s, a)
         /\ Kept(b, a) => Kept(s, a)
BY AmendsDeployed DEF Noted, Kept, Running

\* Recording the deployments amends the history, with a record for each.
LEMMA RecordsAmend ==
  ASSUME NEW rs, NEW h, GoodHistory(h, rs)
  PROVE  LET g == WithRecords(h, ToRecord(h))
         IN  /\ Amends(h, g)
             /\ \A i \in ToRecord(h) : g[i].deploymentRecord # NoRecord
<1> DEFINE todo == ToRecord(h)
           g == WithRecords(h, todo)
           same(i) == {j \in todo : /\ h[j].preparation = h[i].preparation
                                    /\ h[j].healthy = h[i].healthy}
<1>1. h \in Seq(Entries) /\ DOMAIN g = DOMAIN h /\ DOMAIN h = 1 .. Len(h) /\ Len(h) \in Nat
  BY GoodType DEF WithRecords
<1>2. todo \subseteq 1 .. Len(h)
  BY <1>1 DEF ToRecord, Unrecorded
<1>3. \A i \in todo : RecordOf(h[i]) # NoRecord
  <2>1. {RecordOf(h[i]) : i \in todo} \subseteq DeploymentRecords
    BY RecordsGood
  <2> QED BY <2>1, NoRecordAssumption
<1>4. ASSUME NEW i \in DOMAIN h
      PROVE  \/ same(i) = {} /\ g[i] = h[i]
             \/ \E r : r # NoRecord /\ g[i] = [h[i] EXCEPT !.deploymentRecord = r]
  <2>1. CASE same(i) = {}
    BY <1>4, <2>1 DEF WithRecords
  <2>2. CASE same(i) # {}
    <3> DEFINE j == CHOOSE j \in same(i) : \A k \in same(i) : k <= j
               r == RecordOf(h[j])
    <3>1. same(i) \in SUBSET (1 .. Len(h))
      BY <1>2
    <3>2. \E m \in same(i) : \A k \in same(i) : k <= m
      BY <1>1, <2>2, <3>1, LastExists
    <3>3. j \in same(i)
      BY <3>2
    <3>4. g[i] = [h[i] EXCEPT !.deploymentRecord = r]
      BY <1>4, <2>2 DEF WithRecords
    <3>5. r # NoRecord
      BY <1>3, <3>3
    <3> HIDE DEF r, g
    <3> QED BY <3>4, <3>5
  <2> QED BY <2>1, <2>2
<1>5. \A i \in DOMAIN h : h[i] \in Entries
  BY <1>1
<1>6. \A i \in todo : i \in same(i)
  OBVIOUS
<1> HIDE DEF g, same
<1>7. \A i \in DOMAIN h :
        /\ g[i] = [h[i] EXCEPT !.deploymentRecord = g[i].deploymentRecord]
        /\ h[i].deploymentRecord # NoRecord => g[i].deploymentRecord # NoRecord
        /\ i \in todo => g[i].deploymentRecord # NoRecord
  BY <1>4, <1>5, <1>6 DEF Entries, EntriesOf
<1> QED
  BY <1>1, <1>2, <1>7 DEF Amends, g

\* What a pass makes of a history leaves it current.
LEMMA MethodsCurrent ==
  ASSUME NEW rs, NEW h, GoodHistory(h, rs), Current(h)
  PROVE  /\ Current(Drop(h))
         /\ \A p \in Preps, t \in Nat \ {Never} : Current(Open(h, p, t))
         /\ \A mode \in Orders :
              HasPending(h) =>
                Current(Start(h, PromotionRecord(h[1], mode, PreviousOf(h))))
         /\ \A revision, health : \A t \in Nat \ {Never} :
              Current(Observe(h, revision, health, t))
         /\ Current(WithRecords(h, ToRecord(h)))
<1>1. Current(Drop(h))
  <2>1. ~HasPending(Drop(h))
    BY DropShape DEF GoodHistory
  <2> QED BY <2>1, DropPromotions DEF Current
<1>2. ASSUME NEW p \in Preps, NEW t \in Nat \ {Never}
      PROVE  Current(Open(h, p, t))
  BY <1>2, OpenPromotions DEF Current
<1>3. ASSUME NEW mode \in Orders, HasPending(h)
      PROVE  Current(Start(h, PromotionRecord(h[1], mode, PreviousOf(h))))
  <2> DEFINE g == Start(h, PromotionRecord(h[1], mode, PreviousOf(h)))
  <2>1. ~HasPending(g) /\ Deployed(g).endReason = h[1].endReason
    BY <1>3, StartPromotions
  <2> HIDE DEF g
  <2>2. Current(g)
    BY <1>3, <2>1 DEF Current, NotEnded, Superseded
  <2> QED BY <2>2 DEF g
<1>4. ASSUME NEW t \in Nat \ {Never}, NEW revision, NEW health
      PROVE  Current(Observe(h, revision, health, t))
  <2> DEFINE g == Observe(h, revision, health, t)
  <2>1. /\ HasPending(g) <=> HasPending(h)
        /\ IsDeployed(g) <=> IsDeployed(h)
        /\ HasPending(h) => g[1] = h[1]
        /\ IsDeployed(h) =>
             Deployed(g).endReason \in {Deployed(h).endReason, NotEnded, Degraded}
    BY <1>4, ObservePromotions
  <2> HIDE DEF g
  <2>2. Current(g)
    BY <2>1 DEF Current, NotEnded, Superseded, Degraded
  <2> QED BY <2>2 DEF g
<1>5. Current(WithRecords(h, ToRecord(h)))
  <2>1. Amends(h, WithRecords(h, ToRecord(h)))
    BY RecordsAmend
  <2>2. GoodHistory(WithRecords(h, ToRecord(h)),
                    rs \cup {RecordOf(h[i]) : i \in ToRecord(h)})
    BY RecordsGood
  <2> QED BY <2>1, <2>2, AmendsCurrent
<1> QED BY <1>1, <1>2, <1>3, <1>4, <1>5

\* What wakes nobody up leaves what Argo CD reports.
LEMMA WatchedShows ==
  ASSUME NEW a \in Apps, NEW b \in Apps, Watched(a) = Watched(b), NEW p, NEW h
  PROVE  Shows(a, p, h) <=> Shows(b, p, h)
<1> DEFINE x == [a EXCEPT !.at = p]
           y == [b EXCEPT !.at = p]
<1>1. /\ x.health = y.health /\ x.compared = y.compared
      /\ (x.live = x.compared) <=> (y.live = y.compared)
      /\ x.at = p /\ y.at = p
  BY DEF Watched, Apps
<1> HIDE DEF x, y
<1>2. StateOf(x) = StateOf(y)
  BY <1>1 DEF StateOf
<1> QED BY <1>2 DEF Shows, x, y

-----------------------------------------------------------------------------
(* What each kind of step does, as far as the invariant Noticed tells.      *)

\* The pass goes on as it was.
SamePass ==
  /\ pass'.step = pass.step
  /\ pass.step # "Idle" =>
       /\ pass'.base = pass.base /\ pass'.history = pass.history
       /\ pass'.mode = pass.mode /\ pass'.requeue = pass.requeue

\* Nothing the deployment depends on changed.
SameSite == UNCHANGED <<order, gates, site>>

\* The steps of others leave the pass, the history and where the Application
\* is to be; what else they change queues the Serving.
LEMMA WorldDoes ==
  ASSUME Inductive, Requeue \/ Informers \/ ArgoCD \/ Tick \/ Environment
  PROVE  /\ SamePass
         /\ serving'.history = serving.history
         /\ serving'.life = "Live" => serving.life = "Live"
         /\ seen' = seen \/ seen' = serving
         /\ queued => queued'
         /\ timer' = timer \/ (queued' /\ seenFresh /\ seen' = seen)
         /\ app'.at = app.at
         /\ ~queued' => SameSite
<1>1. CASE Requeue
  BY <1>1 DEF Requeue, SamePass, SameSite, world, appVars, objVars
<1>2. CASE SyncServing
  <2>1. queued => queued'
    BY <1>2, Zenon DEF SyncServing
  <2> QED BY <1>2, <2>1 DEF SyncServing, SamePass, SameSite, world, appVars
<1>3. CASE SyncApplication
  <2>1. queued => queued'
    BY <1>3, Zenon DEF SyncApplication
  <2> QED BY <1>3, <2>1 DEF SyncApplication, SamePass, SameSite, world, objVars
<1>4. CASE ArgoCD
  <2>1. /\ UNCHANGED <<order, gates, site, objVars, pass, queued, timer>>
        /\ \E c, l, x : app' \in {[app EXCEPT !.compared = c], [app EXCEPT !.health = x],
                                  [app EXCEPT !.live = l, !.health = x]}
    BY <1>4 DEF ArgoCD, ArgoCompares, ArgoSyncs, ArgoTurnsHealthy, ArgoTurnsDegraded,
                ArgoReports
  <2>2. app'.at = app.at
    BY <2>1 DEF Inductive, TypeOK, Apps
  <2> QED BY <2>1, <2>2 DEF SamePass, SameSite, objVars
<1>5. CASE Tick
  BY <1>5 DEF Tick, SamePass, SameSite, appVars, objVars
<1>6. CASE ChangeOrder \/ ChangeGate \/ ChangeSite
  BY <1>6 DEF ChangeOrder, ChangeGate, ChangeSite, Edit, SamePass, appVars, objVars
<1>7. CASE ChangeWanted \/ DeleteServing
  <2>1. /\ serving'.history = serving.history
        /\ serving'.life = "Live" => serving.life = "Live"
        /\ UNCHANGED <<order, gates, site, seen, queued, timer, appVars>>
    BY <1>7 DEF ChangeWanted, DeleteServing, Edit, Inductive, TypeOK, Servings
  <2>2. SamePass
    <3>1. pass.step # "Idle" => pass \in PassStates
      BY InPass
    <3> QED BY <1>7, <3>1 DEF ChangeWanted, DeleteServing, Outdate, PassStates, SamePass
  <2> QED BY <2>1, <2>2 DEF SameSite, appVars
<1> QED
  BY <1>1, <1>2, <1>3, <1>4, <1>5, <1>6, <1>7 DEF Informers, Environment

\* What a pass changes before it writes its status.
InsidePass ==
  /\ UNCHANGED <<objVars, queued, timer>> /\ SameSite
  /\ pass'.base = pass.base /\ pass'.fresh = pass.fresh
  /\ pass.step # "Idle" /\ pass'.step # "Idle"
  /\ pass.requeue => pass'.requeue

\* The gates: the pending promotion is dropped, or started, or kept for the
\* push; or another pass is asked for.
LEMMA GatesDo ==
  ASSUME Inductive, Copies,
         Promote \/ PromoteFails \/ PushPromotion \/ PushPromotionFails
  PROVE  /\ InsidePass /\ UNCHANGED appVars
         /\ pass.step \in {"Promote", "Push"} /\ pass'.step \in {"Push", "Deploy"}
         /\ pass.history = pass.base.history
         /\ \/ pass'.requeue
            \/ /\ pass'.mode = order \/ (pass.step = "Push" /\ pass'.mode = pass.mode)
               /\ \/ HasPending(pass.history)
                  \/ pass'.history = pass.history
         /\ \/ pass'.history = pass.history
            \/ pass'.history = Drop(pass.history)
            \/ \E p \in Preps : pass'.history = Open(pass.history, p, now)
            \/ /\ HasPending(pass.history)
               /\ \E mode \in Orders :
                    pass'.history = Start(pass.history,
                      PromotionRecord(pass.history[1], mode, PreviousOf(pass.history)))
<1> DEFINE p == Candidate(pass.base.wanted)
           h == pass.history
           r == PromotionRecord(h[1], pass.mode, PreviousOf(h))
<1>1. /\ pass.step \in {"Promote", "Push"} /\ pass \in PassStates
      /\ h = pass.base.history
      /\ UNCHANGED <<objVars, appVars, queued, timer>> /\ SameSite
  BY InPass
     DEF Promote, PromoteFails, PushPromotion, PushPromotionFails, Failure, world,
         SameSite, Copies
<1>2. p \in Preps \cup {NoPrep}
  BY <1>1, CandidateType DEF PassStates, Servings, Inductive
<1>3. ~HasPending(h) => Drop(h) = h
  BY DEF Drop
<1>4. CASE Promote
  <2> HIDE DEF p
  <2>1. CASE PromoteNothing
    BY <1>1, <1>3, <2>1 DEF PromoteNothing, PassStates, InsidePass
  <2>2. CASE p # NoPrep /\ HoldBeforeTarget(p)
    BY <1>1, <1>3, <2>2 DEF HoldBeforeTarget, PassStates, InsidePass
  <2>3. CASE p # NoPrep /\ HoldTarget(p)
    BY <1>1, <1>3, <2>3 DEF HoldTarget, PassStates, InsidePass
  <2>4. CASE p # NoPrep /\ OpenPromotion(p)
    BY <1>1, <1>2, <2>4 DEF OpenPromotion, PassStates, InsidePass
  <2>5. CASE p # NoPrep /\ DecideToRecord(p)
    BY <1>1, <2>5 DEF DecideToRecord, PassStates, InsidePass
  <2> QED BY <1>4, <2>1, <2>2, <2>3, <2>4, <2>5 DEF Promote, p
<1>5. CASE PromoteFails
  BY <1>1, <1>5 DEF PromoteFails, PassStates, InsidePass
<1>6. CASE PushPromotion
  <2>1. HasPending(h) /\ pass.mode \in Orders /\ pass.step = "Push"
    BY <1>1, <1>6 DEF PushPromotion, Inductive, PassStates
  <2>2. pass' = [pass EXCEPT !.history = Start(h, r), !.target = pass.target,
                             !.step = "Deploy"]
    BY <1>6 DEF PushPromotion, Settle
  <2> DEFINE g == Start(h, r)
  <2>3. pass'.history = g /\ HasPending(pass.history)
    BY <1>1, <2>1, <2>2 DEF PassStates
  <2>4. \E mode \in Orders :
          pass'.history = Start(pass.history,
            PromotionRecord(pass.history[1], mode, PreviousOf(pass.history)))
    BY <2>1, <2>3
  <2> HIDE DEF g
  <2>5. /\ pass'.base = pass.base /\ pass'.fresh = pass.fresh
        /\ pass'.mode = pass.mode /\ pass'.step = "Deploy"
        /\ pass'.requeue = pass.requeue
    BY <1>1, <2>2 DEF PassStates
  <2> HIDE DEF h
  <2> QED BY <1>1, <2>1, <2>3, <2>4, <2>5 DEF InsidePass, h
<1>7. CASE PushPromotionFails
  BY <1>1, <1>7 DEF PushPromotionFails, PassStates, InsidePass
<1> QED BY <1>4, <1>5, <1>6, <1>7

\* deploy changes the history only by what is reported, and asks for another
\* pass then.
LEMMA DeployDoes ==
  ASSUME Inductive, Deploy \/ DeployFails \/ Remove
  PROVE  /\ InsidePass
         /\ pass.step \in {"Deploy", "Remove"}
         /\ pass'.step = "Finalize" => pass.step = "Remove"
         /\ pass'.step \in {"Report", "Patch", "Finalize"}
         /\ pass.step = "Remove" => pass'.step = "Finalize" \/ pass'.requeue
         /\ pass'.mode = pass.mode
         /\ \/ pass'.history = pass.history
            \/ /\ pass'.requeue
               /\ \E revision, health :
                    pass'.history = Observe(pass.history, revision, health, now)
         /\ appFresh' => appFresh /\ UNCHANGED appVars
<1>1. /\ pass.step \in {"Deploy", "Remove"} /\ pass \in PassStates
      /\ UNCHANGED <<objVars, queued, timer>> /\ SameSite
  BY InPass DEF Deploy, DeployFails, Remove, Failure, world, SameSite
<1> DEFINE Does ==
             /\ InsidePass
             /\ pass'.step = "Finalize" => pass.step = "Remove"
             /\ pass'.step \in {"Report", "Patch", "Finalize"}
             /\ pass.step = "Remove" => pass'.step = "Finalize" \/ pass'.requeue
             /\ pass'.mode = pass.mode
             /\ \/ pass'.history = pass.history
                \/ /\ pass'.requeue
                   /\ \E revision, health :
                        pass'.history = Observe(pass.history, revision, health, now)
<1>2. ASSUME pass' = [pass EXCEPT !.requeue = TRUE, !.step = "Patch"]
      PROVE  Does
  BY <1>1, <1>2 DEF PassStates, InsidePass
<1>3. ASSUME NEW step \in {"Patch", "Finalize"}, Continue(step),
             step = "Finalize" <=> pass.step = "Remove"
      PROVE  Does
  BY <1>1, <1>3 DEF PassStates, InsidePass, Continue
<1>4. ASSUME NEW state, Report(state), pass.step = "Deploy"
      PROVE  Does
  <2> DEFINE o == ObservationOf(state, Deployed(pass.history).preparation)
             g == Observe(pass.history, o.revision, o.health, now)
  <2>1. /\ pass'.history = g /\ pass'.base = pass.base /\ pass'.fresh = pass.fresh
        /\ pass'.mode = pass.mode
        /\ pass'.step \in {"Report", "Patch"}
        /\ pass'.requeue = (pass.requeue \/ g # pass.history)
    BY <1>1, <1>4 DEF Report, PassStates
  <2>2. \E revision, health : g = Observe(pass.history, revision, health, now)
    OBVIOUS
  <2> HIDE DEF g
  <2> QED BY <1>1, <1>4, <2>1, <2>2 DEF InsidePass
<1> HIDE DEF Does
<1>5. CASE Deploy
  <2>1. pass.step = "Deploy"
    BY <1>5 DEF Deploy
  <2>2. ASSUME Continue("Patch") PROVE Does
    BY <1>3, <2>1, <2>2
  <2>3. ASSUME RemoveApplication("Patch") PROVE Does
    BY <1>2, <1>3, <2>1, <2>3 DEF RemoveApplication
  <2>4. ASSUME Report(NothingObserved) PROVE Does
    BY <1>4, <2>1, <2>4
  <2>5. ASSUME Apply(Deployed(pass.history).preparation) PROVE Does
    BY <1>2, <1>4, <2>1, <2>5 DEF Apply
  <2>6. Does /\ (appFresh' => appFresh /\ UNCHANGED appVars)
    <3>1. Does
      BY <1>5, <2>2, <2>3, <2>4, <2>5 DEF Deploy
    <3>2. appFresh' => appFresh /\ UNCHANGED appVars
      BY <1>5 DEF Deploy, RemoveApplication, Apply, appVars
    <3> QED BY <3>1, <3>2
  <2> QED BY <1>1, <2>6 DEF Does
<1>6. CASE DeployFails
  <2>1. Does /\ (appFresh' => appFresh /\ UNCHANGED appVars)
    BY <1>2, <1>6 DEF DeployFails, appVars
  <2> QED BY <1>1, <2>1 DEF Does
<1>7. CASE Remove
  <2>1. pass.step = "Remove"
    BY <1>7 DEF Remove
  <2>2. Does /\ (appFresh' => appFresh /\ UNCHANGED appVars)
    BY <1>2, <1>3, <1>7, <2>1 DEF Remove, RemoveApplication, appVars
  <2> QED BY <1>1, <2>2 DEF Does
<1> QED BY <1>5, <1>6, <1>7

\* The deployments are recorded, or another pass is asked for.
LEMMA RecordDeploymentsDo ==
  ASSUME Inductive, RecordDeployments \/ RecordDeploymentsFails
  PROVE  /\ InsidePass /\ UNCHANGED appVars
         /\ pass.step = "Report" /\ pass'.step = "Patch"
         /\ pass'.mode = pass.mode
         /\ \/ pass'.history = WithRecords(pass.history, ToRecord(pass.history))
            \/ /\ pass'.requeue
               /\ pass'.history = pass.history
<1> DEFINE g == WithRecords(pass.history, ToRecord(pass.history))
<1>1. /\ pass.step = "Report" /\ pass \in PassStates
      /\ UNCHANGED <<objVars, appVars, queued, timer>> /\ SameSite
  BY InPass DEF RecordDeployments, RecordDeploymentsFails, Failure, world, SameSite
<1>2. \/ pass' = [pass EXCEPT !.history = g, !.target = pass.target, !.step = "Patch"]
      \/ pass' = [pass EXCEPT !.requeue = TRUE, !.step = "Patch"]
  BY DEF RecordDeployments, RecordDeploymentsFails, Settle
<1> HIDE DEF g
<1>3. /\ InsidePass /\ pass'.step = "Patch" /\ pass'.mode = pass.mode
      /\ pass'.history = g \/ (pass'.requeue /\ pass'.history = pass.history)
  BY <1>1, <1>2 DEF PassStates, InsidePass
<1> QED BY <1>1, <1>3 DEF g

\* A pass that is over wrote its status, had nothing to write, or is to run
\* again.
LEMMA EndDoes ==
  ASSUME Inductive, Copies, PatchStatus \/ PatchStatusFails \/ Finalize
  PROVE  /\ pass'.step = "Idle" /\ pass.step \in {"Patch", "Finalize"}
         /\ UNCHANGED <<seen, queued, appVars>> /\ SameSite
         /\ seenFresh' => seenFresh
         /\ \/ /\ pass.step = "Patch" /\ pass.history = pass.base.history
               /\ serving' = serving /\ timer' = (timer \/ pass.requeue)
            \/ /\ pass.step = "Patch" /\ pass.fresh /\ pass.base = serving
               /\ serving'.history = pass.history /\ serving'.life = serving.life
               /\ timer' = (timer \/ pass.requeue)
            \/ /\ serving'.history = serving.history
               /\ timer => timer'
               /\ timer' \/ pass.step = "Finalize" \/ serving'.life = "Gone"
<1>1. /\ pass.step \in {"Patch", "Finalize"} /\ pass \in PassStates
      /\ serving \in Servings /\ pass'.step = "Idle"
      /\ UNCHANGED <<seen, queued, appVars>> /\ SameSite
  BY InPass
     DEF PatchStatus, PatchStatusFails, Finalize, Failure, world, objVars, Inductive,
         TypeOK, Idle, SameSite
<1>2. CASE PatchStatus
  <2>1. pass.step = "Patch"
    BY <1>2 DEF PatchStatus
  <2>2. CASE /\ pass.history = pass.base.history
             /\ timer' = (timer \/ pass.requeue)
             /\ UNCHANGED <<serving, seenFresh>>
    BY <1>1, <2>1, <2>2
  <2>3. CASE /\ pass.fresh
             /\ serving' = [serving EXCEPT !.history = pass.history,
                                           !.target  = pass.target]
             /\ seenFresh' = FALSE
             /\ timer' = (timer \/ pass.requeue)
    BY <1>1, <2>1, <2>3 DEF Copies, Servings
  <2>4. CASE /\ timer' = (timer \/ pass.requeue \/ serving.life # "Gone")
             /\ UNCHANGED <<serving, seenFresh>>
    <3>1. (timer => timer') /\ (timer' \/ serving.life = "Gone")
      BY <2>4
    <3> QED BY <1>1, <2>4, <3>1
  <2> QED BY <1>2, <2>2, <2>3, <2>4 DEF PatchStatus
<1>3. CASE PatchStatusFails
  BY <1>1, <1>3 DEF PatchStatusFails, objVars
<1>4. CASE Finalize
  <2>1. /\ pass.step = "Finalize" /\ serving'.history = serving.history
        /\ seenFresh' => seenFresh
    BY <1>1, <1>4 DEF Finalize, Servings
  <2>2. timer => timer'
    BY <1>4, Zenon DEF Finalize
  <2> QED BY <1>1, <2>1, <2>2
<1> QED BY <1>1, <1>2, <1>3, <1>4

-----------------------------------------------------------------------------
(* Every step keeps the invariant Noticed.                                  *)

\* The actions, sorted by what the lemmas above say of them.
LEMMA NextIs ==
  ASSUME [Next]_vars
  PROVE  \/ UNCHANGED vars
         \/ Requeue \/ Informers \/ ArgoCD \/ Tick \/ Environment
         \/ Crash
         \/ StartPass
         \/ Promote \/ PromoteFails \/ PushPromotion \/ PushPromotionFails
         \/ Deploy \/ DeployFails \/ Remove
         \/ RecordDeployments \/ RecordDeploymentsFails
         \/ PatchStatus \/ PatchStatusFails \/ Finalize
BY DEF Next, Reconcile, Pass, Failures

\* A pass starts on the copy in the cache.
LEMMA StartDoes ==
  ASSUME Inductive, StartPass
  PROVE  /\ UNCHANGED <<objVars, appVars, timer>> /\ SameSite
         /\ pass.step = "Idle" /\ pass'.step \in {"Idle", "Promote", "Remove"}
         /\ pass'.step = "Idle" => seen.life = "Gone"
         /\ pass'.step # "Idle" =>
              /\ pass'.base = seen /\ pass'.history = seen.history
              /\ pass'.fresh = seenFresh
BY DEF StartPass, Idle, SameSite, world

\* A fresh copy in a pass is the one in the cache.
LEMMA NextCached ==
  ASSUME Inductive, Copies, Cached, [Next]_vars
  PROVE  Cached'
<1>1. CASE UNCHANGED vars
  BY <1>1 DEF vars, appVars, objVars, Cached
<1>2. CASE Requeue \/ Tick \/ ChangeOrder \/ ChangeGate \/ ChangeSite
  BY <1>2 DEF Requeue, Tick, ChangeOrder, ChangeGate, ChangeSite, Edit, appVars, objVars,
              Cached
<1>3. CASE ChangeWanted \/ DeleteServing
  <2>1. pass.step # "Idle" => pass \in PassStates
    BY InPass
  <2> QED BY <1>3, <2>1 DEF ChangeWanted, DeleteServing, Edit, Outdate, appVars,
                            PassStates, Cached
<1>4. CASE Informers
  <2>1. CASE SyncServing
    <3>1. seenFresh' /\ UNCHANGED <<appVars, pass>>
      BY <2>1 DEF SyncServing
    <3> QED BY <3>1 DEF appVars, Cached
  <2>2. CASE SyncApplication
    <3>1. seenApp' = app' /\ UNCHANGED <<objVars, pass>>
      BY <2>2 DEF SyncApplication
    <3> QED BY <3>1 DEF objVars, Cached
  <2> QED BY <1>4, <2>1, <2>2 DEF Informers
<1>5. CASE ArgoCD
  BY <1>5 DEF ArgoCD, ArgoCompares, ArgoSyncs, ArgoTurnsHealthy, ArgoTurnsDegraded,
              ArgoReports, objVars, Cached
<1>6. CASE Crash
  BY <1>6 DEF Crash, Idle, Cached
<1>7. CASE StartPass
  BY <1>7, StartDoes DEF appVars, objVars, Cached
<1>8. CASE Promote \/ PromoteFails \/ PushPromotion \/ PushPromotionFails
  BY <1>8, GatesDo DEF InsidePass, appVars, objVars, Cached
<1>9. CASE Deploy \/ DeployFails \/ Remove
  BY <1>9, DeployDoes DEF InsidePass, appVars, objVars, Cached
<1>10. CASE RecordDeployments \/ RecordDeploymentsFails
  BY <1>10, RecordDeploymentsDo DEF InsidePass, appVars, objVars, Cached
<1>11. CASE PatchStatus \/ PatchStatusFails \/ Finalize
  BY <1>11, EndDoes DEF appVars, Cached
<1> QED
  BY <1>1, <1>2, <1>3, <1>4, <1>5, <1>6, <1>7, <1>8, <1>9, <1>10, <1>11, NextIs
     DEF Environment

\* Every copy of the history is current.
LEMMA NextCurrents ==
  ASSUME Inductive, Copies, Currents, [Next]_vars
  PROVE  Currents'
<1>1. /\ pass.step # "Idle" =>
           GoodHistory(pass.history, records) /\ Current(pass.history)
      /\ now \in Nat \ {Never}
  BY InPass DEF Inductive, TypeOK, Currents
<1>2. CASE UNCHANGED vars
  BY <1>2 DEF vars, objVars, Currents
<1>3. CASE Requeue \/ Informers \/ ArgoCD \/ Tick \/ Environment
  BY <1>3, WorldDoes DEF SamePass, Currents
<1>4. CASE Crash
  BY <1>4 DEF Crash, Idle, Currents
<1>5. CASE StartPass
  BY <1>5, StartDoes DEF objVars, Currents
<1>6. CASE Promote \/ PromoteFails \/ PushPromotion \/ PushPromotionFails
  <2>1. InsidePass
    BY <1>6, GatesDo
  <2>2. Current(pass'.history)
    BY <1>1, <1>6, <2>1, GatesDo, MethodsCurrent DEF InsidePass
  <2> QED BY <2>1, <2>2 DEF InsidePass, objVars, Currents
<1>7. CASE Deploy \/ DeployFails \/ Remove
  <2>1. InsidePass
    BY <1>7, DeployDoes
  <2>2. Current(pass'.history)
    BY <1>1, <1>7, <2>1, DeployDoes, MethodsCurrent DEF InsidePass
  <2> QED BY <2>1, <2>2 DEF InsidePass, objVars, Currents
<1>8. CASE RecordDeployments \/ RecordDeploymentsFails
  <2>1. InsidePass
    BY <1>8, RecordDeploymentsDo
  <2>2. Current(pass'.history)
    BY <1>1, <1>8, <2>1, RecordDeploymentsDo, MethodsCurrent DEF InsidePass
  <2> QED BY <2>1, <2>2 DEF InsidePass, objVars, Currents
<1>9. CASE PatchStatus \/ PatchStatusFails \/ Finalize
  BY <1>1, <1>9, EndDoes DEF Currents
<1> QED
  BY <1>2, <1>3, <1>4, <1>5, <1>6, <1>7, <1>8, <1>9, NextIs

\* A pass knows the Order as it is, or another pass is to run.
LEMMA NextModes ==
  ASSUME Inductive, Copies, Modes, [Next]_vars
  PROVE  Modes'
<1>1. CASE UNCHANGED vars
  BY <1>1 DEF vars, world, Modes
<1>2. CASE Requeue \/ Informers \/ ArgoCD \/ Tick \/ Environment
  BY <1>2, WorldDoes DEF SamePass, SameSite, Modes
<1>3. CASE Crash
  BY <1>3 DEF Crash, Idle, Modes
<1>4. CASE StartPass
  BY <1>4, StartDoes DEF Modes
<1>5. CASE Promote \/ PromoteFails \/ PushPromotion \/ PushPromotionFails
  BY <1>5, GatesDo DEF InsidePass, SameSite, Modes
<1>6. CASE Deploy \/ DeployFails \/ Remove
  BY <1>6, DeployDoes DEF InsidePass, SameSite, Modes
<1>7. CASE RecordDeployments \/ RecordDeploymentsFails
  BY <1>7, RecordDeploymentsDo DEF InsidePass, SameSite, Modes
<1>8. CASE PatchStatus \/ PatchStatusFails \/ Finalize
  BY <1>8, EndDoes DEF Modes
<1> QED
  BY <1>1, <1>2, <1>3, <1>4, <1>5, <1>6, <1>7, <1>8, NextIs

\* What a pass did so far a pass on the same copy does again, or it amends.
LEMMA NextTurns ==
  ASSUME Inductive, Copies, Turns, [Next]_vars
  PROVE  Turns'
<1>1. pass.step # "Idle" =>
        /\ GoodHistory(pass.history, records) /\ GoodHistory(pass.base.history, records)
        /\ pass.history \in Seq(Entries) /\ pass.base.history \in Seq(Entries)
  BY InPass, GoodType
<1>2. CASE UNCHANGED vars
  BY <1>2 DEF vars, Turns
<1>3. CASE Requeue \/ Informers \/ ArgoCD \/ Tick \/ Environment
  BY <1>3, WorldDoes DEF SamePass, Turns
<1>4. CASE Crash
  BY <1>4 DEF Crash, Idle, Turns
<1>5. CASE StartPass
  <2>1. seen.history \in Seq(Entries)
    BY GoodType DEF Inductive
  <2> QED BY <1>5, <2>1, StartDoes, AmendsItself DEF Turns
<1>6. CASE Promote \/ PromoteFails \/ PushPromotion \/ PushPromotionFails
  BY <1>1, <1>6, GatesDo, AmendsItself DEF InsidePass, Turns, Suffices
<1>7. CASE Deploy \/ DeployFails \/ Remove
  BY <1>7, DeployDoes DEF InsidePass, Turns
<1>8. CASE RecordDeployments \/ RecordDeploymentsFails
  <2> DEFINE g == WithRecords(pass.history, ToRecord(pass.history))
  <2>1. /\ InsidePass
        /\ pass'.history = g \/ (pass'.requeue /\ pass'.history = pass.history)
    BY <1>8, RecordDeploymentsDo
  <2>2. Amends(pass.history, g) /\ g \in Seq(Entries)
    BY <1>1, <2>1, RecordsAmend, RecordsGood, GoodType DEF InsidePass
  <2> HIDE DEF g
  <2>3. Amends(pass.base.history, pass.history) => Amends(pass.base.history, g)
    BY <1>1, <2>1, <2>2, AmendsAgain DEF InsidePass
  <2> QED BY <2>1, <2>3 DEF InsidePass, Turns, Suffices
<1>9. CASE PatchStatus \/ PatchStatusFails \/ Finalize
  BY <1>9, EndDoes DEF Turns
<1> QED
  BY <1>2, <1>3, <1>4, <1>5, <1>6, <1>7, <1>8, <1>9, NextIs

\* A status write leaves copies behind that suffice, or asks for another pass.
LEMMA NextBehind ==
  ASSUME Inductive, Copies, Cached, Turns, Behind, [Next]_vars
  PROVE  Behind'
<1>1. serving.history \in Seq(Entries)
  BY GoodType DEF Inductive
<1>2. Suffices(serving.history, serving.history)
  BY <1>1, AmendsItself
<1>3. CASE UNCHANGED vars
  BY <1>3 DEF vars, objVars, Behind
<1>4. CASE Requeue \/ Informers \/ ArgoCD \/ Tick \/ Environment
  <2>1. /\ SamePass
        /\ serving'.history = serving.history
        /\ seen' = seen \/ seen' = serving
        /\ queued => queued'
        /\ timer' = timer \/ (queued' /\ seenFresh /\ seen' = seen)
    BY <1>4, WorldDoes
  <2>2. seenFresh => seen = serving
    BY DEF Copies
  <2> QED BY <1>2, <2>1, <2>2 DEF SamePass, Behind
<1>5. CASE Crash
  BY <1>2, <1>5 DEF Crash, Idle, Behind
<1>6. CASE StartPass
  BY <1>6, StartDoes DEF objVars, Behind
<1>7. CASE Promote \/ PromoteFails \/ PushPromotion \/ PushPromotionFails
  BY <1>7, GatesDo DEF InsidePass, objVars, Behind
<1>8. CASE Deploy \/ DeployFails \/ Remove
  BY <1>8, DeployDoes DEF InsidePass, objVars, Behind
<1>9. CASE RecordDeployments \/ RecordDeploymentsFails
  BY <1>9, RecordDeploymentsDo DEF InsidePass, objVars, Behind
<1>10. CASE PatchStatus \/ PatchStatusFails \/ Finalize
  <2>1. /\ pass'.step = "Idle" /\ pass.step # "Idle" /\ seen' = seen
        /\ \/ serving'.history = serving.history /\ (timer => timer')
           \/ /\ pass.fresh /\ pass.base = serving /\ serving'.history = pass.history
              /\ timer' = (timer \/ pass.requeue)
    BY <1>10, EndDoes
  <2>2. pass.fresh => seen = serving
    BY <2>1 DEF Cached, Copies
  <2> QED BY <2>1, <2>2 DEF Turns, Behind
<1> QED
  BY <1>3, <1>4, <1>5, <1>6, <1>7, <1>8, <1>9, <1>10, NextIs

\* What a pass finds that changes nothing is what the history says.
LEMMA ReportNotes ==
  ASSUME Inductive, pass.step = "Deploy", IsDeployed(pass.history),
         Current(pass.history), NEW a \in Apps,
         Report(StateOf([a EXCEPT !.at = Deployed(pass.history).preparation])),
         pass'.history = pass.history
  PROVE  /\ Noted(pass.history, a)
         /\ pass'.step = "Patch" => Kept(pass.history, a)
<1> DEFINE h == pass.history
           e == Deployed(h)
           p == e.preparation
           state == StateOf([a EXCEPT !.at = p])
           o == ObservationOf(state, p)
<1>1. /\ pass \in PassStates /\ GoodHistory(h, records) /\ now \in Nat \ {Never}
      /\ h \in Seq(Entries)
  BY InPass, GoodType DEF Inductive, TypeOK
<1>2. /\ DeployedIndex(h) \in DOMAIN h /\ e = h[DeployedIndex(h)] /\ Promoted(e)
      /\ e \in Entries
      /\ e.endReason = NotEnded <=> e.ended = Never
      /\ e.endReason # Superseded
  <2>1. DeployedIndex(h) \in DOMAIN h /\ Promoted(h[DeployedIndex(h)])
    BY <1>1, DeployedIndexIs DEF GoodHistory, Promotions
  <2>2. h[DeployedIndex(h)] \in
          RecordedEntriesOf(Preps, records \cap PromotionRecords,
                            records \cap DeploymentRecords)
    BY <1>1, <2>1 DEF GoodHistory
  <2> QED BY <1>1, <2>1, <2>2 DEF Deployed, Current, RecordedEntriesOf
<1>3. /\ Observe(h, o.revision, o.health, now) = h
      /\ pass'.step = "Patch" => Unrecorded(h) = {}
  <2>1. /\ pass'.history = Observe(h, o.revision, o.health, now)
        /\ pass'.step = IF Observe(h, o.revision, o.health, now) = h /\
                           Unrecorded(Observe(h, o.revision, o.health, now)) # {}
                        THEN "Report" ELSE "Patch"
    BY <1>1 DEF Report, PassStates
  <2> QED BY <2>1
<1>4. ASSUME Shows(a, p, "Healthy")
      PROVE  /\ Running(e) /\ e.healthy # Never
             /\ pass'.step = "Patch" => e.deploymentRecord # NoRecord
  <2>1. o.revision = p /\ o.health = "Healthy"
    BY <1>4 DEF Shows, ObservationOf
  <2> HIDE DEF o, state, p
  <2>2. ~(Running(e) /\ e.healthy = Never)
    <3>1. CASE Running(e) /\ e.healthy = Never
      <4>1. [h EXCEPT ![DeployedIndex(h)].healthy = now] = h
        BY <1>2, <1>3, <2>1, <3>1 DEF Observe, p
      <4>2. [h EXCEPT ![DeployedIndex(h)] = [e EXCEPT !.healthy = now]] = h
        BY <1>2, <4>1
      <4>3. [e EXCEPT !.healthy = now] = e
        BY <1>1, <1>2, <4>2
      <4>4. [e EXCEPT !.healthy = now].healthy = now
        BY <1>2 DEF Entries, EntriesOf
      <4> QED BY <1>1, <3>1, <4>3, <4>4
    <3> QED BY <3>1
  <2>3. e.endReason # Degraded
    <3>1. CASE e.endReason = Degraded
      <4> DEFINE i == DeployedIndex(h)
                 s == Insert(h, i, Recovery(e, now))
      <4>1. ~Running(e)
        BY <1>2, <3>1 DEF Running, Degraded, NotEnded
      <4>2. Truncate(s) = h
        BY <1>2, <1>3, <2>1, <3>1, <4>1 DEF Observe, p
      <4>3. i \in 1 .. Len(h) /\ Len(h) \in Nat /\ Len(h) <= MaxEntries
        BY <1>1, <1>2 DEF GoodHistory, OnlyNewestRuns
      <4>4. s = [j \in 1 .. Len(h) + 1 |->
                   CASE j < i -> h[j] [] j = i -> Recovery(e, now) [] j > i -> h[j - 1]]
        BY DEF Insert
      <4> HIDE DEF i
      <4>5. /\ DOMAIN s = 1 .. Len(h) + 1 /\ Len(s) = Len(h) + 1
            /\ s[i] = Recovery(e, now)
        BY <4>3, <4>4
      <4> HIDE DEF s
      <4>6. Truncate(s)[i] = s[i]
        BY <4>3, <4>5, MaxEntriesAssumption DEF Truncate
      <4>7. e = Recovery(e, now)
        BY <1>2, <4>2, <4>5, <4>6 DEF i
      <4>8. Recovery(e, now).endReason = NotEnded
        BY <1>2 DEF Recovery, Entries, EntriesOf
      <4> QED BY <3>1, <4>7, <4>8 DEF NotEnded, Degraded
    <3> QED BY <3>1
  <2>4. Running(e) /\ e.healthy # Never
    BY <1>2, <2>2, <2>3 DEF Running, Entries, EntriesOf
  <2>5. e.deploymentRecord = NoRecord => DeployedIndex(h) \in Unrecorded(h)
    BY <1>2, <2>4 DEF Unrecorded, IsUnrecorded
  <2> QED BY <1>3, <2>4, <2>5
<1>5. ASSUME Shows(a, p, "Degraded")
      PROVE  e.endReason = Degraded
  <2>1. o.revision = p /\ o.health = "Degraded"
    BY <1>5 DEF Shows, ObservationOf
  <2> HIDE DEF o, state, p
  <2>2. ~Running(e)
    <3>1. CASE Running(e)
      <4>1. [h EXCEPT ![DeployedIndex(h)].ended = now,
                      ![DeployedIndex(h)].endReason = Degraded] = h
        BY <1>2, <1>3, <2>1, <3>1 DEF Observe, p
      <4>2. [h EXCEPT ![DeployedIndex(h)] = [e EXCEPT !.ended = now, !.endReason = Degraded]]
              = h
        BY <1>1, <1>2, <4>1
      <4>3. [e EXCEPT !.ended = now, !.endReason = Degraded] = e
        BY <1>1, <1>2, <4>2
      <4>4. [e EXCEPT !.ended = now, !.endReason = Degraded].ended = now
        BY <1>2 DEF Entries, EntriesOf
      <4> QED BY <1>1, <3>1, <4>3, <4>4 DEF Running
    <3> QED BY <3>1
  <2> QED BY <1>2, <2>2 DEF Running, Entries, EntriesOf
<1> QED
  BY <1>4, <1>5 DEF Noted, Kept

\* The steps of others that queue nothing show a pass nothing new.
LEMMA WorldLooked ==
  ASSUME Inductive, Rests, Saw, Requeue \/ Informers \/ ArgoCD \/ Tick \/ Environment
  PROVE  Rests' /\ Saw'
<1>1. CASE queued'
  BY <1>1 DEF Rests, Saw
<1>2. CASE ~queued'
  <2>1. /\ SamePass /\ SameSite
        /\ serving'.history = serving.history
        /\ serving'.life = "Live" => serving.life = "Live"
        /\ ~queued /\ timer' = timer /\ app'.at = app.at
    BY <1>2, WorldDoes
  <2>2. \/ seenApp' = seenApp
        \/ SyncApplication
    BY DEF Requeue, Informers, SyncServing, ArgoCD, ArgoCompares, ArgoSyncs,
           ArgoTurnsHealthy, ArgoTurnsDegraded, ArgoReports, Tick, Environment,
           ChangeOrder, ChangeGate, ChangeSite, ChangeWanted, DeleteServing, Edit,
           appVars
  <2>3. ASSUME SyncApplication
        PROVE  /\ seenApp' = app
               /\ (seenApp = NoApp) <=> (app = NoApp)
               /\ Watched(seenApp) = Watched(app)
    <3>1. seenApp' = app /\ ~((seenApp = NoApp) # (app = NoApp))
          /\ ~(Watched(seenApp) # Watched(app))
      BY <1>2, <2>3, Zenon DEF SyncApplication
    <3> QED BY <3>1
  <2>4. /\ seenApp' # NoApp => seenApp # NoApp
        /\ \A h : Noted(h, seenApp) => Noted(h, seenApp')
        /\ \A h : Kept(h, seenApp) => Kept(h, seenApp')
    <3>1. CASE seenApp' = seenApp
      BY <3>1
    <3>2. CASE SyncApplication
      <4>1. app \in Apps /\ seenApp \in Apps
        BY DEF Inductive, TypeOK
      <4>2. \A p, x : Shows(seenApp, p, x) <=> Shows(app, p, x)
        BY <2>3, <3>2, <4>1, WatchedShows
      <4> QED BY <2>3, <3>2, <4>2 DEF Noted, Kept
    <3> QED BY <2>2, <3>1, <3>2
  <2>5. Rests'
    BY <2>1, <2>4 DEF SamePass, SameSite, Rests, Deployable, Passes
  <2>6. Saw'
    BY <2>1, <2>4 DEF SamePass, SameSite, Saw, Deployable, Passes
  <2> QED BY <2>5, <2>6
<1> QED BY <1>1, <1>2

\* A pass that deploys and asks for no other one points the Application at
\* what is deployed, and reads nothing new of it: what it reads is at least
\* where the controller itself last pointed it.
LEMMA DeployLooked ==
  ASSUME ~AppLag, Inductive, Cached, Currents, Modes, Deploy \/ DeployFails \/ Remove
  PROVE  Rests' /\ Saw'
<1> DEFINE h == pass.history
           p == Deployed(h).preparation
<1>1. /\ pass.step \in {"Deploy", "Remove"} /\ pass \in PassStates
      /\ InsidePass /\ pass'.step # "Idle"
      /\ app \in Apps /\ seenApp \in Apps
      /\ GoodHistory(h, records) /\ Current(h)
  BY InPass, DeployDoes DEF InsidePass, Inductive, TypeOK, Currents
<1>2. Rests'
  BY <1>1 DEF Rests
<1>3. ASSUME /\ pass'.step \in {"Report", "Patch"} /\ ~queued' /\ ~timer' /\ ~pass'.requeue
             /\ Deployable(pass.history)'
      PROVE  /\ app'.at = p
             /\ seenApp' # NoApp =>
                  /\ Noted(h, seenApp')
                  /\ pass'.step = "Patch" => Kept(h, seenApp')
  <2>1. /\ pass'.history = h /\ pass.step = "Deploy" /\ ~pass.requeue
        /\ ~queued /\ ~timer /\ Deploy
    BY <1>1, <1>3, DeployDoes DEF InsidePass, DeployFails, Remove, PassStates
  <2>2. Deployable(h) /\ HasDeployment
    <3>1. Deployable(h)
      BY <1>1, <1>3, <2>1 DEF InsidePass, SameSite, Deployable, Passes
    <3>2. pass.mode = order
      BY <2>1 DEF Modes
    <3> QED BY <3>1, <3>2 DEF Deployable, HasDeployment
  <2>3. /\ CacheCaughtUp /\ Apply(p) /\ p \in Preps
    BY <1>1, <2>1, <2>2, GoodDeployed DEF Deploy, Deployable
  <2>4. seenApp.at = app.at
    BY <2>3 DEF CacheCaughtUp
  <2>5. ASSUME NEW a \in Apps, Report(StateOf([a EXCEPT !.at = p]))
        PROVE  Noted(h, a) /\ (pass'.step = "Patch" => Kept(h, a))
    BY <1>1, <2>1, <2>2, <2>5, ReportNotes DEF Deployable
  <2>6. [seenApp EXCEPT !.at = p].at = p
    BY <1>1 DEF Apps
  <2>7. CASE seenApp = NoApp /\ app = NoApp
    BY <2>3, <2>7 DEF Apply, NoApp
  <2>8. CASE seenApp = NoApp /\ app # NoApp
    <3>1. PromotionRecorded(app.at)
      BY <2>8 DEF Inductive
    <3>2. app.at \in Preps
      BY <3>1 DEF PromotionRecorded, Inductive, TypeOK, PromotionRecords, DeploymentRecords
    <3> QED BY <2>4, <2>8, <3>2, NumPrepsAssumption DEF NoApp, Preps, NoRevision
  <2>9. CASE seenApp # NoApp /\ seenApp.at = p
    <3>1. /\ UNCHANGED appVars /\ Report(StateOf(seenApp))
      BY <2>3, <2>9 DEF Apply
    <3>2. [seenApp EXCEPT !.at = p] = seenApp
      BY <1>1, <2>9 DEF Apps
    <3>3. Noted(h, seenApp) /\ (pass'.step = "Patch" => Kept(h, seenApp))
      BY <1>1, <2>5, <3>1, <3>2
    <3> QED BY <2>4, <2>9, <3>1, <3>3 DEF appVars
  <2>10. CASE seenApp # NoApp /\ seenApp.at # p
    <3>1. pass' # [pass EXCEPT !.requeue = TRUE, !.step = "Patch"]
      BY <1>1, <1>3 DEF PassStates
    <3>2. /\ appFresh /\ app' = [app EXCEPT !.at = p] /\ UNCHANGED seenApp
          /\ Report(StateOf([app EXCEPT !.at = p]))
      BY <2>3, <2>10, <3>1 DEF Apply
    <3>3. seenApp = app
      BY <3>2 DEF Cached
    <3>4. Noted(h, seenApp) /\ (pass'.step = "Patch" => Kept(h, seenApp))
      BY <1>1, <2>5, <3>2, <3>3
    <3> QED BY <2>6, <3>2, <3>3, <3>4
  <2> QED BY <2>7, <2>8, <2>9, <2>10
<1>4. Saw'
  <2> SUFFICES ASSUME /\ pass'.step \in {"Report", "Patch"} /\ ~queued' /\ ~timer'
                      /\ ~pass'.requeue /\ Deployable(pass.history)'
               PROVE  /\ app'.at = Deployed(pass'.history).preparation
                      /\ seenApp' # NoApp =>
                           /\ Noted(pass'.history, seenApp')
                           /\ pass'.step = "Patch" => Kept(pass'.history, seenApp')
    BY DEF Saw
  <2>1. pass'.history = h
    BY DeployDoes
  <2> QED BY <1>3, <2>1
<1> QED BY <1>2, <1>4

\* What was reported healthy and not recorded is recorded.
LEMMA RecordsLooked ==
  ASSUME Inductive, Saw, RecordDeployments \/ RecordDeploymentsFails
  PROVE  Rests' /\ Saw'
<1> DEFINE h == pass.history
           g == WithRecords(h, ToRecord(h))
<1>1. /\ InsidePass /\ UNCHANGED appVars
      /\ pass.step = "Report" /\ pass'.step = "Patch"
      /\ pass'.history = g \/ pass'.requeue
      /\ GoodHistory(h, records)
  BY InPass, RecordDeploymentsDo DEF InsidePass
<1>2. /\ Amends(h, g) /\ \A i \in ToRecord(h) : g[i].deploymentRecord # NoRecord
      /\ GoodHistory(g, records \cup {RecordOf(h[i]) : i \in ToRecord(h)})
  BY <1>1, RecordsAmend, RecordsGood
<1>3. DeployedIndex(h) \in ToRecord(h) /\ IsDeployed(h) =>
        Deployed(g).deploymentRecord # NoRecord
  <2>1. /\ HasPending(g) <=> HasPending(h)
        /\ IsDeployed(g) <=> IsDeployed(h)
    BY <1>1, <1>2, AmendsDeployed
  <2> HIDE DEF g
  <2>2. IsDeployed(h) => DeployedIndex(g) = DeployedIndex(h)
    BY <1>1, <1>2, <2>1, DeployedIndexIs DEF GoodHistory
  <2> QED BY <1>2, <2>2 DEF Deployed
<1> HIDE DEF g
<1>4. Rests'
  BY <1>1 DEF Rests
<1>5. ASSUME pass'.history = g, ~queued', ~timer', ~pass'.requeue, Deployable(pass.history)'
      PROVE  /\ app'.at = Deployed(g).preparation
             /\ seenApp' # NoApp => Noted(g, seenApp') /\ Kept(g, seenApp')
  <2>1. IsDeployed(g) /\ IsDeployed(h)
        /\ Deployed(g).preparation = Deployed(h).preparation
    BY <1>1, <1>2, <1>5, AmendsDeployed DEF Deployable
  <2>2. Deployable(h)
    BY <1>1, <1>5, <2>1 DEF InsidePass, SameSite, Deployable, Passes
  <2>3. /\ app.at = Deployed(h).preparation
        /\ seenApp # NoApp => Noted(h, seenApp)
    BY <1>1, <1>5, <2>2 DEF InsidePass, Saw
  <2>4. ASSUME seenApp # NoApp, Shows(seenApp, Deployed(g).preparation, "Healthy")
        PROVE  Deployed(g).deploymentRecord # NoRecord
    <3>1. Deployed(h).healthy # Never
      BY <2>1, <2>3, <2>4 DEF Noted
    <3>2. CASE Deployed(h).deploymentRecord # NoRecord
      BY <1>1, <1>2, <2>1, <3>2, AmendsDeployed
    <3>3. CASE Deployed(h).deploymentRecord = NoRecord
      <4>1. DeployedIndex(h) \in DOMAIN h /\ Promoted(Deployed(h))
        BY <1>1, <2>1, DeployedIndexIs DEF GoodHistory, Promotions, Deployed
      <4>2. DeployedIndex(h) \in ToRecord(h)
        BY <2>2, <3>1, <3>3, <4>1
           DEF ToRecord, Unrecorded, IsUnrecorded, Deployed, Deployable
      <4> QED BY <1>3, <2>1, <4>2
    <3> QED BY <3>2, <3>3
  <2>5. seenApp # NoApp => Noted(g, seenApp) /\ Kept(g, seenApp)
    BY <1>1, <1>2, <2>1, <2>3, <2>4, AmendsNoted DEF Kept
  <2> QED BY <1>1, <2>1, <2>3, <2>5 DEF appVars
<1>6. Saw'
  BY <1>1, <1>5 DEF Saw
<1> QED BY <1>4, <1>6

\* A pass that ends with nothing to follow leaves the Serving with what it saw:
\* it wrote that, or the copy it read suffices.
LEMMA EndLooked ==
  ASSUME Inductive, Copies, Pursued, Behind, Saw,
         PatchStatus \/ PatchStatusFails \/ Finalize
  PROVE  Rests' /\ Saw'
<1>1. /\ pass'.step = "Idle" /\ pass.step \in {"Patch", "Finalize"}
      /\ UNCHANGED <<seen, queued, appVars>> /\ SameSite
      /\ GoodHistory(pass.history, records) /\ GoodHistory(serving.history, records)
  BY EndDoes, InPass DEF Inductive
<1>2. Saw'
  BY <1>1 DEF Saw
<1>3. ASSUME ~queued', ~timer', serving'.life = "Live", Deployable(serving.history)'
      PROVE  /\ app'.at = Deployed(serving'.history).preparation
             /\ seenApp' # NoApp => /\ Noted(serving'.history, seenApp')
                                    /\ Kept(serving'.history, seenApp')
  <2>1. ~queued /\ UNCHANGED <<app, seenApp>>
    BY <1>1, <1>3 DEF appVars
  <2>2. Deployable(serving'.history)
    BY <1>1, <1>3 DEF SameSite, Deployable, Passes
  <2>3. CASE /\ pass.step = "Patch" /\ pass.history = pass.base.history
             /\ serving' = serving /\ timer' = (timer \/ pass.requeue)
    <3>1. ~timer /\ ~pass.requeue /\ serving.life = "Live"
      BY <1>3, <2>3
    <3>2. pass.base.life = "Live"
      BY <2>3, <3>1 DEF Pursued, Lives
    <3>3. ~HasPending(pass.history)
      BY <2>3, <3>1, <3>2 DEF Pursued, Retries
    <3>4. Amends(pass.history, serving.history)
      BY <2>1, <2>3, <3>1, <3>3 DEF Behind, Suffices
    <3>5. IsDeployed(pass.history) /\ Deployable(pass.history)
          /\ Deployed(pass.history).preparation = Deployed(serving.history).preparation
      BY <1>1, <2>2, <2>3, <3>4, AmendsDeployed DEF Deployable
    <3>6. /\ app.at = Deployed(pass.history).preparation
          /\ seenApp # NoApp => Noted(pass.history, seenApp) /\ Kept(pass.history, seenApp)
      BY <2>1, <2>3, <3>1, <3>5 DEF Saw
    <3>7. seenApp # NoApp =>
            Noted(serving.history, seenApp) /\ Kept(serving.history, seenApp)
      BY <1>1, <3>4, <3>5, <3>6, AmendsNoted
    <3> QED BY <2>1, <2>3, <3>5, <3>6, <3>7
  <2>4. CASE /\ pass.step = "Patch"
             /\ serving'.history = pass.history
             /\ timer' = (timer \/ pass.requeue)
    <3>1. ~timer /\ ~pass.requeue
      BY <1>3, <2>4
    <3> QED BY <2>1, <2>2, <2>4, <3>1 DEF Saw
  <2>5. CASE timer' \/ serving'.life = "Gone"
    BY <1>3, <2>5
  <2>6. CASE pass.step = "Finalize" /\ serving'.life = "Live"
    <3>1. serving.life # "Live"
      BY <2>6 DEF Pursued, Lives
    <3>2. Finalize
      BY <2>6 DEF PatchStatus, PatchStatusFails
    <3> QED BY <2>6, <3>1, <3>2 DEF Finalize, Inductive, TypeOK, Servings
  <2> QED BY <1>3, <2>3, <2>4, <2>5, <2>6, EndDoes
<1>4. Rests'
  BY <1>3 DEF Rests
<1> QED BY <1>2, <1>4

LEMMA NextNoticed ==
  ASSUME ~AppLag, Inductive, Copies, Pursued, Noticed, [Next]_vars
  PROVE  Noticed'
<1>1. Cached' /\ Currents' /\ Modes' /\ Turns' /\ Behind'
  BY NextCached, NextCurrents, NextModes, NextTurns, NextBehind DEF Noticed
<1>2. Rests' /\ Saw'
  <2>1. CASE UNCHANGED vars
    BY <2>1 DEF vars, world, appVars, objVars, Noticed, Rests, Saw, Deployable, Passes
  <2>2. CASE Requeue \/ Informers \/ ArgoCD \/ Tick \/ Environment
    BY <2>2, WorldLooked DEF Noticed
  <2>3. CASE Crash
    BY <2>3 DEF Crash, Idle, Rests, Saw
  <2>4. CASE StartPass
    <3>1. pass'.step = "Idle" => serving'.life # "Live"
      BY <2>4, StartDoes DEF objVars, Pursued, Lives
    <3> QED BY <2>4, <3>1, StartDoes DEF Rests, Saw
  <2>5. CASE Promote \/ PromoteFails \/ PushPromotion \/ PushPromotionFails
    <3>1. pass'.step \in {"Push", "Deploy"}
      BY <2>5, GatesDo
    <3> QED BY <3>1 DEF Rests, Saw
  <2>6. CASE Deploy \/ DeployFails \/ Remove
    BY <2>6, DeployLooked DEF Noticed
  <2>7. CASE RecordDeployments \/ RecordDeploymentsFails
    BY <2>7, RecordsLooked DEF Noticed
  <2>8. CASE PatchStatus \/ PatchStatusFails \/ Finalize
    BY <2>8, EndLooked DEF Noticed
  <2> QED BY <2>1, <2>2, <2>3, <2>4, <2>5, <2>6, <2>7, <2>8, NextIs
<1> QED BY <1>1, <1>2 DEF Noticed

LEMMA InitNoticed == Init => Noticed
<1> SUFFICES ASSUME Init PROVE Noticed
  OBVIOUS
<1>1. /\ serving.history = << >> /\ seen.history = << >> /\ seenApp = app
      /\ pass.step = "Idle" /\ queued
  BY DEF Init, Idle
<1>2. ~HasPending(<< >>) /\ ~IsDeployed(<< >>) /\ Amends(<< >>, << >>)
  BY DEF HasPending, IsDeployed, Promotions, Amends
<1> QED
  BY <1>1, <1>2
     DEF Noticed, Cached, Currents, Current, Modes, Turns, Behind, Suffices, Rests, Saw

\* When nothing is left to do, the Application is at the deployed Preparation
\* and the history says what Argo CD reports of it, for a cache that never
\* holds an Application older than the controller's own last write to it: the
\* status writes and the updates of the Application, which wake nobody up, lose
\* nothing (history.go:71-73, argocd.Changed, patchStatus).
THEOREM NoLostWakeupHolds == ~AppLag => (Spec => []NoLostWakeup)
<1> SUFFICES ASSUME ~AppLag PROVE Spec => []NoLostWakeup
  OBVIOUS
<1>1. Init => Copies /\ Pursued /\ Noticed
  BY InitRefines, InitPursued, InitNoticed
<1>2. Inductive /\ Copies /\ Pursued /\ Noticed /\ [Next]_vars =>
        Copies' /\ Pursued' /\ Noticed'
  BY NextCopies, NextPursued, NextNoticed
<1>3. Inductive /\ Copies /\ Noticed => NoLostWakeup
  <2> SUFFICES ASSUME Inductive, Copies, Noticed, Settled, DeployedHere
               PROVE  LET e == Deployed(serving.history)
                      IN  /\ app.at = e.preparation
                          /\ Noted(serving.history, app) /\ Kept(serving.history, app)
                          /\ [app EXCEPT !.at = e.preparation] = app
    BY DEF NoLostWakeup, Noted, Kept, Shows
  <2>1. Quiet /\ seenApp = app
    BY DEF Settled, Quiet, Noticed, Cached
  <2>2. /\ Deployable(serving.history) /\ serving.life = "Live"
        /\ IsDeployed(serving.history) /\ GoodHistory(serving.history, records)
    BY DEF DeployedHere, Deployable, Inductive
  <2>3. /\ app.at = Deployed(serving.history).preparation
        /\ app # NoApp => Noted(serving.history, app) /\ Kept(serving.history, app)
    BY <2>1, <2>2 DEF Quiet, Noticed, Rests
  <2>4. Deployed(serving.history).preparation \in 1 .. NumPreps
    BY <2>2, GoodDeployed DEF Preps
  <2>5. app # NoApp
    BY <2>3, <2>4, NumPrepsAssumption DEF NoApp, NoRevision
  <2>6. [app EXCEPT !.at = Deployed(serving.history).preparation] = app
    BY <2>3 DEF Inductive, TypeOK, Apps
  <2> QED BY <2>3, <2>5, <2>6
<1> QED
  BY <1>1, <1>2, <1>3, InductiveHolds, PTL DEF Spec

=============================================================================
