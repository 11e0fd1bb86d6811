------------------------------ MODULE Serving ------------------------------
(***************************************************************************)
(* The Serving of one Order and the controller that reconciles it:         *)
(* internal/controller/serving_controller.go, deploying through Argo CD    *)
(* (internal/controller/argocd.go, internal/argocd/application.go).        *)
(*                                                                         *)
(* A reconcile ("pass") reads the Serving from the informer cache, which   *)
(* lags behind the API server, decides, pushes signed records to the       *)
(* registry and points the Argo CD Application at an artifact, and only    *)
(* then writes its status, under an optimistic lock.  Each of these is a   *)
(* step of its own: between two of them the world may change and the       *)
(* controller may crash.  One key is never reconciled twice at a time, so  *)
(* there is one pass.                                                      *)
(*                                                                         *)
(* A resource version is modelled by whether a copy is of the current one: *)
(* every write makes every other copy outdated, which is all a lock on a   *)
(* resource version tells.  The conditions of the status are left out: no  *)
(* decision of this controller reads them.                                 *)
(***************************************************************************)
EXTENDS History, FiniteSets

CONSTANTS
  NumPreps,   \* how many Preparations the Order has
  MaxTime,    \* the clock stops there
  MaxEdits,   \* how many changes and failures the environment is allowed
  Edits,      \* which kinds of them
  AppLag      \* whether a pass may read an Application from before its
              \* controller's own last write to it

ASSUME NumPrepsAssumption == NumPreps \in Nat \ {0}
ASSUME AppLagAssumption == AppLag \in BOOLEAN

\* The Order's Preparations, in creation order.
Preps == 1 .. NumPreps

NoPrep == 0

\* What the informer caches and the registry say of a Preparation.  Exists
\* and Ready are its own; the others are the outcome of the gates.
Gates == {"Exists", "Ready", "Upstream", "Checks", "Approved", "Verified"}

Orders == {"Missing", "Manual", "Automatic"}

\* Whether the Order may deploy to its cluster: not at all, the Cluster is
\* not Ready, it is held for another reason (a conflict, an unreachable
\* registry, no opt-in, refused by Argo CD), or it may.
Sites == {"Refused", "NotReady", "Held", "Admitted"}

NoApp == [at |-> NoRevision, compared |-> NoRevision,
          live |-> NoRevision, health |-> "Progressing"]

VARIABLES
  now,        \* the clock, in seconds
  order,      \* the Order: its promotion mode, or that it does not exist
  gates,      \* the gates every Preparation passes
  site,       \* whether the Order may deploy to its cluster
  app,        \* the Argo CD Application, NoApp when there is none
  seenApp,    \* its copy in the informer cache
  appFresh,   \* whether that copy is of its current version
  serving,    \* the Serving on the API server
  seen,       \* its copy in the informer cache
  seenFresh,  \* whether that copy is of its current version
  records,    \* the records in the registry
  pass,       \* the pass in progress
  queued,     \* whether the work queue holds the Serving
  timer,      \* whether it is to be queued again after a delay
  edits       \* how many changes the environment made

world    == <<now, order, gates, site, edits>>
appVars  == <<app, seenApp, appFresh>>
objVars  == <<serving, seen, seenFresh>>
vars     == <<world, appVars, objVars, records, pass, queued, timer>>

-----------------------------------------------------------------------------
(* Records.  The digest of a record is the record: it is the hash of bytes *)
(* that depend on nothing else.                                            *)

PromotionRecord(e, mode, previous) ==
  [kind |-> "Promotion", preparation |-> e.preparation,
   started |-> e.started, mode |-> mode, previous |-> previous]

\* targets: whether the cluster ran it healthily in the pass that pushed it.
DeploymentRecord(e, targets) ==
  [kind |-> "Deployment", preparation |-> e.preparation,
   healthy |-> e.healthy, promotion |-> e.promotionRecord,
   targets |-> targets]

\* The Preparation of the deployed entry that is replaced.
PreviousOf(h) ==
  IF IsDeployed(Drop(h)) THEN Deployed(Drop(h)).preparation ELSE NoPrep

-----------------------------------------------------------------------------
(* What a pass reads.                                                      *)

Passes(p, gate) == gate \in gates[p]

ReadyPreps == {p \in Preps : Passes(p, "Exists") /\ Passes(p, "Ready")}

\* promotion.NewestReady: creation order is the order of the numbers.
NewestReady == CHOOSE p \in ReadyPreps : \A q \in ReadyPreps : q <= p

\* The Preparation the Serving converges to, NoPrep while there is none.
Candidate(wanted) ==
  CASE order = "Manual" /\ wanted \in Preps /\ Passes(wanted, "Exists") -> wanted
    [] order = "Automatic" /\ ReadyPreps # {} -> NewestReady
    [] OTHER -> NoPrep

\* A Preparation the Serving promoted before passes its upstream gate.
UpstreamSatisfied(p, h) == Passes(p, "Upstream") \/ PromotedBefore(Drop(h), p)

\* Argo CD reports health on the running resources, at the revision of its
\* last comparison.  Healthy needs a comparison against the current source
\* that found it synced; Degraded does not.
StateOf(a) ==
  [revision |-> a.compared,
   health   |->
     CASE a.health = "Degraded" -> "Degraded"
       [] /\ a.health = "Healthy"
          /\ a.live = a.compared
          /\ a.compared = a.at -> "Healthy"
       [] OTHER -> "Progressing"]

\* observationOf for one cluster that is deployed to.  A report on another
\* revision than the deployed one counts as progressing.
ObservationOf(state, p) ==
  IF state.revision = p /\ state.health # "Progressing"
  THEN state ELSE [revision |-> NoRevision, health |-> "Progressing"]

NothingObserved == [revision |-> NoRevision, health |-> "Progressing"]

-----------------------------------------------------------------------------
(* The pass.                                                               *)

\* A call to the API server, the registry or the signing key fails.
Failure ==
  /\ "Failure" \in Edits /\ edits < MaxEdits
  /\ edits' = edits + 1
  /\ UNCHANGED <<now, order, gates, site>>

Idle == [step |-> "Idle"]

\* The steps after which status is written.
Continue(step) == pass' = [pass EXCEPT !.step = step]

Settle(h, target, step) ==
  pass' = [pass EXCEPT !.history = h, !.target = target, !.step = step]

\* Reconcile reads the Serving.  A Serving that is gone is ignored.
StartPass ==
  /\ pass.step = "Idle"
  /\ queued
  /\ queued' = FALSE
  /\ pass' =
       IF seen.life = "Gone" THEN Idle
       ELSE [step    |-> IF seen.life = "Deleting" THEN "Remove" ELSE "Promote",
             fresh   |-> seenFresh,
             base    |-> seen,
             history |-> seen.history,
             target  |-> seen.target,
             mode    |-> "Missing",
             running |-> NoPrep,
             requeue |-> FALSE]
  /\ UNCHANGED <<world, appVars, objVars, records, timer>>

\* Nothing to converge to: a pending promotion is dropped.
PromoteNothing ==
  /\ Candidate(pass.base.wanted) = NoPrep
  /\ pass' = [pass EXCEPT !.history = Drop(pass.history), !.target = NoPrep,
                          !.mode = order, !.step = "Deploy"]

\* p is Ready, and it is deployed or its upstream stages and checks pass.
IsTarget(p, h) ==
  /\ Passes(p, "Ready")
  /\ \/ NextStep(h, p) = "Deployed"
     \/ UpstreamSatisfied(p, h) /\ Passes(p, "Checks")

\* The gates before the target are in the way.
HoldBeforeTarget(p) ==
  /\ ~IsTarget(p, pass.history)
  /\ pass' = [pass EXCEPT !.history = Drop(pass.history), !.target = NoPrep,
                          !.mode = order, !.step = "Deploy"]

\* Not the code: a promotion that no longer passes stays pending.
HoldKeepsPending(p) ==
  /\ IsTarget(p, pass.history)
  /\ \/ NextStep(pass.history, p) = "Deployed"
     \/ ~Passes(p, "Approved")
     \/ ~Passes(p, "Verified")
  /\ pass' = [pass EXCEPT !.target = p, !.mode = order, !.step = "Deploy"]

\* p is the target, and the gates after that are in the way, or it is
\* deployed: either way no promotion is pending any more.
HoldTarget(p) ==
  /\ IsTarget(p, pass.history)
  /\ \/ NextStep(pass.history, p) = "Deployed"
     \/ ~Passes(p, "Approved")
     \/ ~Passes(p, "Verified")
  /\ pass' = [pass EXCEPT !.history = Drop(pass.history), !.target = p,
                          !.mode = order, !.step = "Deploy"]

PassesAll(p) ==
  IsTarget(p, pass.history) /\ Passes(p, "Approved") /\ Passes(p, "Verified")

\* Not the code: nothing runs the second pass.
OpenPromotionOnce(p) ==
  /\ PassesAll(p)
  /\ NextStep(pass.history, p) = "Open"
  /\ pass' = [pass EXCEPT !.history = Open(pass.history, p, now),
                          !.target = p, !.mode = order, !.step = "Deploy"]

\* The first pass of a promotion.
OpenPromotion(p) ==
  /\ PassesAll(p)
  /\ NextStep(pass.history, p) = "Open"
  /\ pass' = [pass EXCEPT !.history = Open(pass.history, p, now),
                          !.target = p, !.mode = order, !.step = "Deploy",
                          !.requeue = TRUE]

\* The second pass decides to record it; the record is pushed after that.
DecideToRecord(p) ==
  /\ PassesAll(p)
  /\ NextStep(pass.history, p) = "Record"
  /\ pass' = [pass EXCEPT !.target = p, !.mode = order, !.step = "Push"]

\* The first half of reconcileServing: targetPreparation and promote.
Promote ==
  /\ pass.step = "Promote"
  /\ \/ PromoteNothing
     \/ LET p == Candidate(pass.base.wanted)
        IN  /\ p # NoPrep
            /\ \/ HoldBeforeTarget(p)
               \/ HoldTarget(p)
               \/ OpenPromotion(p)
               \/ DecideToRecord(p)
  /\ UNCHANGED <<world, appVars, objVars, records, queued, timer>>

\* A read fails: the pending promotion stays, what is deployed is deployed
\* still, and the pass is retried.  Without the Order nothing is deployed; a
\* target whose evidence could not be read is the target already.
PromoteFails ==
  /\ pass.step = "Promote"
  /\ Failure
  /\ \E mode \in {"Missing", order} :
       \E target \in {pass.target} \cup
           {p \in Preps : /\ mode # "Missing" /\ p = Candidate(pass.base.wanted)
                          /\ IsTarget(p, pass.history)} :
         pass' = [pass EXCEPT !.mode = mode, !.target = target,
                              !.requeue = TRUE, !.step = "Deploy"]
  /\ UNCHANGED <<appVars, objVars, records, queued, timer>>

\* The promotion record of the pending entry is pushed, and the entry starts.
PushPromotion ==
  /\ pass.step = "Push"
  /\ LET record == PromotionRecord(pass.history[1], pass.mode,
                                   PreviousOf(pass.history))
     IN  /\ records' = records \cup {record}
         /\ Settle(Start(pass.history, record), pass.target, "Deploy")
  /\ UNCHANGED <<world, appVars, objVars, queued, timer>>

\* Not the code: the entry starts although the push failed.
StartUnrecorded ==
  /\ pass.step = "Push"
  /\ Failure
  /\ Settle(Start(pass.history, PromotionRecord(pass.history[1], pass.mode,
                                               PreviousOf(pass.history))),
            pass.target, "Deploy")
  /\ UNCHANGED <<records, appVars, objVars, queued, timer>>

\* The push fails, or it succeeded and its answer was lost.
PushPromotionFails ==
  /\ pass.step = "Push"
  /\ Failure
  /\ \/ UNCHANGED records
     \/ records' = records \cup
          {PromotionRecord(pass.history[1], pass.mode, PreviousOf(pass.history))}
  /\ pass' = [pass EXCEPT !.requeue = TRUE, !.step = "Deploy"]
  /\ UNCHANGED <<appVars, objVars, queued, timer>>

-----------------------------------------------------------------------------
(* deploy.                                                                 *)

\* No entry, no Order, or a deployed Preparation that was deleted: what runs
\* is left as it is.
HasDeployment ==
  /\ IsDeployed(pass.history)
  /\ pass.mode # "Missing"
  /\ Passes(Deployed(pass.history).preparation, "Exists")

\* The informer cache may be behind what Argo CD reports; it may be behind
\* what this controller wrote itself as well.
CacheCaughtUp == AppLag \/ seenApp.at = app.at

\* Not the code: a delete that met a conflict is not tried again.
RemoveOnce(step) ==
  /\ IF seenApp # NoApp /\ appFresh
     THEN app' = NoApp /\ appFresh' = FALSE /\ UNCHANGED seenApp /\ Continue(step)
     ELSE UNCHANGED appVars /\ Continue(IF seenApp = NoApp THEN step ELSE "Patch")

\* argoCD.Remove deletes the Application the cache lists, on the condition
\* that it is the version it listed.
RemoveApplication(step) ==
  \/ /\ seenApp = NoApp
     /\ UNCHANGED appVars
     /\ Continue(step)
  \/ /\ seenApp # NoApp /\ (appFresh \/ app = NoApp)
     /\ app' = NoApp
     /\ appFresh' = FALSE
     /\ UNCHANGED seenApp
     /\ Continue(step)
  \/ /\ seenApp # NoApp /\ ~appFresh /\ app # NoApp
     /\ UNCHANGED appVars
     /\ pass' = [pass EXCEPT !.requeue = TRUE, !.step = "Patch"]

\* What the pass makes of what the engine reports: a change of the history
\* ends it early, and the deployments that were healthy are recorded.
Report(state) ==
  LET p == Deployed(pass.history).preparation
      o == ObservationOf(state, p)
      h == Observe(pass.history, o.revision, o.health, now)
  IN  pass' = [pass EXCEPT
         !.history = h,
         !.running = IF o.health = "Healthy" THEN p ELSE NoPrep,
         !.requeue = pass.requeue \/ h # pass.history,
         !.step    = IF h = pass.history /\ Unrecorded(h) # {}
                     THEN "Report" ELSE "Patch"]

\* argoCD.Apply points the Application at p.  It reads it from the cache, and
\* updates it on the condition that it is the version it read.
Apply(p) ==
  LET created == [NoApp EXCEPT !.at = p]
      updated == [app EXCEPT !.at = p]
  IN
  \/ /\ seenApp = NoApp /\ app = NoApp
     /\ app' = created /\ appFresh' = FALSE
     /\ UNCHANGED seenApp
     /\ Report(StateOf(created))
  \/ /\ seenApp = NoApp /\ app # NoApp
     /\ UNCHANGED appVars
     /\ Report(NothingObserved)
  \/ /\ seenApp # NoApp /\ seenApp.at = p
     /\ UNCHANGED appVars
     /\ Report(StateOf(seenApp))
  \/ /\ seenApp # NoApp /\ seenApp.at # p /\ appFresh
     /\ app' = updated /\ appFresh' = FALSE
     /\ UNCHANGED seenApp
     /\ Report(StateOf(updated))
  \/ /\ seenApp # NoApp /\ seenApp.at # p /\ ~appFresh
     /\ UNCHANGED appVars
     /\ pass' = [pass EXCEPT !.requeue = TRUE, !.step = "Patch"]

Deploy ==
  /\ pass.step = "Deploy"
  /\ CacheCaughtUp
  /\ \/ /\ ~HasDeployment
        /\ Continue("Patch")
        /\ UNCHANGED appVars
     \/ /\ HasDeployment
        /\ site = "Refused"
        /\ RemoveApplication("Patch")
     \/ /\ HasDeployment
        /\ site \in {"NotReady", "Held"}
        /\ Report(NothingObserved)
        /\ UNCHANGED appVars
     \/ /\ HasDeployment
        /\ site = "Admitted"
        /\ Apply(Deployed(pass.history).preparation)
  /\ UNCHANGED <<world, objVars, records, queued, timer>>

\* The call fails, or it succeeded and its answer was lost.
DeployFails ==
  /\ pass.step = "Deploy"
  /\ Failure
  /\ HasDeployment
  /\ pass' = [pass EXCEPT !.requeue = TRUE, !.step = "Patch"]
  /\ \/ UNCHANGED appVars
     \/ /\ site = "Admitted" /\ appFresh
        /\ app.at # Deployed(pass.history).preparation
        /\ app' = [app EXCEPT !.at = Deployed(pass.history).preparation]
        /\ appFresh' = FALSE
        /\ UNCHANGED seenApp
  /\ UNCHANGED <<objVars, records, queued, timer>>

\* The deployments that were healthy and are not recorded yet, whose
\* Preparation exists.
ToRecord(h) == {i \in Unrecorded(h) : Passes(h[i].preparation, "Exists")}

RecordOf(e) == DeploymentRecord(e, pass.running = e.preparation)

\* RecordDeployment matches the digest and the time, so that an entry gets
\* the record of the last entry recorded with both.
WithRecords(h, todo) ==
  [i \in DOMAIN h |->
     LET same == {j \in todo : /\ h[j].preparation = h[i].preparation
                               /\ h[j].healthy = h[i].healthy}
     IN  IF same = {} THEN h[i]
         ELSE [h[i] EXCEPT !.deploymentRecord =
                 RecordOf(h[CHOOSE j \in same : \A k \in same : k <= j])]]

RecordDeployments ==
  /\ pass.step = "Report"
  /\ LET todo == ToRecord(pass.history)
     IN  /\ records' = records \cup {RecordOf(pass.history[i]) : i \in todo}
         /\ Settle(WithRecords(pass.history, todo), pass.target, "Patch")
  /\ UNCHANGED <<world, appVars, objVars, queued, timer>>

\* One of the pushes fails: the ones before it are in the registry, the
\* history holds none of them.
RecordDeploymentsFails ==
  /\ pass.step = "Report"
  /\ Failure
  /\ \E k \in DOMAIN pass.history :
       records' = records \cup
         {RecordOf(pass.history[i]) : i \in {j \in ToRecord(pass.history) : j < k}}
  /\ pass' = [pass EXCEPT !.requeue = TRUE, !.step = "Patch"]
  /\ UNCHANGED <<appVars, objVars, queued, timer>>

\* reconcileDelete removes the Application, then the finalizer.
Remove ==
  /\ pass.step = "Remove"
  /\ CacheCaughtUp
  /\ RemoveApplication("Finalize")
  /\ UNCHANGED <<world, objVars, records, queued, timer>>

\* The update that removes the finalizer is locked to the version read.
Finalize ==
  /\ pass.step = "Finalize"
  /\ pass' = Idle
  /\ \/ /\ pass.fresh
        /\ serving' = [serving EXCEPT !.life = "Gone"]
        /\ seenFresh' = FALSE
        /\ UNCHANGED timer
     \/ /\ ~pass.fresh
        /\ UNCHANGED <<serving, seenFresh>>
        /\ timer' = (timer \/ serving.life # "Gone")
  /\ UNCHANGED <<world, appVars, seen, records, queued>>

\* Not the code: the patch is not locked.
PatchUnlocked ==
  /\ pass.step = "Patch"
  /\ pass' = Idle
  /\ serving' = IF pass.history = pass.base.history /\ pass.target = pass.base.target
                THEN serving
                ELSE [serving EXCEPT !.history = pass.history, !.target = pass.target]
  /\ seenFresh' = (seenFresh /\ serving' = serving)
  /\ timer' = (timer \/ pass.requeue)
  /\ UNCHANGED <<world, appVars, seen, records, queued>>

\* patchStatus writes what the pass changed, locked to the version it read.
\* Nothing may have changed; or the conditions did, if nothing else.  A
\* conflict is retried; a Serving that is gone is ignored.
PatchStatus ==
  /\ pass.step = "Patch"
  /\ pass' = Idle
  /\ \/ /\ pass.history = pass.base.history /\ pass.target = pass.base.target
        /\ timer' = (timer \/ pass.requeue)
        /\ UNCHANGED <<serving, seenFresh>>
     \/ /\ pass.fresh
        /\ serving' = [serving EXCEPT !.history = pass.history,
                                      !.target  = pass.target]
        /\ seenFresh' = FALSE
        /\ timer' = (timer \/ pass.requeue)
     \/ /\ ~pass.fresh
        /\ timer' = (timer \/ pass.requeue \/ serving.life # "Gone")
        /\ UNCHANGED <<serving, seenFresh>>
  /\ UNCHANGED <<world, appVars, seen, records, queued>>

\* A pass that failed, met a conflict or wrote a time asks to run again after
\* a delay, which other events of the Serving neither cancel nor shorten.  The
\* delay outlasts the lag of the informer: it delivers what the pass wrote.
Requeue ==
  /\ timer /\ seenFresh
  /\ timer' = FALSE
  /\ queued' = TRUE
  /\ UNCHANGED <<world, appVars, objVars, records, pass>>

\* The API server fails the write.
PatchStatusFails ==
  /\ pass.step = "Patch"
  /\ Failure
  /\ pass' = Idle
  /\ timer' = TRUE
  /\ UNCHANGED <<appVars, objVars, records, queued>>

\* The manager stops at any point; the next one starts with what the API
\* server holds and queues every Serving.
Crash ==
  /\ "Crash" \in Edits /\ edits < MaxEdits
  /\ edits' = edits + 1
  /\ pass' = Idle
  /\ queued' = TRUE /\ timer' = FALSE
  /\ seen' = serving /\ seenFresh' = TRUE
  /\ seenApp' = app /\ appFresh' = TRUE
  /\ UNCHANGED <<now, order, gates, site, app, serving, records>>

-----------------------------------------------------------------------------
(* The informers.  The controller's own status writes queue nothing.       *)

SyncServing ==
  /\ ~seenFresh
  /\ seen' = serving
  /\ seenFresh' = TRUE
  /\ queued' = (queued \/ seen.wanted # serving.wanted \/ seen.life # serving.life)
  /\ UNCHANGED <<world, appVars, serving, records, pass, timer>>

\* Not the code: a change of the health alone wakes the controller.
WatchedHealth(a) == <<a.health>>

\* argocd.Changed: what Argo CD reports, never the spec.
Watched(a) == <<a.health, a.compared, a.live = a.compared>>

SyncApplication ==
  /\ ~appFresh
  /\ seenApp' = app
  /\ appFresh' = TRUE
  /\ queued' = \/ queued
               \/ (seenApp = NoApp) # (app = NoApp)
               \/ Watched(seenApp) # Watched(app)
  /\ UNCHANGED <<world, app, objVars, records, pass, timer>>

-----------------------------------------------------------------------------
(* Argo CD, which is not part of the repository.                           *)

ArgoReports(a) ==
  /\ app' = a
  /\ appFresh' = FALSE
  /\ UNCHANGED <<now, order, gates, site, seenApp, objVars, records, pass, queued, timer>>

\* It compares the Application's source with what runs.
ArgoCompares ==
  /\ app # NoApp /\ app.compared # app.at
  /\ ArgoReports([app EXCEPT !.compared = app.at])
  /\ UNCHANGED edits

\* It syncs the revision it compared.
ArgoSyncs ==
  /\ app # NoApp /\ app.live # app.compared
  /\ ArgoReports([app EXCEPT !.live = app.compared, !.health = "Progressing"])
  /\ UNCHANGED edits

ArgoTurnsHealthy ==
  /\ app.live # NoRevision /\ app.health # "Healthy"
  /\ ArgoReports([app EXCEPT !.health = "Healthy"])
  /\ UNCHANGED edits

ArgoTurnsDegraded ==
  /\ "Degrade" \in Edits /\ edits < MaxEdits
  /\ app.live # NoRevision /\ app.health # "Degraded"
  /\ ArgoReports([app EXCEPT !.health = "Degraded"])
  /\ edits' = edits + 1

-----------------------------------------------------------------------------
(* Users, and the controllers this one watches.  A change of what the      *)
(* informers watch queues the Serving.                                     *)

Tick ==
  /\ now < MaxTime
  /\ now' = now + 1
  /\ UNCHANGED <<order, gates, site, edits, appVars, objVars, records, pass, queued, timer>>

Edit(kind) ==
  /\ kind \in Edits /\ edits < MaxEdits
  /\ edits' = edits + 1
  /\ UNCHANGED <<now, appVars, records, timer>>

ChangeOrder ==
  /\ Edit("Order")
  /\ \E mode \in Orders \ {order} : order' = mode
  /\ queued' = TRUE
  /\ UNCHANGED <<gates, site, objVars, pass>>

\* A Preparation gains or loses a gate.
ChangeGate ==
  /\ \E p \in Preps, gate \in Gates :
       /\ Edit(gate)
       /\ gates' = [gates EXCEPT ![p] =
                      IF gate \in @ THEN @ \ {gate} ELSE @ \cup {gate}]
  /\ queued' = TRUE
  /\ UNCHANGED <<order, site, objVars, pass>>

ChangeSite ==
  /\ Edit("Site")
  /\ \E s \in Sites \ {site} : site' = s
  /\ queued' = TRUE
  /\ UNCHANGED <<order, gates, objVars, pass>>

\* A write to the Serving outdates the copies in the cache and in the pass.
Outdate ==
  /\ seenFresh' = FALSE
  /\ pass' = IF pass.step = "Idle" THEN pass ELSE [pass EXCEPT !.fresh = FALSE]

\* A user asks for a Preparation.
ChangeWanted ==
  /\ Edit("Wanted")
  /\ serving.life = "Live"
  /\ \E p \in Preps \ {serving.wanted} :
       serving' = [serving EXCEPT !.wanted = p]
  /\ Outdate
  /\ UNCHANGED <<order, gates, site, seen, queued>>

DeleteServing ==
  /\ Edit("Delete")
  /\ serving.life = "Live"
  /\ serving' = [serving EXCEPT !.life = "Deleting"]
  /\ Outdate
  /\ UNCHANGED <<order, gates, site, seen, queued>>

-----------------------------------------------------------------------------

Pass ==
  \/ StartPass \/ Promote \/ PushPromotion \/ Deploy \/ RecordDeployments
  \/ Remove \/ Finalize \/ PatchStatus

Reconcile == Pass \/ Requeue

Failures ==
  \/ PromoteFails \/ PushPromotionFails \/ DeployFails
  \/ RecordDeploymentsFails \/ PatchStatusFails \/ Crash

Informers == SyncServing \/ SyncApplication

ArgoCD == ArgoCompares \/ ArgoSyncs \/ ArgoTurnsHealthy \/ ArgoTurnsDegraded

Environment ==
  \/ ChangeOrder \/ ChangeGate \/ ChangeSite \/ ChangeWanted \/ DeleteServing

\* A new Serving, of an Order whose first Preparation may be there already.
Init ==
  /\ now = 1
  /\ order = "Manual"
  /\ gates = [p \in Preps |-> Gates]
  /\ site = "Admitted"
  /\ app = NoApp /\ seenApp = NoApp /\ appFresh = TRUE
  /\ serving \in [wanted : Preps, history : {<< >>},
                  target : {NoPrep}, life : {"Live"}]
  /\ seen = serving /\ seenFresh = TRUE
  /\ records = {}
  /\ pass = Idle
  /\ queued = TRUE /\ timer = FALSE
  /\ edits = 0

Next == Reconcile \/ Failures \/ Informers \/ ArgoCD \/ Tick \/ Environment

Spec == Init /\ [][Next]_vars

\* A queued key is picked up and its pass runs; informers deliver; Argo CD
\* compares, syncs and reports.  Failures and edits need not happen.
Fairness ==
  /\ WF_vars(Pass)
  /\ WF_vars(Requeue)
  /\ WF_vars(SyncServing)
  /\ WF_vars(SyncApplication)
  /\ WF_vars(ArgoCompares)
  /\ WF_vars(ArgoSyncs)
  /\ WF_vars(ArgoTurnsHealthy)

FairSpec == Spec /\ Fairness

-----------------------------------------------------------------------------
(* Types.                                                                  *)

PromotionRecords ==
  [kind : {"Promotion"}, preparation : Preps, started : Nat, mode : Orders,
   previous : Preps \cup {NoPrep}]

DeploymentRecords ==
  [kind : {"Deployment"}, preparation : Preps, healthy : Nat,
   promotion : PromotionRecords, targets : BOOLEAN]

\* The entry of every digest is told apart from an entry without a record.
ASSUME NoRecordAssumption ==
  NoRecord \notin PromotionRecords \cup DeploymentRecords

Entries == EntriesOf(Preps, PromotionRecords, DeploymentRecords)

Servings ==
  [wanted : Preps, history : Seq(Entries), target : Preps \cup {NoPrep},
   life : {"Live", "Deleting", "Gone"}]

Apps ==
  [at : Preps \cup {NoRevision}, compared : Preps \cup {NoRevision},
   live : Preps \cup {NoRevision}, health : Healths]

PassStates ==
  [step : {"Promote", "Push", "Deploy", "Report", "Patch", "Remove", "Finalize"},
   fresh : BOOLEAN, base : Servings, history : Seq(Entries),
   target : Preps \cup {NoPrep}, mode : Orders,
   running : Preps \cup {NoPrep}, requeue : BOOLEAN]

\* Every variable has its type; in particular a promotion that is to be
\* recorded is pending, so that the record's bytes are in the status.
TypeOK ==
  /\ now \in Nat \ {Never}
  /\ order \in Orders
  /\ gates \in [Preps -> SUBSET Gates]
  /\ site \in Sites
  /\ {app, seenApp} \subseteq Apps
  /\ appFresh \in BOOLEAN
  /\ {serving, seen} \subseteq Servings
  /\ seenFresh \in BOOLEAN
  /\ records \subseteq PromotionRecords \cup DeploymentRecords
  /\ pass \in PassStates \cup {Idle}
  /\ queued \in BOOLEAN
  /\ timer \in BOOLEAN
  /\ edits \in Nat

-----------------------------------------------------------------------------
(* What must hold.                                                         *)

\* The history has its shape (history.go:67-69): promoting, degrading and
\* recovering from copies that may be old leave at most one deployment
\* running, so that at most one soaks.
HistoryInv == OnlyNewestRuns(serving.history)

PromotionRecorded(p) ==
  \E r \in records : r.kind = "Promotion" /\ r.preparation = p

\* The registry is the record (serving_controller.go:284): whatever the
\* Application points at, and whatever the history says was promoted or
\* deployed, has its record in the registry first, through lost answers,
\* crashes between the push and the status write, and stale passes.
RecordedFirst ==
  /\ app # NoApp => PromotionRecorded(app.at)
  /\ \A i \in DOMAIN serving.history :
       {serving.history[i].promotionRecord, serving.history[i].deploymentRecord}
         \subseteq records \cup {NoRecord}

\* A deployment record is never about a promotion the registry does not hold.
RecordsChain ==
  \A r \in records : r.kind = "Deployment" => r.promotion \in records

\* A history of entries that rs records, in its shape.
GoodHistory(h, rs) ==
  /\ h \in Seq(RecordedEntriesOf(Preps, rs \cap PromotionRecords,
                                 rs \cap DeploymentRecords))
  /\ OnlyNewestRuns(h)

\* The inductive invariant behind the three above: every copy of the history,
\* also the ones a pass holds, is good, and what is pushed is pending.
Inductive ==
  /\ TypeOK
  /\ GoodHistory(serving.history, records)
  /\ GoodHistory(seen.history, records)
  /\ pass # Idle => /\ GoodHistory(pass.base.history, records)
                    /\ GoodHistory(pass.history, records)
  /\ pass.step = "Push" => HasPending(pass.history)
  /\ app # NoApp => PromotionRecorded(app.at)
  /\ RecordsChain

\* No pass runs or is to run, and the caches caught up.
Quiet == pass.step = "Idle" /\ ~queued /\ ~timer /\ seenFresh /\ appFresh

Settled ==
  /\ Quiet
  /\ app.live = app.compared /\ app.compared = app.at

DeployedHere ==
  /\ serving.life = "Live" /\ order # "Missing" /\ site = "Admitted"
  /\ IsDeployed(serving.history)
  /\ Passes(Deployed(serving.history).preparation, "Exists")

\* Once it settled, an Order that may deploy has its Application at the
\* deployed Preparation, and the history says what Argo CD reports of it,
\* although the controller's own status writes and Application updates wake
\* nobody up, and passes run from stale caches (history.go:71-73).
NoLostWakeup ==
  Settled /\ DeployedHere =>
    LET e == Deployed(serving.history)
    IN  /\ app.at = e.preparation
        /\ StateOf(app) = [revision |-> e.preparation, health |-> "Healthy"] =>
             Running(e) /\ e.healthy # Never /\ e.deploymentRecord # NoRecord
        /\ StateOf(app) = [revision |-> e.preparation, health |-> "Degraded"] =>
             e.endReason = Degraded

\* Once nothing is to be done no promotion is left half way: each one was
\* started, or dropped because a gate closed, the Order changed its mode or
\* went, or another Preparation is asked for (serving_controller.go:228-231),
\* although these change between the steps of a pass and between its two
\* passes, and passes read old copies.
NothingPends == Quiet /\ serving.life = "Live" => ~HasPending(serving.history)

\* The promotion a record, or a pending entry, is about.
PromotionOf(r) == [preparation |-> r.preparation, started |-> r.started]

PendingPromotion(h) == IF HasPending(h) THEN PromotionOf(h[1]) ELSE NoRecord

DeployedPromotion(h) ==
  IF IsDeployed(h) THEN PromotionOf(Deployed(h).promotionRecord) ELSE NoRecord

Promises == INSTANCE Promotion WITH
  Times       <- Nat \ {Never},
  NoPromotion <- NoRecord,
  NoTarget    <- NoRevision,
  pending     <- PendingPromotion(serving.history),
  deployed    <- DeployedPromotion(serving.history),
  registry    <- {PromotionOf(r) : r \in {q \in records : q.kind = "Promotion"}},
  target      <- app.at

\* The controller implements module Promotion: the status is written from a
\* copy that may be old, yet no write forgets what is deployed or takes it back
\* to an earlier promotion, and what a write promotes was pending, with the
\* time its record holds, in the status before it, and recorded in the
\* registry (serving_controller.go: promote, deploy, patchStatus).
KeepsPromises == Promises!Spec

\* An Order whose gates stay open gets the Preparation it asks for deployed,
\* whatever failed, crashed or was read from an old copy before.
Wants(p) ==
  /\ order = "Manual" /\ serving.wanted = p /\ serving.life = "Live"
  /\ site = "Admitted"
  /\ gates[p] = Gates

EventuallyDeployed ==
  \A p \in Preps :
    <>[]Wants(p) =>
      <>[](/\ IsDeployed(serving.history)
           /\ Deployed(serving.history).preparation = p
           /\ app.at = p)

\* A deleted Serving goes, once its Application could be removed, and leaves
\* no Application behind: what garbage collection cannot reach, the finalizer
\* removes (serving_controller.go: reconcileDelete).
EventuallyGone ==
  (serving.life = "Deleting") ~> [](serving.life = "Gone" /\ app = NoApp)

=============================================================================
