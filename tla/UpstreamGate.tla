---------------------------- MODULE UpstreamGate ----------------------------
(***************************************************************************)
(* The upstream gate of a promotion pipeline: internal/promotion/gate.go   *)
(* and what the Serving controller makes of it                             *)
(* (ServingReconciler.upstream in serving_controller.go).  A stage may     *)
(* promote its Preparation of a Product revision once every upstream stage *)
(* its Preparation names ran its own of that revision healthily for a      *)
(* soak, and recorded that.                                                *)
(*                                                                         *)
(* Each upstream stage is its Order and the history its Serving keeps,     *)
(* which changes as the passes of module Serving change it, one status     *)
(* write a step.  The downstream stage is the passes of its own Serving,   *)
(* of which this module has what the gate decides: they read copies of the *)
(* upstream stages that lag, and the clock, and are woken by what the      *)
(* informers deliver and by the timer the gate asks for.                   *)
(*                                                                         *)
(* Every stage has one Preparation of each Product revision, by which      *)
(* revisions and Preparations are the same here.                           *)
(***************************************************************************)
EXTENDS History, FiniteSets

CONSTANTS
  Stages,     \* the upstream stages the downstream Preparations name
  Soak,       \* how long each of them must have run a revision healthily
  NumPreps,   \* how many revisions there are
  MaxTime,    \* bounds the clock
  MaxEdits,   \* bounds promotions, changes and failures
  Edits       \* of which kinds

ASSUME SoakAssumption == Soak \in [Stages -> Nat]
ASSUME NumPrepsAssumption == NumPreps \in Nat \ {0}
ASSUME MaxTimeAssumption == MaxTime \in Nat \ {0}

Preps == 1 .. NumPreps

\* No time is waited for.
NoTime == 0

VARIABLES
  now,        \* the clock
  upstream,   \* the Order and the history of each upstream stage
  registry,   \* the deployment records of the upstream stages
  streak,     \* how long each has run its Preparation healthily until now,
              \* and served, the longest that it ran each one healthily: not
  served,     \* in the code, and counted up to the soak
  seen,       \* the copies of upstream in the informer caches
  after,      \* the upstream stages the downstream Order names
  wanted,     \* the Preparation promoted by hand
  self,       \* the history of the downstream Serving
  queued,     \* whether the downstream Serving is queued
  due,        \* when it is queued again, NoTime when it is not
  edits       \* how many promotions, changes and failures there were

upstreamVars   == <<upstream, registry>>
soakVars       == <<streak, served>>
downstreamVars == <<wanted, self, queued, due>>
vars == <<now, upstreamVars, soakVars, seen, after, downstreamVars, edits>>

Edit(kind) ==
  /\ kind \in Edits /\ edits < MaxEdits
  /\ edits' = edits + 1

-----------------------------------------------------------------------------
(* promotion.Evaluate.                                                     *)

\* Not the code: the time counts from the promotion, not from when it was
\* healthy.
DeployedFor(e, t) == (IF Running(e) THEN t ELSE e.ended) - e.started

\* How long a deployment has been, or was, healthy.
HealthyFor(e, t) == (IF Running(e) THEN t ELSE e.ended) - e.healthy

\* The entries of a history that may qualify p.
Candidates(h, p) ==
  {i \in DOMAIN h : /\ h[i].preparation = p /\ Promoted(h[i])
                    /\ h[i].healthy # Never /\ h[i].endReason # Degraded}

Soaked(h, p, u, t) == {i \in Candidates(h, p) : HealthyFor(h[i], t) >= Soak[u]}

\* The entries that qualify p, and those that will once they soaked or are
\* recorded.
Qualifying(h, p, u, t) ==
  {i \in Soaked(h, p, u, t) : h[i].deploymentRecord # NoRecord}

Soaking(h, p, u, t) ==
  Soaked(h, p, u, t) \cup {i \in Candidates(h, p) : Running(h[i])}

Newest(I) == CHOOSE i \in I : \A j \in I : i <= j

\* Not the code: the end of the soak counts from the promotion.
SoakLeftOfPromotion(h, p, u, t) ==
  LET i == Newest(Soaking(h, p, u, t))
  IN  IF i \in Soaked(h, p, u, t) THEN 0 ELSE Soak[u] - DeployedFor(h[i], t)

\* How long until the soak that is under way ends, 0 when only the record is
\* missing.
SoakLeft(h, p, u, t) ==
  LET i == Newest(Soaking(h, p, u, t))
  IN  IF i \in Soaked(h, p, u, t) THEN 0 ELSE Soak[u] - HealthyFor(h[i], t)

Verdict(outcome, remaining) == [outcome |-> outcome, remaining |-> remaining]

\* evaluateStage
EvaluateStage(s, p, u, t) ==
  CASE s.product = "None"  -> Verdict("NotDeployedUpstream", 0)
    [] s.product = "Other" -> Verdict("InvalidPipeline", 0)
    [] s.product = "Own"   ->
         IF Qualifying(s.history, p, u, t) # {} THEN Verdict("Satisfied", 0)
         ELSE IF Soaking(s.history, p, u, t) # {}
           THEN Verdict("Soaking", SoakLeft(s.history, p, u, t))
         ELSE Verdict("NotDeployedUpstream", 0)

Outcomes == <<"Satisfied", "Soaking", "NotDeployedUpstream", "InvalidPipeline">>

\* The most severe outcome of the stages, and how long until the first soak
\* that is under way ends.
Evaluate(history, stages, p, t) ==
  LET verdicts == {EvaluateStage(stages[u], p, u, t) : u \in Stages}
      Severe(k) == \E v \in verdicts : v.outcome = Outcomes[k]
      waits == {v.remaining : v \in verdicts} \ {0}
  IN  IF Stages = {} \/ PromotedBefore(history, p) THEN Verdict("Satisfied", 0)
      ELSE Verdict(
             Outcomes[CHOOSE k \in 1 .. 4 : Severe(k) /\ \A j \in k + 1 .. 4 : ~Severe(j)],
             IF waits = {} THEN 0 ELSE CHOOSE w \in waits : \A x \in waits : w <= x)

\* The deployment that qualifies p at u.
Qualified(s, p, u, t) == s.history[Newest(Qualifying(s.history, p, u, t))]

\* VerifyDeployment, of the record in the registry.
Verifies(e, u) ==
  /\ e.deploymentRecord \in registry
  /\ e.deploymentRecord.order = u
  /\ e.deploymentRecord.preparation = e.preparation
  /\ e.deploymentRecord.healthy = e.healthy

-----------------------------------------------------------------------------
(* The upstream stages: status writes of their Servings.                   *)

Write(u, h) == upstream' = [upstream EXCEPT ![u].history = h]

\* The first pass of a promotion, after which another may replace it.
OpenPromotion(u) ==
  /\ upstream[u].product # "None"
  /\ Edit("Promote")
  /\ \E p \in Preps :
       /\ NextStep(upstream[u].history, p) = "Open"
       /\ Write(u, Open(upstream[u].history, p, now))
  /\ UNCHANGED <<now, registry, soakVars, seen, after, downstreamVars>>

\* The second pass, as late as the registry takes its record.
StartPromotion(u) ==
  LET h == upstream[u].history
  IN  /\ HasPending(h)
      /\ Write(u, Start(h, [order |-> u, preparation |-> h[1].preparation,
                            started |-> h[1].started]))
      /\ streak' = [streak EXCEPT ![u] = 0]
      /\ UNCHANGED <<now, registry, served, seen, after, downstreamVars, edits>>

\* Argo CD reports what is deployed healthy, or degraded.
ObserveHealth(u) ==
  LET h == upstream[u].history
      observed(health) == Observe(h, Deployed(h).preparation, health, now)
  IN  /\ IsDeployed(h)
      /\ \/ Write(u, observed("Healthy")) /\ UNCHANGED edits
         \/ Write(u, observed("Degraded")) /\ Edit("Degrade")
      /\ upstream' # upstream
      /\ streak' = [streak EXCEPT ![u] = 0]
      /\ UNCHANGED <<now, registry, served, seen, after, downstreamVars>>

DeploymentRecord(u, e) ==
  [order |-> u, preparation |-> e.preparation, healthy |-> e.healthy]

\* The push, and the status write that follows it or is lost.
RecordDeployment(u) ==
  LET h == upstream[u].history
  IN  /\ \E i \in Unrecorded(h) :
           LET record == DeploymentRecord(u, h[i])
           IN  /\ registry' = registry \cup {record}
               /\ \/ Write(u, [h EXCEPT ![i].deploymentRecord = record]) /\ UNCHANGED edits
                  \/ record \notin registry /\ Edit("Failure") /\ UNCHANGED upstream
      /\ UNCHANGED <<now, soakVars, seen, after, downstreamVars>>

\* Deleting an Order deletes its Serving and its history; it may be created
\* again for another Product.
ChangeOrder(u) ==
  /\ Edit("Order")
  /\ IF upstream[u].product = "None"
     THEN \E product \in {"Own", "Other"} :
            upstream' = [upstream EXCEPT ![u].product = product]
     ELSE upstream' = [upstream EXCEPT ![u] = [product |-> "None", history |-> << >>]]
  /\ streak' = [streak EXCEPT ![u] = 0]
  /\ served' = [served EXCEPT ![u] = [p \in Preps |-> 0]]
  /\ UNCHANGED <<now, registry, seen, after, downstreamVars>>

-----------------------------------------------------------------------------
(* The downstream stage.                                                   *)

\* The informers deliver a change of an upstream stage, and the Servings of
\* the Orders that name it are queued.
SyncUpstream(u) ==
  /\ seen[u] # upstream[u]
  /\ seen' = [seen EXCEPT ![u] = upstream[u]]
  /\ queued' = (queued \/ u \in after)
  /\ UNCHANGED <<now, upstreamVars, soakVars, after, wanted, self, due, edits>>

Sooner(d, wait) ==
  IF wait = 0 THEN d ELSE IF d = NoTime \/ now + wait < d THEN now + wait ELSE d

\* The candidate runs, or the gate holds it.  A pass that fails keeps what is
\* pending and is retried: it changes nothing here.
HoldCandidate ==
  LET gate == Evaluate(Drop(self), seen, wanted, now)
      current == NextStep(self, wanted) = "Deployed"
  IN  /\ queued
      /\ current \/ gate.outcome # "Satisfied"
      /\ self' = Drop(self)
      /\ queued' = FALSE
      /\ due' = IF current THEN due ELSE Sooner(due, gate.remaining)
      /\ UNCHANGED <<now, upstreamVars, soakVars, seen, after, wanted, edits>>

\* What the promotion record names as the evidence of the gate.
Evidence ==
  IF PromotedBefore(Drop(self), wanted) THEN << >>
  ELSE [u \in Stages |-> Qualified(seen[u], wanted, u, now).deploymentRecord]

QualifiedVerify ==
  PromotedBefore(Drop(self), wanted)
    \/ \A u \in Stages : Verifies(Qualified(seen[u], wanted, u, now), u)

\* The gate lets the candidate pass, twice; its other gates do too.
PromoteCandidate ==
  LET step == NextStep(self, wanted)
  IN  /\ queued
      /\ step # "Deployed"
      /\ Evaluate(Drop(self), seen, wanted, now).outcome = "Satisfied"
      /\ QualifiedVerify
      /\ self' = IF step = "Open" THEN Open(self, wanted, now)
                 ELSE Start(self, [preparation |-> wanted, started |-> self[1].started,
                                   upstream |-> Evidence])
      /\ queued' = (step = "Open")
      /\ UNCHANGED <<now, upstreamVars, soakVars, seen, after, wanted, due, edits>>

Wake ==
  /\ due # NoTime /\ due <= now
  /\ due' = NoTime
  /\ queued' = TRUE
  /\ UNCHANGED <<now, upstreamVars, soakVars, seen, after, wanted, self, edits>>

Want ==
  /\ Edit("Wanted")
  /\ \E p \in Preps \ {wanted} : wanted' = p
  /\ queued' = TRUE
  /\ UNCHANGED <<now, upstreamVars, soakVars, seen, after, self, due>>

\* The Order names other stages; the Preparations it rendered keep theirs.
ChangeAfter ==
  /\ Edit("After")
  /\ \E stages \in (SUBSET Stages) \ {after} : after' = stages
  /\ queued' = TRUE
  /\ UNCHANGED <<now, upstreamVars, soakVars, seen, wanted, self, due>>

-----------------------------------------------------------------------------

RunsHealthily(u) ==
  LET h == upstream[u].history
  IN  IsDeployed(h) /\ Running(Deployed(h)) /\ Deployed(h).healthy # Never

Tick ==
  /\ now < MaxTime
  /\ now' = now + 1
  /\ streak' = [u \in Stages |->
       IF ~RunsHealthily(u) THEN 0
       ELSE IF streak[u] < Soak[u] THEN streak[u] + 1 ELSE streak[u]]
  /\ served' = [u \in Stages |->
       IF ~RunsHealthily(u) THEN served[u]
       ELSE [served[u] EXCEPT ![Deployed(upstream[u].history).preparation] =
               IF streak'[u] > @ THEN streak'[u] ELSE @]]
  /\ UNCHANGED <<upstreamVars, seen, after, downstreamVars, edits>>

Upstream(u) ==
  \/ OpenPromotion(u) \/ StartPromotion(u) \/ ObserveHealth(u)
  \/ RecordDeployment(u) \/ ChangeOrder(u)

Downstream == HoldCandidate \/ PromoteCandidate

\* The history of a stage that promoted its first Preparation just now.
FirstHistory(u) ==
  Start(Open(<< >>, 1, 1), [order |-> u, preparation |-> 1, started |-> 1])

Init ==
  /\ now = 1
  /\ \E deployed, missing \in SUBSET Stages :
       /\ deployed \cap missing = {}
       /\ upstream = [u \in Stages |->
            [product |-> IF u \in missing THEN "None" ELSE "Own",
             history |-> IF u \in deployed THEN FirstHistory(u) ELSE << >>]]
  /\ registry = {}
  /\ streak = [u \in Stages |-> 0]
  /\ served = [u \in Stages |-> [p \in Preps |-> 0]]
  /\ seen = upstream
  /\ after = Stages
  /\ wanted = 1 /\ self = << >> /\ queued = TRUE /\ due = NoTime
  /\ edits = 0

Next ==
  \/ \E u \in Stages : Upstream(u) \/ SyncUpstream(u)
  \/ Downstream \/ Wake \/ Want \/ ChangeAfter \/ Tick

Spec == Init /\ [][Next]_vars

-----------------------------------------------------------------------------
(* Types.                                                                  *)

DeploymentRecords == [order : Stages, preparation : Preps, healthy : Nat]

UpstreamRecords(u) == [order : {u}, preparation : Preps, started : Nat]

SelfRecords ==
  [preparation : Preps, started : Nat,
   upstream : {<< >>} \cup [Stages -> DeploymentRecords]]

\* The entry of a promotion is told apart from one that is pending.
ASSUME NoRecordAssumption == NoRecord \notin SelfRecords

\* An upstream stage: the Product of its Order, and its history.
StageOf(u) ==
  [product : {"None", "Own", "Other"},
   history : Seq(RecordedEntriesOf(Preps, UpstreamRecords(u), DeploymentRecords))]

\* Every variable has its type, and every entry those records alone that are
\* about its stage and its Preparation.
TypeOK ==
  /\ now \in 1 .. MaxTime
  /\ upstream = [u \in Stages |-> upstream[u]] /\ seen = [u \in Stages |-> seen[u]]
  /\ \A u \in Stages : upstream[u] \in StageOf(u) /\ seen[u] \in StageOf(u)
  /\ registry \subseteq DeploymentRecords
  /\ streak \in [Stages -> Nat]
  /\ served \in [Stages -> [Preps -> Nat]]
  /\ after \subseteq Stages
  /\ wanted \in Preps
  /\ self \in Seq(RecordedEntriesOf(Preps, SelfRecords, {}))
  /\ queued \in BOOLEAN
  /\ due \in Nat
  /\ edits \in Nat

-----------------------------------------------------------------------------
(* What must hold.                                                         *)

\* What is promoted for the first time ran at every upstream stage that has
\* not changed unnoticed for its soak, without an interruption
\* (gate.go:115-117): neither a recovery, nor a promotion that was pending,
\* nor another deployment of the revision adds up to a soak.
SoakServed ==
  [][~PromotedBefore(self, wanted) /\ PromotedBefore(self', wanted) =>
       \A u \in Stages :
         seen[u] = upstream[u] => served[u][wanted] >= Soak[u]]_self

\* Every first promotion names, for every stage, a deployment of the same
\* revision that the registry records and that was healthy for the soak when
\* it was decided (promotion-pipelines.md:144-150), although stages move on
\* and writes that record deployments are lost.
EvidenceRecorded ==
  \A i \in DOMAIN self :
    Promoted(self[i]) /\ self[i].promotionRecord.upstream # << >> =>
      \A u \in Stages :
        LET record == self[i].promotionRecord.upstream[u]
        IN  /\ record \in registry
            /\ record.order = u /\ record.preparation = self[i].preparation
            /\ record.healthy + Soak[u] <= now

\* Nothing runs or is to run now, and the caches caught up.
Quiet == ~queued /\ (due = NoTime \/ due > now) /\ seen = upstream

\* The gate never passes with nobody looking: whenever nothing is queued and
\* no timer is due, what was promoted by hand is deployed or held by a stage
\* (promotion-pipelines.md:172-176).
QueuedPromotionDeploys ==
  Quiet /\ NextStep(self, wanted) # "Deployed" =>
    Evaluate(self, upstream, wanted, now).outcome # "Satisfied"

\* The same of an Order that names the stages of its Preparations: historyChanged
\* and the end of the first soak are all that has to wake the Serving
\* (serving_controller.go:1579-1588, gate.go:84-86).
GateWakes == after = Stages => QueuedPromotionDeploys

\* An upstream stage that moves on still qualifies the revision it qualified
\* before (gate.go:117-118).
MovedOnQualifies ==
  [][\A u \in Stages, p \in Preps :
       LET h == upstream'[u].history
       IN  /\ EvaluateStage(upstream[u], p, u, now).outcome = "Satisfied"
           /\ IsDeployed(h) /\ Deployed(h).preparation # p
           => EvaluateStage(upstream'[u], p, u, now).outcome = "Satisfied"]_upstream

=============================================================================
