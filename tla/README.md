# A TLA+ model of Kokumi's delivery

Kokumi renders the Kubernetes manifests of a *Product* for each *Order* (one
stage of it), keeps every render as an immutable *Preparation* in an OCI
registry, and deploys the one that passed its gates through Argo CD. What it
promises is about promotion: nothing is deployed that did not pass its gates,
the registry holds a signed record of each decision before it takes effect, and
what passes is deployed in the end. Those promises are kept by controllers that
read lagging caches, write under optimistic locks, push to a registry that may
fail or lose its answer, and may be restarted at any time. That is what these
modules model.

Paths are relative to the repository; `serving_controller.go:284` and the like
name the file where its directory is clear from the text.

## The system

| Component | State | Operations | Meets |
|---|---|---|---|
| Serving controller (`internal/controller/serving_controller.go`) | Serving `status`: history, target | one reconcile pass: choose the candidate, gate it, open, record and start its promotion, deploy, observe, record the deployment, write the status; finalize | Preparations, Orders, Products, Environments, Clusters, Approvals (cache); the registry; Argo CD; the Servings of downstream stages |
| Promotion domain (`internal/promotion`) | the history, newest entry first | `Open`, `Drop`, `Start`, `Observe`, `RecordDeployment`; the gate `Evaluate`; records | pure; called by the Serving and Order controllers |
| Argo CD engine (`controller/argocd.go`, `internal/argocd`) | Applications | `Apply`, `Remove`, `StateOf` | the Application cache, Argo CD |
| Preparation controller | Preparation `status`: evidence, votes, seal, statement | attach evidence, evaluate, seal, archive | the registry, the Serving's target, Approvals |
| Approval controller, approval endpoint, `internal/approval` | Approvals, their `Counted` conditions | submit a vote, evaluate the votes, report a verdict | the Preparation's status |
| Order controller | Order `status`: latest Preparation, hash, recorded render | render, create the Preparation, create or adopt the Serving | Product, registry, `internal/artifact`, `internal/resolve` |
| Product controller | Product `status`: published source and its verification | resolve, publish, verify again, protect from deletion | registry, signing state, Orders |
| Scan controller, `internal/scan`, `internal/sbom` | Product `status`: image records | find what is in use and due, scan, attach SBOM and report, record | Preparations and Servings (cache), scanner, registry |
| Scanner (`internal/scanner`, `cmd/scanner`) | databases on a volume, running requests | install, prune, scan | the scan controller |
| Kitchen controller, `internal/signing` | the Kitchen, its Secrets, the signing state of the process | generate, load, keep the last good state, notify | every controller that signs or verifies; the server |
| Cluster and Environment controllers | cluster Secrets of Argo CD, the count of an Environment | register, move, unregister, probe, count | Servings that deploy there |
| Sessions (`sessions.go`, `ended_sessions.go`, `backchannel.go` of `internal/server`) | tokens, the ConfigMap of ended sessions and each replica's copy | sign in, refresh, sign out, log out, prune | the OIDC provider; replicas meet in the ConfigMap |
| Authentication settings (`auth_manager.go`) | keys, account and provider in use | reload after events | the Kitchen and its Secrets |
| Event hub and streams (`watcher.go`, `hub.go`, `handler.go`) | the last snapshot of each type, the subscribers | list, publish, stream, close | the server's caches, ended sessions |

Controllers never call each other. They meet in objects on the API server: one
writes a status, the informers of another deliver it some time later, a filter
(predicate) decides whether that wakes a pass, and the pass reads whatever the
caches hold by then. A controller's own status writes mostly wake nobody. So
the hard behaviours are stale reads, lost wake-ups, steps that happen although
the pass that took them never wrote its status, and decisions of one controller
on what another is about to change.

What makes each component correct:

- *History*: one deployment runs at most, and it is the last one promoted.
- *Serving*: promoted means recorded first; a stale pass forgets and invents
  nothing; whatever is asked for and passes is deployed; a deleted Serving
  leaves nothing behind.
- *Upstream gate*: a revision passes only after an uninterrupted soak with a
  record in the registry, and whoever waits is woken when it does.
- *Approvals*: what is promoted was approved as its one sealed statement says;
  a veto that was recorded in time is never lost; two controllers that wait on
  each other both proceed.
- *Order*: what the spec asks for last is rendered, from the Preparation before
  it, and no intent is rendered twice for nothing; the Serving is the Order's own.
- *Product*: what it says is verified is signed by a key that is trusted now, and
  it goes when its last Order went. *Signing*: the state in use is the last that
  loaded; a change of trust is heard.
- *Clusters*: one registration for one server, never a foreign one, and none is
  left waiting for a server that is free.
- *Scans*: an image in use has a current scan, no image is scanned before it is
  due, and none has two SBOMs. *Scanner*: a database outlives the requests that
  began to read it while it was the newest, and the volume holds two at most.
- *Sessions*: no token outlives its session, and what ended stays ended on every
  replica. *Authentication*: the server signs in with what the Kitchen names.
- *Events*: every client ends on the current lists, and no stream outlives the
  token or the session it belongs to.

`PROJECT.json` lists every component with what is modelled of it, and the
hazards at their lines with the properties that cover them.

## The modules

| Module | What it is |
|---|---|
| `History` | `internal/promotion/history.go` as operators on sequences of entries |
| `HistoryProofs` | what each of these operators preserves |
| `Serving` | one Serving, its controller, its Application, Argo CD, the registry |
| `Promotion` | what a Serving promises of a promotion, in five actions |
| `ServingProofs` | the inductive invariant of `Serving`, the theorems it gives, and that `Serving` implements `Promotion` |
| `Approvals`, `MCApprovals` | the votes on one Preparation: server, Preparation, Approval and Serving controllers |
| `ApprovalsProofs` | the inductive invariant of `Approvals` and the theorems it gives |
| `UpstreamGate`, `MCUpstreamGate` | `internal/promotion/gate.go` between upstream stages and one downstream stage |
| `GateProofs` | the inductive invariant of `UpstreamGate` and the theorems it gives |
| `Order`, `MCOrder` | one Order: its renders, its Preparations, its Serving |
| `OrderProofs` | the inductive invariant of `Order` and the theorems it gives |
| `Kitchen` | the Kitchen, the Secret of the signing key and the signing state |
| `Product`, `MCProduct` | one Product, composed with `Kitchen`, whose trust it is verified against |
| `Clusters`, `MCClusters` | Clusters, their registrations with Argo CD, an Environment that selects them |
| `Scan`, `MCScan` | the scans of one Product's images |
| `ScanProofs` | the inductive invariant of `Scan` and the theorems it gives |
| `Scanner`, `MCScanner` | the scanner's requests and its databases |
| `ScannerProofs` | the inductive invariant of `Scanner` and the theorems it gives |
| `Sessions`, `MCSessions` | sessions and the record of ended ones on several replicas |
| `SessionsProofs` | the inductive invariant of `Sessions` and the theorems it gives |
| `Auth`, `MCAuth` | the Kitchen controller's login Secrets and the server that reloads them |
| `Events`, `MCEvents` | informer handlers, snapshots, the hub and the streams |

`Serving` and `UpstreamGate` both extend `History`: the code has one
`promotion.History`, and so have the modules. They split the Serving at the
gates. `Serving` has the gates of a Preparation as a set that the environment
opens and closes, and everything the controller does with that. `UpstreamGate`
and `Approvals` have what decides two of these gates, with the passes of the
Serving controller reduced to what they decide.

### Serving

A pass is a record `pass` with the copy it read (`base`, and whether that is of
the current version), the history it works on, and the step it is at.

| Step | Action | Code |
|---|---|---|
| read the Serving | `StartPass` | `Reconcile` |
| choose and gate the candidate, open or drop the pending entry | `Promote`, `PromoteFails` | `reconcileServing`, `promote`, `gate`, `upstream`, `verify` |
| push the promotion record, start the entry | `PushPromotion`, `PushPromotionFails` | `recordPromotion`, `History.Start` |
| point the Application at the deployed artifact, observe it | `Deploy`, `DeployFails` | `deploy`, `argoCD.Apply`, `observationOf`, `History.Observe` |
| push deployment records | `RecordDeployments`, `RecordDeploymentsFails` | `recordDeployments` |
| remove Applications, remove the finalizer | `Remove`, `Finalize` | `remove`, `reconcileDelete` |
| write the status, decide the requeue | `PatchStatus`, `PatchStatusFails` | `patchStatus`, `soonest` |

A failing push has both outcomes: the registry took the record and the answer
was lost, or it did not. `Crash` loses the pass, queue and timer. Around it are
the informers (`SyncServing`, `SyncApplication` with the predicate `Watched`),
Argo CD (`ArgoCompares`, `ArgoSyncs`, ...), the clock and the edits of users
and other controllers, each with the watch that queues the Serving.

A resource version is modelled by whether a copy is current: a write makes
every other copy outdated, which is all that a lock on a version tells apart.
A record's digest is the record itself, as it is a hash of bytes that depend
on nothing else.

### Approvals

`approvals` is the list on the API server and `seenLength` how much of it the
cache holds. A request is three steps (check the Preparation, list the votes,
create one), so that requests overlap each other and the seal. The Preparation
controller's pass attaches the evidence, or evaluates, seals on votes read from
the API server, or archives; then it writes its status under the lock. The
Serving controller is one action `Serve`: gate the Preparation, name it the
target, promote it. `ReportVote` is the Approval controller.

### UpstreamGate

An upstream stage is its Order and its history, changed by single status writes
(`OpenPromotion`, `StartPromotion`, `ObserveHealth`, `RecordDeployment`), and by
its deletion and return. The downstream stage decides on copies (`seen`) and is
woken by deliveries of the stages its Order names, and by the timer the gate asks
for. `streak` and `served` are not in the code: they measure how long each
Preparation really ran healthily without a break, and the gate is compared with
them.

### Promotion, and what Serving promises

`Promotion` has four variables: the promotion that is decided, the one that is
deployed, the promotions the registry holds a record of, and the Preparation the
Application points at. It says what may happen: a promotion is decided, no
earlier than the deployed one was; withdrawn; recorded; once recorded deployed,
as the one that was pending; and the Application is only ever pointed at a
Preparation with a record. `Serving!Promises` is the refinement mapping (pending
is the first entry without a record, deployed the newest one with a record), and
`KeepsPromises` says that each of the controller's steps, and each of a crash, a
failure or a stale read, is one of these steps or changes nothing of it.

### Order

A pass is a record as in `Serving`. `Decide` is the checks of `reconcileOrder` on
the cached Product, Registry and pipeline, and whether the intent was rendered
already; a new intent is recorded in the status first (`PatchStatus`), and that
write wakes the pass that renders: `IsLatest` compares with the API server,
`Render` pushes, `CreatePreparation` finds its own Preparation again or makes one,
`ConsumeMessage` takes the commit message from the spec, and the status is written
last. `KeepServing` creates the Serving of an Automatic Order, adopts one, or
waits for the one of a deleted Order. The user's promotion (`BeginPromote`,
`EndPromote`) is two steps, since the endpoint reads and then writes. An intent is
a pair of a spec and a source: equal intents have equal hashes.

### Kitchen and Product

`Kitchen` is the part of the Kitchen controller that makes the signing key and
loads it, the provider, and the first use of it by a Product, which may hold the
provider's lock at the same time (`BeginLoad`, `ReadKitchen`, `FinishLoad`). A key
is a number; one that was lost is generated as the next number. `Kept` is the last
good state that only a read error keeps. `Product` extends it: a pass resolves
and publishes the source once for a spec and verifies it in every pass, with the
keys of the Secret its spec names or with the Kitchen's; `KeepsSigner` is when an
unreachable registry leaves the recorded verification in place.

### Clusters

Clusters reconcile at the same time, each in its own pass of several steps: the
conflict for a server (`Conflict`), removing the registrations it no longer wants
(`Unregister`), registering (`Register`), the probe and the status. A registration
is named after its server, so that creating it decides who holds it; the
preconditions on UID and version are `Present` and the copies the cache holds. The
Environment's pass (`BeginEnvironment`, `CountEnvironment`) counts what it selects.

### Scan and Scanner

`Scan` is the pass of the scan controller: what is in use (`InUse`, from the recent
Preparations, the target and the deployed one), whether the copy is current
(`Confirm`), what is due (`Due`), and one image after the other: the scanner's answer
(`Call`), the SBOM (`AttachSBOM`) unless one is found (`Find`), the report
(`AttachReport`), and one patch at the end. Every kind of object has a cache of its
own. `Recheck` is when a verdict over images must be made again. `Scanner` is the
component that answers: `Arrive`, the install of a database under a lock (`Lock`,
`Prune`, `Rename`), the scan, and requests that end before their install does.

### Sessions

A refresh that has to ask the provider is in `flight` between `Refresh` and
`ProviderAnswers`, and any number of other requests happen between. The tokens of a
session are all those that were issued and have not expired: a copy of an old one
may be redeemed at any replica. `RecordPatch` and `RecordCounts` are the two halves
of `record`, the patch of the ConfigMap and the entry on this replica; `Watch`
delivers the versions in order (`Update`, with the pending entries), `Prune` drops what
`Expired` says, `Restart` starts a replica with what the API server holds on its way.

### Auth

The Kitchen controller's pass over `spec.auth` (generate the token key, generate the
initial password and its hash as two creates, check the rest, write the status) and the
server's two handlers, each on a goroutine of its own, which read the Secrets one by
one (`Read`) and then put the result in place (`Swap`). `doubt` is not in the code: it
marks a reload that had a failed read or was overtaken.

### Events

A handler changes its cache and triggers a refresh (`Handle`); the refresh lists
Products and Orders, and publishes each list (`Publish`); the hub keeps the last one and
offers it to each subscriber, whose queue holds one event of a type (`Queued`). A stream
subscribes, waits for an event, a change of the ended sessions or its token's end, and
looks at its session after a change (`Look`). `missed` is not in the code: it marks a
session that ended while the stream was at another step.

## The runs

| Run | Properties | What it shows |
|---|---|---|
| `serving_stale` | `HistoryInv`, `RecordedFirst`, `Inductive`, `KeepsPromises` | safety with Serving *and* Application copies of any age, and a failure or a change of the Order, its site or a gate: the shape of the history, records first, the invariant of the proofs, and the refinement of `Promotion` |
| `serving_live` | `NoLostWakeup`, `NothingPends`, `EventuallyDeployed`, `EventuallyGone` | two of: another Preparation is asked for, an approval comes or goes, a degradation, a crash, the deletion; under the fairness below what is asked for is deployed, what is deleted goes, nothing is left half way |
| `approvals` | `RegistryHolds`, `PromotedAsVoted`, `VotesSettle`, `TargetPromoted`, `SealHolds` | two approvers, failures, lost answers, closing gates and a crash |
| `gate` | `EvidenceRecorded`, `GateWakes`, `SoakServed` | two upstream stages with different soaks, one downstream stage |
| `order` | `RendersOnce`, `IntentRendered`, `ServingKept`, `ParentIsLatest` | edits, deletion and return, promotions, renders that fail, die or read old copies |
| `product` | `KeyPublished`, `ProductSettles`, `VerifiedIsSigned`, `ProductReleased` | keys that are lost, broken and made again under a Product that is verified with them |
| `clusters` | `ClustersSettle`, `OwnRegistration` | two Clusters that may want one server, foreign Secrets, failed registrations |
| `scan` | `OneSBOM`, `ScansSettle`, `RecheckInTime`, `NoRescan` | images that come into use and go while scans fail, are due and are turned off |
| `scanner` | `TwoVersions`, `SurvivesNext`, `DownloadsComplete` | installs that overlap with requests, cancelled requests, a restart |
| `sessions` | `Lifetime`, `EndedEverywhere`, `CheckedInTime` | a session whose old and new tokens are redeemed on two replicas while it ends |
| `auth` | `AuthCurrent`, `PasswordReadable` | settings and Secrets that change under a controller that generates and a server that reloads |
| `events` | `CatchesUp`, `StreamsEnd` | bursts of changes, a slow client that leaves and comes back, a token and a session that end |

### Statements that the code does not keep

The modules define twelve statements of comments and guides that no run checks,
because the code does not keep them in the cases below. TLC shows each when the
definition is added to the configuration, with the change, that is named.

| Statement | Configuration | What happens |
|---|---|---|
| `RejectVetoes`: an eligible rejection vetoes | `approvals.cfg`, `MaxApprovers = 1` | two new approvers pass the limit together, and the evaluation cuts the newest off |
| `VerdictsSettle`: verdicts are reported again whenever the votes change | `approvals.cfg` | the status changes before the vote reaches the cache of the Approval controller |
| `MovedOnQualifies`: a stage that moved on still qualifies the revision | `gate.cfg`, as a `PROPERTY` | the predecessor ends when the next promotion was decided, not when it was replaced |
| `QueuedPromotionDeploys`: a queued promotion deploys once its stages pass | `gate.cfg` | the Order no longer names the stage its Preparation waits for, so nobody is woken |
| `NewestIsLatest`: the newest Preparation of an Order is its latest | `order.cfg` | an edit is taken back while the Preparation it made is not yet in the status |
| `AutomaticServed`: an Automatic Order with a Preparation has its Serving | `order.cfg`, `MaxEdits = 3`, `Edits = {"Registry"}` | the retry of a failed creation reads a copy from before the Preparation while the Registry does not connect; it comes back with the Registry |
| `TrustReloaded`: the signing state is that of the Kitchen and its Secret | `product.cfg` | a load that could not read keeps the last state, and nothing tries again |
| `NoStrayRegistration`: a registration moves, and goes, with its Cluster | `clusters.cfg` | the Cluster goes before the cache lists the registration it has just made |
| `ScannedIsCurrent`: Scanned means a current scan of every image in use | `scan.cfg` | a pass on an old copy finds the status it would write, and writes nothing |
| `ReadsWhatIsThere`: no database goes under a request that reads it | `scanner.cfg` | the version before the last goes with the second install |
| `ReplicasNeverConflict`: the replicas' patches never conflict | `sessions.cfg`, `MaxEntries = 2`, `SessionTTL = 2`, `MaxTime = 4`, `Edits = {"Logout"}` | a replica prunes a user's logout that another one has just renewed under the same key |
| `StreamEndsWithSession`: a stream ends with its session | `events.cfg`, as a `PROPERTY` | the session ends while the stream is between its check and its wait |

`NoLostWakeup` and `EventuallyGone` fail in `serving_live.cfg` with
`AppLag = TRUE`: `Apply` compares with a copy of the Application older than the
controller's own last update and the event that shows the difference is
filtered, and the finalizer lists the Applications from a cache that may lack the
newest.

### Bounds

`MaxEdits` and `MaxFailures` bound the faults and the changes of the
surroundings, `Edits` names the kinds a run allows; the steps of the program
itself are not bounded but by what they work on. Two changes give each race there
is between a change, its delivery and a second one; where a property needs three
(`scan`: a release, its use and a fault) there are three.

- *Serving*: `serving_live` has two Preparations (a promotion, its replacement, a
  rollback), two edits and one second. `serving_stale` has three Preparations and
  seconds, so that the history reaches `MaxEntries = 3` (16 in the code) and is
  truncated, and one edit besides the promotions. What it checks is proved for all
  values.
- *Approvals*: two approvers, two requests, room for both in a status (64 in the
  code); they are interchangeable, and the properties name none.
- *UpstreamGate*: soaks of one and two ticks, and four ticks: room for a soak that
  is broken and begun again. One edit breaks a soak, moves a stage on, or loses a
  write; recoveries and recordings are not edits.
- *Order*: three specs and two sources, of which one pair is refused by the Product
  and one has a patch that does not apply; *Product*: two keys and two sources; *Clusters*: two Clusters, two
  servers, and two faults and changes together (`MaxEvents`).
- *Scan*: two images, one shipped with an SBOM, of which one release is recent; an
  interval of two ticks in a clock of three; at most one tick during a pass.
- *Scanner*: three versions of one database and one of another, two requests.
- *Sessions*: one session and one of the provider, two replicas, lifetimes that all
  differ in their order (`AccessTTL < IdleTTL < SessionTTL`), and a clock that
  outlives them. With two sessions nothing new happens: sessions share the record
  only, by keys of their own, which is what the proof shows.
- *Auth*: two edits. *Events*: four changes, two types of lists, a client that opens
  two streams.

`CHECK_DEADLOCK FALSE` is set everywhere: with its edits used up and the clock
at its bound, a system in which all is done stops. That nothing stops too early is
what the properties of a quiet system say (`VotesSettle`, `TargetPromoted`,
`GateWakes`, `IntentRendered`, `ServingKept`, `ProductSettles`, `ClustersSettle`,
`ScansSettle`, `AuthCurrent`): once nothing is queued, due or on its way, everything
is as the current state asks.

`AppLag = TRUE` lets a pass read an Application from before the controller's own
last write. Safety is checked, and proved, with it; the wake-up and liveness
properties without it, since they fail with it (above).

### Fairness

- `Serving!FairSpec`: weak fairness of `Pass` (a worker that took a key goes on),
  `Requeue` (the delayed queue delivers), the two informers, and Argo CD's
  comparison, sync and health. Each of them stays enabled until it is taken.
  Failures, crashes, edits and degradations are not fair. `EventuallyDeployed` asks
  that in the end the Order is Manual, wants the Preparation, its gates are open
  and its site admits it; nothing else.
- `Scanner`: weak fairness of the steps of an install once it has the lock, and
  strong fairness of taking it: a mutex of Go is handed over in the order of its
  waiters in the end, but is taken by others in between.
- `Events`: weak fairness of the refresh (one goroutine, no other wait than its
  delay) and of a stream's loop and the client that reads it.

The other modules have properties of a quiet system in place of liveness, as
their queues hold one key and nothing else decides who goes next.

### Assumptions

Periodic resyncs of the informers (controller-runtime's default, 10 hours) are
left out: the properties ask that events and timers alone suffice. A requeue after
a conflict comes later than the informer's delivery of the version it conflicted
with. Conditions, messages and Events are left out, since no modelled decision
reads them, except those that are named as state.

- *Serving*: Argo CD keeps an Application's status when its spec changes; the
  Serving has its finalizer initially.
- *Approvals*: votes of other Preparation UIDs or digests are left out; whether a
  vote is eligible is fixed when it is cast; creation order is the order of
  `compareApprovals`; the two passes of a promotion are one `Serve`.
- *UpstreamGate*: one Preparation for one revision and stage; the Order and the
  Serving of a stage are delivered together; `productRef` is immutable, so a stage
  changes its Product only by being deleted and made again; the gates other than
  the upstream gate pass.
- *Sessions*: one tick is long against a request, a patch and the delay of a watch,
  and `PendingTTL` is a tick at least (five minutes in the code). Session IDs are
  random, so no two sessions share one, and none is an ID of the provider.
- *Scan*: a tick is long against the steps of a pass but for the scanner's answer.

## What is proved

Each module of proofs has an invariant, `Inductive`, that holds initially and is
kept by every step, with one lemma for each action; TLC checked it as an
invariant of the run before it was proved. What it does not need is in invariants
of their own on top of it (`Copies`, `Pursued` and `Noticed` of the Serving,
`Settling` of the approvals and of the scans, `Waiting` of the gate, `Accounts` of the
Order), which were checked and proved in the same way. The theorems hold for all
values of the constants that satisfy the named assumptions (`...Assumption`), which
TLC evaluates in each run. Every safety property that a run checks of these seven
components is a theorem.

| Module | Theorem | Proves |
|---|---|---|
| `ServingProofs` | `InductiveHolds`, `TypeCorrect` | the invariant, the types |
| | `HistoryShape`, `RegistryFirst` | `HistoryInv`, `RecordedFirst` |
| | `ChainHolds` | a deployment record names a promotion record that is there |
| | `Implements` | `KeepsPromises`: `Serving` implements `Promotion` |
| | `NothingPendsHolds` | `NothingPends` |
| | `NoLostWakeupHolds` | `NoLostWakeup`, unless `AppLag` |
| `ApprovalsProofs` | `InductiveHolds`, `TypeCorrect` | the invariant, the types |
| | `RegistryCorrect`, `PromotedAsVotedHolds` | `RegistryHolds`, `PromotedAsVoted` |
| | `SealedStays` | sealed votes and their statement never change |
| | `SealCorrect` | `SealHolds`, where every approver fits the status |
| | `SettlingHolds` | the invariant about who is woken up |
| | `VotesSettleHolds`, `TargetPromotedHolds` | `VotesSettle`, `TargetPromoted` |
| `GateProofs` | `InductiveHolds`, `TypeCorrect` | the invariant, the types |
| | `EvidenceRecordedHolds`, `SoakServedHolds` | `EvidenceRecorded`, `SoakServed` |
| | `GateWakesHolds` | `GateWakes` |
| `OrderProofs` | `InductiveHolds`, `TypeCorrect` | the invariant, the types |
| | `IntentRenderedHolds`, `ServingKeptHolds` | `IntentRendered`, `ServingKept` |
| | `ParentIsLatestHolds`, `RendersOnceHolds` | `ParentIsLatest`, `RendersOnce` |
| `ScanProofs` | `InductiveHolds`, `TypeCorrect` | the invariant, the types |
| | `OneSBOMHolds`, `NoRescanHolds`, `RecheckCorrect` | `OneSBOM`, `NoRescan`, `RecheckInTime` |
| | `ScansSettleHolds` | `ScansSettle` |
| `ScannerProofs` | `InductiveHolds`, `TypeCorrect` | the invariant, the types |
| | `TwoVersionsHolds`, `SurvivesNextHolds` | `TwoVersions`, `SurvivesNext` |
| `SessionsProofs` | `InductiveHolds`, `TypeCorrect` | the invariant, the types |
| | `LifetimeHolds`, `CheckedInTimeHolds`, `EndedEverywhereHolds` | `Lifetime`, `CheckedInTime`, `EndedEverywhere` |

`HistoryProofs` has the lemmas about histories: for every history and every
`MaxEntries >= 2`, `Drop`, `Open`, `Start` and `Observe` keep its type and its shape
(`OnlyNewestRuns`: only the first entry is pending, and every promoted entry below
the deployed one has ended). They are about sequences as functions;
`DeployedIndexIs` characterises the entry the `CHOOSE` in `DeployedIndex` picks.

**Serving.** `HistoryInv` and `RecordedFirst` are not inductive alone: both are about
the status on the API server, and the next status comes from a pass that read a copy
a while ago. So the invariant has the shape, and the records, of every copy of the
history (on the API server, in the cache, the one a pass read and the one it works
on); what a pass is about to push is pending; the Application points at nothing
without a promotion record; every deployment record names a promotion record in the
registry. A lemma (`GoodGrows`) says that a good history stays good while the
registry grows, and `InPass` collects what holds in the middle of a pass. It holds
for both values of `AppLag`.

**The refinement.** `Copies` strengthens the invariant by how the copies of the history
relate: a copy that is fresh is the one on the API server; what a pass has made of the
one it read is no step of a promotion, or one (`Follows`); what is pending or recorded
is not ahead of the clock. So the locked status write of a pass is one step of
`Promotion` or none, whatever the pass did before and whatever happened meanwhile.
There is a lemma for each method of the history that says what it does to the promotion
that is pending and to the one that is deployed.

**No promotion is left half way.** `NothingPends` is about a Serving with nothing
queued and no timer, so the invariant (`Pursued`) says who will look at what is
pending. A pass that is past the gates leaves a promotion pending only if it asks to
run again (`Retries`). And a copy that lacks the pending promotion, in the cache or in a
pass, is not the last one that is looked at (`Awaited`): when the cache still has it,
a timer is set, since the write that made the promotion pending asked for another
pass. A deleted Serving does not come back (`Lives`), so that a pass on a copy
that says it is deleted need not look.

**No wake-up is lost.** Status writes and updates of the Application wake nobody up,
so a pass must have seen all that counts. `Noticed` has what that takes: a pass that asks
for no other one has changed the history only by settling what is pending, or by adding
deployment records (`Turns`); so one that works on an older copy (`Behind`) knows what is
deployed, or cannot leave its copy as it is and then meets a conflict (`Suffices`,
`Amends`). The mode it read is the Order's, or the Serving is queued (`Modes`).
What it saw of the Application is still in the cache, as every change of it that
matters (`Watched`) queues the Serving (`Saw`); and what is deployed has not ended as
superseded (`Current`). So what the last pass left is right (`Rests`). One step needs
`~AppLag`: a pass compares the Application of the cache with the one it wants, and finds
nothing to do if the cache has not got its own last write. The run `serving_live`
assumes the same; the other case is a hazard with no property
(`argocd.go:97`).

**Approvals.** Every copy of the Preparation is of what it is or was (`CopyOf`), so that
sealed votes are the same in all of them, and is the Preparation while its lock is good.
The registry holds no statement but the one these votes make, and evidence of whatever
is ready. `PassGood` says what each step of a pass has done so far; its last conjunct is
that a seal leaves out no veto that was cast before the pass began. That approvals of
distinct approvers were counted is `DistinctApprovers`, about the cardinality of an
image. `SealCorrect` assumes that there are no more approvers than the status has room
for: with more, the code drops the newest, and a veto with it (`RejectVetoes` above).
`SealedStays` needs no such assumption.

`VotesSettle` and `TargetPromoted` are about who is woken up (`Settling`). While nothing
queues the Preparation, a pass works on the copy the cache still has, with the votes that
are there, and leaves it alone only if there is nothing to do (`Awake`). Votes that are
still to be reported are in line (`Reported`), and the Serving is, too, until it has
promoted what it can (`Served`). Sealed votes were enough
(`SealedApproved`), so what is archived of them is a statement the gate accepts.

**The upstream gate.** A history is a claim about the past: `EntryGood` says that it is
true. What an entry says it was healthy for, up to the soak, `served` has counted, and
what still runs is behind `streak` too; nothing in it is ahead of the clock, and what is
pending is not healthy. Each of `Open`, `Start`, `Observe` and the tick keeps that of
every entry (`OpenGood`, `StartGood`, `ObserveGood`, `TickGood`); `Start` does since it
ends what it replaces at the time the pending entry was opened, which is no later than
now, so that it claims less than was served. `GateVerdict` is what a satisfied verdict
over all stages means: each has an entry that qualifies, and the newest of them is one
(`NewestIn`). `SoakServed` follows for the stages that are as the copies say. Of the
others the copy only says what was true once (`CopyGood`), which is enough for
`EvidenceRecorded`: an end in the past and a record in the registry stay what they are.

`GateWakes` needs that nothing becomes satisfied unseen (`Waiting`): until the timer
fires, the gate would hold the candidate by the copies that are there. While they stay
as they are only what runs can qualify later, and it is the newest, so the time that
the gate asks for is no later than when the first stage passes (`StageWaits`), and the
shortest of these no later than when all do. A copy that changes
otherwise has another history, which queues the downstream stage.

**The Order.** The event filter lets most status writes through unseen, so the argument
is about what a copy may lack (`Known`): when nothing wakes the Order, the copy in the
cache, and the one a pass read, agree with it in all that a render depends on, no render
was recorded since, and the latest Preparation differs only if the copy has the render
recorded that made it. That is kept by every write: one of a user passes the filter,
and one of a pass passes it or has that shape. `StepGood` says what a pass has done so
far, and `Outcome` how it may end without a retry: what the Order needs does not let it
render, it records a render, which wakes the Order, its intent is rendered, or is one
that never renders. So a quiet Order is settled (`Wakes`); when the status write finds
nothing to write, this is where `Known` is needed, as the status that is compared with
is that of the copy. `ServingGood` adds what `ensureServing` has seen to before
the status was written. A Product, a pipeline or a Registry that changes queues the Order
before it is quiet again. `ParentIsLatest` is the part of `Outcome` about the parent,
with the lock of the status write.

`RendersOnce` bounds a number, so its invariant (`Accounts`) is an account. Only a
Preparation with the parent the status names can be repeated (`Open`): once the status
names the last one, what was rendered before is out of reach. Every Preparation that is a
repetition, or is open, is charged to a change, a failure or a crash of its own
(`Charged`): one that came after its render and before its status write, which
would have named it. A pass whose Order was changed since it asked the API server has
its charge before it renders (`Outdated`), and the last Preparation has none while
nothing has come between (`Due`). Of what is open one is the first of its intent and
no repetition (`Firsts`), which makes up for that one.

**Scan.** A pass that has asked the API server works on the scan status as it is, since
nobody else writes that; so what it scans was due by the records on the API server
(`PassGood`), whatever the caches hold. What was found to have no SBOM has none until
this pass attaches it. `RecheckInTime` needs that a bounded set of numbers has a
minimum (`MinExists`). For `ScansSettle` the second invariant (`Settling`) follows a pass
that nothing has queued again: it judges by what the caches still hold, each image in
use has a young scan, is to be scanned or has failed (`Accounted`), and what it
writes lists them all unless there are more than the status has room for
(`Covers`). The timer is set for the first scan that gets too old, and every record
in a status has its report attached (`Reported`). There are finitely many digests.

**Scanner.** The lock of a kind of database is held by an install at most, and what that
installs is not on the volume yet; once it has pruned, at most one version is left
(`LockGood`), which gives `TwoVersions`. A request that waits does so for one
install, of the version it wants (`WaitGood`). A version that was the newest when a
request began to read it is the last one until the next install prunes, and is
there until the one after that prunes (`HoldGood`).

**Sessions.** For the tokens: those of a session end with it and are checked in time,
also the one a refresh in flight holds. For the record: an entry is in the
ConfigMap, and in every version after the first one with it, until every session it
names is over (`RecordGood`); a replica that recorded it has it, and has it pending
for longer than a version without it may be under way (`OwnEntryGood`, which uses that
`PendingTTL` is a tick at least). Pruning is safe since an entry is no older than the
sessions it names (`EntryOf`). `SessionKeys` leaves out the entries of a user, for which
this fails (`ReplicasNeverConflict` above).

Only model-checked is everything about `Product` with `Kitchen`, `Clusters`, `Auth` and
`Events`: `KeyPublished`, `VerifiedIsSigned`, `ProductReleased`, `ProductSettles`,
`ClustersSettle`, `OwnRegistration`, `AuthCurrent`, `PasswordReadable` and the rest. Their
properties are of the kinds proved here, and nothing in them is known to be out of
the prover's reach. Liveness under fairness (`EventuallyDeployed`, `EventuallyGone`,
`DownloadsComplete`, `CatchesUp`, `StreamsEnd`) stays with TLC: the prover does not
handle fairness.

## What is not modelled, and the plan

Out of scope: cryptography, rendering, merging and hashing of manifests, the
registry protocol, Trivy, OIDC, the UI. To the models these are success, a failure
or an opaque value. `components` gives the reason for each. Of what is modelled,
several clusters of one Serving, the search for a cycle of stages, and Registries,
Repositories and Recipes are left out.

Theorems to come: `VerifiedIsSigned` and `KeyPublished` of `Product`, and
`OwnRegistration` of `Clusters`, which rest on the lock of the writes as those of the
Order do.

## Running

    tlc -config serving_stale.cfg Serving
    tlc -config approvals.cfg MCApprovals
    tlc -config gate.cfg MCUpstreamGate
    tlapm SessionsProofs.tla

Other configurations run the module `PROJECT.json` names for them. The longest
takes about two minutes with two workers; the proofs of a module take a few
minutes. Definitions marked *not the code* are plausible mistakes; replacing the
definition that follows them, or that they are named after, makes the property fail
that `mutants` names.
