------------------------------- MODULE Order -------------------------------
(***************************************************************************)
(* One Order and its controller (internal/controller/order_controller.go): *)
(* the render of its intent into a Preparation, and the Serving it creates *)
(* or adopts.                                                              *)
(*                                                                         *)
(* The intent is what the Order's spec and its Product's source say; its   *)
(* hash is the intent itself.  A render takes two passes: the first        *)
(* records it in the status, and the second, which that write wakes,       *)
(* pushes the artifact, creates the Preparation, removes the commit        *)
(* message it carries and names it in the status.  Each of these is a step *)
(* of its own, since users edit the Order meanwhile, each may fail, and    *)
(* the process may end between any two of them.                            *)
(*                                                                         *)
(* A resource version is modelled by whether a copy of the Order is        *)
(* current: a write makes all other copies outdated.                       *)
(***************************************************************************)
EXTENDS Naturals, Sequences, FiniteSets, SequencesExt

CONSTANTS
  NumSpecs,   \* how many specs an Order may have
  NumSources, \* how many sources its Product may publish
  Refused,    \* the intents its Product does not allow
  Misfits,    \* the intents with a patch that does not apply
  None,       \* no object, no owner, no recorded render
  MaxEdits,   \* bounds the changes,
  Edits,      \* of these kinds, and
  MaxFailures \* the failures and crashes

Intents == (1 .. NumSpecs) \X (1 .. NumSources)

ASSUME NumSpecsAssumption == NumSpecs \in Nat \ {0}
ASSUME NumSourcesAssumption == NumSources \in Nat \ {0}
ASSUME IntentsAssumption ==
  Refused \subseteq Intents /\ Misfits \subseteq Intents

Modes == {"Manual", "Automatic"}

\* What the objects on the API server may be, other than None.
Statuses ==
  [latest : Nat, render : Intents \cup {None},
   ready : {"Unknown", "Processing", "Ready", "Waiting", "Failed",
            "PatchFailed"},
   observed : BOOLEAN]

Orders ==
  [uid : Nat, spec : 1 .. NumSpecs, mode : Modes, message : BOOLEAN,
   finalizer : BOOLEAN, deleting : BOOLEAN, status : Statuses]

Preparations ==
  [uid : Nat, intent : Intents, parent : Nat, message : BOOLEAN]

Products == [ready : BOOLEAN, source : 1 .. NumSources]
Servings == [owner : Nat \cup {None}]

ASSUME NoneAssumption ==
  None \notin Intents /\ None \notin Nat /\ None \notin Orders /\ None \notin Servings

VARIABLES
  order,       \* the Order on the API server, None when there is none
  uids,        \* how many Orders there were
  seen,        \* the copy of the Order in the informer cache,
  seenFresh,   \* whether it is of the current version, and
  news,        \* whether a change that it lacks wakes the Order
  product,     \* the Product: whether Orders may render from it, its source
  seenProduct, \* its copy in the cache
  connected,   \* whether the Registries connect to all locations
  valid,       \* whether the Orders form a pipeline (Pipelines)
  preps,       \* the Preparations, in the order of their creation
  seenPreps,   \* how many of them the cache holds
  serving,     \* the Serving: None, or the Order that controls it
  seenServing, \* its copy in the cache, and
  servingNews, \* whether there is an event the cache has not received
  request,     \* whether a first promotion found no Serving to update
  pass,        \* the pass of the Order controller
  queued,      \* whether the Order is queued
  timer,       \* whether it will be queued again
  edits,       \* how many changes there were, and
  failures     \* how many failures and crashes

orderVars   == <<order, uids, seen, seenFresh, news>>
productVars == <<product, seenProduct, connected, valid>>
prepVars    == <<preps, seenPreps>>
servingVars == <<serving, seenServing, servingNews, request>>
workVars    == <<queued, timer>>
editVars == <<edits, failures>>
vars == <<orderVars, productVars, prepVars, servingVars, pass, workVars,
          editVars>>

\* status.latestPreparationName, with its digest and config hash, and
\* status.render, the condition Ready, and whether observedGeneration is
\* that of the spec.
NewStatus ==
  [latest |-> 0, render |-> None, ready |-> "Unknown", observed |-> FALSE]

NewOrder(uid, spec, mode) ==
  [uid |-> uid, spec |-> spec, mode |-> mode, message |-> FALSE,
   finalizer |-> FALSE, deleting |-> FALSE, status |-> NewStatus]

Idle == [at |-> "Idle"]

Active == pass # Idle

Edit(kind) ==
  /\ kind \in Edits /\ edits < MaxEdits
  /\ edits' = edits + 1
  /\ UNCHANGED failures

Failure ==
  /\ failures < MaxFailures
  /\ failures' = failures + 1
  /\ UNCHANGED edits

-----------------------------------------------------------------------------
(* Writes of the Order, by anyone: the copies in the cache and in a pass   *)
(* that did not make the write are outdated.                               *)

\* Not the code: only spec and annotations wake the Order.
WatchedSpec(old, new) ==
  \/ old = None \/ new = None
  \/ old.uid # new.uid
  \/ old.spec # new.spec \/ old.mode # new.mode
  \/ old.deleting # new.deleting
  \/ old.message # new.message

\* The event filter of the Order: its spec and annotations, and a render
\* that is newly recorded.  Creation, deletion and its start pass too.
Watched(old, new) ==
  \/ old = None \/ new = None
  \/ old.uid # new.uid
  \/ old.spec # new.spec \/ old.mode # new.mode
  \/ old.deleting # new.deleting
  \/ old.message # new.message
  \/ new.status.render \notin {None, old.status.render}

Write(new) ==
  /\ order' = new
  /\ seenFresh' = FALSE
  /\ news' = (news \/ Watched(order, new))
  /\ UNCHANGED <<uids, seen>>

\* A write of someone else while a pass may run.
ForeignWrite(new) ==
  /\ Write(new)
  /\ pass' = IF Active THEN [pass EXCEPT !.fresh = FALSE] ELSE pass

\* A write of the pass, which carries the new version back.
OwnWrite(new) == Write(new)

-----------------------------------------------------------------------------
(* The pass.                                                               *)

\* Reconcile reads the Order.
StartPass ==
  /\ ~Active /\ queued
  /\ queued' = FALSE
  /\ pass' = IF seen = None THEN Idle
             ELSE [at |-> IF seen.deleting THEN "Finalize"
                          ELSE IF seen.finalizer THEN "Decide"
                          ELSE "AddFinalizer",
                   order |-> seen, before |-> seen.status,
                   fresh |-> seenFresh, hash |-> None, rendered |-> None,
                   prep |-> 0, result |-> "Done"]
  /\ UNCHANGED <<orderVars, productVars, prepVars, servingVars, timer,
                 editVars>>

Goto(at) == pass' = [pass EXCEPT !.at = at]

\* The pass ends with an error, which retries it.
FailAt(at) == pass' = [pass EXCEPT !.at = at, !.result = "Retry"]

\* The Order has the finalizer before anything is made for it.
AddFinalizer ==
  /\ Active /\ pass.at = "AddFinalizer"
  /\ \/ /\ pass.fresh
        /\ OwnWrite([order EXCEPT !.finalizer = TRUE])
        /\ \/ /\ pass' = [pass EXCEPT !.at = "Decide",
                                      !.order.finalizer = TRUE]
              /\ UNCHANGED editVars
           \/ /\ pass' = [pass EXCEPT !.at = "PatchStatus", !.fresh = FALSE,
                                      !.result = "Retry"]
              /\ Failure
     \/ /\ ~pass.fresh
        /\ FailAt("PatchStatus")
        /\ UNCHANGED <<orderVars, editVars>>
     \/ /\ FailAt("PatchStatus")
        /\ Failure
        /\ UNCHANGED orderVars
  /\ UNCHANGED <<productVars, prepVars, servingVars, workVars>>

\* reconcileDelete
Finalize ==
  /\ Active /\ pass.at = "Finalize"
  /\ \/ /\ ~pass.order.finalizer
        /\ Goto("PatchStatus")
        /\ UNCHANGED <<orderVars, editVars>>
     \/ /\ pass.order.finalizer /\ pass.fresh
        /\ OwnWrite(None)
        /\ Goto("PatchStatus")
        /\ UNCHANGED editVars
     \/ /\ pass.order.finalizer /\ ~pass.fresh
        /\ FailAt("PatchStatus")
        /\ UNCHANGED <<orderVars, editVars>>
     \/ /\ FailAt("PatchStatus")
        /\ Failure
        /\ UNCHANGED orderVars
  /\ UNCHANGED <<productVars, prepVars, servingVars, workVars>>

\* The hash of what NewIntent takes from the Order and its Product.
Hash == <<pass.order.spec, seenProduct.source>>

Status == pass.order.status

\* How a pass reports itself and goes on.
Report(at, ready, result) ==
  pass' = [pass EXCEPT !.at = at, !.order.status.ready = ready,
                       !.result = result]

\* readyProduct, connect
ReadyProduct == seenProduct.ready
Connects == connected

\* renderFailed: what its input fixes does not help to retry.
RenderFailed ==
  IF pass.hash \in Misfits THEN Report("KeepServing", "PatchFailed", "Terminal")
  ELSE Report("KeepServing", "Failed", "Retry")

\* reconcileUpToDate: the latest Preparation renders the intent already.
StaysUpToDate ==
  pass' = [pass EXCEPT !.at = "KeepServing", !.order.status.render = None,
                       !.order.status.ready = "Ready"]

\* reconcileOrder up to the render: the pipeline, the Product, the
\* overrides, the Registries, the intent, and whether its render is recorded.
Decide ==
  /\ Active /\ pass.at = "Decide"
  /\ \/ /\ IF ~valid \/ ~ReadyProduct
             THEN Report("KeepServing", "Waiting", "Done")
           ELSE IF Hash \in Refused
             THEN Report("KeepServing", "Failed", "Terminal")
           ELSE IF ~Connects THEN Report("KeepServing", "Waiting", "Done")
           ELSE IF Status.latest # 0 /\ preps[Status.latest].intent = Hash
             THEN StaysUpToDate
           ELSE IF Status.render # Hash
             THEN pass' = [pass EXCEPT !.at = "KeepServing",
                                       !.order.status.render = Hash,
                                       !.order.status.ready = "Processing"]
           ELSE pass' = [pass EXCEPT !.at = "Render", !.hash = Hash]
        /\ UNCHANGED editVars
     \/ FailAt("KeepServing") /\ Failure
  /\ UNCHANGED <<orderVars, productVars, prepVars, servingVars, workVars>>

\* Not the code: a render does not ask the API server.
IsLatestCached == TRUE

\* isLatest
IsLatest == pass.fresh

\* What Pipeline.Render pushes, and the Preparation records: the artifact of
\* an intent, that names the one before it and carries the commit message.
Rendered ==
  [uid |-> pass.order.uid, intent |-> pass.hash, parent |-> Status.latest,
   message |-> pass.order.message]

\* render: the check against the API server, and the artifact that is
\* pushed.  What it is made of is fixed now: intent, parent, message.
Render ==
  /\ Active /\ pass.at = "Render"
  /\ \/ /\ ~IsLatest
        /\ pass' = [pass EXCEPT !.at = "KeepServing", !.result = "Soon"]
        /\ UNCHANGED editVars
     \/ /\ IsLatest /\ pass.hash \in Misfits
        /\ RenderFailed
        /\ UNCHANGED editVars
     \/ /\ IsLatest /\ ~Connects
        /\ Report("KeepServing", "Waiting", "Done")
        /\ UNCHANGED editVars
     \/ /\ IsLatest /\ Connects /\ pass.hash \notin Misfits
        /\ pass' = [pass EXCEPT
             !.at = "CreatePreparation", !.rendered = Rendered]
        /\ UNCHANGED editVars
     \/ /\ Report("KeepServing", "Failed", "Retry")
        /\ Failure
  /\ UNCHANGED <<orderVars, productVars, prepVars, servingVars, workVars>>

\* createPreparation.  Two renders within a second may give the same
\* artifact, and then the same Preparation, if the cache holds it.
CreatePreparation ==
  /\ Active /\ pass.at = "CreatePreparation"
  /\ \/ /\ preps' = Append(preps, pass.rendered)
        /\ pass' = [pass EXCEPT !.at = "ConsumeMessage",
                                !.prep = Len(preps) + 1]
        /\ UNCHANGED <<seenPreps, editVars>>
     \/ /\ preps # <<>> /\ Last(preps) = pass.rendered
        /\ IF seenPreps = Len(preps)
           THEN pass' = [pass EXCEPT !.at = "ConsumeMessage",
                                     !.prep = Len(preps)]
           ELSE RenderFailed
        /\ UNCHANGED <<prepVars, editVars>>
     \/ /\ preps' \in {preps, Append(preps, pass.rendered)}
        /\ Report("KeepServing", "Failed", "Retry")
        /\ Failure
        /\ UNCHANGED seenPreps
  /\ UNCHANGED <<orderVars, productVars, servingVars, workVars>>

\* The status of an Order whose intent prep renders.
UpToDate(status, prep) ==
  [status EXCEPT !.latest = prep, !.render = None, !.ready = "Ready"]

\* consumeCommitMessage, and what render writes into the status then.  A
\* failure leaves the message to the next render.
ConsumeMessage ==
  /\ Active /\ pass.at = "ConsumeMessage"
  /\ \/ /\ pass.order.message /\ pass.fresh
        /\ OwnWrite([order EXCEPT !.message = FALSE])
        /\ \/ /\ pass' = [pass EXCEPT
                   !.at = "KeepServing", !.order.message = FALSE,
                   !.order.status = UpToDate(Status, pass.prep)]
              /\ UNCHANGED editVars
           \/ /\ pass' = [pass EXCEPT
                   !.at = "KeepServing", !.fresh = FALSE,
                   !.order.status = UpToDate(Status, pass.prep)]
              /\ Failure
     \/ /\ \/ (~pass.order.message \/ ~pass.fresh) /\ UNCHANGED editVars
           \/ pass.order.message /\ Failure
        /\ pass' = [pass EXCEPT
             !.at = "KeepServing",
             !.order.status = UpToDate(Status, pass.prep)]
        /\ UNCHANGED orderVars
  /\ UNCHANGED <<productVars, prepVars, servingVars, workVars>>

\* createServing
Created == IF serving = None THEN [owner |-> pass.order.uid] ELSE serving

\* Not the code: the Order leaves the Serving of the first promotion alone.
NotAdopted(s) == s

\* adoptServing: one that nobody controls, as the API server has it.
Adopted(s) ==
  IF s # None /\ s.owner = None THEN [s EXCEPT !.owner = pass.order.uid]
  ELSE s

\* ensureServing: create the Serving of an Automatic Order with a
\* Preparation, or adopt it.
KeepServing ==
  /\ Active /\ pass.at = "KeepServing"
  /\ \/ /\ serving' =
             IF seenServing = None
             THEN IF pass.order.mode = "Automatic" /\ Status.latest # 0
                  THEN Created ELSE serving
             ELSE IF seenServing.owner = pass.order.uid THEN serving
             ELSE Adopted(serving)
        /\ servingNews' = (servingNews \/ serving' # serving)
        /\ Goto("PatchStatus")
        /\ UNCHANGED editVars
     \/ /\ pass' = [pass EXCEPT
             !.at = "PatchStatus",
             !.result = IF @ = "Terminal" THEN @ ELSE "Retry"]
        /\ Failure
        /\ UNCHANGED <<serving, servingNews>>
  /\ UNCHANGED <<orderVars, productVars, prepVars, seenServing, request,
                 workVars>>

\* Not the code: the status is written whatever the version is.
NotLocked == TRUE

\* The status is locked to the version the pass read or last wrote.
Locked == pass.fresh

\* patchStatus, and how controller-runtime requeues.
PatchStatus ==
  LET new == [Status EXCEPT !.observed = TRUE]
      retried == pass.result \in {"Soon", "Retry"}
  IN
  /\ Active /\ pass.at = "PatchStatus"
  /\ \/ /\ new = pass.before
        /\ timer' = (timer \/ retried)
        /\ UNCHANGED <<orderVars, editVars>>
     \/ /\ new # pass.before /\ order # None /\ Locked
        /\ OwnWrite([order EXCEPT !.status = new])
        /\ \/ timer' = (timer \/ retried) /\ UNCHANGED editVars
           \/ timer' = (timer \/ pass.result # "Terminal") /\ Failure
     \/ /\ new # pass.before /\ order # None /\ ~Locked
        /\ timer' = (timer \/ pass.result # "Terminal")
        /\ UNCHANGED <<orderVars, editVars>>
     \/ /\ new # pass.before /\ order = None
        /\ timer' = (timer \/ retried)
        /\ UNCHANGED <<orderVars, editVars>>
     \/ /\ new # pass.before
        /\ timer' = (timer \/ pass.result # "Terminal")
        /\ Failure
        /\ UNCHANGED orderVars
  /\ pass' = Idle
  /\ UNCHANGED <<productVars, prepVars, servingVars, queued>>

Requeue ==
  /\ timer
  /\ timer' = FALSE
  /\ queued' = TRUE
  /\ UNCHANGED <<orderVars, productVars, prepVars, servingVars, pass,
                 editVars>>

\* The process ends; the next one lists and queues everything.
Crash ==
  /\ Failure
  /\ pass' = Idle /\ timer' = FALSE /\ queued' = TRUE
  /\ seen' = order /\ seenFresh' = TRUE /\ news' = FALSE
  /\ seenProduct' = product
  /\ seenPreps' = Len(preps)
  /\ seenServing' = serving /\ servingNews' = FALSE
  /\ UNCHANGED <<order, uids, product, connected, valid, preps, serving,
                 request>>

-----------------------------------------------------------------------------
(* The informers.                                                          *)

SyncOrder ==
  /\ ~seenFresh
  /\ seen' = order /\ seenFresh' = TRUE
  /\ queued' = (queued \/ news)
  /\ news' = FALSE
  /\ UNCHANGED <<order, uids, productVars, prepVars, servingVars, pass,
                 timer, editVars>>

\* productChanged, enqueueOrdersForProduct
SyncProduct ==
  /\ seenProduct # product
  /\ seenProduct' = product
  /\ queued' = TRUE
  /\ UNCHANGED <<orderVars, product, connected, valid, prepVars, servingVars,
                 pass, timer, editVars>>

SyncPreparations ==
  /\ seenPreps # Len(preps)
  /\ seenPreps' = Len(preps)
  /\ queued' = TRUE
  /\ UNCHANGED <<orderVars, productVars, preps, servingVars, pass, timer,
                 editVars>>

\* servingControllerChanged, enqueueOrderOfServing
SyncServing ==
  /\ servingNews
  /\ seenServing' = serving /\ servingNews' = FALSE
  /\ queued' = TRUE
  /\ UNCHANGED <<orderVars, productVars, prepVars, serving, request, pass,
                 timer, editVars>>

-----------------------------------------------------------------------------
(* Users, the Product controller, the server and the garbage collector.    *)

\* handleUpdateOrder, handleUpdateOrderEdits: an update may bring a commit
\* message along.  One that changes the mode leaves the rest.
ChangeSpec ==
  /\ order # None /\ ~order.deleting
  /\ Edit("Spec")
  /\ \E s \in 1 .. NumSpecs, m \in Modes, w \in {order.message, TRUE} :
       LET new == [order EXCEPT !.spec = s, !.mode = m, !.message = w] IN
       /\ new # order
       /\ m = order.mode \/ (s = order.spec /\ w = order.message)
       /\ ForeignWrite([new EXCEPT !.status.observed =
                                     @ /\ s = order.spec /\ m = order.mode])
  /\ UNCHANGED <<productVars, prepVars, servingVars, workVars>>

\* handleDeleteOrder
DeleteOrder ==
  /\ order # None /\ ~order.deleting
  /\ Edit("Delete")
  /\ ForeignWrite(IF order.finalizer
                  THEN [order EXCEPT !.deleting = TRUE,
                                     !.status.observed = FALSE]
                  ELSE None)
  /\ UNCHANGED <<productVars, prepVars, servingVars, workVars>>

\* handleCreateOrder
CreateOrder ==
  /\ order = None
  /\ Edit("Create")
  /\ \E s \in 1 .. NumSpecs, m \in Modes :
       /\ order' = NewOrder(uids + 1, s, m)
       /\ uids' = uids + 1
  /\ seenFresh' = FALSE /\ news' = TRUE
  /\ pass' = IF Active THEN [pass EXCEPT !.fresh = FALSE] ELSE pass
  /\ UNCHANGED <<seen, productVars, prepVars, servingVars, workVars>>

\* The Product publishes a source, or stops being ready.
ChangeProduct ==
  /\ Edit("Product")
  /\ \E s \in 1 .. NumSources, r \in BOOLEAN :
       /\ product' = [ready |-> r, source |-> s]
       /\ product' # product
  /\ UNCHANGED <<orderVars, seenProduct, connected, valid, prepVars,
                 servingVars, pass, workVars>>

\* Another Order or a Registry changes: enqueueDownstreamOrders,
\* enqueueOrdersForRegistry.
ChangeAround ==
  /\ \/ Edit("Registry") /\ connected' = ~connected /\ UNCHANGED valid
     \/ Edit("Pipeline") /\ valid' = ~valid /\ UNCHANGED connected
  /\ queued' = TRUE
  /\ UNCHANGED <<orderVars, product, seenProduct, prepVars, servingVars,
                 pass, timer>>

\* handlePromote finds the Order and no Serving, and creates one that
\* nobody controls.
BeginPromote ==
  /\ order # None /\ order.mode = "Manual" /\ preps # <<>>
  /\ serving = None /\ ~request
  /\ Edit("Promote")
  /\ request' = TRUE
  /\ UNCHANGED <<orderVars, productVars, prepVars, serving, seenServing,
                 servingNews, pass, workVars>>

EndPromote ==
  /\ request
  /\ request' = FALSE
  /\ serving' = IF serving = None THEN [owner |-> None] ELSE serving
  /\ servingNews' = (servingNews \/ serving = None)
  /\ UNCHANGED <<orderVars, productVars, prepVars, seenServing, pass,
                 workVars, editVars>>

\* The garbage collector deletes or orphans what an Order that is gone
\* controls.
Abandoned ==
  /\ serving # None /\ serving.owner # None
  /\ ~(order # None /\ order.uid = serving.owner)

CollectServing ==
  /\ Abandoned
  /\ serving' \in {None, [owner |-> None]}
  /\ servingNews' = TRUE
  /\ UNCHANGED <<orderVars, productVars, prepVars, seenServing, request,
                 pass, workVars, editVars>>

-----------------------------------------------------------------------------
Init ==
  /\ \E m \in Modes : order = NewOrder(1, 1, m)
  /\ uids = 1
  /\ seen = order /\ seenFresh = TRUE /\ news = FALSE
  /\ product = [ready |-> TRUE, source |-> 1] /\ seenProduct = product
  /\ connected = TRUE /\ valid = TRUE
  /\ preps = <<>> /\ seenPreps = 0
  /\ serving = None /\ seenServing = None /\ servingNews = FALSE
  /\ request = FALSE
  /\ pass = Idle /\ queued = TRUE /\ timer = FALSE
  /\ edits = 0 /\ failures = 0

Pass ==
  \/ StartPass \/ AddFinalizer \/ Finalize \/ Decide \/ Render
  \/ CreatePreparation \/ ConsumeMessage \/ KeepServing \/ PatchStatus

Informers == SyncOrder \/ SyncProduct \/ SyncPreparations \/ SyncServing

Environment ==
  \/ ChangeSpec \/ DeleteOrder \/ CreateOrder
  \/ ChangeProduct \/ ChangeAround
  \/ BeginPromote \/ EndPromote \/ CollectServing

Next == Pass \/ Requeue \/ Crash \/ Informers \/ Environment

Spec == Init /\ [][Next]_vars

-----------------------------------------------------------------------------
(* The properties.                                                         *)

Passes ==
  [at : {"AddFinalizer", "Finalize", "Decide", "Render",
         "CreatePreparation", "ConsumeMessage", "KeepServing",
         "PatchStatus"},
   order : Orders, before : Statuses, fresh : BOOLEAN,
   hash : Intents \cup {None}, rendered : Preparations \cup {None},
   prep : Nat, result : {"Done", "Soon", "Retry", "Terminal"}]

\* There were the Orders and the Preparations that a copy names.
Exists(o) == o.uid <= uids /\ o.status.latest <= Len(preps)

\* The type invariant: what the Order, the copies and a pass may hold.
TypeOK ==
  /\ uids \in Nat
  /\ order \in Orders \cup {None} /\ seen \in Orders \cup {None}
  /\ \A o \in {order, seen} \ {None} : Exists(o)
  /\ seenFresh \in BOOLEAN /\ news \in BOOLEAN
  /\ product \in Products /\ seenProduct \in Products
  /\ connected \in BOOLEAN /\ valid \in BOOLEAN
  /\ preps \in Seq(Preparations) /\ seenPreps \in 0 .. Len(preps)
  /\ serving \in Servings \cup {None} /\ seenServing \in Servings \cup {None}
  /\ servingNews \in BOOLEAN /\ request \in BOOLEAN
  /\ pass \in Passes \cup {Idle}
  /\ Active => Exists(pass.order) /\ pass.before.latest <= Len(preps)
  /\ queued \in BOOLEAN /\ timer \in BOOLEAN
  /\ edits \in Nat /\ failures \in Nat

\* The Preparations that render an intent again on the parent of an earlier
\* one of the same Order.
Repeated ==
  {i \in DOMAIN preps : \E j \in 1 .. i - 1 :
     /\ preps[j].uid = preps[i].uid
     /\ preps[j].intent = preps[i].intent
     /\ preps[j].parent = preps[i].parent}

\* A render is repeated only for a change, a failure or a crash between its
\* Preparation and the status that names it: no pass renders from an Order
\* older than the status of the previous render (isLatest in render).
RendersOnce == Cardinality(Repeated) <= edits + failures

\* The latest Preparation of an Order is always followed by one that was
\* rendered from it, whose images it locked and whose digest it names as its
\* parent: a pass from an old copy never replaces a newer Preparation
\* (isLatest, the lock of patchStatus).
ParentIsLatest ==
  [][(/\ order # None /\ order' # None /\ order'.uid = order.uid
      /\ order'.status.latest # order.status.latest)
     => /\ order'.status.latest # 0
        /\ preps'[order'.status.latest].parent = order.status.latest]_vars

\* All is quiet: nothing is queued, every informer has delivered, and no
\* one is about to write.
Quiet ==
  /\ ~Active /\ ~queued /\ ~timer /\ seenFresh
  /\ seenProduct = product /\ seenPreps = Len(preps)
  /\ ~servingNews /\ ~request /\ ~Abandoned

Wanted == <<order.spec, product.source>>

Renderable ==
  /\ order # None /\ valid /\ product.ready /\ connected
  /\ Wanted \notin Refused \cup Misfits

\* Once all is quiet, the latest Preparation of the Order renders its intent
\* and no render is left recorded, whatever was edited, failed or conflicted
\* while it rendered: no wake-up is lost (renderStarted, productChanged,
\* patchStatus).
\* An Order that is deleted is gone.
IntentRendered ==
  Quiet =>
    /\ order # None => ~order.deleting
    /\ Renderable =>
         /\ order.status.latest # 0
         /\ preps[order.status.latest].intent = Wanted
         /\ order.status.render = None

\* Once all is quiet, the Serving of an Order is controlled by it, so that it
\* goes with it, and an Automatic Order that renders has one: the one a first
\* promotion created while the Order failed, was deleted and made again, or
\* created its own (ensureServing).  Except under an intent that does not
\* render: its terminal error also ends the retries of a failed write of the
\* Serving.
ServingKept ==
  Quiet /\ order # None /\ Wanted \notin Refused \cup Misfits =>
    /\ serving # None => serving.owner = order.uid
    /\ Renderable /\ order.mode = "Automatic" => serving # None

\* Under Automatic promotion the Serving is created "once the Order has a
\* Preparation" (ensureServing): also when its Registry is not connected.  A pass
\* that reads a copy from before the Preparation, and waits, ends the retry of a
\* failed creation.
AutomaticServed ==
  /\ Quiet /\ order # None /\ Wanted \notin Refused \cup Misfits
  /\ order.mode = "Automatic" /\ order.status.latest # 0
  => serving # None

\* "The newest Preparation of an Order is Order.status.latestArtifactDigest"
\* (docs/content/docs/user-guide/artifacts.md:269), which Automatic
\* promotion relies on: it takes the newest Ready one (promotion.NewestReady).
NewestIsLatest ==
  Quiet /\ Renderable =>
    \A i \in DOMAIN preps :
      preps[i].uid = order.uid => i <= order.status.latest
=============================================================================
