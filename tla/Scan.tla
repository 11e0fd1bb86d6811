--------------------------------- MODULE Scan ---------------------------------
(* The scans of one Product's vendored images: the scan controller, its          *)
(* schedule, and the pipeline that attaches SBOMs and reports to the images      *)
(* (src/internal/controller/scan_controller.go, src/internal/scan,               *)
(* src/internal/sbom, src/internal/vulnerability).                               *)
(*                                                                              *)
(* A pass reads caches that lag behind the API server, and each kind of object   *)
(* lags on its own. What a scan attaches to an image stays there; the record of  *)
(* the scan reaches the Product's status with one patch at the end of the pass,  *)
(* and the Product controller writes to the same object. Times are ticks of one  *)
(* clock.                                                                        *)
EXTENDS Integers, FiniteSets, FiniteSetsExt, Functions

CONSTANTS
  Preps,             \* the Preparations of the Product's Order; numbers, the newer the greater
  Digests,           \* the digests of the vendored images
  ImagesOf,          \* per Preparation: the digests it runs
  TargetOf,          \* per digest: the registry connection it is reached through
  Shipped,           \* the digests whose publisher supplied an SBOM that may be reused
  None,              \* no value
  RecentReleases,    \* how many of the newest Ready Preparations stay scanned
  MaxDatabaseAge,    \* the Kitchen's maxDatabaseAgeSeconds
  MaxImageScans,     \* how many images the status lists
  Intervals,         \* the intervals the Kitchen may be given; None turns scanning off
  Edits,             \* the changes and faults that may happen
  MaxEdits,          \* bound of their number
  MaxPass,           \* how long a pass may take
  MaxTime            \* bound of the clock

ASSUME ScanAssumption ==
  /\ Preps \subseteq Nat /\ ImagesOf \in [Preps -> SUBSET Digests]
  /\ Shipped \subseteq Digests
  /\ IsFiniteSet(Digests)
  /\ RecentReleases \in Nat /\ MaxPass \in Nat /\ MaxImageScans \in Nat /\ MaxDatabaseAge \in Nat
  /\ Intervals \ {None} \subseteq Nat \ {0}

VARIABLES
  now,         \* the clock
  preps,       \* per Preparation: "absent", "waiting" or "ready"
  serving,     \* the Preparations the Serving names: promoted, target, deployed
  kitchen,     \* the interval of the Kitchen's scanning, None without scanning
  product,     \* the Product: its version, whether it vendors, and its scan status
  cache,       \* the manager's copies of the four
  built,       \* when the database the mirror holds was built
  own,         \* per digest: how many SBOMs Kokumi attached
  reports,     \* the reports attached, as <<digest, time>>
  queued,      \* whether the Product is in the controller's queue
  timer,       \* when the queue gets it again, or None
  pass,        \* the pass that runs, or None
  unsaid,      \* whether the last pass judged an older Product and wrote nothing
  edits        \* how many changes and faults happened

vars == <<now, preps, serving, kitchen, product, cache, built, own, reports, queued,
          timer, pass, unsaid, edits>>

world    == <<preps, serving, kitchen, built>>
registry == <<own, reports>>

Times == 0 .. MaxTime
NoRecords == [d \in {} |-> 0]
Unscanned == [listed |-> FALSE, records |-> NoRecords, database |-> None, scanned |-> None]

-------------------------------------------------------------------------------
(* What is in use, due and current (scan/schedule.go)                            *)

\* The RecentReleases newest of the Ready ones, and the ones named.
Recent(ready) == {p \in ready : Cardinality({q \in ready : q > p}) < RecentReleases}

Kept(ps, s) == Recent({p \in Preps : ps[p] = "ready"})
                 \cup {p \in Preps : ps[p] # "absent" /\ p \in {s.promoted, s.target, s.deployed}}

InUse(ps, s) == UNION {ImagesOf[p] : p \in Kept(ps, s)}

Due(inUse, records, interval, at) ==
  {d \in inUse : d \in DOMAIN records => records[d] + interval <= at}

\* How long until the first record is due: a tick at least.
NextScan(records, interval, at) ==
  Max({1, Min({interval} \cup {records[d] + interval - at : d \in DOMAIN records})})

\* The records a status lists: all, or as many of the most recent ones.
Latest(records) ==
  {Restrict(records, D) : D \in {E \in SUBSET DOMAIN records :
      /\ Cardinality(E) = Min({Cardinality(DOMAIN records), MaxImageScans})
      /\ \A d \in E, e \in (DOMAIN records) \ E : records[d] >= records[e]}}

Health(failures, status, interval, at) ==
  IF failures # {} THEN "ScanFailed"
  ELSE IF status.database # None /\ status.records # NoRecords /\ at - status.database > MaxDatabaseAge
  THEN "DatabaseStale"
  ELSE IF \E d \in DOMAIN status.records : at - status.records[d] > 2 * interval THEN "Stale"
  ELSE "Scanned"

\* A scan is too old for a check at t that allows scans of maxAge.
Stale(records, d, maxAge, t) == records[d] + maxAge - t <= 0

\* Not the code: judged again when the last scan is too old, not the first.
RecheckLast(records, ds, maxAge, t) == Max({records[d] + maxAge - t : d \in ds})

\* How long until the first of the scans is too old.
Recheck(records, ds, maxAge, t) == Min({records[d] + maxAge - t : d \in ds})

\* The verdict of a check of the images ds that has nothing that blocks
\* (vulnerability/evaluate.go), and how long until it is judged again.
Verdict(records, ds, maxAge, t) ==
  IF ~ ds \subseteq DOMAIN records THEN [outcome |-> "ScanMissing", recheck |-> 0]
  ELSE IF \E d \in ds : Stale(records, d, maxAge, t) THEN [outcome |-> "ScanStale", recheck |-> 0]
  ELSE [outcome |-> "Passed", recheck |-> IF ds = {} THEN 0 ELSE Recheck(records, ds, maxAge, t)]

-------------------------------------------------------------------------------
Caught == [preps |-> preps, serving |-> serving, kitchen |-> kitchen, product |-> product]

Init ==
  /\ now = 0 /\ preps = [p \in Preps |-> "absent"]
  /\ serving = [promoted |-> None, target |-> None, deployed |-> None]
  /\ kitchen \in Intervals
  /\ product = [rv |-> 1, vendors |-> TRUE, status |-> Unscanned]
  /\ cache = Caught
  /\ built = 0 /\ own = [d \in Digests |-> 0] /\ reports = {}
  /\ queued = TRUE /\ timer = None /\ pass = None /\ unsaid = FALSE /\ edits = 0

-------------------------------------------------------------------------------
(* A pass: Reconcile                                                             *)

Edit(kind) == kind \in Edits /\ edits < MaxEdits /\ edits' = edits + 1

\* A step of a pass either succeeds or is one of the counted faults.
FailureIf(failed) == IF failed THEN Edit("Failure") ELSE UNCHANGED edits

Status == pass.product.status

\* The queue keeps the earlier of two timers of an object.
Sooner(t) == IF timer = None THEN t ELSE Min({timer, t})

NoPass == [pc |-> "Look", product |-> Unscanned, interval |-> None, at |-> 0,
           records |-> NoRecords, due |-> {}, todo |-> {}, got |-> {}, found |-> {},
           failures |-> {}, database |-> None, status |-> Unscanned, again |-> None]

Take ==
  /\ queued /\ pass = None
  /\ pass' = [NoPass EXCEPT !.product = cache.product, !.interval = cache.kitchen, !.at = now]
  /\ queued' = FALSE
  /\ UNCHANGED <<now, world, product, cache, registry, timer, unsaid, edits>>

\* setScanRecords, and markScanned or markScanBlocked: what the pass leaves
\* to write, and when it wants to run again (0 is at once, or soon).
Conclude(p, reason, again) ==
  \E records \in Latest(p.records) :
    LET listed == Status.listed \/ p.records # NoRecords
        status == [listed |-> listed, records |-> IF listed THEN records ELSE NoRecords,
                   database |-> p.status.database, scanned |-> None]
        judged == IF reason = None THEN Health(p.failures, status, p.interval, p.at) ELSE reason
    IN pass' = [NoPass EXCEPT !.pc = "Patch", !.product = p.product, !.at = p.at, !.again = again,
                  !.status = [status EXCEPT !.scanned = judged]]

NextPass(p) == IF p.failures # {} THEN 0 ELSE NextScan(p.records, p.interval, p.at)

\* imagesInUse, scanRecordsOf and Due. Without scanning, or for a Product
\* that does not vendor, the scan status goes.
LookAtUse ==
  /\ pass # None /\ pass.pc = "Look"
  /\ LET off     == pass.interval = None \/ ~ pass.product.vendors
         inUse   == InUse(cache.preps, cache.serving)
         records == Restrict(Status.records, DOMAIN Status.records \cap inUse)
         looked  == [pass EXCEPT !.at = now, !.records = records,
                                 !.due = Due(inUse, records, pass.interval, now), !.status = Status]
     IN \/ off /\ pass' = [NoPass EXCEPT !.pc = "Patch", !.product = pass.product, !.at = now]
        \/ ~ off /\ looked.due # {} /\ pass' = [looked EXCEPT !.pc = "Confirm"]
        \/ ~ off /\ looked.due = {} /\ Conclude(looked, None, NextPass(looked))
  /\ UNCHANGED <<now, world, product, cache, registry, queued, timer, unsaid, edits>>

\* The pass read the Product as it is.
Confirmed == pass.product.rv = product.rv

\* Not the code: the API server is not asked.
ConfirmedAlways == TRUE

\* isLatest: a scan waits until the cache holds the latest Product.
IsLatest == Confirmed

Confirm ==
  /\ pass # None /\ pass.pc = "Confirm"
  /\ \/ IsLatest /\ pass' = [pass EXCEPT !.pc = "Prepare"] /\ UNCHANGED queued
     \/ ~ IsLatest /\ pass' = None /\ queued' = TRUE
  /\ UNCHANGED <<now, world, product, cache, registry, timer, unsaid, edits>>

\* The signing key, the databases and the Product's Registries: one of them
\* may block the scan; an image may have no Registry.
Prepare ==
  /\ pass # None /\ pass.pc = "Prepare"
  /\ \/ Edit("Failure") /\ \E reason \in {"SigningKeyNotReady", "ScanFailed"} : Conclude(pass, reason, 0)
     \/ \E refused \in SUBSET pass.due :
          /\ FailureIf(refused # {})
          /\ pass' = [pass EXCEPT !.pc = "Call", !.due = {}, !.todo = pass.due \ refused,
                                  !.failures = refused, !.database = built]
  /\ UNCHANGED <<now, world, product, cache, registry, queued, timer, unsaid>>

\* Not the code: an SBOM of Kokumi's own does not count.
FindSupplied(ds) == ds \cap Shipped

\* sbom.Find: Kokumi's own SBOM, or one the publisher supplied.
Find(ds) == {d \in ds : own[d] > 0 \/ d \in Shipped}

\* Pipeline.Run, up to the answer of the scanner, for the images of one
\* target. The scanner is busy or away, or it answers for each image. What
\* the targets before gave is kept.
Call ==
  /\ pass # None /\ pass.pc = "Call" /\ pass.todo # {} /\ pass.got = {}
  /\ \E t \in {TargetOf[d] : d \in pass.todo} :
       LET images == {d \in pass.todo : TargetOf[d] = t}
       IN \/ Edit("Failure") /\ \E reason \in {"ScannerUnavailable", "ScanFailed"} : Conclude(pass, reason, 0)
          \/ \E failed \in SUBSET images :
               /\ FailureIf(failed # {})
               /\ pass' = [pass EXCEPT !.todo = @ \ images, !.got = images \ failed,
                             !.found = Find(images \ failed), !.failures = @ \cup failed]
  /\ UNCHANGED <<now, world, product, cache, registry, queued, timer, unsaid>>

\* attach, the SBOM: pushed unless one was found.
AttachSBOM ==
  /\ pass # None /\ pass.pc = "Call"
  /\ \E d \in pass.got \ pass.found :
       \E failed \in BOOLEAN :
         /\ FailureIf(failed)
         /\ own' = IF failed THEN own ELSE [own EXCEPT ![d] = @ + 1]
         /\ pass' = IF failed THEN [pass EXCEPT !.got = @ \ {d}, !.failures = @ \cup {d}]
                     ELSE [pass EXCEPT !.found = @ \cup {d}]
  /\ UNCHANGED <<now, world, product, cache, reports, queued, timer, unsaid>>

\* The record of a scan replaces the one there was.
Recorded(records, d, at) ==
  [e \in {d} \cup DOMAIN records |-> IF e = d THEN at ELSE records[e]]

\* attach, the report, and the record of the scan.
AttachReport ==
  /\ pass # None /\ pass.pc = "Call"
  /\ \E d \in pass.got \cap pass.found :
       \E failed \in BOOLEAN :
         /\ FailureIf(failed)
         /\ reports' = IF failed THEN reports ELSE reports \cup {<<d, pass.at>>}
         /\ pass' = IF failed THEN [pass EXCEPT !.got = @ \ {d}, !.failures = @ \cup {d}]
                     ELSE [pass EXCEPT !.got = @ \ {d}, !.records = Recorded(@, d, pass.at),
                             !.status.database = pass.database]
  /\ UNCHANGED <<now, world, product, cache, own, queued, timer, unsaid>>

ScanDone ==
  /\ pass # None /\ pass.pc = "Call" /\ pass.todo = {} /\ pass.got = {}
  /\ Conclude(pass, None, NextPass(pass))
  /\ UNCHANGED <<now, world, product, cache, registry, queued, timer, unsaid, edits>>

\* How the pass is queued again when it ends.
Requeue(again) ==
  /\ queued' = (queued \/ again = 0)
  /\ timer' = IF again = None \/ again = 0 THEN timer ELSE Sooner(now + again)

\* patchStatus: a status that did not change is not written. The patch holds
\* only for the version the pass read.
Patch ==
  /\ pass # None /\ pass.pc = "Patch" /\ pass' = None
  /\ \/ /\ pass.status = Status
        /\ Requeue(pass.again) /\ unsaid' = ~ Confirmed /\ UNCHANGED product
     \/ /\ pass.status # Status /\ Confirmed
        /\ product' = [product EXCEPT !.rv = @ + 1, !.status = pass.status]
        /\ Requeue(pass.again) /\ unsaid' = FALSE
     \/ /\ pass.status # Status /\ ~ Confirmed
        /\ Requeue(0) /\ UNCHANGED <<product, unsaid>>
  /\ UNCHANGED <<now, world, cache, registry, edits>>

\* The patch fails, or its answer is lost.
PatchFails ==
  /\ Edit("Failure")
  /\ pass # None /\ pass.pc = "Patch" /\ pass.status # Status
  /\ pass' = None /\ queued' = TRUE
  /\ \/ UNCHANGED product
     \/ Confirmed /\ product' = [product EXCEPT !.rv = @ + 1, !.status = pass.status]
  /\ UNCHANGED <<now, world, cache, registry, timer, unsaid>>

-------------------------------------------------------------------------------
(* The watches                                                                   *)

DeliverProduct ==
  /\ cache.product # product
  /\ cache' = [cache EXCEPT !.product = product]
  /\ queued' = (queued \/ cache.product.vendors # product.vendors)
  /\ UNCHANGED <<now, world, product, registry, timer, pass, unsaid, edits>>

DeliverPreps ==
  /\ cache.preps # preps
  /\ cache' = [cache EXCEPT !.preps = preps] /\ queued' = TRUE
  /\ UNCHANGED <<now, world, product, registry, timer, pass, unsaid, edits>>

\* Not the code: a promotion that is pending or over wakes no scan.
ServingWakesOnTarget(old, new) == old.target # new.target \/ old.deployed # new.deployed

\* servingPreparationsChanged
ServingWakes(old, new) == old # new

DeliverServing ==
  /\ cache.serving # serving
  /\ cache' = [cache EXCEPT !.serving = serving]
  /\ queued' = (queued \/ ServingWakes(cache.serving, serving))
  /\ UNCHANGED <<now, world, product, registry, timer, pass, unsaid, edits>>

\* enqueueVendoringProducts
DeliverKitchen ==
  /\ cache.kitchen # kitchen
  /\ cache' = [cache EXCEPT !.kitchen = kitchen]
  /\ queued' = (queued \/ cache.product.vendors \/ cache.product.status.listed)
  /\ UNCHANGED <<now, world, product, registry, timer, pass, unsaid, edits>>

-------------------------------------------------------------------------------
(* What others do, and faults                                                    *)

\* A Preparation is rendered, becomes Ready, loses it or goes.
PrepChanges ==
  /\ Edit("Prep")
  /\ \E p \in Preps, s \in {"absent", "waiting", "ready"} :
       s # preps[p] /\ preps' = [preps EXCEPT ![p] = s]
  /\ UNCHANGED <<now, serving, kitchen, product, cache, built, registry, queued, timer, pass, unsaid>>

\* A Preparation is promoted, then targeted, then deployed.
Promote ==
  /\ Edit("Promote")
  /\ \E p \in {q \in Preps : preps[q] = "ready"} : serving' = [serving EXCEPT !.promoted = p]
  /\ UNCHANGED <<now, preps, kitchen, product, cache, built, registry, queued, timer, pass, unsaid>>

Deploy ==
  /\ \/ serving.target # serving.promoted /\ serving' = [serving EXCEPT !.target = serving.promoted]
     \/ serving.deployed # serving.target /\ serving' = [serving EXCEPT !.deployed = serving.target]
  /\ UNCHANGED <<now, preps, kitchen, product, cache, built, registry, queued, timer, pass, unsaid, edits>>

EditKitchen ==
  /\ Edit("Kitchen") /\ kitchen' \in Intervals
  /\ UNCHANGED <<now, preps, serving, product, cache, built, registry, queued, timer, pass, unsaid>>

\* The policy of the Product changes, or the Product controller writes.
EditProduct ==
  /\ Edit("Product")
  /\ \E vendors \in BOOLEAN : product' = [product EXCEPT !.rv = @ + 1, !.vendors = vendors]
  /\ UNCHANGED <<now, world, cache, registry, queued, timer, pass, unsaid>>

\* The mirror gets a new database.
PublishDatabase ==
  /\ Edit("Database") /\ built # now /\ built' = now
  /\ UNCHANGED <<now, preps, serving, kitchen, product, cache, registry, queued, timer, pass, unsaid>>

\* The manager restarts: its caches are new, and every Product is queued.
Restart ==
  /\ Edit("Restart")
  /\ cache' = Caught /\ pass' = None /\ queued' = TRUE /\ timer' = None /\ unsaid' = FALSE
  /\ UNCHANGED <<now, world, product, registry>>

TimerFires ==
  /\ timer # None /\ timer <= now
  /\ timer' = None /\ queued' = TRUE
  /\ UNCHANGED <<now, world, product, cache, registry, pass, unsaid, edits>>

\* A pass takes MaxPass at most.
Tick ==
  /\ pass # None => now < pass.at + MaxPass
  /\ now < MaxTime /\ now' = now + 1
  /\ UNCHANGED <<world, product, cache, registry, queued, timer, pass, unsaid, edits>>

Reconcile == Take \/ LookAtUse \/ Confirm \/ Prepare \/ Call \/ AttachSBOM \/ AttachReport
               \/ ScanDone \/ Patch \/ PatchFails
Watches   == DeliverProduct \/ DeliverPreps \/ DeliverServing \/ DeliverKitchen \/ TimerFires
Others    == PrepChanges \/ Promote \/ Deploy \/ EditKitchen \/ EditProduct \/ PublishDatabase \/ Restart

Next == Reconcile \/ Watches \/ Others \/ Tick
Spec == Init /\ [][Next]_vars

-------------------------------------------------------------------------------
(* Types                                                                         *)

Records == UNION {[D -> Nat] : D \in SUBSET Digests}

Reasons == {"ScanFailed", "DatabaseStale", "Stale", "Scanned", "SigningKeyNotReady",
            "ScannerUnavailable"}

ScanStatuses ==
  [listed : BOOLEAN, records : Records, database : Nat \cup {None},
   scanned : Reasons \cup {None}]

Products == [rv : Nat, vendors : BOOLEAN, status : ScanStatuses]

Passes ==
  [pc : {"Look", "Confirm", "Prepare", "Call", "Patch"}, product : Products,
   interval : Intervals \cup {None}, at : Nat, records : Records,
   due : SUBSET Digests, todo : SUBSET Digests, got : SUBSET Digests,
   found : SUBSET Digests, failures : SUBSET Digests, database : Nat \cup {None},
   status : ScanStatuses, again : Nat \cup {None}]

ASSUME NoneAssumption == None \notin Nat /\ None \notin Reasons /\ None \notin Passes

-------------------------------------------------------------------------------
(* Properties                                                                    *)

\* Each image digest is scanned once per interval (scan_controller.go,
\* isLatest): a report is attached to an image only while the Product, as the
\* API server holds it, has no scan of it that is younger than the interval,
\* however late the caches are.
NoRescan ==
  [][\A d \in Digests :
       (\E r \in reports' \ reports : r[1] = d) /\ d \in DOMAIN product.status.records
         => product.status.records[d] + pass.interval <= pass.at]_vars

\* An image keeps the SBOM Kokumi generated (sbom.go, Find): none is attached
\* again after a scan that failed or died between the SBOM and the report,
\* and none when the publisher supplied one.
OneSBOM == \A d \in Digests : own[d] <= 1 /\ (d \in Shipped => own[d] = 0)

\* Nothing is in the queue or under way, every watch has delivered, and no
\* timer is due.
Quiet == ~ queued /\ pass = None /\ cache = Caught /\ (timer = None \/ timer > now)

\* "Every image in use has a current scan": what Scanned says. The next pass
\* is an interval after the end of the last, the scan as old as its start.
Current ==
  /\ Cardinality(DOMAIN product.status.records) < MaxImageScans
       => InUse(preps, serving) \subseteq DOMAIN product.status.records
  /\ \A d \in InUse(preps, serving) \cap DOMAIN product.status.records :
       /\ product.status.records[d] + kitchen + MaxPass > now
       /\ \E r \in reports : r = <<d, product.status.records[d]>>

\* Once everything has come to rest, a Product whose Scanned condition is true
\* has a current, attached scan of every image in use, and one that is not
\* scanned has no scan status (reconcileScan, and the predicates of
\* SetupWithManager). Left out: the pass judged an older copy of the Product
\* and found nothing to write.
ScansSettle ==
  Quiet /\ ~ unsaid =>
    IF kitchen = None \/ ~ product.vendors THEN product.status = Unscanned
    ELSE /\ product.status.scanned # None /\ timer # None
         /\ product.status.scanned = "Scanned" => Current

\* The same of every pass: an older copy whose status equals what the pass
\* found is not written, and nothing tells the pass that it was an older copy.
ScannedIsCurrent ==
  Quiet /\ kitchen # None /\ product.vendors /\ product.status.scanned = "Scanned" => Current

\* A release that passes its check keeps passing until the check is made
\* again, and not longer (vulnerability/evaluate.go, Recheck): a scan that
\* gets too old is noticed when it does.
RecheckInTime ==
  \A ds \in (SUBSET Digests) \ {{}}, maxAge \in 1 .. MaxTime :
    LET records == product.status.records
        verdict == Verdict(records, ds, maxAge, now)
    IN verdict.outcome = "Passed" =>
         /\ \A t \in now .. now + verdict.recheck - 1 : Verdict(records, ds, maxAge, t).outcome = "Passed"
         /\ Verdict(records, ds, maxAge, now + verdict.recheck).outcome = "ScanStale"
===============================================================================
