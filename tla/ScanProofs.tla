------------------------------ MODULE ScanProofs ------------------------------
(* What holds of the scans of a Product for any Preparations, images, edits and  *)
(* faults: an image gets one SBOM of Kokumi at most, no image is scanned twice   *)
(* in an interval, a check is made again exactly when a scan gets too old, and   *)
(* once all is at rest the scans are there.                                      *)
EXTENDS Scan, FiniteSetTheorems, WellFoundedInduction, TLAPS

PrepStates == [Preps -> {"absent", "waiting", "ready"}]

Servings == [promoted : Preps \cup {None}, target : Preps \cup {None},
             deployed : Preps \cup {None}]

\* Every variable has its type.
TypeOK ==
  /\ now \in Nat
  /\ preps \in PrepStates
  /\ serving \in Servings
  /\ kitchen \in Intervals
  /\ product \in Products
  /\ cache \in [preps : PrepStates, serving : Servings, kitchen : Intervals,
                product : Products]
  /\ built \in Nat
  /\ own \in [Digests -> Nat]
  /\ reports \subseteq Digests \X Nat
  /\ queued \in BOOLEAN
  /\ timer \in Nat \cup {None}
  /\ pass \in Passes \cup {None}
  /\ unsaid \in BOOLEAN
  /\ edits \in Nat

\* A copy of the Product is of a version it had, and of its current version it
\* is the Product.
CopyOf(p) == p.rv <= product.rv /\ (p.rv = product.rv => p = product)

\* What a pass has yet to scan.
Left == pass.due \cup pass.todo \cup pass.got

\* A pass that has confirmed its copy works on the status as it is, since no
\* one else writes that; what it has yet to scan was due by its copy, and what
\* has no SBOM yet gets the first.
PassGood ==
  /\ CopyOf(pass.product)
  /\ pass.pc \in {"Prepare", "Call"} => product.status = pass.product.status
  /\ pass.pc \in {"Confirm", "Prepare", "Call"} =>
       /\ pass.interval # None
       /\ \A d \in Left \cap DOMAIN pass.product.status.records :
            pass.product.status.records[d] + pass.interval <= pass.at
  /\ pass.pc # "Call" => pass.todo = {} /\ pass.got = {}
  /\ \A d \in pass.got \ pass.found : own[d] = 0 /\ d \notin Shipped

Inductive ==
  /\ TypeOK
  /\ CopyOf(cache.product)
  /\ pass # None => PassGood
  /\ OneSBOM

-------------------------------------------------------------------------------
(* The operators the steps are made of.                                          *)

\* A set of numbers that is bounded from below has a minimum, finite or not.
LEMMA MinExists ==
  ASSUME NEW S \in SUBSET Int, S # {}, NEW b \in Int, \A x \in S : b <= x
  PROVE  Min(S) \in S /\ \A x \in S : Min(S) <= x
<1> DEFINE T == {n \in Nat : b + n \in S}
<1>1. T \in SUBSET Nat /\ T # {}
  <2>1. PICK x \in S : TRUE
    OBVIOUS
  <2>2. x - b \in Nat /\ b + (x - b) = x
    OBVIOUS
  <2> QED BY <2>1, <2>2
<1>2. PICK k \in T : \A j \in T : ~(<<j, k>> \in OpToRel(<, Nat))
  BY <1>1, WFMin, NatLessThanWellFounded
<1>3. \A j \in T : k <= j
  <2> SUFFICES ASSUME NEW j \in T, j < k
               PROVE  FALSE
    OBVIOUS
  <2>1. <<j, k>> \in OpToRel(<, Nat)
    BY DEF OpToRel
  <2> QED BY <1>2, <2>1
<1>4. b + k \in S
  OBVIOUS
<1>5. ASSUME NEW x \in S
      PROVE  b + k <= x
  <2>1. x - b \in T
    OBVIOUS
  <2> QED BY <1>3, <2>1
<1> QED BY <1>4, <1>5 DEF Min

\* The earlier of two timers is one of them.
LEMMA SoonerType ==
  ASSUME timer \in Nat \cup {None}, NEW t \in Nat
  PROVE  Sooner(t) \in Nat
<1>1. CASE timer = None
  BY <1>1 DEF Sooner
<1>2. CASE timer # None
  <2>1. timer \in Nat
    BY <1>2
  <2>2. Min({timer, t}) \in {timer, t}
    BY <2>1, MinExists
  <2> QED BY <1>2, <2>1, <2>2 DEF Sooner
<1> QED BY <1>1, <1>2

\* It is no later than the new one.
LEMMA SoonerLeast ==
  ASSUME timer \in Nat \cup {None}, NEW t \in Nat
  PROVE  Sooner(t) \in Nat /\ Sooner(t) <= t
<1>1. CASE timer = None
  BY <1>1 DEF Sooner
<1>2. CASE timer # None
  <2>1. timer \in Nat
    BY <1>2
  <2> DEFINE S == {timer, t}
  <2>2. S \in SUBSET Int /\ S # {} /\ t \in S /\ \A x \in S : 0 <= x
    BY <2>1
  <2>3. Sooner(t) = Min(S)
    BY <1>2 DEF Sooner
  <2> HIDE DEF S
  <2>4. Min(S) <= t
    BY <2>2, MinExists
  <2> QED BY <2>3, <2>4, SoonerType
<1> QED BY <1>1, <1>2

\* The records that are listed are some of those there are.
LEMMA LatestType ==
  ASSUME NEW r \in Records, NEW q \in Latest(r)
  PROVE  q \in Records
<1>1. PICK D \in SUBSET Digests : r \in [D -> Nat]
  BY DEF Records
<1>2. PICK E \in SUBSET D : q = Restrict(r, E)
  BY <1>1 DEF Latest
<1>3. q \in [E -> Nat]
  BY <1>1, <1>2 DEF Restrict
<1>4. E \in SUBSET Digests
  BY <1>1, <1>2
<1> QED BY <1>3, <1>4 DEF Records

\* The next scan is due a tick from now, or later.
LEMMA NextScanType ==
  ASSUME NEW r \in Records, NEW i \in Nat \ {0}, NEW t \in Nat
  PROVE  NextScan(r, i, t) \in Nat
<1> DEFINE S == {i} \cup {r[d] + i - t : d \in DOMAIN r}
<1>1. \A d \in DOMAIN r : r[d] \in Nat
  BY DEF Records
<1>2. S \in SUBSET Int /\ S # {} /\ \A x \in S : 0 - t <= x
  BY <1>1
<1>3. Min(S) \in Int
  <2>1. 0 - t \in Int
    OBVIOUS
  <2> HIDE DEF S
  <2>2. Min(S) \in S
    BY <1>2, <2>1, MinExists
  <2> QED BY <1>2, <2>2
<1> HIDE DEF S
<1>4. Max({1, Min(S)}) \in {1, Min(S)} /\ Max({1, Min(S)}) >= 1
  BY <1>3 DEF Max
<1>5. Max({1, Min(S)}) \in Nat
  BY <1>3, <1>4
<1> QED BY <1>5 DEF NextScan, S

\* What is in use are images.
LEMMA InUseType ==
  ASSUME NEW ps \in PrepStates, NEW s
  PROVE  InUse(ps, s) \subseteq Digests
BY ScanAssumption DEF InUse, Kept, Recent

\* A pass that concludes has its status left to write, and scans no more.
LEMMA ConcludeGives ==
  ASSUME TypeOK, pass # None, NEW p \in Passes, p.product = pass.product,
         NEW reason \in Reasons \cup {None},
         NEW again \in Nat \cup {None}, Conclude(p, reason, again)
  PROVE  /\ pass' \in Passes /\ pass'.pc = "Patch" /\ pass'.product = pass.product
         /\ pass'.todo = {} /\ pass'.got = {}
<1>1. pass \in Passes
  BY DEF TypeOK
<1> DEFINE listed == Status.listed \/ p.records # NoRecords
<1>2. PICK records \in Latest(p.records) :
        LET status == [listed |-> listed, records |-> IF listed THEN records ELSE NoRecords,
                       database |-> p.status.database, scanned |-> None]
            verdict == IF reason = None THEN Health(p.failures, status, p.interval, p.at)
                       ELSE reason
        IN  pass' = [NoPass EXCEPT !.pc = "Patch", !.product = p.product, !.at = p.at,
                       !.again = again, !.status = [status EXCEPT !.scanned = verdict]]
  BY DEF Conclude
<1>3. records \in Records /\ NoRecords \in Records
  <2>1. p.records \in Records
    BY DEF Passes
  <2>2. NoRecords \in [{} -> Nat]
    BY DEF NoRecords
  <2> QED BY <2>1, <2>2, LatestType DEF Records
<1> DEFINE status == [listed |-> listed, records |-> IF listed THEN records ELSE NoRecords,
                      database |-> p.status.database, scanned |-> None]
           verdict == IF reason = None THEN Health(p.failures, status, p.interval, p.at)
                      ELSE reason
           final == [status EXCEPT !.scanned = verdict]
<1>4. verdict \in Reasons \cup {None}
  BY DEF Health, Reasons
<1>5. status \in ScanStatuses
  BY <1>1, <1>3 DEF ScanStatuses, Passes, Products
<1> HIDE DEF verdict, status
<1>6. final \in ScanStatuses
  BY <1>4, <1>5 DEF ScanStatuses
<1> HIDE DEF final
<1>7. pass' = [NoPass EXCEPT !.pc = "Patch", !.product = p.product, !.at = p.at,
                 !.again = again, !.status = final]
  BY <1>2 DEF final, status, verdict
<1> QED BY <1>3, <1>6, <1>7 DEF NoPass, Passes

-------------------------------------------------------------------------------
(* Every step keeps the inductive invariant.                                     *)

\* A pass has its type.
LEMMA InPass ==
  ASSUME Inductive, pass # None
  PROVE  TypeOK /\ pass \in Passes /\ PassGood
BY DEF Inductive, TypeOK

\* A step of a pass that writes nothing to the Product.
LEMMA PassStep ==
  ASSUME Inductive, TypeOK', UNCHANGED <<product, cache>>, OneSBOM',
         pass' # None => PassGood'
  PROVE  Inductive'
BY DEF Inductive, CopyOf

\* A step that leaves the pass, the Product and the images alone.
LEMMA OtherStep ==
  ASSUME Inductive, TypeOK', UNCHANGED <<product, pass, own>>,
         cache'.product \in {cache.product, product}
  PROVE  Inductive'
<1>1. product.rv \in Nat
  BY DEF Inductive, TypeOK, Products
<1> QED
  BY <1>1 DEF Inductive, CopyOf, PassGood, Left, OneSBOM

\* The pass takes its copy of the Product from the cache.
LEMMA TakeInductive ==
  ASSUME Inductive, Take
  PROVE  Inductive'
<1>1. TypeOK
  BY DEF Inductive
<1>2. UNCHANGED <<now, preps, serving, kitchen, product, cache, built, own, reports,
                  timer, unsaid, edits>>
  BY DEF Take, world, registry
<1>3. pass' = [NoPass EXCEPT !.product = cache.product, !.interval = cache.kitchen,
                             !.at = now]
  BY DEF Take
<1>4. NoRecords \in Records /\ Unscanned \in ScanStatuses
  <2>1. NoRecords \in [{} -> Nat]
    BY DEF NoRecords
  <2>2. NoRecords \in Records
    BY <2>1 DEF Records
  <2> QED BY <2>2 DEF Unscanned, ScanStatuses
<1>5. /\ pass' \in Passes /\ pass'.product = cache.product /\ pass'.pc = "Look"
      /\ pass'.todo = {} /\ pass'.got = {}
  BY <1>1, <1>3, <1>4 DEF NoPass, Passes, TypeOK
<1>6. TypeOK'
  BY <1>1, <1>2, <1>5 DEF TypeOK, Take
<1>7. PassGood'
  BY <1>2, <1>5 DEF Inductive, PassGood, CopyOf
<1> QED
  BY <1>2, <1>6, <1>7, PassStep DEF Inductive, OneSBOM

\* A pass that has its status left to write keeps the invariant.
LEMMA ConcludeInductive ==
  ASSUME Inductive, pass # None,
         UNCHANGED <<now, world, product, cache, registry, queued, timer, unsaid>>,
         edits' \in Nat,
         pass' \in Passes, pass'.pc = "Patch", pass'.product = pass.product,
         pass'.todo = {}, pass'.got = {}
  PROVE  Inductive'
<1>1. TypeOK'
  BY DEF Inductive, TypeOK, world, registry
<1>2. PassGood'
  BY InPass DEF PassGood, CopyOf
<1> QED
  BY <1>1, <1>2, PassStep DEF Inductive, OneSBOM, registry

\* What is due by the copy is left to scan.
LEMMA LookAtUseInductive ==
  ASSUME Inductive, LookAtUse
  PROVE  Inductive'
<1> DEFINE off     == pass.interval = None \/ ~ pass.product.vendors
           inUse   == InUse(cache.preps, cache.serving)
           records == Restrict(Status.records, DOMAIN Status.records \cap inUse)
           due     == Due(inUse, records, pass.interval, now)
           looked  == [pass EXCEPT !.at = now, !.records = records, !.due = due,
                                   !.status = Status]
<1>1. /\ TypeOK /\ pass # None /\ pass \in Passes /\ PassGood /\ pass.pc = "Look"
      /\ pass.product \in Products
  BY InPass DEF LookAtUse, Passes
<1>2. UNCHANGED <<now, world, product, cache, registry, queued, timer, unsaid, edits>>
      /\ edits' \in Nat
  BY <1>1 DEF LookAtUse, TypeOK
<1>3. inUse \subseteq Digests
  BY <1>1, InUseType DEF TypeOK
<1>4. /\ records \in Records /\ DOMAIN records = DOMAIN Status.records \cap inUse
      /\ \A d \in DOMAIN records : records[d] = Status.records[d]
      /\ Status \in ScanStatuses
  <2>1. Status \in ScanStatuses /\ Status.records \in Records
    BY <1>1 DEF Status, Products, ScanStatuses
  <2>2. PICK D \in SUBSET Digests : Status.records \in [D -> Nat]
    BY <2>1 DEF Records
  <2>3. records \in [D \cap inUse -> Nat]
    BY <2>2 DEF Restrict
  <2> QED BY <2>1, <2>2, <2>3 DEF Records, Restrict
<1>5. /\ due \subseteq inUse
      /\ \A d \in due \cap DOMAIN Status.records :
           Status.records[d] + pass.interval <= now
  BY <1>4 DEF Due
<1> HIDE DEF inUse, records, due
<1>6. /\ looked \in Passes /\ looked.product = pass.product /\ looked.due = due
      /\ looked.at = now /\ looked.interval = pass.interval /\ looked.pc = pass.pc
      /\ looked.got = pass.got /\ looked.todo = pass.todo /\ looked.found = pass.found
      /\ looked.records = records
  BY <1>1, <1>3, <1>4, <1>5 DEF Passes, TypeOK
<1> HIDE DEF looked
<1>7. CASE off /\ pass' = [NoPass EXCEPT !.pc = "Patch", !.product = pass.product, !.at = now]
  <2>1. NoRecords \in Records /\ Unscanned \in ScanStatuses
    <3>1. NoRecords \in [{} -> Nat]
      BY DEF NoRecords
    <3>2. NoRecords \in Records
      BY <3>1 DEF Records
    <3> QED BY <3>2 DEF Unscanned, ScanStatuses
  <2>2. /\ pass' \in Passes /\ pass'.pc = "Patch" /\ pass'.product = pass.product
        /\ pass'.todo = {} /\ pass'.got = {}
    BY <1>1, <1>7, <2>1 DEF NoPass, Passes, TypeOK
  <2> QED BY <1>1, <1>2, <2>2, ConcludeInductive
<1>8. CASE ~ off /\ pass' = [looked EXCEPT !.pc = "Confirm"]
  <2>1. /\ pass' \in Passes /\ pass'.pc = "Confirm" /\ pass'.product = pass.product
        /\ pass'.due = due /\ pass'.at = now /\ pass'.interval = pass.interval
        /\ pass'.got = pass.got /\ pass'.todo = pass.todo /\ pass'.found = pass.found
    BY <1>6, <1>8 DEF Passes
  <2>2. TypeOK'
    BY <1>1, <1>2, <2>1 DEF TypeOK, world, registry
  <2>3. UNCHANGED <<product, cache, own>>
    BY <1>2 DEF registry
  <2>4. PassGood'
    BY <1>1, <1>5, <1>8, <2>1, <2>3 DEF PassGood, CopyOf, Left, Status
  <2> QED BY <2>2, <2>3, <2>4, PassStep DEF Inductive, OneSBOM
<1>9. CASE ~ off /\ Conclude(looked, None, NextPass(looked))
  <2>1. pass.interval \in Nat \ {0}
    BY <1>1, <1>9, ScanAssumption DEF Passes
  <2>2. NextPass(looked) \in Nat
    BY <1>1, <1>4, <1>6, <2>1, NextScanType DEF NextPass, TypeOK
  <2>3. /\ pass' \in Passes /\ pass'.pc = "Patch" /\ pass'.product = pass.product
        /\ pass'.todo = {} /\ pass'.got = {}
    BY <1>1, <1>6, <1>9, <2>2, ConcludeGives
  <2> QED BY <1>1, <1>2, <2>3, ConcludeInductive
<1> QED
  BY <1>7, <1>8, <1>9 DEF LookAtUse, looked, due, records, inUse

\* A pass whose copy is the Product as it is goes on.
LEMMA ConfirmInductive ==
  ASSUME Inductive, Confirm
  PROVE  Inductive'
<1>1. /\ TypeOK /\ pass \in Passes /\ PassGood /\ pass.pc = "Confirm" /\ pass # None
  BY InPass DEF Confirm
<1>2. UNCHANGED <<now, world, product, cache, registry, timer, unsaid, edits>>
      /\ queued' \in BOOLEAN
  BY <1>1 DEF Confirm, TypeOK
<1>3. CASE IsLatest /\ pass' = [pass EXCEPT !.pc = "Prepare"]
  <2>1. /\ pass' \in Passes /\ pass'.pc = "Prepare" /\ pass'.product = pass.product
        /\ pass'.due = pass.due /\ pass'.at = pass.at /\ pass'.interval = pass.interval
        /\ pass'.got = pass.got /\ pass'.todo = pass.todo /\ pass'.found = pass.found
    BY <1>1, <1>3 DEF Passes
  <2>2. product = pass.product
    BY <1>1, <1>3 DEF PassGood, CopyOf, IsLatest, Confirmed
  <2>3. UNCHANGED <<product, cache, own>>
    BY <1>2 DEF registry
  <2>4. PassGood'
    BY <1>1, <2>1, <2>2, <2>3 DEF PassGood, CopyOf, Left
  <2>5. TypeOK'
    BY <1>1, <1>2, <2>1 DEF TypeOK, world, registry
  <2> QED BY <2>3, <2>4, <2>5, PassStep DEF Inductive, OneSBOM
<1>4. CASE pass' = None
  <2>1. TypeOK'
    BY <1>1, <1>2, <1>4 DEF TypeOK, world, registry
  <2> QED BY <1>2, <1>4, <2>1, PassStep DEF Inductive, OneSBOM, registry
<1> QED BY <1>3, <1>4 DEF Confirm

\* A step that goes on with images that were left, and that finds the SBOMs
\* there are.
LEMMA GoesOn ==
  ASSUME Inductive, pass # None,
         UNCHANGED <<now, world, product, cache, registry, queued, timer, unsaid>>,
         edits' \in Nat, pass.pc \in {"Prepare", "Call"}, pass.got = {},
         pass' \in Passes, pass'.pc = "Call", pass'.product = pass.product,
         pass'.at = pass.at, pass'.interval = pass.interval, Left' \subseteq Left,
         pass'.found = Find(pass'.got) \/ pass'.got = {}
  PROVE  Inductive'
<1>1. TypeOK /\ pass \in Passes /\ PassGood
  BY InPass
<1>2. TypeOK' /\ UNCHANGED <<product, cache, own>>
  BY <1>1 DEF TypeOK, world, registry
<1>3. \A d \in Digests : own[d] \in Nat
  BY <1>1 DEF TypeOK
<1>4. \A d \in pass'.got \ pass'.found : own[d] = 0 /\ d \notin Shipped
  BY <1>3 DEF Find, Passes
<1>5. PassGood'
  BY <1>1, <1>2, <1>4 DEF PassGood, CopyOf
<1> QED BY <1>2, <1>5, PassStep DEF Inductive, OneSBOM

LEMMA PrepareInductive ==
  ASSUME Inductive, Prepare
  PROVE  Inductive'
<1>1. /\ TypeOK /\ pass \in Passes /\ PassGood /\ pass.pc = "Prepare" /\ pass # None
      /\ pass.todo = {} /\ pass.got = {}
  BY InPass DEF Prepare, PassGood
<1>2. /\ UNCHANGED <<now, world, product, cache, registry, queued, timer, unsaid>>
      /\ edits' \in Nat
  <2>1. edits' \in {edits, edits + 1}
    BY DEF Prepare, FailureIf, Edit
  <2>2. edits \in Nat /\ edits' \in Nat
    BY <1>1, <2>1 DEF TypeOK
  <2> QED BY <2>2 DEF Prepare
<1>3. CASE \E reason \in {"SigningKeyNotReady", "ScanFailed"} : Conclude(pass, reason, 0)
  <2>1. PICK reason \in {"SigningKeyNotReady", "ScanFailed"} : Conclude(pass, reason, 0)
    BY <1>3
  <2>2. reason \in Reasons \cup {None} /\ 0 \in Nat \cup {None}
    BY DEF Reasons
  <2>3. /\ pass' \in Passes /\ pass'.pc = "Patch" /\ pass'.product = pass.product
        /\ pass'.todo = {} /\ pass'.got = {}
    BY <1>1, <2>1, <2>2, ConcludeGives
  <2> QED BY <1>1, <1>2, <2>3, ConcludeInductive
<1>4. CASE \E refused \in SUBSET pass.due :
             pass' = [pass EXCEPT !.pc = "Call", !.due = {}, !.todo = pass.due \ refused,
                                  !.failures = refused, !.database = built]
  <2>1. PICK refused \in SUBSET pass.due :
          pass' = [pass EXCEPT !.pc = "Call", !.due = {}, !.todo = pass.due \ refused,
                               !.failures = refused, !.database = built]
    BY <1>4
  <2>2. /\ pass' \in Passes /\ pass'.pc = "Call" /\ pass'.product = pass.product
        /\ pass'.at = pass.at /\ pass'.interval = pass.interval
        /\ pass'.due = {} /\ pass'.todo \subseteq pass.due /\ pass'.got = {}
    BY <1>1, <2>1 DEF Passes, TypeOK
  <2>3. Left' \subseteq Left
    BY <2>2 DEF Left
  <2> QED BY <1>1, <1>2, <2>2, <2>3, GoesOn
<1> QED BY <1>3, <1>4 DEF Prepare

\* What the scanner answers for is attached next.
LEMMA CallInductive ==
  ASSUME Inductive, Call
  PROVE  Inductive'
<1>1. /\ TypeOK /\ pass \in Passes /\ PassGood /\ pass.pc = "Call" /\ pass # None
      /\ pass.got = {}
  BY InPass DEF Call
<1>2. /\ UNCHANGED <<now, world, product, cache, registry, queued, timer, unsaid>>
      /\ edits' \in Nat
  <2>1. edits' \in {edits, edits + 1}
    BY DEF Call, FailureIf, Edit
  <2>2. edits \in Nat /\ edits' \in Nat
    BY <1>1, <2>1 DEF TypeOK
  <2> QED BY <2>2 DEF Call
<1>3. PICK t \in {TargetOf[d] : d \in pass.todo} :
        LET images == {d \in pass.todo : TargetOf[d] = t}
        IN \/ \E reason \in {"ScannerUnavailable", "ScanFailed"} : Conclude(pass, reason, 0)
           \/ \E failed \in SUBSET images :
                pass' = [pass EXCEPT !.todo = @ \ images, !.got = images \ failed,
                           !.found = Find(images \ failed), !.failures = @ \cup failed]
  BY DEF Call
<1> DEFINE images == {d \in pass.todo : TargetOf[d] = t}
<1>4. CASE \E reason \in {"ScannerUnavailable", "ScanFailed"} : Conclude(pass, reason, 0)
  <2>1. PICK reason \in {"ScannerUnavailable", "ScanFailed"} : Conclude(pass, reason, 0)
    BY <1>4
  <2>2. reason \in Reasons \cup {None} /\ 0 \in Nat \cup {None}
    BY DEF Reasons
  <2>3. /\ pass' \in Passes /\ pass'.pc = "Patch" /\ pass'.product = pass.product
        /\ pass'.todo = {} /\ pass'.got = {}
    BY <1>1, <2>1, <2>2, ConcludeGives
  <2> QED BY <1>1, <1>2, <2>3, ConcludeInductive
<1>5. CASE \E failed \in SUBSET images :
             pass' = [pass EXCEPT !.todo = @ \ images, !.got = images \ failed,
                        !.found = Find(images \ failed), !.failures = @ \cup failed]
  <2>1. PICK failed \in SUBSET images :
             pass' = [pass EXCEPT !.todo = @ \ images, !.got = images \ failed,
                        !.found = Find(images \ failed), !.failures = @ \cup failed]
    BY <1>5
  <2>2. images \subseteq pass.todo /\ Find(images \ failed) \subseteq images
    BY DEF Find
  <2> HIDE DEF images
  <2>3. /\ pass' \in Passes /\ pass'.pc = "Call" /\ pass'.product = pass.product
        /\ pass'.at = pass.at /\ pass'.interval = pass.interval
        /\ pass'.due = pass.due /\ pass'.todo \subseteq pass.todo
        /\ pass'.got \subseteq pass.todo /\ pass'.found = Find(pass'.got)
    BY <1>1, <2>1, <2>2 DEF Passes
  <2>4. Left' \subseteq Left
    BY <2>3 DEF Left
  <2> QED BY <1>1, <1>2, <2>3, <2>4, GoesOn
<1> QED BY <1>3, <1>4, <1>5

\* An SBOM is pushed for an image that has none.
LEMMA AttachSBOMInductive ==
  ASSUME Inductive, AttachSBOM
  PROVE  Inductive'
<1>1. /\ TypeOK /\ pass \in Passes /\ PassGood /\ pass.pc = "Call" /\ pass # None
  BY InPass DEF AttachSBOM
<1>2. PICK d \in pass.got \ pass.found, failed \in BOOLEAN :
        /\ FailureIf(failed)
        /\ own' = IF failed THEN own ELSE [own EXCEPT ![d] = @ + 1]
        /\ pass' = IF failed THEN [pass EXCEPT !.got = @ \ {d}, !.failures = @ \cup {d}]
                    ELSE [pass EXCEPT !.found = @ \cup {d}]
  BY DEF AttachSBOM
<1>3. d \in Digests /\ own[d] = 0 /\ d \notin Shipped /\ own \in [Digests -> Nat]
  BY <1>1 DEF PassGood, Passes, TypeOK
<1>4. /\ own' \in [Digests -> Nat] /\ own'[d] \in {0, 1}
      /\ \A e \in Digests \ {d} : own'[e] = own[e]
      /\ ~ failed => UNCHANGED pass.got
      /\ failed => UNCHANGED own
  BY <1>1, <1>2, <1>3 DEF Passes
<1>5. /\ pass' \in Passes /\ pass'.pc = "Call" /\ pass'.product = pass.product
      /\ pass'.at = pass.at /\ pass'.interval = pass.interval
      /\ pass'.due = pass.due /\ pass'.todo = pass.todo
      /\ pass'.got \subseteq pass.got /\ pass.found \subseteq pass'.found
      /\ d \notin pass'.got \/ d \in pass'.found
  BY <1>1, <1>2, <1>3 DEF Passes
<1>6. /\ UNCHANGED <<now, world, product, cache, reports, queued, timer, unsaid>>
      /\ edits' \in Nat
  BY <1>1, <1>2 DEF AttachSBOM, TypeOK, FailureIf, Edit
<1>7. TypeOK'
  BY <1>1, <1>4, <1>5, <1>6 DEF TypeOK, world
<1>8. OneSBOM'
  BY <1>3, <1>4 DEF Inductive, OneSBOM
<1>9. \A e \in pass'.got \ pass'.found : own'[e] = 0 /\ e \notin Shipped
  BY <1>1, <1>4, <1>5 DEF PassGood, Passes
<1>10. Left' \subseteq Left
  BY <1>5 DEF Left
<1>11. PassGood'
  BY <1>1, <1>5, <1>6, <1>9, <1>10 DEF PassGood, CopyOf
<1> QED BY <1>6, <1>7, <1>8, <1>11, PassStep

\* The report and the record follow the SBOM.
LEMMA AttachReportInductive ==
  ASSUME Inductive, AttachReport
  PROVE  Inductive'
<1>1. /\ TypeOK /\ pass \in Passes /\ PassGood /\ pass.pc = "Call" /\ pass # None
  BY InPass DEF AttachReport
<1>2. PICK d \in pass.got \cap pass.found, failed \in BOOLEAN :
        /\ FailureIf(failed)
        /\ reports' = IF failed THEN reports ELSE reports \cup {<<d, pass.at>>}
        /\ pass' = IF failed THEN [pass EXCEPT !.got = @ \ {d}, !.failures = @ \cup {d}]
                    ELSE [pass EXCEPT !.got = @ \ {d}, !.records = Recorded(@, d, pass.at),
                            !.status.database = pass.database]
  BY DEF AttachReport
<1>3. d \in Digests /\ pass.at \in Nat
  BY <1>1 DEF Passes
<1>4. Recorded(pass.records, d, pass.at) \in Records
  <2>1. PICK D \in SUBSET Digests : pass.records \in [D -> Nat]
    BY <1>1 DEF Passes, Records
  <2>2. Recorded(pass.records, d, pass.at) \in [{d} \cup D -> Nat]
    BY <1>3, <2>1 DEF Recorded
  <2> QED BY <1>3, <2>2 DEF Records
<1>5. [pass.status EXCEPT !.database = pass.database] \in ScanStatuses
  BY <1>1 DEF Passes, ScanStatuses
<1>6. /\ pass' \in Passes /\ pass'.pc = "Call" /\ pass'.product = pass.product
      /\ pass'.at = pass.at /\ pass'.interval = pass.interval
      /\ pass'.due = pass.due /\ pass'.todo = pass.todo
      /\ pass'.got \subseteq pass.got /\ pass.found = pass'.found
  <2>1. CASE failed
    BY <1>1, <1>2, <1>3, <2>1 DEF Passes
  <2>2. CASE ~ failed
    <3>1. pass' = [pass EXCEPT !.got = @ \ {d}, !.records = Recorded(@, d, pass.at),
                     !.status = [pass.status EXCEPT !.database = pass.database]]
      BY <1>2, <2>2
    <3> QED BY <1>1, <1>4, <1>5, <3>1 DEF Passes
  <2> QED BY <2>1, <2>2
<1>7. /\ UNCHANGED <<now, world, product, cache, own, queued, timer, unsaid>>
      /\ edits' \in Nat /\ reports' \subseteq Digests \X Nat
  BY <1>1, <1>2, <1>3 DEF AttachReport, TypeOK, FailureIf, Edit
<1>8. TypeOK'
  BY <1>1, <1>6, <1>7 DEF TypeOK, world
<1>9. Left' \subseteq Left
  BY <1>6 DEF Left
<1>10. PassGood'
  BY <1>1, <1>6, <1>7, <1>9 DEF PassGood, CopyOf
<1> QED BY <1>7, <1>8, <1>10, PassStep DEF Inductive, OneSBOM

LEMMA ScanDoneInductive ==
  ASSUME Inductive, ScanDone
  PROVE  Inductive'
<1>1. /\ TypeOK /\ pass \in Passes /\ PassGood /\ pass.pc = "Call" /\ pass # None
      /\ UNCHANGED <<now, world, product, cache, registry, queued, timer, unsaid>>
      /\ edits' \in Nat
  BY InPass DEF ScanDone, TypeOK
<1>2. pass.interval \in Nat \ {0} /\ pass.records \in Records /\ pass.at \in Nat
  BY <1>1, ScanAssumption DEF PassGood, Passes
<1>3. NextPass(pass) \in Nat
  BY <1>2, NextScanType DEF NextPass
<1>4. /\ pass' \in Passes /\ pass'.pc = "Patch" /\ pass'.product = pass.product
      /\ pass'.todo = {} /\ pass'.got = {}
  BY <1>1, <1>3, ConcludeGives DEF ScanDone
<1> QED BY <1>1, <1>4, ConcludeInductive

\* The queue gets the Product again, at once or after a while.
LEMMA RequeueType ==
  ASSUME TypeOK, NEW again \in Nat \cup {None}, Requeue(again)
  PROVE  queued' \in BOOLEAN /\ timer' \in Nat \cup {None}
<1>1. CASE again = None \/ again = 0
  BY <1>1 DEF Requeue, TypeOK
<1>2. CASE again # None /\ again # 0
  <2>1. now + again \in Nat
    BY <1>2 DEF TypeOK
  <2> QED BY <1>2, <2>1, SoonerType DEF Requeue, TypeOK
<1> QED BY <1>1, <1>2

\* A write of the Product is a new version of it: the copies there are stay
\* copies of what it was.
LEMMA PatchInductive ==
  ASSUME Inductive, Patch \/ PatchFails
  PROVE  Inductive'
<1>1. /\ TypeOK /\ pass \in Passes /\ PassGood /\ pass # None
      /\ product \in Products /\ cache.product \in Products
  BY InPass DEF Patch, PatchFails, TypeOK
<1>2. /\ UNCHANGED <<now, world, cache, registry>> /\ edits' \in Nat /\ pass' = None
      /\ queued' \in BOOLEAN /\ timer' \in Nat \cup {None} /\ unsaid' \in BOOLEAN
  <2>1. CASE Patch
    <3>1. pass.again \in Nat \cup {None} /\ 0 \in Nat \cup {None}
      BY <1>1 DEF Passes
    <3>2. Requeue(pass.again) \/ Requeue(0)
      BY <2>1 DEF Patch
    <3>3. queued' \in BOOLEAN /\ timer' \in Nat \cup {None}
      BY <1>1, <3>1, <3>2, RequeueType
    <3> QED BY <1>1, <2>1, <3>3 DEF Patch, TypeOK
  <2>2. CASE PatchFails
    BY <1>1, <2>2 DEF PatchFails, Edit, TypeOK
  <2> QED BY <2>1, <2>2
<1>3. \/ UNCHANGED product
      \/ product' = [product EXCEPT !.rv = @ + 1, !.status = pass.status]
  BY DEF Patch, PatchFails
<1>4. /\ product' \in Products
      /\ product' = product \/ product'.rv = product.rv + 1
  <2>1. pass.status \in ScanStatuses
    BY <1>1 DEF Passes
  <2>2. CASE product' = [product EXCEPT !.rv = @ + 1, !.status = pass.status]
    <3> DEFINE n == product.rv + 1
    <3>1. n \in Nat
      BY <1>1 DEF Products
    <3>2. product' = [product EXCEPT !.rv = n, !.status = pass.status]
      BY <2>2
    <3> HIDE DEF n
    <3>3. product' \in Products /\ product'.rv = n
      BY <1>1, <2>1, <3>1, <3>2 DEF Products
    <3> QED BY <3>3 DEF n
  <2> QED BY <1>1, <1>3, <2>2
<1>5. TypeOK'
  BY <1>1, <1>2, <1>4 DEF TypeOK, world, registry
<1>6. CopyOf(cache.product)'
  BY <1>1, <1>2, <1>4 DEF Inductive, CopyOf, Products
<1> QED BY <1>2, <1>5, <1>6 DEF Inductive, OneSBOM, registry

\* The watches bring copies up to date, and wake the controller.
LEMMA WatchesInductive ==
  ASSUME Inductive, Watches
  PROVE  Inductive'
<1>1. TypeOK
  BY DEF Inductive
<1>2. /\ UNCHANGED <<now, world, product, registry, pass, unsaid, edits>>
      /\ timer' \in {timer, None} /\ queued' \in BOOLEAN
      /\ \/ cache' = [cache EXCEPT !.product = product]
         \/ cache' = [cache EXCEPT !.preps = preps]
         \/ cache' = [cache EXCEPT !.serving = serving]
         \/ cache' = [cache EXCEPT !.kitchen = kitchen]
         \/ cache' = cache
  BY <1>1 DEF Watches, DeliverProduct, DeliverPreps, DeliverServing, DeliverKitchen,
              TimerFires, TypeOK
<1>3. TypeOK'
  BY <1>1, <1>2 DEF TypeOK, world, registry
<1>4. cache'.product \in {cache.product, product}
  BY <1>1, <1>2 DEF TypeOK
<1> QED BY <1>2, <1>3, <1>4, OtherStep DEF registry

\* What others do leaves the status of the Product to the controller.
LEMMA OthersInductive ==
  ASSUME Inductive, Others
  PROVE  Inductive'
<1>1. TypeOK /\ product \in Products
  BY DEF Inductive, TypeOK
<1>2. edits' \in Nat
  <2>1. edits' \in {edits, edits + 1}
    BY DEF Others, PrepChanges, Promote, Deploy, EditKitchen, EditProduct,
           PublishDatabase, Restart, Edit
  <2> QED BY <1>1, <2>1 DEF TypeOK
<1>3. CASE PrepChanges
  <2>1. preps' \in PrepStates
    BY <1>1, <1>3 DEF PrepChanges, TypeOK, PrepStates
  <2>2. TypeOK'
    BY <1>1, <1>2, <1>3, <2>1 DEF PrepChanges, TypeOK, registry
  <2> QED BY <1>3, <2>2, OtherStep DEF PrepChanges, registry
<1>4. CASE Promote \/ Deploy
  <2>1. serving' \in Servings
    BY <1>1, <1>4 DEF Promote, Deploy, TypeOK, Servings
  <2>2. UNCHANGED <<now, preps, kitchen, product, cache, built, registry, queued, timer,
                    pass, unsaid>>
    BY <1>4 DEF Promote, Deploy
  <2>3. TypeOK'
    BY <1>1, <1>2, <2>1, <2>2 DEF TypeOK, registry
  <2> QED BY <2>2, <2>3, OtherStep DEF registry
<1>5. CASE EditKitchen
  <2>1. TypeOK'
    BY <1>1, <1>2, <1>5 DEF EditKitchen, TypeOK, registry
  <2> QED BY <1>5, <2>1, OtherStep DEF EditKitchen, registry
<1>6. CASE EditProduct
  <2>1. /\ product' \in Products /\ product'.rv = product.rv + 1
        /\ product'.status = product.status
        /\ UNCHANGED <<now, world, cache, registry, queued, timer, pass, unsaid>>
    <3>1. PICK vendors \in BOOLEAN :
            product' = [product EXCEPT !.rv = @ + 1, !.vendors = vendors]
      BY <1>6 DEF EditProduct
    <3> DEFINE n == product.rv + 1
    <3>2. n \in Nat
      BY <1>1 DEF Products
    <3>3. product' = [product EXCEPT !.rv = n, !.vendors = vendors]
      BY <3>1
    <3> HIDE DEF n
    <3>4. product' \in Products /\ product'.rv = n /\ product'.status = product.status
      BY <1>1, <3>2, <3>3 DEF Products
    <3>5. UNCHANGED <<now, world, cache, registry, queued, timer, pass, unsaid>>
      BY <1>6 DEF EditProduct
    <3> QED BY <3>4, <3>5 DEF n
  <2>2. TypeOK'
    BY <1>1, <1>2, <2>1 DEF TypeOK, world, registry
  <2>3. \A c \in Products : CopyOf(c) => c.rv <= product.rv /\ product.rv < product'.rv
    BY <1>1, <2>1 DEF CopyOf, Products
  <2>4. cache.product \in Products /\ (pass # None => pass.product \in Products)
    BY <1>1 DEF TypeOK, Passes
  <2>5. CopyOf(cache.product)'
    BY <1>1, <2>1, <2>3, <2>4 DEF Inductive, CopyOf, Products
  <2>6. pass # None => PassGood'
    BY <1>1, <2>1, <2>3, <2>4 DEF Inductive, CopyOf, PassGood, Left, Products, registry
  <2> QED BY <2>1, <2>2, <2>5, <2>6 DEF Inductive, OneSBOM, registry
<1>7. CASE PublishDatabase
  <2>1. TypeOK'
    BY <1>1, <1>2, <1>7 DEF PublishDatabase, TypeOK, registry
  <2> QED BY <1>7, <2>1, OtherStep DEF PublishDatabase, registry
<1>8. CASE Restart
  <2>1. cache' = Caught /\ pass' = None /\ UNCHANGED <<now, world, product, registry>>
    BY <1>8 DEF Restart
  <2>2. cache' \in [preps : PrepStates, serving : Servings, kitchen : Intervals,
                    product : Products] /\ cache'.product = product
    BY <1>1, <2>1 DEF Caught, TypeOK
  <2>3. TypeOK'
    BY <1>1, <1>2, <1>8, <2>1, <2>2 DEF Restart, TypeOK, world, registry
  <2>4. CopyOf(cache.product)'
    BY <1>1, <2>1, <2>2 DEF CopyOf, Products
  <2> QED BY <2>1, <2>3, <2>4 DEF Inductive, OneSBOM, registry
<1> QED BY <1>3, <1>4, <1>5, <1>6, <1>7, <1>8 DEF Others

LEMMA InitInductive ==
  Init => Inductive
<1> SUFFICES ASSUME Init
             PROVE  Inductive
  OBVIOUS
<1>1. Unscanned \in ScanStatuses
  <2>1. NoRecords \in [{} -> Nat]
    BY DEF NoRecords
  <2>2. NoRecords \in Records
    BY <2>1 DEF Records
  <2> QED BY <2>2 DEF Unscanned, ScanStatuses
<1>2. product \in Products /\ preps \in PrepStates /\ serving \in Servings
  BY <1>1 DEF Init, Products, PrepStates, Servings
<1>3. cache \in [preps : PrepStates, serving : Servings, kitchen : Intervals,
                 product : Products] /\ cache.product = product
  BY <1>2 DEF Init, Caught
<1>4. TypeOK
  BY <1>2, <1>3 DEF Init, TypeOK
<1> QED BY <1>2, <1>3, <1>4 DEF Init, Inductive, CopyOf, Products, OneSBOM

LEMMA NextInductive ==
  Inductive /\ [Next]_vars => Inductive'
<1> SUFFICES ASSUME Inductive, [Next]_vars
             PROVE  Inductive'
  OBVIOUS
<1>1. CASE Reconcile
  BY <1>1, TakeInductive, LookAtUseInductive, ConfirmInductive, PrepareInductive,
     CallInductive, AttachSBOMInductive, AttachReportInductive, ScanDoneInductive,
     PatchInductive DEF Reconcile
<1>2. CASE Tick
  <2>1. TypeOK'
    BY <1>2 DEF Tick, Inductive, TypeOK, world, registry
  <2> QED BY <1>2, <2>1, OtherStep DEF Tick, registry
<1>3. CASE UNCHANGED vars
  <2>1. TypeOK'
    BY <1>3 DEF vars, Inductive, TypeOK
  <2> QED BY <1>3, <2>1, OtherStep DEF vars
<1> QED BY <1>1, <1>2, <1>3, WatchesInductive, OthersInductive DEF Next

-------------------------------------------------------------------------------
(* Once everything rests, what is Scanned has a current scan.                    *)

\* By the copies that are there: nothing is scanned; the images in use.
Off  == cache.kitchen = None \/ ~ cache.product.vendors
Used == InUse(cache.preps, cache.serving)

\* The report of each record is attached.
Attached(records) == \A d \in DOMAIN records : <<d, records[d]>> \in reports

\* Every image in use has a record, as far as the status lists them.
Covers(records) ==
  Cardinality(DOMAIN records) < MaxImageScans => Used \subseteq DOMAIN records

\* No record is of a scan that was not reported.
Reported ==
  /\ Attached(product.status.records) /\ Attached(cache.product.status.records)
  /\ pass # None => /\ Attached(pass.product.status.records)
                    /\ Attached(pass.records) /\ Attached(pass.status.records)

\* Each image in use has a young scan, is to be scanned or was not to be scanned.
Accounted ==
  /\ DOMAIN pass.records \cup Left \subseteq Used
  /\ pass.pc = "Call" => pass.due = {}
  /\ \A d \in Used :
       \/ d \in DOMAIN pass.records /\ pass.records[d] + pass.interval > pass.at
       \/ d \in Left
       \/ pass.pc = "Call" /\ d \in pass.failures

\* What the pass writes: the status goes, or lists what was scanned, and the pass
\* is made again before the first of the scans is an interval old.
Concluded ==
  IF Off THEN pass.status = Unscanned
  ELSE pass.again # 0 =>
         /\ pass.status.scanned # None /\ pass.again # None
         /\ Covers(pass.status.records)
         /\ \A d \in DOMAIN pass.status.records :
              pass.at + pass.again <= pass.status.records[d] + cache.kitchen

\* A pass that nothing queued again judges by what the caches still hold.
PassSettles ==
  /\ now <= pass.at + MaxPass
  /\ ~ queued => pass.product.vendors = cache.product.vendors
  /\ ~ queued /\ pass.pc # "Patch" /\ cache.product.vendors => pass.interval = cache.kitchen
  /\ ~ queued /\ pass.pc \in {"Confirm", "Prepare", "Call"} => ~ Off /\ Accounted
  /\ ~ queued /\ pass.pc = "Patch" => Concluded

\* What the last pass left, and when the next one comes.
Rests ==
  IF Off THEN product.status = Unscanned
  ELSE /\ product.status.scanned # None /\ timer # None
       /\ Covers(product.status.records)
       /\ \A d \in DOMAIN product.status.records :
            timer <= product.status.records[d] + cache.kitchen + MaxPass

Settling ==
  /\ Reported
  /\ pass # None => PassSettles
  /\ ~ queued /\ pass = None /\ ~ unsaid => Rests

\* The records that are listed are records there are; fewer than fit are all.
LEMMA LatestGives ==
  ASSUME NEW r \in Records, NEW q \in Latest(r)
  PROVE  /\ DOMAIN q \subseteq DOMAIN r
         /\ \A d \in DOMAIN q : q[d] = r[d]
         /\ Cardinality(DOMAIN q) < MaxImageScans => DOMAIN q = DOMAIN r
<1>1. PICK D \in SUBSET Digests : r \in [D -> Nat]
  BY DEF Records
<1>2. PICK E \in SUBSET DOMAIN r :
        /\ q = Restrict(r, E)
        /\ Cardinality(E) = Min({Cardinality(DOMAIN r), MaxImageScans})
  BY DEF Latest
<1>3. DOMAIN q = E /\ \A d \in E : q[d] = r[d]
  BY <1>2 DEF Restrict
<1>4. IsFiniteSet(DOMAIN r) /\ Cardinality(DOMAIN r) \in Nat
  <2>1. IsFiniteSet(DOMAIN r)
    BY <1>1, ScanAssumption, FS_Subset
  <2> QED BY <2>1, FS_CardinalityType
<1> DEFINE S == {Cardinality(DOMAIN r), MaxImageScans}
<1>5. S \in SUBSET Int /\ S # {} /\ \A x \in S : 0 <= x
  BY <1>4, ScanAssumption
<1>6. Min(S) \in S
  <2> HIDE DEF S
  <2> QED BY <1>5, MinExists
<1>7. Cardinality(E) < MaxImageScans => Cardinality(DOMAIN r) = Cardinality(E)
  BY <1>2, <1>4, <1>6, ScanAssumption
<1>8. Cardinality(E) < MaxImageScans => DOMAIN r = E
  BY <1>4, <1>7, FS_Subset
<1> QED BY <1>3, <1>8

\* While no scan is due, the next is due no later than the first gets due.
LEMMA NextScanSoon ==
  ASSUME NEW r \in Records, NEW i \in Nat \ {0}, NEW t \in Nat,
         \A d \in DOMAIN r : r[d] + i > t
  PROVE  /\ NextScan(r, i, t) \in Nat \ {0}
         /\ \A d \in DOMAIN r : t + NextScan(r, i, t) <= r[d] + i
<1> DEFINE S == {i} \cup {r[d] + i - t : d \in DOMAIN r}
           n == NextScan(r, i, t)
<1>1. \A d \in DOMAIN r : r[d] \in Nat
  BY DEF Records
<1>2. S \in SUBSET Int /\ S # {} /\ \A x \in S : 1 <= x
  BY <1>1
<1>3. \A d \in DOMAIN r : r[d] + i - t \in S
  OBVIOUS
<1>4. n = Max({1, Min(S)})
  BY DEF NextScan
<1> HIDE DEF S, n
<1>5. Min(S) \in S /\ \A x \in S : Min(S) <= x
  BY <1>2, MinExists
<1>6. Min(S) \in Int /\ Min(S) >= 1
  BY <1>2, <1>5
<1>7. n = Min(S)
  BY <1>4, <1>6 DEF Max
<1>8. \A d \in DOMAIN r : n <= r[d] + i - t
  BY <1>3, <1>5, <1>7
<1>9. n \in Nat \ {0}
  BY <1>6, <1>7
<1> QED BY <1>1, <1>8, <1>9 DEF n

\* What a pass leaves to write when it concludes.
LEMMA ConcludeLeaves ==
  ASSUME TypeOK, pass # None, NEW p \in Passes, p.product = pass.product,
         NEW reason \in Reasons \cup {None},
         NEW again \in Nat \cup {None}, Conclude(p, reason, again)
  PROVE  /\ pass'.at = p.at /\ pass'.again = again /\ pass'.records = NoRecords
         /\ pass'.status.scanned # None
         /\ \A d \in DOMAIN pass'.status.records :
              d \in DOMAIN p.records /\ pass'.status.records[d] = p.records[d]
         /\ Cardinality(DOMAIN pass'.status.records) < MaxImageScans =>
              DOMAIN p.records \subseteq DOMAIN pass'.status.records
<1> DEFINE listed == Status.listed \/ p.records # NoRecords
<1>1. PICK records \in Latest(p.records) :
        LET status == [listed |-> listed, records |-> IF listed THEN records ELSE NoRecords,
                       database |-> p.status.database, scanned |-> None]
            verdict == IF reason = None THEN Health(p.failures, status, p.interval, p.at)
                       ELSE reason
        IN  pass' = [NoPass EXCEPT !.pc = "Patch", !.product = p.product, !.at = p.at,
                       !.again = again, !.status = [status EXCEPT !.scanned = verdict]]
  BY DEF Conclude
<1> DEFINE left == IF listed THEN records ELSE NoRecords
           status == [listed |-> listed, records |-> left,
                      database |-> p.status.database, scanned |-> None]
           verdict == IF reason = None THEN Health(p.failures, status, p.interval, p.at)
                      ELSE reason
           final == [status EXCEPT !.scanned = verdict]
<1>2. verdict # None
  <2>1. \A x : x \in Reasons => x # None
    BY NoneAssumption
  <2>2. Health(p.failures, status, p.interval, p.at) \in Reasons
    BY DEF Health, Reasons
  <2> QED BY <2>1, <2>2
<1>3. final.scanned = verdict /\ final.records = left
  OBVIOUS
<1> HIDE DEF verdict
<1>4. pass' = [NoPass EXCEPT !.pc = "Patch", !.product = p.product, !.at = p.at,
                 !.again = again, !.status = final]
  BY <1>1 DEF verdict
<1> HIDE DEF final
<1>5. /\ pass'.at = p.at /\ pass'.again = again /\ pass'.records = NoRecords
      /\ pass'.status = final
  BY <1>4 DEF NoPass
<1>6. p.records \in Records
  BY DEF Passes
<1>7. CASE listed
  <2>1. left = records
    BY <1>7
  <2> QED BY <1>2, <1>3, <1>5, <1>6, <2>1, LatestGives
<1>8. CASE ~ listed
  <2>1. left = NoRecords /\ p.records = NoRecords
    BY <1>8
  <2> QED BY <1>2, <1>3, <1>5, <2>1
<1> QED BY <1>7, <1>8

\* A step that nothing of this depends on.
LEMMA OtherSettling ==
  ASSUME Settling, UNCHANGED <<now, cache, queued, timer, pass, unsaid, reports>>,
         product'.status = product.status
  PROVE  Settling'
BY DEF Settling, Reported, Attached, PassSettles, Rests, Off, Used, Covers, Accounted,
       Concluded, Left

\* A delivery that wakes the controller, whatever arrives.
LEMMA WakeSettling ==
  ASSUME Settling, UNCHANGED <<now, product, reports, pass>>, queued' = TRUE,
         cache'.product \in {cache.product, product}
  PROVE  Settling'
BY DEF Settling, Reported, Attached, PassSettles

\* What ends a pass and has it made again.
LEMMA AgainSettling ==
  ASSUME Settling, UNCHANGED <<cache, reports>>, pass' = None, queued' = TRUE,
         Attached(product'.status.records)
  PROVE  Settling'
BY DEF Settling, Reported, Attached

\* A pass that begins, or ends without a scan, is one.
LEMMA PassThere ==
  ASSUME NEW t \in Nat, NEW c \in Products, NEW i \in Intervals \cup {None}
  PROVE  /\ [NoPass EXCEPT !.product = c, !.interval = i, !.at = t] # None
         /\ [NoPass EXCEPT !.pc = "Patch", !.product = c, !.at = t] # None
<1>1. NoRecords \in Records
  <2>1. NoRecords \in [{} -> Nat]
    BY DEF NoRecords
  <2> QED BY <2>1 DEF Records
<1>2. Unscanned \in ScanStatuses
  BY <1>1 DEF Unscanned, ScanStatuses
<1>3. /\ [NoPass EXCEPT !.product = c, !.interval = i, !.at = t] \in Passes
      /\ [NoPass EXCEPT !.pc = "Patch", !.product = c, !.at = t] \in Passes
  BY <1>1, <1>2 DEF NoPass, Passes
<1> QED BY <1>3, NoneAssumption

LEMMA TakeSettling ==
  ASSUME Inductive, Settling, Take
  PROVE  Settling'
<1>1. pass' = [NoPass EXCEPT !.product = cache.product, !.interval = cache.kitchen, !.at = now]
      /\ UNCHANGED <<now, product, cache, reports>>
  BY DEF Take, registry
<1>2. /\ pass'.pc = "Look" /\ pass'.product = cache.product /\ pass'.interval = cache.kitchen
      /\ pass'.at = now /\ pass'.records = NoRecords /\ pass'.status = Unscanned
  BY <1>1 DEF NoPass
<1>3. DOMAIN NoRecords = {} /\ Unscanned.records = NoRecords
  BY DEF NoRecords, Unscanned
<1>4. pass' # None
  <2>1. now \in Nat /\ cache.product \in Products /\ cache.kitchen \in Intervals \cup {None}
    BY DEF Inductive, TypeOK
  <2> QED BY <1>1, <2>1, PassThere
<1>5. now \in Nat /\ MaxPass \in Nat
  BY ScanAssumption DEF Inductive, TypeOK
<1>6. Reported'
  BY <1>1, <1>2, <1>3 DEF Settling, Reported, Attached
<1>7. PassSettles'
  BY <1>1, <1>2, <1>5 DEF PassSettles
<1> QED BY <1>4, <1>6, <1>7 DEF Settling

\* A pass that concludes leaves what lists the scans it accounts for, unless it
\* is made again at once.
LEMMA ConcludeSettling ==
  ASSUME Inductive, Settling, pass # None,
         UNCHANGED <<now, product, cache, reports, queued>>,
         NEW p \in Passes, p.product = pass.product, Attached(p.records),
         now <= p.at + MaxPass,
         NEW reason \in Reasons \cup {None},
         NEW again \in Nat \cup {None}, Conclude(p, reason, again),
         ~ queued => ~ Off,
         ~ queued /\ again # 0 =>
           /\ again = NextScan(p.records, p.interval, p.at)
           /\ p.interval = cache.kitchen
           /\ Used = DOMAIN p.records
           /\ \A d \in DOMAIN p.records : p.records[d] + p.interval > p.at
  PROVE  Settling'
<1>1. TypeOK /\ pass \in Passes /\ PassSettles /\ Reported
  BY InPass DEF Settling
<1>2. /\ pass' \in Passes /\ pass'.pc = "Patch" /\ pass'.product = pass.product
  BY <1>1, ConcludeGives
<1>3. /\ pass'.at = p.at /\ pass'.again = again /\ pass'.records = NoRecords
      /\ pass'.status.scanned # None
      /\ \A d \in DOMAIN pass'.status.records :
           d \in DOMAIN p.records /\ pass'.status.records[d] = p.records[d]
      /\ Cardinality(DOMAIN pass'.status.records) < MaxImageScans =>
           DOMAIN p.records \subseteq DOMAIN pass'.status.records
  BY <1>1, ConcludeLeaves
<1>4. pass' # None
  BY <1>2, NoneAssumption
<1>5. Reported'
  <2>1. DOMAIN NoRecords = {}
    BY DEF NoRecords
  <2> QED BY <1>1, <1>2, <1>3, <2>1 DEF Reported, Attached
<1>6. ASSUME ~ queued PROVE Concluded'
  <2>1. ~ Off' /\ ~ Off
    BY <1>6 DEF Off
  <2> SUFFICES ASSUME again # 0
               PROVE  /\ again # None /\ Covers(pass'.status.records)
                      /\ \A d \in DOMAIN pass'.status.records :
                           p.at + again <= pass'.status.records[d] + cache.kitchen
    BY <1>3, <2>1 DEF Concluded, Covers, Used
  <2>2. p.records \in Records /\ p.at \in Nat
    BY DEF Passes
  <2>3. p.interval \in Nat \ {0}
    BY <1>1, <1>6, <2>1, ScanAssumption DEF Off, TypeOK
  <2>4. /\ again \in Nat \ {0}
        /\ \A d \in DOMAIN p.records : p.at + again <= p.records[d] + p.interval
    BY <1>6, <2>2, <2>3, NextScanSoon
  <2>5. again # None
    BY <2>4, NoneAssumption
  <2>6. Covers(pass'.status.records)
    BY <1>3, <1>6 DEF Covers
  <2> QED BY <1>3, <1>6, <2>4, <2>5, <2>6
<1>7. PassSettles'
  BY <1>1, <1>2, <1>3, <1>6 DEF PassSettles
<1> QED BY <1>4, <1>5, <1>7 DEF Settling

\* What judges nothing due was made of the images in use.
LEMMA LookAtUseSettling ==
  ASSUME Inductive, Settling, LookAtUse
  PROVE  Settling'
<1> DEFINE off     == pass.interval = None \/ ~ pass.product.vendors
           inUse   == InUse(cache.preps, cache.serving)
           records == Restrict(Status.records, DOMAIN Status.records \cap inUse)
           due     == Due(inUse, records, pass.interval, now)
           looked  == [pass EXCEPT !.at = now, !.records = records, !.due = due,
                                   !.status = Status]
<1>1. /\ TypeOK /\ pass # None /\ pass \in Passes /\ PassGood /\ pass.pc = "Look"
      /\ pass.product \in Products /\ PassSettles /\ Reported
      /\ now \in Nat /\ MaxPass \in Nat
  BY InPass, ScanAssumption DEF LookAtUse, Passes, Settling, TypeOK
<1>2. UNCHANGED <<now, preps, serving, kitchen, built, product, cache, own, reports,
                  queued, timer, unsaid, edits>>
  BY DEF LookAtUse, world, registry
<1>3. inUse \subseteq Digests
  BY <1>1, InUseType DEF TypeOK
<1>4. /\ records \in Records /\ DOMAIN records = DOMAIN Status.records \cap inUse
      /\ \A d \in DOMAIN records : records[d] = Status.records[d]
      /\ Status \in ScanStatuses
  <2>1. Status \in ScanStatuses /\ Status.records \in Records
    BY <1>1 DEF Status, Products, ScanStatuses
  <2>2. PICK D \in SUBSET Digests : Status.records \in [D -> Nat]
    BY <2>1 DEF Records
  <2>3. records \in [D \cap inUse -> Nat]
    BY <2>2 DEF Restrict
  <2> QED BY <2>1, <2>2, <2>3 DEF Records, Restrict
<1>5. due = {d \in inUse : d \in DOMAIN records => records[d] + pass.interval <= now}
  BY DEF Due
<1>6. Attached(records) /\ Attached(Status.records)
  BY <1>1, <1>4 DEF Reported, Attached, Status
<1>7. ~ queued => (off <=> Off)
  BY <1>1 DEF PassSettles, Off
<1>8. Used = inUse
  BY DEF Used
<1>9. ~ off => pass.interval \in Nat \ {0}
  BY <1>1, ScanAssumption DEF Passes
<1>10. ~ queued /\ ~ off => pass.interval = cache.kitchen
  BY <1>1 DEF PassSettles
<1> HIDE DEF inUse, records
<1>11. \A d \in inUse : d \in due \/ (d \in DOMAIN records /\ records[d] + pass.interval > now) \/ off
  BY <1>1, <1>4, <1>5, <1>9 DEF Records
<1>12. due \subseteq inUse
  BY <1>5
<1> HIDE DEF due, off
<1>13. /\ looked \in Passes /\ looked.product = pass.product /\ looked.due = due
       /\ looked.at = now /\ looked.interval = pass.interval /\ looked.pc = pass.pc
       /\ looked.records = records /\ looked.failures = pass.failures
       /\ looked.status = Status
  BY <1>1, <1>3, <1>4, <1>12 DEF Passes, TypeOK
<1> HIDE DEF looked
<1>14. CASE off /\ pass' = [NoPass EXCEPT !.pc = "Patch", !.product = pass.product, !.at = now]
  <2>1. /\ pass'.pc = "Patch" /\ pass'.product = pass.product /\ pass'.at = now
        /\ pass'.status = Unscanned /\ pass'.records = NoRecords
    BY <1>14 DEF NoPass
  <2>2. DOMAIN NoRecords = {} /\ Unscanned.records = NoRecords
    BY DEF NoRecords, Unscanned
  <2>3. Reported'
    BY <1>1, <1>2, <2>1, <2>2 DEF Reported, Attached
  <2>4. ~ queued => Off' /\ Concluded'
    BY <1>2, <1>7, <1>14, <2>1 DEF Off, Concluded
  <2>5. PassSettles'
    BY <1>1, <1>2, <2>1, <2>4 DEF PassSettles
  <2>6. pass' # None
    BY <1>1, <1>14, PassThere
  <2> QED BY <2>3, <2>5, <2>6 DEF Settling
<1>15. CASE ~ off /\ pass' = [looked EXCEPT !.pc = "Confirm"]
  <2>1. /\ pass' \in Passes /\ pass'.pc = "Confirm" /\ pass'.product = pass.product
        /\ pass'.due = due /\ pass'.at = now /\ pass'.interval = pass.interval
        /\ pass'.records = records /\ pass'.status = Status
        /\ pass'.todo = {} /\ pass'.got = {}
    <3>1. looked.todo = {} /\ looked.got = {}
      BY <1>1 DEF PassGood, looked
    <3> QED BY <1>13, <1>15, <3>1 DEF Passes
  <2>2. pass' # None
    BY <2>1, NoneAssumption
  <2>3. Reported'
    BY <1>1, <1>2, <1>6, <2>1 DEF Reported, Attached
  <2>4. Accounted'
    BY <1>2, <1>4, <1>8, <1>11, <1>12, <1>15, <2>1 DEF Accounted, Left, Used
  <2>5. ~ queued => ~ Off'
    BY <1>2, <1>7, <1>15 DEF Off
  <2>6. PassSettles'
    BY <1>1, <1>2, <1>10, <1>15, <2>1, <2>4, <2>5 DEF PassSettles
  <2> QED BY <2>2, <2>3, <2>6 DEF Settling
<1>16. CASE ~ off /\ looked.due = {} /\ Conclude(looked, None, NextPass(looked))
  <2>1. NextPass(looked) \in Nat
    BY <1>1, <1>4, <1>9, <1>13, <1>16, NextScanType DEF NextPass
  <2>2. ~ queued => ~ Off
    BY <1>7, <1>16
  <2>3. \A d \in inUse : d \in DOMAIN records /\ records[d] + pass.interval > now
    BY <1>11, <1>13, <1>16
  <2>4. Used = DOMAIN looked.records
    BY <1>4, <1>8, <1>13, <2>3
  <2>5. \A d \in DOMAIN looked.records : looked.records[d] + looked.interval > looked.at
    BY <1>4, <1>13, <2>3
  <2>6. NextPass(looked) # 0 => NextPass(looked) = NextScan(looked.records, looked.interval, looked.at)
    BY DEF NextPass
  <2>7. now <= looked.at + MaxPass /\ Attached(looked.records)
    BY <1>1, <1>6, <1>13
  <2>8. ~ queued => looked.interval = cache.kitchen
    BY <1>10, <1>13, <1>16
  <2>9. None \in Reasons \cup {None} /\ NextPass(looked) \in Nat \cup {None}
    BY <2>1
  <2>10. ~ queued /\ NextPass(looked) # 0 =>
           /\ NextPass(looked) = NextScan(looked.records, looked.interval, looked.at)
           /\ looked.interval = cache.kitchen
           /\ Used = DOMAIN looked.records
           /\ \A d \in DOMAIN looked.records : looked.records[d] + looked.interval > looked.at
    BY <2>4, <2>5, <2>6, <2>8
  <2>11. Conclude(looked, None, NextPass(looked))
    BY <1>16
  <2> QED BY <1>1, <1>2, <1>13, <2>2, <2>7, <2>9, <2>10, <2>11, ConcludeSettling
<1> QED
  BY <1>14, <1>15, <1>16 DEF LookAtUse, looked, due, records, inUse, off

\* A step between the confirmation and the last report: each image stays
\* accounted for, and what it reports is attached.
LEMMA WorkSettling ==
  ASSUME Inductive, Settling, pass # None, pass.pc \in {"Confirm", "Prepare", "Call"},
         UNCHANGED <<now, cache, queued, timer, unsaid, product>>,
         reports \subseteq reports',
         pass' \in Passes, pass'.pc \in {"Prepare", "Call"}, pass'.product = pass.product,
         pass'.interval = pass.interval, pass'.at = pass.at,
         pass'.status.records = pass.status.records, Attached(pass.records)',
         ~ queued => Accounted'
  PROVE  Settling'
<1>1. PassSettles /\ Reported
  BY DEF Settling
<1>2. pass' # None
  BY NoneAssumption
<1>3. Reported'
  BY <1>1 DEF Reported, Attached
<1>4. PassSettles'
  BY <1>1 DEF PassSettles, Off
<1> QED BY <1>2, <1>3, <1>4 DEF Settling

LEMMA ConfirmSettling ==
  ASSUME Inductive, Settling, Confirm
  PROVE  Settling'
<1>1. /\ TypeOK /\ pass \in Passes /\ PassGood /\ pass.pc = "Confirm" /\ pass # None
      /\ PassSettles /\ Reported
  BY InPass DEF Confirm, Settling
<1>2. UNCHANGED <<now, product, cache, reports, timer, unsaid>>
  BY DEF Confirm, registry
<1>3. CASE pass' = [pass EXCEPT !.pc = "Prepare"] /\ UNCHANGED queued
  <2>1. /\ pass' \in Passes /\ pass'.pc = "Prepare" /\ pass'.product = pass.product
        /\ pass'.due = pass.due /\ pass'.at = pass.at /\ pass'.interval = pass.interval
        /\ pass'.got = pass.got /\ pass'.todo = pass.todo /\ pass'.records = pass.records
        /\ pass'.failures = pass.failures /\ pass'.status = pass.status
    BY <1>1, <1>3 DEF Passes
  <2>2. Attached(pass.records)'
    BY <1>1, <1>2, <2>1 DEF Reported, Attached
  <2>3. ~ queued => Accounted'
    BY <1>1, <1>2, <2>1 DEF PassSettles, Accounted, Left, Used
  <2> QED BY <1>1, <1>2, <1>3, <2>1, <2>2, <2>3, WorkSettling
<1>4. CASE pass' = None /\ queued' = TRUE
  BY <1>1, <1>2, <1>4, AgainSettling DEF Reported
<1> QED BY <1>3, <1>4 DEF Confirm

LEMMA PrepareSettling ==
  ASSUME Inductive, Settling, Prepare
  PROVE  Settling'
<1>1. /\ TypeOK /\ pass \in Passes /\ PassGood /\ pass.pc = "Prepare" /\ pass # None
      /\ pass.todo = {} /\ pass.got = {} /\ PassSettles /\ Reported
  BY InPass DEF Prepare, PassGood, Settling
<1>2. UNCHANGED <<now, product, cache, reports, queued, timer, unsaid>>
  BY DEF Prepare, registry
<1>3. CASE \E reason \in {"SigningKeyNotReady", "ScanFailed"} : Conclude(pass, reason, 0)
  <2>1. PICK reason \in {"SigningKeyNotReady", "ScanFailed"} : Conclude(pass, reason, 0)
    BY <1>3
  <2>2. reason \in Reasons \cup {None} /\ 0 \in Nat \cup {None}
    BY DEF Reasons
  <2>3. Attached(pass.records) /\ now <= pass.at + MaxPass /\ (~ queued => ~ Off)
    BY <1>1 DEF Reported, PassSettles
  <2> QED BY <1>1, <1>2, <2>1, <2>2, <2>3, ConcludeSettling
<1>4. CASE \E refused \in SUBSET pass.due :
             pass' = [pass EXCEPT !.pc = "Call", !.due = {}, !.todo = pass.due \ refused,
                                  !.failures = refused, !.database = built]
  <2>1. PICK refused \in SUBSET pass.due :
          pass' = [pass EXCEPT !.pc = "Call", !.due = {}, !.todo = pass.due \ refused,
                               !.failures = refused, !.database = built]
    BY <1>4
  <2>2. /\ pass' \in Passes /\ pass'.pc = "Call" /\ pass'.product = pass.product
        /\ pass'.at = pass.at /\ pass'.interval = pass.interval
        /\ pass'.due = {} /\ pass'.todo = pass.due \ refused /\ pass'.got = {}
        /\ pass'.failures = refused
        /\ pass'.records = pass.records /\ pass'.status = pass.status
    BY <1>1, <2>1 DEF Passes, TypeOK
  <2>3. Attached(pass.records)'
    BY <1>1, <1>2, <2>2 DEF Reported, Attached
  <2>4. ~ queued => Accounted'
    BY <1>1, <1>2, <2>2 DEF PassSettles, Accounted, Left, Used
  <2> QED BY <1>1, <1>2, <2>2, <2>3, <2>4, WorkSettling
<1> QED BY <1>3, <1>4 DEF Prepare

LEMMA CallSettling ==
  ASSUME Inductive, Settling, Call
  PROVE  Settling'
<1>1. /\ TypeOK /\ pass \in Passes /\ PassGood /\ pass.pc = "Call" /\ pass # None
      /\ pass.got = {} /\ PassSettles /\ Reported
  BY InPass DEF Call, Settling
<1>2. UNCHANGED <<now, product, cache, reports, queued, timer, unsaid>>
  BY DEF Call, registry
<1>3. PICK t \in {TargetOf[d] : d \in pass.todo} :
        LET images == {d \in pass.todo : TargetOf[d] = t}
        IN \/ \E reason \in {"ScannerUnavailable", "ScanFailed"} : Conclude(pass, reason, 0)
           \/ \E failed \in SUBSET images :
                pass' = [pass EXCEPT !.todo = @ \ images, !.got = images \ failed,
                           !.found = Find(images \ failed), !.failures = @ \cup failed]
  BY DEF Call
<1> DEFINE images == {d \in pass.todo : TargetOf[d] = t}
<1>4. CASE \E reason \in {"ScannerUnavailable", "ScanFailed"} : Conclude(pass, reason, 0)
  <2>1. PICK reason \in {"ScannerUnavailable", "ScanFailed"} : Conclude(pass, reason, 0)
    BY <1>4
  <2>2. reason \in Reasons \cup {None} /\ 0 \in Nat \cup {None}
    BY DEF Reasons
  <2>3. Attached(pass.records) /\ now <= pass.at + MaxPass /\ (~ queued => ~ Off)
    BY <1>1 DEF Reported, PassSettles
  <2> QED BY <1>1, <1>2, <2>1, <2>2, <2>3, ConcludeSettling
<1>5. CASE \E failed \in SUBSET images :
             pass' = [pass EXCEPT !.todo = @ \ images, !.got = images \ failed,
                        !.found = Find(images \ failed), !.failures = @ \cup failed]
  <2>1. PICK failed \in SUBSET images :
             pass' = [pass EXCEPT !.todo = @ \ images, !.got = images \ failed,
                        !.found = Find(images \ failed), !.failures = @ \cup failed]
    BY <1>5
  <2>2. images \subseteq pass.todo /\ Find(images \ failed) \subseteq images
    BY DEF Find
  <2> HIDE DEF images
  <2>3. /\ pass' \in Passes /\ pass'.pc = "Call" /\ pass'.product = pass.product
        /\ pass'.at = pass.at /\ pass'.interval = pass.interval
        /\ pass'.due = pass.due /\ pass'.todo = pass.todo \ images
        /\ pass'.got = images \ failed /\ pass'.failures = pass.failures \cup failed
        /\ pass'.records = pass.records /\ pass'.status = pass.status
    BY <1>1, <2>1, <2>2 DEF Passes
  <2>4. Attached(pass.records)'
    BY <1>1, <1>2, <2>3 DEF Reported, Attached
  <2>5. ~ queued => Accounted'
    BY <1>1, <1>2, <2>2, <2>3 DEF PassSettles, Accounted, Left, Used
  <2> QED BY <1>1, <1>2, <2>3, <2>4, <2>5, WorkSettling
<1> QED BY <1>3, <1>4, <1>5

LEMMA AttachSBOMSettling ==
  ASSUME Inductive, Settling, AttachSBOM
  PROVE  Settling'
<1>1. /\ TypeOK /\ pass \in Passes /\ pass.pc = "Call" /\ pass # None
      /\ PassSettles /\ Reported
  BY InPass DEF AttachSBOM, Settling
<1>2. UNCHANGED <<now, product, cache, reports, queued, timer, unsaid>>
  BY DEF AttachSBOM
<1>3. PICK d \in pass.got \ pass.found, failed \in BOOLEAN :
        pass' = IF failed THEN [pass EXCEPT !.got = @ \ {d}, !.failures = @ \cup {d}]
                 ELSE [pass EXCEPT !.found = @ \cup {d}]
  BY DEF AttachSBOM
<1>4. d \in Digests
  BY <1>1 DEF Passes
<1>5. /\ pass' \in Passes /\ pass'.pc = "Call" /\ pass'.product = pass.product
      /\ pass'.at = pass.at /\ pass'.interval = pass.interval
      /\ pass'.due = pass.due /\ pass'.todo = pass.todo
      /\ pass'.records = pass.records /\ pass'.status = pass.status
      /\ pass'.got \subseteq pass.got /\ pass.got \subseteq pass'.got \cup pass'.failures
      /\ pass.failures \subseteq pass'.failures
  BY <1>1, <1>3, <1>4 DEF Passes
<1>6. Attached(pass.records)'
  BY <1>1, <1>2, <1>5 DEF Reported, Attached
<1>7. ~ queued => Accounted'
  BY <1>1, <1>2, <1>5 DEF PassSettles, Accounted, Left, Used
<1> QED BY <1>1, <1>2, <1>5, <1>6, <1>7, WorkSettling

\* The record of a scan is of now, and its report is there.
LEMMA AttachReportSettling ==
  ASSUME Inductive, Settling, AttachReport
  PROVE  Settling'
<1>1. /\ TypeOK /\ pass \in Passes /\ PassGood /\ pass.pc = "Call" /\ pass # None
      /\ PassSettles /\ Reported
  BY InPass DEF AttachReport, Settling
<1>2. UNCHANGED <<now, product, cache, queued, timer, unsaid>>
  BY DEF AttachReport
<1>3. PICK d \in pass.got \cap pass.found, failed \in BOOLEAN :
        /\ reports' = IF failed THEN reports ELSE reports \cup {<<d, pass.at>>}
        /\ pass' = IF failed THEN [pass EXCEPT !.got = @ \ {d}, !.failures = @ \cup {d}]
                    ELSE [pass EXCEPT !.got = @ \ {d}, !.records = Recorded(@, d, pass.at),
                            !.status.database = pass.database]
  BY DEF AttachReport
<1>4. d \in Digests /\ pass.at \in Nat /\ pass.interval \in Nat \ {0}
  BY <1>1, ScanAssumption DEF Passes, PassGood
<1>5. pass' \in Passes
  <2>1. Recorded(pass.records, d, pass.at) \in Records
    <3>1. PICK D \in SUBSET Digests : pass.records \in [D -> Nat]
      BY <1>1 DEF Passes, Records
    <3>2. Recorded(pass.records, d, pass.at) \in [{d} \cup D -> Nat]
      BY <1>4, <3>1 DEF Recorded
    <3> QED BY <1>4, <3>2 DEF Records
  <2>2. [pass.status EXCEPT !.database = pass.database] \in ScanStatuses
    BY <1>1 DEF Passes, ScanStatuses
  <2>3. CASE failed
    BY <1>1, <1>3, <1>4, <2>3 DEF Passes
  <2>4. CASE ~ failed
    <3>1. pass' = [pass EXCEPT !.got = @ \ {d}, !.records = Recorded(@, d, pass.at),
                     !.status = [pass.status EXCEPT !.database = pass.database]]
      BY <1>3, <2>4
    <3> QED BY <1>1, <2>1, <2>2, <3>1 DEF Passes
  <2> QED BY <2>3, <2>4
<1>6. CASE failed
  <2>1. /\ pass'.pc = "Call" /\ pass'.product = pass.product
        /\ pass'.at = pass.at /\ pass'.interval = pass.interval
        /\ pass'.due = pass.due /\ pass'.todo = pass.todo
        /\ pass'.records = pass.records /\ pass'.status = pass.status
        /\ pass'.got = pass.got \ {d} /\ pass'.failures = pass.failures \cup {d}
        /\ reports' = reports
    BY <1>1, <1>3, <1>6 DEF Passes
  <2>2. Attached(pass.records)'
    BY <1>1, <2>1 DEF Reported, Attached
  <2>3. ~ queued => Accounted'
    BY <1>1, <1>2, <2>1 DEF PassSettles, Accounted, Left, Used
  <2> QED BY <1>1, <1>2, <1>5, <2>1, <2>2, <2>3, WorkSettling
<1>7. CASE ~ failed
  <2>1. pass' = [pass EXCEPT !.got = @ \ {d}, !.records = Recorded(@, d, pass.at),
                   !.status = [pass.status EXCEPT !.database = pass.database]]
    BY <1>3, <1>7
  <2>2. /\ pass'.pc = "Call" /\ pass'.product = pass.product
        /\ pass'.at = pass.at /\ pass'.interval = pass.interval
        /\ pass'.due = pass.due /\ pass'.todo = pass.todo
        /\ pass'.records = Recorded(pass.records, d, pass.at)
        /\ pass'.status.records = pass.status.records
        /\ pass'.got = pass.got \ {d} /\ pass'.failures = pass.failures
        /\ reports' = reports \cup {<<d, pass.at>>}
    BY <1>1, <1>3, <1>7, <2>1 DEF Passes, ScanStatuses
  <2>3. /\ DOMAIN pass'.records = {d} \cup DOMAIN pass.records
        /\ pass'.records[d] = pass.at
        /\ \A e \in DOMAIN pass.records : e # d => pass'.records[e] = pass.records[e]
    BY <2>2 DEF Recorded
  <2>4. Attached(pass.records)'
    BY <1>1, <2>2, <2>3 DEF Reported, Attached
  <2>5. ~ queued => Accounted'
    <3>1. pass.at + pass.interval > pass.at
      BY <1>4
    <3> QED BY <1>1, <1>2, <2>2, <2>3, <3>1 DEF PassSettles, Accounted, Left, Used
  <2> QED BY <1>1, <1>2, <1>5, <2>2, <2>4, <2>5, WorkSettling
<1> QED BY <1>6, <1>7

LEMMA ScanDoneSettling ==
  ASSUME Inductive, Settling, ScanDone
  PROVE  Settling'
<1>1. /\ TypeOK /\ pass \in Passes /\ PassGood /\ pass.pc = "Call" /\ pass # None
      /\ pass.todo = {} /\ pass.got = {} /\ PassSettles /\ Reported
      /\ Conclude(pass, None, NextPass(pass))
  BY InPass DEF ScanDone, Settling
<1>2. UNCHANGED <<now, product, cache, reports, queued>>
  BY DEF ScanDone, registry
<1>3. pass.interval \in Nat \ {0} /\ pass.records \in Records /\ pass.at \in Nat
  BY <1>1, ScanAssumption DEF PassGood, Passes
<1>4. NextPass(pass) \in Nat \cup {None} /\ None \in Reasons \cup {None}
  BY <1>3, NextScanType DEF NextPass
<1>5. Attached(pass.records) /\ now <= pass.at + MaxPass /\ (~ queued => ~ Off)
  BY <1>1 DEF Reported, PassSettles
<1>6. ~ queued /\ NextPass(pass) # 0 =>
        /\ NextPass(pass) = NextScan(pass.records, pass.interval, pass.at)
        /\ pass.interval = cache.kitchen
        /\ Used = DOMAIN pass.records
        /\ \A d \in DOMAIN pass.records : pass.records[d] + pass.interval > pass.at
  <2> SUFFICES ASSUME ~ queued, NextPass(pass) # 0
               PROVE  /\ NextPass(pass) = NextScan(pass.records, pass.interval, pass.at)
                      /\ pass.interval = cache.kitchen
                      /\ Used = DOMAIN pass.records
                      /\ \A d \in DOMAIN pass.records : pass.records[d] + pass.interval > pass.at
    OBVIOUS
  <2>1. pass.failures = {} /\ NextPass(pass) = NextScan(pass.records, pass.interval, pass.at)
    BY DEF NextPass
  <2>2. Accounted /\ pass.interval = cache.kitchen
    BY <1>1 DEF PassSettles, Off
  <2>3. Left = {}
    BY <1>1, <2>2 DEF Accounted, Left
  <2> QED BY <2>1, <2>2, <2>3 DEF Accounted
<1> QED BY <1>1, <1>2, <1>4, <1>5, <1>6, ConcludeSettling

\* What a pass that nothing queued again leaves is what it wrote, or found
\* written; its next pass comes when it asked for one at the latest.
LEMMA PatchSettling ==
  ASSUME Inductive, Settling, Patch \/ PatchFails
  PROVE  Settling'
<1>1. /\ TypeOK /\ pass \in Passes /\ PassGood /\ pass.pc = "Patch" /\ pass # None
      /\ PassSettles /\ Reported /\ product \in Products
  BY InPass DEF Patch, PatchFails, Settling, TypeOK
<1>2. pass' = None /\ UNCHANGED <<now, cache, reports>>
  BY DEF Patch, PatchFails, registry
<1>3. \/ UNCHANGED product
      \/ product' = [product EXCEPT !.rv = @ + 1, !.status = pass.status]
  BY DEF Patch, PatchFails
<1>4. product'.status = product.status \/ product'.status = pass.status
  BY <1>1, <1>3 DEF Products
<1>5. Attached(product'.status.records)
  BY <1>1, <1>4 DEF Reported
<1>6. CASE queued' = TRUE
  BY <1>2, <1>5, <1>6, AgainSettling
<1>7. CASE queued' # TRUE
  <2>1. Requeue(pass.again) \/ Requeue(0) \/ queued' = TRUE
    BY DEF Patch, PatchFails
  <2>2. ~ Requeue(0) /\ Patch /\ Requeue(pass.again) /\ ~ queued /\ pass.again # 0
    BY <1>7, <2>1 DEF Requeue, Patch, PatchFails
  <2>3. Reported'
    BY <1>1, <1>2, <1>5 DEF Reported, Attached
  <2> SUFFICES ASSUME ~ unsaid' PROVE Rests'
    BY <1>2, <2>3 DEF Settling
  <2>4. product'.status = pass.status
    <3>1. CASE pass.status = Status /\ unsaid' = ~ Confirmed /\ UNCHANGED product
      BY <1>1, <3>1 DEF Confirmed, PassGood, CopyOf, Status
    <3>2. CASE product' = [product EXCEPT !.rv = @ + 1, !.status = pass.status]
      BY <1>1, <3>2 DEF Products
    <3> QED BY <2>2, <3>1, <3>2 DEF Patch
  <2>5. Concluded /\ Off' = Off
    BY <1>1, <1>2, <2>2 DEF PassSettles, Off
  <2>6. CASE Off
    BY <2>4, <2>5, <2>6 DEF Concluded, Rests
  <2>7. CASE ~ Off
    <3>1. /\ pass.status.scanned # None /\ pass.again # None
          /\ Covers(pass.status.records)
          /\ \A d \in DOMAIN pass.status.records :
               pass.at + pass.again <= pass.status.records[d] + cache.kitchen
      BY <2>2, <2>5, <2>7 DEF Concluded
    <3>2. timer' = Sooner(now + pass.again)
      BY <2>2, <3>1 DEF Requeue
    <3>3. /\ now \in Nat /\ pass.again \in Nat /\ pass.at \in Nat /\ MaxPass \in Nat
          /\ timer \in Nat \cup {None}
      BY <1>1, <3>1, ScanAssumption DEF Passes, TypeOK
    <3>4. timer' \in Nat /\ timer' <= now + pass.again
      BY <3>2, <3>3, SoonerLeast
    <3>5. timer' # None
      BY <3>4, NoneAssumption
    <3>6. cache.kitchen \in Nat
      BY <1>1, <2>7, ScanAssumption DEF Off, TypeOK
    <3>7. now <= pass.at + MaxPass
      BY <1>1 DEF PassSettles
    <3>8. ASSUME NEW d \in DOMAIN pass.status.records
          PROVE  timer' <= pass.status.records[d] + cache.kitchen + MaxPass
      <4>1. pass.status.records[d] \in Nat
        BY <1>1 DEF Passes, ScanStatuses, Records
      <4>2. pass.at + pass.again <= pass.status.records[d] + cache.kitchen
        BY <3>1
      <4> QED BY <3>3, <3>4, <3>6, <3>7, <4>1, <4>2
    <3>9. Covers(product.status.records)'
      BY <1>2, <2>4, <3>1 DEF Covers, Used
    <3> QED BY <1>2, <2>4, <2>5, <2>7, <3>1, <3>5, <3>8, <3>9 DEF Rests
  <2> QED BY <2>6, <2>7
<1> QED BY <1>6, <1>7

\* What a watch brings without a word changes nothing that was judged.
LEMMA WatchesSettling ==
  ASSUME Inductive, Settling, Watches
  PROVE  Settling'
<1>1. TypeOK /\ queued \in BOOLEAN
  BY DEF Inductive, TypeOK
<1>2. UNCHANGED <<now, product, reports, pass, unsaid>>
  BY DEF Watches, DeliverProduct, DeliverPreps, DeliverServing, DeliverKitchen, TimerFires,
         registry
<1>3. CASE queued' = TRUE
  <2>1. cache'.product \in {cache.product, product}
    BY <1>1 DEF Watches, DeliverProduct, DeliverPreps, DeliverServing, DeliverKitchen,
                TimerFires, TypeOK
  <2> QED BY <1>2, <1>3, <2>1, WakeSettling
<1>4. CASE queued' # TRUE
  <2>1. ~ queued /\ UNCHANGED timer
    BY <1>4 DEF Watches, DeliverProduct, DeliverPreps, DeliverServing, DeliverKitchen,
                TimerFires, ServingWakes
  <2>2. \/ DeliverProduct /\ cache.product.vendors = product.vendors
        \/ DeliverKitchen /\ ~ cache.product.vendors
    BY <1>4 DEF Watches, DeliverProduct, DeliverPreps, DeliverServing, DeliverKitchen,
                TimerFires, ServingWakes
  <2>3. CASE DeliverProduct /\ cache.product.vendors = product.vendors
    <3>1. cache' = [cache EXCEPT !.product = product]
      BY <2>3 DEF DeliverProduct
    <3>2. /\ cache'.product = product /\ cache'.kitchen = cache.kitchen
          /\ cache'.preps = cache.preps /\ cache'.serving = cache.serving
      BY <1>1, <3>1 DEF TypeOK
    <3>3. Off' = Off /\ Used' = Used /\ cache'.product.vendors = cache.product.vendors
      BY <2>3, <3>2 DEF Off, Used
    <3>4. Reported'
      BY <1>2, <3>2 DEF Settling, Reported, Attached
    <3>5. pass # None => PassSettles'
      BY <1>2, <2>1, <3>2, <3>3
         DEF Settling, PassSettles, Accounted, Concluded, Covers, Left
    <3>6. pass = None /\ ~ unsaid => Rests'
      BY <1>2, <2>1, <3>2, <3>3 DEF Settling, Rests, Covers
    <3> QED BY <1>2, <3>4, <3>5, <3>6 DEF Settling
  <2>4. CASE DeliverKitchen /\ ~ cache.product.vendors
    <3>1. cache' = [cache EXCEPT !.kitchen = kitchen]
      BY <2>4 DEF DeliverKitchen
    <3>2. cache'.product = cache.product /\ Off /\ Off'
      BY <1>1, <2>4, <3>1 DEF TypeOK, Off
    <3>3. Reported'
      BY <1>2, <3>2 DEF Settling, Reported, Attached
    <3>4. pass # None => PassSettles'
      BY <1>2, <2>1, <2>4, <3>2 DEF Settling, PassSettles, Concluded
    <3>5. pass = None /\ ~ unsaid => Rests'
      BY <1>2, <2>1, <3>2 DEF Settling, Rests
    <3> QED BY <1>2, <3>3, <3>4, <3>5 DEF Settling
  <2> QED BY <2>2, <2>3, <2>4
<1> QED BY <1>3, <1>4

LEMMA OthersSettling ==
  ASSUME Inductive, Settling, Others
  PROVE  Settling'
<1>1. product \in Products
  BY DEF Inductive, TypeOK
<1>2. CASE Restart
  <2>1. /\ UNCHANGED <<now, product, reports>> /\ cache' = Caught /\ pass' = None
        /\ queued' = TRUE
    BY <1>2 DEF Restart, registry
  <2>2. cache'.product = product
    BY <2>1 DEF Caught
  <2> QED BY <2>1, <2>2 DEF Settling, Reported, Attached
<1>3. CASE ~ Restart
  <2>1. UNCHANGED <<now, cache, queued, timer, pass, unsaid, reports>>
    BY <1>3 DEF Others, PrepChanges, Promote, Deploy, EditKitchen, EditProduct,
                PublishDatabase, registry
  <2>2. UNCHANGED product \/ \E v \in BOOLEAN : product' = [product EXCEPT !.rv = @ + 1, !.vendors = v]
    BY <1>3 DEF Others, PrepChanges, Promote, Deploy, EditKitchen, EditProduct,
                PublishDatabase
  <2>3. product'.status = product.status
    BY <1>1, <2>2 DEF Products
  <2> QED BY <2>1, <2>3, OtherSettling
<1> QED BY <1>2, <1>3

LEMMA TickSettling ==
  ASSUME Inductive, Settling, Tick
  PROVE  Settling'
<1>1. UNCHANGED <<product, cache, reports, queued, timer, pass, unsaid>> /\ now' = now + 1
  BY DEF Tick, registry
<1>2. Reported'
  BY <1>1 DEF Settling, Reported, Attached
<1>3. pass # None => PassSettles'
  <2> SUFFICES ASSUME pass # None PROVE PassSettles'
    OBVIOUS
  <2>1. now \in Nat /\ pass.at \in Nat /\ MaxPass \in Nat /\ now < pass.at + MaxPass
    BY ScanAssumption, InPass DEF Tick, TypeOK, Passes
  <2>2. now' <= pass.at + MaxPass
    BY <1>1, <2>1
  <2> QED BY <1>1, <2>2 DEF Settling, PassSettles, Accounted, Concluded, Covers, Left, Off, Used
<1>4. Rests => Rests'
  BY <1>1 DEF Rests, Covers, Off, Used
<1> QED BY <1>1, <1>2, <1>3, <1>4 DEF Settling

LEMMA InitSettling ==
  ASSUME Init
  PROVE  Settling
<1>1. product.status = Unscanned /\ cache.product = product /\ pass = None /\ queued
  BY DEF Init, Caught
<1>2. DOMAIN Unscanned.records = {}
  BY DEF Unscanned, NoRecords
<1> QED BY <1>1, <1>2 DEF Settling, Reported, Attached

LEMMA NextSettling ==
  ASSUME Inductive, Settling, [Next]_vars
  PROVE  Settling'
<1>1. CASE Reconcile
  BY <1>1, TakeSettling, LookAtUseSettling, ConfirmSettling, PrepareSettling,
     CallSettling, AttachSBOMSettling, AttachReportSettling, ScanDoneSettling,
     PatchSettling DEF Reconcile
<1>2. CASE UNCHANGED vars
  BY <1>2, OtherSettling DEF vars
<1> QED BY <1>1, <1>2, WatchesSettling, OthersSettling, TickSettling DEF Next

-------------------------------------------------------------------------------
(* The theorems.                                                                 *)

\* The inductive invariant holds: a pass that has confirmed its copy of the
\* Product works on the scan status as it is, whatever the caches hold.
THEOREM InductiveHolds == Spec => []Inductive
BY InitInductive, NextInductive, PTL DEF Spec

\* Every variable has its type, for any images, releases and bounds.
THEOREM TypeCorrect == Spec => []TypeOK
<1>1. Inductive => TypeOK
  BY DEF Inductive
<1> QED BY <1>1, InductiveHolds, PTL

\* An image gets one SBOM of Kokumi at most and none that its publisher
\* supplied, although scans fail and die between the SBOM and the report.
THEOREM OneSBOMHolds == Spec => []OneSBOM
<1>1. Inductive => OneSBOM
  BY DEF Inductive
<1> QED BY <1>1, InductiveHolds, PTL

\* No image is scanned again before an interval has passed since the scan that
\* the Product records, however late the caches are.
THEOREM NoRescanHolds == Spec => NoRescan
<1> DEFINE A == \A d \in Digests :
                  (\E r \in reports' \ reports : r[1] = d) /\ d \in DOMAIN product.status.records
                    => product.status.records[d] + pass.interval <= pass.at
<1>1. ASSUME Inductive, [Next]_vars
      PROVE  [A]_vars
  <2>1. CASE AttachReport
    <3>1. /\ pass # None /\ pass.pc = "Call"
          /\ \E e \in pass.got \cap pass.found :
               reports' = reports \/ reports' = reports \cup {<<e, pass.at>>}
      BY <2>1 DEF AttachReport
    <3>2. PassGood
      BY <1>1, <3>1, InPass
    <3>3. \A d : (\E r \in reports' \ reports : r[1] = d) => d \in pass.got
      BY <3>1
    <3> QED BY <3>1, <3>2, <3>3 DEF PassGood, Left
  <2>2. CASE ~ AttachReport
    <3>1. UNCHANGED reports
      BY <1>1, <2>2
         DEF Next, Reconcile, Watches, Others, Take, LookAtUse, Confirm, Prepare, Call,
             AttachSBOM, ScanDone, Patch, PatchFails, DeliverProduct, DeliverPreps,
             DeliverServing, DeliverKitchen, TimerFires, PrepChanges, Promote, Deploy,
             EditKitchen, EditProduct, PublishDatabase, Restart, Tick, vars, registry
    <3> QED BY <3>1
  <2> QED BY <2>1, <2>2
<1>2. Spec => [][A]_vars
  BY <1>1, InductiveHolds, PTL DEF Spec
<1> QED BY <1>2 DEF NoRescan

\* A check that passes keeps passing until it is made again, and not longer.
THEOREM RecheckCorrect == Spec => []RecheckInTime
<1>1. ASSUME TypeOK
      PROVE  RecheckInTime
  <2> DEFINE records == product.status.records
  <2> SUFFICES ASSUME NEW ds \in (SUBSET Digests) \ {{}}, NEW maxAge \in 1 .. MaxTime,
                      Verdict(records, ds, maxAge, now).outcome = "Passed"
               PROVE  LET verdict == Verdict(records, ds, maxAge, now)
                      IN  /\ \A t \in now .. now + verdict.recheck - 1 :
                               Verdict(records, ds, maxAge, t).outcome = "Passed"
                          /\ Verdict(records, ds, maxAge, now + verdict.recheck).outcome
                               = "ScanStale"
    BY DEF RecheckInTime
  <2>1. now \in Nat /\ records \in Records /\ maxAge \in Int
    BY <1>1 DEF TypeOK, Products, ScanStatuses
  <2> HIDE DEF records
  <2>2. ds \subseteq DOMAIN records /\ ds # {}
    <3>1. CASE ~ ds \subseteq DOMAIN records
      BY <3>1 DEF Verdict
    <3> QED BY <3>1
  <2>3. \A d \in ds : records[d] \in Nat /\ ~ Stale(records, d, maxAge, now)
    BY <2>1, <2>2 DEF Verdict, Records
  <2> DEFINE left == {records[d] + maxAge - now : d \in ds}
             least == Min(left)
  <2>4. /\ left \in SUBSET Int /\ left # {} /\ \A x \in left : 1 <= x
    BY <2>1, <2>2, <2>3 DEF Stale
  <2>5. /\ least \in left /\ \A x \in left : least <= x
    <3> HIDE DEF left
    <3> QED BY <2>4, MinExists
  <2>6. Verdict(records, ds, maxAge, now).recheck = least
    BY <2>2, <2>3 DEF Verdict, Recheck
  <2>7. ASSUME NEW t \in now .. now + least - 1
        PROVE  Verdict(records, ds, maxAge, t).outcome = "Passed"
    <3>1. least \in Int /\ \A d \in ds : least <= records[d] + maxAge - now
      BY <2>4, <2>5
    <3> HIDE DEF least
    <3>2. \A d \in ds : ~ Stale(records, d, maxAge, t)
      BY <2>1, <2>3, <3>1 DEF Stale
    <3> QED BY <2>2, <3>2 DEF Verdict
  <2>8. Verdict(records, ds, maxAge, now + least).outcome = "ScanStale"
    <3>1. PICK d \in ds : least = records[d] + maxAge - now
      BY <2>5
    <3>2. Stale(records, d, maxAge, now + least)
      BY <2>1, <2>3, <3>1 DEF Stale
    <3> QED BY <2>2, <3>2 DEF Verdict
  <2> QED BY <2>6, <2>7, <2>8 DEF records
<1> QED BY <1>1, TypeCorrect, PTL

\* Once everything has come to rest, a Product that is Scanned has a current and
\* attached scan of every image in use, and one that is not to be scanned no scan
\* status: no change and no time that passes goes by unseen.
THEOREM ScansSettleHolds == Spec => []ScansSettle
<1>1. ASSUME Inductive, Settling
      PROVE  ScansSettle
  <2> SUFFICES ASSUME Quiet, ~ unsaid
               PROVE  IF kitchen = None \/ ~ product.vendors THEN product.status = Unscanned
                      ELSE /\ product.status.scanned # None /\ timer # None
                           /\ product.status.scanned = "Scanned" => Current
    BY DEF ScansSettle
  <2>1. /\ cache.kitchen = kitchen /\ cache.product = product /\ cache.preps = preps
        /\ cache.serving = serving
    BY DEF Quiet, Caught
  <2>2. Rests /\ (timer = None \/ timer > now)
    BY <1>1 DEF Settling, Quiet
  <2>3. CASE Off
    BY <2>1, <2>2, <2>3 DEF Rests, Off
  <2>4. CASE ~ Off
    <3>1. /\ product.status.scanned # None /\ timer # None
          /\ Covers(product.status.records)
          /\ \A d \in DOMAIN product.status.records :
               timer <= product.status.records[d] + kitchen + MaxPass
      BY <2>1, <2>2, <2>4 DEF Rests
    <3>2. timer \in Nat /\ now \in Nat /\ timer > now /\ kitchen \in Nat /\ MaxPass \in Nat
      BY <1>1, <2>1, <2>2, <2>4, <3>1, ScanAssumption DEF Inductive, TypeOK, Off
    <3>3. ASSUME NEW d \in DOMAIN product.status.records
          PROVE  /\ product.status.records[d] + kitchen + MaxPass > now
                 /\ \E r \in reports : r = <<d, product.status.records[d]>>
      <4>1. product.status.records[d] \in Nat
        BY <1>1 DEF Inductive, TypeOK, Products, ScanStatuses, Records
      <4>2. timer <= product.status.records[d] + kitchen + MaxPass
        BY <3>1
      <4>3. <<d, product.status.records[d]>> \in reports
        BY <1>1 DEF Settling, Reported, Attached
      <4> QED BY <3>2, <4>1, <4>2, <4>3
    <3>4. Current
      BY <2>1, <3>1, <3>3 DEF Current, Covers, Used
    <3> QED BY <2>1, <2>4, <3>1, <3>4 DEF Off
  <2> QED BY <2>3, <2>4
<1>2. Init => Settling
  BY InitSettling
<1>3. Inductive /\ Settling /\ [Next]_vars => Settling'
  BY NextSettling
<1> QED BY <1>1, <1>2, <1>3, InductiveHolds, PTL DEF Spec

===============================================================================
