------------------------------ MODULE OrderProofs ------------------------------
(***************************************************************************)
(* What holds of an Order and its controller for any number of specs,      *)
(* sources, changes and failures: no wake-up is lost, so that a quiet      *)
(* Order has its intent rendered and its Serving; each Preparation is      *)
(* rendered from the one before it; and one that repeats another is        *)
(* charged to a change, a failure or a crash of its own.                   *)
(***************************************************************************)
EXTENDS Order, FiniteSetTheorems, SequenceTheorems, TLAPS

\* The intent a pass makes of a copy of the Order, with the Product in the cache.
Calls(o) == <<o.spec, seenProduct.source>>

\* Whether a pass gets to the intent, as the cache has it.
Admitted == valid /\ seenProduct.ready /\ connected

Unrenderable == Refused \cup Misfits

\* A pass will follow, or the event that brings it.
Woken == queued \/ news

-----------------------------------------------------------------------------
(* The invariant.                                                          *)

Agree(o, x) ==
  o.uid = x.uid /\ o.spec = x.spec /\ o.mode = x.mode /\ o.deleting = x.deleting

\* What a copy o with this status lacks of the Order x is nothing that wakes it: no
\* render that was recorded since, and no latest Preparation but of the render
\* that is recorded in the copy.
Known(o, status, x) ==
  /\ x # None /\ Agree(o, x)
  /\ x.status.render \in {None, status.render}
  /\ x.status.latest = status.latest \/ status.render # None

Finalized(o) == o # None /\ o.deleting => o.finalizer

CacheGood ==
  /\ seenFresh => seen = order /\ ~news
  /\ ~news => (seen = None <=> order = None)
  /\ ~news /\ order # None => Known(seen, seen.status, order)
  /\ Finalized(order) /\ Finalized(seen)

Before(p) ==
  p.at \in {"AddFinalizer", "Finalize", "Decide", "Render", "CreatePreparation",
            "ConsumeMessage"}

Rendering(p) == p.at \in {"Render", "CreatePreparation", "ConsumeMessage"}

\* The copy a pass read: current, or one that lacks nothing that wakes the Order
\* unless it will be woken.
ReadGood(p) ==
  /\ Finalized(p.order)
  /\ p.fresh => \/ order # None /\ order.status = p.before /\ Agree(p.order, order)
                \/ order = None /\ p.at = "PatchStatus"
  /\ ~Woken => Known(p.order, p.before, order)

\* What a pass has done so far.
StepGood(p) ==
  /\ p.at = "Finalize" => p.order.deleting
  /\ p.at \notin {"Finalize", "PatchStatus"} => ~p.order.deleting
  /\ Before(p) => p.order.status = p.before /\ p.result = "Done"
  /\ Rendering(p) => p.hash \in Intents /\ p.before.render = p.hash
  /\ Rendering(p) /\ ~queued => p.hash = Calls(p.order)
  /\ p.at = "CreatePreparation" =>
       /\ p.rendered \in Preparations
       /\ p.rendered.parent = p.before.latest /\ p.rendered.intent = p.hash
  /\ p.at = "ConsumeMessage" =>
       /\ p.prep \in DOMAIN preps
       /\ preps[p.prep].parent = p.before.latest /\ preps[p.prep].intent = p.hash

Renders(status, intent) ==
  status.latest # 0 /\ preps[status.latest].intent = intent /\ status.render = None

\* What the status that a pass is about to write says, and which end needs no
\* retry: it waits, records a render, which wakes the Order, or its intent is
\* rendered.
Outcome(p) ==
  LET status == p.order.status
  IN  /\ status.latest # p.before.latest =>
           /\ status.latest # 0 /\ preps[status.latest].parent = p.before.latest
           /\ p.before.render # None
      /\ ~Woken /\ p.result = "Done" =>
           /\ ~p.order.deleting
           /\ \/ ~Admitted
              \/ status.render \notin {None, p.before.render}
              \/ Renders(status, Calls(p.order))
      /\ ~Woken /\ p.result = "Terminal" =>
           ~p.order.deleting /\ Calls(p.order) \in Unrenderable

PassGood ==
  Active => ReadGood(pass) /\ StepGood(pass) /\ (~Before(pass) => Outcome(pass))

\* What the Order asks for is done.
Settled ==
  order # None =>
    /\ ~order.deleting
    /\ Admitted /\ Calls(order) \notin Unrenderable => Renders(order.status, Calls(order))

\* Otherwise somebody is about to do it.
Wakes == ~Active /\ ~Woken /\ ~timer => Settled

Owned == serving # None => serving.owner # None

Served(o) == o.mode = "Automatic" /\ o.status.latest # 0 => serving # None

\* The same of the Serving, of which a pass has seen to before its status.
ServingGood ==
  /\ ~servingNews => seenServing = serving
  /\ Active /\ pass.at = "PatchStatus" /\ pass.result = "Done" /\ ~Woken /\ ~servingNews =>
       Owned /\ Served(pass.order)
  /\ /\ ~Active /\ ~Woken /\ ~timer /\ ~servingNews
     /\ order # None /\ Calls(order) \notin Unrenderable
     => Owned /\ (Admitted => Served(order))

Inductive ==
  /\ TypeOK
  /\ CacheGood
  /\ PassGood
  /\ Wakes
  /\ ServingGood

-----------------------------------------------------------------------------
(* Steps of others.                                                        *)

LEMMA PassTyped ==
  ASSUME TypeOK, Active
  PROVE  pass \in Passes /\ pass.order \in Orders /\ pass.order # None
         /\ pass.order.status \in Statuses /\ pass.before \in Statuses
BY NoneAssumption DEF TypeOK, Active, Passes, Orders

LEMMA IdleIsNoPass == \A p \in Passes : p # Idle
BY DEF Passes, Idle

\* A step that leaves the Order and the pass alone, and queues the Order when it
\* changes what a pass would decide on.
LEMMA WorldInductive ==
  ASSUME Inductive, UNCHANGED <<orderVars, preps, pass>>,
         seenPreps' \in 0 .. Len(preps), product' \in Products, seenProduct' \in Products,
         connected' \in BOOLEAN, valid' \in BOOLEAN,
         serving' \in Servings \cup {None}, seenServing' \in Servings \cup {None},
         servingNews' \in BOOLEAN, request' \in BOOLEAN, queued' \in BOOLEAN,
         timer' \in BOOLEAN, edits' \in Nat, failures' \in Nat,
         queued => queued', queued' \/ timer' = timer,
         queued' \/ UNCHANGED <<seenProduct, connected, valid>>,
         ~servingNews' => seenServing' = serving',
         ~servingNews' /\ ~queued' => serving' = serving /\ ~servingNews
  PROVE  Inductive'
<1>1. /\ order' = order /\ uids' = uids /\ seen' = seen /\ seenFresh' = seenFresh
      /\ news' = news /\ preps' = preps /\ pass' = pass
  BY DEF orderVars
<1>2. TypeOK'
  BY <1>1 DEF Inductive, TypeOK, Exists, Active
<1>3. CacheGood'
  BY <1>1 DEF Inductive, CacheGood, Finalized
<1>4. Active' = Active /\ (~Woken' => ~Woken /\ ~queued /\ ~queued')
  BY <1>1 DEF Active, Woken
<1>5. /\ \A o : ~queued' => Calls(o)' = Calls(o)
      /\ ~queued' => Admitted' = Admitted
      /\ \A status, intent : Renders(status, intent)' = Renders(status, intent)
  BY <1>1 DEF Calls, Admitted, Renders
<1>6. PassGood'
  <2> SUFFICES ASSUME Active
               PROVE  ReadGood(pass)' /\ StepGood(pass)' /\ (~Before(pass) => Outcome(pass)')
    BY <1>1, <1>4 DEF PassGood, Before
  <2>1. ReadGood(pass) /\ StepGood(pass) /\ (~Before(pass) => Outcome(pass))
    BY DEF Inductive, PassGood
  <2>2. ReadGood(pass)'
    BY <1>1, <1>4, <2>1 DEF ReadGood
  <2>3. StepGood(pass)'
    BY <1>1, <1>5, <2>1 DEF StepGood, Before, Rendering, Calls
  <2>4. ~Before(pass) => Outcome(pass)'
    BY <1>1, <1>4, <1>5, <2>1 DEF Outcome, Calls, Renders
  <2> QED BY <2>2, <2>3, <2>4
<1>7. Wakes'
  BY <1>1, <1>4, <1>5 DEF Inductive, Wakes, Settled, Calls, Renders
<1>8. ServingGood'
  BY <1>1, <1>4, <1>5 DEF Inductive, ServingGood, Owned, Served, Calls
<1> QED BY <1>2, <1>3, <1>6, <1>7, <1>8 DEF Inductive

LEMMA BoundGrows ==
  ASSUME TypeOK
  PROVE  /\ \A kind : Edit(kind) => edits' \in Nat /\ failures' \in Nat
         /\ Failure => edits' \in Nat /\ failures' \in Nat
         /\ UNCHANGED editVars => edits' \in Nat /\ failures' \in Nat
BY DEF TypeOK, Edit, Failure, editVars

LEMMA AroundInductive ==
  ASSUME Inductive, Requeue \/ ChangeProduct \/ ChangeAround
  PROVE  Inductive'
<1>1. /\ TypeOK /\ ServingGood
      /\ UNCHANGED <<orderVars, preps, pass, seenPreps, servingVars, seenProduct>>
  BY DEF Inductive, Requeue, ChangeProduct, ChangeAround, prepVars, productVars
<1>2. edits' \in Nat /\ failures' \in Nat
  BY <1>1, BoundGrows DEF Requeue, ChangeProduct, ChangeAround
<1>3. /\ product' \in Products /\ seenProduct' \in Products
      /\ connected' \in BOOLEAN /\ valid' \in BOOLEAN
      /\ queued' \in BOOLEAN /\ timer' \in BOOLEAN
  <2>1. \A s \in 1 .. NumSources, r \in BOOLEAN : [ready |-> r, source |-> s] \in Products
    BY DEF Products
  <2>2. CASE Requeue
    BY <1>1, <2>2 DEF TypeOK, Requeue, productVars
  <2>3. CASE ChangeProduct
    BY <1>1, <2>1, <2>3 DEF TypeOK, ChangeProduct, workVars
  <2>4. CASE ChangeAround
    BY <1>1, <2>4 DEF TypeOK, ChangeAround
  <2> QED BY <2>2, <2>3, <2>4
<1>4. /\ seenPreps' \in 0 .. Len(preps)
      /\ serving' \in Servings \cup {None} /\ seenServing' \in Servings \cup {None}
      /\ servingNews' \in BOOLEAN /\ request' \in BOOLEAN
      /\ ~servingNews' => seenServing' = serving'
      /\ ~servingNews' /\ ~queued' => serving' = serving /\ ~servingNews
  BY <1>1 DEF TypeOK, ServingGood, servingVars
<1>5. /\ queued => queued'
      /\ queued' \/ timer' = timer
      /\ queued' \/ UNCHANGED <<seenProduct, connected, valid>>
  BY DEF Requeue, ChangeProduct, ChangeAround, productVars, workVars
<1> QED BY <1>1, <1>2, <1>3, <1>4, <1>5, WorldInductive

LEMMA SyncsInductive ==
  ASSUME Inductive, SyncProduct \/ SyncPreparations \/ SyncServing
  PROVE  Inductive'
<1>1. TypeOK /\ ServingGood /\ UNCHANGED <<orderVars, preps, pass, connected, valid>> /\ queued'
  BY DEF Inductive, SyncProduct, SyncPreparations, SyncServing, prepVars, productVars
<1>2. edits' \in Nat /\ failures' \in Nat /\ timer' = timer
  BY <1>1, BoundGrows DEF SyncProduct, SyncPreparations, SyncServing
<1>3. /\ product' \in Products /\ seenProduct' \in Products
      /\ connected' \in BOOLEAN /\ valid' \in BOOLEAN
      /\ queued' \in BOOLEAN /\ timer' \in BOOLEAN
  BY <1>1, <1>2 DEF TypeOK, SyncProduct, SyncPreparations, SyncServing, productVars
<1>4. Len(preps) \in Nat
  BY <1>1 DEF TypeOK
<1>5. seenPreps' \in 0 .. Len(preps)
  BY <1>1, <1>4 DEF TypeOK, SyncProduct, SyncPreparations, SyncServing, prepVars
<1>6. /\ serving' \in Servings \cup {None} /\ seenServing' \in Servings \cup {None}
      /\ servingNews' \in BOOLEAN /\ request' \in BOOLEAN
      /\ ~servingNews' => seenServing' = serving'
  BY <1>1 DEF TypeOK, ServingGood, SyncProduct, SyncPreparations, SyncServing, servingVars
<1> QED BY <1>1, <1>2, <1>3, <1>5, <1>6, WorldInductive

LEMMA OthersInductive ==
  ASSUME Inductive, BeginPromote \/ EndPromote \/ CollectServing
  PROVE  Inductive'
<1>1. /\ TypeOK /\ ServingGood
      /\ UNCHANGED <<orderVars, preps, pass, seenPreps, productVars, queued, timer, seenServing>>
  BY DEF Inductive, BeginPromote, EndPromote, CollectServing, prepVars, workVars
<1>2. edits' \in Nat /\ failures' \in Nat
  BY <1>1, BoundGrows DEF BeginPromote, EndPromote, CollectServing
<1>3. /\ product' \in Products /\ seenProduct' \in Products
      /\ connected' \in BOOLEAN /\ valid' \in BOOLEAN
      /\ queued' \in BOOLEAN /\ timer' \in BOOLEAN
      /\ seenPreps' \in 0 .. Len(preps)
      /\ UNCHANGED <<seenProduct, connected, valid>>
  BY <1>1 DEF TypeOK, productVars
<1>4. [owner |-> None] \in Servings
  BY DEF Servings
<1>5. /\ serving' \in Servings \cup {None} /\ seenServing' \in Servings \cup {None}
      /\ servingNews' \in BOOLEAN /\ request' \in BOOLEAN
      /\ ~servingNews' => serving' = serving /\ ~servingNews
  BY <1>1, <1>4 DEF TypeOK, BeginPromote, EndPromote, CollectServing
<1>6. ~servingNews' => seenServing' = serving'
  BY <1>1, <1>5 DEF ServingGood
<1> QED BY <1>1, <1>2, <1>3, <1>5, <1>6, WorldInductive

LEMMA SyncOrderInductive ==
  ASSUME Inductive, SyncOrder
  PROVE  Inductive'
<1>1. /\ order' = order /\ uids' = uids /\ preps' = preps /\ pass' = pass
      /\ seen' = order /\ seenFresh' /\ seenFresh' = TRUE /\ news' = FALSE
      /\ queued' = (queued \/ news) /\ timer' = timer
      /\ seenPreps' = seenPreps /\ UNCHANGED productVars /\ UNCHANGED servingVars
      /\ UNCHANGED editVars
  BY DEF SyncOrder, prepVars
<1>2. TypeOK'
  BY <1>1 DEF Inductive, TypeOK, Exists, Active, productVars, servingVars, editVars
<1>3. CacheGood'
  <2>1. order # None => Known(order, order.status, order)
    BY DEF Known, Agree, Inductive, TypeOK, Orders, Statuses
  <2> QED BY <1>1, <2>1 DEF Inductive, CacheGood, Finalized, Known
<1>4. Active' = Active /\ Woken' = Woken /\ (queued => queued')
  <2>1. Woken' <=> Woken
    BY <1>1 DEF Woken
  <2> QED BY <1>1, <2>1 DEF Active, Woken
<1>5. /\ \A o : Calls(o)' = Calls(o)
      /\ Admitted' = Admitted
      /\ \A status, intent : Renders(status, intent)' = Renders(status, intent)
  BY <1>1 DEF Calls, Admitted, Renders, productVars
<1>6. PassGood'
  <2> SUFFICES ASSUME Active
               PROVE  ReadGood(pass)' /\ StepGood(pass)' /\ (~Before(pass) => Outcome(pass)')
    BY <1>1, <1>4 DEF PassGood, Before
  <2>1. ReadGood(pass) /\ StepGood(pass) /\ (~Before(pass) => Outcome(pass))
    BY DEF Inductive, PassGood
  <2>2. ReadGood(pass)'
    BY <1>1, <1>4, <2>1 DEF ReadGood
  <2>3. StepGood(pass)'
    BY <1>1, <1>4, <1>5, <2>1 DEF StepGood, Before, Rendering, Calls, productVars
  <2>4. ~Before(pass) => Outcome(pass)'
    BY <1>1, <1>4, <1>5, <2>1 DEF Outcome, Calls, Renders, productVars
  <2> QED BY <2>2, <2>3, <2>4
<1>7. Wakes'
  BY <1>1, <1>4, <1>5 DEF Inductive, Wakes, Settled, Calls, Renders, productVars
<1>8. ServingGood'
  BY <1>1, <1>4, <1>5 DEF Inductive, ServingGood, Owned, Served, Calls, servingVars, productVars
<1> QED BY <1>2, <1>3, <1>6, <1>7, <1>8 DEF Inductive

-----------------------------------------------------------------------------
(* Writes of others: any change of the Order, which wakes it.              *)

LEMMA ForeignInductive ==
  ASSUME Inductive,
         order' \in Orders \cup {None}, order' # None => Exists(order)', Finalized(order'),
         uids' \in Nat, uids' >= uids, seen' = seen, seenFresh' = FALSE, news' = TRUE,
         pass' = IF Active THEN [pass EXCEPT !.fresh = FALSE] ELSE pass,
         UNCHANGED <<productVars, prepVars, servingVars, workVars>>,
         edits' \in Nat, failures' \in Nat
  PROVE  Inductive'
<1>1. /\ product' = product /\ seenProduct' = seenProduct /\ connected' = connected
      /\ valid' = valid /\ preps' = preps /\ seenPreps' = seenPreps /\ serving' = serving
      /\ seenServing' = seenServing /\ servingNews' = servingNews /\ request' = request
      /\ queued' = queued /\ timer' = timer
  BY DEF productVars, prepVars, servingVars, workVars
<1>2. /\ TypeOK /\ Woken' /\ (Active' <=> Active)
      /\ Active => /\ pass' \in Passes /\ pass'.fresh = FALSE
                   /\ pass'.at = pass.at /\ pass'.order = pass.order
                   /\ pass'.before = pass.before /\ pass'.hash = pass.hash
                   /\ pass'.rendered = pass.rendered /\ pass'.prep = pass.prep
                   /\ pass'.result = pass.result
  <2>1. TypeOK /\ Woken'
    BY DEF Inductive, Woken
  <2>2. CASE Active
    <3>1. pass \in Passes
      BY <2>1, <2>2, PassTyped
    <3>2. /\ pass' \in Passes /\ pass'.fresh = FALSE
          /\ pass'.at = pass.at /\ pass'.order = pass.order
          /\ pass'.before = pass.before /\ pass'.hash = pass.hash
          /\ pass'.rendered = pass.rendered /\ pass'.prep = pass.prep
          /\ pass'.result = pass.result
      BY <2>2, <3>1 DEF Passes
    <3> QED BY <2>1, <2>2, <3>2, IdleIsNoPass DEF Active
  <2>3. CASE ~Active
    BY <2>1, <2>3 DEF Active
  <2> QED BY <2>2, <2>3
<1>3. /\ \A o \in {order', seen'} \ {None} : o.uid <= uids' /\ o.status.latest <= Len(preps)
      /\ \A o \in Orders : o.uid <= uids => o.uid <= uids'
  BY <1>1, <1>2 DEF TypeOK, Exists, Orders
<1>4. TypeOK'
  <2>1. Active => pass.order \in Orders /\ Exists(pass.order) /\ pass.before.latest <= Len(preps)
    BY <1>2, PassTyped DEF TypeOK
  <2>2. pass' \in Passes \cup {Idle}
    BY <1>2 DEF TypeOK, Active
  <2> QED BY <1>1, <1>2, <1>3, <2>1, <2>2 DEF TypeOK, Exists
<1>5. CacheGood'
  BY DEF Inductive, CacheGood, Finalized
<1>6. PassGood'
  <2> SUFFICES ASSUME Active
               PROVE  ReadGood(pass)' /\ StepGood(pass)' /\ (~Before(pass)' => Outcome(pass)')
    BY <1>2 DEF PassGood
  <2>1. ReadGood(pass) /\ StepGood(pass) /\ (~Before(pass) => Outcome(pass))
    BY DEF Inductive, PassGood
  <2>2. ReadGood(pass)'
    BY <1>2, <2>1 DEF ReadGood
  <2>3. StepGood(pass)'
    BY <1>1, <1>2, <2>1 DEF StepGood, Before, Rendering, Calls
  <2>4. ~Before(pass)' => Outcome(pass)'
    BY <1>1, <1>2, <2>1 DEF Outcome, Before
  <2> QED BY <2>2, <2>3, <2>4
<1>7. Wakes' /\ ServingGood'
  BY <1>1, <1>2 DEF Inductive, Wakes, ServingGood
<1> QED BY <1>4, <1>5, <1>6, <1>7 DEF Inductive

LEMMA ChangeSpecInductive ==
  ASSUME Inductive, ChangeSpec
  PROVE  Inductive'
<1>1. /\ TypeOK /\ order \in Orders /\ order.status \in Statuses /\ ~order.deleting /\ Exists(order)
  BY DEF Inductive, TypeOK, ChangeSpec, Orders
<1>2. PICK s \in 1 .. NumSpecs, m \in Modes, w \in {order.message, TRUE} :
        LET new == [order EXCEPT !.spec = s, !.mode = m, !.message = w] IN
        /\ new # order
        /\ ForeignWrite([new EXCEPT !.status.observed = @ /\ s = order.spec /\ m = order.mode])
  BY DEF ChangeSpec
<1> DEFINE b == order.status.observed /\ s = order.spec /\ m = order.mode
           new == [order EXCEPT !.spec = s, !.mode = m, !.message = w]
           status == [order.status EXCEPT !.observed = b]
<1>3. b \in BOOLEAN /\ w \in BOOLEAN
  BY <1>1 DEF Orders, Statuses
<1>4. status \in Statuses /\ status.latest = order.status.latest
  <2> HIDE DEF b
  <2> QED BY <1>1, <1>3 DEF Statuses
<1>5. order' = [new EXCEPT !.status = status] /\ ForeignWrite(order')
  BY <1>1, <1>2 DEF ForeignWrite, Write, Orders
<1>6. /\ order' \in Orders /\ order'.status = status /\ order'.uid = order.uid
      /\ order'.spec = s /\ order'.mode = m /\ order'.message = w
      /\ order'.deleting = order.deleting /\ order' # None
  <2> HIDE DEF status, b
  <2> QED BY <1>1, <1>3, <1>4, <1>5, NoneAssumption DEF Orders
<1>7. ~(s = order.spec /\ m = order.mode /\ w = order.message)
  <2>1. new # order
    BY <1>2
  <2>2. order = [order EXCEPT !.spec = order.spec, !.mode = order.mode, !.message = order.message]
    BY <1>1 DEF Orders
  <2> QED BY <2>1, <2>2
<1>8. Watched(order, order')
  BY <1>6, <1>7 DEF Watched
<1>9. /\ seen' = seen /\ seenFresh' = FALSE /\ news' = TRUE /\ uids' = uids
      /\ pass' = IF Active THEN [pass EXCEPT !.fresh = FALSE] ELSE pass
  <2>1. news' = (news \/ Watched(order, order'))
    BY <1>5 DEF ForeignWrite, Write
  <2>2. news' = TRUE
    BY <1>8, <2>1
  <2> QED BY <1>5, <2>2 DEF ForeignWrite, Write
<1>10. edits' \in Nat /\ failures' \in Nat
  BY <1>1, BoundGrows DEF ChangeSpec
<1>11. UNCHANGED <<productVars, prepVars, servingVars, workVars>>
  BY DEF ChangeSpec
<1>12. preps' = preps
  BY <1>11 DEF prepVars
<1>13. Exists(order)'
  <2> HIDE DEF status, b
  <2> QED BY <1>1, <1>4, <1>6, <1>9, <1>12 DEF Exists
<1>14. uids' \in Nat /\ uids' >= uids
  BY <1>1, <1>9 DEF TypeOK
<1>15. Finalized(order')
  BY <1>1, <1>6 DEF Finalized
<1>16. order' \in Orders \cup {None}
  BY <1>6
<1> QED BY <1>9, <1>10, <1>11, <1>13, <1>14, <1>15, <1>16, ForeignInductive

LEMMA DeleteOrderInductive ==
  ASSUME Inductive, DeleteOrder
  PROVE  Inductive'
<1>1. /\ TypeOK /\ order \in Orders /\ order.status \in Statuses /\ ~order.deleting /\ Exists(order)
  BY DEF Inductive, TypeOK, DeleteOrder, Orders
<1> DEFINE status == [order.status EXCEPT !.observed = FALSE]
           new == [order EXCEPT !.deleting = TRUE, !.status = status]
<1>2. status \in Statuses /\ status.latest = order.status.latest
  BY <1>1 DEF Statuses
<1>3. /\ new \in Orders /\ new.status = status /\ new.uid = order.uid /\ new.deleting = TRUE
      /\ new.finalizer = order.finalizer /\ new # None
  <2> HIDE DEF status
  <2> QED BY <1>1, <1>2, NoneAssumption DEF Orders
<1>4. new = [order EXCEPT !.deleting = TRUE, !.status.observed = FALSE]
  BY <1>1 DEF Orders
<1>5. ForeignWrite(IF order.finalizer THEN new ELSE None)
  BY <1>4 DEF DeleteOrder
<1> HIDE DEF new, status
<1>6. order' = IF order.finalizer THEN new ELSE None
  BY <1>5 DEF ForeignWrite, Write
<1>7. Watched(order, order')
  BY <1>1, <1>3, <1>6 DEF Watched, Orders
<1>8. /\ seen' = seen /\ seenFresh' = FALSE /\ news' = TRUE /\ uids' = uids
      /\ pass' = IF Active THEN [pass EXCEPT !.fresh = FALSE] ELSE pass
  <2>1. news' = (news \/ Watched(order, order'))
    BY <1>5, <1>6 DEF ForeignWrite, Write
  <2>2. news' = TRUE
    BY <1>7, <2>1
  <2> QED BY <1>5, <2>2 DEF ForeignWrite, Write
<1>9. edits' \in Nat /\ failures' \in Nat
  BY <1>1, BoundGrows DEF DeleteOrder
<1>10. UNCHANGED <<productVars, prepVars, servingVars, workVars>>
  BY DEF DeleteOrder
<1>11. preps' = preps
  BY <1>10 DEF prepVars
<1>12. order' # None => Exists(order)'
  BY <1>1, <1>2, <1>3, <1>6, <1>8, <1>11 DEF Exists
<1>13. uids' \in Nat /\ uids' >= uids
  BY <1>1, <1>8 DEF TypeOK
<1>14. Finalized(order') /\ order' \in Orders \cup {None}
  BY <1>3, <1>6 DEF Finalized
<1> QED BY <1>8, <1>9, <1>10, <1>12, <1>13, <1>14, ForeignInductive

LEMMA NewOrderTyped ==
  \A uid \in Nat, s \in 1 .. NumSpecs, m \in Modes :
    /\ NewOrder(uid, s, m) \in Orders
    /\ NewOrder(uid, s, m).status.latest = 0
    /\ NewOrder(uid, s, m).uid = uid
    /\ ~NewOrder(uid, s, m).deleting
BY DEF NewOrder, NewStatus, Orders, Statuses

LEMMA CreateOrderInductive ==
  ASSUME Inductive, CreateOrder
  PROVE  Inductive'
<1>1. TypeOK /\ UNCHANGED <<seen, productVars, prepVars, servingVars, workVars>>
  BY DEF Inductive, CreateOrder
<1>2. uids \in Nat /\ uids + 1 \in Nat /\ uids' = uids + 1 /\ uids' >= uids /\ Len(preps) \in Nat
  BY <1>1 DEF TypeOK, CreateOrder
<1>3. PICK s \in 1 .. NumSpecs, m \in Modes : order' = NewOrder(uids + 1, s, m)
  BY DEF CreateOrder
<1>4. /\ order' \in Orders /\ order'.status.latest = 0 /\ order'.uid = uids + 1
      /\ ~order'.deleting
  BY <1>2, <1>3, NewOrderTyped
<1>5. Exists(order)' /\ Finalized(order') /\ preps' = preps
  BY <1>1, <1>2, <1>4 DEF Exists, Finalized, prepVars
<1>6. /\ seen' = seen /\ seenFresh' = FALSE /\ news' = TRUE
      /\ pass' = IF Active THEN [pass EXCEPT !.fresh = FALSE] ELSE pass
      /\ UNCHANGED <<productVars, prepVars, servingVars, workVars>>
  BY DEF CreateOrder
<1>7. edits' \in Nat /\ failures' \in Nat
  BY <1>1, BoundGrows DEF CreateOrder
<1>8. uids' \in Nat /\ order' \in Orders \cup {None}
  BY <1>2, <1>4
<1> QED BY <1>2, <1>5, <1>6, <1>7, <1>8, ForeignInductive

LEMMA CrashInductive ==
  ASSUME Inductive, Crash
  PROVE  Inductive'
<1>1. /\ TypeOK /\ pass' = Idle /\ timer' = FALSE /\ queued' = TRUE
      /\ seen' = order /\ seenFresh' = TRUE /\ news' = FALSE
      /\ seenProduct' = product /\ seenPreps' = Len(preps)
      /\ seenServing' = serving /\ servingNews' = FALSE
      /\ order' = order /\ uids' = uids /\ product' = product /\ connected' = connected
      /\ valid' = valid /\ preps' = preps /\ serving' = serving /\ request' = request
  BY DEF Inductive, Crash
<1>2. edits' \in Nat /\ failures' \in Nat /\ Len(preps) \in Nat
  BY <1>1, BoundGrows DEF Crash, TypeOK
<1>3. ~Active' /\ Woken'
  BY <1>1 DEF Active, Woken
<1>4. TypeOK'
  <2>1. \A o \in {order', seen'} \ {None} : o.uid <= uids' /\ o.status.latest <= Len(preps')
    BY <1>1 DEF TypeOK, Exists
  <2>2. seenPreps' \in 0 .. Len(preps')
    BY <1>1, <1>2
  <2>3. (Active => Exists(pass.order) /\ pass.before.latest <= Len(preps))'
    BY <1>3
  <2> QED BY <1>1, <1>2, <2>1, <2>2, <2>3 DEF TypeOK, Exists
<1>5. CacheGood'
  <2>1. order # None => Known(order, order.status, order)
    BY DEF Known, Agree
  <2> QED BY <1>1, <2>1 DEF Inductive, CacheGood, Finalized, Known
<1>6. PassGood' /\ Wakes' /\ ServingGood'
  BY <1>1, <1>3 DEF PassGood, Wakes, ServingGood
<1> QED BY <1>4, <1>5, <1>6 DEF Inductive

-----------------------------------------------------------------------------
(* Steps of a pass.                                                        *)

\* What a step of a pass leaves in the pass, when it goes on.
Continues(p, q) ==
  /\ q \in Passes
  /\ q.before = p.before /\ Agree(p.order, q.order)
  /\ p.order.finalizer => q.order.finalizer
  /\ q.fresh => p.fresh

LEMMA StepInductive ==
  ASSUME Inductive, Active, UNCHANGED <<uids, seen, seenPreps>>,
         UNCHANGED <<productVars, servingVars, workVars>>,
         order' \in Orders \cup {None}, order' # None => Exists(order)',
         seenFresh' \in BOOLEAN, news' \in BOOLEAN,
         preps' \in Seq(Preparations), Len(preps') >= Len(preps),
         Continues(pass, pass'), pass'.order.status.latest <= Len(preps'),
         CacheGood', ReadGood(pass)', StepGood(pass)', ~Before(pass)' => Outcome(pass)',
         pass'.at = "PatchStatus" /\ pass'.result = "Done" => news',
         edits' \in Nat, failures' \in Nat
  PROVE  Inductive'
<1>1. /\ uids' = uids /\ seen' = seen /\ seenPreps' = seenPreps
      /\ product' = product /\ seenProduct' = seenProduct /\ connected' = connected
      /\ valid' = valid /\ serving' = serving
      /\ seenServing' = seenServing /\ servingNews' = servingNews /\ request' = request
      /\ queued' = queued /\ timer' = timer
  BY DEF productVars, servingVars, workVars
<1>2. TypeOK /\ pass' \in Passes /\ Active'
  BY IdleIsNoPass DEF Inductive, Continues, Active
<1>3. Len(preps) \in Nat /\ Len(preps') \in Nat
  BY <1>2 DEF TypeOK
<1>4. seenPreps' \in 0 .. Len(preps')
  BY <1>1, <1>2, <1>3 DEF TypeOK
<1>5. \A o \in {order', seen'} \ {None} : o.uid <= uids' /\ o.status.latest <= Len(preps')
  <2>1. order' # None => order'.uid <= uids' /\ order'.status.latest <= Len(preps')
    BY DEF Exists
  <2>2. seen # None => seen \in Orders /\ seen.status.latest \in Nat
    BY <1>2 DEF TypeOK, Orders, Statuses
  <2>3. seen # None => seen.uid <= uids /\ seen.status.latest <= Len(preps')
    BY <1>2, <1>3, <2>2 DEF TypeOK, Exists
  <2> QED BY <1>1, <2>1, <2>3
<1>6. pass'.order.uid <= uids' /\ pass'.before.latest <= Len(preps')
  <2>1. pass.before \in Statuses /\ pass.before.latest \in Nat
    BY <1>2, PassTyped DEF Statuses
  <2> QED BY <1>1, <1>2, <1>3, <2>1 DEF TypeOK, Exists, Continues, Agree
<1>7. TypeOK'
  BY <1>1, <1>2, <1>4, <1>5, <1>6 DEF TypeOK, Exists
<1>8. PassGood'
  BY DEF PassGood
<1>9. Wakes'
  BY <1>2 DEF Wakes
<1>10. ServingGood'
  BY <1>1, <1>2 DEF Inductive, ServingGood, Woken
<1> QED BY <1>7, <1>8, <1>9, <1>10 DEF Inductive

\* A step that writes nothing of the Order.
LEMMA UnwrittenInductive ==
  ASSUME Inductive, Active, pass.at # "PatchStatus",
         UNCHANGED <<orderVars, productVars, servingVars, workVars, seenPreps>>,
         preps' \in Seq(Preparations), Len(preps') >= Len(preps),
         Continues(pass, pass'), pass'.order.status.latest <= Len(preps'),
         StepGood(pass)', ~Before(pass)' => Outcome(pass)',
         ~(pass'.at = "PatchStatus" /\ pass'.result = "Done"),
         edits' \in Nat, failures' \in Nat
  PROVE  Inductive'
<1>1. /\ order' = order /\ uids' = uids /\ seen' = seen /\ seenFresh' = seenFresh
      /\ news' = news /\ queued' = queued
  BY DEF orderVars, workVars
<1>2. TypeOK /\ CacheGood /\ ReadGood(pass)
  BY DEF Inductive, PassGood
<1>3. CacheGood'
  BY <1>1, <1>2 DEF CacheGood, Finalized
<1>4. ReadGood(pass)'
  <2>1. Finalized(pass'.order)
    <3>1. pass.order # None /\ pass'.order # None
      BY <1>2, PassTyped, NoneAssumption DEF Continues, Passes
    <3> QED BY <1>2, <3>1 DEF ReadGood, Finalized, Continues, Agree
  <2>2. pass'.fresh => order # None /\ order.status = pass'.before /\ Agree(pass'.order, order)
    BY <1>2 DEF ReadGood, Continues, Agree
  <2>3. ~Woken => Known(pass'.order, pass'.before, order)
    BY <1>2 DEF ReadGood, Continues, Known, Agree
  <2>4. Woken' <=> Woken
    BY <1>1 DEF Woken
  <2> QED BY <1>1, <2>1, <2>2, <2>3, <2>4 DEF ReadGood
<1>5. order' # None => Exists(order)'
  <2>1. order # None => order \in Orders /\ order.status.latest \in Nat
    BY <1>2 DEF TypeOK, Orders, Statuses
  <2>2. Len(preps) \in Nat /\ Len(preps') \in Nat
    BY <1>2 DEF TypeOK
  <2> QED BY <1>1, <1>2, <2>1, <2>2 DEF TypeOK, Exists
<1>6. order' \in Orders \cup {None} /\ seenFresh' \in BOOLEAN /\ news' \in BOOLEAN
  BY <1>1, <1>2 DEF TypeOK
<1>7. UNCHANGED <<uids, seen, seenPreps>> /\ UNCHANGED <<productVars, servingVars, workVars>>
  BY DEF orderVars
<1>8. pass'.at = "PatchStatus" /\ pass'.result = "Done" => news'
  OBVIOUS
<1> QED BY <1>3, <1>4, <1>5, <1>6, <1>7, <1>8, StepInductive

\* A write of something that the status does not say.
LEMMA WrittenInductive ==
  ASSUME Inductive, Active, pass.at # "PatchStatus", pass.fresh,
         UNCHANGED <<productVars, prepVars, servingVars, workVars>>,
         NEW new \in Orders, OwnWrite(new), new.status = order.status, Agree(order, new),
         order.finalizer => new.finalizer,
         Continues(pass, pass'), pass'.order.status.latest <= Len(preps),
         StepGood(pass)', ~Before(pass)' => Outcome(pass)',
         ~(pass'.at = "PatchStatus" /\ pass'.result = "Done"),
         edits' \in Nat, failures' \in Nat
  PROVE  Inductive'
<1>1. /\ order' = new /\ new # None /\ uids' = uids /\ seen' = seen /\ seenFresh' = FALSE
      /\ news' = (news \/ Watched(order, new)) /\ queued' = queued /\ preps' = preps
  BY NoneAssumption DEF OwnWrite, Write, workVars, prepVars
<1>2. TypeOK /\ CacheGood /\ ReadGood(pass)
  BY DEF Inductive, PassGood
<1>3. order # None /\ order \in Orders /\ order.status = pass.before /\ Agree(pass.order, order)
  BY <1>2 DEF ReadGood, TypeOK
<1>4. Known(order, order.status, new)
  BY <1>1 DEF Known
<1>5. CacheGood'
  <2>1. ~news' => ~news
    BY <1>1
  <2>2. ~news => Known(seen, seen.status, new)
    BY <1>1, <1>2, <1>3, <1>4 DEF CacheGood, Known, Agree
  <2>3. Finalized(new)
    BY <1>2, <1>3, <1>1 DEF CacheGood, Finalized, Agree
  <2> QED BY <1>1, <1>2, <1>3, <2>1, <2>2, <2>3 DEF CacheGood, Finalized
<1>6. ReadGood(pass)'
  <2>1. Finalized(pass'.order)
    <3>1. pass.order # None /\ pass'.order # None
      BY <1>2, PassTyped, NoneAssumption DEF Continues, Passes
    <3> QED BY <1>2, <3>1 DEF ReadGood, Finalized, Continues, Agree
  <2>2. new.status = pass'.before /\ Agree(pass'.order, new)
    BY <1>3 DEF Continues, Agree
  <2>3. Known(pass'.order, pass'.before, new)
    BY <1>1, <1>3, <2>2 DEF Known
  <2> QED BY <1>1, <2>1, <2>2, <2>3 DEF ReadGood
<1>7. Exists(order)'
  BY <1>1, <1>2, <1>3 DEF TypeOK, Exists, Agree
<1>8. order' \in Orders \cup {None} /\ seenFresh' \in BOOLEAN /\ news' \in BOOLEAN
  <2>1. Watched(order, new) \in BOOLEAN
    BY DEF Watched
  <2> QED BY <1>1, <1>2, <2>1 DEF TypeOK
<1>9. UNCHANGED <<uids, seen, seenPreps>> /\ UNCHANGED <<productVars, servingVars, workVars>>
  BY <1>1 DEF prepVars
<1>10. /\ preps' \in Seq(Preparations) /\ Len(preps') >= Len(preps)
       /\ pass'.order.status.latest <= Len(preps')
  <2>1. Len(preps) \in Nat
    BY <1>2 DEF TypeOK
  <2> QED BY <1>1, <1>2, <2>1 DEF TypeOK
<1>11. pass'.at = "PatchStatus" /\ pass'.result = "Done" => news'
  OBVIOUS
<1> QED BY <1>5, <1>6, <1>7, <1>8, <1>9, <1>10, <1>11, StepInductive

LEMMA ReportTyped ==
  ASSUME pass \in Passes, NEW at \in {"KeepServing", "PatchStatus"},
         NEW ready \in {"Waiting", "Failed", "PatchFailed"},
         NEW result \in {"Done", "Retry", "Terminal"},
         Report(at, ready, result)
  PROVE  /\ Continues(pass, pass') /\ pass'.at = at /\ pass'.result = result
         /\ pass'.order.status.latest = pass.order.status.latest
         /\ pass'.order.status.render = pass.order.status.render
<1> DEFINE status == [pass.order.status EXCEPT !.ready = ready]
           o == [pass.order EXCEPT !.status = status]
<1>1. pass.order \in Orders /\ pass.order.status \in Statuses
  BY DEF Passes, Orders
<1>2. /\ status \in Statuses /\ status.latest = pass.order.status.latest
      /\ status.render = pass.order.status.render
  BY <1>1 DEF Statuses
<1>3. pass' = [pass EXCEPT !.at = at, !.order = o, !.result = result]
  BY <1>1 DEF Report, Passes, Orders
<1>4. /\ o \in Orders /\ o.status = status /\ Agree(pass.order, o)
      /\ o.finalizer = pass.order.finalizer
  <2> HIDE DEF status
  <2> QED BY <1>1, <1>2 DEF Orders, Agree
<1> HIDE DEF status, o
<1>5. /\ pass' \in Passes /\ pass'.at = at /\ pass'.order = o /\ pass'.result = result
      /\ pass'.before = pass.before /\ pass'.fresh = pass.fresh
  BY <1>3, <1>4 DEF Passes
<1> QED BY <1>2, <1>4, <1>5 DEF Continues

LEMMA FailTyped ==
  ASSUME pass \in Passes, NEW at \in {"KeepServing", "PatchStatus"}, FailAt(at)
  PROVE  /\ Continues(pass, pass') /\ pass'.at = at /\ pass'.result = "Retry"
         /\ pass'.order = pass.order
BY DEF FailAt, Passes, Continues, Agree

\* A step that ends the pass, but for its Serving and its status.
LEMMA EndsInductive ==
  ASSUME Inductive, Active, Before(pass), pass.at # "Finalize",
         UNCHANGED <<orderVars, productVars, servingVars, workVars, seenPreps>>,
         preps' \in Seq(Preparations), Len(preps') >= Len(preps),
         Continues(pass, pass'), pass'.order.status.latest <= Len(preps'),
         pass'.at = "KeepServing", Outcome(pass)',
         edits' \in Nat, failures' \in Nat
  PROVE  Inductive'
<1>1. StepGood(pass) /\ pass.at # "PatchStatus"
  BY DEF Inductive, PassGood, Before
<1>2. StepGood(pass)'
  BY <1>1 DEF StepGood, Before, Rendering, Continues, Agree
<1>3. ~(pass'.at = "PatchStatus" /\ pass'.result = "Done")
  OBVIOUS
<1> QED BY <1>1, <1>2, <1>3, UnwrittenInductive

\* An error that is retried ends a pass at any point of it.
LEMMA RetriesInductive ==
  ASSUME Inductive, Active, Before(pass),
         UNCHANGED <<orderVars, productVars, servingVars, workVars, seenPreps>>,
         preps' \in Seq(Preparations), Len(preps') >= Len(preps),
         Continues(pass, pass'),
         pass'.order.status.latest = pass.order.status.latest,
         pass'.at = "PatchStatus" \/ (pass'.at = "KeepServing" /\ pass.at # "Finalize"),
         pass'.result \in {"Soon", "Retry"},
         edits' \in Nat, failures' \in Nat
  PROVE  Inductive'
<1>1. TypeOK /\ StepGood(pass) /\ pass.at # "PatchStatus" /\ pass.order.status = pass.before
  BY DEF Inductive, PassGood, Before, StepGood
<1>2. pass.before \in Statuses /\ pass.before.latest \in Nat /\ pass.before.latest <= Len(preps)
  BY <1>1, PassTyped DEF Statuses, TypeOK
<1>3. StepGood(pass)'
  BY <1>1 DEF StepGood, Before, Rendering, Continues, Agree
<1>4. Outcome(pass)'
  BY <1>1 DEF Outcome, Continues
<1>5. pass'.order.status.latest <= Len(preps')
  <2>1. Len(preps) \in Nat /\ Len(preps') \in Nat
    BY <1>1 DEF TypeOK
  <2> QED BY <1>1, <1>2, <2>1
<1>6. ~(pass'.at = "PatchStatus" /\ pass'.result = "Done")
  OBVIOUS
<1> QED BY <1>1, <1>3, <1>4, <1>5, <1>6, UnwrittenInductive

LEMMA StartPassInductive ==
  ASSUME Inductive, StartPass
  PROVE  Inductive'
<1>1. /\ order' = order /\ uids' = uids /\ seen' = seen /\ seenFresh' = seenFresh
      /\ news' = news /\ product' = product /\ seenProduct' = seenProduct
      /\ connected' = connected /\ valid' = valid /\ preps' = preps
      /\ seenPreps' = seenPreps /\ serving' = serving /\ seenServing' = seenServing
      /\ servingNews' = servingNews /\ request' = request /\ timer' = timer
      /\ edits' = edits /\ failures' = failures /\ queued' = FALSE
  BY DEF StartPass, orderVars, productVars, prepVars, servingVars, editVars
<1>2. TypeOK /\ CacheGood /\ ServingGood
  BY DEF Inductive
<1>3. CacheGood'
  BY <1>1, <1>2 DEF CacheGood, Finalized
<1>4. Woken' <=> news
  BY <1>1 DEF Woken
<1>5. CASE seen = None
  <2>1. pass' = Idle /\ ~Active'
    BY <1>5 DEF StartPass, Active
  <2>2. TypeOK'
    BY <1>1, <1>2, <2>1 DEF TypeOK, Exists
  <2>3. PassGood'
    BY <2>1 DEF PassGood
  <2>4. ~Woken' => order = None
    BY <1>2, <1>4, <1>5 DEF CacheGood
  <2>5. Wakes'
    BY <1>1, <2>4 DEF Wakes, Settled
  <2>6. ServingGood'
    BY <1>1, <1>2, <2>1, <2>4 DEF ServingGood
  <2> QED BY <1>3, <2>2, <2>3, <2>5, <2>6 DEF Inductive
<1>6. CASE seen # None
  <2>1. seen \in Orders /\ Exists(seen) /\ seen.status \in Statuses
    BY <1>2, <1>6 DEF TypeOK, Orders
  <2>2. /\ pass' \in Passes /\ pass'.order = seen /\ pass'.before = seen.status
        /\ pass'.fresh = seenFresh /\ pass'.result = "Done"
        /\ pass'.at \in {"Finalize", "Decide", "AddFinalizer"}
        /\ pass'.at = "Finalize" <=> seen.deleting
    BY <1>2, <1>6, <2>1 DEF StartPass, Passes, TypeOK
  <2>3. Active'
    BY <2>2, IdleIsNoPass DEF Active
  <2>4. TypeOK'
    BY <1>1, <1>2, <2>1, <2>2 DEF TypeOK, Exists
  <2>5. ReadGood(pass)'
    <3>1. seenFresh => order # None /\ order.status = seen.status /\ Agree(seen, order)
      BY <1>2, <1>6 DEF CacheGood, Agree
    <3>2. ~news => Known(seen, seen.status, order)
      BY <1>2, <1>6 DEF CacheGood
    <3> QED BY <1>1, <1>2, <1>4, <2>2, <3>1, <3>2 DEF ReadGood, CacheGood
  <2>6. Before(pass)' /\ StepGood(pass)'
    BY <2>2 DEF StepGood, Before, Rendering
  <2>7. PassGood'
    BY <2>5, <2>6 DEF PassGood
  <2>8. Wakes'
    BY <2>3 DEF Wakes
  <2>9. ServingGood'
    BY <1>1, <1>2, <2>2, <2>3 DEF ServingGood
  <2> QED BY <1>3, <2>4, <2>7, <2>8, <2>9 DEF Inductive
<1> QED BY <1>5, <1>6

LEMMA DecideInductive ==
  ASSUME Inductive, Decide
  PROVE  Inductive'
<1>1. /\ TypeOK /\ Active /\ pass.at = "Decide" /\ Before(pass) /\ pass.at # "Finalize"
      /\ pass.order.status = pass.before /\ pass.result = "Done"
      /\ StepGood(pass) /\ ~pass.order.deleting
  BY DEF Inductive, Decide, PassGood, StepGood, Before
<1>2. /\ UNCHANGED <<orderVars, productVars, servingVars, workVars>>
      /\ seenPreps' = seenPreps /\ preps' = preps
  BY DEF Decide, prepVars
<1>3. /\ seenProduct' = seenProduct /\ connected' = connected /\ valid' = valid
      /\ news' = news /\ queued' = queued
  BY <1>2 DEF productVars, orderVars, workVars
<1>4. /\ pass \in Passes /\ pass.order \in Orders /\ pass.order.status \in Statuses
      /\ pass.order.status.latest \in Nat /\ pass.order.status.latest <= Len(preps)
  BY <1>1, PassTyped DEF TypeOK, Statuses
<1>5. preps' \in Seq(Preparations) /\ Len(preps') >= Len(preps) /\ Len(preps) \in Nat
  BY <1>1, <1>2 DEF TypeOK
<1>6. edits' \in Nat /\ failures' \in Nat
  BY <1>1, BoundGrows DEF Decide
<1>7. Hash \in Intents /\ Hash # None /\ Hash = Calls(pass.order)
  BY <1>1, <1>4, NoneAssumption DEF Hash, Calls, Intents, TypeOK, Orders, Products
<1>8. ASSUME Continues(pass, pass'), pass'.at = "KeepServing",
             pass'.order.status.latest = pass.order.status.latest,
             pass'.result = "Done" => \/ ~Admitted
                                      \/ pass'.order.status.render = Hash /\ Status.render # Hash
                                      \/ Renders(pass'.order.status, Hash),
             pass'.result = "Terminal" => Hash \in Unrenderable
      PROVE  Inductive'
  <2>1. Calls(pass.order)' = Hash /\ Admitted' = Admitted
    BY <1>3, <1>7, <1>8 DEF Calls, Admitted, Continues, Agree
  <2>2. /\ pass'.order.status.latest = pass'.before.latest /\ ~pass'.order.deleting
        /\ pass'.before.render = Status.render
    BY <1>1, <1>8 DEF Continues, Agree, Status
  <2>3. Outcome(pass)'
    <3>1. pass'.result = "Done" =>
            \/ ~Admitted'
            \/ pass'.order.status.render \notin {None, pass'.before.render}
            \/ Renders(pass.order.status, Calls(pass.order))'
      BY <1>2, <1>7, <1>8, <2>1, <2>2 DEF Renders
    <3>2. pass'.result = "Terminal" => Calls(pass.order)' \in Unrenderable
      BY <1>8, <2>1
    <3> QED BY <2>2, <3>1, <3>2 DEF Outcome, Unrenderable
  <2>4. pass'.order.status.latest <= Len(preps')
    BY <1>2, <1>4, <1>8
  <2> QED BY <1>1, <1>2, <1>5, <1>6, <1>8, <2>3, <2>4, EndsInductive
<1>9. CASE FailAt("KeepServing")
  BY <1>4, <1>9, FailTyped, <1>8
<1>10. CASE (~valid \/ ~ReadyProduct \/ ~Connects) /\ Report("KeepServing", "Waiting", "Done")
  <2>1. ~Admitted
    BY <1>10 DEF Admitted, ReadyProduct, Connects
  <2> QED BY <1>4, <1>10, <2>1, ReportTyped, <1>8
<1>11. CASE Hash \in Refused /\ Report("KeepServing", "Failed", "Terminal")
  <2>1. Hash \in Unrenderable
    BY <1>11 DEF Unrenderable
  <2> QED BY <1>4, <1>11, <2>1, ReportTyped, <1>8
<1>12. CASE Status.latest # 0 /\ preps[Status.latest].intent = Hash /\ StaysUpToDate
  <2> DEFINE status == [pass.order.status EXCEPT !.render = None, !.ready = "Ready"]
             o == [pass.order EXCEPT !.status = status]
  <2>1. status \in Statuses /\ status.latest = pass.order.status.latest /\ status.render = None
    BY <1>4 DEF Statuses
  <2>2. pass' = [pass EXCEPT !.at = "KeepServing", !.order = o]
    BY <1>4, <1>12 DEF StaysUpToDate, Passes, Orders
  <2>3. /\ o \in Orders /\ o.status = status /\ Agree(pass.order, o)
        /\ o.finalizer = pass.order.finalizer
    <3> HIDE DEF status
    <3> QED BY <1>4, <2>1 DEF Orders, Agree
  <2> HIDE DEF status, o
  <2>4. /\ pass' \in Passes /\ pass'.at = "KeepServing" /\ pass'.order = o /\ pass'.result = "Done"
        /\ pass'.before = pass.before /\ pass'.fresh = pass.fresh
    BY <1>1, <1>4, <2>2, <2>3 DEF Passes
  <2>5. Continues(pass, pass')
    BY <2>3, <2>4 DEF Continues
  <2>6. Renders(pass'.order.status, Hash)
    BY <1>12, <2>1, <2>3, <2>4 DEF Renders, Status
  <2> QED BY <2>1, <2>3, <2>4, <2>5, <2>6, <1>8
<1>13. CASE /\ Status.render # Hash
            /\ pass' = [pass EXCEPT !.at = "KeepServing",
                                    !.order.status.render = Hash,
                                    !.order.status.ready = "Processing"]
  <2> DEFINE h == Hash
             status == [pass.order.status EXCEPT !.render = h, !.ready = "Processing"]
             o == [pass.order EXCEPT !.status = status]
  <2>a. h \in Intents
    BY <1>7
  <2>1. status \in Statuses /\ status.latest = pass.order.status.latest /\ status.render = h
    <3> HIDE DEF h
    <3> QED BY <1>4, <2>a DEF Statuses
  <2>2. pass' = [pass EXCEPT !.at = "KeepServing", !.order = o]
    BY <1>4, <1>13 DEF Passes, Orders
  <2>3. /\ o \in Orders /\ o.status = status /\ Agree(pass.order, o)
        /\ o.finalizer = pass.order.finalizer
    <3> HIDE DEF status
    <3> QED BY <1>4, <2>1 DEF Orders, Agree
  <2>b. status.render = Hash
    BY <2>1
  <2> HIDE DEF status, o, h
  <2>4. /\ pass' \in Passes /\ pass'.at = "KeepServing" /\ pass'.order = o /\ pass'.result = "Done"
        /\ pass'.before = pass.before /\ pass'.fresh = pass.fresh
    BY <1>1, <1>4, <2>2, <2>3 DEF Passes
  <2>5. Continues(pass, pass')
    BY <2>3, <2>4 DEF Continues
  <2> QED BY <1>13, <2>1, <2>b, <2>3, <2>4, <2>5, <1>8
<1>14. CASE Status.render = Hash /\ pass' = [pass EXCEPT !.at = "Render", !.hash = Hash]
  <2>1. /\ pass' \in Passes /\ pass'.at = "Render" /\ pass'.hash = Hash
        /\ pass'.order = pass.order /\ pass'.result = "Done"
        /\ pass'.before = pass.before /\ pass'.fresh = pass.fresh
    BY <1>1, <1>4, <1>7, <1>14 DEF Passes
  <2>2. Continues(pass, pass') /\ Before(pass)'
    BY <2>1 DEF Continues, Agree, Before
  <2>3. Calls(pass.order)' = Hash
    BY <1>3, <1>7, <2>1 DEF Calls
  <2>4. StepGood(pass)'
    BY <1>1, <1>7, <1>14, <2>1, <2>3 DEF StepGood, Before, Rendering, Status
  <2>5. /\ pass.at # "PatchStatus" /\ ~(pass'.at = "PatchStatus" /\ pass'.result = "Done")
        /\ pass'.order.status.latest <= Len(preps')
    BY <1>1, <1>2, <1>4, <2>1
  <2> QED BY <1>1, <1>2, <1>5, <1>6, <2>2, <2>4, <2>5, UnwrittenInductive
<1> QED BY <1>9, <1>10, <1>11, <1>12, <1>13, <1>14 DEF Decide

LEMMA AddFinalizerInductive ==
  ASSUME Inductive, AddFinalizer
  PROVE  Inductive'
<1>1. /\ TypeOK /\ Active /\ pass.at = "AddFinalizer" /\ Before(pass) /\ pass.at # "PatchStatus"
      /\ pass.order.status = pass.before /\ pass.result = "Done"
      /\ ReadGood(pass) /\ StepGood(pass) /\ ~pass.order.deleting
  BY DEF Inductive, AddFinalizer, PassGood, StepGood, Before
<1>2. /\ UNCHANGED <<productVars, prepVars, servingVars, workVars>>
      /\ seenPreps' = seenPreps /\ preps' = preps
  BY DEF AddFinalizer, prepVars
<1>3. /\ pass \in Passes /\ pass.order \in Orders /\ pass.order.status \in Statuses
      /\ pass.order.status.latest \in Nat /\ pass.order.status.latest <= Len(preps)
  BY <1>1, PassTyped DEF TypeOK, Statuses
<1>4. preps' \in Seq(Preparations) /\ Len(preps') >= Len(preps) /\ Len(preps) \in Nat
  BY <1>1, <1>2 DEF TypeOK
<1>5. edits' \in Nat /\ failures' \in Nat
  BY <1>1, BoundGrows DEF AddFinalizer
<1>6. CASE /\ pass.fresh /\ OwnWrite([order EXCEPT !.finalizer = TRUE])
           /\ \/ pass' = [pass EXCEPT !.at = "Decide", !.order.finalizer = TRUE]
              \/ pass' = [pass EXCEPT !.at = "PatchStatus", !.fresh = FALSE, !.result = "Retry"]
  <2> DEFINE new == [order EXCEPT !.finalizer = TRUE]
             o == [pass.order EXCEPT !.finalizer = TRUE]
  <2>1. order # None /\ order \in Orders
    BY <1>1, <1>6 DEF ReadGood, TypeOK
  <2>2. /\ new \in Orders /\ OwnWrite(new) /\ new.status = order.status /\ Agree(order, new)
        /\ order.finalizer => new.finalizer
    BY <1>6, <2>1 DEF Orders, Agree
  <2>3. /\ o \in Orders /\ o.status = pass.order.status /\ Agree(pass.order, o)
        /\ pass.order.finalizer => o.finalizer
    BY <1>3 DEF Orders, Agree
  <2>4. CASE pass' = [pass EXCEPT !.at = "Decide", !.order.finalizer = TRUE]
    <3>1. pass' = [pass EXCEPT !.at = "Decide", !.order = o]
      BY <1>3, <2>4 DEF Passes, Orders
    <3> HIDE DEF o, new
    <3>2. /\ pass' \in Passes /\ pass'.at = "Decide" /\ pass'.order = o /\ pass'.result = "Done"
          /\ pass'.before = pass.before /\ pass'.fresh = pass.fresh
      BY <1>1, <1>3, <2>3, <3>1 DEF Passes
    <3>3. Continues(pass, pass') /\ Before(pass)'
      BY <2>3, <3>2 DEF Continues, Before
    <3>4. StepGood(pass)'
      BY <1>1, <2>3, <3>2 DEF StepGood, Before, Rendering, Agree
    <3>5. /\ pass'.order.status.latest <= Len(preps)
          /\ ~(pass'.at = "PatchStatus" /\ pass'.result = "Done")
      BY <1>3, <2>3, <3>2
    <3> QED BY <1>1, <1>2, <1>5, <1>6, <2>2, <3>3, <3>4, <3>5, WrittenInductive
  <2>5. CASE pass' = [pass EXCEPT !.at = "PatchStatus", !.fresh = FALSE, !.result = "Retry"]
    <3> HIDE DEF o, new
    <3>1. /\ pass' \in Passes /\ pass'.at = "PatchStatus" /\ pass'.order = pass.order
          /\ pass'.result = "Retry" /\ pass'.before = pass.before /\ pass'.fresh = FALSE
      BY <1>3, <2>5 DEF Passes
    <3>2. Continues(pass, pass')
      BY <3>1 DEF Continues, Agree
    <3>3. StepGood(pass)' /\ Outcome(pass)'
      BY <1>1, <3>1 DEF StepGood, Before, Rendering, Outcome
    <3>4. /\ pass'.order.status.latest <= Len(preps)
          /\ ~(pass'.at = "PatchStatus" /\ pass'.result = "Done")
      BY <1>3, <3>1
    <3> QED BY <1>1, <1>2, <1>5, <1>6, <2>2, <3>2, <3>3, <3>4, WrittenInductive
  <2> HIDE DEF o, new
  <2> QED BY <1>6, <2>4, <2>5
<1>7. CASE UNCHANGED orderVars /\ FailAt("PatchStatus")
  BY <1>1, <1>2, <1>3, <1>4, <1>5, <1>7, FailTyped, RetriesInductive
<1> QED BY <1>6, <1>7 DEF AddFinalizer

LEMMA FinalizeInductive ==
  ASSUME Inductive, Finalize
  PROVE  Inductive'
<1>1. /\ TypeOK /\ Active /\ pass.at = "Finalize" /\ Before(pass) /\ pass.at # "PatchStatus"
      /\ pass.order.status = pass.before /\ pass.result = "Done"
      /\ ReadGood(pass) /\ StepGood(pass) /\ pass.order.deleting
  BY DEF Inductive, Finalize, PassGood, StepGood, Before
<1>2. /\ UNCHANGED <<productVars, prepVars, servingVars, workVars>>
      /\ seenPreps' = seenPreps /\ preps' = preps
  BY DEF Finalize, prepVars
<1>3. /\ pass \in Passes /\ pass.order \in Orders /\ pass.order.status \in Statuses
      /\ pass.order.status.latest \in Nat /\ pass.order.status.latest <= Len(preps)
  BY <1>1, PassTyped DEF TypeOK, Statuses
<1>4. preps' \in Seq(Preparations) /\ Len(preps') >= Len(preps) /\ Len(preps) \in Nat
  BY <1>1, <1>2 DEF TypeOK
<1>5. edits' \in Nat /\ failures' \in Nat
  BY <1>1, BoundGrows DEF Finalize
<1>6. pass.order.finalizer
  BY <1>1, <1>3, NoneAssumption DEF ReadGood, Finalized
<1>7. CASE OwnWrite(None) /\ Goto("PatchStatus")
  <2>1. /\ order' = None /\ seenFresh' = FALSE /\ news' = TRUE /\ uids' = uids /\ seen' = seen
    <3>1. news' = (news \/ Watched(order, None)) /\ Watched(order, None)
      BY <1>7 DEF OwnWrite, Write, Watched
    <3>2. news' = TRUE
      BY <3>1
    <3> QED BY <1>7, <3>2 DEF OwnWrite, Write
  <2>2. /\ pass' \in Passes /\ pass'.at = "PatchStatus" /\ pass'.order = pass.order
        /\ pass'.result = "Done" /\ pass'.before = pass.before /\ pass'.fresh = pass.fresh
    BY <1>1, <1>3, <1>7 DEF Goto, Passes
  <2>3. Continues(pass, pass') /\ Woken'
    BY <2>1, <2>2 DEF Continues, Agree, Woken
  <2>4. CacheGood'
    BY <2>1 DEF Inductive, CacheGood, Finalized
  <2>5. ReadGood(pass)'
    BY <1>1, <2>1, <2>2, <2>3 DEF ReadGood
  <2>6. StepGood(pass)' /\ Outcome(pass)'
    BY <1>1, <2>2, <2>3 DEF StepGood, Before, Rendering, Outcome
  <2>7. /\ order' \in Orders \cup {None} /\ order' # None => Exists(order)'
        /\ seenFresh' \in BOOLEAN /\ news' \in BOOLEAN
        /\ pass'.order.status.latest <= Len(preps')
        /\ pass'.at = "PatchStatus" /\ pass'.result = "Done" => news'
    BY <1>2, <1>3, <2>1, <2>2
  <2> QED BY <1>1, <1>2, <1>4, <1>5, <2>1, <2>3, <2>4, <2>5, <2>6, <2>7, StepInductive
<1>8. CASE UNCHANGED orderVars /\ FailAt("PatchStatus")
  BY <1>1, <1>2, <1>3, <1>4, <1>5, <1>8, FailTyped, RetriesInductive
<1> QED BY <1>6, <1>7, <1>8 DEF Finalize

\* What is left of a render that its intent fails.
LEMMA UnrenderableInductive ==
  ASSUME Inductive, Active, Rendering(pass), pass.at # "ConsumeMessage",
         UNCHANGED <<orderVars, productVars, prepVars, servingVars, workVars>>,
         Report("KeepServing", "PatchFailed", "Terminal"), pass.hash \in Misfits,
         edits' \in Nat, failures' \in Nat
  PROVE  Inductive'
<1>1. /\ TypeOK /\ pass \in Passes /\ Before(pass) /\ pass.at # "Finalize"
      /\ pass.order.status = pass.before /\ StepGood(pass) /\ ~pass.order.deleting
      /\ pass.order.status.latest <= Len(preps)
  BY PassTyped DEF Inductive, TypeOK, PassGood, StepGood, Before, Rendering
<1>2. /\ seenPreps' = seenPreps /\ preps' = preps /\ seenProduct' = seenProduct
      /\ queued' = queued /\ Len(preps) \in Nat
  BY <1>1 DEF prepVars, productVars, workVars, TypeOK
<1>3. /\ Continues(pass, pass') /\ pass'.at = "KeepServing" /\ pass'.result = "Terminal"
      /\ pass'.order.status.latest = pass.order.status.latest
  BY <1>1, ReportTyped
<1>4. ~queued => Calls(pass.order)' \in Unrenderable
  BY <1>1, <1>2, <1>3 DEF StepGood, Calls, Unrenderable, Continues, Agree
<1>5. Outcome(pass)'
  BY <1>1, <1>2, <1>3, <1>4 DEF Outcome, Continues, Agree, Unrenderable, Woken
<1>6. preps' \in Seq(Preparations) /\ Len(preps') >= Len(preps)
  BY <1>1, <1>2 DEF TypeOK
<1>7. pass'.order.status.latest <= Len(preps')
  BY <1>1, <1>2, <1>3
<1> QED BY <1>1, <1>2, <1>3, <1>5, <1>6, <1>7, EndsInductive

LEMMA RenderInductive ==
  ASSUME Inductive, Render
  PROVE  Inductive'
<1>1. /\ TypeOK /\ Active /\ pass.at = "Render" /\ Before(pass) /\ pass.at # "Finalize"
      /\ pass.order.status = pass.before /\ pass.result = "Done" /\ Rendering(pass)
      /\ StepGood(pass) /\ ~pass.order.deleting /\ pass.at # "ConsumeMessage"
  BY DEF Inductive, Render, PassGood, StepGood, Before, Rendering
<1>2. /\ UNCHANGED <<orderVars, productVars, prepVars, servingVars, workVars>>
      /\ seenPreps' = seenPreps /\ preps' = preps
  BY DEF Render, prepVars
<1>3. /\ pass \in Passes /\ pass.order \in Orders /\ pass.order.status \in Statuses
      /\ pass.order.status.latest \in Nat /\ pass.order.status.latest <= Len(preps)
  BY <1>1, PassTyped DEF TypeOK, Statuses
<1>4. preps' \in Seq(Preparations) /\ Len(preps') >= Len(preps) /\ Len(preps) \in Nat
  BY <1>1, <1>2 DEF TypeOK
<1>5. edits' \in Nat /\ failures' \in Nat
  BY <1>1, BoundGrows DEF Render
<1>6. CASE pass' = [pass EXCEPT !.at = "KeepServing", !.result = "Soon"]
  <2>1. /\ Continues(pass, pass') /\ pass'.at = "KeepServing" /\ pass'.result = "Soon"
        /\ pass'.order.status.latest = pass.order.status.latest
    BY <1>3, <1>6 DEF Passes, Continues, Agree
  <2> QED BY <1>1, <1>2, <1>4, <1>5, <2>1, RetriesInductive
<1>7. CASE pass.hash \in Misfits /\ RenderFailed
  BY <1>1, <1>2, <1>5, <1>7, UnrenderableInductive DEF RenderFailed
<1>8. CASE ~Connects /\ Report("KeepServing", "Waiting", "Done")
  <2>1. /\ Continues(pass, pass') /\ pass'.at = "KeepServing" /\ pass'.result = "Done"
        /\ pass'.order.status.latest = pass.order.status.latest
    BY <1>3, <1>8, ReportTyped
  <2>2. ~Admitted'
    BY <1>2, <1>8 DEF Admitted, Connects, productVars
  <2>3. Outcome(pass)'
    BY <1>1, <2>1, <2>2 DEF Outcome, Continues, Agree
  <2>4. pass'.order.status.latest <= Len(preps')
    BY <1>2, <1>3, <2>1
  <2> QED BY <1>1, <1>2, <1>4, <1>5, <2>1, <2>3, <2>4, EndsInductive
<1>9. CASE pass' = [pass EXCEPT !.at = "CreatePreparation", !.rendered = Rendered]
  <2>1. /\ Rendered \in Preparations /\ Rendered.parent = pass.before.latest
        /\ Rendered.intent = pass.hash
    BY <1>1, <1>3 DEF Rendered, Preparations, Orders, Status, StepGood
  <2>2. /\ pass' \in Passes /\ pass'.at = "CreatePreparation" /\ pass'.rendered = Rendered
        /\ pass'.order = pass.order /\ pass'.result = "Done" /\ pass'.hash = pass.hash
        /\ pass'.before = pass.before /\ pass'.fresh = pass.fresh
    <3> HIDE DEF Rendered
    <3> QED BY <1>1, <1>3, <1>9, <2>1 DEF Passes
  <2>3. Continues(pass, pass') /\ Before(pass)'
    BY <2>2 DEF Continues, Agree, Before
  <2>4. queued' = queued /\ Calls(pass.order)' = Calls(pass.order)
    BY <1>2, <2>2 DEF workVars, productVars, Calls
  <2>5. StepGood(pass)'
    BY <1>1, <2>1, <2>2, <2>4 DEF StepGood, Before, Rendering
  <2>6. /\ pass'.order.status.latest <= Len(preps') /\ pass.at # "PatchStatus"
        /\ ~(pass'.at = "PatchStatus" /\ pass'.result = "Done")
    BY <1>1, <1>2, <1>3, <2>2
  <2> QED BY <1>1, <1>2, <1>4, <1>5, <2>3, <2>5, <2>6, UnwrittenInductive
<1>10. CASE Report("KeepServing", "Failed", "Retry")
  <2>1. /\ Continues(pass, pass') /\ pass'.at = "KeepServing" /\ pass'.result = "Retry"
        /\ pass'.order.status.latest = pass.order.status.latest
    BY <1>3, <1>10, ReportTyped
  <2> QED BY <1>1, <1>2, <1>4, <1>5, <2>1, RetriesInductive
<1> QED BY <1>6, <1>7, <1>8, <1>9, <1>10 DEF Render

LEMMA CreatePreparationInductive ==
  ASSUME Inductive, CreatePreparation
  PROVE  Inductive'
<1>1. /\ TypeOK /\ Active /\ pass.at = "CreatePreparation" /\ Before(pass) /\ pass.at # "Finalize"
      /\ pass.order.status = pass.before /\ pass.result = "Done" /\ Rendering(pass)
      /\ StepGood(pass) /\ ~pass.order.deleting /\ pass.at # "ConsumeMessage"
      /\ pass.rendered \in Preparations /\ pass.rendered.parent = pass.before.latest
      /\ pass.rendered.intent = pass.hash
  BY DEF Inductive, CreatePreparation, PassGood, StepGood, Before, Rendering
<1>2. UNCHANGED <<orderVars, productVars, servingVars, workVars>> /\ seenPreps' = seenPreps
  BY DEF CreatePreparation, prepVars
<1>3. /\ pass \in Passes /\ pass.order \in Orders /\ pass.order.status \in Statuses
      /\ pass.order.status.latest \in Nat /\ pass.order.status.latest <= Len(preps)
      /\ preps \in Seq(Preparations) /\ Len(preps) \in Nat
  BY <1>1, PassTyped DEF TypeOK, Statuses
<1>4. preps' \in {preps, Append(preps, pass.rendered)}
  BY DEF CreatePreparation, prepVars
<1>5. preps' \in Seq(Preparations) /\ Len(preps') >= Len(preps)
  BY <1>1, <1>3, <1>4
<1>6. edits' \in Nat /\ failures' \in Nat
  BY <1>1, BoundGrows DEF CreatePreparation
<1>7. ASSUME NEW i \in DOMAIN preps', preps'[i] = pass.rendered,
             pass' = [pass EXCEPT !.at = "ConsumeMessage", !.prep = i]
      PROVE  Inductive'
  <2>1. i \in Nat
    BY <1>5
  <2>2. /\ pass' \in Passes /\ pass'.at = "ConsumeMessage" /\ pass'.prep = i
        /\ pass'.order = pass.order /\ pass'.result = "Done" /\ pass'.hash = pass.hash
        /\ pass'.before = pass.before /\ pass'.fresh = pass.fresh
    BY <1>1, <1>3, <1>7, <2>1 DEF Passes
  <2>3. Continues(pass, pass') /\ Before(pass)'
    BY <2>2 DEF Continues, Agree, Before
  <2>4. queued' = queued /\ Calls(pass.order)' = Calls(pass.order)
    BY <1>2, <2>2 DEF workVars, productVars, Calls
  <2>5. StepGood(pass)'
    BY <1>1, <1>7, <2>2, <2>4 DEF StepGood, Before, Rendering
  <2>6. /\ pass'.order.status.latest <= Len(preps') /\ pass.at # "PatchStatus"
        /\ ~(pass'.at = "PatchStatus" /\ pass'.result = "Done")
    BY <1>1, <1>3, <1>5, <2>2
  <2> QED BY <1>1, <1>2, <1>5, <1>6, <2>3, <2>5, <2>6, UnwrittenInductive
<1>8. CASE /\ preps' = Append(preps, pass.rendered)
           /\ pass' = [pass EXCEPT !.at = "ConsumeMessage", !.prep = Len(preps) + 1]
  <2>1. Len(preps) + 1 \in DOMAIN preps' /\ preps'[Len(preps) + 1] = pass.rendered
    BY <1>1, <1>3, <1>8
  <2> QED BY <1>7, <1>8, <2>1
<1>9. CASE /\ preps # <<>> /\ Last(preps) = pass.rendered /\ preps' = preps
           /\ pass' = [pass EXCEPT !.at = "ConsumeMessage", !.prep = Len(preps)]
  <2>1. Len(preps) \in DOMAIN preps' /\ preps'[Len(preps)] = pass.rendered
    BY <1>3, <1>9 DEF Last
  <2> QED BY <1>7, <1>9, <2>1
<1>10. ASSUME Report("KeepServing", "Failed", "Retry")
       PROVE  Inductive'
  <2>1. /\ Continues(pass, pass') /\ pass'.at = "KeepServing" /\ pass'.result = "Retry"
        /\ pass'.order.status.latest = pass.order.status.latest
    BY <1>3, <1>10, ReportTyped
  <2> QED BY <1>1, <1>2, <1>5, <1>6, <2>1, RetriesInductive
<1>11. CASE preps' = preps /\ RenderFailed
  <2>1. CASE pass.hash \in Misfits
    BY <1>1, <1>2, <1>6, <1>11, <2>1, UnrenderableInductive DEF RenderFailed, prepVars
  <2> QED BY <1>10, <1>11, <2>1 DEF RenderFailed
<1> QED BY <1>8, <1>9, <1>10, <1>11 DEF CreatePreparation, prepVars

LEMMA ConsumedTyped ==
  ASSUME pass \in Passes, pass.order \in Orders, pass.order.status \in Statuses,
         pass.prep \in Nat, ConsumeMessage
  PROVE  /\ Continues(pass, pass') /\ pass'.at = "KeepServing" /\ pass'.result = pass.result
         /\ pass'.order.status = UpToDate(Status, pass.prep)
<1> DEFINE status == UpToDate(Status, pass.prep)
           o == [pass.order EXCEPT !.message = FALSE, !.status = status]
           s == [pass.order EXCEPT !.status = status]
<1>1. status \in Statuses
  BY DEF UpToDate, Status, Statuses
<1> HIDE DEF status
<1>2. /\ o \in Orders /\ o.status = status /\ Agree(pass.order, o)
      /\ pass.order.finalizer => o.finalizer
      /\ s \in Orders /\ s.status = status /\ Agree(pass.order, s)
      /\ pass.order.finalizer => s.finalizer
  BY <1>1 DEF Orders, Agree
<1>3. \/ pass' = [pass EXCEPT !.at = "KeepServing", !.order = o]
      \/ pass' = [pass EXCEPT !.at = "KeepServing", !.fresh = FALSE, !.order = s]
      \/ pass' = [pass EXCEPT !.at = "KeepServing", !.order = s]
  BY DEF ConsumeMessage, status, Passes, Orders
<1> HIDE DEF o, s
<1>4. CASE pass' = [pass EXCEPT !.at = "KeepServing", !.order = o]
  BY <1>2, <1>4 DEF Passes, Continues, status
<1>5. CASE pass' = [pass EXCEPT !.at = "KeepServing", !.fresh = FALSE, !.order = s]
  BY <1>2, <1>5 DEF Passes, Continues, status
<1>6. CASE pass' = [pass EXCEPT !.at = "KeepServing", !.order = s]
  BY <1>2, <1>6 DEF Passes, Continues, status
<1> QED BY <1>3, <1>4, <1>5, <1>6

LEMMA ConsumeMessageInductive ==
  ASSUME Inductive, ConsumeMessage
  PROVE  Inductive'
<1>1. /\ TypeOK /\ Active /\ pass.at = "ConsumeMessage" /\ Before(pass) /\ pass.at # "Finalize"
      /\ pass.order.status = pass.before /\ pass.result = "Done" /\ Rendering(pass)
      /\ ReadGood(pass) /\ StepGood(pass) /\ ~pass.order.deleting /\ pass.at # "PatchStatus"
      /\ pass.prep \in DOMAIN preps /\ preps[pass.prep].parent = pass.before.latest
      /\ preps[pass.prep].intent = pass.hash
      /\ pass.hash \in Intents /\ pass.before.render = pass.hash
      /\ ~queued => pass.hash = Calls(pass.order)
  BY DEF Inductive, ConsumeMessage, PassGood, StepGood, Before, Rendering
<1>2. /\ UNCHANGED <<productVars, prepVars, servingVars, workVars>>
      /\ seenPreps' = seenPreps /\ preps' = preps /\ seenProduct' = seenProduct
      /\ queued' = queued
  BY DEF ConsumeMessage, prepVars, productVars, workVars
<1>3. /\ pass \in Passes /\ pass.order \in Orders /\ pass.order.status \in Statuses
      /\ preps \in Seq(Preparations) /\ Len(preps) \in Nat
      /\ pass.prep \in Nat /\ pass.prep # 0 /\ pass.prep <= Len(preps)
  BY <1>1, PassTyped DEF TypeOK, Statuses
<1>4. preps' \in Seq(Preparations) /\ Len(preps') >= Len(preps)
  BY <1>2, <1>3
<1>5. edits' \in Nat /\ failures' \in Nat
  BY <1>1, BoundGrows DEF ConsumeMessage
<1> DEFINE status == UpToDate(Status, pass.prep)
<1>6. /\ status \in Statuses /\ status.latest = pass.prep /\ status.render = None
  BY <1>3 DEF UpToDate, Status, Statuses
<1>7. /\ Continues(pass, pass') /\ pass'.at = "KeepServing" /\ pass'.order.status = status
      /\ pass'.result = "Done"
  BY <1>1, <1>3, ConsumedTyped
<1> HIDE DEF status
<1>8. StepGood(pass)' /\ pass'.order.status.latest <= Len(preps)
  BY <1>1, <1>3, <1>6, <1>7 DEF StepGood, Before, Rendering, Continues, Agree
<1>9. news => news'
  BY DEF ConsumeMessage, OwnWrite, Write, orderVars
<1>10. Outcome(pass)'
  <2>1. Calls(pass.order)' = Calls(pass.order)
    BY <1>2, <1>7 DEF Calls, Continues, Agree
  <2>2. ~queued => Renders(pass.order.status, Calls(pass.order))'
    BY <1>1, <1>2, <1>3, <1>6, <1>7, <2>1 DEF Renders
  <2> QED BY <1>1, <1>2, <1>3, <1>6, <1>7, <1>9, <2>2, NoneAssumption
          DEF Outcome, Continues, Agree, Woken
<1>11. ~(pass'.at = "PatchStatus" /\ pass'.result = "Done")
  BY <1>7
<1>12. CASE pass.fresh /\ OwnWrite([order EXCEPT !.message = FALSE])
  <2> DEFINE new == [order EXCEPT !.message = FALSE]
  <2>1. order # None /\ order \in Orders
    BY <1>1, <1>12 DEF ReadGood, TypeOK
  <2>2. /\ new \in Orders /\ OwnWrite(new) /\ new.status = order.status /\ Agree(order, new)
        /\ order.finalizer => new.finalizer
    BY <1>12, <2>1 DEF Orders, Agree
  <2> QED BY <1>1, <1>2, <1>5, <1>7, <1>8, <1>10, <1>11, <1>12, <2>2, WrittenInductive
<1>13. CASE UNCHANGED orderVars
  BY <1>1, <1>2, <1>4, <1>5, <1>7, <1>8, <1>10, <1>11, <1>13, UnwrittenInductive
<1> QED BY <1>12, <1>13 DEF ConsumeMessage

LEMMA KeepServingInductive ==
  ASSUME Inductive, KeepServing
  PROVE  Inductive'
<1>1. /\ TypeOK /\ CacheGood /\ Active /\ pass.at = "KeepServing" /\ ServingGood
      /\ ReadGood(pass) /\ StepGood(pass) /\ Outcome(pass)
  BY DEF Inductive, KeepServing, PassGood, Before
<1>2. /\ order' = order /\ uids' = uids /\ seen' = seen /\ seenFresh' = seenFresh
      /\ news' = news /\ product' = product /\ seenProduct' = seenProduct
      /\ connected' = connected /\ valid' = valid /\ preps' = preps
      /\ seenPreps' = seenPreps /\ seenServing' = seenServing /\ request' = request
      /\ timer' = timer /\ queued' = queued
  BY DEF KeepServing, orderVars, productVars, prepVars, workVars
<1>3. edits' \in Nat /\ failures' \in Nat
  BY <1>1, BoundGrows DEF KeepServing
<1>4. /\ pass \in Passes /\ pass.order \in Orders /\ pass.order.uid \in Nat
      /\ pass.order.uid # None /\ [owner |-> pass.order.uid] \in Servings
  BY <1>1, PassTyped, NoneAssumption DEF Orders, Servings
<1>5. /\ pass' \in Passes /\ pass'.at = "PatchStatus" /\ pass'.order = pass.order
      /\ pass'.before = pass.before /\ pass'.fresh = pass.fresh
      /\ pass'.result \in {pass.result, "Retry"}
      /\ pass'.result = "Terminal" => pass.result = "Terminal"
  BY <1>4 DEF KeepServing, Goto, Passes
<1>6. Active' /\ (Woken' <=> Woken) /\ ~Before(pass)'
  BY <1>2, <1>5, IdleIsNoPass DEF Active, Woken, Before
<1>7. /\ serving' \in Servings \cup {None} /\ servingNews' \in BOOLEAN
      /\ ~servingNews' => ~servingNews /\ serving' = serving
  <2>1. CASE serving' = serving /\ servingNews' = servingNews
    BY <1>1, <2>1 DEF TypeOK
  <2>2. CASE /\ serving' \in {serving, Created, Adopted(serving)}
             /\ servingNews' = (servingNews \/ serving' # serving)
    <3>1. serving # None => [serving EXCEPT !.owner = pass.order.uid] \in Servings
      BY <1>1, <1>4 DEF TypeOK, Servings
    <3>2. serving' \in Servings \cup {None}
      BY <1>1, <1>4, <2>2, <3>1 DEF TypeOK, Created, Adopted
    <3> QED BY <1>1, <2>2, <3>2 DEF TypeOK
  <2> QED BY <2>1, <2>2 DEF KeepServing
<1>8. TypeOK'
  BY <1>1, <1>2, <1>3, <1>5, <1>7 DEF TypeOK, Exists
<1>9. CacheGood'
  BY <1>1, <1>2 DEF CacheGood, Finalized
<1>10. PassGood'
  <2>1. ReadGood(pass)'
    BY <1>1, <1>2, <1>5, <1>6 DEF ReadGood
  <2>2. StepGood(pass)'
    BY <1>5 DEF StepGood, Before, Rendering
  <2>3. Outcome(pass)'
    BY <1>1, <1>2, <1>5, <1>6 DEF Outcome, Calls, Admitted, Renders
  <2> QED BY <2>1, <2>2, <2>3 DEF PassGood
<1>11. Wakes'
  BY <1>6 DEF Wakes
<1>12. ServingGood'
  <2>1. ~servingNews' => seenServing' = serving'
    BY <1>1, <1>2, <1>7 DEF ServingGood
  <2>2. ASSUME pass'.result = "Done", ~servingNews'
        PROVE  Owned' /\ Served(pass.order)'
    <3>1. seenServing = serving /\ serving' = serving
      BY <1>1, <1>7, <2>2 DEF ServingGood
    <3>2. serving' = IF serving = None
                     THEN IF pass.order.mode = "Automatic" /\ Status.latest # 0
                          THEN Created ELSE serving
                     ELSE IF serving.owner = pass.order.uid THEN serving
                     ELSE Adopted(serving)
      BY <1>4, <2>2, <3>1 DEF KeepServing, Passes
    <3>3. CASE serving = None
      <4>1. [owner |-> pass.order.uid] # None
        BY <1>4, NoneAssumption
      <4>2. ~(pass.order.mode = "Automatic" /\ Status.latest # 0)
        BY <3>1, <3>2, <3>3, <4>1 DEF Created
      <4> QED BY <1>5, <3>1, <3>3, <4>2 DEF Owned, Served, Status
    <3>4. CASE serving # None
      <4>1. serving \in Servings
        BY <1>1, <3>4 DEF TypeOK
      <4>2. serving.owner # None
        <5>1. SUFFICES ASSUME serving.owner = None PROVE FALSE
          OBVIOUS
        <5>2. serving = [serving EXCEPT !.owner = pass.order.uid]
          BY <1>4, <3>1, <3>2, <3>4, <5>1 DEF Adopted
        <5>3. [serving EXCEPT !.owner = pass.order.uid].owner = pass.order.uid
          BY <4>1 DEF Servings
        <5> QED BY <1>4, <5>1, <5>2, <5>3
      <4> QED BY <3>1, <3>4, <4>2 DEF Owned, Served
    <3> QED BY <3>3, <3>4
  <2> QED BY <1>6, <2>1, <2>2 DEF ServingGood
<1> QED BY <1>8, <1>9, <1>10, <1>11, <1>12 DEF Inductive

\* What patchStatus finds of the Order when nobody is about to wake it.
LEMMA PatchStatusRead ==
  ASSUME Inductive, PatchStatus, ~Woken
  PROVE  /\ Known(pass.order, pass.before, order) /\ Outcome(pass)
         /\ order # None /\ order \in Orders /\ Agree(pass.order, order)
         /\ Calls(pass.order) = Calls(order)
<1>1. TypeOK /\ Known(pass.order, pass.before, order) /\ Outcome(pass)
  BY DEF Inductive, PatchStatus, PassGood, Before, ReadGood
<1> QED BY <1>1 DEF Known, Agree, TypeOK, Calls

LEMMA PatchStatusInductive ==
  ASSUME Inductive, PatchStatus
  PROVE  Inductive'
<1> DEFINE new == [Status EXCEPT !.observed = TRUE]
<1>1. /\ TypeOK /\ CacheGood /\ Active /\ pass.at = "PatchStatus" /\ ServingGood
      /\ ReadGood(pass) /\ Outcome(pass)
  BY DEF Inductive, PatchStatus, PassGood, Before
<1>2. /\ pass' = Idle /\ ~Active' /\ queued' = queued
      /\ product' = product /\ seenProduct' = seenProduct
      /\ connected' = connected /\ valid' = valid /\ preps' = preps
      /\ seenPreps' = seenPreps /\ serving' = serving /\ seenServing' = seenServing
      /\ servingNews' = servingNews /\ request' = request
  BY DEF PatchStatus, productVars, prepVars, servingVars, Active
<1>3. edits' \in Nat /\ failures' \in Nat
  BY <1>1, BoundGrows DEF PatchStatus
<1>4. /\ pass \in Passes /\ pass.order \in Orders /\ pass.before \in Statuses
      /\ Status \in Statuses /\ Status.latest \in Nat /\ Status.latest <= Len(preps)
  BY <1>1, PassTyped DEF Status, Statuses, TypeOK, Exists
<1>5. /\ new \in Statuses /\ new.latest = Status.latest /\ new.render = Status.render
  BY <1>4 DEF Statuses
<1>6. timer' \in BOOLEAN
  <2>1. \A a, b \in BOOLEAN : (a \/ b) \in BOOLEAN
    OBVIOUS
  <2>2. /\ timer \in BOOLEAN /\ (pass.result \in {"Soon", "Retry"}) \in BOOLEAN
        /\ (pass.result # "Terminal") \in BOOLEAN
    BY <1>1 DEF TypeOK
  <2> QED BY <2>1, <2>2 DEF PatchStatus
<1> HIDE DEF new
<1> DEFINE Same  == UNCHANGED orderVars /\ new = pass.before
           Fails == /\ UNCHANGED orderVars
                    /\ order # None => timer' = (timer \/ pass.result # "Terminal")
           Writes == /\ order # None /\ pass.fresh
                     /\ OwnWrite([order EXCEPT !.status = new])
<1>7. Same \/ Fails \/ Writes
  BY DEF PatchStatus, Locked, new
<1>8. ~timer' => ~timer /\ pass.result \in {"Done", "Terminal"}
  <2>1. pass.result \in {"Done", "Soon", "Retry", "Terminal"}
    BY <1>4 DEF Passes
  <2>2. /\ ~timer' => ~timer
        /\ ~timer' => pass.result \notin {"Soon", "Retry"}
    BY <2>1 DEF PatchStatus
  <2> QED BY <2>1, <2>2
<1>9. UNCHANGED orderVars =>
        /\ order' = order /\ uids' = uids /\ seen' = seen /\ seenFresh' = seenFresh
        /\ news' = news
  BY DEF orderVars
<1>10. Writes =>
         /\ order \in Orders /\ order.status = pass.before /\ Agree(pass.order, order)
         /\ order' \in Orders /\ order' # None /\ order'.status = new /\ Agree(order, order')
         /\ order'.finalizer = order.finalizer
         /\ uids' = uids /\ seen' = seen /\ seenFresh' = FALSE
         /\ news' = (news \/ Watched(order, order'))
  <2> SUFFICES ASSUME Writes
               PROVE  /\ order \in Orders /\ order.status = pass.before
                      /\ Agree(pass.order, order)
                      /\ order' \in Orders /\ order' # None /\ order'.status = new
                      /\ Agree(order, order') /\ order'.finalizer = order.finalizer
                      /\ uids' = uids /\ seen' = seen /\ seenFresh' = FALSE
                      /\ news' = (news \/ Watched(order, order'))
    OBVIOUS
  <2>1. order \in Orders /\ order.status = pass.before /\ Agree(pass.order, order)
    BY <1>1 DEF ReadGood, TypeOK
  <2>2. order' = [order EXCEPT !.status = new]
    BY DEF OwnWrite, Write
  <2>3. /\ order' \in Orders /\ order'.status = new /\ Agree(order, order')
        /\ order'.finalizer = order.finalizer
    BY <1>5, <2>1, <2>2 DEF Orders, Agree
  <2> QED BY <2>1, <2>2, <2>3, NoneAssumption DEF OwnWrite, Write
<1>11. (Woken => Woken') /\ Admitted' = Admitted
       /\ (Writes => new.render \in {None, order.status.render} \/ news')
  <2>1. news => news'
    BY <1>7, <1>9, <1>10
  <2>2. Writes => new.render \in {None, order.status.render} \/ news'
    BY <1>10 DEF Watched
  <2> QED BY <1>2, <2>1, <2>2 DEF Woken, Admitted
<1>12. TypeOK'
  <2>1. /\ order' \in Orders \cup {None} /\ seenFresh' \in BOOLEAN /\ news' \in BOOLEAN
        /\ uids' = uids /\ seen' = seen
    <3>1. Watched(order, order') \in BOOLEAN
      BY DEF Watched
    <3> QED BY <1>1, <1>7, <1>9, <1>10, <3>1 DEF TypeOK
  <2>2. order' # None => order'.uid <= uids' /\ order'.status.latest <= Len(preps)
    <3>1. order # None => order.uid <= uids /\ order.status.latest <= Len(preps)
      BY <1>1 DEF TypeOK, Exists
    <3> QED BY <1>4, <1>5, <1>7, <1>9, <1>10, <3>1 DEF Agree
  <2> QED BY <1>1, <1>2, <1>3, <1>6, <2>1, <2>2 DEF TypeOK, Exists
<1>13. CacheGood'
  <2>1. CASE UNCHANGED orderVars
    BY <1>1, <1>9, <2>1 DEF CacheGood, Finalized
  <2>2. CASE Writes
    <3>1. Finalized(order')
      BY <1>1, <1>10, <2>2 DEF CacheGood, Finalized, Agree
    <3>2. ASSUME ~news'
          PROVE  seen # None /\ Known(seen, seen.status, order')
      <4>1. ~news /\ Known(seen, seen.status, order) /\ seen # None
        BY <1>1, <1>10, <2>2, <3>2 DEF CacheGood
      <4>2. new.latest = order.status.latest \/ order.status.render # None
        BY <1>1, <1>5, <1>10, <2>2 DEF Outcome, Status
      <4> QED BY <1>10, <1>11, <2>2, <3>2, <4>1, <4>2 DEF Known, Agree
    <3> QED BY <1>1, <1>10, <2>2, <3>1, <3>2 DEF CacheGood
  <2> QED BY <1>7, <2>1, <2>2
<1>14. PassGood'
  BY <1>2 DEF PassGood
<1>15. ASSUME ~Woken', ~timer', order' # None
       PROVE  /\ ~order'.deleting /\ Agree(pass.order, order') /\ ~Woken
              /\ Calls(order)' = Calls(pass.order) /\ Outcome(pass)
              /\ pass.result \in {"Done", "Terminal"}
              /\ pass.result = "Done" =>
                   \/ ~Admitted
                   \/ /\ Renders(Status, Calls(pass.order))
                      /\ Renders(order.status, Calls(order))'
  <2>1. ~Woken /\ ~news'
    BY <1>11, <1>15 DEF Woken
  <2>2. /\ Known(pass.order, pass.before, order) /\ Outcome(pass)
        /\ Agree(pass.order, order)
    BY <2>1, PatchStatusRead
  <2>3. Agree(pass.order, order')
    BY <1>7, <1>9, <1>10, <2>2 DEF Agree
  <2>4. Calls(order)' = Calls(pass.order)
    BY <1>2, <2>3 DEF Calls, Agree
  <2>5. ~pass.order.deleting /\ ~order'.deleting
    BY <1>8, <1>15, <2>1, <2>2, <2>3 DEF Outcome, Agree
  <2>6. ASSUME pass.result = "Done", Admitted
        PROVE  /\ Renders(Status, Calls(pass.order))
               /\ Renders(order.status, Calls(order))'
    <3>1. \/ Status.render \notin {None, pass.before.render}
          \/ Renders(Status, Calls(pass.order))
      BY <2>1, <2>2, <2>6 DEF Outcome, Status
    <3>2. ~Fails
      BY <1>15, <2>2, <2>6 DEF Known
    <3>3. CASE Same
      <4>1. Status.render = pass.before.render /\ Status.latest = pass.before.latest
        BY <1>5, <3>3
      <4>2. Renders(Status, Calls(pass.order)) /\ Status.render = None
        BY <3>1, <4>1 DEF Renders
      <4>3. order.status.latest = Status.latest /\ order.status.render = None
        BY <2>2, <4>1, <4>2 DEF Known
      <4> QED BY <1>2, <1>9, <2>3, <2>4, <3>3, <4>2, <4>3 DEF Renders
    <3>4. CASE Writes
      <4>1. Status.render \in {None, pass.before.render}
        BY <1>5, <1>10, <1>11, <2>1, <3>4
      <4>2. Renders(Status, Calls(pass.order))
        BY <3>1, <4>1
      <4> QED BY <1>2, <1>5, <1>10, <2>4, <3>4, <4>2 DEF Renders
    <3> QED BY <1>7, <3>2, <3>3, <3>4
  <2> QED BY <1>8, <1>15, <2>1, <2>2, <2>3, <2>4, <2>5, <2>6
<1>16. Wakes'
  <2>1. ASSUME ~Woken', ~timer', order' # None,
               Admitted', Calls(order)' \notin Unrenderable
        PROVE  Renders(order.status, Calls(order))'
    <3>1. pass.result = "Done"
      BY <1>15, <2>1 DEF Outcome
    <3> QED BY <1>11, <1>15, <2>1, <3>1
  <2> QED BY <1>15, <2>1 DEF Wakes, Settled, Unrenderable
<1>17. ServingGood'
  <2>1. ~servingNews' => seenServing' = serving'
    BY <1>1, <1>2 DEF ServingGood
  <2>2. ASSUME ~Woken', ~timer', ~servingNews', order' # None,
               Calls(order)' \notin Unrenderable
        PROVE  Owned' /\ (Admitted => Served(order)')
    <3>1. pass.result = "Done"
      BY <1>15, <2>2 DEF Outcome
    <3>2. Owned /\ Served(pass.order)
      BY <1>1, <1>2, <1>15, <2>2, <3>1 DEF ServingGood
    <3>3. Admitted => Status.latest # 0
      BY <1>15, <2>2, <3>1 DEF Renders
    <3> QED BY <1>2, <1>15, <2>2, <3>2, <3>3 DEF Owned, Served, Agree, Status
  <2> QED BY <1>2, <1>11, <2>1, <2>2 DEF ServingGood, Unrenderable
<1> QED BY <1>12, <1>13, <1>14, <1>16, <1>17 DEF Inductive

-----------------------------------------------------------------------------
(* The theorems.                                                           *)

LEMMA InitInductive == Init => Inductive
<1> SUFFICES ASSUME Init PROVE Inductive
  OBVIOUS
<1>1. PICK m \in Modes : order = NewOrder(1, 1, m)
  BY DEF Init
<1>2. /\ order \in Orders /\ order.status.latest = 0 /\ order.uid = 1 /\ ~order.deleting
  <2>1. 1 \in Nat /\ 1 \in 1 .. NumSpecs
    BY NumSpecsAssumption
  <2> QED BY <1>1, <2>1, NewOrderTyped
<1>3. /\ seen = order /\ seenFresh = TRUE /\ news = FALSE /\ uids = 1
      /\ preps = <<>> /\ seenPreps = 0 /\ serving = None /\ seenServing = None
      /\ servingNews = FALSE /\ request = FALSE /\ ~Active /\ pass = Idle
      /\ queued = TRUE /\ timer = FALSE /\ edits = 0 /\ failures = 0
      /\ connected = TRUE /\ valid = TRUE
  BY DEF Init, Active
<1>4. product \in Products /\ seenProduct \in Products
  <2>1. 1 \in 1 .. NumSources
    BY NumSourcesAssumption
  <2> QED BY <2>1 DEF Init, Products
<1>5. Len(preps) = 0 /\ preps \in Seq(Preparations)
  BY <1>3
<1>6. TypeOK
  <2>1. \A o \in {order, seen} \ {None} : Exists(o)
    BY <1>2, <1>3, <1>5 DEF Exists
  <2>2. uids \in Nat /\ edits \in Nat /\ failures \in Nat /\ seenPreps \in 0 .. Len(preps)
    BY <1>3, <1>5
  <2>3. /\ seenFresh \in BOOLEAN /\ news \in BOOLEAN /\ connected \in BOOLEAN
        /\ valid \in BOOLEAN /\ servingNews \in BOOLEAN /\ request \in BOOLEAN
        /\ queued \in BOOLEAN /\ timer \in BOOLEAN
    BY <1>3
  <2> QED BY <1>2, <1>3, <1>4, <1>5, <2>1, <2>2, <2>3 DEF TypeOK
<1>7. CacheGood
  BY <1>2, <1>3 DEF CacheGood, Finalized, Known, Agree
<1>8. PassGood /\ Wakes /\ ServingGood
  BY <1>3 DEF PassGood, Wakes, ServingGood, Woken
<1> QED BY <1>6, <1>7, <1>8 DEF Inductive

LEMMA StutterInductive ==
  ASSUME Inductive, UNCHANGED vars
  PROVE  Inductive'
<1>1. /\ TypeOK /\ ServingGood
      /\ UNCHANGED <<orderVars, preps, pass, seenPreps, productVars, servingVars, queued, timer>>
      /\ edits' = edits /\ failures' = failures
  BY DEF Inductive, vars, prepVars, workVars, editVars
<1>2. /\ seenPreps' \in 0 .. Len(preps) /\ product' \in Products /\ seenProduct' \in Products
      /\ connected' \in BOOLEAN /\ valid' \in BOOLEAN
      /\ serving' \in Servings \cup {None} /\ seenServing' \in Servings \cup {None}
      /\ servingNews' \in BOOLEAN /\ request' \in BOOLEAN /\ queued' \in BOOLEAN
      /\ timer' \in BOOLEAN /\ edits' \in Nat /\ failures' \in Nat
      /\ UNCHANGED <<seenProduct, connected, valid>>
      /\ serving' = serving
  BY <1>1 DEF TypeOK, productVars, servingVars
<1>3. /\ ~servingNews' => seenServing' = serving'
      /\ ~servingNews' /\ ~queued' => serving' = serving /\ ~servingNews
  BY <1>1 DEF ServingGood, servingVars
<1> QED BY <1>1, <1>2, <1>3, WorldInductive

LEMMA NextInductive == Inductive /\ [Next]_vars => Inductive'
<1> SUFFICES ASSUME Inductive, [Next]_vars PROVE Inductive'
  OBVIOUS
<1>1. CASE Pass
  BY <1>1, StartPassInductive, AddFinalizerInductive, FinalizeInductive, DecideInductive,
     RenderInductive, CreatePreparationInductive, ConsumeMessageInductive,
     KeepServingInductive, PatchStatusInductive DEF Pass
<1>2. CASE Informers
  BY <1>2, SyncOrderInductive, SyncsInductive DEF Informers
<1>3. CASE Environment
  BY <1>3, ChangeSpecInductive, DeleteOrderInductive, CreateOrderInductive, AroundInductive,
     OthersInductive DEF Environment
<1>4. CASE Requeue \/ Crash
  BY <1>4, AroundInductive, CrashInductive
<1>5. CASE UNCHANGED vars
  BY <1>5, StutterInductive
<1> QED BY <1>1, <1>2, <1>3, <1>4, <1>5 DEF Next

\* The inductive invariant of the Order and its controller: what a copy lacks wakes
\* the Order, and a pass that ends in quiet has done what the Order asks for.
THEOREM InductiveHolds == Spec => []Inductive
BY InitInductive, NextInductive, PTL DEF Spec

\* The Order, its copies and a pass over it keep their types, and name Orders and
\* Preparations that there were.
THEOREM TypeCorrect == Spec => []TypeOK
<1>1. Inductive => TypeOK
  BY DEF Inductive
<1> QED BY <1>1, InductiveHolds, PTL

\* What the invariant says once all is quiet.
LEMMA QuietHolds ==
  ASSUME Inductive, Quiet
  PROVE  /\ ~Active /\ ~Woken /\ ~timer /\ ~servingNews /\ ~Abandoned
         /\ Settled /\ seenProduct = product
         /\ order # None => Calls(order) = Wanted /\ order \in Orders
<1>1. ~news
  BY DEF Inductive, CacheGood, Quiet
<1>2. order # None => Calls(order) = Wanted /\ order \in Orders
  BY DEF Quiet, Calls, Wanted, Inductive, TypeOK
<1> QED BY <1>1, <1>2 DEF Inductive, Quiet, Woken, Wakes

\* No wake-up of a render is lost (renderStarted, productChanged, patchStatus):
\* once all is quiet, the latest Preparation renders what is asked for.
THEOREM IntentRenderedHolds == Spec => []IntentRendered
<1>1. Inductive => IntentRendered
  <2> SUFFICES ASSUME Inductive, Quiet
               PROVE  /\ order # None => ~order.deleting
                      /\ Renderable =>
                           /\ order.status.latest # 0
                           /\ preps[order.status.latest].intent = Wanted
                           /\ order.status.render = None
    BY DEF IntentRendered
  <2>1. order # None => ~order.deleting
    BY QuietHolds DEF Settled
  <2>2. ASSUME Renderable
        PROVE  Renders(order.status, Wanted)
    <3>1. Admitted /\ Calls(order) = Wanted /\ Wanted \notin Unrenderable
      BY <2>2, QuietHolds DEF Renderable, Admitted, Unrenderable
    <3> QED BY <2>2, <3>1, QuietHolds DEF Settled, Renderable
  <2> QED BY <2>1, <2>2 DEF Renders
<1> QED BY <1>1, InductiveHolds, PTL

\* Once all is quiet, the Serving goes with its Order, and an Automatic Order that
\* renders has one (ensureServing).
THEOREM ServingKeptHolds == Spec => []ServingKept
<1>1. Inductive => ServingKept
  <2> SUFFICES ASSUME Inductive, Quiet, order # None, Wanted \notin Refused \cup Misfits
               PROVE  /\ serving # None => serving.owner = order.uid
                      /\ Renderable /\ order.mode = "Automatic" => serving # None
    BY DEF ServingKept
  <2>1. Owned /\ (Admitted => Served(order))
    BY QuietHolds DEF Inductive, ServingGood, Unrenderable
  <2>2. serving # None => serving.owner = order.uid
    BY <2>1, QuietHolds DEF Owned, Abandoned
  <2>3. ASSUME Renderable, order.mode = "Automatic"
        PROVE  serving # None
    <3>1. Admitted /\ Calls(order) = Wanted /\ Wanted \notin Unrenderable
      BY <2>3, QuietHolds DEF Renderable, Admitted, Unrenderable
    <3>2. order.status.latest # 0
      BY <3>1, QuietHolds DEF Settled, Renders
    <3> QED BY <2>1, <2>3, <3>1, <3>2 DEF Served
  <2> QED BY <2>2, <2>3
<1> QED BY <1>1, InductiveHolds, PTL

\* Only the pass writes what the status of an Order names.
LEMMA LatestKept ==
  ASSUME Inductive, [Next]_vars, ~PatchStatus, order # None, order' # None
  PROVE  order'.uid = order.uid /\ order'.status.latest = order.status.latest
<1>1. /\ order \in Orders /\ order.status \in Statuses
  BY DEF Inductive, TypeOK, Orders
<1>2. CASE order' = order
  BY <1>2
<1>3. CASE AddFinalizer \/ ConsumeMessage
  <2>1. CASE order' = order
    BY <2>1
  <2>2. CASE order' \in {[order EXCEPT !.finalizer = TRUE], [order EXCEPT !.message = FALSE]}
    BY <1>1, <2>2 DEF Orders
  <2> QED BY <1>3, <2>1, <2>2 DEF AddFinalizer, ConsumeMessage, OwnWrite, Write, orderVars
<1>4. CASE Finalize
  BY <1>4 DEF Finalize, OwnWrite, Write, orderVars
<1>5. CASE ChangeSpec
  <2>1. PICK s \in 1 .. NumSpecs, m \in Modes, w \in {order.message, TRUE} :
          LET new == [order EXCEPT !.spec = s, !.mode = m, !.message = w] IN
          ForeignWrite([new EXCEPT !.status.observed = @ /\ s = order.spec /\ m = order.mode])
    BY <1>5 DEF ChangeSpec
  <2> QED BY <1>1, <2>1 DEF ForeignWrite, Write, Orders, Statuses
<1>6. CASE DeleteOrder
  <2>1. order' = [order EXCEPT !.deleting = TRUE, !.status.observed = FALSE]
    BY <1>6 DEF DeleteOrder, ForeignWrite, Write
  <2> QED BY <1>1, <2>1 DEF Orders, Statuses
<1>7. CASE CreateOrder
  BY <1>7 DEF CreateOrder
<1>8. ~AddFinalizer /\ ~ConsumeMessage /\ ~Finalize /\ ~ChangeSpec /\ ~DeleteOrder
        /\ ~CreateOrder => order' = order
  BY DEF Next, Pass, Informers, Environment, StartPass, Decide, Render, CreatePreparation,
         KeepServing, Requeue, Crash, SyncOrder, SyncProduct, SyncPreparations, SyncServing,
         ChangeProduct, ChangeAround, BeginPromote, EndPromote, CollectServing, vars, orderVars
<1> QED BY <1>2, <1>3, <1>4, <1>5, <1>6, <1>7, <1>8

\* The status goes on to a Preparation that was rendered from the one it named
\* (isLatest, the lock of patchStatus).
THEOREM ParentIsLatestHolds == Spec => ParentIsLatest
<1> DEFINE Named == /\ order'.status.latest # 0
                    /\ preps'[order'.status.latest].parent = order.status.latest
<1>1. ASSUME Inductive, [Next]_vars, order # None, order' # None,
             order'.status.latest # order.status.latest
      PROVE  Named
  <2>1. PatchStatus
    BY <1>1, LatestKept
  <2>2. /\ TypeOK /\ ReadGood(pass) /\ Outcome(pass) /\ preps' = preps
        /\ Status \in Statuses /\ pass.fresh
    BY <1>1, <2>1, PassTyped
       DEF Inductive, PatchStatus, PassGood, Before, Locked, orderVars, prepVars, Status
  <2>3. order \in Orders /\ order.status = pass.before
    BY <1>1, <2>2 DEF ReadGood, TypeOK
  <2>4. order' = [order EXCEPT !.status = [Status EXCEPT !.observed = TRUE]]
    BY <1>1, <2>1 DEF PatchStatus, OwnWrite, Write, orderVars
  <2>5. order'.status.latest = Status.latest
    BY <2>2, <2>3, <2>4 DEF Orders, Statuses
  <2> QED BY <1>1, <2>2, <2>3, <2>5 DEF Outcome, Status
<1>2. Inductive /\ [Next]_vars =>
        [(/\ order # None /\ order' # None /\ order'.uid = order.uid
          /\ order'.status.latest # order.status.latest)
         => /\ order'.status.latest # 0
            /\ preps'[order'.status.latest].parent = order.status.latest]_vars
  BY <1>1
<1> QED BY <1>2, InductiveHolds, PTL DEF Spec, ParentIsLatest

-----------------------------------------------------------------------------
(* Renders that are repeated: a second invariant, on top of the first.     *)

\* The Preparations that were rendered from the one the status names: only these
\* can be rendered again.
Open ==
  {i \in DOMAIN preps :
     order # None /\ preps[i].uid = order.uid /\ preps[i].parent = order.status.latest}

\* The pass has made the last Preparation, and its status is to name it.
Naming ==
  /\ Active
  /\ \/ pass.at = "ConsumeMessage"
     \/ ~Before(pass) /\ pass.order.status.latest # pass.before.latest

\* Whether the Order was changed since the pass asked the API server (isLatest).
Outdated == IF Active /\ pass.at = "CreatePreparation" /\ ~pass.fresh THEN 1 ELSE 0

\* Whether nothing has come between the last Preparation and the status yet.
Due == IF Naming /\ pass.fresh THEN 1 ELSE 0

Parents == \A i \in DOMAIN preps : preps[i].uid <= uids /\ preps[i].parent < i

\* What a pass that is to name the last Preparation knows of it.
NamesLast ==
  /\ preps # <<>> /\ preps[Len(preps)].uid = pass.order.uid
  /\ preps[Len(preps)].parent = pass.before.latest
  /\ pass.at = "ConsumeMessage" => pass.prep = Len(preps)
  /\ pass.at # "ConsumeMessage" => pass.order.status.latest = Len(preps)
  /\ pass.fresh => order # None

Progress ==
  /\ Active /\ pass.at = "CreatePreparation" => pass.rendered.uid = pass.order.uid
  /\ Naming => NamesLast

\* Among those that can be rendered again, one is the first of its intent.
Firsts == Open # {} => ~(Open \subseteq Repeated)

\* Every Preparation that is a repetition, or can be repeated, is charged to an
\* edit or a failure of its own: one that came between its render and the
\* status that was to name it.
Charged ==
  Cardinality(Repeated \cup Open) + Outdated <= edits + failures + Due

Accounts == Parents /\ Progress /\ Firsts /\ Charged

LEMMA Counted ==
  ASSUME TypeOK
  PROVE  /\ Len(preps) \in Nat /\ DOMAIN preps = 1 .. Len(preps)
         /\ \A i \in DOMAIN preps :
              preps[i] \in Preparations /\ preps[i].uid \in Nat /\ preps[i].parent \in Nat
         /\ IsFiniteSet(Repeated) /\ IsFiniteSet(Open) /\ IsFiniteSet(Repeated \cup Open)
         /\ Cardinality(Repeated) \in Nat /\ Cardinality(Repeated \cup Open) \in Nat
         /\ edits \in Nat /\ failures \in Nat
<1>1. preps \in Seq(Preparations) /\ edits \in Nat /\ failures \in Nat
  BY DEF TypeOK
<1>2. Len(preps) \in Nat /\ DOMAIN preps = 1 .. Len(preps)
  BY <1>1, LenProperties
<1>3. \A i \in DOMAIN preps : preps[i] \in Preparations
  BY <1>1, <1>2, ElementOfSeq
<1>4. IsFiniteSet(1 .. Len(preps))
  BY <1>2, FS_Interval
<1>5. Repeated \subseteq 1 .. Len(preps) /\ Open \subseteq 1 .. Len(preps)
  BY <1>2 DEF Repeated, Open
<1>6. IsFiniteSet(Repeated) /\ IsFiniteSet(Open) /\ IsFiniteSet(Repeated \cup Open)
  BY <1>4, <1>5, FS_Subset, FS_Union
<1>7. Cardinality(Repeated) \in Nat /\ Cardinality(Repeated \cup Open) \in Nat
  BY <1>6, FS_CardinalityType
<1> QED BY <1>1, <1>2, <1>3, <1>6, <1>7 DEF Preparations

LEMMA BoundCharged ==
  ASSUME TypeOK
  PROVE  /\ \A kind : Edit(kind) => /\ edits' \in Nat /\ failures' \in Nat
                                    /\ edits' + failures' = edits + failures + 1
         /\ Failure => /\ edits' \in Nat /\ failures' \in Nat
                       /\ edits' + failures' = edits + failures + 1
         /\ UNCHANGED editVars => /\ edits' \in Nat /\ failures' \in Nat
                                  /\ edits' + failures' = edits + failures
BY DEF TypeOK, Edit, Failure, editVars

\* What an account of the step before says of the one after, and what pays for it.
LEMMA PaidFor ==
  /\ \A x, y, z \in Nat : x + y + z \in Nat
  /\ \A c, d, n, m, u, v \in Nat : c <= d /\ d + u <= n /\ m + u >= n + v => c + v <= m
OBVIOUS

LEMMA Pays ==
  \A e, f, g, h, x, y, u, v \in Nat :
    \/ g + h >= e + f /\ x <= y /\ v <= u
    \/ g + h = e + f + 1 /\ x <= y + 1 /\ v <= u
    \/ g + h = e + f + 1 /\ x <= y /\ v <= u + 1
    => g + h + y + u >= e + f + x + v
OBVIOUS

\* A step that makes no Preparation, and after which none can be rendered again that
\* could not before, only needs to pay for what is no longer due.
LEMMA ChargedKept ==
  ASSUME TypeOK, Firsts, Charged, preps' = preps, edits' \in Nat, failures' \in Nat,
         Open' = Open \/ Open' = {},
         edits' + failures' + Due' + Outdated
           >= edits + failures + Due + Outdated'
  PROVE  Firsts' /\ Charged'
<1>1. Repeated' = Repeated
  BY DEF Repeated
<1>2. Firsts'
  BY <1>1 DEF Firsts
<1> DEFINE all == Repeated \cup Open  left == Repeated \cup Open'
<1>3. Cardinality(left) \in Nat /\ Cardinality(left) <= Cardinality(all)
  <2>1. left \subseteq all /\ IsFiniteSet(all)
    BY Counted
  <2>2. IsFiniteSet(left) /\ Cardinality(left) <= Cardinality(all)
    BY <2>1, FS_Subset
  <2> QED BY <2>2, FS_CardinalityType
<1>4. Cardinality(Repeated' \cup Open') = Cardinality(left)
  BY <1>1
<1>5. /\ Cardinality(all) \in Nat /\ edits \in Nat /\ failures \in Nat
      /\ Cardinality(all) + Outdated <= edits + failures + Due
  BY Counted DEF Charged
<1>6. /\ Due \in Nat /\ Outdated \in Nat /\ Due' \in Nat /\ Outdated' \in Nat
  BY DEF Due, Outdated
<1> HIDE DEF all, left
<1>7. Cardinality(left) + Outdated' <= edits' + failures' + Due'
  <2>1. edits + failures + Due \in Nat /\ edits' + failures' + Due' \in Nat
    BY <1>5, <1>6, PaidFor
  <2>2. edits' + failures' + Due' + Outdated >= edits + failures + Due + Outdated'
    OBVIOUS
  <2>3. PICK c \in Nat, d \in Nat :
          c = Cardinality(left) /\ d = Cardinality(all) /\ c <= d
    BY <1>3, <1>5
  <2>4. d + Outdated <= edits + failures + Due
    BY <1>5, <2>3
  <2>5. c + Outdated' <= edits' + failures' + Due'
    BY <1>6, <2>1, <2>2, <2>3, <2>4, PaidFor
  <2> QED BY <2>3, <2>5
<1> QED BY <1>2, <1>4, <1>7 DEF Charged

\* Which Preparations can be rendered again after a step of the Order.
LEMMA OpenKept ==
  ASSUME TypeOK, Parents, preps' = preps,
         \/ order' = None
         \/ order' # None /\ order'.uid = uids + 1
         \/ /\ order # None /\ order' # None /\ order'.uid = order.uid
            /\ order'.status.latest = order.status.latest
  PROVE  Open' = Open \/ Open' = {}
<1>1. CASE order' = None
  BY <1>1 DEF Open
<1>2. CASE order' # None /\ order'.uid = uids + 1
  <2>1. \A i \in DOMAIN preps : preps[i].uid # uids + 1
    BY Counted DEF Parents, TypeOK
  <2> QED BY <1>2, <2>1 DEF Open
<1>3. CASE /\ order # None /\ order' # None /\ order'.uid = order.uid
           /\ order'.status.latest = order.status.latest
  BY <1>3 DEF Open
<1> QED BY <1>1, <1>2, <1>3

\* Steps that leave the Order, the Preparations and the pass alone, and the end of
\* the process.
LEMMA WorldAccounts ==
  ASSUME TypeOK, Accounts, order' = order, uids' = uids, preps' = preps,
         edits' \in Nat, failures' \in Nat,
         \/ pass' = pass /\ edits' + failures' >= edits + failures
         \/ pass' = Idle /\ edits' + failures' = edits + failures + 1
  PROVE  Accounts'
<1>1. /\ edits \in Nat /\ failures \in Nat
      /\ Due \in 0 .. 1 /\ Outdated \in 0 .. 1
      /\ Due \in Nat /\ Outdated \in Nat /\ Due' \in Nat /\ Outdated' \in Nat
  BY DEF TypeOK, Due, Outdated
<1>2. Open' = Open
  BY DEF Open
<1>3. Parents'
  BY DEF Accounts, Parents
<1>4. CASE pass' = pass /\ edits' + failures' >= edits + failures
  <2>1. /\ Active' = Active /\ Naming' = Naming /\ Due' = Due /\ Outdated' = Outdated
        /\ Due <= Due' /\ Outdated' <= Outdated
    BY <1>4 DEF Active, Naming, Before, Due, Outdated
  <2>2. Progress'
    BY <1>4, <2>1 DEF Accounts, Progress, NamesLast
  <2>3. edits' + failures' + Due' + Outdated
          >= edits + failures + Due + Outdated'
    BY <1>1, <1>4, <2>1, Pays
  <2> QED BY <1>2, <1>3, <2>2, <2>3, ChargedKept DEF Accounts
<1>5. CASE pass' = Idle /\ edits' + failures' = edits + failures + 1
  <2>1. /\ ~Active' /\ ~Naming' /\ Due' = 0 /\ Outdated' = 0
        /\ Due <= Due' + 1 /\ Outdated' <= Outdated
    BY <1>1, <1>5 DEF Active, Naming, Due, Outdated
  <2>2. Progress'
    BY <2>1 DEF Progress
  <2>3. edits' + failures' + Due' + Outdated
          >= edits + failures + Due + Outdated'
    BY <1>1, <1>5, <2>1, Pays
  <2> QED BY <1>2, <1>3, <2>2, <2>3, ChargedKept DEF Accounts
<1> QED BY <1>4, <1>5

LEMMA WorldStepsAccounts ==
  ASSUME TypeOK, Accounts,
         \/ Requeue \/ Crash \/ Informers \/ ChangeProduct \/ ChangeAround
         \/ BeginPromote \/ EndPromote \/ CollectServing \/ UNCHANGED vars
  PROVE  Accounts'
<1>1. order' = order /\ uids' = uids /\ preps' = preps
  BY DEF Requeue, Crash, Informers, SyncOrder, SyncProduct, SyncPreparations, SyncServing,
         ChangeProduct, ChangeAround, BeginPromote, EndPromote, CollectServing, vars,
         orderVars, prepVars
<1>2. edits \in Nat /\ failures \in Nat
  BY DEF TypeOK
<1>3. CASE Crash
  BY <1>1, <1>3, BoundCharged, WorldAccounts DEF Crash
<1>4. CASE ~Crash
  <2>1. pass' = pass
    BY <1>4 DEF Requeue, Informers, SyncOrder, SyncProduct, SyncPreparations, SyncServing,
                ChangeProduct, ChangeAround, BeginPromote, EndPromote, CollectServing, vars
  <2>2. UNCHANGED editVars \/ \E kind : Edit(kind)
    BY <1>4 DEF Requeue, Informers, SyncOrder, SyncProduct, SyncPreparations, SyncServing,
                ChangeProduct, ChangeAround, BeginPromote, EndPromote, CollectServing, vars
  <2>3. edits' \in Nat /\ failures' \in Nat /\ edits' + failures' >= edits + failures
    <3>1. CASE UNCHANGED editVars
      BY <1>2, <3>1, BoundCharged
    <3>2. CASE \E kind : Edit(kind)
      BY <1>2, <3>2, BoundCharged
    <3> QED BY <2>2, <3>1, <3>2
  <2> QED BY <1>1, <2>1, <2>3, WorldAccounts
<1> QED BY <1>3, <1>4

\* Whoever changes the Order pays for what the pass was about to do.
LEMMA ForeignAccounts ==
  ASSUME Inductive, Accounts, ChangeSpec \/ DeleteOrder \/ CreateOrder
  PROVE  Accounts'
<1>1. /\ TypeOK /\ preps' = preps
      /\ pass' = IF Active THEN [pass EXCEPT !.fresh = FALSE] ELSE pass
  BY DEF Inductive, ChangeSpec, DeleteOrder, CreateOrder, ForeignWrite, prepVars
<1>2. /\ edits' \in Nat /\ failures' \in Nat
      /\ edits' + failures' = edits + failures + 1
  BY <1>1, BoundCharged DEF ChangeSpec, DeleteOrder, CreateOrder
<1>3. /\ Active' <=> Active
      /\ Active => /\ pass'.fresh = FALSE /\ pass'.at = pass.at /\ pass'.order = pass.order
                   /\ pass'.before = pass.before /\ pass'.rendered = pass.rendered
                   /\ pass'.prep = pass.prep
  <2>1. CASE Active
    <3>1. pass \in Passes /\ [pass EXCEPT !.fresh = FALSE] \in Passes
      BY <1>1, <2>1, PassTyped DEF Passes
    <3>2. [pass EXCEPT !.fresh = FALSE] # Idle
      BY <3>1, IdleIsNoPass
    <3> QED BY <1>1, <2>1, <3>1, <3>2 DEF Active, Passes
  <2>2. CASE ~Active
    BY <1>1, <2>2 DEF Active
  <2> QED BY <2>1, <2>2
<1>4. \/ order' = None
      \/ order' # None /\ order'.uid = uids' /\ uids' = uids + 1
      \/ /\ order # None /\ order' # None /\ order'.uid = order.uid /\ uids' = uids
         /\ order'.status.latest = order.status.latest
  <2>1. CASE CreateOrder
    BY <2>1, NewOrderTyped DEF CreateOrder, NewOrder
  <2>2. CASE order # None /\ (ChangeSpec \/ DeleteOrder)
    <3>1. uids' = uids
      BY <2>2 DEF ChangeSpec, DeleteOrder, ForeignWrite, Write
    <3>2. [Next]_vars
      BY <2>2 DEF Next, Environment
    <3>3. edits' = edits + 1 /\ edits \in Nat
      BY <1>1, <2>2 DEF ChangeSpec, DeleteOrder, Edit, TypeOK
    <3>4. ~PatchStatus
      BY <3>3 DEF PatchStatus, Failure, editVars
    <3> QED BY <2>2, <3>1, <3>2, <3>4, LatestKept
  <2> QED BY <2>1, <2>2 DEF ChangeSpec, DeleteOrder
<1>5. Parents'
  <2>1. uids \in Nat /\ \A i \in DOMAIN preps : preps[i].uid \in Nat
    BY <1>1, Counted DEF TypeOK
  <2>2. uids' \in {uids, uids + 1}
    BY DEF ChangeSpec, DeleteOrder, CreateOrder, ForeignWrite, Write
  <2> QED BY <1>1, <2>1, <2>2 DEF Accounts, Parents
<1>6. (Naming' <=> Naming) /\ Due' = 0
  BY <1>3 DEF Naming, Before, Due
<1>7. Progress'
  <2>1. Active' /\ pass'.at = "CreatePreparation" => pass'.rendered.uid = pass'.order.uid
    BY <1>3 DEF Accounts, Progress
  <2>2. ASSUME Naming'
        PROVE  NamesLast'
    <3>1. NamesLast /\ Active
      BY <1>6, <2>2 DEF Accounts, Progress, Naming
    <3> QED BY <1>1, <1>3, <3>1 DEF NamesLast
  <2> QED BY <2>1, <2>2 DEF Progress
<1>8. Outdated' = 0 \/ Due = 0
  BY <1>3 DEF Outdated, Due, Naming, Before
<1>9. edits' + failures' + Due' + Outdated
        >= edits + failures + Due + Outdated'
  <2>1. /\ edits \in Nat /\ failures \in Nat
        /\ Due \in Nat /\ Outdated \in Nat /\ Due' \in Nat /\ Outdated' \in Nat
    BY <1>1 DEF TypeOK, Due, Outdated
  <2>2. \/ Due <= Due' + 1 /\ Outdated' <= Outdated
        \/ Due <= Due' /\ Outdated' <= Outdated + 1
    BY <1>6, <1>8 DEF Due, Outdated
  <2> QED BY <1>2, <2>1, <2>2, Pays
<1>10. Open' = Open \/ Open' = {}
  BY <1>1, <1>4, OpenKept DEF Accounts
<1> QED BY <1>1, <1>2, <1>5, <1>7, <1>9, <1>10, ChargedKept DEF Accounts

\* Steps of the pass that make no Preparation and write no status: up to the render,
\* and from the Preparation on to the status.
LEMMA ReadsAccounts ==
  ASSUME TypeOK, Accounts, uids' = uids, preps' = preps, Open' = Open \/ Open' = {},
         Due = 0, edits' \in Nat, failures' \in Nat, edits' + failures' >= edits + failures,
         Active' => /\ pass'.at # "ConsumeMessage"
                    /\ pass'.order.status.latest = pass'.before.latest
                    /\ pass'.at = "CreatePreparation" =>
                         pass'.fresh /\ pass'.rendered.uid = pass'.order.uid
  PROVE  Accounts'
<1>1. ~Naming' /\ Outdated' = 0
  BY DEF Naming, Outdated
<1>2. Parents' /\ Progress'
  BY <1>1 DEF Accounts, Parents, Progress
<1>3. /\ edits \in Nat /\ failures \in Nat
      /\ Due \in Nat /\ Outdated \in Nat /\ Due' \in Nat /\ Outdated' \in Nat
      /\ Due <= Due' /\ Outdated' <= Outdated
  BY <1>1 DEF TypeOK, Due, Outdated
<1>4. edits' + failures' + Due' + Outdated >= edits + failures + Due + Outdated'
  BY <1>3, Pays
<1> QED BY <1>2, <1>4, ChargedKept DEF Accounts

LEMMA NothingDue ==
  ASSUME \/ ~Active
         \/ pass.at \in {"AddFinalizer", "Finalize", "Decide", "Render", "CreatePreparation"}
  PROVE  Due = 0
BY DEF Due, Naming, Before

LEMMA BoundKept ==
  ASSUME TypeOK, UNCHANGED editVars \/ Failure
  PROVE  /\ edits' \in Nat /\ failures' \in Nat
         /\ edits' + failures' >= edits + failures
<1>1. edits \in Nat /\ failures \in Nat
  BY DEF TypeOK
<1>2. CASE UNCHANGED editVars
  BY <1>1, <1>2, BoundCharged
<1>3. CASE Failure
  BY <1>1, <1>3, BoundCharged
<1> QED BY <1>2, <1>3

LEMMA StartPassAccounts ==
  ASSUME Inductive, Accounts, StartPass
  PROVE  Accounts'
<1>1. /\ TypeOK /\ order' = order /\ uids' = uids /\ preps' = preps /\ ~Active
      /\ UNCHANGED editVars
  BY DEF Inductive, StartPass, orderVars, prepVars
<1>2. Open' = Open
  BY <1>1 DEF Open
<1>3. Active' => /\ pass'.at # "ConsumeMessage"
                 /\ pass'.order.status.latest = pass'.before.latest
                 /\ pass'.at # "CreatePreparation"
  BY DEF StartPass, Active
<1> QED BY <1>1, <1>2, <1>3, NothingDue, BoundKept, ReadsAccounts

\* The steps before a Preparation: none changes what the status names.
LEMMA PreparesAccounts ==
  ASSUME Inductive, Accounts, AddFinalizer \/ Finalize \/ Decide \/ Render
  PROVE  Accounts'
<1>1. /\ TypeOK /\ preps' = preps /\ Active
      /\ pass.at \in {"AddFinalizer", "Finalize", "Decide", "Render"}
  BY DEF Inductive, AddFinalizer, Finalize, Decide, Render, prepVars
<1>2. /\ pass \in Passes /\ pass.order \in Orders /\ pass.order.status \in Statuses
      /\ pass.order.status = pass.before
  BY <1>1, PassTyped DEF Inductive, PassGood, StepGood, Before
<1>3. uids' = uids
  BY DEF AddFinalizer, Finalize, Decide, Render, OwnWrite, Write, orderVars
<1>4. UNCHANGED editVars \/ Failure
  BY DEF AddFinalizer, Finalize, Decide, Render
<1>5. Open' = Open \/ Open' = {}
  <2>1. CASE order = None
    <3>1. order' = None
      BY <1>1, <2>1 DEF AddFinalizer, Finalize, Decide, Render, OwnWrite, Write, orderVars,
                        Inductive, PassGood, ReadGood
    <3> QED BY <1>1, <3>1, OpenKept DEF Accounts
  <2>2. CASE order # None
    <3>1. [Next]_vars
      BY DEF Next, Pass
    <3>2. ~PatchStatus
      BY <1>1 DEF PatchStatus
    <3> QED BY <1>1, <2>2, <3>1, <3>2, LatestKept, OpenKept DEF Accounts
  <2> QED BY <2>1, <2>2
<1>6. /\ pass'.at # "ConsumeMessage"
      /\ pass'.order.status.latest = pass'.before.latest
      /\ pass'.at = "CreatePreparation" =>
           pass'.fresh /\ pass'.rendered.uid = pass'.order.uid
  <2>1. CASE AddFinalizer
    <3>1. /\ pass.order.status.latest = pass.before.latest
          /\ [pass.order EXCEPT !.finalizer = TRUE].status = pass.order.status
      BY <1>2 DEF Orders
    <3>2. \/ pass' = [pass EXCEPT !.at = "Decide", !.order = [@ EXCEPT !.finalizer = TRUE]]
          \/ pass' = [pass EXCEPT !.at = "PatchStatus", !.fresh = FALSE, !.result = "Retry"]
          \/ FailAt("PatchStatus")
      BY <2>1 DEF AddFinalizer
    <3> QED BY <1>2, <3>1, <3>2 DEF FailAt, Passes
  <2>2. CASE Finalize
    BY <1>2, <2>2 DEF Finalize, Goto, FailAt, Passes
  <2>3. ASSUME NEW at \in {"KeepServing", "PatchStatus"},
               NEW ready \in {"Waiting", "Failed", "PatchFailed"},
               NEW result \in {"Done", "Retry", "Terminal"}, Report(at, ready, result)
        PROVE  /\ pass'.at # "ConsumeMessage" /\ pass'.at # "CreatePreparation"
               /\ pass'.order.status.latest = pass'.before.latest
    BY <1>2, <2>3, ReportTyped DEF Continues
  <2>4. CASE Decide
    <3> DEFINE h == Hash
               upToDate == [pass.order.status EXCEPT !.render = None, !.ready = "Ready"]
               recorded == [pass.order.status EXCEPT !.render = h, !.ready = "Processing"]
               o == [pass.order EXCEPT !.status = upToDate]
               r == [pass.order EXCEPT !.status = recorded]
    <3>1. o.status.latest = pass.before.latest /\ r.status.latest = pass.before.latest
      <4>1. upToDate.latest = pass.before.latest /\ recorded.latest = pass.before.latest
        <5> HIDE DEF h
        <5> QED BY <1>2 DEF Statuses
      <4> HIDE DEF upToDate, recorded
      <4> QED BY <1>2, <4>1 DEF Orders
    <3>0. pass \in Passes /\ pass.order \in Orders /\ pass.order.status \in Statuses
      BY <1>2
    <3>2. ASSUME StaysUpToDate
          PROVE  pass' = [pass EXCEPT !.at = "KeepServing", !.order = o]
      BY <3>0, <3>2 DEF StaysUpToDate, Passes, Orders
    <3>3. ASSUME pass' = [pass EXCEPT !.at = "KeepServing", !.order.status.render = Hash,
                                      !.order.status.ready = "Processing"]
          PROVE  pass' = [pass EXCEPT !.at = "KeepServing", !.order = r]
      BY <3>0, <3>3 DEF Passes, Orders
    <3>4. \/ StaysUpToDate
          \/ pass' = [pass EXCEPT !.at = "KeepServing", !.order.status.render = Hash,
                                  !.order.status.ready = "Processing"]
          \/ pass' = [pass EXCEPT !.at = "Render", !.hash = Hash]
          \/ FailAt("KeepServing")
          \/ Report("KeepServing", "Waiting", "Done")
          \/ Report("KeepServing", "Failed", "Terminal")
      BY <2>4, Zenon DEF Decide
    <3> HIDE DEF o, r
    <3>5. CASE Report("KeepServing", "Waiting", "Done")
      BY <2>3, <3>5
    <3>6. CASE Report("KeepServing", "Failed", "Terminal")
      BY <2>3, <3>6
    <3>7. CASE FailAt("KeepServing")
      BY <1>2, <3>7 DEF FailAt, Passes
    <3>8. CASE pass' = [pass EXCEPT !.at = "Render", !.hash = Hash]
      BY <1>2, <3>8 DEF Passes
    <3>9. CASE pass' = [pass EXCEPT !.at = "KeepServing", !.order = o]
      BY <1>2, <3>1, <3>9 DEF Passes
    <3>10. CASE pass' = [pass EXCEPT !.at = "KeepServing", !.order = r]
      BY <1>2, <3>1, <3>10 DEF Passes
    <3> QED BY <3>2, <3>3, <3>4, <3>5, <3>6, <3>7, <3>8, <3>9, <3>10
  <2>5. CASE Render
    <3>1. \/ pass' = [pass EXCEPT !.at = "KeepServing", !.result = "Soon"]
          \/ pass.fresh /\ pass' = [pass EXCEPT !.at = "CreatePreparation", !.rendered = Rendered]
          \/ Report("KeepServing", "PatchFailed", "Terminal")
          \/ Report("KeepServing", "Failed", "Retry")
          \/ Report("KeepServing", "Waiting", "Done")
      BY <2>5 DEF Render, RenderFailed, IsLatest
    <3>2. CASE pass.fresh /\ pass' = [pass EXCEPT !.at = "CreatePreparation", !.rendered = Rendered]
      BY <1>2, <3>2 DEF Passes, Rendered
    <3>3. CASE pass' = [pass EXCEPT !.at = "KeepServing", !.result = "Soon"]
      BY <1>2, <3>3 DEF Passes
    <3> QED BY <2>3, <3>1, <3>2, <3>3
  <2> QED BY <2>1, <2>2, <2>4, <2>5
<1> QED BY <1>1, <1>3, <1>4, <1>5, <1>6, NothingDue, BoundKept, ReadsAccounts

\* The Preparation stays due until the status names it, or a failure comes in between.
LEMMA KeepServingAccounts ==
  ASSUME Inductive, Accounts, KeepServing
  PROVE  Accounts'
<1>1. /\ TypeOK /\ order' = order /\ uids' = uids /\ preps' = preps
      /\ Active /\ pass.at = "KeepServing" /\ pass \in Passes
  BY PassTyped DEF Inductive, KeepServing, orderVars, prepVars
<1>2. /\ edits' \in Nat /\ failures' \in Nat /\ edits' + failures' >= edits + failures
  BY <1>1, BoundKept DEF KeepServing
<1>3. /\ pass' \in Passes /\ pass'.at = "PatchStatus" /\ pass'.order = pass.order
      /\ pass'.before = pass.before /\ pass'.fresh = pass.fresh
  BY <1>1 DEF KeepServing, Goto, Passes
<1>4. Active'
  BY <1>3, IdleIsNoPass DEF Active
<1>5. /\ Naming' <=> Naming
      /\ Due' = Due /\ Outdated' = 0
  BY <1>1, <1>3, <1>4 DEF Naming, Before, Due, Outdated
<1>6. Parents'
  BY <1>1 DEF Accounts, Parents
<1>7. Progress'
  <2>1. ASSUME Naming'
        PROVE  NamesLast'
    <3>1. NamesLast
      BY <1>5, <2>1 DEF Accounts, Progress
    <3> QED BY <1>1, <1>3, <3>1 DEF NamesLast
  <2> QED BY <1>3, <2>1 DEF Progress
<1>8. edits' + failures' + Due' + Outdated >= edits + failures + Due + Outdated'
  <2>1. /\ edits \in Nat /\ failures \in Nat
        /\ Due \in Nat /\ Outdated \in Nat /\ Due' \in Nat /\ Outdated' \in Nat
        /\ Due <= Due' /\ Outdated' <= Outdated
    BY <1>1, <1>5 DEF TypeOK, Due, Outdated
  <2> QED BY <1>2, <2>1, Pays
<1>9. Open' = Open
  BY <1>1 DEF Open
<1> QED BY <1>1, <1>2, <1>6, <1>7, <1>8, <1>9, ChargedKept DEF Accounts

LEMMA ConsumeMessageAccounts ==
  ASSUME Inductive, Accounts, ConsumeMessage
  PROVE  Accounts'
<1>1. /\ TypeOK /\ preps' = preps /\ Active /\ pass.at = "ConsumeMessage"
      /\ pass \in Passes /\ pass.order \in Orders /\ pass.order.status \in Statuses
      /\ pass.order.status = pass.before /\ NamesLast /\ Naming
  BY PassTyped DEF Inductive, ConsumeMessage, PassGood, StepGood, Before, prepVars, Accounts,
                   Progress, Naming
<1>2. uids' = uids
  BY DEF ConsumeMessage, OwnWrite, Write, orderVars
<1>3. \/ order' = order
      \/ /\ order # None /\ order' # None /\ order'.uid = order.uid
         /\ order'.status.latest = order.status.latest
  <2>1. CASE UNCHANGED orderVars
    BY <2>1 DEF orderVars
  <2>2. CASE pass.fresh /\ OwnWrite([order EXCEPT !.message = FALSE])
    <3>1. order \in Orders /\ order # None
      BY <1>1, <2>2 DEF NamesLast, TypeOK
    <3>2. order' = [order EXCEPT !.message = FALSE] /\ order' \in Orders
      BY <2>2, <3>1 DEF OwnWrite, Write, Orders
    <3> QED BY <3>1, <3>2, NoneAssumption DEF Orders
  <2> QED BY <2>1, <2>2 DEF ConsumeMessage
<1>4. Open' = Open \/ Open' = {}
  BY <1>1, <1>3, OpenKept DEF Accounts, Open
<1>5. /\ pass'.at = "KeepServing" /\ pass'.before = pass.before
      /\ pass'.order.uid = pass.order.uid /\ pass'.order.status.latest = Len(preps)
      /\ Active'
  <2>1. pass.prep = Len(preps) /\ Len(preps) \in Nat
    BY <1>1 DEF NamesLast, TypeOK
  <2>2. /\ Continues(pass, pass') /\ pass'.at = "KeepServing"
        /\ pass'.order.status = UpToDate(Status, pass.prep)
    BY <1>1, <2>1, ConsumedTyped
  <2>3. UpToDate(Status, pass.prep).latest = Len(preps)
    BY <1>1, <2>1 DEF UpToDate, Status, Statuses
  <2> QED BY <2>2, <2>3, IdleIsNoPass DEF Continues, Agree, Active
<1>6. \/ pass'.fresh = pass.fresh /\ (UNCHANGED editVars \/ Failure)
      \/ pass'.fresh = FALSE /\ Failure
  BY <1>1 DEF ConsumeMessage, Passes
<1>7. Naming'
  <2>1. Len(preps) \in DOMAIN preps /\ Len(preps) \in Nat
    BY <1>1, Counted, EmptySeq DEF NamesLast, TypeOK
  <2>2. pass.before.latest < Len(preps) /\ pass.before.latest \in Nat
    BY <1>1, <2>1 DEF NamesLast, Accounts, Parents, Statuses
  <2>3. pass'.order.status.latest # pass'.before.latest
    BY <1>5, <2>1, <2>2
  <2> QED BY <1>5, <2>3 DEF Naming, Before
<1>8. Progress'
  <2>1. pass'.fresh => order' # None
    BY <1>1, <1>3, <1>6 DEF NamesLast
  <2>2. NamesLast'
    BY <1>1, <1>5, <2>1 DEF NamesLast
  <2> QED BY <1>5, <2>2 DEF Progress
<1>9. edits' \in Nat /\ failures' \in Nat
  BY <1>1, <1>6, BoundKept
<1>10. edits' + failures' + Due' + Outdated >= edits + failures + Due + Outdated'
  <2>1. /\ edits \in Nat /\ failures \in Nat
        /\ Due \in Nat /\ Outdated \in Nat /\ Due' \in Nat /\ Outdated' \in Nat
        /\ Outdated' <= Outdated /\ Due <= Due' + 1
    BY <1>1, <1>5 DEF TypeOK, Due, Outdated
  <2>2. CASE pass'.fresh = pass.fresh /\ (UNCHANGED editVars \/ Failure)
    <3>1. Due <= Due'
      BY <1>1, <1>7, <2>2 DEF Due
    <3> QED BY <1>1, <1>9, <2>1, <2>2, <3>1, BoundKept, Pays
  <2>3. CASE Failure
    BY <1>1, <1>9, <2>1, <2>3, BoundCharged, Pays
  <2> QED BY <1>6, <2>2, <2>3
<1> QED BY <1>1, <1>2, <1>4, <1>8, <1>9, <1>10, ChargedKept DEF Accounts, Parents

LEMMA AppendLonger ==
  ASSUME NEW S, NEW s \in Seq(S), NEW e \in S
  PROVE  Append(s, e) # s
<1>1. Len(Append(s, e)) = Len(s) + 1 /\ Len(s) \in Nat
  BY AppendProperties, LenProperties
<1> SUFFICES ASSUME Append(s, e) = s PROVE FALSE
  OBVIOUS
<1> QED BY <1>1

\* What a new Preparation adds to those that are repetitions, or can be repeated.
LEMMA AppendAccounts ==
  ASSUME TypeOK, Firsts, order' = order,
         NEW r \in Preparations, preps' = Append(preps, r)
  PROVE  /\ Firsts'
         /\ Cardinality(Repeated' \cup Open') \in Nat
         /\ Cardinality(Repeated' \cup Open') <= Cardinality(Repeated \cup Open) + 1
<1> DEFINE n == Len(preps) + 1
<1>1. /\ preps \in Seq(Preparations) /\ Len(preps) \in Nat /\ DOMAIN preps = 1 .. Len(preps)
  BY Counted DEF TypeOK
<1>2. /\ DOMAIN preps' = DOMAIN preps \cup {n} /\ n \notin DOMAIN preps
      /\ \A i \in DOMAIN preps : preps'[i] = preps[i]
  BY <1>1, AppendProperties
<1>3. \A i \in DOMAIN preps : 1 .. i - 1 \subseteq DOMAIN preps
  BY <1>1
<1>4. \A i \in DOMAIN preps : (i \in Repeated' <=> i \in Repeated) /\ (i \in Open' <=> i \in Open)
  BY <1>2, <1>3 DEF Repeated, Open
<1>5. /\ Repeated \subseteq DOMAIN preps /\ Open \subseteq DOMAIN preps
      /\ Repeated' \subseteq DOMAIN preps' /\ Open' \subseteq DOMAIN preps'
  BY DEF Repeated, Open
<1>6. Firsts'
  <2> SUFFICES ASSUME Open' # {}
               PROVE  \E i \in Open' : i \notin Repeated'
    BY DEF Firsts
  <2>1. CASE Open # {}
    BY <1>4, <1>5, <2>1 DEF Firsts
  <2>2. CASE Open = {}
    <3>1. Open' = {n}
      BY <1>2, <1>4, <1>5, <2>2
    <3>2. n \notin Repeated'
      <4>1. SUFFICES ASSUME NEW j \in 1 .. n - 1,
                            preps'[j].uid = preps'[n].uid, preps'[j].parent = preps'[n].parent
                     PROVE  FALSE
        BY DEF Repeated
      <4>2. j \in DOMAIN preps /\ j \in DOMAIN preps'
        BY <1>1, <1>2
      <4>3. order' # None /\ preps'[n].uid = order'.uid /\ preps'[n].parent = order'.status.latest
        BY <3>1 DEF Open
      <4>4. j \in Open'
        BY <4>1, <4>2, <4>3 DEF Open
      <4> QED BY <1>4, <2>2, <4>2, <4>4
    <3> QED BY <3>1, <3>2
  <2> QED BY <2>1, <2>2
<1> DEFINE all == Repeated \cup Open  new == Repeated' \cup Open'
<1>7. new \subseteq all \cup {n}
  BY <1>2, <1>4, <1>5
<1>8. IsFiniteSet(all) /\ Cardinality(all) \in Nat
  BY Counted
<1> HIDE DEF all, new, n
<1> DEFINE more == all \cup {n}
<1>9. /\ IsFiniteSet(more)
      /\ Cardinality(more) = Cardinality(all) \/ Cardinality(more) = Cardinality(all) + 1
  <2>1. CASE n \in all
    <3>1. more = all
      BY <2>1
    <3> QED BY <1>8, <3>1
  <2>2. CASE n \notin all
    BY <1>8, <2>2, FS_AddElement
  <2> QED BY <2>1, <2>2
<1>10. Cardinality(new) \in Nat /\ Cardinality(new) <= Cardinality(more)
  BY <1>7, <1>9, FS_Subset, FS_CardinalityType
<1> HIDE DEF more
<1>11. Cardinality(new) <= Cardinality(all) + 1
  BY <1>8, <1>9, <1>10
<1> QED BY <1>6, <1>10, <1>11 DEF all, new

LEMMA CreatePreparationAccounts ==
  ASSUME Inductive, Accounts, CreatePreparation
  PROVE  Accounts'
<1>1. /\ TypeOK /\ Active /\ pass.at = "CreatePreparation" /\ pass \in Passes
      /\ pass.order \in Orders /\ pass.order.status \in Statuses
      /\ pass.order.status = pass.before
      /\ pass.rendered \in Preparations /\ pass.rendered.parent = pass.before.latest
      /\ pass.rendered.uid = pass.order.uid /\ pass.fresh \in BOOLEAN
      /\ pass.fresh => order # None
  BY PassTyped DEF Inductive, CreatePreparation, PassGood, ReadGood, StepGood, Before, Rendering,
                   Accounts, Progress, Passes
<1>2. /\ order' = order /\ uids' = uids
      /\ preps' \in {preps, Append(preps, pass.rendered)}
  BY DEF CreatePreparation, orderVars, prepVars
<1>3. /\ preps \in Seq(Preparations) /\ Len(preps) \in Nat /\ DOMAIN preps = 1 .. Len(preps)
      /\ pass.before.latest \in Nat /\ pass.before.latest <= Len(preps)
      /\ pass.order.uid <= uids
  BY <1>1, Counted DEF TypeOK, Exists, Statuses
<1>4. Parents'
  <2>1. CASE preps' = preps
    BY <1>2, <2>1 DEF Accounts, Parents
  <2>2. CASE preps' = Append(preps, pass.rendered)
    <3> DEFINE n == Len(preps) + 1
    <3>1. /\ DOMAIN preps' = DOMAIN preps \cup {n} /\ preps'[n] = pass.rendered
          /\ \A i \in DOMAIN preps : preps'[i] = preps[i]
      BY <1>1, <1>3, <2>2, AppendProperties
    <3>2. preps'[n].uid <= uids /\ preps'[n].parent < n
      BY <1>1, <1>3, <3>1
    <3> QED BY <1>2, <3>1, <3>2 DEF Accounts, Parents
  <2> QED BY <1>2, <2>1, <2>2
<1>5. /\ Firsts' /\ Cardinality(Repeated' \cup Open') \in Nat
      /\ Cardinality(Repeated' \cup Open') <= Cardinality(Repeated \cup Open) + 1
      /\ preps' = preps => Cardinality(Repeated' \cup Open') = Cardinality(Repeated \cup Open)
  <2>1. Cardinality(Repeated \cup Open) \in Nat
    BY <1>1, Counted
  <2>2. CASE preps' = preps
    <3>1. Repeated' = Repeated /\ Open' = Open
      BY <1>2, <2>2 DEF Repeated, Open
    <3> QED BY <2>1, <3>1 DEF Accounts, Firsts
  <2>3. CASE preps' = Append(preps, pass.rendered)
    <3>1. preps' # preps
      BY <1>1, <1>3, <2>3, AppendLonger
    <3> QED BY <1>1, <1>2, <2>3, <3>1, AppendAccounts DEF Accounts
  <2> QED BY <1>2, <2>2, <2>3
<1>6. /\ Cardinality(Repeated \cup Open) \in Nat /\ edits \in Nat /\ failures \in Nat
      /\ Due = 0 /\ Outdated = IF pass.fresh THEN 0 ELSE 1
      /\ Cardinality(Repeated \cup Open) + Outdated <= edits + failures + Due
  BY <1>1, Counted, NothingDue DEF Accounts, Charged, Outdated
\* A Preparation that is made is due; one that a failure leaves is paid by it.
<1> DEFINE Made == /\ pass' = [pass EXCEPT !.at = "ConsumeMessage", !.prep = Len(preps')]
                   /\ preps' # <<>> /\ preps'[Len(preps')] = pass.rendered
                   /\ UNCHANGED editVars
           Left == /\ \/ Report("KeepServing", "Failed", "Retry")
                      \/ Report("KeepServing", "PatchFailed", "Terminal")
                   /\ \/ preps' = preps /\ UNCHANGED editVars
                      \/ Failure
<1>7. Made \/ Left
  <2>1. CASE preps' = Append(preps, pass.rendered)
    <3>1. /\ Len(preps') = Len(preps) + 1 /\ preps'[Len(preps) + 1] = pass.rendered
          /\ preps' # <<>>
      BY <1>1, <1>3, <2>1, AppendProperties
    <3>2. preps' # preps
      BY <1>3, <3>1
    <3> QED BY <2>1, <3>1, <3>2 DEF CreatePreparation, prepVars
  <2>2. CASE preps' = preps
    <3>1. preps # Append(preps, pass.rendered)
      BY <1>1, <1>3, AppendLonger
    <3>2. preps # <<>> /\ Last(preps) = pass.rendered => preps[Len(preps)] = pass.rendered
      BY DEF Last
    <3> QED BY <2>2, <3>1, <3>2 DEF CreatePreparation, prepVars, RenderFailed
  <2> QED BY <1>2, <2>1, <2>2
<1>8. CASE Made
  <2>1. /\ pass'.at = "ConsumeMessage" /\ pass'.prep = Len(preps')
        /\ pass'.order = pass.order /\ pass'.before = pass.before /\ pass'.fresh = pass.fresh
    BY <1>1, <1>8 DEF Passes
  <2>2. Active'
    BY <2>1 DEF Active, Idle
  <2>3. /\ Naming' /\ Outdated' = 0
        /\ Due' = IF pass.fresh THEN 1 ELSE 0
    BY <2>1, <2>2 DEF Naming, Due, Outdated
  <2>4. Progress'
    BY <1>1, <1>2, <1>8, <2>1 DEF Progress, NamesLast
  <2>5. edits' = edits /\ failures' = failures
    BY <1>8 DEF editVars
  <2>6. Charged'
    <3>1. Cardinality(Repeated' \cup Open') <= edits + failures + Due'
      BY <1>1, <1>5, <1>6, <2>3
    <3> QED BY <1>5, <2>3, <2>5, <3>1 DEF Charged
  <2> QED BY <1>4, <1>5, <2>4, <2>6 DEF Accounts
<1>9. CASE Left
  <2>1. /\ pass'.at = "KeepServing" /\ pass'.before = pass.before
        /\ pass'.order.status.latest = pass.before.latest
    BY <1>1, <1>9, ReportTyped DEF Continues
  <2>2. ~Naming' /\ Due' = 0 /\ Outdated' = 0
    BY <2>1 DEF Naming, Due, Outdated
  <2>3. Progress'
    BY <2>1, <2>2 DEF Progress
  <2>4. Cardinality(Repeated' \cup Open') <= edits' + failures'
    <3>1. CASE preps' = preps /\ UNCHANGED editVars
      <4>1. edits' = edits /\ failures' = failures
        BY <3>1 DEF editVars
      <4>2. Cardinality(Repeated' \cup Open') <= edits + failures
        BY <1>5, <1>6, <3>1
      <4> QED BY <4>1, <4>2
    <3>2. CASE Failure
      <4>1. edits' = edits /\ failures' = failures + 1
        BY <3>2 DEF Failure
      <4>2. Cardinality(Repeated' \cup Open') <= edits + (failures + 1)
        BY <1>5, <1>6
      <4> QED BY <4>1, <4>2
    <3> QED BY <1>9, <3>1, <3>2
  <2>5. edits' \in Nat /\ failures' \in Nat
    BY <1>1, <1>9, BoundKept
  <2>6. Charged'
    <3>1. /\ \A c, e, f \in Nat : c <= e + f => c + 0 <= e + f + 0
      OBVIOUS
    <3> QED BY <1>5, <2>2, <2>4, <2>5, <3>1 DEF Charged
  <2> QED BY <1>4, <1>5, <2>3, <2>6 DEF Accounts
<1> QED BY <1>7, <1>8, <1>9

\* The first Preparation of its intent is no repetition: the one that is due leaves
\* no more of them than there were edits and failures.
LEMMA RepetitionsPaid ==
  ASSUME Inductive, Accounts
  PROVE  Cardinality(Repeated) <= edits + failures
<1>1. /\ TypeOK /\ edits \in Nat /\ failures \in Nat
      /\ Due \in Nat /\ Outdated \in Nat /\ (Due = 0 \/ Due = 1)
  BY DEF Inductive, TypeOK, Due, Outdated
<1> DEFINE all == Repeated \cup Open  kept == Repeated
<1>2. /\ IsFiniteSet(all) /\ IsFiniteSet(kept) /\ kept \subseteq all
      /\ Cardinality(all) \in Nat /\ Cardinality(kept) \in Nat
      /\ Cardinality(all) + Outdated <= edits + failures + Due
  BY <1>1, Counted DEF Accounts, Charged
<1>3. CASE Due = 0
  <2> HIDE DEF all, kept
  <2>1. Cardinality(kept) <= Cardinality(all)
    BY <1>2, FS_Subset
  <2>2. Cardinality(kept) <= edits + failures
    BY <1>1, <1>2, <1>3, <2>1
  <2> QED BY <2>2 DEF kept
<1>4. CASE Due = 1
  <2>1. /\ Naming /\ pass.fresh /\ NamesLast /\ order # None /\ Active
        /\ order.status = pass.before /\ Agree(pass.order, order)
    BY <1>1, <1>4 DEF Due, Accounts, Progress, NamesLast, Naming, Inductive, PassGood, ReadGood
  <2>2. Len(preps) \in DOMAIN preps
    BY <1>1, <2>1, Counted, EmptySeq DEF NamesLast, TypeOK
  <2>3. Len(preps) \in Open
    BY <2>1, <2>2 DEF Open, NamesLast, Agree
  <2>4. PICK i \in Open : i \notin Repeated
    BY <2>3 DEF Accounts, Firsts
  <2> DEFINE more == kept \cup {i}
  <2>5. more \subseteq all /\ i \notin kept
    BY <2>4
  <2> HIDE DEF all, kept
  <2>6. Cardinality(more) = Cardinality(kept) + 1
    BY <1>2, <2>5, FS_AddElement
  <2>7. Cardinality(more) <= Cardinality(all)
    BY <1>2, <2>5, FS_Subset
  <2> HIDE DEF more
  <2>8. Cardinality(kept) <= edits + failures
    BY <1>1, <1>2, <1>4, <2>6, <2>7
  <2> QED BY <2>8 DEF kept
<1> QED BY <1>1, <1>3, <1>4

\* The status names the last Preparation, and no Preparation can be rendered again:
\* the first of its intent was charged to nothing, and is not a repetition.
LEMMA PatchStatusAccounts ==
  ASSUME Inductive, Accounts, PatchStatus
  PROVE  Accounts'
<1> DEFINE new == [Status EXCEPT !.observed = TRUE]
<1>1. /\ TypeOK /\ Active /\ pass.at = "PatchStatus" /\ pass \in Passes
      /\ pass.order.status \in Statuses /\ ReadGood(pass)
      /\ preps' = preps /\ pass' = Idle
  BY PassTyped DEF Inductive, PatchStatus, PassGood, Before, prepVars
<1>2. new \in Statuses /\ new.latest = pass.order.status.latest
  BY <1>1 DEF Status, Statuses
<1>3. uids' = uids
  BY DEF PatchStatus, OwnWrite, Write, orderVars
<1>4. /\ UNCHANGED editVars \/ Failure
      /\ edits' \in Nat /\ failures' \in Nat /\ edits' + failures' >= edits + failures
  <2>1. UNCHANGED editVars \/ Failure
    BY DEF PatchStatus
  <2> QED BY <1>1, <2>1, BoundKept
<1>5. ~Naming' /\ Due' = 0 /\ Outdated' = 0 /\ Outdated = 0
  BY <1>1 DEF Naming, Active, Due, Outdated
<1>6. Parents' /\ Progress'
  BY <1>1, <1>3, <1>5 DEF Accounts, Parents, Progress, Active
<1>7. /\ edits \in Nat /\ failures \in Nat
      /\ Due \in Nat /\ Outdated \in Nat /\ Due' \in Nat /\ Outdated' \in Nat
      /\ Due <= Due' + 1 /\ Outdated' <= Outdated
  BY <1>1, <1>5 DEF TypeOK, Due, Outdated
<1> DEFINE Writes == order # None /\ pass.fresh /\ OwnWrite([order EXCEPT !.status = new])
<1>8. Writes \/ (UNCHANGED orderVars /\ (new = pass.before \/ order = None \/ ~pass.fresh \/ Failure))
  BY DEF PatchStatus, Locked
<1> HIDE DEF new
<1>9. ASSUME Open' = Open \/ Open' = {}, Due = 0 \/ Failure
      PROVE  Accounts'
  <2>1. CASE Due = 0
    <3>1. Due <= Due'
      BY <1>5, <2>1
    <3>2. edits' + failures' + Due' + Outdated >= edits + failures + Due + Outdated'
      BY <1>4, <1>7, <3>1, Pays
    <3> QED BY <1>1, <1>4, <1>6, <1>9, <3>2, ChargedKept DEF Accounts
  <2>2. CASE Failure
    <3>1. edits' + failures' = edits + failures + 1
      BY <1>1, <2>2, BoundCharged
    <3>2. edits' + failures' + Due' + Outdated >= edits + failures + Due + Outdated'
      BY <1>4, <1>7, <3>1, Pays
    <3> QED BY <1>1, <1>4, <1>6, <1>9, <3>2, ChargedKept DEF Accounts
  <2> QED BY <1>9, <2>1, <2>2
<1>10. CASE UNCHANGED orderVars /\ (new = pass.before \/ order = None \/ ~pass.fresh \/ Failure)
  <2>1. Open' = Open
    BY <1>1, <1>10 DEF Open, orderVars
  <2>2. new = pass.before \/ order = None \/ ~pass.fresh => Due = 0
    BY <1>1, <1>2 DEF Due, Naming, Accounts, Progress, NamesLast
  <2> QED BY <1>9, <1>10, <2>1, <2>2
<1>11. CASE Writes
  <2>1. /\ order \in Orders /\ order.status = pass.before /\ Agree(pass.order, order)
        /\ order' = [order EXCEPT !.status = new]
    BY <1>1, <1>11 DEF ReadGood, TypeOK, OwnWrite, Write
  <2>2. /\ order' \in Orders /\ order' # None /\ order'.uid = order.uid
        /\ order'.status.latest = pass.order.status.latest
    BY <1>2, <2>1, NoneAssumption DEF Orders
  <2>3. CASE pass.order.status.latest = pass.before.latest
    <3>1. Due = 0
      BY <1>1, <2>3 DEF Due, Naming, Before
    <3>2. order # None /\ order'.status.latest = order.status.latest
      BY <1>11, <2>1, <2>2, <2>3
    <3> QED BY <1>1, <1>9, <2>2, <3>1, <3>2, OpenKept DEF Accounts
  <2>4. CASE pass.order.status.latest # pass.before.latest
    <3>1. Naming /\ Due = 1
      BY <1>1, <1>11, <2>4 DEF Naming, Before, Due
    <3>2. NamesLast /\ order'.status.latest = Len(preps)
      BY <1>1, <2>2, <3>1 DEF Accounts, Progress, NamesLast
    <3>3. /\ Len(preps) \in Nat /\ DOMAIN preps = 1 .. Len(preps) /\ Len(preps) \in DOMAIN preps
          /\ \A i \in DOMAIN preps : preps[i].parent < i /\ preps[i].parent \in Nat
      BY <1>1, <3>2, Counted, EmptySeq DEF NamesLast, TypeOK, Accounts, Parents
    <3>4. Open' = {}
      <4>1. \A i \in DOMAIN preps : preps[i].parent # Len(preps)
        BY <3>3
      <4> QED BY <1>1, <3>2, <4>1 DEF Open
    <3>5. Repeated' = Repeated
      BY <1>1 DEF Repeated
    <3>6. Cardinality(Repeated) \in Nat /\ Cardinality(Repeated) <= edits + failures
      BY <1>1, Counted, RepetitionsPaid
    <3>7. Charged'
      <4>1. \A c, e, f, g, h \in Nat : c <= e + f /\ g + h >= e + f => c + 0 <= g + h + 0
        OBVIOUS
      <4>2. Repeated' \cup Open' = Repeated
        BY <3>4, <3>5
      <4>3. Cardinality(Repeated) + 0 <= edits' + failures' + 0
        BY <1>4, <1>7, <3>6, <4>1
      <4> QED BY <1>5, <4>2, <4>3 DEF Charged
    <3> QED BY <1>6, <3>4, <3>7 DEF Accounts, Firsts
  <2> QED BY <2>3, <2>4
<1> QED BY <1>8, <1>10, <1>11

LEMMA InitAccounts == Init => Accounts
<1> SUFFICES ASSUME Init PROVE Accounts
  OBVIOUS
<1>1. preps = <<>> /\ ~Active /\ edits = 0 /\ failures = 0
  BY DEF Init, Active
<1>2. Repeated = {} /\ Open = {}
  BY <1>1 DEF Repeated, Open
<1>3. Due = 0 /\ Outdated = 0 /\ ~Naming
  BY <1>1 DEF Due, Outdated, Naming
<1>4. Parents /\ Progress /\ Firsts
  BY <1>1, <1>2, <1>3 DEF Parents, Progress, Firsts
<1>5. Cardinality(Repeated \cup Open) = 0
  <2>1. Repeated \cup Open = {}
    BY <1>2
  <2> HIDE DEF Repeated, Open
  <2> QED BY <2>1, FS_EmptySet
<1> QED BY <1>1, <1>3, <1>4, <1>5 DEF Accounts, Charged

LEMMA NextAccounts == Inductive /\ Accounts /\ [Next]_vars => Accounts'
<1> SUFFICES ASSUME Inductive, Accounts, [Next]_vars PROVE Accounts'
  OBVIOUS
<1>1. TypeOK
  BY DEF Inductive
<1>2. CASE Pass
  BY <1>2, StartPassAccounts, PreparesAccounts, CreatePreparationAccounts,
     ConsumeMessageAccounts, KeepServingAccounts, PatchStatusAccounts DEF Pass
<1>3. CASE Informers \/ Requeue \/ Crash \/ UNCHANGED vars
  BY <1>1, <1>3, WorldStepsAccounts
<1>4. CASE Environment
  BY <1>1, <1>4, WorldStepsAccounts, ForeignAccounts DEF Environment
<1> QED BY <1>2, <1>3, <1>4 DEF Next

\* A render is repeated only for a change, a failure or a crash between its
\* Preparation and the status that names it (isLatest in render): the repetitions
\* are no more than these.
THEOREM RendersOnceHolds == Spec => []RendersOnce
<1>1. Inductive /\ Accounts => RendersOnce
  BY RepetitionsPaid DEF RendersOnce
<1>2. Spec => []Accounts
  BY InitInductive, NextInductive, InitAccounts, NextAccounts, PTL DEF Spec
<1> QED BY <1>1, <1>2, InductiveHolds, PTL
===============================================================================
