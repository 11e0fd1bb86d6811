------------------------------ MODULE Product ------------------------------
(***************************************************************************)
(* One Product and its controller                                          *)
(* (internal/controller/product_controller.go), with the Kitchen whose     *)
(* keys its source is verified against.                                    *)
(*                                                                         *)
(* The Product publishes its source once per spec, and verifies it in      *)
(* every pass: against the keys a Secret holds when the spec asks for it,  *)
(* and otherwise against the keys the Kitchen trusts.  Orders render from  *)
(* it when it is Ready for its current spec.  A source is a number, and    *)
(* what matters of it are its signatures, in the order of the walk through *)
(* its graph.                                                              *)
(***************************************************************************)
EXTENDS Kitchen, Sequences, SequencesExt

CONSTANTS
  NumSources, \* how many sources a Product may name
  Unreachable \* the signatures of a check that could not read any

Sources == 1 .. NumSources

\* A Sigstore bundle with a signature or another statement, as a provenance;
\* a legacy cosign signature; and a Notary signature or a tag of attestations.
\* An identity of a keyless signature is a key as well.
Formats == {"Bundle", "Statement", "Legacy", "Other"}
Signatures == [format : Formats, key : Keys]

ASSUME NumSourcesAssumption == NumSources \in Nat \ {0}

VARIABLES
  product,      \* the Product on the API server, or None
  seenProduct,  \* its copy in the cache, and
  productFresh, \* whether it is of the current version
  ordered,      \* whether an Order references the Product
  seenOrdered,  \* whether the cache holds one, and
  ordersNews,   \* whether there is an event it has not received
  signed,       \* the signatures of each source
  policy,       \* the keys of the Secret spec.source.verify names, or None
  connected,    \* whether the Registries of the Product connect
  pass,         \* the pass of the Product controller
  queued,       \* whether the Product is queued,
  timer,        \* will be queued after an error or a conflict, and
  recheck,      \* will be queued since its source did not verify
  looked        \* the signatures the last check read

productVars == <<product, seenProduct, productFresh>>
orderVars   == <<ordered, seenOrdered, ordersNews>>
sourceVars  == <<signed, policy, connected>>
workVars    == <<queued, timer, recheck>>
pvars == <<productVars, orderVars, sourceVars, pass, workVars, looked>>
vars == <<kvars, pvars>>

kitchenSide == <<secretVars, kitchenVars, provider, kworkVars>>

Specs == [source : Sources, verify : BOOLEAN]

NewStatus ==
  [hash |-> None, source |-> None, signer |-> None, ready |-> "Unknown",
   current |-> FALSE, observed |-> FALSE]

\* The condition Ready, for the current generation.
Mark(status, reason) == [status EXCEPT !.ready = reason, !.current = TRUE]

NewProduct(spec) ==
  [spec |-> spec, finalizer |-> FALSE, deleting |-> FALSE,
   status |-> NewStatus]

\* status.configHash, status.source with who verified it, the condition Ready
\* and whether it is of the current generation, as Orders need it to be, and
\* whether observedGeneration is.
StatusType ==
  [hash : Specs \cup {None}, source : Sources \cup {None},
   signer : Keys \cup {None}, current : BOOLEAN, observed : BOOLEAN,
   ready : {"Unknown", "Ready", "SigningKeyNotReady", "Registry", "Failed",
            "VerificationError", "VerificationRequired", "InUse"}]

ProductType ==
  [spec : Specs, finalizer : BOOLEAN, deleting : BOOLEAN,
   status : StatusType]

Rejections == {"VerificationError", "VerificationRequired"}

-----------------------------------------------------------------------------
(* The API server, users and what else wakes the Product.                  *)

WriteProduct(new) ==
  /\ product' = new
  /\ productFresh' = FALSE
  /\ UNCHANGED seenProduct

\* A write of someone else while a pass may run.
ForeignWrite(new) ==
  /\ WriteProduct(new)
  /\ pass' = Outdated(pass)

UserWrite(new) ==
  /\ Edit("Product")
  /\ ForeignWrite(new)
  /\ UNCHANGED <<kitchenSide, loading, notified, orderVars, sourceVars,
                 workVars, looked>>

CreateProduct ==
  /\ product = None
  /\ \E spec \in Specs : UserWrite(NewProduct(spec))

UpdateProduct ==
  /\ product # None
  /\ \E spec \in Specs :
       /\ spec # product.spec
       /\ UserWrite([product EXCEPT !.spec = spec, !.status.current = FALSE,
                                    !.status.observed = FALSE])

DeleteProduct ==
  /\ product # None /\ ~product.deleting
  /\ UserWrite(IF product.finalizer
               THEN [product EXCEPT !.deleting = TRUE,
                                    !.status.current = FALSE,
                                    !.status.observed = FALSE]
               ELSE None)

\* Orders come and go, also while their Product is deleted.
EditOrder ==
  /\ Edit("Order")
  /\ ordered' = ~ordered /\ ordersNews' = TRUE
  /\ UNCHANGED <<kitchenSide, loading, notified, productVars, seenOrdered,
                 sourceVars, pass, workVars, looked>>

\* A Registry of the Product changes, or the Secret its spec verifies with;
\* the cache holds them when their event wakes the Product.
EditRegistry ==
  /\ Edit("Registry")
  /\ connected' = ~connected
  /\ queued' = (queued \/ seenProduct # None)
  /\ UNCHANGED <<kitchenSide, loading, notified, productVars, orderVars,
                 signed, policy, pass, timer, recheck, looked>>

EditPolicy ==
  /\ Edit("Policy")
  /\ policy' \in {None} \cup {{key} : key \in Keys}
  /\ policy' # policy
  /\ queued' = \/ queued
               \/ seenProduct # None /\ seenProduct.spec.verify
  /\ UNCHANGED <<kitchenSide, loading, notified, productVars, orderVars,
                 signed, connected, pass, timer, recheck, looked>>

\* A publisher signs a source; nothing tells the controller.
Sign ==
  /\ Edit("Sign")
  /\ \E source \in Sources, key \in 1 .. keys, format \in Formats :
       LET signature == [format |-> format, key |-> key]
       IN signed' = [signed EXCEPT ![source] = <<signature>> \o @]
  /\ UNCHANGED <<kitchenSide, loading, notified, productVars, orderVars,
                 policy, connected, pass, workVars, looked>>

DeliverProduct ==
  /\ ~productFresh
  /\ seenProduct' = product /\ productFresh' = TRUE
  /\ queued' = TRUE
  /\ UNCHANGED <<kitchenSide, loading, notified, product, orderVars,
                 sourceVars, pass, timer, recheck, looked, editVars>>

\* Not the code: only a created Order wakes its Product.
WakesCreated(was, is) == is /\ ~was

\* orderCreatedOrDeleted
WakesProduct(was, is) == is # was

\* An Order that was made and deleted in between is two events.
DeliverOrders ==
  /\ ordersNews
  /\ seenOrdered' = ordered /\ ordersNews' = FALSE
  /\ queued' = \/ queued
               \/ WakesProduct(seenOrdered, ordered)
               \/ seenOrdered = ordered
  /\ UNCHANGED <<kitchenSide, loading, notified, productVars, ordered,
                 sourceVars, pass, timer, recheck, looked, editVars>>

\* enqueueAllProducts, for a notification of the provider.
DeliverNotice ==
  /\ notified
  /\ notified' = FALSE
  /\ queued' = (queued \/ seenProduct # None)
  /\ UNCHANGED <<kitchenSide, loading, productVars, orderVars, sourceVars,
                 pass, timer, recheck, looked, editVars>>

Timer ==
  /\ timer
  /\ timer' = FALSE /\ queued' = TRUE
  /\ UNCHANGED <<kitchenSide, loading, notified, productVars, orderVars,
                 sourceVars, pass, recheck, looked, editVars>>

\* sourceVerificationRetryInterval has passed.
Recheck ==
  /\ recheck
  /\ recheck' = FALSE /\ queued' = TRUE
  /\ UNCHANGED <<kitchenSide, loading, notified, productVars, orderVars,
                 sourceVars, pass, timer, looked, editVars>>

-----------------------------------------------------------------------------
(* The check of a source.                                                  *)

\* The verdict of one signature.  spec.source.verify accepts any that is by
\* one of its keys and of a format that is verified; what the Kitchen trusts
\* are signature statements in bundles.
Accepts(signature, accepted, verify) ==
  /\ signature.key \in accepted
  /\ signature.format \in IF verify THEN Formats \ {"Other"} ELSE {"Bundle"}

\* Report.Signer: that of the first signature in the walk that is accepted.
Signer(signatures, accepted, verify) ==
  LET by == SelectSeq(signatures, LAMBDA s : Accepts(s, accepted, verify))
  IN IF by = <<>> THEN None ELSE Head(by).key

\* verificationPolicy: the keys the Secret holds, which may be missing.
Accepted(spec, state) == IF spec.verify THEN policy ELSE state.trust

\* verifySource: the keys of the Secret, or else those the Kitchen trusts.
\* A registry that cannot be read rejects the source of a Product that asks
\* to verify it, is retried when the Kitchen requires it, and leaves it
\* unsure otherwise.
VerifySource(spec, state, signatures) ==
  LET accepted == Accepted(spec, state)
      readable == accepted # None /\ signatures # Unreachable
      signer   == IF readable THEN Signer(signatures, accepted, spec.verify)
                  ELSE None
      result   == CASE readable /\ signer # None -> "Verified"
                    [] spec.verify -> "VerificationError"
                    [] readable /\ state.require -> "VerificationRequired"
                    [] readable -> "Unverified"
                    [] state.require -> "Retry"
                    [] OTHER -> "Unsure"
  IN [signer |-> signer, result |-> result]

\* Whether the published source was resolved from the same inputs.
Reuses(copy) == copy.status.source # None /\ copy.status.hash = copy.spec

\* Not the code: the verification of another source is kept.
KeepsAny(copy, check) ==
  IF check.result = "Unsure" THEN copy.status.signer ELSE check.signer

\* reverify keeps the recorded verification when the signatures could not be
\* looked up, and publish has none to keep.
KeepsSigner(copy, check) ==
  IF check.result = "Unsure" /\ Reuses(copy) THEN copy.status.signer
  ELSE check.signer

\* reverify and publish, to the status that markPublished or
\* verificationFailed records.
Published(copy, check) ==
  IF check.result = "Retry" THEN copy.status
  ELSE IF check.result \in Rejections
  THEN Mark([copy.status EXCEPT !.signer = None], check.result)
  ELSE Mark([copy.status EXCEPT
               !.hash = copy.spec,
               !.source = IF Reuses(copy) THEN @ ELSE copy.spec.source,
               !.signer = KeepsSigner(copy, check)], "Ready")

-----------------------------------------------------------------------------
(* The pass.                                                               *)

StartPass ==
  /\ pass = Idle /\ queued
  /\ queued' = FALSE
  /\ pass' = IF seenProduct = None THEN Idle
             ELSE [at |-> IF seenProduct.deleting THEN "Finalize"
                          ELSE IF seenProduct.finalizer THEN "State"
                          ELSE "AddFinalizer",
                   copy |-> seenProduct, fresh |-> productFresh]
  /\ UNCHANGED <<kitchenSide, loading, notified, productVars, orderVars,
                 sourceVars, timer, recheck, looked, editVars>>

\* The pass ends with an error, which is retried.
Retried ==
  /\ pass' = Idle /\ timer' = TRUE
  /\ UNCHANGED <<kitchenSide, loading, notified, productVars, orderVars,
                 sourceVars, queued, recheck, looked>>

AddFinalizer ==
  /\ pass.at = "AddFinalizer"
  /\ IF product = None \/ ~pass.fresh THEN Retried
     ELSE /\ WriteProduct([product EXCEPT !.finalizer = TRUE])
          /\ pass' = [pass EXCEPT !.at = "State", !.copy.finalizer = TRUE]
          /\ UNCHANGED <<kitchenSide, loading, notified, orderVars,
                         sourceVars, workVars, looked>>
  /\ UNCHANGED editVars

\* What is left to do is to write the status, to return the error, and to
\* have the source verified again.
Ends(status, error) ==
  pass' = [at |-> "Patch", copy |-> pass.copy, fresh |-> pass.fresh,
           status |-> [status EXCEPT !.observed = TRUE], error |-> error]

\* Signing.State: what is loaded, or else a load of its own.
GetState ==
  /\ pass.at = "State"
  /\ IF ~provider.loaded
     THEN BeginLoad("Product") /\ UNCHANGED pass
     ELSE /\ IF provider.state = None
             THEN Ends(Mark(pass.copy.status, "SigningKeyNotReady"), FALSE)
             ELSE pass' = [at |-> "Check", copy |-> pass.copy,
                           fresh |-> pass.fresh, state |-> provider.state]
          /\ UNCHANGED loading
  /\ UNCHANGED <<kitchenSide, notified, productVars, orderVars, sourceVars,
                 workVars, looked, editVars>>

\* registryFailed, of a Product whose Registries do not connect.
NotConnected ==
  /\ pass.at = "Check" /\ ~connected
  /\ Ends(Mark(pass.copy.status, "Registry"), FALSE)
  /\ UNCHANGED <<kitchenSide, loading, notified, productVars, orderVars,
                 sourceVars, workVars, looked, editVars>>

\* reverify or publish, with the signatures the registry answers with.
Checked(signatures) ==
  /\ pass.at = "Check" /\ connected
  /\ LET check == VerifySource(pass.copy.spec, pass.state, signatures)
     IN Ends(Published(pass.copy, check), check.result = "Retry")
  /\ looked' = signatures
  /\ UNCHANGED <<kitchenSide, loading, notified, productVars, orderVars,
                 sourceVars, workVars>>

Check ==
  /\ pass.at = "Check"
  /\ Checked(signed[pass.copy.spec.source])
  /\ UNCHANGED editVars

CheckUnreachable ==
  /\ Failure
  /\ Checked(Unreachable)

\* The source that is published anew is not resolved, or not vendored.
PublishFails ==
  /\ pass.at = "Check" /\ connected /\ ~Reuses(pass.copy)
  /\ Failure
  /\ Ends(Mark(pass.copy.status, "Failed"), TRUE)
  /\ UNCHANGED <<kitchenSide, loading, notified, productVars, orderVars,
                 sourceVars, workVars, looked>>

\* reconcileDelete: the finalizer stays while the cache holds Orders.
Finalize ==
  /\ pass.at = "Finalize"
  /\ IF seenOrdered
     THEN /\ Ends(Mark(pass.copy.status, "InUse"), FALSE)
          /\ UNCHANGED <<productVars, timer>>
     ELSE IF product = None \/ ~pass.fresh
     THEN pass' = Idle /\ timer' = TRUE /\ UNCHANGED productVars
     ELSE pass' = Idle /\ WriteProduct(None) /\ UNCHANGED timer
  /\ UNCHANGED <<kitchenSide, loading, notified, orderVars, sourceVars,
                 queued, recheck, looked, editVars>>

\* patchStatus, locked to the version the pass read or wrote.  The result of
\* the pass stands unless the write conflicts.
PatchStatus ==
  /\ pass.at = "Patch"
  /\ LET changed  == pass.status # pass.copy.status
         conflict == changed /\ product # None /\ ~pass.fresh
     IN /\ timer' = (timer \/ pass.error \/ conflict)
        /\ recheck' = \/ recheck
                      \/ pass.status.ready \in Rejections /\ ~conflict
                         /\ ~pass.error
        /\ IF changed /\ product # None /\ pass.fresh
           THEN WriteProduct([product EXCEPT !.status = pass.status])
           ELSE UNCHANGED productVars
  /\ pass' = Idle
  /\ UNCHANGED <<kitchenSide, loading, notified, orderVars, sourceVars,
                 queued, looked, editVars>>

\* A read or a write of the API server fails.
PassFails ==
  /\ pass.at \in {"AddFinalizer", "Check", "Finalize", "Patch"}
  /\ Failure
  /\ Retried

-----------------------------------------------------------------------------
\* The process ends and starts again.
Restart ==
  /\ Failure
  /\ RestartKitchen
  /\ seenProduct' = product /\ productFresh' = TRUE
  /\ seenOrdered' = ordered /\ ordersNews' = FALSE
  /\ pass' = Idle /\ queued' = (product # None \/ ordered)
  /\ timer' = FALSE /\ recheck' = FALSE
  /\ UNCHANGED <<product, ordered, sourceVars, looked>>

\* A Product that is published and verified and has an Order, if Kokumi has
\* run.
Init ==
  /\ \/ FreshKitchen /\ product = None
     \/ /\ SettledKitchen
        /\ product =
             [spec |-> [source |-> 1, verify |-> FALSE],
              finalizer |-> TRUE, deleting |-> FALSE,
              status |-> [hash |-> [source |-> 1, verify |-> FALSE],
                          source |-> 1, signer |-> 1, ready |-> "Ready",
                          current |-> TRUE, observed |-> TRUE]]
  /\ KitchenInit
  /\ seenProduct = product /\ productFresh = TRUE
  /\ ordered = (product # None) /\ seenOrdered = ordered
  /\ ordersNews = FALSE
  /\ signed = [source \in Sources |->
                 IF source = 1 THEN <<[format |-> "Bundle", key |-> 1]>>
                 ELSE <<>>]
  /\ policy = None /\ connected = TRUE
  /\ pass = Idle /\ queued = FALSE /\ timer = FALSE /\ recheck = FALSE
  /\ looked = IF product = None THEN Unreachable ELSE signed[1]

ProductStep ==
  \/ CreateProduct \/ UpdateProduct \/ DeleteProduct
  \/ EditOrder \/ EditRegistry \/ EditPolicy \/ Sign
  \/ DeliverProduct \/ DeliverOrders \/ DeliverNotice \/ Timer \/ Recheck
  \/ StartPass \/ AddFinalizer \/ GetState \/ NotConnected
  \/ Check \/ CheckUnreachable \/ PublishFails \/ Finalize
  \/ PatchStatus \/ PassFails

Next ==
  \/ KitchenStep /\ UNCHANGED pvars
  \/ ProductStep
  \/ Restart

Spec == Init /\ [][Next]_vars

-----------------------------------------------------------------------------
(* Properties.                                                             *)

TypeOK ==
  /\ secret \in Keys \cup {None, Bad} /\ seenSecret \in Keys \cup {None, Bad}
  /\ kitchen \in KitchenType \cup {None}
  /\ seenKitchen \in KitchenType \cup {None}
  /\ provider.state \in TrustState \cup {None}
  /\ product \in ProductType \cup {None}
  /\ \A source \in Sources : Range(signed[source]) \subseteq Signatures
  /\ seenProduct \in ProductType \cup {None}
  /\ keys \in 0 .. MaxKeys /\ edits \in 0 .. MaxEdits
  /\ failures \in 0 .. MaxFailures

\* Nothing is left to deliver, to run or to retry, of the Kitchen
KitchenQuiet ==
  /\ kitchenFresh /\ ~secretNews /\ loading = Idle
  /\ kpass = Idle /\ ~kqueued /\ ~ktimer /\ ~starting

\* and of the Product, but for a source that is verified again later.
Quiet ==
  /\ KitchenQuiet
  /\ productFresh /\ ~ordersNews /\ ~notified
  /\ pass = Idle /\ ~queued /\ ~timer

\* What the provider should hold.
Trust ==
  LET built == Build(secret, kitchen) IN IF IsError(built) THEN None ELSE built

\* "The Kitchen controller reloads it whenever the Kitchen or its key Secret
\* changes" (provider.go:52): once all is quiet, the state the controllers
\* sign and verify with is that of the Secret and the Kitchen.
TrustReloaded == KitchenQuiet /\ provider.loaded => provider.state = Trust

\* Whatever is deleted, broken or made again, and whoever loads it first:
\* there is a Kitchen and a Secret in the end, the state that signs and
\* verifies is theirs unless the last load could not read them, and the
\* Kitchen publishes the ID of the key, or that it is not ready.
KeyPublished ==
  KitchenQuiet =>
    /\ kitchen # None /\ secret # None
    /\ provider.loaded
    /\ ~provider.failed => provider.state = Trust
    /\ kitchen.observed
    /\ (kitchen.ready = "Ready") = (provider.state # None)
    /\ provider.state # None => kitchen.key = provider.state.signer

\* While there is a state to verify with, a Product ends with what its
\* source, the signatures that were read and that state make of it: no trust
\* that changed or came back while a pass ran, no Secret and no Registry leaves
\* a verification behind that it no longer supports, and a source that was
\* rejected is verified again.  A state that is lost wakes no Product, whose
\* verification is left as it was.
ProductSettles ==
  Quiet /\ product # None /\ ~product.deleting /\ provider.state # None =>
    LET status == product.status
        check  == VerifySource(product.spec, provider.state, looked)
    IN /\ status.current
       /\ IF ~connected THEN status.ready = "Registry"
          ELSE IF looked = Unreachable
          THEN status.ready \in {"Ready"} \cup Rejections
          ELSE /\ status.signer = check.signer
               /\ status.ready = IF check.result \in Rejections
                                 THEN check.result ELSE "Ready"
       /\ status.ready \in Rejections => recheck

\* A source is recorded as verified only by a key that signed that source,
\* although a check that could not read the signatures keeps what was
\* verified before.
VerifiedIsSigned ==
  product # None /\ product.status.signer # None
    => \E signature \in Range(signed[product.status.source]) :
         signature.key = product.status.signer

\* A deleted Product goes once no Order references it, in whatever order the
\* Orders and the deletion are seen.
ProductReleased ==
  Quiet /\ product # None /\ product.deleting => ordered
=============================================================================
