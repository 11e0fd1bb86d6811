------------------------------ MODULE Kitchen ------------------------------
(***************************************************************************)
(* The Kitchen, the singleton that holds the settings, its controller      *)
(* (internal/controller/kitchen_controller.go) and the signing state it    *)
(* loads (internal/signing/provider.go): the signing key of the Secret,    *)
(* and the keys and the requirement of the Kitchen.                        *)
(*                                                                         *)
(* A key is a number; the Secret that is deleted is generated again with   *)
(* the next one.  The controller decides whether to generate a key on a    *)
(* cached copy of the Secret, and the provider reads the Secret and then   *)
(* the Kitchen from the API server, under a lock that the first use of a   *)
(* Product may hold as well.                                               *)
(***************************************************************************)
EXTENDS Naturals, FiniteSets

CONSTANTS
  MaxKeys,    \* how many signing keys there may be
  None,       \* no object, no key
  Bad,        \* a Secret or a list of trusted keys that does not parse
  Edits,      \* the kinds of changes that may happen
  MaxEdits,   \* bounds these changes,
  MaxFailures,\* the failures and crashes, and
  MaxEvents   \* both of them together

Keys == 1 .. MaxKeys

ASSUME MaxKeysAssumption == MaxKeys \in Nat \ {0}
ASSUME NoKeyAssumption == {None, Bad} \cap Keys = {} /\ None # Bad

VARIABLES
  secret,       \* the signing key Secret: None, Bad, or the key it holds
  seenSecret,   \* its copy in the informer cache, and
  secretNews,   \* whether there is an event the cache has not received
  keys,         \* how many keys there were
  kitchen,      \* the Kitchen on the API server, or None
  seenKitchen,  \* its copy in the cache, and
  kitchenFresh, \* whether it is of the current version
  provider,     \* the signing state that is loaded
  loading,      \* the load that holds the lock
  kpass,        \* the pass of the Kitchen controller
  kqueued,      \* whether the Kitchen is queued
  ktimer,       \* whether it will be queued again
  starting,     \* whether the process has not looked for the Kitchen yet
  notified,     \* whether a change of the trust waits for the Products
  edits,        \* how many changes there were, and
  failures      \* how many failures and crashes

secretVars   == <<secret, seenSecret, secretNews, keys>>
kitchenVars  == <<kitchen, seenKitchen, kitchenFresh>>
providerVars == <<provider, loading, notified>>
kworkVars    == <<kpass, kqueued, ktimer, starting>>
editVars     == <<edits, failures>>
kvars == <<secretVars, kitchenVars, providerVars, kworkVars, editVars>>

Idle == [at |-> "Idle"]

\* The Kitchen of which nothing is set, as the controller creates it.
NewKitchen ==
  [trusted |-> {}, require |-> FALSE, key |-> None, ready |-> "Unknown",
   observed |-> FALSE]

\* status.observedGeneration, and the conditions SigningKeyReady and Ready,
\* which are of one reason here.
KitchenType ==
  [trusted : SUBSET Keys \cup {Bad}, require : BOOLEAN,
   key : Keys \cup {None}, observed : BOOLEAN,
   ready : {"Unknown", "Ready", "KeyMissing", "KeyInvalid",
            "TrustedKeyInvalid"}]

\* State: the key that signs, the keys whose signatures verify, and whether
\* sources must verify.
TrustState == [signer : Keys, trust : SUBSET Keys, require : BOOLEAN]

Unloaded == [loaded |-> FALSE, state |-> None, failed |-> FALSE]

Edit(kind) ==
  /\ kind \in Edits /\ edits < MaxEdits /\ edits + failures < MaxEvents
  /\ edits' = edits + 1
  /\ UNCHANGED failures

Failure ==
  /\ failures < MaxFailures /\ edits + failures < MaxEvents
  /\ failures' = failures + 1
  /\ UNCHANGED edits

-----------------------------------------------------------------------------
(* The API server.                                                         *)

\* Every write of the Kitchen outdates its copies, and its event wakes the
\* controller when it is delivered.
WriteKitchen(new) ==
  /\ kitchen' = new
  /\ kitchenFresh' = FALSE
  /\ UNCHANGED seenKitchen

\* A user generates no number that was used before.
WriteSecret(new) ==
  /\ secret' = new
  /\ secretNews' = TRUE
  /\ keys' = IF new \in Keys THEN keys + 1 ELSE keys
  /\ UNCHANGED seenSecret

Outdated(pass) ==
  IF "fresh" \in DOMAIN pass THEN [pass EXCEPT !.fresh = FALSE] ELSE pass

\* handlePutSettings reads the Kitchen and updates that version of it, or
\* creates it; settings that change nothing are not written.
PutSettings ==
  /\ Edit("Settings")
  /\ \E trusted \in SUBSET (1 .. keys) \cup {Bad}, require \in BOOLEAN :
       LET old == IF kitchen = None THEN NewKitchen ELSE kitchen
           new == [old EXCEPT !.trusted = trusted, !.require = require,
                              !.observed = FALSE]
       IN /\ kitchen = None \/ old.trusted # trusted \/ old.require # require
          /\ WriteKitchen(new)
  /\ kpass' = Outdated(kpass)
  /\ UNCHANGED <<secretVars, providerVars, kqueued, ktimer, starting>>

DeleteKitchen ==
  /\ Edit("DeleteKitchen") /\ kitchen # None
  /\ WriteKitchen(None)
  /\ kpass' = Outdated(kpass)
  /\ UNCHANGED <<secretVars, providerVars, kqueued, ktimer, starting>>

\* Rotating the key is to delete its Secret, or to bring one's own.
EditSecret ==
  /\ Edit("Secret")
  /\ \E new \in {None, Bad, keys + 1} \cap (Keys \cup {None, Bad}) :
       new # secret /\ WriteSecret(new)
  /\ UNCHANGED <<kitchenVars, providerVars, kworkVars>>

\* The cache receives the Kitchen; all its events pass.
DeliverKitchen ==
  /\ ~kitchenFresh
  /\ seenKitchen' = kitchen /\ kitchenFresh' = TRUE
  /\ kqueued' = TRUE
  /\ UNCHANGED <<secretVars, kitchen, providerVars, kpass, ktimer, starting,
                 editVars>>

\* mapSecretToKitchen, for a Secret that isKitchenSecret.
DeliverSecret ==
  /\ secretNews
  /\ seenSecret' = secret /\ secretNews' = FALSE
  /\ kqueued' = TRUE
  /\ UNCHANGED <<secret, keys, kitchenVars, providerVars, kpass, ktimer,
                 starting, editVars>>

-----------------------------------------------------------------------------
(* The provider.                                                           *)

\* LoadKey, of the data of the Secret.
Loads(key) == key \in Keys

\* NewTrustSet, of the key and of those the Kitchen lists; a missing Kitchen
\* lists none.
TrustSet(key, from) ==
  IF from = None THEN {key}
  ELSE IF from.trusted = Bad THEN Bad ELSE {key} \cup from.trusted

\* What Inputs build: the trust of a key and a Kitchen, or why there is none.
Build(key, from) ==
  IF ~Loads(key) THEN [error |-> "KeyInvalid"]
  ELSE IF TrustSet(key, from) = Bad THEN [error |-> "TrustedKeyInvalid"]
  ELSE [signer |-> key, trust |-> TrustSet(key, from),
        require |-> from # None /\ from.require]

IsError(state) == "error" \in DOMAIN state

\* State.ID: which key signs does not matter to it.
ID(state) == IF state = None THEN None ELSE <<state.trust, state.require>>

\* Not the code: only another trust is notified, not its return.
NotifiesOnlyOther(old, new) ==
  new # None /\ old.state # None /\ ID(old.state) # ID(new)

\* Whether load notifies its listeners: the trust changed, or there was none.
Notifies(old, new) ==
  new # None /\ (old.state = None \/ ID(old.state) # ID(new))

\* Not the code: a key that is gone or invalid keeps the last good state.
KeptAlways(built) ==
  IF IsError(built) /\ provider.state # None THEN provider.state
  ELSE IF IsError(built) THEN None ELSE built

\* The state that load makes current.  An error that is about the key clears
\* it; after one that is not, the last good state is kept.
Kept(built) ==
  IF ~IsError(built) THEN built
  ELSE IF built.error = "Transient" THEN provider.state ELSE None

\* State, the first use, and Load take the lock, under which the Secret is
\* read from the API server and then the Kitchen.
BeginLoad(by) ==
  /\ loading = Idle
  /\ loading' = [at |-> "Kitchen", by |-> by, key |-> secret]

\* load makes what it built current, notifies, and returns it: a state, or
\* the error.  failed tells that the error is not about the key; the same
\* load returns no error when it kept a good state.
Commit(built) ==
  LET new == Kept(built)
  IN /\ provider' = [loaded |-> TRUE, state |-> new,
                     failed |-> IsError(built) /\ built.error = "Transient"]
     /\ notified' = (notified \/ Notifies(provider, new))
     /\ loading' = Idle

\* What the Kitchen controller makes of it: the status it takes on, and
\* whether it returns an error.
Loaded(built) ==
  LET state == Kept(built)
      status(key, ready) ==
        [kpass.copy EXCEPT !.key = key, !.ready = ready, !.observed = TRUE]
  IN IF state # None
     THEN [status |-> status(state.signer, "Ready"), error |-> FALSE]
     ELSE IF built.error = "Transient"
     THEN [status |-> status(kpass.copy.key, kpass.copy.ready),
           error |-> TRUE]
     ELSE IF kpass.failed
     THEN [status |-> status(kpass.copy.key, "KeyMissing"), error |-> TRUE]
     ELSE [status |-> status(kpass.copy.key, built.error), error |-> FALSE]

FinishLoad(built) ==
  /\ Commit(built)
  /\ kpass' =
       IF loading.by = "Product" THEN kpass
       ELSE [at |-> "Patch", copy |-> kpass.copy, fresh |-> kpass.fresh,
             status |-> Loaded(built).status, error |-> Loaded(built).error]
  /\ UNCHANGED <<secretVars, kitchenVars, kqueued, ktimer, starting>>

ReadKitchen ==
  /\ loading.at = "Kitchen"
  /\ FinishLoad(Build(loading.key, kitchen))
  /\ UNCHANGED editVars

\* Either read fails for a reason of its own.
LoadFails ==
  /\ loading # Idle
  /\ Failure
  /\ FinishLoad([error |-> "Transient"])

-----------------------------------------------------------------------------
(* The pass of the Kitchen controller.                                     *)

StartKitchen ==
  /\ kpass = Idle /\ kqueued
  /\ kqueued' = FALSE
  /\ kpass' = IF seenKitchen = None THEN [at |-> "Create"]
              ELSE [at |-> "Ensure", copy |-> seenKitchen,
                    fresh |-> kitchenFresh]
  /\ UNCHANGED <<secretVars, kitchenVars, providerVars, ktimer, starting,
                 editVars>>

\* createKitchen; one that exists already is left alone.
CreateKitchen ==
  /\ IF kitchen = None THEN WriteKitchen(NewKitchen)
     ELSE UNCHANGED kitchenVars

Recreate ==
  /\ kpass.at = "Create"
  /\ CreateKitchen
  /\ kpass' = Idle
  /\ UNCHANGED <<secretVars, providerVars, kqueued, ktimer, starting,
                 editVars>>

RecreateFails ==
  /\ kpass.at = "Create"
  /\ Failure
  /\ kpass' = Idle /\ ktimer' = TRUE
  /\ UNCHANGED <<secretVars, kitchenVars, providerVars, kqueued, starting>>

\* ensureKitchen, once after the start of the process.
EnsureKitchen ==
  /\ starting
  /\ starting' = FALSE
  /\ CreateKitchen
  /\ UNCHANGED <<secretVars, providerVars, kpass, kqueued, ktimer, editVars>>

\* ensureSigningKeySecret: one that the cache or the API server holds is
\* kept.
EnsureSecret ==
  /\ kpass.at = "Ensure"
  /\ seenSecret = None /\ secret = None => keys < MaxKeys
  /\ IF seenSecret = None /\ secret = None
     THEN WriteSecret(keys + 1)
     ELSE UNCHANGED secretVars
  /\ kpass' = [at |-> "Load", copy |-> kpass.copy, fresh |-> kpass.fresh,
               failed |-> FALSE]
  /\ UNCHANGED <<kitchenVars, providerVars, kqueued, ktimer, starting,
                 editVars>>

\* The key is loaded even when generating it failed.
EnsureFails ==
  /\ kpass.at = "Ensure"
  /\ Failure
  /\ kpass' = [at |-> "Load", copy |-> kpass.copy, fresh |-> kpass.fresh,
               failed |-> TRUE]
  /\ UNCHANGED <<secretVars, kitchenVars, providerVars, kqueued, ktimer,
                 starting>>

Load ==
  /\ kpass.at = "Load"
  /\ BeginLoad("Kitchen")
  /\ kpass' = [kpass EXCEPT !.at = "Loading"]
  /\ UNCHANGED <<secretVars, kitchenVars, provider, notified, kqueued,
                 ktimer, starting, editVars>>

\* patchStatus: an unchanged status is not written; the write is locked to
\* the version the pass read, and a Kitchen that is gone needs none.
PatchKitchen ==
  /\ kpass.at = "Patch"
  /\ LET changed  == kpass.status # kpass.copy
         conflict == changed /\ kitchen # None /\ ~kpass.fresh
     IN /\ ktimer' = (ktimer \/ kpass.error \/ conflict)
        /\ IF changed /\ kitchen # None /\ kpass.fresh
           THEN WriteKitchen(kpass.status)
           ELSE UNCHANGED kitchenVars
  /\ kpass' = Idle
  /\ UNCHANGED <<secretVars, providerVars, kqueued, starting, editVars>>

PatchKitchenFails ==
  /\ kpass.at = "Patch" /\ kpass.status # kpass.copy
  /\ Failure
  /\ kpass' = Idle /\ ktimer' = TRUE
  /\ UNCHANGED <<secretVars, kitchenVars, providerVars, kqueued, starting>>

KitchenTimer ==
  /\ ktimer
  /\ ktimer' = FALSE /\ kqueued' = TRUE
  /\ UNCHANGED <<secretVars, kitchenVars, providerVars, kpass, starting,
                 editVars>>

-----------------------------------------------------------------------------
\* The caches hold what is there; the controllers queue it.
RestartKitchen ==
  /\ provider' = Unloaded /\ loading' = Idle /\ notified' = FALSE
  /\ seenKitchen' = kitchen /\ kitchenFresh' = TRUE
  /\ seenSecret' = secret /\ secretNews' = FALSE
  /\ kpass' = Idle /\ ktimer' = FALSE /\ starting' = TRUE
  /\ kqueued' = (kitchen # None \/ secret # None)
  /\ UNCHANGED <<secret, keys, kitchen>>

\* A cluster in which Kokumi starts for the first time,
FreshKitchen ==
  /\ secret = None /\ keys = 0 /\ kitchen = None
  /\ provider = Unloaded /\ starting = TRUE

\* or one in which it has run for long.
SettledKitchen ==
  /\ secret = 1 /\ keys = 1
  /\ kitchen = [NewKitchen EXCEPT !.key = 1, !.ready = "Ready",
                                 !.observed = TRUE]
  /\ provider = [loaded |-> TRUE, state |-> Build(secret, kitchen),
                 failed |-> FALSE]
  /\ starting = FALSE

KitchenInit ==
  /\ seenSecret = secret /\ secretNews = FALSE
  /\ seenKitchen = kitchen /\ kitchenFresh = TRUE
  /\ loading = Idle /\ notified = FALSE
  /\ kpass = Idle /\ kqueued = FALSE /\ ktimer = FALSE
  /\ edits = 0 /\ failures = 0

KitchenStep ==
  \/ PutSettings \/ DeleteKitchen \/ EditSecret
  \/ DeliverKitchen \/ DeliverSecret
  \/ ReadKitchen \/ LoadFails
  \/ StartKitchen \/ Recreate \/ RecreateFails \/ EnsureKitchen
  \/ EnsureSecret \/ EnsureFails \/ Load
  \/ PatchKitchen \/ PatchKitchenFails \/ KitchenTimer
=============================================================================
