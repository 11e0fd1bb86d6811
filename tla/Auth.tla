--------------------------------- MODULE Auth ---------------------------------
(* How the server comes to the keys it signs users in with: the Kitchen           *)
(* controller checks and generates the Secrets the Kitchen names                    *)
(* (src/internal/controller: kitchen_controller.go), and the server's auth manager  *)
(* reads them again after each event of the Kitchen and of the Secrets it tracks    *)
(* (src/internal/server: auth_manager.go, watcher.go).  The signing of artifacts    *)
(* is in module Kitchen.                                                            *)
(*                                                                                *)
(* A Secret holds nothing, a number that stands for its key, or data without the    *)
(* key.  The handlers of the Kitchen and of Secrets run on goroutines of their own,  *)
(* each one event after the other.                                                  *)
EXTENDS Integers, Sequences, SequencesExt

CONSTANTS
  None, Bad, Err,    \* no value, a Secret without its key, a read that failed
  Specs,             \* what users write to spec.auth
  Settled,           \* which of them took effect before
  MaxEdits           \* bound of the changes users make, of failures and of restarts

VARIABLES
  kitchen,        \* the Kitchen, or None
  secrets,        \* per name: what the Secret holds
  seen,           \* the controller's caches: the Kitchen and the Secrets, and whether they are current
  queued,         \* whether the Kitchen is queued
  pass,           \* the controller's pass, or None
  srvKitchen,     \* the Kitchen in the server's cache
  srvFresh,       \* whether it is current
  news,           \* whether the server's handler of Kitchens is to be called
  events,         \* the Secrets its handler of Secrets is to be called for, in order
  manager,        \* the authManager
  reload,         \* per handler: its reload, or None
  doubt,          \* whether the last reload had a failed read, or was overtaken
  edits           \* how many there were

api    == <<kitchen, secrets>>
ctl    == <<seen, queued, pass>>
servers == <<srvKitchen, news, events, manager, reload, doubt>>
server == <<servers, srvFresh>>
vars   == <<api, ctl, server, edits>>

Names    == {"token", "token2", "admin", "client", "initial"}
Handlers == {"Kitchen", "Secret"}

\* A Kitchen without spec.auth: the Secret of the token key has its default name.
NoAuth     == [auth |-> FALSE, token |-> "token", admin |-> None, client |-> None, issuer |-> None]
NewKitchen == [spec |-> NoAuth, observed |-> FALSE, ready |-> "Unknown"]
Holds(n)   == secrets[n] \notin {None, Bad}

\* Users that have set nothing yet, or settings that took effect.
Init ==
  \E spec \in Settled \cup {NoAuth} :
    LET named == {n \in Names : spec.auth /\ n \in {spec.token, spec.admin, spec.client}}
        held(n) == IF n = None THEN None ELSE secrets[n]
    IN  /\ kitchen = [spec |-> spec, observed |-> TRUE, ready |-> "Ready"]
        /\ secrets = [n \in Names |-> IF n \in named THEN 0 ELSE None]
        /\ seen = [kitchen |-> kitchen, fresh |-> TRUE, secrets |-> secrets, current |-> TRUE]
        /\ queued = FALSE /\ pass = None
        /\ srvKitchen = kitchen /\ srvFresh = TRUE /\ news = FALSE /\ events = <<>>
        /\ manager = [key |-> held(spec.token), admin |-> held(spec.admin), secret |-> spec.admin,
                      oidc |-> IF spec.client = None THEN None ELSE [client |-> held(spec.client), issuer |-> spec.issuer],
                      oidcSecret |-> spec.client, tokenSecret |-> spec.token]
        /\ reload = [h \in Handlers |-> None] /\ doubt = FALSE
        /\ edits = 0

\* Writes, and what the watches are to deliver of them; no setting names the
\* initial Secret. What a Secret gets is numbered by the edits before it: between
\* two keys the controller generates for it a user deletes it.
WriteKitchen(new) ==
  /\ kitchen' = new
  /\ seen' = [seen EXCEPT !.fresh = FALSE] /\ srvFresh' = FALSE
WriteSecret(n, value) ==
  /\ secrets' = [secrets EXCEPT ![n] = value] /\ seen' = [seen EXCEPT !.current = FALSE]
  /\ events' = IF n = "initial" THEN events ELSE Append(events, n)

-------------------------------------------------------------------------------
(* Users                                                                         *)

Edit == edits < MaxEdits /\ edits' = edits + 1
Outdated == IF pass = None THEN None ELSE [pass EXCEPT !.fresh = FALSE]

\* The settings page, or kubectl, writes spec.auth.
EditSpec ==
  /\ Edit /\ \E spec \in Specs : WriteKitchen([(IF kitchen = None THEN NewKitchen ELSE kitchen) EXCEPT !.spec = spec, !.observed = FALSE])
  /\ pass' = Outdated
  /\ UNCHANGED <<secrets, queued, servers>>

DeleteKitchen ==
  /\ Edit /\ kitchen # None /\ WriteKitchen(None) /\ pass' = Outdated
  /\ UNCHANGED <<secrets, queued, servers>>

\* A Secret is put with another value, or without its key, or deleted.
EditSecret ==
  /\ Edit
  /\ \E n \in Names :
       \/ n # "initial" /\ WriteSecret(n, edits')
       \/ n # "initial" /\ WriteSecret(n, Bad)
       \/ secrets[n] # None /\ WriteSecret(n, None)
  /\ UNCHANGED <<kitchen, queued, pass, srvKitchen, srvFresh, news, manager, reload, doubt>>

-------------------------------------------------------------------------------
(* The Kitchen controller                                                        *)

SyncController ==
  /\ \/ ~seen.fresh /\ seen' = [seen EXCEPT !.kitchen = kitchen, !.fresh = TRUE]
     \/ ~seen.current /\ seen' = [seen EXCEPT !.secrets = secrets, !.current = TRUE]
  /\ queued' = TRUE
  /\ UNCHANGED <<api, pass, server, edits>>

\* A missing Kitchen is created; its creation reconciles it.
StartPass ==
  /\ queued /\ pass = None /\ queued' = FALSE
  /\ IF seen.kitchen = None
     THEN /\ IF kitchen = None THEN WriteKitchen(NewKitchen) ELSE UNCHANGED <<kitchen, seen, srvFresh>>
          /\ UNCHANGED <<secrets, pass>>
     ELSE /\ pass' = [step |-> IF seen.kitchen.spec.auth THEN "Token" ELSE "Ready",
                      kitchen |-> seen.kitchen, fresh |-> seen.fresh, password |-> None]
          /\ UNCHANGED <<api, seen, srvFresh>>
  /\ UNCHANGED <<servers, edits>>

Goes(step)   == pass' = [pass EXCEPT !.step = step]
Steps        == UNCHANGED <<kitchen, queued, srvKitchen, srvFresh, news, manager, reload, doubt>>
Writes       == UNCHANGED <<secrets, seen, events>>

\* Create answers that the Secret exists, or fails, when the cache lacks it.
Creates(n) == secrets[n] = None /\ UNCHANGED edits
Exists(n)  == secrets[n] # None /\ UNCHANGED edits
Fails      == Edit /\ Goes("Failed") /\ Writes

\* ensureTokenSigningKeySecret: one that exists is read again from the cache,
\* and not found there.
EnsureToken ==
  LET n == pass.kitchen.spec.token
      next == IF pass.kitchen.spec.admin = None THEN "Client" ELSE "Admin"
  IN  /\ pass # None /\ pass.step = "Token" /\ Steps
      /\ \/ seen.secrets[n] \notin {None, Bad} /\ Goes(next) /\ Writes /\ UNCHANGED edits
         \/ seen.secrets[n] = Bad /\ Goes("Failed") /\ Writes /\ UNCHANGED edits
         \/ seen.secrets[n] = None /\ \/ Creates(n) /\ WriteSecret(n, edits) /\ Goes(next)
                                      \/ Exists(n) /\ Goes("Failed") /\ Writes
                                      \/ Fails

\* The password is known, and is to be hashed.
HashOf(password) == pass' = [pass EXCEPT !.step = "Hash", !.password = password]

\* Not the code: a password is generated although the initial Secret exists.
GenerateAnyway ==
  \/ Creates("initial") /\ WriteSecret("initial", edits) /\ HashOf(edits)
  \/ Exists("initial") /\ HashOf(edits + 1) /\ Writes
  \/ Fails

\* ensureAdminSecret: the password of a missing Secret is that of the initial
\* one, which initialAdminPassword generates first when it is missing; when the
\* cache has not received it, its event reconciles again.
GenerateInitial ==
  \/ Creates("initial") /\ WriteSecret("initial", edits) /\ HashOf(edits)
  \/ Exists("initial") /\ Goes("Failed") /\ Writes
  \/ Fails

EnsureAdmin ==
  LET n == pass.kitchen.spec.admin
      initial == seen.secrets["initial"]
  IN  /\ pass # None /\ pass.step = "Admin" /\ Steps
      /\ \/ seen.secrets[n] = Bad /\ Goes("Failed") /\ Writes /\ UNCHANGED edits
         \/ seen.secrets[n] \notin {None, Bad} /\ Goes("Client") /\ Writes /\ UNCHANGED edits
         \/ seen.secrets[n] = None /\ initial # None /\ HashOf(initial) /\ Writes /\ UNCHANGED edits
         \/ seen.secrets[n] = None /\ initial = None /\ GenerateInitial

CreateAdmin ==
  LET n == pass.kitchen.spec.admin
  IN  /\ pass # None /\ pass.step = "Hash" /\ Steps
      /\ \/ Creates(n) /\ WriteSecret(n, pass.password) /\ Goes("Client")
         \/ Exists(n) /\ Goes("Client") /\ Writes
         \/ Fails

\* requireSecretKey, of the client Secret, is the last check.
Verdict ==
  LET n == pass.kitchen.spec.client
  IN  IF pass.step = "Client" THEN IF n = None \/ seen.secrets[n] \notin {None, Bad} THEN "Ready" ELSE "Failed"
      ELSE pass.step

\* patchStatus: an equal status is not written, and the patch is locked to the
\* version the pass read.
PatchStatus ==
  /\ pass # None /\ pass.step \in {"Client", "Ready", "Failed"} /\ pass' = None
  /\ LET status == [pass.kitchen EXCEPT !.ready = Verdict, !.observed = TRUE]
     IN  IF status = pass.kitchen \/ kitchen = None THEN UNCHANGED <<kitchen, seen, srvFresh, queued>>
         ELSE IF pass.fresh THEN WriteKitchen(status) /\ UNCHANGED queued
         ELSE queued' = TRUE /\ UNCHANGED <<kitchen, seen, srvFresh>>
  /\ UNCHANGED <<secrets, servers, edits>>

\* The manager stops; the next one starts with the Kitchen and the Secrets there are.
RestartController ==
  /\ Edit
  /\ pass' = None /\ queued' = TRUE
  /\ IF kitchen = None THEN kitchen' = NewKitchen /\ srvFresh' = FALSE ELSE UNCHANGED <<kitchen, srvFresh>>
  /\ seen' = [kitchen |-> kitchen', fresh |-> TRUE, secrets |-> secrets, current |-> TRUE]
  /\ UNCHANGED <<secrets, servers>>

-------------------------------------------------------------------------------
(* The server                                                                    *)

\* The cache of Kitchens receives the Kitchen; its handler is called after.
SyncServer ==
  /\ ~srvFresh /\ srvFresh' = TRUE /\ srvKitchen' = kitchen /\ news' = TRUE
  /\ UNCHANGED <<api, ctl, events, manager, reload, doubt, edits>>

Tracked == {manager.secret, manager.oidcSecret, manager.tokenSecret}

\* refresh reads the Kitchen from the cache, and keeps the last state when it is
\* gone. A reload of the other handler that is under way is older.
Begins(h) ==
  /\ reload[h] = None
  /\ reload' = IF srvKitchen = None THEN reload
               ELSE [o \in Handlers |->
                       IF o = h THEN [step |-> "Read", spec |-> srvKitchen.spec, key |-> None, admin |-> None, client |-> None,
                                      fault |-> FALSE, older |-> FALSE, late |-> FALSE]
                       ELSE IF reload[o] = None THEN None ELSE [reload[o] EXCEPT !.older = TRUE]]
  /\ UNCHANGED <<api, ctl, srvKitchen, srvFresh, manager, doubt, edits>>

HandleKitchen == news /\ Begins("Kitchen") /\ news' = FALSE /\ UNCHANGED events

\* isAuthSecret: events of Secrets that are not tracked are dropped, also when a
\* reload that has read the Secret is about to track it.
NamedBy(spec) == {spec.token, spec.admin, spec.client}
HandleSecret ==
  /\ events # <<>> /\ reload["Secret"] = None /\ events' = Tail(events) /\ UNCHANGED news
  /\ IF Head(events) \in Tracked THEN Begins("Secret")
     ELSE /\ reload' = IF reload["Kitchen"] # None /\ reload["Kitchen"].step = "Apply" /\ Head(events) \in NamedBy(reload["Kitchen"].spec)
                       THEN [reload EXCEPT !["Kitchen"].late = TRUE] ELSE reload
          /\ UNCHANGED <<api, ctl, srvKitchen, srvFresh, manager, doubt, edits>>

\* reload: the live reads of the token key, the admin's credentials and the
\* client Secret, each of which may fail. They are one step here: a Secret that
\* changes between them has an event that comes later.
Read(h) ==
  LET spec == IF reload[h] = None THEN NoAuth ELSE reload[h].spec
      held(n, field, failed) == IF n = None THEN None ELSE IF field = failed THEN Err ELSE secrets[n]
  IN  /\ reload[h] # None /\ reload[h].step = "Read"
      /\ \E failed \in {None} \cup {"key", "admin", "client"} :
           /\ IF failed = None THEN UNCHANGED edits ELSE Edit
           /\ reload' = [reload EXCEPT ![h] =
                [@ EXCEPT !.step = "Apply", !.fault = failed # None, !.key = held(spec.token, "key", failed),
                          !.admin = held(spec.admin, "admin", failed), !.client = held(spec.client, "client", failed)]]
      /\ UNCHANGED <<api, ctl, srvKitchen, srvFresh, news, events, manager, doubt>>

\* apply. What a read that failed would have replaced is kept: the key; the
\* credentials of the same Secret; the provider, with the name of its Secret.
Applied(m, r) ==
  LET key   == IF r.key \in {None, Bad, Err} THEN m.key ELSE r.key
      admin == CASE r.admin = Err -> IF m.admin # None /\ r.spec.admin = m.secret THEN m.admin ELSE None
                 [] r.admin = Bad -> None
                 [] OTHER -> r.admin
      built == key # None /\ r.client \notin {None, Bad, Err}
  IN  [key |-> key, admin |-> IF key = None THEN None ELSE admin,
       tokenSecret |-> r.spec.token, secret |-> r.spec.admin,
       oidc |-> CASE r.spec.client = None -> None
                  [] built -> [client |-> r.client, issuer |-> r.spec.issuer]
                  [] OTHER -> m.oidc,
       oidcSecret |-> IF r.spec.client # None /\ built THEN r.spec.client ELSE m.oidcSecret]

\* Not the code: the name of a Secret is tracked once it could be read.
ApplyTracked(m, r) ==
  LET new == Applied(m, r)
  IN  IF r.key \in {None, Bad, Err} THEN [new EXCEPT !.tokenSecret = m.tokenSecret] ELSE new

Apply(m, r) == Applied(m, r)

Swap(h) ==
  /\ reload[h] # None /\ reload[h].step = "Apply"
  /\ manager' = Apply(manager, reload[h])
  /\ doubt' = (reload[h].fault \/ reload[h].late)
  /\ reload' = [o \in Handlers |->
                  IF o = h \/ reload[o] = None THEN IF o = h THEN None ELSE reload[o]
                  ELSE [reload[o] EXCEPT !.late = reload[o].older]]
  /\ UNCHANGED <<api, ctl, srvKitchen, srvFresh, news, events, edits>>

\* newAuthManager reads the token key before the caches are filled; then the
\* handlers are called for everything there is.
RestartServer ==
  /\ Edit
  /\ manager' = [key |-> IF Holds("token") THEN secrets["token"] ELSE None, admin |-> None, oidc |-> None,
                 secret |-> None, oidcSecret |-> None, tokenSecret |-> "token"]
  /\ reload' = [h \in Handlers |-> None] /\ doubt' = FALSE /\ srvKitchen' = kitchen /\ srvFresh' = TRUE
  /\ news' = (kitchen # None) /\ events' = SetToSeq({n \in Names \ {"initial"} : secrets[n] # None})
  /\ UNCHANGED <<api, ctl>>

-------------------------------------------------------------------------------

Users == EditSpec \/ DeleteKitchen \/ EditSecret
Controller ==
  \/ SyncController \/ StartPass \/ EnsureToken \/ EnsureAdmin \/ CreateAdmin
  \/ PatchStatus \/ RestartController
Server ==
  \/ SyncServer \/ HandleKitchen \/ HandleSecret \/ RestartServer
  \/ \E h \in Handlers : Read(h) \/ Swap(h)

Next == Users \/ Controller \/ Server
Spec == Init /\ [][Next]_vars

-------------------------------------------------------------------------------
(* Properties                                                                    *)

\* No event is left to deliver or to handle, and nothing runs.
Quiet ==
  /\ seen.fresh /\ seen.current /\ ~queued /\ pass = None
  /\ srvFresh /\ ~news /\ events = <<>> /\ \A h \in Handlers : reload[h] = None

\* What a server that started now would take from the Kitchen and its Secrets.
Wanted ==
  LET spec == kitchen.spec
  IN  [key    |-> secrets[spec.token],
       admin  |-> IF spec.admin = None THEN None ELSE secrets[spec.admin],
       oidc   |-> IF spec.client = None THEN None ELSE [client |-> secrets[spec.client], issuer |-> spec.issuer]]

\* Once all is quiet and the Kitchen says it is Ready, the server signs in with
\* what the Kitchen names, however the settings and the Secrets were changed,
\* deleted and made again, and although it drops the events of Secrets it does
\* not track (reload, apply, isAuthSecret): the status the controller writes when
\* a missing Secret appears is what tells it. Left out: the last reload had a
\* failed read, which nothing repeats, or was overtaken, by a
\* newer one or by an event of a Secret that it had read and was about to track.
AuthCurrent ==
  Quiet /\ kitchen # None /\ kitchen.ready = "Ready" /\ kitchen.spec.auth /\ ~doubt =>
    Wanted = [key |-> manager.key, admin |-> manager.admin, oidc |-> manager.oidc]

\* The password of an admin Secret the controller makes is the one in the
\* initial Secret, unless that was deleted: also for a pass that stopped between
\* the two, and for one whose cache lacks a Secret it made (ensureAdminSecret,
\* initialAdminPassword).
PasswordReadable ==
  [][pass # None /\ pass.step = "Hash" /\ secrets["admin"] # secrets'["admin"] /\ edits' = edits
       => secrets["initial"] \in {None, secrets'["admin"]}]_vars
===============================================================================
