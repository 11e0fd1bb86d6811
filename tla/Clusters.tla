------------------------------ MODULE Clusters ------------------------------
(***************************************************************************)
(* The Cluster controller (internal/controller/cluster_controller.go), the *)
(* registration of Clusters with Argo CD (internal/controller/argocd.go,   *)
(* internal/argocd/cluster.go), the Environment controller, and the        *)
(* endpoints that write Clusters and Environments.                         *)
(*                                                                         *)
(* A registration is a Secret in Argo CD's namespace that is named after   *)
(* its server, so the API server decides which Cluster holds a server.     *)
(* The passes of different Clusters run at the same time, and decide on    *)
(* cached copies: of Clusters, of Secrets (kubeconfigs and registrations   *)
(* alike), and of Environments.  A cache that falls behind receives all    *)
(* the events of its kind at once.                                         *)
(***************************************************************************)
EXTENDS Naturals, FiniteSets

CONSTANTS
  Clusters,    \* the names of Clusters with kubeconfigs
  Local,       \* the Environment, which Kokumi keeps
  Labels,      \* what an Environment selects Clusters by, with
  InLabel,     \* the one that it selects when Kokumi creates it
  Selectors,   \* the sets of labels that a user selects, or Bad
  Servers,     \* their API servers
  Kubeconfigs, \* the kubeconfigs: a server, and a credential for it
  None,        \* no object
  Bad,         \* a kubeconfig or a selector that does not parse
  Edits,       \* the kinds of changes that may happen
  MaxEdits,    \* bounds these changes,
  MaxFailures, \* the failures and crashes, and
  MaxEvents    \* both of them together

ASSUME ClustersAssumption ==
  /\ Local \notin Clusters
  /\ InLabel \in Labels /\ Selectors \subseteq SUBSET Labels \cup {Bad}
  /\ None \notin Clusters \cup Servers \cup Kubeconfigs
  /\ Bad \notin Kubeconfigs /\ Bad # None
  /\ \A k \in Kubeconfigs : k.server \in Servers

VARIABLES
  cluster,    \* the Clusters on the API server
  env,        \* the Environment, and
  project,    \* whether its AppProject admits it
  secret,     \* the kubeconfig Secret of each Cluster, and
  owned,      \* the Clusters that own theirs
  argo,       \* the registration of each server, and
  foreign,    \* what other Secrets register: servers, and names of Clusters
  down,       \* the servers that a probe finds unhealthy
  seen,       \* the cached copies of all of these, except the last, and
  behind,     \* the Clusters, Secrets and Environments they are not current of
  pass,       \* the pass of each Cluster and of the Environment
  queue,      \* those that are queued, and
  due,        \* whether the timers may find another state
  probes,     \* the last probe of each Cluster
  writing,    \* the kubeconfig the endpoint has yet to store for a Cluster
  skipped,    \* whether the Environment's last pass had an outdated copy
  edits,      \* how many changes there were, and
  failures    \* how many failures and crashes

api   == <<cluster, env, project, secret, owned, argo, foreign, down>>
cache == <<seen, behind>>
work  == <<pass, queue, due, probes, writing, skipped>>
count == <<edits, failures>>
vars  == <<api, cache, work, count>>

Idle == [at |-> "Idle"]
Keys == Clusters \cup {Local}

\* A Cluster: its label, its finalizer and deletion, and its status.
NewCluster(label) ==
  [label |-> label, fin |-> FALSE, del |-> FALSE, server |-> None,
   ready |-> "Unknown"]

\* The Environment that Kokumi creates.
NewEnvironment ==
  [selector |-> {InLabel}, fin |-> FALSE, del |-> FALSE, counts |-> None,
   ready |-> "Unknown"]

Reasons == {"Unknown", "Ready", "Unreachable", "SecretNotFound",
            "SecretInvalid", "ClusterConflict", "RegistrationFailed"}

ClusterType ==
  [label : Labels, fin : BOOLEAN, del : BOOLEAN, ready : Reasons,
   server : Servers \cup {None}]
EnvironmentType ==
  [selector : SUBSET Labels \cup {Bad}, fin : BOOLEAN, del : BOOLEAN,
   counts : [selected : Nat, ready : Nat] \cup {None},
   ready : {"Unknown", "InvalidSelector", "NoClusters",
            "ProjectNotPermitted", "Ready"}]
\* The Secret of a registration: the Cluster of its labels, and the
\* credential that is copied.
Registration == [holder : Clusters, cred : {k.cred : k \in Kubeconfigs}]

Present == [cluster |-> cluster, env |-> env, project |-> project,
            secret |-> secret, argo |-> argo, foreign |-> foreign]

Edit(kind) ==
  /\ kind \in Edits /\ edits < MaxEdits /\ edits + failures < MaxEvents
  /\ edits' = edits + 1 /\ UNCHANGED failures

Failure ==
  /\ failures < MaxFailures /\ edits + failures < MaxEvents
  /\ failures' = failures + 1 /\ UNCHANGED edits

-----------------------------------------------------------------------------
(* The API server.                                                         *)

\* A write makes the copies of a pass another version than the stored one.
Outdate(passes, key) ==
  IF "fresh" \in DOMAIN passes[key]
  THEN [passes EXCEPT ![key].fresh = FALSE] ELSE passes

\* The registration of s changed since a pass listed it.
Lose(passes, s) ==
  [x \in Keys |-> IF "lost" \in DOMAIN passes[x]
                  THEN [passes[x] EXCEPT !.lost = @ \cup {s}] ELSE passes[x]]

WriteCluster(c, new) ==
  /\ cluster' = [cluster EXCEPT ![c] = new]
  /\ behind' = behind \cup {c}
  /\ due' = TRUE
  /\ UNCHANGED <<env, project, secret, owned, argo, foreign, down, seen>>

WriteEnvironment(new) ==
  /\ env' = new
  /\ behind' = behind \cup {Local}
  /\ UNCHANGED <<cluster, project, secret, owned, argo, foreign, down, seen>>

WriteSecret(c, new, owners) ==
  /\ secret' = [secret EXCEPT ![c] = new]
  /\ owned' = owners
  /\ due' = TRUE
  /\ UNCHANGED <<cluster, env, project, argo, foreign, down, cache>>

WriteRegistration(s, new) ==
  /\ argo' = [argo EXCEPT ![s] = new]
  /\ behind' = behind \cup {s}
  /\ due' = TRUE
  /\ UNCHANGED <<cluster, env, project, secret, owned, foreign, down, seen>>

-----------------------------------------------------------------------------
(* What users and other systems change.                                    *)

\* handleCreateCluster creates the Cluster and then its Secret; with kubectl
\* the Secret is a change of its own.
CreateCluster(c) ==
  /\ Edit("Create") /\ cluster[c] = None
  /\ writing[c] = None /\ c \notin owned
  /\ \E label \in Labels : WriteCluster(c, NewCluster(label))
  /\ \E k \in Kubeconfigs \cup {None} :
       writing' = [writing EXCEPT ![c] = IF secret[c] = None THEN k ELSE None]
  /\ pass' = Outdate(pass, c)
  /\ UNCHANGED <<queue, probes, skipped>>

\* handleUpdateCluster patches the Cluster, and then stores the kubeconfig
\* that it was given.
UpdateCluster(c) ==
  /\ Edit("Update") /\ cluster[c] # None /\ writing[c] = None
  /\ \E label \in Labels, k \in Kubeconfigs \cup {None} :
       /\ k = None => label # cluster[c].label
       /\ IF label = cluster[c].label
          THEN UNCHANGED <<api, cache, due, pass>>
          ELSE /\ WriteCluster(c, [cluster[c] EXCEPT !.label = label])
               /\ pass' = Outdate(pass, c)
       /\ writing' = [writing EXCEPT ![c] = k]
  /\ UNCHANGED <<queue, probes, skipped>>

\* writeCredentialSecret, which fails for a Secret that the UI did not make.
StoreKubeconfig(c) ==
  /\ writing[c] # None
  /\ writing' = [writing EXCEPT ![c] = None]
  /\ IF secret[c] = None \/ c \in owned
     THEN WriteSecret(c, writing[c], owned \cup {c})
     ELSE UNCHANGED <<api, cache, due>>
  /\ UNCHANGED <<pass, queue, probes, skipped, count>>

\* The request fails, or the server stops, before the Secret is written.
StoreFails(c) ==
  /\ Failure /\ writing[c] # None
  /\ writing' = [writing EXCEPT ![c] = None]
  /\ UNCHANGED <<api, cache, pass, queue, due, probes, skipped>>

\* The garbage collector deletes the Secret of a Cluster that is gone.
CollectSecret(c) ==
  /\ c \in owned /\ cluster[c] = None /\ writing[c] = None
  /\ WriteSecret(c, None, owned \ {c})
  /\ UNCHANGED <<pass, queue, probes, writing, skipped, count>>

\* handleDeleteCluster, or kubectl.
DeleteCluster(c) ==
  /\ Edit("Delete") /\ cluster[c] # None /\ ~cluster[c].del
  /\ WriteCluster(c, IF cluster[c].fin THEN [cluster[c] EXCEPT !.del = TRUE]
                     ELSE None)
  /\ pass' = Outdate(pass, c)
  /\ UNCHANGED <<queue, probes, writing, skipped>>

EditKubeconfig(c) ==
  /\ Edit("Kubeconfig")
  /\ \E new \in Kubeconfigs \cup {Bad, None} :
       /\ new # secret[c]
       /\ WriteSecret(c, new, IF new = None THEN owned \ {c} ELSE owned)
  /\ UNCHANGED <<pass, queue, probes, writing, skipped>>

\* Somebody registers a server, or a name, in a Secret of their own.
EditForeign ==
  /\ Edit("Foreign")
  /\ \E x \in Servers \cup Clusters :
       foreign' = IF x \in foreign THEN foreign \ {x} ELSE foreign \cup {x}
  /\ due' = TRUE
  /\ UNCHANGED <<cluster, env, project, secret, owned, argo, down, cache,
                 pass, queue, probes, writing, skipped>>

\* handleCreateEnvironment and handleUpdateEnvironment.
EditEnvironment ==
  /\ Edit("Environment")
  /\ \E sel \in Selectors :
       /\ env # None => env.selector # sel
       /\ WriteEnvironment(
            IF env = None THEN [NewEnvironment EXCEPT !.selector = sel]
            ELSE [env EXCEPT !.selector = sel])
  /\ due' = TRUE
  /\ pass' = Outdate(pass, Local)
  /\ UNCHANGED <<queue, probes, writing, skipped>>

\* handleDeleteEnvironment.  It wakes everything twice, and is bounded as
\* the only change of a behaviour.
DeleteEnvironment ==
  /\ "DeleteEnvironment" \in Edits /\ edits + failures = 0
  /\ edits' = MaxEdits /\ failures' = MaxFailures
  /\ env # None /\ ~env.del
  /\ WriteEnvironment(IF env.fin THEN [env EXCEPT !.del = TRUE] ELSE None)
  /\ due' = TRUE
  /\ pass' = Outdate(pass, Local)
  /\ UNCHANGED <<queue, probes, writing, skipped>>

EditProject ==
  /\ Edit("Project")
  /\ project' = ~project
  /\ UNCHANGED <<cluster, env, secret, owned, argo, foreign, down, cache,
                 work>>

\* A control plane breaks, or recovers.
EditHealth ==
  /\ Edit("Health")
  /\ \E s \in Servers :
       down' = IF s \in down THEN down \ {s} ELSE down \cup {s}
  /\ due' = TRUE
  /\ UNCHANGED <<cluster, env, project, secret, owned, argo, foreign, cache,
                 pass, queue, probes, writing, skipped>>

-----------------------------------------------------------------------------
(* The events that the caches receive.                                     *)

\* ClusterSelection.Matches, of the labels alone.
Matches(e, c) ==
  e # None /\ c # None /\ e.selector # Bad /\ c.label \in e.selector

\* ClusterSelection.Selects, by an Environment that is not being deleted.
Selects(e, c) == Matches(e, c) /\ ~c.del /\ ~e.del

\* The predicates of the Cluster controller on Clusters: the generation,
\* which deletion changes, and the labels.  A finalizer that is gone is that
\* of a Cluster that was created again.
WakesItself(old, new) ==
  \/ old = None \/ new = None
  \/ old.del # new.del \/ old.label # new.label \/ (old.fin /\ ~new.fin)

\* clusterChanged.
Changed(old, new) ==
  \/ WakesItself(old, new)
  \/ old.server # new.server \/ old.ready # new.ready

\* Clusters, which environmentsOfCluster maps before and after.
DeliverClusters ==
  /\ behind \cap Clusters # {}
  /\ seen' = [seen EXCEPT !.cluster = cluster]
  /\ behind' = behind \ Clusters
  /\ due' = TRUE
  /\ queue' = queue
       \cup {c \in behind \cap Clusters : WakesItself(seen.cluster[c], cluster[c])}
       \cup {e \in {Local} : \E c \in behind \cap Clusters :
               /\ Changed(seen.cluster[c], cluster[c])
               /\ Matches(seen.env, seen.cluster[c]) \/ Matches(seen.env, cluster[c])}
  /\ UNCHANGED <<api, pass, probes, writing, skipped, count>>

\* clustersOfArgoCDSecret: the Cluster of the Secret, and by the index of
\* status.server those that wait for its server.
WokenBy(s, old, new) ==
  {r.holder : r \in {old, new} \ {None}}
  \cup {c \in Clusters : seen.cluster[c] # None /\ seen.cluster[c].server = s}

\* Secrets, which clustersOfSecret maps; those that Kokumi does not manage
\* wake nothing.
DeliverSecrets ==
  /\ seen.secret # secret \/ behind \cap Servers # {} \/ seen.foreign # foreign
  /\ seen' = [seen EXCEPT !.secret = secret, !.argo = argo,
                          !.foreign = foreign]
  /\ behind' = behind \ Servers
  /\ due' = TRUE
  /\ queue' = queue
       \cup {c \in Clusters : /\ seen.cluster[c] # None
                              /\ seen.secret[c] # secret[c]}
       \cup UNION {WokenBy(s, seen.argo[s], argo[s]) : s \in behind \cap Servers}
  /\ UNCHANGED <<api, pass, probes, writing, skipped, count>>

\* Environments of another generation, which clustersOfEnvironment maps
\* before and after.
DeliverEnvironment ==
  /\ Local \in behind
  /\ seen' = [seen EXCEPT !.env = env]
  /\ behind' = behind \ {Local}
  /\ due' = TRUE
  /\ queue' = LET old == seen.env
              IN IF \/ old = None \/ env = None
                    \/ old.selector # env.selector \/ old.del # env.del
                    \/ (old.fin /\ ~env.fin)
                 THEN queue \cup {Local}
                      \cup {c \in Clusters : \/ Matches(old, seen.cluster[c])
                                             \/ Matches(env, seen.cluster[c])}
                 ELSE queue
  /\ UNCHANGED <<api, pass, probes, writing, skipped, count>>

\* environmentsOfProject.
DeliverProject ==
  /\ seen.project # project
  /\ seen' = [seen EXCEPT !.project = project]
  /\ queue' = IF seen.env = None THEN queue ELSE queue \cup {Local}
  /\ UNCHANGED <<api, behind, pass, due, probes, writing, skipped, count>>

-----------------------------------------------------------------------------
(* The passes of the Cluster controller.                                   *)

\* Not the code: the registration of the server in the status.
OwnOfStatus(c) ==
  {s \in Servers : /\ seen.argo[s] # None /\ seen.argo[s].holder = c
                   /\ seen.cluster[c].server = s}

\* The registrations of a Cluster that the cache lists, by their labels.
Own(c) == {s \in Servers : seen.argo[s] # None /\ seen.argo[s].holder = c}

Stop(c) == pass' = [pass EXCEPT ![c] = Idle]

\* The next step of a pass that has registrations to delete, or has not.
GoOn(p) == IF p.todo = {} THEN [p EXCEPT !.at = p.then]
            ELSE [p EXCEPT !.at = "Unregister"]

\* Conflicts, and the Secret of the server's name that is of another Cluster.
Conflict(c, s) ==
  \/ {s, c} \cap seen.foreign # {}
  \/ seen.argo[s] # None /\ seen.argo[s].holder # c

\* connect and register, on the cached Secrets and Environment: what the
\* status will say, what is unregistered, and what follows.
Planned(c, o, fresh) ==
  LET kc == seen.secret[c]
      s == kc.server
      Plan(server, ready, todo, then, probe) ==
        GoOn([at |-> "Unregister", then |-> then, old |-> o,
               new |-> [o EXCEPT !.server = server, !.ready = ready],
               fresh |-> fresh, kc |-> kc, probe |-> probe, err |-> FALSE,
               todo |-> todo, lost |-> behind \cap Servers])
  IN IF kc \notin Kubeconfigs
     THEN Plan(o.server, IF kc = None THEN "SecretNotFound"
                         ELSE "SecretInvalid", Own(c), "Status", FALSE)
     ELSE IF ~Selects(seen.env, o)
     THEN Plan(s, o.ready, Own(c), "Status", TRUE)
     ELSE IF Conflict(c, s)
     THEN Plan(s, "ClusterConflict", Own(c), "Status", FALSE)
     ELSE IF seen.argo[s] = None
     THEN Plan(s, o.ready, Own(c) \ {s}, "Create", TRUE)
     ELSE IF seen.argo[s].cred # kc.cred
     THEN Plan(s, o.ready, {}, "Update", TRUE)
     ELSE Plan(s, o.ready, {}, "Status", TRUE)

\* Reconcile, up to the first write: the one of the finalizer, or those of
\* the registration.
BeginCluster(c) ==
  /\ c \in queue /\ pass[c] = Idle
  /\ LET o == seen.cluster[c]
     IN \/ /\ o = None
           /\ queue' = queue \ {c}
           /\ UNCHANGED <<api, cache, due, pass>>
        \/ /\ o # None /\ o.del
           /\ queue' = queue \ {c}
           /\ pass' = [pass EXCEPT ![c] = GoOn(
                [at |-> "Unregister", then |-> "Remove", old |-> o, new |-> o,
                 fresh |-> c \notin behind, kc |-> None, probe |-> FALSE,
                 err |-> FALSE, todo |-> Own(c),
                 lost |-> behind \cap Servers])]
           /\ UNCHANGED <<api, cache, due>>
        \/ /\ o # None /\ ~o.del /\ o.fin
           /\ queue' = queue \ {c}
           /\ pass' = [pass EXCEPT ![c] = Planned(c, o, c \notin behind)]
           /\ UNCHANGED <<api, cache, due>>
        \/ /\ o # None /\ ~o.del /\ ~o.fin /\ c \notin behind
           /\ queue' = queue \ {c}
           /\ WriteCluster(c, [o EXCEPT !.fin = TRUE])
           /\ pass' = [pass EXCEPT ![c] =
                [at |-> "Connect", old |-> [o EXCEPT !.fin = TRUE],
                 fresh |-> TRUE]]
        \* A conflict is tried again.
        \/ /\ o # None /\ ~o.del /\ ~o.fin /\ c \in behind
           /\ UNCHANGED <<api, cache, due, queue, pass>>
  /\ UNCHANGED <<probes, writing, skipped, count>>

\* It goes on after the finalizer.
Connect(c) ==
  /\ pass[c].at = "Connect"
  /\ pass' = [pass EXCEPT ![c] = Planned(c, @.old, @.fresh)]
  /\ UNCHANGED <<api, cache, queue, due, probes, writing, skipped, count>>

\* The pass goes on to write the status with an error.
Fail(p) == [p EXCEPT !.at = "Status", !.err = TRUE, !.probe = FALSE]

\* Not the code: a delete that has no preconditions.
MayDeleteAny(c, s) == argo[s] # None

\* Whether the version and the UID of a listed registration still exist.
MayDelete(c, s) == argo[s] # None /\ s \notin pass[c].lost

\* unregister deletes one of the registrations it listed; one that is gone
\* is as good as deleted.
Unregister(c) ==
  /\ pass[c].at = "Unregister"
  /\ \E s \in pass[c].todo :
       LET done == GoOn([pass[c] EXCEPT !.todo = @ \ {s}])
       IN \/ /\ MayDelete(c, s)
             /\ WriteRegistration(s, None)
             /\ pass' = Lose([pass EXCEPT ![c] = done], s)
          \/ /\ argo[s] = None
             /\ pass' = [pass EXCEPT ![c] = done]
             /\ UNCHANGED <<api, cache, due>>
          \/ /\ argo[s] # None /\ ~MayDelete(c, s)
             /\ pass' = [pass EXCEPT ![c] = Fail(@)]
             /\ UNCHANGED <<api, cache, due>>
  /\ UNCHANGED <<queue, probes, writing, skipped, count>>

\* Create and updateClusterSecret; a Secret that was created, changed or
\* deleted meanwhile is an error.
Register(c) ==
  /\ pass[c].at \in {"Create", "Update"}
  /\ LET s == pass[c].kc.server
         may == IF pass[c].at = "Create" THEN argo[s] = None
                ELSE argo[s] # None /\ s \notin pass[c].lost
     IN IF may
        THEN /\ WriteRegistration(s, [holder |-> c, cred |-> pass[c].kc.cred])
             /\ pass' = Lose([pass EXCEPT ![c].at = "Status"], s)
        ELSE /\ pass' = [pass EXCEPT ![c] = Fail(@)]
             /\ UNCHANGED <<api, cache, due>>
  /\ UNCHANGED <<queue, probes, writing, skipped, count>>

\* A write fails; a Secret that cannot be created is in the status.
WriteFails(c) ==
  /\ pass[c].at \in {"Unregister", "Create", "Update", "Remove"}
  /\ Failure
  /\ pass' = [pass EXCEPT ![c] =
       IF @.at = "Create"
       THEN [Fail(@) EXCEPT !.new.ready = "RegistrationFailed"] ELSE Fail(@)]
  /\ UNCHANGED <<api, cache, queue, due, probes, writing, skipped>>

\* What probeCache.probe returns: the last probe of the kubeconfig, while it
\* is recent, or another one.
Probed(c, kc, server) ==
  {server \notin down}
  \cup IF probes[c] # None /\ probes[c].kc = kc THEN {probes[c].healthy} ELSE {}

\* The probe, and the status that reconcileCluster and patchStatus write:
\* unless it is that of the copy, and if the copy is current.
Status(c) ==
  /\ pass[c].at = "Status"
  /\ LET p == pass[c]
         Patch(new) ==
           IF new = p.old \/ cluster[c] = None
           THEN /\ queue' = IF p.err THEN queue \cup {c} ELSE queue
                /\ UNCHANGED <<api, cache, due>>
           ELSE IF p.fresh
           THEN /\ WriteCluster(c, new)
                /\ queue' = IF p.err THEN queue \cup {c} ELSE queue
           ELSE /\ queue' = queue \cup {c}
                /\ UNCHANGED <<api, cache, due>>
     IN IF p.probe
        THEN \E healthy \in Probed(c, p.kc, p.new.server) :
               /\ Patch([p.new EXCEPT !.ready = IF healthy THEN "Ready"
                                                ELSE "Unreachable"])
               /\ probes' = [probes EXCEPT ![c] =
                               [kc |-> p.kc, healthy |-> healthy]]
        ELSE Patch(p.new) /\ UNCHANGED probes
  /\ Stop(c)
  /\ UNCHANGED <<writing, skipped, count>>

\* reconcileDelete, when nothing is left to unregister.
Remove(c) ==
  /\ pass[c].at = "Remove"
  /\ probes' = [probes EXCEPT ![c] = None]
  /\ IF pass[c].fresh
     THEN WriteCluster(c, None) /\ UNCHANGED queue
     ELSE /\ queue' = IF cluster[c] = None THEN queue ELSE queue \cup {c}
          /\ UNCHANGED <<api, cache, due>>
  /\ Stop(c)
  /\ UNCHANGED <<writing, skipped, count>>

\* Nothing is under way or on its way, except for the timers.
Quiet ==
  /\ queue = {} /\ behind = {} /\ seen = Present
  /\ \A k \in Keys : pass[k] = Idle
  /\ \A c \in Clusters : writing[c] = None

\* The check after clusterProbeInterval, of the Clusters the queue adds
\* again; it probes again.
Check(cs) ==
  /\ queue' = queue \cup cs
  /\ probes' = [c \in Clusters |-> IF c \in cs THEN None ELSE probes[c]]
  /\ UNCHANGED <<api, cache, pass, writing, skipped>>

\* A timer that fires among the other steps is one of the bounded changes.
Tick(c) ==
  /\ Edit("Timer") /\ seen.cluster[c] # None
  /\ Check({c}) /\ UNCHANGED due

\* Without other work every timer fires; when they found everything as it
\* was, they will again, which is left out.
TickAll ==
  /\ Quiet /\ due
  /\ Check({c \in Clusters : cluster[c] # None})
  /\ due' = FALSE /\ UNCHANGED count

-----------------------------------------------------------------------------
(* The passes of the Environment controller.                               *)

\* What reconcileEnvironment makes of the Clusters and the AppProject.
Counted(e, from, admits) ==
  LET selected == {c \in Clusters : from[c] # None /\ Matches(e, from[c])
                                    /\ ~from[c].del}
      n == [selected |-> Cardinality(selected),
            ready |-> Cardinality({c \in selected : from[c].ready = "Ready"})]
  IN [e EXCEPT !.counts = IF e.selector = Bad THEN None ELSE n,
               !.ready = IF e.selector = Bad THEN "InvalidSelector"
                         ELSE IF selected = {} THEN "NoClusters"
                         ELSE IF ~admits THEN "ProjectNotPermitted"
                         ELSE "Ready"]

\* reconcileEnvironment, Admit and patchStatus, of a copy of the Environment.
Count(o, fresh) ==
  LET new == Counted(o, seen.cluster, seen.project)
  IN /\ skipped' = (new = o /\ ~fresh)
     /\ IF new = o \/ env = None
        THEN UNCHANGED <<api, cache, due>> /\ queue' = queue \ {Local}
        ELSE IF fresh
        THEN WriteEnvironment(new) /\ queue' = queue \ {Local} /\ UNCHANGED due
        ELSE UNCHANGED <<api, cache, due, queue>>

\* Reconcile of the Environment.
BeginEnvironment ==
  /\ Local \in queue /\ pass[Local] = Idle
  /\ LET o == seen.env
     IN \/ /\ o = None
           /\ queue' = queue \ {Local}
           /\ IF env = None
              THEN WriteEnvironment(NewEnvironment) /\ due' = TRUE
              ELSE UNCHANGED <<api, cache, due>>
           /\ UNCHANGED <<pass, skipped>>
        \* The finalizer is added, or removed.
        \/ /\ o # None /\ (o.del = o.fin) /\ Local \notin behind
           /\ queue' = queue \ {Local}
           /\ IF o.del
              THEN /\ WriteEnvironment(None) /\ due' = TRUE /\ UNCHANGED pass
              ELSE /\ WriteEnvironment([o EXCEPT !.fin = TRUE])
                   /\ pass' = [pass EXCEPT ![Local] =
                        [at |-> "Count", old |-> [o EXCEPT !.fin = TRUE],
                         fresh |-> TRUE]]
                   /\ UNCHANGED due
           /\ UNCHANGED skipped
        \* A conflict is tried again, unless the object is gone.
        \/ /\ o # None /\ (o.del = o.fin) /\ Local \in behind
           /\ queue' = IF env = None /\ o.del THEN queue \ {Local} ELSE queue
           /\ UNCHANGED <<api, cache, due, pass, skipped>>
        \/ /\ o # None /\ ~o.del /\ o.fin
           /\ Count(o, Local \notin behind)
           /\ UNCHANGED pass
  /\ UNCHANGED <<probes, writing, count>>

\* It goes on after the finalizer.
CountEnvironment ==
  /\ pass[Local].at = "Count"
  /\ LET p == pass[Local]
         new == Counted(p.old, seen.cluster, seen.project)
     IN IF env = None \/ p.fresh
        THEN /\ UNCHANGED queue
             /\ IF env = None THEN UNCHANGED <<api, cache>>
                ELSE WriteEnvironment(new)
        ELSE queue' = queue \cup {Local} /\ UNCHANGED <<api, cache>>
  /\ skipped' = FALSE
  /\ Stop(Local)
  /\ UNCHANGED <<due, probes, writing, count>>

-----------------------------------------------------------------------------

\* The controllers stop between two steps, and start again: the caches are
\* filled, and everything is queued, also the Environment.
Crash ==
  /\ Failure
  /\ seen' = Present /\ behind' = {}
  /\ pass' = [x \in Keys |-> Idle]
  /\ queue' = {c \in Clusters : cluster[c] # None} \cup {Local}
  /\ due' = TRUE
  /\ probes' = [c \in Clusters |-> None]
  /\ skipped' = FALSE
  /\ UNCHANGED <<api, writing>>

\* The server of a kubeconfig that the status follows.
Health(s) == IF s \in down THEN "Unreachable" ELSE "Ready"

\* Controllers that have settled: some Clusters with kubeconfigs, of which
\* one holds each server that a selected one connects to.
Init ==
  \E have \in SUBSET Clusters,
     kcs \in [Clusters -> {k \in Kubeconfigs : k.cred = 1}],
     win \in [Servers -> Clusters \cup {None}] :
    LET wants(s) == {c \in have : kcs[c].server = s}
        held(c) == \E s \in Servers : win[s] # None /\ win[s] # c /\ c \in wants(s)
    IN /\ \A s \in Servers : IF wants(s) = {} THEN win[s] = None
                             ELSE win[s] \in wants(s)
       /\ cluster = [c \in Clusters |->
            IF c \notin have THEN None
            ELSE [label |-> InLabel, fin |-> TRUE, del |-> FALSE,
                  server |-> kcs[c].server,
                  ready |-> IF held(c) THEN "ClusterConflict"
                            ELSE "Ready"]]
       /\ secret = [c \in Clusters |-> IF c \in have THEN kcs[c] ELSE None]
       /\ argo = [s \in Servers |-> IF win[s] = None THEN None
                    ELSE [holder |-> win[s], cred |-> kcs[win[s]].cred]]
  /\ env = Counted([NewEnvironment EXCEPT !.fin = TRUE], cluster, TRUE)
  /\ project = TRUE /\ owned = {} /\ foreign = {} /\ down = {}
  /\ seen = Present /\ behind = {}
  /\ pass = [x \in Keys |-> Idle]
  /\ queue = {} /\ due = FALSE
  /\ probes = [c \in Clusters |-> None]
  /\ writing = [c \in Clusters |-> None]
  /\ skipped = FALSE
  /\ edits = 0 /\ failures = 0

EditStep ==
  \/ \E c \in Clusters : \/ CreateCluster(c) \/ UpdateCluster(c)
                         \/ DeleteCluster(c) \/ EditKubeconfig(c)
                         \/ Tick(c)
  \/ EditForeign \/ EditEnvironment \/ DeleteEnvironment \/ EditProject
  \/ EditHealth

FailureStep == Crash \/ \E c \in Clusters : StoreFails(c) \/ WriteFails(c)

ClusterPass(c) ==
  \/ BeginCluster(c) \/ Connect(c) \/ Unregister(c) \/ Register(c)
  \/ Status(c) \/ Remove(c)

Work ==
  \/ \E c \in Clusters : \/ ClusterPass(c) \/ StoreKubeconfig(c)
                         \/ CollectSecret(c)
  \/ TickAll
  \/ BeginEnvironment \/ CountEnvironment
  \/ DeliverClusters \/ DeliverSecrets \/ DeliverEnvironment \/ DeliverProject

Next == EditStep \/ FailureStep \/ Work

Spec == Init /\ [][Next]_vars

-----------------------------------------------------------------------------

\* The state of the controllers and of what they keep is of its type.
TypeOK ==
  /\ cluster \in [Clusters -> ClusterType \cup {None}]
  /\ env \in EnvironmentType \cup {None} /\ project \in BOOLEAN
  /\ secret \in [Clusters -> Kubeconfigs \cup {Bad, None}]
  /\ owned \subseteq Clusters
  /\ argo \in [Servers -> Registration \cup {None}]
  /\ foreign \subseteq Servers \cup Clusters
  /\ down \subseteq Servers
  /\ seen.cluster \in [Clusters -> ClusterType \cup {None}]
  /\ seen.argo \in [Servers -> Registration \cup {None}]
  /\ behind \subseteq Keys \cup Servers
  /\ queue \subseteq Keys /\ due \in BOOLEAN
  /\ \A c \in Clusters :
       /\ pass[c].at \in {"Idle", "Connect", "Unregister", "Create", "Update",
                          "Status", "Remove"}
       /\ pass[c].at = "Unregister" => pass[c].todo # {}
  /\ skipped \in BOOLEAN /\ edits \in 0 .. MaxEdits
  /\ failures \in 0 .. MaxFailures

\* A registration is changed and deleted by a pass of its own Cluster, and
\* never given to another: the copy of the cache may be of a Secret that was
\* deleted since, and that another Cluster created again under its name.
OwnRegistration ==
  [][\A s \in Servers :
       argo[s] # None /\ argo'[s] # argo[s] =>
         LET h == argo[s].holder
         IN /\ pass[h].at \in {"Unregister", "Update"} /\ pass'[h] # pass[h]
            /\ argo'[s] # None => argo'[s].holder = h]_vars

\* Where a Cluster that is registered should be.
SelectedNow(c) == cluster[c] # None /\ Selects(env, cluster[c])

\* A registration that its Cluster should not have: it is gone, or connects
\* to another server.
Stray(s) ==
  argo[s] # None /\ LET h == argo[s].holder
                    IN \/ cluster[h] = None
                       \/ secret[h] \in Kubeconfigs /\ secret[h].server # s

\* What reconcileCluster brings about for a Cluster.
Settled(c) ==
  LET o == cluster[c]
      kc == secret[c]
      holds == {s \in Servers : argo[s] # None /\ argo[s].holder = c}
  IN /\ ~o.del /\ o.fin
     /\ IF kc \notin Kubeconfigs
        THEN holds = {} /\ o.ready \in {"SecretNotFound", "SecretInvalid"}
        ELSE /\ o.server = kc.server
             /\ IF ~SelectedNow(c)
                THEN holds = {} /\ o.ready = Health(kc.server)
                ELSE IF {kc.server, c} \cap foreign # {}
                THEN holds = {} /\ o.ready = "ClusterConflict"
                ELSE /\ argo[kc.server] # None
                     /\ IF argo[kc.server].holder = c
                        THEN /\ argo[kc.server].cred = kc.cred
                             /\ o.ready = Health(kc.server)
                        ELSE o.ready = "ClusterConflict" /\ holds = {}

\* Once every Cluster was checked again, each is registered where its
\* kubeconfig points while an Environment selects it, with that credential,
\* or waits for a Cluster that is; one that is not usable or not selected
\* holds nothing, one that is deleted is gone, and Ready says which.  The
\* events alone do not bring this about (a foreign Secret wakes nothing).
\* The Environment counts the Clusters that it selects and that are ready,
\* and says why Orders cannot deploy to it, without a timer: every change of
\* a Cluster or of the AppProject that its status depends on reaches it.
\* What its last pass compared must be its current status, though: one that
\* finds its result in an outdated copy writes nothing.
ClustersSettle ==
  Quiet =>
    /\ ~due => \A c \in Clusters : cluster[c] # None => Settled(c)
    /\ ~skipped => env # None /\ ~env.del /\ env = Counted(env, cluster, project)

\* What operator-guide/clusters.md says of registrations: when the
\* kubeconfig points at another server, the registration moves, and the
\* Secret is deleted when the Cluster is.
NoStrayRegistration == Quiet /\ ~due => \A s \in Servers : ~Stray(s)
=============================================================================
