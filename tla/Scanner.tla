-------------------------------- MODULE Scanner --------------------------------
(* The kokumi-scanner component: the requests it takes, and the vulnerability     *)
(* databases it keeps on disk for them (src/internal/scanner).                    *)
(*                                                                              *)
(* A request waits for its database, which another goroutine installs: the         *)
(* request may end first, the install goes on. Installs of one kind of database    *)
(* take turns. An install extracts into a directory beside the others, removes     *)
(* old versions, and then renames what it extracted into place. A request reads    *)
(* its versions from the disk while it scans; no lock keeps them there.            *)
EXTENDS Integers, Sequences, FiniteSets, SequencesExt

CONSTANTS
  Requests,          \* the requests the manager may have under way
  Kinds,             \* the kinds of database: the vulnerabilities, the Java archives
  Main,              \* the kind every request reads; the other when an image needs it
  Versions,          \* per kind: the versions of the database
  None,              \* no value
  MaxConcurrent,     \* requests scanned at the same time
  MaxFaults,         \* bound of the downloads that fail and the restarts
  MaxCancels         \* bound of the requests that end early

ASSUME ScannerAssumption == Main \in Kinds /\ MaxConcurrent \in Nat \ {0}

\* What the versions that a request holds say of one of them.
Holds == [newest : BOOLEAN, since : 0 .. 2]

Wants == {w \in [Kinds -> UNION Range(Versions)] : \A k \in Kinds : w[k] \in Versions[k]}

RequestStates ==
  [wants : Wants, pc : {"Wait", "Scan"}, holds : [Kinds -> Holds \cup {None}]]

ASSUME NoneAssumption ==
  None \notin Requests /\ None \notin Holds /\ None \notin RequestStates

VARIABLES
  request,     \* per request: None, or the versions it names, where it is and what it holds
  installs,    \* the installs that are not over: [for, kind, version, pc]
  disk,        \* per kind: the complete versions, in the order they were installed
  faults,      \* how many faults happened
  cancels      \* how many requests ended early

vars == <<request, installs, disk, faults, cancels>>

Present(k, v) == v \in Range(disk[k])

Init ==
  /\ request = [r \in Requests |-> None]
  /\ installs = {} /\ disk = [k \in Kinds |-> <<>>] /\ faults = 0 /\ cancels = 0

Fault == faults < MaxFaults /\ faults' = faults + 1

-------------------------------------------------------------------------------
(* A request: Handler.scan, Trivy.Scan                                           *)

Active == {r \in Requests : request[r] # None}

Ask(r, k, v) == installs' = installs \cup {[for |-> r, kind |-> k, version |-> v, pc |-> "Lock"]}

\* The request takes a free slot, and asks for its database. Without a free
\* slot the answer is 503, and nothing changes.
Arrive(r) ==
  /\ request[r] = None /\ Cardinality(Active) < MaxConcurrent
  /\ \E wants \in Wants :
       /\ request' = [request EXCEPT ![r] = [wants |-> wants, pc |-> "Wait", holds |-> [k \in Kinds |-> None]]]
       /\ Ask(r, Main, wants[Main])
  /\ UNCHANGED <<disk, faults, cancels>>

\* An image holds Java archives: their database is needed. It is linked once
\* per request.
NeedsOther(r) ==
  /\ request[r] # None /\ request[r].pc = "Scan"
  /\ \E k \in Kinds :
       /\ request[r].holds[k] = None
       /\ request' = [request EXCEPT ![r].pc = "Wait"]
       /\ Ask(r, k, request[r].wants[k])
  /\ UNCHANGED <<disk, faults, cancels>>

\* The images are scanned, and the answer frees the slot.
Answer(r) ==
  /\ request[r] # None /\ request[r].pc = "Scan"
  /\ request' = [request EXCEPT ![r] = None]
  /\ UNCHANGED <<installs, disk, faults, cancels>>

\* Not the code: an install ends with the request that waits for it.
OrphansEnd(r) == {i \in installs : i.for # r}

\* The manager is gone, or its time for the request is up. An install the
\* request waited for goes on.
Orphans(r) == {IF i.for = r THEN [i EXCEPT !.for = None] ELSE i : i \in installs}

Cancel(r) ==
  /\ request[r] # None /\ cancels < MaxCancels /\ cancels' = cancels + 1
  /\ request' = [request EXCEPT ![r] = None]
  /\ installs' = Orphans(r)
  /\ UNCHANGED <<disk, faults>>

-------------------------------------------------------------------------------
(* An install: Trivy.database, install, lock, download                           *)

\* The request that waits for the install goes on. It holds the version from
\* now on: whether that was the newest, and how many installs began since.
Found(i, newest) ==
  IF i.for = None THEN request
  ELSE [request EXCEPT ![i.for].pc = "Scan", ![i.for].holds[i.kind] = [newest |-> newest, since |-> 0]]

\* Without its main database a request fails; without another one its image
\* does.
NotFound(i) ==
  IF i.for = None THEN request
  ELSE IF i.kind = Main THEN [request EXCEPT ![i.for] = None]
  ELSE [request EXCEPT ![i.for].pc = "Scan"]

\* Not the code: there is no lock.
HeldByNone(k) == FALSE

\* The lock of a kind is with the install that is past it.
Held(k) == \E i \in installs : i.kind = k /\ i.pc # "Lock"

Past(i, pc) == (installs \ {i}) \cup {[i EXCEPT !.pc = pc]}

\* The install has the lock: what is there already is not downloaded again.
Lock(i) ==
  /\ i.pc = "Lock" /\ ~ Held(i.kind)
  /\ \/ /\ Present(i.kind, i.version)
        /\ installs' = installs \ {i}
        /\ request' = Found(i, Last(disk[i.kind]) = i.version)
     \/ /\ ~ Present(i.kind, i.version)
        /\ installs' = Past(i, "Prune") /\ UNCHANGED request
  /\ UNCHANGED <<disk, faults, cancels>>

\* Not the code: every other version goes.
NoneBeside(k) == <<>>

\* What stays beside the version that is installed next: the one installed
\* last (pruneOlder). The download is complete by then.
Beside(k) == IF disk[k] = <<>> THEN <<>> ELSE <<Last(disk[k])>>

\* The requests that read a version of the kind, and how many installs took
\* others away since.
Pruned(k) ==
  [r \in Requests |->
     IF request[r] # None /\ request[r].holds[k] # None /\ request[r].holds[k].since < 2
     THEN [request[r] EXCEPT !.holds[k].since = @ + 1] ELSE request[r]]

Prune(i) ==
  /\ i.pc = "Prune"
  /\ disk' = [disk EXCEPT ![i.kind] = Beside(i.kind)]
  /\ installs' = Past(i, "Rename")
  /\ request' = Pruned(i.kind)
  /\ UNCHANGED <<faults, cancels>>

Rename(i) ==
  /\ i.pc = "Rename" /\ ~ Present(i.kind, i.version)
  /\ disk' = [disk EXCEPT ![i.kind] = Append(@, i.version)]
  /\ installs' = installs \ {i}
  /\ request' = Found(i, TRUE)
  /\ UNCHANGED <<faults, cancels>>

\* The registry, the artifact or the disk fails a download.
Fails(i) ==
  /\ Fault /\ i.pc # "Lock"
  /\ installs' = installs \ {i}
  /\ request' = NotFound(i)
  /\ UNCHANGED <<disk, cancels>>

\* The container restarts: the volume stays.
Restart ==
  /\ Fault
  /\ request' = [r \in Requests |-> None] /\ installs' = {}
  /\ UNCHANGED <<disk, cancels>>

Serve(r) == Arrive(r) \/ NeedsOther(r) \/ Answer(r) \/ Cancel(r)
Next ==
  \/ \E r \in Requests : Serve(r)
  \/ \E i \in installs : Lock(i) \/ Prune(i) \/ Rename(i) \/ Fails(i)
  \/ Restart

\* Downloads and Trivy runs end, each has its own timeout; the mutex passes to
\* everyone who waits for it.
Fairness ==
  /\ \A r \in Requests :
       /\ WF_vars(Answer(r))
       /\ SF_vars(\E i \in installs : i.for = r /\ Lock(i))
  /\ \A k \in Kinds : WF_vars(\E i \in installs : i.kind = k /\ (Prune(i) \/ Rename(i)))

Spec == Init /\ [][Next]_vars /\ Fairness

-------------------------------------------------------------------------------
(* Properties                                                                    *)

\* The disk holds two versions of a database at most (pruneOlder; the volume is
\* sized for two), however requests end and installs overlap.
TwoVersions == \A k \in Kinds : Len(disk[k]) <= 2 /\ IsInjective(disk[k])

\* A version that was the newest when a request began to read it survives the
\* next install (download: "keeping the newest besides target").
SurvivesNext ==
  \A r \in Active, k \in Kinds :
    LET h == request[r].holds[k]
    IN h # None /\ h.newest /\ h.since < 2 => Present(k, request[r].wants[k])

\* No database goes while a request reads it. It does: an older version that a
\* request reads again, or the one two installs ago.
ReadsWhatIsThere ==
  \A r \in Active, k \in Kinds : request[r].holds[k] # None => Present(k, request[r].wants[k])

\* A download outlives the request that started it (downloadTimeout): once no
\* fault happens, a version whose download began gets on the disk, also when
\* every request is cancelled.
DownloadsComplete ==
  \A k \in Kinds : \A v \in Versions[k] :
    (faults = MaxFaults /\ \E i \in installs : i.kind = k /\ i.version = v /\ i.pc # "Lock")
      ~> Present(k, v)
===============================================================================
