------------------------------ MODULE History ------------------------------
(***************************************************************************)
(* The deployment history of a stage: internal/promotion/history.go.       *)
(*                                                                         *)
(* A history is a sequence of entries, newest first.  An entry is one      *)
(* continuous deployment of a Preparation, from its promotion, or its      *)
(* recovery, until it is superseded or degraded.  The operators below are  *)
(* the methods of promotion.History; none of them is recursive, so that    *)
(* the modules that use them can be proved about.                          *)
(*                                                                         *)
(* A Preparation stands for itself, its artifact digest, its OCI reference *)
(* and its Registry: its spec is immutable and its name is derived from    *)
(* the digest, so none of them tells apart what the others do not.         *)
(***************************************************************************)
EXTENDS Integers, Sequences

CONSTANTS
  MaxEntries,   \* how many deployments a history keeps
  NoRecord      \* the record digest of an entry without a record

\* Open puts a pending entry before the deployed one, and Observe a recovery
\* between the two and what they replace: a history of one entry would lose
\* the deployed one.  The code keeps 16.
ASSUME MaxEntriesAssumption == MaxEntries \in Nat /\ MaxEntries >= 2

\* The zero time.Time: an entry that was never healthy, or still runs.
Never == 0

NotEnded   == "None"
Superseded == "Superseded"
Degraded   == "Degraded"

\* What Argo CD reports on a deployment (promotion.Health).
Healths == {"Progressing", "Healthy", "Degraded"}

\* The observation of no revision, which describes no entry.
NoRevision == 0

Running(e)  == e.ended = Never
Promoted(e) == e.promotionRecord # NoRecord

-----------------------------------------------------------------------------

Promotions(h) == {i \in DOMAIN h : Promoted(h[i])}

\* Where the newest promoted entry is, 0 when nothing is deployed.
DeployedIndex(h) ==
  IF Promotions(h) = {} THEN 0
  ELSE CHOOSE i \in Promotions(h) : \A j \in Promotions(h) : i <= j

IsDeployed(h) == Promotions(h) # {}

\* Only meaningful while IsDeployed(h).
Deployed(h) == h[DeployedIndex(h)]

HasPending(h) == h # << >> /\ ~Promoted(h[1])

PromotedBefore(h, p) ==
  \E i \in DOMAIN h : h[i].preparation = p /\ Promoted(h[i])

-----------------------------------------------------------------------------

Truncate(h) ==
  [i \in 1 .. (IF Len(h) < MaxEntries THEN Len(h) ELSE MaxEntries) |-> h[i]]

\* h with e inserted before position i.
Insert(h, i, e) ==
  [j \in 1 .. Len(h) + 1 |->
     CASE j < i -> h[j] [] j = i -> e [] j > i -> h[j - 1]]

Prepend(h, e) == Truncate(Insert(h, 1, e))

Drop(h) == IF HasPending(h) THEN Tail(h) ELSE h

\* Not the code: the time of the promotion is not set.
UntimedEntry(p, now) ==
  [preparation |-> p, started |-> Never, healthy |-> Never, ended |-> Never,
   endReason |-> NotEnded, promotionRecord |-> NoRecord,
   deploymentRecord |-> NoRecord]

PendingEntry(p, now) ==
  [preparation |-> p, started |-> now, healthy |-> Never, ended |-> Never,
   endReason |-> NotEnded, promotionRecord |-> NoRecord,
   deploymentRecord |-> NoRecord]

Open(h, p, now) == Prepend(Drop(h), PendingEntry(p, now))

\* What the pending entry replaces ends at the pending entry's start, not at
\* the time of the call.
Supersede(h, i) ==
  IF i = 0 \/ h[i].ended # Never THEN h
  ELSE [h EXCEPT ![i].ended = h[1].started, ![i].endReason = Superseded]

\* Not the code: what is replaced goes on running.
StartAlongside(h, record) ==
  IF ~HasPending(h) THEN h ELSE [h EXCEPT ![1].promotionRecord = record]

Start(h, record) ==
  IF ~HasPending(h) THEN h
  ELSE [Supersede(h, DeployedIndex(h)) EXCEPT ![1].promotionRecord = record]

\* What promoting p, which passed its gates, takes next.
NextStep(h, p) ==
  IF IsDeployed(h) /\ Deployed(h).preparation = p THEN "Deployed"
  ELSE IF HasPending(h) /\ h[1].preparation = p THEN "Record"
  ELSE "Open"

-----------------------------------------------------------------------------

\* Not the code: the recovered deployment goes on as it was.
RecoveryInPlace(e, now) ==
  [e EXCEPT !.ended = Never, !.endReason = NotEnded]

Recovery(e, now) ==
  [e EXCEPT !.started = now, !.healthy = now, !.ended = Never,
            !.endReason = NotEnded, !.deploymentRecord = NoRecord]

\* h with what Argo CD reports at revision, at now.  The history changed iff
\* the result differs from h: every case but the last sets a time that was
\* not set, or adds an entry that runs before one that ended.
Observe(h, revision, health, now) ==
  LET i == DeployedIndex(h)
      e == h[i]
  IN  IF ~IsDeployed(h) \/ e.preparation # revision THEN h
      ELSE IF health = "Healthy" /\ Running(e) /\ e.healthy = Never
        THEN [h EXCEPT ![i].healthy = now]
      ELSE IF health = "Healthy" /\ e.endReason = Degraded
        THEN Truncate(Insert(h, i, Recovery(e, now)))
      ELSE IF health = "Degraded" /\ Running(e)
        THEN [h EXCEPT ![i].ended = now, ![i].endReason = Degraded]
      ELSE h

IsUnrecorded(e) ==
  Promoted(e) /\ e.healthy # Never /\ e.deploymentRecord = NoRecord

Unrecorded(h) == {i \in DOMAIN h : IsUnrecorded(h[i])}

-----------------------------------------------------------------------------

\* The entries of Preparations in preps with records in promotions and
\* deployments.
EntriesOf(preps, promotions, deployments) ==
  [preparation : preps, started : Nat \ {Never}, healthy : Nat, ended : Nat,
   endReason : {NotEnded, Superseded, Degraded},
   promotionRecord  : promotions \cup {NoRecord},
   deploymentRecord : deployments \cup {NoRecord}]

\* Those whose promotion record is of their own Preparation, and whose end has
\* a reason.
RecordedEntriesOf(preps, promotions, deployments) ==
  {e \in EntriesOf(preps, promotions, deployments) :
     /\ Promoted(e) => e.promotionRecord.preparation = e.preparation
     /\ e.endReason = NotEnded <=> e.ended = Never}

\* At most the first entry is pending, nothing below the deployed entry still
\* runs, and the length is bounded.
OnlyNewestRuns(h) ==
  /\ Len(h) <= MaxEntries
  /\ \A i \in DOMAIN h : i # 1 => Promoted(h[i])
  /\ \A i, j \in DOMAIN h : i < j /\ Promoted(h[i]) => h[j].ended # Never

=============================================================================
