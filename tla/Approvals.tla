----------------------------- MODULE Approvals -----------------------------
(***************************************************************************)
(* The votes on one Preparation with an approval policy, and the four      *)
(* actors that meet on them: the server that records votes                 *)
(* (internal/server/approval_handler.go), the Preparation controller that  *)
(* attaches the artifact's evidence and seals and archives the votes       *)
(* (internal/controller/preparation_controller.go), the Approval           *)
(* controller that reports which votes count (approval_controller.go), and *)
(* the Serving controller, of which this module has only what concerns     *)
(* votes: it makes the Preparation its target, and promotes it once the    *)
(* gate of internal/approval/gate.go lets it.                              *)
(*                                                                         *)
(* Controllers read the Preparation, the Approvals and the Serving from    *)
(* informer caches, each of which lags; the server and the two steps that  *)
(* seal and archive read the API server.                                   *)
(***************************************************************************)
EXTENDS Integers, Sequences, FiniteSets

CONSTANTS
  Approvers,          \* (issuer, subject) pairs
  RequiredApprovals,  \* of the policy, which the spec of a Preparation fixes
  MaxApprovers,       \* how many approvers fit into the status, 64 in the code
  MaxRequests,        \* how many votes are submitted
  MaxEdits,           \* how many changes and failures there are
  Edits               \* of which kinds

\* The schema of the policy asks for one approval at least.
ASSUME RequiredAssumption == RequiredApprovals \in Nat \ {0}
ASSUME RequestsAssumption == MaxRequests \in Nat

Requests  == 1 .. MaxRequests
Decisions == {"Approve", "Reject"}

NoStatement == {}

VARIABLES
  requests,    \* the requests the server handles
  approvals,   \* the Approvals, in the order they were created
  seenLength,  \* how many of them the informer cache holds
  preparation, \* the status of the Preparation
  seen,        \* its copy in the informer cache
  seenFresh,   \* whether that copy is of its current version
  target,      \* whether the Serving has the Preparation as its target
  seenTarget,  \* its copy in the informer cache
  gatesOpen,   \* whether the gates before the target pass
  promoted,    \* the statement the Serving promoted it with
  registry,    \* the evidence and the approval statements of the artifact
  pass,        \* the Preparation controller's pass in progress
  queued,      \* whether its queue holds the Preparation
  timer,       \* whether it is to be queued again after a delay
  serve,       \* whether the Serving controller's queue holds the Serving
  toReport,    \* the Approvals in the queue of the Approval controller
  counted,     \* the Counted conditions of the Approvals
  edits        \* how many changes and failures there were

voteVars   == <<requests, approvals, seenLength>>
prepVars   == <<preparation, seen, seenFresh>>
targetVars == <<target, seenTarget, gatesOpen, promoted, serve>>
passVars   == <<pass, queued, timer>>
countVars  == <<toReport, counted>>
vars == <<voteVars, prepVars, targetVars, passVars, countVars, registry, edits>>

-----------------------------------------------------------------------------
(* approval.Evaluate.  The Approvals are in the order compareApprovals     *)
(* sorts them: the names of one approver's votes count up, and one server  *)
(* submits and creates them in that order.                                 *)

VotesOf(as, a) == {i \in DOMAIN as : as[i].approver = a}

First(as, a) == CHOOSE i \in VotesOf(as, a) : \A j \in VotesOf(as, a) : i <= j

IsLatest(as, i) == \A j \in VotesOf(as, as[i].approver) : j <= i

\* evaluateOpen: the latest vote of each approver, in the order of their first
\* votes, as many as fit.
OpenVotes(as) ==
  LET Before(a) == {b \in Approvers : VotesOf(as, b) # {}
                                      /\ First(as, b) < First(as, a)}
  IN  {as[i] : i \in {k \in DOMAIN as :
         IsLatest(as, k) /\ Cardinality(Before(as[k].approver)) < MaxApprovers}}

Votes(p, as) == IF p.sealed THEN p.votes ELSE OpenVotes(as)

Counting(votes, decision) ==
  {v \in votes : v.eligible /\ v.decision = decision}

\* Not the code: a rejection does not veto.
ApprovedDespiteRejects(votes) ==
  Cardinality(Counting(votes, "Approve")) >= RequiredApprovals

Approved(votes) ==
  /\ Counting(votes, "Reject") = {}
  /\ Cardinality(Counting(votes, "Approve")) >= RequiredApprovals

\* Not the code: the seal is not looked at.
VerdictUnsealed(p, as, i) ==
  IF ~IsLatest(as, i) THEN "Superseded"
  ELSE IF as[i].eligible THEN "Counted" ELSE "NotEligible"

\* How a vote is reported: evaluateOpen, and evaluateSealed once it is sealed.
Verdict(p, as, i) ==
  LET own == IF as[i].eligible THEN "Counted" ELSE "NotEligible"
  IN  IF ~p.sealed THEN IF IsLatest(as, i) THEN own ELSE "Superseded"
      ELSE IF as[i] \in p.votes THEN own
      ELSE IF \E j \in VotesOf(as, as[i].approver) : i < j /\ as[j] \in p.votes
        THEN "Superseded"
      ELSE "SubmittedAfterSeal"

\* markApproval: what the status says of the votes.
MarkApproval(p, as) ==
  [p EXCEPT !.votes = Votes(p, as), !.submissions = Len(as)]

\* approval.Gate: approved, sealed and archived.
Gate(p, as) ==
  Approved(Votes(p, as)) /\ p.sealed /\ p.statement # NoStatement

\* buildAttestation: the votes that existed when the approvals were sealed.
Statement(p, as) ==
  {[vote |-> as[i], verdict |-> Verdict(p, as, i)] :
     i \in {k \in DOMAIN as : Verdict(p, as, k) # "SubmittedAfterSeal"}}

SeenApprovals == SubSeq(approvals, 1, seenLength)

-----------------------------------------------------------------------------
(* The server: handleSubmitApproval.  It reads the Preparation, then lists *)
(* the votes, then creates one; anything may happen between.               *)

NewRequest == [step |-> "New"]

\* The Preparation is ready, and not sealed yet.  Whether the approver is in
\* an allowed group is taken from the session.  Requests are numbered as they
\* arrive.
AcceptVote(r) ==
  /\ requests[r].step = "New"
  /\ \A q \in 1 .. r - 1 : requests[q].step # "New"
  /\ preparation.ready /\ ~preparation.sealed
  /\ \E a \in Approvers, d \in Decisions, e \in BOOLEAN :
       requests' = [requests EXCEPT ![r] =
         [step |-> "List", approver |-> a, decision |-> d, eligible |-> e]]
  /\ UNCHANGED <<approvals, seenLength, prepVars, targetVars, passVars, countVars,
                 registry, edits>>

\* rejectVote, on the votes listed and the Preparation as it was read: the
\* approver's current vote, or one approver too many.
Refuses(votes, r) ==
  \/ \E v \in votes : /\ v.approver = requests[r].approver
                      /\ v.decision = requests[r].decision
  \/ /\ \A v \in votes : v.approver # requests[r].approver
     /\ Cardinality(votes) >= MaxApprovers

\* newApproval names the vote by how many the approver cast before.
ListVotes(r) ==
  /\ requests[r].step = "List"
  /\ requests' = [requests EXCEPT ![r] =
       IF Refuses(OpenVotes(approvals), r) THEN [step |-> "Done"]
       ELSE [step |-> "Create", approver |-> @.approver, decision |-> @.decision,
             eligible |-> @.eligible,
             seq |-> Cardinality(VotesOf(approvals, @.approver))]]
  /\ UNCHANGED <<approvals, seenLength, prepVars, targetVars, passVars, countVars,
                 registry, edits>>

\* The API server admits one vote of a name.
CreateVote(r) ==
  /\ requests[r].step = "Create"
  /\ LET vote == [approver |-> requests[r].approver, seq |-> requests[r].seq,
                  decision |-> requests[r].decision,
                  eligible |-> requests[r].eligible]
     IN  IF \E i \in DOMAIN approvals : /\ approvals[i].approver = vote.approver
                                        /\ approvals[i].seq = vote.seq
         THEN UNCHANGED <<approvals, counted>>
         ELSE approvals' = Append(approvals, vote) /\ counted' = Append(counted, "None")
  /\ requests' = [requests EXCEPT ![r] = [step |-> "Done"]]
  /\ UNCHANGED <<seenLength, prepVars, targetVars, passVars, toReport, registry, edits>>

-----------------------------------------------------------------------------
(* The Preparation controller.                                             *)

Idle == [step |-> "Idle"]

Failure ==
  /\ "Failure" \in Edits /\ edits < MaxEdits
  /\ edits' = edits + 1

\* since is not in the code: how many votes there were when the pass started.
StartPass ==
  /\ pass.step = "Idle"
  /\ queued
  /\ queued' = FALSE
  /\ pass' = [step  |-> IF seen.ready THEN "Evaluate" ELSE "Attach",
              base  |-> seen, next |-> seen, fresh |-> seenFresh,
              retry |-> FALSE, since |-> Len(approvals)]
  /\ UNCHANGED <<voteVars, prepVars, targetVars, timer, countVars, registry, edits>>

\* The step of the pass that ends with next, and goes on with step.
Take(next, step) == pass' = [pass EXCEPT !.next = next, !.step = step]

Fail == pass' = [pass EXCEPT !.retry = TRUE, !.step = "Patch"]

\* attachEvidence signs the artifact, then attaches its provenance.
AttachEvidence ==
  /\ pass.step = "Attach"
  /\ registry' = [registry EXCEPT !.evidence = {"Signature", "Provenance"}]
  /\ Take([pass.next EXCEPT !.ready = TRUE], "Patch")
  /\ UNCHANGED <<voteVars, prepVars, targetVars, queued, timer, countVars, edits>>

\* Not the code: ready although the provenance could not be attached.
ReadyWithoutEvidence ==
  /\ pass.step = "Attach"
  /\ Failure
  /\ registry' = [registry EXCEPT !.evidence = @ \cup {"Signature"}]
  /\ Take([pass.next EXCEPT !.ready = TRUE], "Patch")
  /\ UNCHANGED <<voteVars, prepVars, targetVars, queued, timer, countVars>>

\* The key is not ready, or one of the two pushes fails or loses its answer.
AttachEvidenceFails ==
  /\ pass.step = "Attach"
  /\ Failure
  /\ \E pushed \in {{}, {"Signature"}, {"Signature", "Provenance"}} :
       registry' = [registry EXCEPT !.evidence = @ \cup pushed]
  /\ Fail
  /\ UNCHANGED <<voteVars, prepVars, targetVars, queued, timer, countVars>>

\* reconcilePreparation on what the caches hold.
Evaluate ==
  /\ pass.step = "Evaluate"
  /\ LET next == MarkApproval(pass.base, SeenApprovals)
     IN  Take(next, IF next.sealed
                    THEN IF next.statement = NoStatement THEN "Archive" ELSE "Patch"
                    ELSE IF Approved(next.votes) /\ seenTarget THEN "Seal" ELSE "Patch")
  /\ UNCHANGED <<voteVars, prepVars, targetVars, queued, timer, countVars, registry, edits>>

\* seal evaluates the votes again, as the API server has them.
Seal ==
  /\ pass.step = "Seal"
  /\ LET next == MarkApproval(pass.base, approvals)
     IN  Take(IF Approved(next.votes)
              THEN [next EXCEPT !.sealed = TRUE, !.statement = NoStatement]
              ELSE next, "Patch")
  /\ UNCHANGED <<voteVars, prepVars, targetVars, queued, timer, countVars, registry, edits>>

\* archive signs the sealed votes, as the API server has them, and attaches
\* the statement to the artifact.
Archive ==
  /\ pass.step = "Archive"
  /\ LET s == Statement(pass.next, approvals)
     IN  /\ registry' = [registry EXCEPT !.statements = @ \cup {s}]
         /\ Take([pass.next EXCEPT !.statement = s], "Patch")
  /\ UNCHANGED <<voteVars, prepVars, targetVars, queued, timer, countVars, edits>>

\* The key is not ready, or the push fails or loses its answer.
ArchiveFails ==
  /\ pass.step = "Archive"
  /\ Failure
  /\ \/ UNCHANGED registry
     \/ registry' = [registry EXCEPT !.statements = @ \cup {Statement(pass.next, approvals)}]
  /\ Fail
  /\ UNCHANGED <<voteVars, prepVars, targetVars, queued, timer, countVars>>

\* A list fails: the votes and the target cannot be read.
ReadFails ==
  /\ pass.step \in {"Evaluate", "Seal"}
  /\ Failure
  /\ Fail
  /\ UNCHANGED <<voteVars, prepVars, targetVars, queued, timer, countVars, registry>>

\* Not the code: the patch is not locked to the version that was read.
PatchUnlocked ==
  /\ pass.step = "Patch"
  /\ pass' = Idle
  /\ preparation' = IF pass.next = pass.base THEN preparation ELSE pass.next
  /\ seenFresh' = (seenFresh /\ preparation' = preparation)
  /\ timer' = (timer \/ pass.retry)
  /\ UNCHANGED <<voteVars, seen, targetVars, queued, countVars, registry, edits>>

\* patchStatus writes what changed, locked to the version that was read; a
\* pass that failed may have changed a condition alone.
PatchStatus ==
  /\ pass.step = "Patch"
  /\ pass' = Idle
  /\ \/ /\ pass.next = pass.base
        /\ timer' = (timer \/ pass.retry)
        /\ UNCHANGED <<preparation, seenFresh>>
     \/ /\ pass.next # pass.base \/ pass.retry
        /\ pass.fresh
        /\ preparation' = pass.next
        /\ seenFresh' = FALSE
        /\ timer' = (timer \/ pass.retry)
     \/ /\ pass.next # pass.base \/ pass.retry
        /\ ~pass.fresh
        /\ timer' = TRUE
        /\ UNCHANGED <<preparation, seenFresh>>
  /\ UNCHANGED <<voteVars, seen, targetVars, queued, countVars, registry, edits>>

PatchStatusFails ==
  /\ pass.step = "Patch"
  /\ Failure
  /\ pass' = Idle
  /\ timer' = TRUE
  /\ UNCHANGED <<voteVars, prepVars, targetVars, queued, countVars, registry>>

Requeue ==
  /\ timer
  /\ timer' = FALSE
  /\ queued' = TRUE
  /\ UNCHANGED <<voteVars, prepVars, targetVars, pass, countVars, registry, edits>>

-----------------------------------------------------------------------------
(* The Serving controller.  Of the two passes of a promotion this is the   *)
(* one that records it; both evaluate the gates alike.                     *)

Serve ==
  /\ serve
  /\ serve' = FALSE
  /\ target' = (seen.ready /\ (gatesOpen \/ promoted # NoStatement))
  /\ promoted' = IF /\ target' /\ promoted = NoStatement
                    /\ Gate(seen, SeenApprovals)
                 THEN seen.statement ELSE promoted
  /\ UNCHANGED <<voteVars, prepVars, seenTarget, gatesOpen, passVars, countVars,
                 registry, edits>>

-----------------------------------------------------------------------------
(* The Approval controller.                                                *)

ReportVote(i) ==
  /\ i \in toReport
  /\ toReport' = toReport \ {i}
  /\ counted' = [counted EXCEPT ![i] = Verdict(seen, SeenApprovals, i)]
  /\ UNCHANGED <<voteVars, prepVars, targetVars, passVars, registry, edits>>

-----------------------------------------------------------------------------
(* The informers, and what they wake up.                                   *)

\* approvalStateChanged
ChangedApproval(old, new) ==
  <<old.votes, old.submissions, old.sealed, old.statement>> #
    <<new.votes, new.submissions, new.sealed, new.statement>>

\* The controller is woken by its own writes: each step of it ends a pass.
SyncPreparation ==
  /\ ~seenFresh
  /\ seen' = preparation
  /\ seenFresh' = TRUE
  /\ queued' = TRUE
  /\ serve' = TRUE
  /\ toReport' = IF ChangedApproval(seen, preparation)
                 THEN toReport \cup 1 .. seenLength ELSE toReport
  /\ UNCHANGED <<voteVars, preparation, target, seenTarget, gatesOpen, promoted,
                 pass, timer, counted, registry, edits>>

SyncApproval ==
  /\ seenLength < Len(approvals)
  /\ seenLength' = seenLength + 1
  /\ queued' = TRUE
  /\ toReport' = toReport \cup {seenLength'}
  /\ UNCHANGED <<requests, approvals, prepVars, targetVars, pass, timer, counted,
                 registry, edits>>

\* Not the code: becoming the target wakes nobody.
SyncServingSilently ==
  /\ seenTarget # target
  /\ seenTarget' = target
  /\ UNCHANGED <<voteVars, prepVars, target, gatesOpen, promoted, serve, passVars,
                 countVars, registry, edits>>

\* servingTargetChanged, enqueueTargetPreparation
SyncServing ==
  /\ seenTarget # target
  /\ seenTarget' = target
  /\ queued' = (queued \/ target)
  /\ UNCHANGED <<voteVars, prepVars, target, gatesOpen, promoted, serve, pass, timer,
                 countVars, registry, edits>>

-----------------------------------------------------------------------------

\* The upstream stages or the checks of the Preparation change.
ChangeGates ==
  /\ "Gates" \in Edits /\ edits < MaxEdits
  /\ edits' = edits + 1
  /\ gatesOpen' = ~gatesOpen
  /\ serve' = TRUE
  /\ UNCHANGED <<voteVars, prepVars, target, seenTarget, promoted, passVars, countVars,
                 registry>>

\* The manager stops; the next one lists everything anew and queues it.
Crash ==
  /\ "Crash" \in Edits /\ edits < MaxEdits
  /\ edits' = edits + 1
  /\ pass' = Idle
  /\ queued' = TRUE /\ timer' = FALSE /\ serve' = TRUE
  /\ seen' = preparation /\ seenFresh' = TRUE
  /\ seenLength' = Len(approvals)
  /\ seenTarget' = target
  /\ toReport' = DOMAIN approvals
  /\ UNCHANGED <<requests, approvals, preparation, target, gatesOpen, promoted, counted,
                 registry>>

Server == \E r \in Requests : AcceptVote(r) \/ ListVotes(r) \/ CreateVote(r)

Pass ==
  \/ StartPass \/ AttachEvidence \/ Evaluate \/ Seal \/ Archive \/ PatchStatus

Failures ==
  \/ AttachEvidenceFails \/ ReadFails \/ ArchiveFails \/ PatchStatusFails \/ Crash

Informers == SyncPreparation \/ SyncApproval \/ SyncServing

Report == \E i \in DOMAIN approvals : ReportVote(i)

Init ==
  /\ requests = [r \in Requests |-> NewRequest]
  /\ approvals = << >> /\ seenLength = 0 /\ counted = << >> /\ toReport = {}
  /\ preparation = [ready |-> FALSE, votes |-> {}, submissions |-> 0,
                    sealed |-> FALSE, statement |-> NoStatement]
  /\ seen = preparation /\ seenFresh = TRUE
  /\ target = FALSE /\ seenTarget = FALSE
  /\ gatesOpen \in BOOLEAN
  /\ promoted = NoStatement
  /\ registry = [evidence |-> {}, statements |-> {}]
  /\ pass = Idle /\ queued = TRUE /\ timer = FALSE
  /\ serve = TRUE
  /\ edits = 0

Next ==
  \/ Server \/ Pass \/ Requeue \/ Serve \/ Report
  \/ Informers \/ Failures \/ ChangeGates

Spec == Init /\ [][Next]_vars

-----------------------------------------------------------------------------
(* Types.                                                                  *)

Approvals == [approver : Approvers, seq : Nat, decision : Decisions, eligible : BOOLEAN]

Verdicts == {"Counted", "NotEligible", "Superseded", "SubmittedAfterSeal"}

Statements == SUBSET [vote : Approvals, verdict : Verdicts]

Preparations ==
  [ready : BOOLEAN, votes : SUBSET Approvals, submissions : Nat, sealed : BOOLEAN,
   statement : Statements]

RequestStates ==
  {NewRequest, [step |-> "Done"]}
  \cup [step : {"List"}, approver : Approvers, decision : Decisions, eligible : BOOLEAN]
  \cup [step : {"Create"}, approver : Approvers, decision : Decisions,
        eligible : BOOLEAN, seq : Nat]

Passes ==
  [step : {"Attach", "Evaluate", "Seal", "Archive", "Patch"}, base : Preparations,
   next : Preparations, fresh : BOOLEAN, retry : BOOLEAN, since : Nat]

\* Every variable has its type, and every Approval its verdict.
TypeOK ==
  /\ requests \in [Requests -> RequestStates]
  /\ approvals \in Seq(Approvals)
  /\ seenLength \in 0 .. Len(approvals)
  /\ {preparation, seen} \subseteq Preparations
  /\ seenFresh \in BOOLEAN
  /\ {target, seenTarget, gatesOpen} \subseteq BOOLEAN
  /\ promoted \in Statements
  /\ registry \in [evidence : SUBSET {"Signature", "Provenance"},
                   statements : SUBSET Statements]
  /\ pass \in Passes \cup {Idle}
  /\ {queued, timer, serve} \subseteq BOOLEAN
  /\ toReport \subseteq DOMAIN approvals
  /\ counted \in Seq(Verdicts \cup {"None"}) /\ Len(counted) = Len(approvals)
  /\ edits \in Nat

-----------------------------------------------------------------------------
(* What must hold.                                                         *)

\* A Preparation is ready only once its signature and its provenance are in
\* the registry, and its status names a statement only once that is there
\* (preparation_controller.go:161-164), through failures and lost answers.
\* There is one at most: archiving again after a failure, a lost answer or a
\* crash finds the statement it pushed before, although votes come in between
\* (attestation.go:52-54, 74-76).
RegistryHolds ==
  /\ preparation.ready => registry.evidence = {"Signature", "Provenance"}
  /\ preparation.statement # NoStatement =>
       preparation.statement \in registry.statements
  /\ Cardinality(registry.statements) <= 1

CountedIn(statement) == {r.vote : r \in {q \in statement : q.verdict = "Counted"}}

\* What is promoted was approved as its statement in the registry says: by
\* enough distinct approvers, and none against it (gate.go:22-23), whatever
\* was voted between the reads, the seal and the promotion.
PromotedAsVoted ==
  promoted # NoStatement =>
    LET votes == CountedIn(promoted)
    IN  /\ promoted \in registry.statements
        /\ Counting(votes, "Reject") = {}
        /\ Cardinality({v.approver : v \in Counting(votes, "Approve")})
             >= RequiredApprovals

\* A rejection that is recorded before the pass starts that seals the votes
\* is never sealed away, however old the caches are
\* (preparation_controller.go:229-231): the approver took it back.
NoVetoSealed ==
  \A i \in 1 .. pass.since :
    LET v == approvals[i]
    IN  v.decision = "Reject" /\ v.eligible =>
          \E j \in VotesOf(approvals, v.approver) : j > i

\* No rejection is sealed away, and sealed votes and their statement stay as
\* they are, whatever old copies the passes after that read
\* (preparation_controller.go:339-343).
SealHolds ==
  [][/\ preparation'.sealed /\ ~preparation.sealed => NoVetoSealed
     /\ preparation.sealed =>
          /\ preparation'.sealed
          /\ preparation'.votes = preparation.votes
          /\ preparation.statement # NoStatement =>
               preparation'.statement = preparation.statement]_preparation

\* Nothing runs or is to run, and every cache caught up.
Quiet ==
  /\ pass.step = "Idle" /\ ~queued /\ ~timer /\ ~serve
  /\ seenFresh /\ seenLength = Len(approvals) /\ seenTarget = target
  /\ toReport = {}

\* Once all is quiet the status aggregates the votes there are, and of sealed
\* votes exactly those that count are reported to count, although votes come
\* and are reported before, while and after they are sealed.
VotesSettle ==
  Quiet /\ preparation.ready =>
    /\ preparation = MarkApproval(preparation, approvals)
    /\ preparation.sealed =>
         \A i \in DOMAIN approvals :
           counted[i] = "Counted" <=> approvals[i] \in preparation.votes
                                      /\ approvals[i].eligible

\* Every vote is evaluated again whenever the aggregated votes change, so that
\* its report is the one of the votes there are (approval_controller.go:
\* 171-173).
VerdictsSettle ==
  Quiet =>
    \A i \in DOMAIN approvals : counted[i] = Verdict(preparation, approvals, i)

\* Once all is quiet an approved target is sealed, archived and promoted: no
\* wake-up between the two controllers is lost.
TargetPromoted ==
  Quiet /\ target /\ Approved(Votes(preparation, approvals)) =>
    preparation.sealed /\ promoted # NoStatement

\* An eligible rejection vetoes, until its approver votes again
\* (evaluate.go:39-41).
RejectVetoes ==
  \A i \in DOMAIN approvals :
    approvals[i].decision = "Reject" /\ approvals[i].eligible /\ IsLatest(approvals, i) =>
      ~Approved(OpenVotes(approvals))

=============================================================================
