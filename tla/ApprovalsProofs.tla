---------------------------- MODULE ApprovalsProofs ----------------------------
(***************************************************************************)
(* What holds of the votes on a Preparation for any approvers, any number  *)
(* of votes, failures and crashes: what is sealed stays, one statement at  *)
(* most is archived, what is promoted was approved as it says, and no      *)
(* controller waits for a vote that was cast.                              *)
(***************************************************************************)
EXTENDS Approvals, FiniteSetTheorems, SequenceTheorems, WellFoundedInduction, TLAPS

Cast == {approvals[i] : i \in DOMAIN approvals}

\* Votes that can be sealed: they were cast, and each approver has one.
Sealable(votes) ==
  /\ votes \subseteq Cast
  /\ \A v, w \in votes : v.approver = w.approver => v = w

\* A copy that a cache or a pass took of the Preparation, now or before.
CopyOf(c) ==
  /\ c.ready => preparation.ready
  /\ c.sealed => /\ preparation.sealed
                 /\ c.votes = preparation.votes
                 /\ c.statement # NoStatement => c.statement = preparation.statement
  /\ ~c.sealed => c.statement = NoStatement

\* No rejection among the first n votes still counts.
NoVetoAmong(n) ==
  \A i \in 1 .. n :
    LET v == approvals[i]
    IN  v.decision = "Reject" /\ v.eligible =>
          \E j \in VotesOf(approvals, v.approver) : j > i

EveryoneFits ==
  IsFiniteSet(Approvers) /\ MaxApprovers \in Nat
    /\ Cardinality(Approvers) <= MaxApprovers

\* What a pass makes of the copy it read.
PassGood ==
  LET b == pass.base
      n == pass.next
  IN
  /\ CopyOf(b)
  /\ pass.fresh => b = preparation
  /\ pass.since <= Len(approvals)
  /\ n.ready => registry.evidence = {"Signature", "Provenance"}
  /\ b.ready => n.ready
  /\ pass.step \in {"Attach", "Evaluate"} => n = b
  /\ pass.step = "Seal" => ~b.sealed /\ ~n.sealed
  /\ pass.step = "Archive" => b.sealed /\ n.statement = NoStatement
  /\ b.sealed => /\ n.sealed /\ n.votes = b.votes
                 /\ b.statement # NoStatement => n.statement = b.statement
                 /\ n.statement # NoStatement => n.statement \in registry.statements
  /\ ~b.sealed => n.statement = NoStatement
  /\ ~b.sealed /\ n.sealed => /\ Sealable(n.votes)
                              /\ EveryoneFits => NoVetoAmong(pass.since)

\* The invariant behind the theorems: the copies of the Preparation are of
\* what it is or was, so that sealed votes are the same in all of them, and
\* the registry has the one statement that these votes make.
Inductive ==
  /\ TypeOK
  /\ \A i, j \in DOMAIN approvals :
       approvals[i].approver = approvals[j].approver
         /\ approvals[i].seq = approvals[j].seq => i = j
  /\ preparation.ready => registry.evidence = {"Signature", "Provenance"}
  /\ preparation.sealed => Sealable(preparation.votes)
  /\ registry.statements \subseteq
       (IF preparation.sealed THEN {Statement(preparation, approvals)} ELSE {})
  /\ preparation.statement # NoStatement =>
       preparation.sealed /\ preparation.statement \in registry.statements
  /\ CopyOf(seen)
  /\ seenFresh => seen = preparation
  /\ pass.step # "Idle" => PassGood
  /\ promoted # NoStatement =>
       /\ preparation.sealed /\ Approved(preparation.votes)
       /\ promoted \in registry.statements

-----------------------------------------------------------------------------
(* The operators the steps are made of.                                    *)

\* A non-empty set of numbers has a first one.
LEMMA FirstExists ==
  ASSUME NEW S \in SUBSET Nat, S # {}
  PROVE  \E k \in S : \A j \in S : k <= j
<1>1. PICK k \in S : \A j \in S : ~(<<j, k>> \in OpToRel(<, Nat))
  BY WFMin, NatLessThanWellFounded
<1>2. \A j \in S : ~(j < k)
  BY <1>1 DEF OpToRel
<1> QED BY <1>2

\* The votes of an approver are positions, finitely many.
LEMMA VotesOfFinite ==
  ASSUME NEW vs \in Seq(Approvals), NEW a
  PROVE  /\ VotesOf(vs, a) \subseteq 1 .. Len(vs)
         /\ IsFiniteSet(VotesOf(vs, a))
         /\ Cardinality(VotesOf(vs, a)) \in Nat
<1>1. Len(vs) \in Nat /\ VotesOf(vs, a) \subseteq 1 .. Len(vs)
  BY DEF VotesOf
<1>2. IsFiniteSet(1 .. Len(vs))
  BY <1>1, FS_Interval
<1> QED BY <1>1, <1>2, FS_Subset, FS_CardinalityType

\* evaluateOpen takes one vote of each approver.
LEMMA OpenVotesSealable ==
  ASSUME NEW vs \in Seq(Approvals)
  PROVE  /\ OpenVotes(vs) \subseteq {vs[i] : i \in DOMAIN vs}
         /\ OpenVotes(vs) \subseteq Approvals
         /\ \A v, w \in OpenVotes(vs) : v.approver = w.approver => v = w
<1>1. \A v \in OpenVotes(vs) : \E i \in DOMAIN vs : v = vs[i] /\ IsLatest(vs, i)
  BY DEF OpenVotes
<1>2. DOMAIN vs \subseteq Nat /\ \A i \in DOMAIN vs : vs[i] \in Approvals
  OBVIOUS
<1>3. ASSUME NEW v \in OpenVotes(vs), NEW w \in OpenVotes(vs), v.approver = w.approver
      PROVE  v = w
  <2>1. PICK i \in DOMAIN vs : v = vs[i] /\ IsLatest(vs, i)
    BY <1>1
  <2>2. PICK j \in DOMAIN vs : w = vs[j] /\ IsLatest(vs, j)
    BY <1>1
  <2>3. i <= j /\ j <= i
    BY <1>3, <2>1, <2>2 DEF IsLatest, VotesOf
  <2> QED BY <1>2, <2>1, <2>2, <2>3
<1> QED BY <1>1, <1>2, <1>3

\* When everyone fits, the latest vote of every approver is evaluated.
LEMMA LatestIsOpen ==
  ASSUME EveryoneFits, NEW vs \in Seq(Approvals), NEW i \in DOMAIN vs, IsLatest(vs, i)
  PROVE  vs[i] \in OpenVotes(vs)
<1> DEFINE Before(a) == {b \in Approvers : VotesOf(vs, b) # {}
                                           /\ First(vs, b) < First(vs, a)}
           a == vs[i].approver
<1>1. a \in Approvers /\ i \in VotesOf(vs, a)
  <2>1. vs[i] \in Approvals
    OBVIOUS
  <2> QED BY <2>1 DEF Approvals, VotesOf
<1>2. First(vs, a) \in Nat
  <2>1. VotesOf(vs, a) \in SUBSET Nat /\ VotesOf(vs, a) # {}
    BY <1>1, VotesOfFinite
  <2>2. \E k \in VotesOf(vs, a) : \A j \in VotesOf(vs, a) : k <= j
    BY <2>1, FirstExists
  <2> QED BY <2>1, <2>2 DEF First
<1>3. a \notin Before(a)
  BY <1>2
<1>4. Before(a) \subseteq Approvers \ {a}
  BY <1>3
<1> HIDE DEF Before
<1>5. IsFiniteSet(Approvers \ {a}) /\ Cardinality(Approvers \ {a}) = Cardinality(Approvers) - 1
  BY <1>1, FS_RemoveElement DEF EveryoneFits
<1>6. Cardinality(Before(a)) <= Cardinality(Approvers) - 1 /\ Cardinality(Before(a)) \in Nat
  BY <1>4, <1>5, FS_Subset, FS_CardinalityType
<1>7. Cardinality(Before(a)) < MaxApprovers
  BY <1>6, FS_CardinalityType DEF EveryoneFits
<1> QED
  BY <1>7 DEF OpenVotes, Before

\* The votes and the statement have their types.
LEMMA VotesType ==
  ASSUME NEW p \in Preparations, NEW vs \in Seq(Approvals)
  PROVE  /\ Votes(p, vs) \in SUBSET Approvals
         /\ Statement(p, vs) \in Statements
         /\ MarkApproval(p, vs) \in Preparations
<1>1. Votes(p, vs) \in SUBSET Approvals
  BY OpenVotesSealable DEF Votes, Preparations
<1>2. \A k : Verdict(p, vs, k) \in Verdicts
  BY DEF Verdict, Verdicts
<1>3. Statement(p, vs) \in Statements
  BY <1>2 DEF Statement, Statements
<1>4. Len(vs) \in Nat
  OBVIOUS
<1> QED BY <1>1, <1>3, <1>4 DEF MarkApproval, Preparations

\* A vote that is cast after the seal is not in the statement: archiving again
\* gives the statement it gave before (attestation.go: buildAttestation).
LEMMA StatementStable ==
  ASSUME NEW p, p.sealed, NEW vs \in Seq(Approvals), NEW v \in Approvals,
         v \notin p.votes
  PROVE  Statement(p, Append(vs, v)) = Statement(p, vs)
<1> DEFINE bs == Append(vs, v)
           n == Len(vs)
<1>1. /\ bs \in Seq(Approvals) /\ n \in Nat /\ DOMAIN vs = 1 .. n
      /\ DOMAIN bs = 1 .. n + 1 /\ bs[n + 1] = v
      /\ \A i \in 1 .. n : bs[i] = vs[i]
  OBVIOUS
<1> HIDE DEF bs
<1>2. ASSUME NEW i \in 1 .. n
      PROVE  Verdict(p, bs, i) = Verdict(p, vs, i)
  <2>1. (\E j \in VotesOf(bs, vs[i].approver) : i < j /\ bs[j] \in p.votes)
          <=> \E j \in VotesOf(vs, vs[i].approver) : i < j /\ vs[j] \in p.votes
    BY <1>1 DEF VotesOf
  <2> QED BY <1>1, <2>1 DEF Verdict
<1>3. Verdict(p, bs, n + 1) = "SubmittedAfterSeal"
  <2>1. \A j \in VotesOf(bs, bs[n + 1].approver) : ~(n + 1 < j)
    BY <1>1 DEF VotesOf
  <2> QED BY <1>1, <2>1 DEF Verdict
<1>4. {k \in DOMAIN bs : Verdict(p, bs, k) # "SubmittedAfterSeal"}
        = {k \in DOMAIN vs : Verdict(p, vs, k) # "SubmittedAfterSeal"}
  BY <1>1, <1>2, <1>3
<1> DEFINE K == {k \in DOMAIN vs : Verdict(p, vs, k) # "SubmittedAfterSeal"}
<1>5. \A k \in K : bs[k] = vs[k] /\ Verdict(p, bs, k) = Verdict(p, vs, k)
  BY <1>1, <1>2
<1>6. /\ Statement(p, bs) = {[vote |-> bs[i], verdict |-> Verdict(p, bs, i)] : i \in K}
      /\ Statement(p, vs) = {[vote |-> vs[i], verdict |-> Verdict(p, vs, i)] : i \in K}
  BY <1>4 DEF Statement
<1> HIDE DEF K
<1> QED BY <1>5, <1>6 DEF bs

\* The statement of sealed votes says that exactly these count, and of those
\* only the ones of eligible approvers.
LEMMA StatementCounts ==
  ASSUME NEW p, p.sealed, NEW vs \in Seq(Approvals),
         p.votes \subseteq {vs[i] : i \in DOMAIN vs}
  PROVE  CountedIn(Statement(p, vs)) = {v \in p.votes : v.eligible}
<1>1. ASSUME NEW v \in CountedIn(Statement(p, vs))
      PROVE  v \in p.votes /\ v.eligible
  <2>1. PICK i \in DOMAIN vs : v = vs[i] /\ Verdict(p, vs, i) = "Counted"
    BY DEF CountedIn, Statement
  <2> QED BY <2>1 DEF Verdict
<1>2. ASSUME NEW v \in p.votes, v.eligible
      PROVE  v \in CountedIn(Statement(p, vs))
  <2>1. PICK i \in DOMAIN vs : v = vs[i]
    OBVIOUS
  <2>2. Verdict(p, vs, i) = "Counted"
    BY <1>2, <2>1 DEF Verdict
  <2>3. [vote |-> vs[i], verdict |-> "Counted"] \in Statement(p, vs)
    BY <2>2 DEF Statement
  <2> QED BY <2>1, <2>3 DEF CountedIn
<1> QED BY <1>1, <1>2

\* Of votes of which each approver has one, as many approve as approvers do.
LEMMA DistinctApprovers ==
  ASSUME NEW S, IsFiniteSet(S), \A v, w \in S : v.approver = w.approver => v = w
  PROVE  Cardinality({v.approver : v \in S}) = Cardinality(S)
<1> DEFINE T == {v.approver : v \in S}
           f == [v \in S |-> v.approver]
<1>1. f \in Bijection(S, T)
  BY DEF Bijection, Injection, Surjection, IsInjective
<1>2. ExistsBijection(S, T)
  BY <1>1 DEF ExistsBijection
<1> QED BY <1>2, FS_Bijection

-----------------------------------------------------------------------------
(* Every step keeps the inductive invariant.                               *)

\* A pass that is not idle has its type.
LEMMA InPass ==
  ASSUME Inductive, pass.step # "Idle"
  PROVE  pass \in Passes /\ PassGood
BY DEF Inductive, TypeOK, Idle

\* A step that changes nothing the invariant relates but the pass.
LEMMA PassStep ==
  ASSUME Inductive, TypeOK',
         UNCHANGED <<approvals, prepVars, promoted, registry>>,
         pass'.step # "Idle" => PassGood'
  PROVE  Inductive'
<1>1. UNCHANGED <<preparation, seen, seenFresh>>
  BY DEF prepVars
<1> QED
  BY <1>1 DEF Inductive, CopyOf, Sealable, Cast

\* A step that leaves all that the invariant relates.
LEMMA OtherStep ==
  ASSUME Inductive, TypeOK',
         UNCHANGED <<approvals, prepVars, promoted, registry, pass>>
  PROVE  Inductive'
<1>1. UNCHANGED <<preparation, seen, seenFresh>>
  BY DEF prepVars
<1>2. pass.step # "Idle" => PassGood'
  BY <1>1 DEF Inductive, PassGood, CopyOf, Sealable, Cast, NoVetoAmong
<1> QED
  BY <1>1, <1>2, PassStep

\* Reading and listing change a request only.
LEMMA RequestInductive ==
  ASSUME Inductive, NEW r \in Requests, AcceptVote(r) \/ ListVotes(r)
  PROVE  Inductive'
<1>1. requests' \in [Requests -> RequestStates]
  <2>1. requests \in [Requests -> RequestStates] /\ requests[r] \in RequestStates
        /\ approvals \in Seq(Approvals)
    BY DEF Inductive, TypeOK
  <2>2. CASE AcceptVote(r)
    BY <2>1, <2>2 DEF AcceptVote, RequestStates
  <2>3. CASE ListVotes(r)
    <3>1. requests[r] \in [step : {"List"}, approver : Approvers,
                           decision : Decisions, eligible : BOOLEAN]
      BY <2>1, <2>3 DEF ListVotes, RequestStates, NewRequest
    <3>2. Cardinality(VotesOf(approvals, requests[r].approver)) \in Nat
      BY <2>1, VotesOfFinite
    <3> DEFINE done == [step |-> "Done"]
               go == [step |-> "Create", approver |-> requests[r].approver,
                      decision |-> requests[r].decision,
                      eligible |-> requests[r].eligible,
                      seq |-> Cardinality(VotesOf(approvals, requests[r].approver))]
    <3>3. done \in RequestStates /\ go \in RequestStates
      BY <3>1, <3>2 DEF RequestStates
    <3>4. requests' = [requests EXCEPT ![r] = done] \/ requests' = [requests EXCEPT ![r] = go]
      BY <2>1, <2>3 DEF ListVotes
    <3> HIDE DEF done, go
    <3> QED BY <2>1, <3>3, <3>4
  <2> QED BY <2>2, <2>3
<1>2. TypeOK'
  BY <1>1 DEF AcceptVote, ListVotes, Inductive, TypeOK, prepVars, targetVars,
              passVars, countVars
<1> QED
  BY <1>2, OtherStep DEF AcceptVote, ListVotes, targetVars, passVars

\* A vote is cast after those there are: it is none of the sealed ones, and
\* the statement of these stays what it is.
LEMMA CreateVoteInductive ==
  ASSUME Inductive, NEW r \in Requests, CreateVote(r)
  PROVE  Inductive'
<1> DEFINE v == [approver |-> requests[r].approver, seq |-> requests[r].seq,
                 decision |-> requests[r].decision,
                 eligible |-> requests[r].eligible]
           n == Len(approvals)
<1>1. /\ TypeOK /\ approvals \in Seq(Approvals) /\ n \in Nat
      /\ DOMAIN approvals = 1 .. n /\ preparation \in Preparations
  BY DEF Inductive, TypeOK
<1>2. requests[r] \in [step : {"Create"}, approver : Approvers,
                       decision : Decisions, eligible : BOOLEAN, seq : Nat]
  BY <1>1 DEF CreateVote, TypeOK, RequestStates, NewRequest
<1>3. v \in Approvals
  BY <1>2 DEF Approvals
<1>4. [step |-> "Done"] \in RequestStates
  BY DEF RequestStates
<1>5. requests' \in [Requests -> RequestStates]
  BY <1>1, <1>4 DEF CreateVote, TypeOK
<1>6. UNCHANGED <<seenLength, preparation, seen, seenFresh, target, seenTarget,
                  gatesOpen, promoted, serve, pass, queued, timer, toReport,
                  registry, edits>>
  BY DEF CreateVote, prepVars, targetVars, passVars
<1>7. CASE UNCHANGED <<approvals, counted>>
  <2>1. TypeOK'
    BY <1>5, <1>6, <1>7, <1>1 DEF TypeOK
  <2> QED BY <1>6, <1>7, <2>1, OtherStep DEF prepVars
<1>8. CASE /\ ~\E i \in DOMAIN approvals : /\ approvals[i].approver = v.approver
                                           /\ approvals[i].seq = v.seq
           /\ approvals' = Append(approvals, v)
           /\ counted' = Append(counted, "None")
  <2> HIDE DEF v
  <2>1. /\ approvals' \in Seq(Approvals) /\ Len(approvals') = n + 1
        /\ DOMAIN approvals' = 1 .. n + 1 /\ approvals'[n + 1] = v
        /\ \A i \in 1 .. n : approvals'[i] = approvals[i]
    BY <1>1, <1>3, <1>8
  <2>2. TypeOK'
    <3>1. counted' \in Seq(Verdicts \cup {"None"}) /\ Len(counted') = n + 1
      BY <1>1, <1>8 DEF TypeOK
    <3>2. seenLength' \in 0 .. Len(approvals') /\ toReport' \subseteq DOMAIN approvals'
      BY <1>1, <1>6, <2>1 DEF TypeOK
    <3> QED BY <1>1, <1>5, <1>6, <2>1, <3>1, <3>2 DEF TypeOK
  <2>3. Cast \subseteq Cast' /\ v \notin Cast
    BY <1>1, <1>8, <2>1 DEF Cast
  <2>4. \A i, j \in DOMAIN approvals' :
          approvals'[i].approver = approvals'[j].approver
            /\ approvals'[i].seq = approvals'[j].seq => i = j
    <3>1. \A i \in 1 .. n : ~(approvals[i].approver = v.approver /\ approvals[i].seq = v.seq)
      BY <1>1, <1>8
    <3>2. \A i \in DOMAIN approvals' : i = n + 1 \/ i \in 1 .. n
      BY <1>1, <2>1
    <3> QED BY <1>1, <2>1, <3>1, <3>2 DEF Inductive
  <2>5. preparation.sealed => Statement(preparation, approvals')
                                = Statement(preparation, approvals)
    BY <1>1, <1>3, <1>8, <2>3, StatementStable DEF Inductive, Sealable
  <2>6. \A k \in 0 .. n : NoVetoAmong(k) => NoVetoAmong(k)'
    <3> SUFFICES ASSUME NEW k \in 0 .. n, NoVetoAmong(k), NEW i \in 1 .. k,
                        approvals'[i].decision = "Reject", approvals'[i].eligible
                 PROVE  \E j \in VotesOf(approvals', approvals'[i].approver) : j > i
      BY DEF NoVetoAmong
    <3>1. i \in 1 .. n /\ approvals'[i] = approvals[i]
      BY <1>1, <2>1
    <3>2. PICK j \in VotesOf(approvals, approvals[i].approver) : j > i
      BY <3>1 DEF NoVetoAmong
    <3>3. j \in VotesOf(approvals', approvals'[i].approver)
      BY <1>1, <2>1, <3>1, <3>2 DEF VotesOf
    <3> QED BY <3>2, <3>3
  <2>7. pass.step # "Idle" => PassGood'
    <3> SUFFICES ASSUME pass.step # "Idle" PROVE PassGood'
      OBVIOUS
    <3>1. PassGood /\ pass.since \in 0 .. n
      BY <1>1, InPass DEF PassGood, Passes
    <3>2. NoVetoAmong(pass.since) => NoVetoAmong(pass.since)'
      <4>1. NoVetoAmong(pass.since)' <=> (\A k \in {pass.since} : NoVetoAmong(k)')
        BY <1>6 DEF NoVetoAmong
      <4> QED BY <2>6, <3>1, <4>1
    <3>3. Sealable(pass.next.votes) => Sealable(pass.next.votes)'
      BY <1>6, <2>3 DEF Sealable
    <3>4. CopyOf(pass.base)'
      BY <1>6, <3>1 DEF PassGood, CopyOf
    <3>5. pass.since <= Len(approvals')
      BY <1>1, <2>1, <3>1
    <3> QED BY <1>6, <3>1, <3>2, <3>3, <3>4, <3>5 DEF PassGood, EveryoneFits
  <2>8. preparation.sealed => Sealable(preparation.votes)'
    BY <1>6, <2>3 DEF Inductive, Sealable
  <2> QED
    BY <1>6, <2>2, <2>4, <2>5, <2>7, <2>8 DEF Inductive, CopyOf
<1> QED
  BY <1>7, <1>8 DEF CreateVote

\* A pass takes the copy of the cache.
LEMMA StartPassInductive ==
  ASSUME Inductive, StartPass
  PROVE  Inductive'
<1>1. /\ TypeOK /\ seen \in Preparations /\ CopyOf(seen) /\ Len(approvals) \in Nat
      /\ seenFresh \in BOOLEAN
      /\ seenFresh => seen = preparation
  BY DEF Inductive, TypeOK
<1>2. /\ UNCHANGED <<requests, approvals, seenLength, preparation, seen, seenFresh,
                     target, seenTarget, gatesOpen, promoted, serve, timer,
                     toReport, counted, registry, edits>>
      /\ queued' \in BOOLEAN
  BY DEF StartPass, voteVars, prepVars, targetVars, countVars
<1>3. /\ pass'.base = seen /\ pass'.next = seen /\ pass'.fresh = seenFresh
      /\ pass'.since = Len(approvals)
      /\ pass'.step = IF seen.ready THEN "Evaluate" ELSE "Attach"
      /\ pass' \in Passes
  <2> DEFINE step == IF seen.ready THEN "Evaluate" ELSE "Attach"
  <2>1. step \in {"Attach", "Evaluate"}
    OBVIOUS
  <2>2. pass' = [step |-> step, base |-> seen, next |-> seen, fresh |-> seenFresh,
                 retry |-> FALSE, since |-> Len(approvals)]
    BY DEF StartPass
  <2>3. step = IF seen.ready THEN "Evaluate" ELSE "Attach"
    OBVIOUS
  <2> HIDE DEF step
  <2> QED BY <1>1, <2>1, <2>2, <2>3 DEF Passes
<1>3a. TypeOK'
  BY <1>1, <1>2, <1>3 DEF TypeOK
<1>4. seen.ready => registry.evidence = {"Signature", "Provenance"}
  BY <1>1 DEF CopyOf, Inductive
<1>5. seen.sealed /\ seen.statement # NoStatement => seen.statement \in registry.statements
  BY <1>1 DEF CopyOf, Inductive
<1>6. CopyOf(seen)'
  BY <1>1, <1>2 DEF CopyOf
<1>7. PassGood'
  BY <1>1, <1>2, <1>3, <1>4, <1>5, <1>6 DEF PassGood, CopyOf
<1> QED
  BY <1>2, <1>3a, <1>7, PassStep DEF prepVars

\* The evidence is in the registry before the pass holds it ready.
LEMMA AttachEvidenceInductive ==
  ASSUME Inductive, AttachEvidence \/ AttachEvidenceFails
  PROVE  Inductive'
<1>1. /\ TypeOK /\ pass \in Passes /\ PassGood /\ pass.step = "Attach"
      /\ registry \in [evidence : SUBSET {"Signature", "Provenance"},
                       statements : SUBSET Statements]
  BY InPass DEF AttachEvidence, AttachEvidenceFails, Inductive, TypeOK
<1>2. /\ UNCHANGED <<voteVars, preparation, seen, seenFresh, targetVars, queued,
                     timer, countVars>>
      /\ edits' \in Nat
  BY <1>1 DEF AttachEvidence, AttachEvidenceFails, Failure, prepVars, TypeOK
<1>3. /\ registry' \in [evidence : SUBSET {"Signature", "Provenance"},
                        statements : SUBSET Statements]
      /\ registry'.statements = registry.statements
      /\ registry.evidence \subseteq registry'.evidence
  <2>1. CASE AttachEvidence
    BY <1>1, <2>1 DEF AttachEvidence
  <2>2. CASE AttachEvidenceFails
    <3>1. PICK pushed \in SUBSET {"Signature", "Provenance"} :
            registry' = [registry EXCEPT !.evidence = @ \cup pushed]
      BY <2>2 DEF AttachEvidenceFails
    <3> QED BY <1>1, <3>1
  <2> QED BY <2>1, <2>2
<1>4. /\ pass' \in Passes /\ pass'.base = pass.base /\ pass'.fresh = pass.fresh
      /\ pass'.since = pass.since /\ pass'.step = "Patch"
      /\ \/ pass'.next = pass.next
         \/ /\ pass'.next = [pass.next EXCEPT !.ready = TRUE]
            /\ registry'.evidence = {"Signature", "Provenance"}
  <2>1. [pass.next EXCEPT !.ready = TRUE] \in Preparations
    BY <1>1 DEF Passes, Preparations
  <2>2. CASE AttachEvidence
    <3>1. registry'.evidence = {"Signature", "Provenance"}
      BY <1>1, <2>2 DEF AttachEvidence
    <3>2. pass' = [pass EXCEPT !.next = [pass.next EXCEPT !.ready = TRUE], !.step = "Patch"]
      BY <2>2 DEF AttachEvidence, Take
    <3> QED BY <1>1, <2>1, <3>1, <3>2 DEF Passes
  <2>3. CASE AttachEvidenceFails
    BY <1>1, <2>3 DEF AttachEvidenceFails, Fail, Passes
  <2> QED BY <2>2, <2>3
<1>5. TypeOK'
  BY <1>1, <1>2, <1>3, <1>4 DEF TypeOK, voteVars, targetVars, countVars
<1>6. /\ pass'.next.ready => registry'.evidence = {"Signature", "Provenance"}
      /\ pass'.next.sealed = pass.next.sealed /\ pass'.next.votes = pass.next.votes
      /\ pass'.next.statement = pass.next.statement
      /\ pass.next.ready => pass'.next.ready
  BY <1>1, <1>3, <1>4 DEF PassGood, Passes, Preparations
<1>7. /\ UNCHANGED <<approvals, promoted>>
      /\ CopyOf(pass.base)' /\ CopyOf(seen)'
  BY <1>1, <1>2, <1>4 DEF voteVars, targetVars, PassGood, CopyOf, Inductive
<1>8. PassGood'
  BY <1>1, <1>2, <1>3, <1>4, <1>6, <1>7 DEF PassGood, CopyOf
<1>9. preparation.ready => registry'.evidence = {"Signature", "Provenance"}
  BY <1>3 DEF Inductive
<1> QED
  BY <1>2, <1>3, <1>5, <1>7, <1>8, <1>9 DEF Inductive, Sealable, Cast

\* What the caches hold decides whether to seal or to archive.
LEMMA EvaluateInductive ==
  ASSUME Inductive, Evaluate
  PROVE  Inductive'
<1> DEFINE next == MarkApproval(pass.base, SeenApprovals)
<1>1. /\ TypeOK /\ pass \in Passes /\ PassGood /\ pass.step = "Evaluate"
      /\ pass.next = pass.base /\ pass.base \in Preparations
  BY InPass DEF Evaluate, Inductive, PassGood, Passes
<1>2. SeenApprovals \in Seq(Approvals)
  BY <1>1 DEF TypeOK, SeenApprovals
<1>3. next \in Preparations
  BY <1>1, <1>2, VotesType
<1>4. /\ next.ready = pass.base.ready /\ next.sealed = pass.base.sealed
      /\ next.statement = pass.base.statement
      /\ pass.base.sealed => next.votes = pass.base.votes
  BY <1>1 DEF MarkApproval, Votes, Preparations
<1> HIDE DEF next
<1>5. /\ pass' \in Passes /\ pass'.base = pass.base /\ pass'.fresh = pass.fresh
      /\ pass'.since = pass.since /\ pass'.next = next
      /\ pass'.step \in {"Seal", "Archive", "Patch"}
      /\ pass'.step = "Archive" => next.sealed /\ next.statement = NoStatement
      /\ pass'.step = "Seal" => ~next.sealed
  BY <1>1, <1>3 DEF Evaluate, Take, Passes, next
<1>6. UNCHANGED <<approvals, preparation, seen, seenFresh, promoted, registry>>
  BY DEF Evaluate, voteVars, prepVars, targetVars
<1>7. TypeOK'
  BY <1>1, <1>5, <1>6
     DEF Evaluate, TypeOK, voteVars, prepVars, targetVars, countVars
<1>8. PassGood'
  BY <1>1, <1>4, <1>5, <1>6 DEF PassGood, CopyOf
<1> QED
  BY <1>6, <1>7, <1>8, PassStep DEF prepVars

\* Only approved votes are sealed, as the API server has them: no rejection
\* among them counts.
LEMMA SealInductive ==
  ASSUME Inductive, Seal
  PROVE  Inductive'
<1> DEFINE marked == MarkApproval(pass.base, approvals)
           next == IF Approved(marked.votes)
                   THEN [marked EXCEPT !.sealed = TRUE, !.statement = NoStatement]
                   ELSE marked
<1>1. /\ TypeOK /\ pass \in Passes /\ PassGood /\ pass.step = "Seal"
      /\ pass.base \in Preparations /\ ~pass.base.sealed
      /\ pass.base.statement = NoStatement
      /\ approvals \in Seq(Approvals) /\ Len(approvals) \in Nat
      /\ DOMAIN approvals = 1 .. Len(approvals)
  BY InPass DEF Seal, Inductive, PassGood, CopyOf, Passes, TypeOK
<1>2. /\ marked \in Preparations /\ marked.votes = OpenVotes(approvals)
      /\ ~marked.sealed /\ marked.statement = NoStatement
      /\ marked.ready = pass.base.ready
  <2>1. marked \in Preparations
    BY <1>1, VotesType
  <2> QED BY <1>1, <2>1 DEF MarkApproval, Votes, Preparations
<1> HIDE DEF marked
<1>3. /\ next \in Preparations /\ next.votes = OpenVotes(approvals)
      /\ next.statement = NoStatement /\ next.ready = pass.base.ready
      /\ next.sealed => Approved(OpenVotes(approvals))
  BY <1>2 DEF Preparations, Statements, NoStatement
<1>4. Sealable(next.votes)
  BY <1>1, <1>3, OpenVotesSealable DEF Sealable, Cast
<1>5. next.sealed /\ EveryoneFits => NoVetoAmong(pass.since)
  <2> SUFFICES ASSUME next.sealed, EveryoneFits, NEW i \in 1 .. pass.since,
                      approvals[i].decision = "Reject", approvals[i].eligible
               PROVE  \E j \in VotesOf(approvals, approvals[i].approver) : j > i
    BY DEF NoVetoAmong
  <2>1. i \in DOMAIN approvals /\ pass.since \in Nat
    BY <1>1 DEF PassGood, Passes
  <2>2. approvals[i] \notin OpenVotes(approvals)
    BY <1>3 DEF Approved, Counting
  <2>3. ~IsLatest(approvals, i)
    BY <1>1, <2>1, <2>2, LatestIsOpen
  <2> QED BY <1>1, <2>1, <2>3 DEF IsLatest, VotesOf
<1>6. /\ pass' \in Passes /\ pass'.base = pass.base /\ pass'.fresh = pass.fresh
      /\ pass'.since = pass.since /\ pass'.next = next /\ pass'.step = "Patch"
  <2>1. pass' = [pass EXCEPT !.next = next, !.step = "Patch"]
    BY DEF Seal, Take, marked
  <2> HIDE DEF next
  <2> QED BY <1>1, <1>3, <2>1 DEF Passes
<1> HIDE DEF next
<1>7. UNCHANGED <<approvals, preparation, seen, seenFresh, promoted, registry>>
  BY DEF Seal, voteVars, prepVars, targetVars
<1>8. TypeOK'
  BY <1>1, <1>6, <1>7 DEF Seal, TypeOK, voteVars, prepVars, targetVars, countVars
<1>9. Sealable(pass.next.votes)' /\ (NoVetoAmong(pass.since) => NoVetoAmong(pass.since)')
  BY <1>4, <1>6, <1>7 DEF Sealable, Cast, NoVetoAmong
<1>10. PassGood'
  BY <1>1, <1>3, <1>5, <1>6, <1>7, <1>9 DEF PassGood, CopyOf, EveryoneFits
<1> QED
  BY <1>7, <1>8, <1>10, PassStep DEF prepVars

\* The statement depends on the sealed votes, and on nothing else of a copy.
LEMMA SameStatement ==
  ASSUME NEW p, NEW q, p.sealed, q.sealed, p.votes = q.votes, NEW vs
  PROVE  Statement(p, vs) = Statement(q, vs)
<1>1. \A k : Verdict(p, vs, k) = Verdict(q, vs, k)
  BY DEF Verdict
<1> QED
  BY <1>1 DEF Statement

\* What is archived, again or for the first time, is the one statement that
\* the sealed votes make.
LEMMA ArchiveInductive ==
  ASSUME Inductive, Archive \/ ArchiveFails
  PROVE  Inductive'
<1> DEFINE s == Statement(pass.next, approvals)
<1>1. /\ TypeOK /\ pass \in Passes /\ PassGood /\ pass.step = "Archive"
      /\ pass.next \in Preparations /\ approvals \in Seq(Approvals)
      /\ registry \in [evidence : SUBSET {"Signature", "Provenance"},
                       statements : SUBSET Statements]
  BY InPass DEF Archive, ArchiveFails, Inductive, TypeOK, Passes
<1>2. /\ preparation.sealed /\ pass.next.sealed /\ pass.base.sealed
      /\ pass.next.votes = preparation.votes /\ pass.next.statement = NoStatement
      /\ pass.base.statement = NoStatement
  BY <1>1 DEF PassGood, CopyOf
<1>3. s = Statement(preparation, approvals) /\ s \in Statements
  BY <1>1, <1>2, SameStatement, VotesType
<1> HIDE DEF s
<1>4. /\ UNCHANGED <<requests, approvals, seenLength, preparation, seen, seenFresh,
                     target, seenTarget, gatesOpen, promoted, serve, queued, timer,
                     toReport, counted>>
      /\ edits' \in Nat
  BY <1>1 DEF Archive, ArchiveFails, Failure, voteVars, prepVars, targetVars,
              countVars, TypeOK
<1>5. \/ UNCHANGED registry
      \/ registry' = [registry EXCEPT !.statements = @ \cup {s}]
  BY DEF Archive, ArchiveFails, s
<1>6. /\ registry' \in [evidence : SUBSET {"Signature", "Provenance"},
                        statements : SUBSET Statements]
      /\ registry'.evidence = registry.evidence
      /\ registry.statements \subseteq registry'.statements
      /\ registry'.statements \subseteq registry.statements \cup {s}
  BY <1>1, <1>3, <1>5
<1>7. /\ pass' \in Passes /\ pass'.base = pass.base /\ pass'.fresh = pass.fresh
      /\ pass'.since = pass.since /\ pass'.step = "Patch"
      /\ pass'.next.ready = pass.next.ready /\ pass'.next.sealed = pass.next.sealed
      /\ pass'.next.votes = pass.next.votes
      /\ pass'.next.statement # NoStatement =>
           pass'.next.statement \in registry'.statements
  <2>1. CASE Archive
    <3>1. /\ pass' = [pass EXCEPT !.next = [pass.next EXCEPT !.statement = s],
                                  !.step = "Patch"]
          /\ registry' = [registry EXCEPT !.statements = @ \cup {s}]
      BY <2>1 DEF Archive, Take, s
    <3>2. [pass.next EXCEPT !.statement = s] \in Preparations
      BY <1>1, <1>3 DEF Preparations
    <3> QED BY <1>1, <3>1, <3>2 DEF Passes, Preparations
  <2>2. CASE ArchiveFails
    <3>1. pass' = [pass EXCEPT !.retry = TRUE, !.step = "Patch"]
      BY <2>2 DEF ArchiveFails, Fail
    <3> QED BY <1>1, <1>2, <3>1 DEF Passes
  <2> QED BY <2>1, <2>2
<1>8. TypeOK'
  BY <1>1, <1>4, <1>6, <1>7 DEF TypeOK
<1>9. PassGood'
  BY <1>1, <1>2, <1>4, <1>6, <1>7 DEF PassGood, CopyOf
<1> QED
  BY <1>2, <1>3, <1>4, <1>6, <1>8, <1>9 DEF Inductive, CopyOf, Sealable, Cast

\* A list that fails leaves the pass what it read.
LEMMA ReadFailsInductive ==
  ASSUME Inductive, ReadFails
  PROVE  Inductive'
<1>1. /\ TypeOK /\ pass \in Passes /\ PassGood
      /\ pass.step \in {"Evaluate", "Seal"}
  BY InPass DEF ReadFails, Inductive
<1>2. /\ pass' \in Passes /\ pass'.base = pass.base /\ pass'.fresh = pass.fresh
      /\ pass'.since = pass.since /\ pass'.step = "Patch" /\ pass'.next = pass.next
  BY <1>1 DEF ReadFails, Fail, Passes
<1>3. UNCHANGED <<approvals, preparation, seen, seenFresh, promoted, registry>>
  BY DEF ReadFails, voteVars, prepVars, targetVars
<1>4. TypeOK'
  BY <1>1, <1>2, <1>3
     DEF ReadFails, Failure, TypeOK, voteVars, prepVars, targetVars, countVars
<1>5. PassGood'
  BY <1>1, <1>2, <1>3 DEF PassGood, CopyOf
<1> QED
  BY <1>3, <1>4, <1>5, PassStep DEF prepVars

\* A write is of a pass that read the Preparation as it is: it keeps what is
\* sealed, and what it seals may be sealed.
LEMMA PatchStatusInductive ==
  ASSUME Inductive, PatchStatus
  PROVE  Inductive'
<1>1. /\ TypeOK /\ pass \in Passes /\ PassGood /\ pass.step = "Patch"
      /\ pass.next \in Preparations
  BY InPass DEF PatchStatus, Inductive, Passes
<1>2. UNCHANGED <<requests, approvals, seenLength, seen, target, seenTarget,
                  gatesOpen, promoted, serve, queued, toReport, counted, registry, edits>>
  BY DEF PatchStatus, voteVars, targetVars, countVars
<1>3. pass' = Idle /\ timer' \in BOOLEAN
  BY <1>1 DEF PatchStatus, TypeOK, Passes
<1>4. CASE UNCHANGED <<preparation, seenFresh>>
  <2>1. TypeOK'
    BY <1>1, <1>2, <1>3, <1>4 DEF TypeOK
  <2>2. pass'.step = "Idle" /\ UNCHANGED prepVars
    BY <1>2, <1>3, <1>4 DEF prepVars, Idle
  <2> QED
    BY <1>2, <2>1, <2>2, PassStep
<1>5. CASE /\ pass.fresh /\ preparation' = pass.next /\ seenFresh' = FALSE
  <2>1. pass.base = preparation
    BY <1>1, <1>5 DEF PassGood
  <2>2. TypeOK'
    BY <1>1, <1>2, <1>3, <1>5 DEF TypeOK
  <2>3. (preparation.sealed => Sealable(preparation.votes))'
    BY <1>1, <1>2, <1>5, <2>1 DEF PassGood, Inductive, Sealable, Cast
  <2>4. preparation.sealed =>
          /\ preparation'.sealed /\ preparation'.votes = preparation.votes
          /\ Statement(preparation', approvals) = Statement(preparation, approvals)
    BY <1>1, <1>5, <2>1, SameStatement DEF PassGood
  <2>5. registry.statements \subseteq
          (IF preparation'.sealed THEN {Statement(preparation', approvals)} ELSE {})
    BY <2>4 DEF Inductive
  <2>6. preparation'.statement # NoStatement =>
          preparation'.sealed /\ preparation'.statement \in registry.statements
    BY <1>1, <1>5, <2>1 DEF PassGood
  <2>7. preparation'.ready => registry.evidence = {"Signature", "Provenance"}
    BY <1>1, <1>5 DEF PassGood
  <2>8. CopyOf(seen)'
    <3>1. CopyOf(seen) /\ UNCHANGED seen
      BY <1>2 DEF Inductive
    <3>2. /\ preparation.ready => preparation'.ready
          /\ preparation.sealed /\ preparation.statement # NoStatement =>
               preparation'.statement = preparation.statement
      BY <1>1, <1>5, <2>1 DEF PassGood
    <3> QED BY <2>4, <3>1, <3>2 DEF CopyOf
  <2>9. promoted # NoStatement =>
          preparation'.sealed /\ Approved(preparation'.votes)
    BY <2>4 DEF Inductive
  <2> QED
    BY <1>2, <1>3, <1>5, <2>2, <2>3, <2>5, <2>6, <2>7, <2>8, <2>9 DEF Inductive, Idle
<1> QED
  BY <1>4, <1>5 DEF PatchStatus

\* The Serving controller promotes what its copy says is approved and archived.
LEMMA ServeInductive ==
  ASSUME Inductive, Serve
  PROVE  Inductive'
<1>1. /\ TypeOK /\ CopyOf(seen) /\ seen \in Preparations
      /\ UNCHANGED <<requests, approvals, seenLength, preparation, seen, seenFresh,
                     seenTarget, gatesOpen, pass, queued, timer, toReport, counted,
                     registry, edits>>
  BY DEF Serve, Inductive, TypeOK, voteVars, prepVars, passVars, countVars
<1>2. \/ promoted' = promoted
      \/ /\ Approved(Votes(seen, SeenApprovals)) /\ seen.sealed
         /\ seen.statement # NoStatement /\ promoted' = seen.statement
  BY DEF Serve, Gate
<1>3. promoted' # NoStatement =>
        /\ preparation.sealed /\ Approved(preparation.votes)
        /\ promoted' \in registry.statements
  BY <1>1, <1>2 DEF CopyOf, Votes, Inductive
<1>4. target' \in BOOLEAN /\ serve' \in BOOLEAN /\ promoted' \in Statements
  BY <1>1, <1>2 DEF Serve, TypeOK, Preparations
<1>5. TypeOK'
  BY <1>1, <1>4 DEF TypeOK
<1>6. pass.step # "Idle" => PassGood'
  BY <1>1 DEF Inductive, PassGood, CopyOf, Sealable, Cast, NoVetoAmong
<1> QED
  BY <1>1, <1>3, <1>5, <1>6 DEF Inductive, CopyOf, Sealable, Cast

\* A write that fails ends the pass.
LEMMA PatchStatusFailsInductive ==
  ASSUME Inductive, PatchStatusFails
  PROVE  Inductive'
<1>1. /\ pass'.step = "Idle" /\ pass' = Idle
      /\ UNCHANGED <<approvals, prepVars, promoted, registry>>
  BY DEF PatchStatusFails, Idle, voteVars, targetVars
<1>2. TypeOK'
  BY <1>1 DEF Inductive, PatchStatusFails, Failure, TypeOK, voteVars, prepVars,
              targetVars, countVars
<1> QED
  BY <1>1, <1>2, PassStep

\* A report is of some verdict, whatever copy it is made of.
LEMMA ReportVoteInductive ==
  ASSUME Inductive, NEW i \in DOMAIN approvals, ReportVote(i)
  PROVE  Inductive'
<1>1. TypeOK /\ counted \in Seq(Verdicts \cup {"None"}) /\ i \in DOMAIN counted
  BY DEF Inductive, TypeOK
<1>2. Verdict(seen, SeenApprovals, i) \in Verdicts
  BY DEF Verdict, Verdicts
<1>3. counted' \in Seq(Verdicts \cup {"None"}) /\ Len(counted') = Len(counted)
  BY <1>1, <1>2 DEF ReportVote
<1>4. TypeOK'
  BY <1>1, <1>3 DEF ReportVote, TypeOK, voteVars, prepVars, targetVars, passVars
<1> QED
  BY <1>4, OtherStep DEF ReportVote, voteVars, targetVars, passVars

\* The informers bring the copy of the Preparation up to date, and wake.
LEMMA InformersInductive ==
  ASSUME Inductive, Informers
  PROVE  Inductive'
<1>1. TypeOK /\ approvals \in Seq(Approvals)
  BY DEF Inductive, TypeOK
<1>2. CASE SyncPreparation
  <2>1. /\ UNCHANGED <<requests, approvals, seenLength, preparation, target, seenTarget,
                       gatesOpen, promoted, pass, timer, counted, registry, edits>>
        /\ seen' = preparation /\ seenFresh' = TRUE
    BY <1>2 DEF SyncPreparation, voteVars
  <2>2. toReport' \subseteq DOMAIN approvals
    BY <1>1, <1>2 DEF SyncPreparation, TypeOK
  <2>3. TypeOK'
    BY <1>1, <1>2, <2>1, <2>2 DEF SyncPreparation, TypeOK
  <2>4. CopyOf(seen)'
    BY <2>1 DEF Inductive, CopyOf
  <2>5. pass.step # "Idle" => PassGood'
    BY <2>1 DEF Inductive, PassGood, CopyOf, Sealable, Cast, NoVetoAmong
  <2> QED
    BY <2>1, <2>3, <2>4, <2>5 DEF Inductive, Sealable, Cast
<1>3. CASE SyncApproval
  <2>1. seenLength' \in 1 .. Len(approvals) /\ toReport' \subseteq DOMAIN approvals
    BY <1>1, <1>3 DEF SyncApproval, TypeOK
  <2>2. TypeOK'
    BY <1>1, <1>3, <2>1 DEF SyncApproval, TypeOK, prepVars, targetVars
  <2> QED
    BY <1>3, <2>2, OtherStep DEF SyncApproval, targetVars
<1>4. CASE SyncServing
  <2>1. TypeOK'
    BY <1>1, <1>4 DEF SyncServing, TypeOK, voteVars, prepVars, countVars
  <2> QED
    BY <1>4, <2>1, OtherStep DEF SyncServing, voteVars
<1> QED
  BY <1>2, <1>3, <1>4 DEF Informers

\* The next manager has the Preparation as it is, and no pass.
LEMMA CrashInductive ==
  ASSUME Inductive, Crash
  PROVE  Inductive'
<1>1. /\ UNCHANGED <<requests, approvals, preparation, target, gatesOpen, promoted,
                     counted, registry>>
      /\ seen' = preparation /\ seenFresh' = TRUE /\ pass' = Idle
      /\ pass'.step = "Idle"
  BY DEF Crash, Idle
<1>2. TypeOK'
  <2>1. /\ TypeOK /\ approvals \in Seq(Approvals) /\ Len(approvals) \in Nat
        /\ pass' \in Passes \cup {Idle} /\ edits' \in Nat
    BY <1>1 DEF Inductive, TypeOK, Crash
  <2>2. /\ seenLength' = Len(approvals) /\ seenTarget' = target
        /\ toReport' = DOMAIN approvals
        /\ queued' = TRUE /\ timer' = FALSE /\ serve' = TRUE
    BY DEF Crash
  <2>3. /\ seenLength' \in 0 .. Len(approvals')
        /\ toReport' \subseteq DOMAIN approvals'
    BY <1>1, <2>1, <2>2
  <2> QED BY <1>1, <2>1, <2>2, <2>3 DEF TypeOK
<1>3. CopyOf(seen)'
  BY <1>1 DEF Inductive, CopyOf
<1> QED
  BY <1>1, <1>2, <1>3 DEF Inductive, Sealable, Cast

LEMMA InitInductive ==
  Init => Inductive
<1> SUFFICES ASSUME Init
             PROVE  Inductive
  OBVIOUS
<1>1. /\ approvals = << >> /\ approvals \in Seq(Approvals) /\ Len(approvals) = 0
      /\ DOMAIN approvals = {} /\ counted = << >>
      /\ counted \in Seq(Verdicts \cup {"None"}) /\ Len(counted) = 0
  BY DEF Init
<1>2. requests \in [Requests -> RequestStates]
  BY DEF Init, RequestStates
<1>3. /\ {} \in Statements /\ preparation \in Preparations /\ seen = preparation
      /\ ~preparation.ready /\ ~preparation.sealed
      /\ preparation.statement = NoStatement
  BY DEF Init, Preparations, Statements, NoStatement
<1>4. registry \in [evidence : SUBSET {"Signature", "Provenance"},
                     statements : SUBSET Statements]
  BY DEF Init
<1>5. /\ pass \in Passes \cup {Idle} /\ edits \in Nat
      /\ {target, seenTarget, gatesOpen} \subseteq BOOLEAN
      /\ {queued, timer, serve} \subseteq BOOLEAN /\ seenFresh \in BOOLEAN
  BY DEF Init
<1>5a. seenLength \in 0 .. Len(approvals) /\ toReport \subseteq DOMAIN approvals
  BY <1>1 DEF Init
<1>5b. promoted \in Statements
  BY <1>3 DEF Init, NoStatement
<1>6. TypeOK
  BY <1>1, <1>2, <1>3, <1>4, <1>5, <1>5a, <1>5b DEF TypeOK
<1> QED
  BY <1>1, <1>3, <1>6 DEF Init, Inductive, CopyOf, Idle

LEMMA NextInductive ==
  Inductive /\ [Next]_vars => Inductive'
<1> SUFFICES ASSUME Inductive, [Next]_vars
             PROVE  Inductive'
  OBVIOUS
<1>1. CASE Server
  BY <1>1, RequestInductive, CreateVoteInductive DEF Server
<1>2. CASE Pass
  BY <1>2, StartPassInductive, AttachEvidenceInductive, EvaluateInductive,
     SealInductive, ArchiveInductive, PatchStatusInductive DEF Pass
<1>3. CASE Requeue
  <2>1. TypeOK'
    BY <1>3 DEF Requeue, Inductive, TypeOK, voteVars, prepVars, targetVars, countVars
  <2> QED
    BY <1>3, <2>1, OtherStep DEF Requeue, voteVars, targetVars
<1>4. CASE Serve
  BY <1>4, ServeInductive
<1>5. CASE Report
  BY <1>5, ReportVoteInductive DEF Report
<1>6. CASE Informers
  BY <1>6, InformersInductive
<1>7. CASE Failures
  BY <1>7, AttachEvidenceInductive, ReadFailsInductive, ArchiveInductive,
     PatchStatusFailsInductive, CrashInductive DEF Failures
<1>8. CASE ChangeGates
  <2>1. TypeOK'
    BY <1>8 DEF ChangeGates, Inductive, TypeOK, voteVars, prepVars, passVars, countVars
  <2> QED
    BY <1>8, <2>1, OtherStep DEF ChangeGates, voteVars, passVars
<1>9. CASE UNCHANGED vars
  <2>1. TypeOK'
    BY <1>9 DEF vars, Inductive, TypeOK, voteVars, prepVars, targetVars, passVars,
                countVars
  <2> QED
    BY <1>9, <2>1, OtherStep DEF vars, voteVars, targetVars, passVars
<1> QED
  BY <1>1, <1>2, <1>3, <1>4, <1>5, <1>6, <1>7, <1>8, <1>9 DEF Next

\* Only a write of the pass that read the Preparation as it is changes it.
LEMMA OnlyPatchWrites ==
  ASSUME Inductive, [Next]_vars, preparation' # preparation
  PROVE  PassGood /\ pass.base = preparation /\ preparation' = pass.next
<1>1. PatchStatus
  BY DEF Next, Server, AcceptVote, ListVotes, CreateVote, Pass, StartPass,
         AttachEvidence, Evaluate, Seal, Archive, Requeue, Serve, Report, ReportVote,
         Informers, SyncPreparation, SyncApproval, SyncServing, Failures,
         AttachEvidenceFails, ReadFails, ArchiveFails, PatchStatusFails, Crash,
         ChangeGates, vars, prepVars
<1>2. PassGood
  BY <1>1, InPass DEF PatchStatus
<1> QED BY <1>1, <1>2 DEF PatchStatus, PassGood

-----------------------------------------------------------------------------
(* No wake-up is lost.                                                     *)

\* A ready copy that the Preparation controller has nothing to do about.
Settled(p) ==
  p.ready =>
    /\ p = MarkApproval(p, approvals)
    /\ seenTarget /\ Approved(p.votes) => p.sealed
    /\ p.sealed => p.statement # NoStatement

\* What is or will be sealed is approved.
SealedApproved ==
  /\ preparation.sealed => Approved(preparation.votes)
  /\ pass.step # "Idle" /\ pass.next.sealed => Approved(pass.next.votes)

\* While nothing queues the Preparation again, the pass works on the copy that
\* the cache still has, and leaves it alone only if there is nothing to do.
Awake ==
  ~queued /\ seenLength = Len(approvals) =>
    IF pass.step = "Idle" THEN ~timer /\ seenFresh => Settled(seen)
    ELSE /\ seen = pass.base
         /\ pass.step = "Attach" => ~pass.base.ready
         /\ pass.step = "Patch" /\ ~pass.retry /\ pass.next = pass.base => Settled(pass.base)

\* What is reported of sealed votes is so by the copy that the cache has.
Reported ==
  /\ toReport \subseteq 1 .. seenLength
  /\ seen.sealed =>
       \A i \in (1 .. seenLength) \ toReport :
         counted[i] = "Counted" <=> approvals[i] \in seen.votes /\ approvals[i].eligible

\* The target is promoted once the copy that the cache has lets it.
Served ==
  /\ target => preparation.ready
  /\ ~serve /\ target /\ seen.sealed /\ seen.statement # NoStatement => promoted # NoStatement

\* The steps that leave the Preparation controller and what it reads alone.
Aside == UNCHANGED <<approvals, seenLength, prepVars, seenTarget, passVars>>

LEMMA AsideSteps ==
  ASSUME \/ \E r \in Requests : AcceptVote(r) \/ ListVotes(r)
         \/ Serve \/ Report \/ ChangeGates \/ UNCHANGED vars
  PROVE  Aside
BY DEF Aside, AcceptVote, ListVotes, Serve, Report, ReportVote, ChangeGates, vars, voteVars,
       targetVars

LEMMA SealedApprovedKept ==
  ASSUME Inductive, SealedApproved, [Next]_vars
  PROVE  SealedApproved'
<1>1. CASE UNCHANGED <<preparation, pass>>
  BY <1>1 DEF SealedApproved
<1>2. CASE UNCHANGED preparation /\ pass'.step = "Idle"
  BY <1>2 DEF SealedApproved
<1>3. CASE StartPass
  <2>1. CopyOf(seen) /\ UNCHANGED preparation /\ pass'.next = seen
    BY <1>3 DEF StartPass, prepVars, Inductive
  <2> QED BY <2>1 DEF SealedApproved, CopyOf
<1>4. CASE AttachEvidence \/ AttachEvidenceFails \/ Archive \/ ArchiveFails \/ ReadFails
  <2>1. pass \in Passes /\ pass.next \in Preparations /\ pass.step # "Idle"
    BY <1>4, InPass DEF AttachEvidence, AttachEvidenceFails, Archive, ArchiveFails, ReadFails,
                        Passes
  <2>2. UNCHANGED preparation
    BY <1>4 DEF AttachEvidence, AttachEvidenceFails, Archive, ArchiveFails, ReadFails, prepVars
  <2>3. pass'.next.sealed = pass.next.sealed /\ pass'.next.votes = pass.next.votes
    <3>1. CASE AttachEvidence
      <4>1. pass'.next = [pass.next EXCEPT !.ready = TRUE]
        BY <2>1, <3>1 DEF AttachEvidence, Take, Passes
      <4> QED BY <2>1, <4>1 DEF Preparations
    <3>2. CASE Archive
      <4>1. pass'.next = [pass.next EXCEPT !.statement = Statement(pass.next, approvals)]
        BY <2>1, <3>2 DEF Archive, Take, Passes
      <4> QED BY <2>1, <4>1 DEF Preparations
    <3>3. CASE AttachEvidenceFails \/ ArchiveFails \/ ReadFails
      BY <2>1, <3>3 DEF AttachEvidenceFails, ArchiveFails, ReadFails, Fail, Passes
    <3> QED BY <1>4, <3>1, <3>2, <3>3
  <2> QED BY <2>1, <2>2, <2>3 DEF SealedApproved
<1>5. CASE Evaluate
  <2>1. PassGood /\ pass \in Passes /\ pass.base \in Preparations /\ UNCHANGED preparation
    BY <1>5, InPass DEF Evaluate, Passes, prepVars
  <2>2. pass'.next = MarkApproval(pass.base, SeenApprovals)
    BY <1>5, <2>1 DEF Evaluate, Take, Passes
  <2>3. pass'.next.sealed => pass.base.sealed /\ pass'.next.votes = pass.base.votes
    BY <2>1, <2>2 DEF MarkApproval, Votes, Preparations
  <2> QED BY <2>1, <2>3 DEF SealedApproved, PassGood, CopyOf
<1>6. CASE Seal
  <2> DEFINE marked == MarkApproval(pass.base, approvals)
  <2>1. PassGood /\ pass \in Passes /\ pass.base \in Preparations /\ UNCHANGED preparation
        /\ pass.step = "Seal" /\ approvals \in Seq(Approvals)
    BY <1>6, InPass DEF Seal, Passes, prepVars, Inductive, TypeOK
  <2>2. marked \in Preparations /\ ~marked.sealed
    BY <2>1, VotesType DEF PassGood, MarkApproval, Preparations
  <2>3. pass'.next = IF Approved(marked.votes)
                     THEN [marked EXCEPT !.sealed = TRUE, !.statement = NoStatement]
                     ELSE marked
    BY <1>6, <2>1 DEF Seal, Take, Passes
  <2> HIDE DEF marked
  <2>4. pass'.next.sealed => Approved(pass'.next.votes)
    BY <2>2, <2>3 DEF Preparations
  <2> QED BY <2>1, <2>4 DEF SealedApproved
<1>7. CASE PatchStatus
  <2>1. pass'.step = "Idle" /\ pass.step # "Idle" /\ preparation' \in {preparation, pass.next}
    BY <1>7 DEF PatchStatus, Idle
  <2> QED BY <2>1 DEF SealedApproved
<1>8. CASE Server \/ Requeue \/ Serve \/ Report \/ Informers \/ ChangeGates \/ UNCHANGED vars
  <2>1. UNCHANGED <<preparation, pass>>
    BY <1>8 DEF Server, AcceptVote, ListVotes, CreateVote, Requeue, Serve, Report, ReportVote,
                Informers, SyncPreparation, SyncApproval, SyncServing, ChangeGates, vars,
                prepVars, passVars
  <2> QED BY <1>1, <2>1
<1>9. CASE PatchStatusFails \/ Crash
  <2>1. UNCHANGED preparation /\ pass'.step = "Idle"
    BY <1>9 DEF PatchStatusFails, Crash, prepVars, Idle
  <2> QED BY <1>2, <2>1
<1> QED
  BY <1>3, <1>4, <1>5, <1>6, <1>7, <1>8, <1>9 DEF Next, Pass, Failures

\* Sealed votes were approved: what is archived of them is something.
LEMMA StatementIsSome ==
  ASSUME NEW p, p.sealed, Approved(p.votes), NEW vs \in Seq(Approvals),
         p.votes \subseteq {vs[i] : i \in DOMAIN vs}
  PROVE  Statement(p, vs) # NoStatement
<1> DEFINE S == Counting(p.votes, "Approve")
<1>1. S # {}
  <2>1. Cardinality(S) >= RequiredApprovals
    BY DEF Approved
  <2>2. Cardinality({}) = 0
    BY FS_EmptySet
  <2> HIDE DEF S
  <2>3. S = {} => Cardinality(S) = 0
    BY <2>2
  <2>4. RequiredApprovals >= 1
    BY RequiredAssumption
  <2> QED BY <2>1, <2>3, <2>4, RequiredAssumption
<1>2. PICK v \in p.votes : v.eligible
  BY <1>1 DEF Counting
<1>3. CountedIn(Statement(p, vs)) # {}
  BY <1>2, StatementCounts
<1> QED BY <1>3 DEF CountedIn, NoStatement

LEMMA AwakeKept ==
  ASSUME Inductive, SealedApproved, Awake, [Next]_vars
  PROVE  Awake'
<1>1. TypeOK /\ approvals \in Seq(Approvals) /\ seenLength \in 0 .. Len(approvals)
  BY DEF Inductive, TypeOK
<1>2. CASE Aside
  BY <1>2 DEF Aside, prepVars, passVars, Awake, Settled
<1>3. CASE queued' = TRUE
  BY <1>3 DEF Awake
<1>4. CASE \E r \in Requests : CreateVote(r)
  <2>1. PICK r \in Requests : CreateVote(r)
    BY <1>4
  <2>2. CASE UNCHANGED approvals
    BY <1>2, <2>1, <2>2 DEF CreateVote, Aside, targetVars
  <2>3. CASE approvals' # approvals
    <3>1. \E v : approvals' = Append(approvals, v)
      BY <2>1, <2>3 DEF CreateVote
    <3>2. Len(approvals') = Len(approvals) + 1 /\ Len(approvals) \in Nat
      BY <1>1, <3>1
    <3>3. seenLength' = seenLength
      BY <2>1 DEF CreateVote
    <3>4. seenLength' # Len(approvals')
      BY <1>1, <3>2, <3>3
    <3> QED BY <3>4 DEF Awake
  <2> QED BY <2>2, <2>3
<1>5. CASE SyncServing
  <2>1. UNCHANGED <<approvals, seenLength, preparation, seen, seenFresh, pass, timer>>
        /\ seenTarget' = target /\ queued' = (queued \/ target)
    BY <1>5 DEF SyncServing, voteVars, prepVars
  <2>2. CASE target
    BY <1>3, <2>1, <2>2
  <2>3. CASE ~target
    <3>1. queued' = queued
      BY <2>1, <2>3, <1>1 DEF TypeOK
    <3> QED BY <2>1, <2>3, <3>1 DEF Awake, Settled
  <2> QED BY <2>2, <2>3
<1>6. CASE StartPass
  <2> DEFINE step == IF seen.ready THEN "Evaluate" ELSE "Attach"
  <2>1. pass' = [step |-> step, base |-> seen, next |-> seen, fresh |-> seenFresh,
                 retry |-> FALSE, since |-> Len(approvals)]
        /\ UNCHANGED seen
    BY <1>6 DEF StartPass, prepVars
  <2>2. /\ step \in {"Evaluate", "Attach"}
        /\ step = "Attach" => ~seen.ready
    OBVIOUS
  <2> HIDE DEF step
  <2>3. pass'.step = step /\ pass'.base = seen
    BY <2>1
  <2> QED BY <2>1, <2>2, <2>3 DEF Awake
<1>7. ASSUME pass.step # "Idle", pass'.step = "Patch", pass'.base = pass.base,
             UNCHANGED <<approvals, seenLength, prepVars, seenTarget, queued, timer>>,
             ~queued /\ seenLength = Len(approvals) =>
               (~pass'.retry /\ pass'.next = pass.base => Settled(pass.base))
      PROVE  Awake'
  BY <1>7 DEF Awake, Settled, prepVars
<1>8. CASE AttachEvidence
  <2>1. pass \in Passes /\ pass.next \in Preparations /\ pass.step = "Attach" /\ PassGood
    BY <1>8, InPass DEF AttachEvidence, Passes
  <2>2. pass'.next = [pass.next EXCEPT !.ready = TRUE] /\ pass'.step = "Patch"
        /\ pass'.base = pass.base
    BY <1>8, <2>1 DEF AttachEvidence, Take, Passes
  <2>3. pass'.next.ready
    BY <2>1, <2>2 DEF Preparations
  <2>4. ~queued /\ seenLength = Len(approvals) => ~pass.base.ready
    BY <2>1 DEF Awake
  <2> QED BY <1>7, <1>8, <2>1, <2>2, <2>3, <2>4 DEF AttachEvidence, voteVars, targetVars
<1>9. CASE AttachEvidenceFails \/ ReadFails \/ ArchiveFails
  <2>1. pass.step # "Idle" /\ Fail
        /\ UNCHANGED <<approvals, seenLength, prepVars, seenTarget, queued, timer>>
    BY <1>9 DEF AttachEvidenceFails, ReadFails, ArchiveFails, voteVars, targetVars
  <2>2. pass'.retry /\ pass'.step = "Patch" /\ pass'.base = pass.base
    BY <2>1, InPass DEF Fail, Passes
  <2> QED BY <1>7, <2>1, <2>2
<1>10. CASE Evaluate
  <2> DEFINE next == MarkApproval(pass.base, SeenApprovals)
             step == IF next.sealed
                     THEN IF next.statement = NoStatement THEN "Archive" ELSE "Patch"
                     ELSE IF Approved(next.votes) /\ seenTarget THEN "Seal" ELSE "Patch"
  <2>1. pass \in Passes /\ pass.step = "Evaluate"
        /\ UNCHANGED <<approvals, seenLength, prepVars, seenTarget, queued, timer>>
    BY <1>10, InPass DEF Evaluate, voteVars, targetVars
  <2>2. pass' = [pass EXCEPT !.next = next, !.step = step]
    BY <1>10 DEF Evaluate, Take
  <2>3. /\ step \in {"Archive", "Seal", "Patch"}
        /\ step = "Patch" /\ next.sealed => next.statement # NoStatement
        /\ step = "Patch" /\ ~next.sealed => ~(seenTarget /\ Approved(next.votes))
    OBVIOUS
  <2>4. seenLength = Len(approvals) => SeenApprovals = approvals
    BY <1>1 DEF SeenApprovals
  <2>5. seenLength = Len(approvals) => next = MarkApproval(pass.base, approvals)
    BY <2>4
  <2> HIDE DEF next, step
  <2>6. pass'.step = step /\ pass'.next = next /\ pass'.base = pass.base
    BY <2>1, <2>2 DEF Passes
  <2>7. CASE step = "Patch"
    <3>1. seenLength = Len(approvals) => (next = pass.base => Settled(pass.base))
      BY <2>3, <2>5, <2>7 DEF Settled
    <3> QED BY <1>7, <2>1, <2>6, <2>7, <3>1
  <2>8. CASE step # "Patch"
    BY <2>1, <2>3, <2>6, <2>8 DEF Awake, prepVars
  <2> QED BY <2>7, <2>8
<1>11. CASE Seal
  <2> DEFINE marked == MarkApproval(pass.base, approvals)
             next == IF Approved(marked.votes)
                     THEN [marked EXCEPT !.sealed = TRUE, !.statement = NoStatement]
                     ELSE marked
  <2>1. pass \in Passes /\ pass.step = "Seal" /\ PassGood /\ pass.base \in Preparations
        /\ UNCHANGED <<approvals, seenLength, prepVars, seenTarget, queued, timer>>
    BY <1>11, InPass DEF Seal, voteVars, targetVars, Passes
  <2>2. pass' = [pass EXCEPT !.next = next, !.step = "Patch"]
    BY <1>11 DEF Seal, Take
  <2>3. marked \in Preparations /\ ~pass.base.sealed
    BY <1>1, <2>1, VotesType DEF PassGood
  <2>4. next = pass.base => marked = pass.base /\ ~Approved(marked.votes)
    <3> HIDE DEF marked
    <3>1. Approved(marked.votes) => next.sealed
      BY <2>3 DEF Preparations
    <3> QED BY <2>3, <3>1
  <2>5. next = pass.base => Settled(pass.base)
    BY <2>3, <2>4 DEF Settled
  <2> HIDE DEF next, marked
  <2>6. pass'.next = next /\ pass'.step = "Patch" /\ pass'.base = pass.base
    BY <2>1, <2>2 DEF Passes
  <2> QED BY <1>7, <2>1, <2>5, <2>6
<1>12. CASE Archive
  <2>1. pass \in Passes /\ pass.step = "Archive" /\ PassGood /\ pass.next \in Preparations
        /\ UNCHANGED <<approvals, seenLength, prepVars, seenTarget, queued, timer>>
    BY <1>12, InPass DEF Archive, voteVars, targetVars, Passes
  <2>2. pass'.next = [pass.next EXCEPT !.statement = Statement(pass.next, approvals)]
        /\ pass'.step = "Patch" /\ pass'.base = pass.base
    BY <1>12, <2>1 DEF Archive, Take, Passes
  <2>3. /\ pass.next.sealed /\ pass.base.sealed /\ pass.base.statement = NoStatement
        /\ pass.next.votes = preparation.votes /\ preparation.sealed
    BY <2>1 DEF PassGood, CopyOf
  <2>4. Statement(pass.next, approvals) # NoStatement
    <3>1. pass.next.votes \subseteq {approvals[i] : i \in DOMAIN approvals}
      BY <2>3 DEF Inductive, Sealable, Cast
    <3>2. Approved(pass.next.votes)
      BY <2>3 DEF SealedApproved
    <3> QED BY <1>1, <2>3, <3>1, <3>2, StatementIsSome
  <2>5. pass'.next.statement # NoStatement
    BY <2>1, <2>2, <2>4 DEF Preparations
  <2> QED BY <1>7, <2>1, <2>2, <2>3, <2>5
<1>13. CASE PatchStatus
  <2>1. pass \in Passes /\ pass.step = "Patch" /\ pass'.step = "Idle"
        /\ UNCHANGED <<approvals, seenLength, seen, seenTarget, queued>>
    BY <1>13, InPass DEF PatchStatus, voteVars, targetVars, Idle
  <2> SUFFICES ASSUME ~queued, seenLength = Len(approvals), ~timer', seenFresh'
               PROVE  Settled(seen)
    BY <2>1 DEF Awake, Settled
  <2>2. pass.next = pass.base /\ timer' = (timer \/ pass.retry)
    BY <1>13 DEF PatchStatus
  <2>3. ~pass.retry
    BY <2>2
  <2> QED BY <2>1, <2>2, <2>3 DEF Awake
<1>14. CASE PatchStatusFails
  BY <1>14 DEF PatchStatusFails, Awake, Idle
<1>15. CASE Server
  <2>1. (\E r \in Requests : CreateVote(r)) \/ \E r \in Requests : AcceptVote(r) \/ ListVotes(r)
    BY <1>15 DEF Server
  <2> QED BY <1>2, <1>4, <2>1, AsideSteps
<1>16. CASE Requeue \/ SyncPreparation \/ SyncApproval \/ Crash
  BY <1>3, <1>16 DEF Requeue, SyncPreparation, SyncApproval, Crash
<1>17. CASE Serve \/ Report \/ ChangeGates \/ UNCHANGED vars
  BY <1>2, <1>17, AsideSteps
<1> QED
  BY <1>5, <1>6, <1>8, <1>9, <1>10, <1>11, <1>12, <1>13, <1>14, <1>15, <1>16, <1>17
     DEF Next, Pass, Failures, Informers

LEMMA ReportedKept ==
  ASSUME Inductive, Reported, [Next]_vars
  PROVE  Reported'
<1>1. /\ TypeOK /\ approvals \in Seq(Approvals) /\ seenLength \in 0 .. Len(approvals)
      /\ Len(approvals) \in Nat /\ DOMAIN approvals = 1 .. Len(approvals)
      /\ counted \in Seq(Verdicts \cup {"None"}) /\ Len(counted) = Len(approvals)
  BY DEF Inductive, TypeOK
<1>2. CASE UNCHANGED <<approvals, seenLength, seen, countVars>>
  BY <1>2 DEF Reported, countVars
<1>3. CASE \E r \in Requests : CreateVote(r)
  <2>1. /\ UNCHANGED <<seenLength, seen, toReport>>
        /\ \/ UNCHANGED <<approvals, counted>>
           \/ \E v : approvals' = Append(approvals, v) /\ counted' = Append(counted, "None")
    BY <1>3 DEF CreateVote, prepVars
  <2>2. \A i \in 1 .. seenLength : approvals'[i] = approvals[i] /\ counted'[i] = counted[i]
    BY <1>1, <2>1
  <2> QED BY <2>1, <2>2 DEF Reported
<1>4. CASE \E i \in DOMAIN approvals : ReportVote(i)
  <2>1. PICK i \in DOMAIN approvals : ReportVote(i)
    BY <1>4
  <2>2. /\ UNCHANGED <<approvals, seenLength, seen>> /\ toReport' = toReport \ {i}
        /\ i \in 1 .. seenLength
        /\ counted' = [counted EXCEPT ![i] = Verdict(seen, SeenApprovals, i)]
    BY <2>1 DEF ReportVote, voteVars, prepVars, Reported
  <2>3. SeenApprovals[i] = approvals[i]
    BY <1>1, <2>2 DEF SeenApprovals
  <2>4. counted'[i] = Verdict(seen, SeenApprovals, i)
        /\ \A j \in (1 .. seenLength) \ {i} : counted'[j] = counted[j]
    BY <1>1, <2>2
  <2>5. seen.sealed =>
          (counted'[i] = "Counted" <=> approvals[i] \in seen.votes /\ approvals[i].eligible)
    BY <2>3, <2>4 DEF Verdict
  <2> QED BY <2>2, <2>4, <2>5 DEF Reported
<1>5. CASE SyncPreparation
  <2>1. /\ UNCHANGED <<approvals, seenLength, counted>> /\ seen' = preparation
        /\ toReport' = IF ChangedApproval(seen, preparation)
                       THEN toReport \cup 1 .. seenLength ELSE toReport
    BY <1>5 DEF SyncPreparation, voteVars
  <2>2. CASE ChangedApproval(seen, preparation)
    <3>1. toReport' = 1 .. seenLength
      BY <2>1, <2>2 DEF Reported
    <3> QED BY <2>1, <3>1 DEF Reported
  <2>3. CASE ~ChangedApproval(seen, preparation)
    BY <2>1, <2>3 DEF Reported, ChangedApproval
  <2> QED BY <2>2, <2>3
<1>6. CASE SyncApproval
  <2>1. /\ UNCHANGED <<approvals, seen, counted>> /\ seenLength' = seenLength + 1
        /\ toReport' = toReport \cup {seenLength'}
    BY <1>6 DEF SyncApproval, prepVars
  <2>2. 1 .. seenLength' = (1 .. seenLength) \cup {seenLength'}
    BY <1>1, <2>1
  <2> QED BY <2>1, <2>2 DEF Reported
<1>7. CASE Crash
  <2>1. toReport' = 1 .. seenLength'
    BY <1>1, <1>7 DEF Crash
  <2> QED BY <2>1 DEF Reported
<1>8. CASE Server
  <2>1. CASE \E r \in Requests : AcceptVote(r) \/ ListVotes(r)
    <3>1. UNCHANGED <<approvals, seenLength, seen, countVars>>
      BY <2>1 DEF AcceptVote, ListVotes, prepVars
    <3> QED BY <1>2, <3>1
  <2> QED BY <1>3, <1>8, <2>1 DEF Server
<1>9. CASE Pass \/ Requeue \/ Serve \/ SyncServing \/ ChangeGates \/ AttachEvidenceFails
             \/ ReadFails \/ ArchiveFails \/ PatchStatusFails \/ UNCHANGED vars
  <2>1. UNCHANGED <<approvals, seenLength, seen, countVars>>
    BY <1>9 DEF Pass, StartPass, AttachEvidence, Evaluate, Seal, Archive, PatchStatus, Requeue,
                Serve, SyncServing, ChangeGates, AttachEvidenceFails, ReadFails, ArchiveFails,
                PatchStatusFails, vars, voteVars, prepVars
  <2> QED BY <1>2, <2>1
<1> QED
  BY <1>4, <1>5, <1>6, <1>7, <1>8, <1>9 DEF Next, Failures, Informers, Report

LEMMA ServedKept ==
  ASSUME Inductive, SealedApproved, Served, [Next]_vars
  PROVE  Served'
<1>1. TypeOK /\ CopyOf(seen)
  BY DEF Inductive
<1>2. preparation.ready => preparation'.ready
  BY OnlyPatchWrites DEF PassGood
<1>3. CASE serve' = TRUE /\ UNCHANGED target
  BY <1>2, <1>3 DEF Served
<1>4. CASE UNCHANGED <<serve, target, seen, promoted>>
  BY <1>2, <1>4 DEF Served
<1>5. CASE Serve
  <2>1. /\ UNCHANGED <<preparation, seen>>
        /\ target' = (seen.ready /\ (gatesOpen \/ promoted # NoStatement))
        /\ promoted' = IF /\ target' /\ promoted = NoStatement
                          /\ Gate(seen, SeenApprovals)
                       THEN seen.statement ELSE promoted
    BY <1>5 DEF Serve, prepVars
  <2>2. target' => preparation.ready
    BY <1>1, <2>1 DEF CopyOf
  <2>3. target' /\ seen.sealed /\ seen.statement # NoStatement => promoted' # NoStatement
    <3> SUFFICES ASSUME target', seen.sealed, seen.statement # NoStatement
                 PROVE  promoted' # NoStatement
      OBVIOUS
    <3>1. Approved(Votes(seen, SeenApprovals))
      BY <1>1 DEF CopyOf, SealedApproved, Votes
    <3> QED BY <2>1, <3>1 DEF Gate
  <2> QED BY <2>1, <2>2, <2>3 DEF Served
<1>6. CASE SyncPreparation \/ Crash \/ ChangeGates
  BY <1>3, <1>6 DEF SyncPreparation, Crash, ChangeGates
<1>7. CASE Server \/ Pass \/ Requeue \/ Report \/ SyncApproval \/ SyncServing
             \/ AttachEvidenceFails \/ ReadFails \/ ArchiveFails \/ PatchStatusFails
             \/ UNCHANGED vars
  <2>1. UNCHANGED <<serve, target, seen, promoted>>
    BY <1>7 DEF Server, AcceptVote, ListVotes, CreateVote, Pass, StartPass, AttachEvidence,
                Evaluate, Seal, Archive, PatchStatus, Requeue, Report, ReportVote, SyncApproval,
                SyncServing, AttachEvidenceFails, ReadFails, ArchiveFails, PatchStatusFails,
                vars, prepVars, targetVars
  <2> QED BY <1>4, <2>1
<1> QED
  BY <1>5, <1>6, <1>7 DEF Next, Failures, Informers

\* The second invariant, on top of the first: whoever has something to do has
\* been woken up, and will be.
Settling == SealedApproved /\ Awake /\ Reported /\ Served

LEMMA InitSettling ==
  ASSUME Init
  PROVE  Settling
<1>1. /\ ~preparation.sealed /\ seen = preparation /\ queued /\ serve /\ ~target
      /\ toReport = {} /\ pass.step = "Idle"
  BY DEF Init, Idle
<1> QED BY <1>1 DEF Settling, SealedApproved, Awake, Reported, Served

-----------------------------------------------------------------------------
(* The theorems.                                                           *)

\* The inductive invariant holds: the copies that the caches and a pass have
\* of the Preparation are of what it is or was, whatever is delayed or fails.
THEOREM InductiveHolds == Spec => []Inductive
<1>1. Init => Inductive
  BY InitInductive
<1>2. Inductive /\ [Next]_vars => Inductive'
  BY NextInductive
<1> QED BY <1>1, <1>2, PTL DEF Spec

\* Every variable has its type, for any approvers and any number of votes.
THEOREM TypeCorrect == Spec => []TypeOK
<1>1. Inductive => TypeOK
  BY DEF Inductive
<1> QED BY <1>1, InductiveHolds, PTL

\* Of a Preparation that is ready the evidence is in the registry, and one
\* statement of its votes at most is there, through failures, lost answers,
\* crashes and late votes.
THEOREM RegistryCorrect == Spec => []RegistryHolds
<1>1. ASSUME Inductive
      PROVE  RegistryHolds
  <2>1. Cardinality(registry.statements) <= 1
    <3>1. registry.statements = {} \/ \E s : registry.statements = {s}
      BY <1>1 DEF Inductive
    <3>2. Cardinality({}) = 0
      BY FS_EmptySet
    <3>3. CASE registry.statements = {}
      BY <3>2, <3>3
    <3>4. CASE \E s : registry.statements = {s}
      <4>1. PICK s : registry.statements = {s}
        BY <3>4
      <4>2. Cardinality({s}) = 1
        BY FS_Singleton
      <4> QED BY <4>1, <4>2
    <3> QED BY <3>1, <3>3, <3>4
  <2> QED BY <1>1, <2>1 DEF Inductive, RegistryHolds
<1> QED BY <1>1, InductiveHolds, PTL

\* What is promoted was approved as its statement in the registry says: by
\* enough distinct approvers, and none against it, although every controller
\* decides on copies and votes come in all the time.
THEOREM PromotedAsVotedHolds == Spec => []PromotedAsVoted
<1>1. ASSUME Inductive
      PROVE  PromotedAsVoted
  <2> SUFFICES ASSUME promoted # NoStatement
               PROVE  /\ promoted \in registry.statements
                      /\ Counting(CountedIn(promoted), "Reject") = {}
                      /\ Cardinality({v.approver : v \in
                                        Counting(CountedIn(promoted), "Approve")})
                           >= RequiredApprovals
    BY DEF PromotedAsVoted
  <2> DEFINE S == Counting(preparation.votes, "Approve")
  <2>1. /\ preparation.sealed /\ Approved(preparation.votes)
        /\ Sealable(preparation.votes)
        /\ promoted \in registry.statements
        /\ promoted = Statement(preparation, approvals)
        /\ approvals \in Seq(Approvals)
    BY <1>1 DEF Inductive, TypeOK
  <2>2. CountedIn(promoted) = {v \in preparation.votes : v.eligible}
    BY <2>1, StatementCounts DEF Sealable, Cast
  <2>3. \A d : Counting(CountedIn(promoted), d) = Counting(preparation.votes, d)
    BY <2>2 DEF Counting
  <2>4. IsFiniteSet(S)
    <3>1. IsFiniteSet(DOMAIN approvals)
      BY <2>1, FS_Interval
    <3>2. approvals \in Surjection(DOMAIN approvals, Cast)
      BY <2>1 DEF Surjection, Cast
    <3>3. IsFiniteSet(Cast)
      BY <3>1, <3>2, FS_Surjection
    <3> QED BY <2>1, <3>3, FS_Subset DEF Sealable, Counting
  <2>5. \A v, w \in S : v.approver = w.approver => v = w
    BY <2>1 DEF Sealable, Counting
  <2>6. Cardinality({v.approver : v \in S}) = Cardinality(S)
    BY <2>4, <2>5, DistinctApprovers
  <2> QED BY <2>1, <2>3, <2>6 DEF Approved
<1> QED BY <1>1, InductiveHolds, PTL

\* What is sealed stays as it is, and so does its statement.
SealKept ==
  preparation.sealed =>
    /\ preparation'.sealed
    /\ preparation'.votes = preparation.votes
    /\ preparation.statement # NoStatement =>
         preparation'.statement = preparation.statement

\* Sealed votes and their statement stay as they are, whatever old copies the
\* passes after that read and however many approvers there are.
THEOREM SealedStays == Spec => [][SealKept]_preparation
<1>1. ASSUME Inductive, [Next]_vars
      PROVE  [SealKept]_preparation
  BY <1>1, OnlyPatchWrites DEF PassGood, SealKept
<1> QED BY <1>1, InductiveHolds, PTL DEF Spec

\* No rejection that was recorded before the pass that seals is sealed away,
\* as long as the approvers there are fit into the status.
THEOREM SealCorrect ==
  ASSUME EveryoneFits
  PROVE  Spec => SealHolds
<1> DEFINE A == /\ preparation'.sealed /\ ~preparation.sealed => NoVetoSealed
                /\ preparation.sealed =>
                     /\ preparation'.sealed
                     /\ preparation'.votes = preparation.votes
                     /\ preparation.statement # NoStatement =>
                          preparation'.statement = preparation.statement
<1>1. ASSUME Inductive, [Next]_vars
      PROVE  [A]_preparation
  BY <1>1, OnlyPatchWrites DEF PassGood, NoVetoAmong, NoVetoSealed
<1>2. Spec => [][A]_preparation
  BY <1>1, InductiveHolds, PTL DEF Spec
<1> QED BY <1>2 DEF SealHolds

\* The second invariant holds: no wake-up of the three controllers is lost,
\* however the passes, the votes, the deliveries, failures and crashes interleave.
THEOREM SettlingHolds == Spec => []Settling
<1>1. Init => Settling
  BY InitSettling
<1>2. Inductive /\ Settling /\ [Next]_vars => Settling'
  BY SealedApprovedKept, AwakeKept, ReportedKept, ServedKept DEF Settling
<1> QED BY <1>1, <1>2, InductiveHolds, PTL DEF Spec

\* Once all is quiet the status aggregates the votes there are, and exactly
\* those of the sealed votes that count are reported to count.
THEOREM VotesSettleHolds == Spec => []VotesSettle
<1>1. ASSUME Inductive, Settling
      PROVE  VotesSettle
  <2> SUFFICES ASSUME Quiet, preparation.ready
               PROVE  /\ preparation = MarkApproval(preparation, approvals)
                      /\ preparation.sealed =>
                           \A i \in DOMAIN approvals :
                             counted[i] = "Counted" <=> approvals[i] \in preparation.votes
                                                        /\ approvals[i].eligible
    BY DEF VotesSettle
  <2>1. seen = preparation /\ DOMAIN approvals = 1 .. seenLength /\ toReport = {}
    BY <1>1 DEF Inductive, TypeOK, Quiet
  <2>2. Settled(seen)
    BY <1>1 DEF Settling, Awake, Quiet
  <2> QED BY <1>1, <2>1, <2>2 DEF Settled, Settling, Reported
<1> QED BY <1>1, InductiveHolds, SettlingHolds, PTL

\* Once all is quiet an approved target is sealed, archived and promoted: no
\* wake-up between the two controllers is lost.
THEOREM TargetPromotedHolds == Spec => []TargetPromoted
<1>1. ASSUME Inductive, Settling
      PROVE  TargetPromoted
  <2> SUFFICES ASSUME Quiet, target, Approved(Votes(preparation, approvals))
               PROVE  preparation.sealed /\ promoted # NoStatement
    BY DEF TargetPromoted
  <2>1. seen = preparation /\ seenTarget /\ preparation.ready /\ preparation \in Preparations
    BY <1>1 DEF Inductive, TypeOK, Quiet, Settling, Served
  <2>2. Settled(preparation)
    BY <1>1, <2>1 DEF Settling, Awake, Quiet
  <2>3. Votes(preparation, approvals) = preparation.votes
    <3>1. MarkApproval(preparation, approvals).votes = Votes(preparation, approvals)
      BY <2>1 DEF MarkApproval, Preparations
    <3> QED BY <2>1, <2>2, <3>1 DEF Settled
  <2>4. preparation.sealed /\ preparation.statement # NoStatement
    BY <2>1, <2>2, <2>3 DEF Settled
  <2> QED BY <1>1, <2>1, <2>4 DEF Settling, Served, Quiet
<1> QED BY <1>1, InductiveHolds, SettlingHolds, PTL

===============================================================================
