----------------------------- MODULE ScannerProofs -----------------------------
(* What holds of the scanner for any number of requests, databases, versions and *)
(* faults: the volume has room, and a database that was the newest when a        *)
(* request began to read it survives the next install.                           *)
EXTENDS Scanner, SequenceTheorems, TLAPS

AllVersions == UNION Range(Versions)

Installs ==
  [for : Requests \cup {None}, kind : Kinds, version : AllVersions,
   pc : {"Lock", "Prune", "Rename"}]

\* Every variable has its type.
TypeOK ==
  /\ request \in [Requests -> RequestStates \cup {None}]
  /\ installs \subseteq Installs
  /\ disk \in [Kinds -> Seq(AllVersions)]
  /\ faults \in Nat /\ cancels \in Nat

\* An install that has the lock is the only one of its kind, what it installs is
\* not there, and there is one version at most when it renames.
LockGood ==
  /\ \A i, j \in installs : i.kind = j.kind /\ i.pc # "Lock" /\ j.pc # "Lock" => i = j
  /\ \A i \in installs : i.pc # "Lock" => ~ Present(i.kind, i.version)
  /\ \A i \in installs : i.pc = "Rename" => Len(disk[i.kind]) <= 1

\* A request waits for one install at most, of the version it wants.
WaitGood ==
  /\ \A i, j \in installs : i.for = j.for /\ i.for # None => i = j
  /\ \A i \in installs : i.for # None =>
       /\ request[i.for] # None /\ request[i.for].pc = "Wait"
       /\ request[i.for].wants[i.kind] = i.version

\* What was the newest version is the last one until an install prunes, and there
\* until the one after that does.
HoldGood(r, k) ==
  LET h == request[r].holds[k]
  IN  request[r] # None /\ h # None /\ h.newest =>
        /\ h.since = 0 => /\ disk[k] # << >> /\ Last(disk[k]) = request[r].wants[k]
                          /\ \A i \in installs : i.kind = k => i.pc # "Rename"
        /\ h.since = 1 => Present(k, request[r].wants[k])

Inductive ==
  /\ TypeOK
  /\ LockGood
  /\ WaitGood
  /\ TwoVersions
  /\ \A r \in Requests, k \in Kinds : HoldGood(r, k)

-------------------------------------------------------------------------------
(* Sequences                                                                     *)

\* What the last element and an appended element do to a sequence.
LEMMA LastIn ==
  ASSUME NEW S, NEW s \in Seq(S), s # << >>
  PROVE  Last(s) \in S /\ Last(s) \in Range(s) /\ Len(s) \in DOMAIN s
<1>1. Len(s) \in 1 .. Len(s) /\ DOMAIN s = 1 .. Len(s)
  BY LenProperties, EmptySeq
<1> QED BY <1>1, ElementOfSeq DEF Last, Range

LEMMA SingleIn ==
  ASSUME NEW S, NEW e \in S
  PROVE  /\ <<e>> \in Seq(S) /\ Len(<<e>>) = 1 /\ IsInjective(<<e>>)
         /\ Range(<<e>>) = {e} /\ Last(<<e>>) = e
BY DEF Range, Last, IsInjective

LEMMA AppendIn ==
  ASSUME NEW S, NEW s \in Seq(S), NEW e \in S
  PROVE  /\ Append(s, e) \in Seq(S) /\ Append(s, e) # << >>
         /\ Len(Append(s, e)) = Len(s) + 1
         /\ Range(Append(s, e)) = Range(s) \cup {e}
         /\ Last(Append(s, e)) = e
         /\ IsInjective(s) /\ e \notin Range(s) => IsInjective(Append(s, e))
<1> DEFINE t == Append(s, e)
<1>1. /\ t \in Seq(S) /\ t # << >> /\ Len(t) = Len(s) + 1 /\ Len(s) \in Nat
      /\ DOMAIN s = 1 .. Len(s) /\ DOMAIN t = 1 .. (Len(s) + 1)
      /\ t[Len(s) + 1] = e
      /\ \A n \in 1 .. Len(s) : t[n] = s[n]
  BY AppendProperties, LenProperties
<1> HIDE DEF t
<1>2. 1 .. (Len(s) + 1) = (1 .. Len(s)) \cup {Len(s) + 1}
  BY <1>1
<1>3. Range(t) = Range(s) \cup {e}
  BY <1>1, <1>2 DEF Range
<1>4. Last(t) = e
  BY <1>1 DEF Last
<1>5. ASSUME IsInjective(s), e \notin Range(s) PROVE IsInjective(t)
  <2> SUFFICES ASSUME NEW m \in DOMAIN t, NEW n \in DOMAIN t, t[m] = t[n] PROVE m = n
    BY DEF IsInjective
  <2>1. \A n1 \in 1 .. Len(s) : t[n1] # e
    BY <1>1, <1>5 DEF Range
  <2>2. CASE m \in 1 .. Len(s) /\ n \in 1 .. Len(s)
    BY <1>1, <1>5, <2>2 DEF IsInjective
  <2>3. CASE m = Len(s) + 1 \/ n = Len(s) + 1
    BY <1>1, <1>2, <2>1, <2>3
  <2> QED BY <1>1, <1>2, <2>2, <2>3
<1> QED BY <1>1, <1>3, <1>4, <1>5 DEF t

-------------------------------------------------------------------------------
(* Requests and installs                                                         *)

\* What a request names, and what it holds of a kind, has its type.
LEMMA RequestTyped ==
  ASSUME TypeOK, NEW r \in Requests, request[r] # None
  PROVE  /\ request[r] \in RequestStates
         /\ \A k \in Kinds : /\ request[r].wants[k] \in AllVersions
                             /\ request[r].holds[k] \in Holds \cup {None}
<1>1. request[r] \in RequestStates
  BY DEF TypeOK
<1> QED BY <1>1 DEF RequestStates, Wants, AllVersions

\* A request that found its database: it scans, and holds the version.
LEMMA FoundIs ==
  ASSUME Inductive, NEW i \in installs, NEW newest \in BOOLEAN
  PROVE  LET f == Found(i, newest)
         IN  /\ f \in [Requests -> RequestStates \cup {None}]
             /\ \A r \in Requests : r # i.for => f[r] = request[r]
             /\ i.for # None =>
                  /\ f[i.for] # None
                  /\ f[i.for].wants = request[i.for].wants
                  /\ f[i.for].holds[i.kind] = [newest |-> newest, since |-> 0]
                  /\ \A k \in Kinds \ {i.kind} : f[i.for].holds[k] = request[i.for].holds[k]
<1>1. i \in Installs
  BY DEF Inductive, TypeOK
<1>2. CASE i.for = None
  <2>1. Found(i, newest) = request
    BY <1>2 DEF Found
  <2> QED BY <1>2, <2>1, NoneAssumption DEF Inductive, TypeOK
<1>3. CASE i.for # None
  <2>1. i.for \in Requests /\ i.kind \in Kinds
    BY <1>1, <1>3 DEF Installs
  <2>2. request[i.for] # None
    BY <1>3 DEF Inductive, WaitGood
  <2>3. request[i.for] \in RequestStates
    BY <2>1, <2>2, RequestTyped DEF Inductive
  <2> DEFINE h == [newest |-> newest, since |-> 0]
             q == [request[i.for] EXCEPT !.pc = "Scan", !.holds[i.kind] = h]
  <2>4. h \in Holds
    BY DEF Holds
  <2>5. q \in RequestStates /\ q.wants = request[i.for].wants /\ q.holds[i.kind] = h
        /\ \A k \in Kinds \ {i.kind} : q.holds[k] = request[i.for].holds[k]
    <3> HIDE DEF h
    <3> QED BY <2>1, <2>3, <2>4 DEF RequestStates
  <2>6. request \in [Requests -> RequestStates \cup {None}]
    BY DEF Inductive, TypeOK
  <2>7. Found(i, newest) = [request EXCEPT ![i.for] = q]
    BY <1>3, <2>1, <2>3, <2>6 DEF Found, RequestStates
  <2>8. q # None
    BY <2>5, NoneAssumption
  <2> HIDE DEF q
  <2> QED BY <1>3, <2>1, <2>5, <2>6, <2>7, <2>8 DEF h
<1> QED BY <1>2, <1>3

\* A request whose database was not found holds nothing new.
LEMMA NotFoundIs ==
  ASSUME Inductive, NEW i \in installs
  PROVE  LET f == NotFound(i)
         IN  /\ f \in [Requests -> RequestStates \cup {None}]
             /\ \A r \in Requests : r # i.for => f[r] = request[r]
             /\ i.for # None /\ f[i.for] # None =>
                  /\ f[i.for].wants = request[i.for].wants
                  /\ f[i.for].holds = request[i.for].holds
<1>1. i \in Installs
  BY DEF Inductive, TypeOK
<1>0. request \in [Requests -> RequestStates \cup {None}]
  BY DEF Inductive, TypeOK
<1>2. CASE i.for = None
  BY <1>0, <1>2 DEF NotFound
<1>3. CASE i.for # None
  <2>1. i.for \in Requests
    BY <1>1, <1>3 DEF Installs
  <2>2. request[i.for] # None
    BY <1>3 DEF Inductive, WaitGood
  <2>3. request[i.for] \in RequestStates
    BY <2>1, <2>2, RequestTyped DEF Inductive
  <2> DEFINE q == [request[i.for] EXCEPT !.pc = "Scan"]
  <2>4. q \in RequestStates /\ q.wants = request[i.for].wants /\ q.holds = request[i.for].holds
    BY <2>3 DEF RequestStates
  <2>5. NotFound(i) = IF i.kind = Main THEN [request EXCEPT ![i.for] = None]
                      ELSE [request EXCEPT ![i.for] = q]
    BY <1>3, <2>1, <1>0 DEF NotFound
  <2> HIDE DEF q
  <2> QED BY <1>0, <2>1, <2>4, <2>5
<1> QED BY <1>2, <1>3

\* What holds of a request stays while neither its versions nor the disk change
\* and no install gets to the point where it renames.
LEMMA HoldKept ==
  ASSUME NEW r \in Requests, NEW k \in Kinds, HoldGood(r, k),
         request[r] # None \/ request'[r] = request[r],
         request'[r] # None =>
           /\ request'[r].wants = request[r].wants
           /\ request'[r].holds[k] = request[r].holds[k],
         disk'[k] = disk[k],
         \A i \in installs' : i.kind = k /\ i.pc = "Rename" => i \in installs
  PROVE  HoldGood(r, k)'
BY DEF HoldGood, Present

\* An install that ends, or gives way, leaves the others as they were.
LEMMA LockRemoved ==
  ASSUME Inductive, installs' \subseteq installs, disk' = disk
  PROVE  LockGood' /\ TwoVersions'
BY DEF Inductive, LockGood, TwoVersions, Present

LEMMA WaitRemoved ==
  ASSUME Inductive, NEW i \in installs, installs' = installs \ {i},
         \A r \in Requests : r # i.for => request'[r] = request[r]
  PROVE  WaitGood'
<1>1. \A j \in installs' : j \in installs /\ j # i
  OBVIOUS
<1>2. \A j \in installs' : j.for # None => j.for \in Requests /\ j.for # i.for
  BY <1>1 DEF Inductive, TypeOK, Installs, WaitGood
<1> QED BY <1>1, <1>2 DEF Inductive, WaitGood

-------------------------------------------------------------------------------
(* The requests' steps                                                           *)

\* Nothing is installed and nobody asks at the beginning.
LEMMA InitInductive ==
  ASSUME Init
  PROVE  Inductive
<1>1. TypeOK
  BY EmptySeq DEF Init, TypeOK
<1>2. TwoVersions
  <2> SUFFICES ASSUME NEW k \in Kinds PROVE Len(disk[k]) <= 2 /\ IsInjective(disk[k])
    BY DEF TwoVersions
  <2>1. disk[k] = << >>
    BY DEF Init
  <2>2. Len(<< >>) = 0 /\ DOMAIN << >> = 1 .. 0
    BY EmptySeq, LenProperties
  <2> QED BY <2>1, <2>2 DEF IsInjective
<1>3. LockGood /\ WaitGood
  BY DEF Init, LockGood, WaitGood
<1>4. \A r \in Requests, k \in Kinds : HoldGood(r, k)
  BY DEF Init, HoldGood
<1> QED BY <1>1, <1>2, <1>3, <1>4 DEF Inductive

\* An install that is asked for waits for the lock.
LEMMA Asked ==
  ASSUME Inductive, NEW r \in Requests, NEW k \in Kinds, NEW v \in AllVersions,
         Ask(r, k, v), disk' = disk,
         \A i \in installs : i.for # r,
         \A s \in Requests : s # r => request'[s] = request[s],
         request'[r] # None, request'[r].pc = "Wait", request'[r].wants[k] = v
  PROVE  /\ installs' \subseteq Installs
         /\ LockGood' /\ WaitGood' /\ TwoVersions'
         /\ \A i \in installs' : i.pc # "Lock" => i \in installs
<1> DEFINE n == [for |-> r, kind |-> k, version |-> v, pc |-> "Lock"]
<1>1. installs' = installs \cup {n}
  BY DEF Ask
<1>2. n \in Installs /\ n.pc = "Lock" /\ n.for = r /\ n.kind = k /\ n.version = v
  BY DEF Installs
<1> HIDE DEF n
<1>3. \A i \in installs' : i.pc # "Lock" => i \in installs
  BY <1>1, <1>2
<1>4. installs' \subseteq Installs
  BY <1>1, <1>2 DEF Inductive, TypeOK
<1>5. LockGood'
  BY <1>3 DEF Inductive, LockGood, Present
<1>6. TwoVersions'
  BY DEF Inductive, TwoVersions
<1>7. WaitGood'
  <2>1. \A i \in installs : i.for # None => i.for \in Requests /\ i.for # r
    BY DEF Inductive, TypeOK, Installs
  <2>2. \A i, j \in installs' : i.for = j.for /\ i.for # None => i = j
    BY <1>1, <1>2, <2>1 DEF Inductive, WaitGood
  <2>3. \A i \in installs' : i.for # None =>
          /\ request'[i.for] # None /\ request'[i.for].pc = "Wait"
          /\ request'[i.for].wants[i.kind] = i.version
    BY <1>1, <1>2, <2>1 DEF Inductive, WaitGood
  <2> QED BY <2>2, <2>3 DEF WaitGood
<1> QED BY <1>3, <1>4, <1>5, <1>6, <1>7

LEMMA ArriveInductive ==
  ASSUME Inductive, NEW r \in Requests, Arrive(r)
  PROVE  Inductive'
<1>1. PICK wants \in Wants :
        /\ request' = [request EXCEPT ![r] = [wants |-> wants, pc |-> "Wait", holds |-> [k \in Kinds |-> None]]]
        /\ Ask(r, Main, wants[Main])
  BY DEF Arrive
<1>2. request[r] = None /\ disk' = disk /\ faults' = faults /\ cancels' = cancels
  BY DEF Arrive
<1> DEFINE q == [wants |-> wants, pc |-> "Wait", holds |-> [k \in Kinds |-> None]]
<1>3. q \in RequestStates /\ q.wants = wants /\ q.pc = "Wait" /\ \A k \in Kinds : q.holds[k] = None
  BY DEF RequestStates
<1>4. q # None
  BY <1>3, NoneAssumption
<1>5. request' = [request EXCEPT ![r] = q]
  BY <1>1
<1> HIDE DEF q
<1>6. wants[Main] \in AllVersions /\ Main \in Kinds
  BY ScannerAssumption DEF Wants, AllVersions
<1>7. /\ request' \in [Requests -> RequestStates \cup {None}]
      /\ request'[r] = q
      /\ \A s \in Requests : s # r => request'[s] = request[s]
  BY <1>3, <1>5 DEF Inductive, TypeOK
<1>8. \A i \in installs : i.for # r
  BY <1>2, NoneAssumption DEF Inductive, WaitGood
<1>9. /\ installs' \subseteq Installs
      /\ LockGood' /\ WaitGood' /\ TwoVersions'
      /\ \A i \in installs' : i.pc # "Lock" => i \in installs
  BY <1>1, <1>2, <1>3, <1>4, <1>6, <1>7, <1>8, Asked
<1>10. TypeOK'
  BY <1>2, <1>7, <1>9 DEF Inductive, TypeOK
<1>11. ASSUME NEW s \in Requests, NEW k \in Kinds PROVE HoldGood(s, k)'
  <2>1. CASE s = r
    BY <1>3, <1>7, <2>1 DEF HoldGood
  <2>2. CASE s # r
    <3>1. HoldGood(s, k)
      BY DEF Inductive
    <3> QED BY <1>2, <1>7, <1>9, <2>2, <3>1, HoldKept
  <2> QED BY <2>1, <2>2
<1> QED BY <1>9, <1>10, <1>11 DEF Inductive

LEMMA NeedsOtherInductive ==
  ASSUME Inductive, NEW r \in Requests, NeedsOther(r)
  PROVE  Inductive'
<1>1. PICK k \in Kinds :
        /\ request' = [request EXCEPT ![r].pc = "Wait"]
        /\ Ask(r, k, request[r].wants[k])
  BY DEF NeedsOther
<1>2. /\ request[r] # None /\ request[r].pc = "Scan"
      /\ disk' = disk /\ faults' = faults /\ cancels' = cancels
  BY DEF NeedsOther
<1>3. request[r] \in RequestStates /\ request[r].wants[k] \in AllVersions
  BY <1>2, RequestTyped DEF Inductive
<1> DEFINE q == [request[r] EXCEPT !.pc = "Wait"]
<1>4. q \in RequestStates /\ q.pc = "Wait" /\ q.wants = request[r].wants /\ q.holds = request[r].holds
  BY <1>3 DEF RequestStates
<1>5. q # None
  BY <1>4, NoneAssumption
<1>6. request' = [request EXCEPT ![r] = q]
  BY <1>1
<1> HIDE DEF q
<1>7. /\ request' \in [Requests -> RequestStates \cup {None}]
      /\ request'[r] = q
      /\ \A s \in Requests : s # r => request'[s] = request[s]
  BY <1>4, <1>6 DEF Inductive, TypeOK
<1>8. \A i \in installs : i.for # r
  BY <1>2, NoneAssumption DEF Inductive, WaitGood
<1>9. /\ installs' \subseteq Installs
      /\ LockGood' /\ WaitGood' /\ TwoVersions'
      /\ \A i \in installs' : i.pc # "Lock" => i \in installs
  BY <1>1, <1>2, <1>3, <1>4, <1>5, <1>7, <1>8, Asked
<1>10. TypeOK'
  BY <1>2, <1>7, <1>9 DEF Inductive, TypeOK
<1>11. ASSUME NEW s \in Requests, NEW l \in Kinds PROVE HoldGood(s, l)'
  <2>1. HoldGood(s, l)
    BY DEF Inductive
  <2>2. /\ request[s] # None \/ request'[s] = request[s]
        /\ request'[s] # None =>
             /\ request'[s].wants = request[s].wants
             /\ request'[s].holds[l] = request[s].holds[l]
    BY <1>2, <1>4, <1>7
  <2> QED BY <1>2, <1>9, <2>1, <2>2, HoldKept
<1> QED BY <1>9, <1>10, <1>11 DEF Inductive

LEMMA AnswerInductive ==
  ASSUME Inductive, NEW r \in Requests, Answer(r)
  PROVE  Inductive'
<1>1. /\ request[r] # None /\ request[r].pc = "Scan"
      /\ request' = [request EXCEPT ![r] = None]
      /\ installs' = installs /\ disk' = disk /\ faults' = faults /\ cancels' = cancels
  BY DEF Answer
<1>2. /\ request' \in [Requests -> RequestStates \cup {None}]
      /\ request'[r] = None
      /\ \A s \in Requests : s # r => request'[s] = request[s]
  BY <1>1 DEF Inductive, TypeOK
<1>3. TypeOK'
  BY <1>1, <1>2 DEF Inductive, TypeOK
<1>4. \A i \in installs : i.for # r
  BY <1>1, NoneAssumption DEF Inductive, WaitGood
<1>5. \A i \in installs : i.for # None => i.for \in Requests
  BY DEF Inductive, TypeOK, Installs
<1>6. WaitGood'
  BY <1>1, <1>2, <1>4, <1>5 DEF Inductive, WaitGood
<1>7. LockGood' /\ TwoVersions'
  BY <1>1, LockRemoved
<1>8. ASSUME NEW s \in Requests, NEW k \in Kinds PROVE HoldGood(s, k)'
  <2>1. HoldGood(s, k)
    BY DEF Inductive
  <2>2. /\ request[s] # None \/ request'[s] = request[s]
        /\ request'[s] # None =>
             /\ request'[s].wants = request[s].wants
             /\ request'[s].holds[k] = request[s].holds[k]
    BY <1>1, <1>2
  <2> QED BY <1>1, <2>1, <2>2, HoldKept
<1> QED BY <1>3, <1>6, <1>7, <1>8 DEF Inductive

\* The installs of a request that ends are nobody's from then on.
LEMMA CancelInductive ==
  ASSUME Inductive, NEW r \in Requests, Cancel(r)
  PROVE  Inductive'
<1>1. /\ request[r] # None
      /\ request' = [request EXCEPT ![r] = None]
      /\ installs' = {IF i.for = r THEN [i EXCEPT !.for = None] ELSE i : i \in installs}
      /\ disk' = disk /\ faults' = faults /\ cancels' = cancels + 1
  BY DEF Cancel, Orphans
<1>2. /\ request' \in [Requests -> RequestStates \cup {None}]
      /\ request'[r] = None
      /\ \A s \in Requests : s # r => request'[s] = request[s]
  BY <1>1 DEF Inductive, TypeOK
<1>3. \A i \in installs : i \in Installs
  BY DEF Inductive, TypeOK
<1>4. ASSUME NEW j \in installs'
      PROVE  \E i \in installs :
               /\ j \in Installs /\ j.kind = i.kind /\ j.version = i.version /\ j.pc = i.pc
               /\ i.for = r => j = [i EXCEPT !.for = None] /\ j.for = None
               /\ i.for # r => j = i
  <2>1. PICK i \in installs : j = IF i.for = r THEN [i EXCEPT !.for = None] ELSE i
    BY <1>1
  <2> QED BY <1>3, <2>1 DEF Installs
<1>5. TypeOK'
  BY <1>1, <1>2, <1>4 DEF Inductive, TypeOK
<1>6. WaitGood'
  <2>1. \A j \in installs' : j.for # None => j \in installs /\ j.for \in Requests /\ j.for # r
    BY <1>3, <1>4 DEF Installs
  <2> QED BY <1>2, <2>1 DEF Inductive, WaitGood
<1>7. LockGood'
  <2>1. \A i \in installs' : i.pc # "Lock" => ~ Present(i.kind, i.version)'
    BY <1>1, <1>4 DEF Inductive, LockGood, Present
  <2>2. \A i \in installs' : i.pc = "Rename" => Len(disk'[i.kind]) <= 1
    BY <1>1, <1>4 DEF Inductive, LockGood
  <2>3. ASSUME NEW i \in installs', NEW j \in installs', i.kind = j.kind, i.pc # "Lock", j.pc # "Lock"
        PROVE  i = j
    <3>1. PICK i0 \in installs :
            /\ i.kind = i0.kind /\ i.pc = i0.pc
            /\ i0.for = r => i = [i0 EXCEPT !.for = None]
            /\ i0.for # r => i = i0
      BY <1>4
    <3>2. PICK j0 \in installs :
            /\ j.kind = j0.kind /\ j.pc = j0.pc
            /\ j0.for = r => j = [j0 EXCEPT !.for = None]
            /\ j0.for # r => j = j0
      BY <1>4
    <3>3. i0 = j0
      BY <2>3, <3>1, <3>2 DEF Inductive, LockGood
    <3> QED BY <3>1, <3>2, <3>3
  <2> QED BY <2>1, <2>2, <2>3 DEF LockGood
<1>8. TwoVersions'
  BY <1>1 DEF Inductive, TwoVersions
<1>9. ASSUME NEW s \in Requests, NEW k \in Kinds PROVE HoldGood(s, k)'
  <2>1. HoldGood(s, k)
    BY DEF Inductive
  <2>2. CASE s = r
    BY <1>2, <2>2 DEF HoldGood
  <2>3. CASE s # r
    <3>1. request'[s] = request[s] /\ disk' = disk
      BY <1>1, <1>2, <2>3
    <3>2. \A j \in installs' : j.kind = k =>
            (j.pc = "Rename" => \E i \in installs : i.kind = k /\ i.pc = "Rename")
      BY <1>4
    <3> QED BY <2>1, <3>1, <3>2 DEF HoldGood, Present
  <2> QED BY <2>2, <2>3
<1> QED BY <1>5, <1>6, <1>7, <1>8, <1>9 DEF Inductive

-------------------------------------------------------------------------------
(* The installs' steps                                                           *)

\* An install that found its version: the request that waits holds it.
LEMMA LockInductive ==
  ASSUME Inductive, NEW i \in installs, Lock(i)
  PROVE  Inductive'
<1>1. /\ i.pc = "Lock" /\ ~ Held(i.kind)
      /\ disk' = disk /\ faults' = faults /\ cancels' = cancels
  BY DEF Lock
<1>2. i \in Installs /\ i.kind \in Kinds /\ i.version \in AllVersions
  BY DEF Inductive, TypeOK, Installs
<1>3. CASE Present(i.kind, i.version) /\ installs' = installs \ {i}
           /\ request' = Found(i, Last(disk[i.kind]) = i.version)
  <2> DEFINE newest == Last(disk[i.kind]) = i.version
  <2>1. newest \in BOOLEAN
    OBVIOUS
  <2>2. disk[i.kind] # << >>
    <3>1. DOMAIN << >> = 1 .. 0
      BY EmptySeq, LenProperties
    <3> QED BY <1>3, <3>1 DEF Present, Range
  <2> HIDE DEF newest
  <2>3. request' = Found(i, newest)
    BY <1>3 DEF newest
  <2>4. /\ request' \in [Requests -> RequestStates \cup {None}]
        /\ \A r \in Requests : r # i.for => request'[r] = request[r]
        /\ i.for # None =>
             /\ request'[i.for] # None
             /\ request'[i.for].wants = request[i.for].wants
             /\ request'[i.for].holds[i.kind] = [newest |-> newest, since |-> 0]
             /\ \A k \in Kinds \ {i.kind} : request'[i.for].holds[k] = request[i.for].holds[k]
    BY <2>1, <2>3, FoundIs
  <2>5. TypeOK'
    BY <1>1, <1>3, <2>4 DEF Inductive, TypeOK
  <2>6. LockGood' /\ TwoVersions'
    BY <1>1, <1>3, LockRemoved
  <2>7. WaitGood'
    BY <1>3, <2>4, WaitRemoved
  <2>8. ASSUME NEW s \in Requests, NEW k \in Kinds PROVE HoldGood(s, k)'
    <3>1. HoldGood(s, k)
      BY DEF Inductive
    <3>2. CASE s = i.for /\ k = i.kind
      <4>1. i.for # None
        BY <3>2, NoneAssumption
      <4>2. request'[s].wants[k] = i.version
        BY <2>4, <3>2, <4>1 DEF Inductive, WaitGood
      <4>3. request'[s].holds[k] = [newest |-> newest, since |-> 0]
        BY <2>4, <3>2, <4>1
      <4>4. \A j \in installs' : j.kind = k => j.pc # "Rename"
        BY <1>1, <1>3, <3>2 DEF Held
      <4>5. newest = TRUE => Last(disk[k]) = request'[s].wants[k]
        BY <3>2, <4>2 DEF newest
      <4>6. /\ request'[s].holds[k].newest = newest
            /\ request'[s].holds[k].since = 0
        BY <4>3
      <4>7. disk'[k] = disk[k] /\ disk[k] # << >>
        BY <1>1, <2>2, <3>2
      <4>8. request'[s].holds[k].newest => Last(disk'[k]) = request'[s].wants[k]
        BY <2>1, <4>5, <4>6, <4>7
      <4> QED BY <4>4, <4>6, <4>7, <4>8 DEF HoldGood
    <3>3. CASE ~ (s = i.for /\ k = i.kind)
      <4>1. /\ request[s] # None \/ request'[s] = request[s]
            /\ request'[s] # None =>
                 /\ request'[s].wants = request[s].wants
                 /\ request'[s].holds[k] = request[s].holds[k]
        <5>1. s = i.for => i.for # None /\ request[i.for] # None
          BY NoneAssumption DEF Inductive, WaitGood
        <5> QED BY <2>4, <3>3, <5>1
      <4>2. disk'[k] = disk[k] /\ \A j \in installs' : j \in installs
        BY <1>1, <1>3
      <4> QED BY <3>1, <4>1, <4>2, HoldKept
    <3> QED BY <3>2, <3>3
  <2> QED BY <2>5, <2>6, <2>7, <2>8 DEF Inductive
<1>4. CASE ~ Present(i.kind, i.version) /\ installs' = Past(i, "Prune") /\ request' = request
  <2> DEFINE n == [i EXCEPT !.pc = "Prune"]
  <2>1. n \in Installs /\ n.for = i.for /\ n.kind = i.kind /\ n.version = i.version /\ n.pc = "Prune"
    BY <1>2 DEF Installs
  <2>2. installs' = (installs \ {i}) \cup {n}
    BY <1>4 DEF Past
  <2> HIDE DEF n
  <2>3. TypeOK'
    BY <1>1, <1>4, <2>1, <2>2 DEF Inductive, TypeOK
  <2>4. WaitGood'
    BY <1>4, <2>1, <2>2 DEF Inductive, WaitGood
  <2>5. LockGood'
    <3>1. \A j \in installs' : j.pc # "Lock" => j = n \/ (j \in installs /\ j.kind # i.kind)
      BY <1>1, <2>2 DEF Held
    <3> QED BY <1>1, <1>4, <2>1, <3>1 DEF Inductive, LockGood, Present
  <2>6. TwoVersions'
    BY <1>1 DEF Inductive, TwoVersions
  <2>7. ASSUME NEW s \in Requests, NEW k \in Kinds PROVE HoldGood(s, k)'
    <3>1. HoldGood(s, k)
      BY DEF Inductive
    <3>2. \A j \in installs' : j.kind = k /\ j.pc = "Rename" => j \in installs
      BY <2>1, <2>2
    <3>3. disk'[k] = disk[k] /\ request'[s] = request[s]
      BY <1>1, <1>4
    <3> QED BY <3>1, <3>2, <3>3, HoldKept
  <2> QED BY <2>3, <2>4, <2>5, <2>6, <2>7 DEF Inductive
<1> QED BY <1>3, <1>4 DEF Lock

\* Who reads a version of a kind counts one more prune of it; nothing else of a
\* request changes.
LEMMA PrunedIs ==
  ASSUME TypeOK, NEW k \in Kinds, NEW r \in Requests
  PROVE  LET p == Pruned(k)[r]
             h == request[r].holds[k]
         IN  /\ p \in RequestStates \cup {None}
             /\ request[r] = None => p = None
             /\ request[r] # None =>
                  /\ p # None /\ p.pc = request[r].pc /\ p.wants = request[r].wants
                  /\ \A l \in Kinds \ {k} : p.holds[l] = request[r].holds[l]
                  /\ h = None => p.holds[k] = None
                  /\ h # None =>
                       /\ p.holds[k].newest = h.newest
                       /\ p.holds[k].since = IF h.since < 2 THEN h.since + 1 ELSE h.since
<1> DEFINE p == Pruned(k)[r]
           h == request[r].holds[k]
<1>1. p = IF request[r] # None /\ h # None /\ h.since < 2
          THEN [request[r] EXCEPT !.holds[k].since = @ + 1] ELSE request[r]
  BY DEF Pruned
<1>2. CASE request[r] # None /\ h # None /\ h.since < 2
  <2>1. request[r] \in RequestStates /\ h \in Holds
    BY <1>2, RequestTyped
  <2> DEFINE g == [newest |-> h.newest, since |-> h.since + 1]
             q == [request[r] EXCEPT !.holds[k] = g]
  <2>2. g \in Holds /\ g.newest = h.newest /\ g.since = h.since + 1
    BY <1>2, <2>1 DEF Holds
  <2>3. [h EXCEPT !.since = h.since + 1] = g
    BY <2>1 DEF Holds
  <2>4. p = [request[r] EXCEPT !.holds[k] = [h EXCEPT !.since = h.since + 1]]
    BY <1>1, <1>2, <2>1 DEF RequestStates
  <2>5. p = q
    BY <2>3, <2>4
  <2> HIDE DEF g
  <2>6. /\ q \in RequestStates /\ q.pc = request[r].pc /\ q.wants = request[r].wants
        /\ q.holds[k] = g
        /\ \A l \in Kinds \ {k} : q.holds[l] = request[r].holds[l]
    BY <2>1, <2>2 DEF RequestStates
  <2>7. q # None
    BY <2>6, NoneAssumption
  <2> HIDE DEF q, p
  <2> QED BY <1>2, <2>2, <2>5, <2>6, <2>7 DEF p
<1>3. CASE ~ (request[r] # None /\ h # None /\ h.since < 2)
  <2>1. p = request[r]
    BY <1>1, <1>3
  <2> QED BY <1>3, <2>1 DEF TypeOK
<1> QED BY <1>2, <1>3

LEMMA PruneInductive ==
  ASSUME Inductive, NEW i \in installs, Prune(i)
  PROVE  Inductive'
<1>1. /\ i.pc = "Prune" /\ i \in Installs /\ i.kind \in Kinds /\ i.version \in AllVersions
      /\ disk' = [disk EXCEPT ![i.kind] = Beside(i.kind)]
      /\ installs' = Past(i, "Rename")
      /\ request' = Pruned(i.kind)
      /\ faults' = faults /\ cancels' = cancels
  BY DEF Prune, Inductive, TypeOK, Installs
<1> DEFINE n == [i EXCEPT !.pc = "Rename"]
<1>2. n \in Installs /\ n.for = i.for /\ n.kind = i.kind /\ n.version = i.version /\ n.pc = "Rename"
  BY <1>1 DEF Installs
<1>3. installs' = (installs \ {i}) \cup {n}
  BY <1>1 DEF Past
<1> HIDE DEF n
<1>4. disk \in [Kinds -> Seq(AllVersions)]
  BY DEF Inductive, TypeOK
<1>5. /\ disk'[i.kind] = Beside(i.kind)
      /\ \A k \in Kinds \ {i.kind} : disk'[k] = disk[k]
  BY <1>1, <1>4
\* What stays of the kind: the last version, or nothing where nothing was.
<1>6. /\ Beside(i.kind) \in Seq(AllVersions)
      /\ Len(Beside(i.kind)) <= 1 /\ IsInjective(Beside(i.kind))
      /\ Range(Beside(i.kind)) \subseteq Range(disk[i.kind])
      /\ disk[i.kind] # << >> => Last(disk[i.kind]) \in Range(Beside(i.kind))
  <2>1. CASE disk[i.kind] = << >>
    <3>1. Beside(i.kind) = << >>
      BY <2>1 DEF Beside
    <3>2. << >> \in Seq(AllVersions) /\ Len(<< >>) = 0 /\ DOMAIN << >> = 1 .. 0
      BY EmptySeq, LenProperties
    <3> QED BY <2>1, <3>1, <3>2 DEF IsInjective, Range
  <2>2. CASE disk[i.kind] # << >>
    <3> DEFINE v == Last(disk[i.kind])
    <3>1. Beside(i.kind) = <<v>>
      BY <2>2 DEF Beside
    <3>2. v \in AllVersions /\ v \in Range(disk[i.kind])
      BY <1>1, <1>4, <2>2, LastIn
    <3> HIDE DEF v
    <3>3. /\ <<v>> \in Seq(AllVersions) /\ Len(<<v>>) = 1 /\ IsInjective(<<v>>)
          /\ Range(<<v>>) = {v}
      BY <3>2, SingleIn
    <3>4. Range(Beside(i.kind)) \subseteq Range(disk[i.kind])
      BY <3>1, <3>2, <3>3
    <3>5. Last(disk[i.kind]) \in Range(Beside(i.kind))
      BY <3>1, <3>3 DEF v
    <3>6. Len(Beside(i.kind)) <= 1 /\ Beside(i.kind) \in Seq(AllVersions) /\ IsInjective(Beside(i.kind))
      BY <3>1, <3>3
    <3> QED BY <3>4, <3>5, <3>6
  <2> QED BY <2>1, <2>2
<1>7. \A r \in Requests :
        LET h == request[r].holds[i.kind]
        IN  /\ request'[r] \in RequestStates \cup {None}
            /\ request[r] = None => request'[r] = None
            /\ request[r] # None =>
                 /\ request'[r] # None
                 /\ request'[r].pc = request[r].pc /\ request'[r].wants = request[r].wants
                 /\ \A l \in Kinds \ {i.kind} : request'[r].holds[l] = request[r].holds[l]
                 /\ h = None => request'[r].holds[i.kind] = None
                 /\ h # None =>
                      /\ request'[r].holds[i.kind].newest = h.newest
                      /\ request'[r].holds[i.kind].since = IF h.since < 2 THEN h.since + 1 ELSE h.since
  BY <1>1, PrunedIs DEF Inductive
<1>8. TypeOK'
  <2>1. request' \in [Requests -> RequestStates \cup {None}]
    BY <1>1, <1>7 DEF Pruned
  <2>2. disk' \in [Kinds -> Seq(AllVersions)]
    BY <1>1, <1>4, <1>6
  <2> QED BY <1>1, <1>2, <1>3, <2>1, <2>2 DEF Inductive, TypeOK
<1>9. TwoVersions'
  <2> SUFFICES ASSUME NEW k \in Kinds PROVE Len(disk'[k]) <= 2 /\ IsInjective(disk'[k])
    BY DEF TwoVersions
  <2>1. CASE k = i.kind
    <3>1. Len(Beside(i.kind)) \in Nat
      BY <1>6, LenProperties
    <3> QED BY <1>5, <1>6, <2>1, <3>1
  <2>2. CASE k # i.kind
    BY <1>5, <2>2 DEF Inductive, TwoVersions
  <2> QED BY <2>1, <2>2
<1>10. \A j \in installs' : j.pc # "Lock" => j = n \/ (j \in installs /\ j.kind # i.kind)
  BY <1>1, <1>3 DEF Inductive, LockGood
<1>11. LockGood'
  <2>1. \A j \in installs' : j.pc # "Lock" => ~ Present(j.kind, j.version)'
    <3>1. ~ Present(i.kind, i.version)
      BY <1>1 DEF Inductive, LockGood
    <3>2. ~ Present(n.kind, n.version)'
      BY <1>2, <1>5, <1>6, <3>1 DEF Present
    <3>3. ASSUME NEW j \in installs, j.kind # i.kind, j.pc # "Lock" PROVE ~ Present(j.kind, j.version)'
      <4>1. j.kind \in Kinds \ {i.kind} /\ ~ Present(j.kind, j.version)
        BY <3>3 DEF Inductive, TypeOK, Installs, LockGood
      <4> QED BY <1>5, <4>1 DEF Present
    <3> QED BY <1>10, <3>2, <3>3
  <2>2. \A j \in installs' : j.pc = "Rename" => Len(disk'[j.kind]) <= 1
    <3>1. Len(disk'[n.kind]) <= 1
      BY <1>2, <1>5, <1>6
    <3>2. ASSUME NEW j \in installs, j.kind # i.kind, j.pc = "Rename" PROVE Len(disk'[j.kind]) <= 1
      BY <1>5, <3>2 DEF Inductive, TypeOK, Installs, LockGood
    <3> QED BY <1>10, <3>1, <3>2
  <2>3. \A j1, j2 \in installs' : j1.kind = j2.kind /\ j1.pc # "Lock" /\ j2.pc # "Lock" => j1 = j2
    BY <1>2, <1>10 DEF Inductive, LockGood
  <2> QED BY <2>1, <2>2, <2>3 DEF LockGood
<1>12. WaitGood'
  <2>1. \A j \in installs : j.for # None => j.for \in Requests
    BY DEF Inductive, TypeOK, Installs
  <2>2. \A j1, j2 \in installs' : j1.for = j2.for /\ j1.for # None => j1 = j2
    BY <1>2, <1>3 DEF Inductive, WaitGood
  <2>3. \A j \in installs' : \E j0 \in installs :
          j.for = j0.for /\ j.kind = j0.kind /\ j.version = j0.version
    BY <1>2, <1>3
  <2>4. \A j \in installs' : j.for # None =>
          /\ request'[j.for] # None /\ request'[j.for].pc = "Wait"
          /\ request'[j.for].wants[j.kind] = j.version
    BY <1>7, <2>1, <2>3 DEF Inductive, WaitGood
  <2> QED BY <2>2, <2>4 DEF WaitGood
<1>13. ASSUME NEW r \in Requests, NEW k \in Kinds PROVE HoldGood(r, k)'
  <2>1. HoldGood(r, k)
    BY DEF Inductive
  <2>2. CASE k # i.kind
    <3>1. disk'[k] = disk[k] /\ \A j \in installs' : j.kind = k => j \in installs
      BY <1>2, <1>3, <1>5, <2>2
    <3>2. /\ request[r] # None \/ request'[r] = request[r]
          /\ request'[r] # None =>
               /\ request'[r].wants = request[r].wants
               /\ request'[r].holds[k] = request[r].holds[k]
      BY <1>7, <2>2
    <3> QED BY <2>1, <3>1, <3>2, HoldKept
  <2>3. CASE k = i.kind
    <3> DEFINE h == request[r].holds[k]
               g == request'[r].holds[k]
    <3> SUFFICES ASSUME request'[r] # None, g # None, g.newest
                 PROVE  g.since # 0 /\ (g.since = 1 => Present(k, request[r].wants[k])')
                        /\ request'[r].wants = request[r].wants
      BY DEF HoldGood, Present
    <3>1. /\ request[r] # None /\ h # None /\ h.newest = g.newest
          /\ g.since = IF h.since < 2 THEN h.since + 1 ELSE h.since
          /\ request'[r].wants = request[r].wants
      BY <1>7, <2>3
    <3>2. h.since \in 0 .. 2
      <4>1. h \in Holds
        BY <3>1, RequestTyped DEF Inductive
      <4> QED BY <4>1 DEF Holds
    <3>3. ASSUME g.since = 1 PROVE Present(k, request[r].wants[k])'
      <4>1. h.since = 0
        BY <3>1, <3>2, <3>3
      <4>2. disk[k] # << >> /\ Last(disk[k]) = request[r].wants[k]
        BY <2>1, <3>1, <4>1 DEF HoldGood
      <4>3. request[r].wants[k] \in Range(disk'[k])
        BY <1>5, <1>6, <2>3, <4>2
      <4>4. request'[r].wants[k] = request[r].wants[k]
        BY <3>1
      <4> QED BY <4>3, <4>4 DEF Present
    <3> QED BY <3>1, <3>2, <3>3
  <2> QED BY <2>2, <2>3
<1> QED BY <1>8, <1>9, <1>11, <1>12, <1>13 DEF Inductive

\* The version that is renamed into place is new on the disk, where one other is
\* left at most.
LEMMA RenameInductive ==
  ASSUME Inductive, NEW i \in installs, Rename(i)
  PROVE  Inductive'
<1>1. /\ i.pc = "Rename" /\ i \in Installs /\ i.kind \in Kinds /\ i.version \in AllVersions
      /\ ~ Present(i.kind, i.version)
      /\ disk' = [disk EXCEPT ![i.kind] = Append(disk[i.kind], i.version)]
      /\ installs' = installs \ {i}
      /\ request' = Found(i, TRUE)
      /\ faults' = faults /\ cancels' = cancels
  BY DEF Rename, Inductive, TypeOK, Installs
<1>2. disk \in [Kinds -> Seq(AllVersions)] /\ disk[i.kind] \in Seq(AllVersions)
  BY <1>1 DEF Inductive, TypeOK
<1>3. /\ disk'[i.kind] = Append(disk[i.kind], i.version)
      /\ \A k \in Kinds \ {i.kind} : disk'[k] = disk[k]
  BY <1>1, <1>2
<1>4. /\ disk'[i.kind] \in Seq(AllVersions) /\ disk'[i.kind] # << >>
      /\ Len(disk'[i.kind]) = Len(disk[i.kind]) + 1
      /\ Range(disk'[i.kind]) = Range(disk[i.kind]) \cup {i.version}
      /\ Last(disk'[i.kind]) = i.version
      /\ IsInjective(disk[i.kind]) => IsInjective(disk'[i.kind])
  BY <1>1, <1>2, <1>3, AppendIn DEF Present
<1>5. /\ request' \in [Requests -> RequestStates \cup {None}]
      /\ \A r \in Requests : r # i.for => request'[r] = request[r]
      /\ i.for # None =>
           /\ request'[i.for] # None
           /\ request'[i.for].wants = request[i.for].wants
           /\ request'[i.for].holds[i.kind] = [newest |-> TRUE, since |-> 0]
           /\ \A k \in Kinds \ {i.kind} : request'[i.for].holds[k] = request[i.for].holds[k]
  BY <1>1, FoundIs
<1>6. TypeOK'
  <2>1. disk' \in [Kinds -> Seq(AllVersions)]
    BY <1>1, <1>2, <1>3, <1>4
  <2> QED BY <1>1, <1>5, <2>1 DEF Inductive, TypeOK
<1>7. TwoVersions'
  <2> SUFFICES ASSUME NEW k \in Kinds PROVE Len(disk'[k]) <= 2 /\ IsInjective(disk'[k])
    BY DEF TwoVersions
  <2>1. CASE k = i.kind
    <3>1. Len(disk[k]) \in Nat /\ Len(disk[k]) <= 1 /\ IsInjective(disk[k])
      BY <1>1, <1>2, <2>1, LenProperties DEF Inductive, LockGood, TwoVersions
    <3> QED BY <1>4, <2>1, <3>1
  <2>2. CASE k # i.kind
    BY <1>3, <2>2 DEF Inductive, TwoVersions
  <2> QED BY <2>1, <2>2
<1>8. \A j \in installs' : j.kind \in Kinds /\ (j.kind = i.kind => j.pc = "Lock")
  BY <1>1 DEF Inductive, TypeOK, Installs, LockGood
<1>9. LockGood'
  <2>1. \A j \in installs' : j.pc # "Lock" => j \in installs /\ disk'[j.kind] = disk[j.kind]
    BY <1>1, <1>3, <1>8
  <2> QED BY <2>1 DEF Inductive, LockGood, Present
<1>10. WaitGood'
  BY <1>1, <1>5, WaitRemoved
<1>11. ASSUME NEW r \in Requests, NEW k \in Kinds PROVE HoldGood(r, k)'
  <2>1. HoldGood(r, k)
    BY DEF Inductive
  <2>2. CASE r = i.for /\ k = i.kind
    <3>1. i.for # None
      BY <2>2, NoneAssumption
    <3>2. request'[r].wants[k] = i.version
      BY <1>5, <2>2, <3>1 DEF Inductive, WaitGood
    <3>3. request'[r].holds[k] = [newest |-> TRUE, since |-> 0]
      BY <1>5, <2>2, <3>1
    <3>4. \A j \in installs' : j.kind = k => j.pc # "Rename"
      BY <1>8, <2>2
    <3> QED BY <1>4, <2>2, <3>2, <3>3, <3>4 DEF HoldGood
  <2>3. CASE ~ (r = i.for /\ k = i.kind)
    <3>1. /\ request[r] # None \/ request'[r] = request[r]
          /\ request'[r] # None =>
               /\ request'[r].wants = request[r].wants
               /\ request'[r].holds[k] = request[r].holds[k]
      <4>1. r = i.for => i.for # None /\ request[i.for] # None
        BY NoneAssumption DEF Inductive, WaitGood
      <4> QED BY <1>5, <2>3, <4>1
    <3>2. CASE k # i.kind
      <4>1. disk'[k] = disk[k] /\ \A j \in installs' : j \in installs
        BY <1>1, <1>3, <3>2
      <4> QED BY <2>1, <3>1, <4>1, HoldKept
    <3>3. CASE k = i.kind
      <4> DEFINE h == request[r].holds[k]
      <4> SUFFICES ASSUME request'[r] # None, request'[r].holds[k] # None, request'[r].holds[k].newest
                   PROVE  /\ request'[r].holds[k].since # 0
                          /\ request'[r].holds[k].since = 1 => Present(k, request[r].wants[k])'
        BY DEF HoldGood
      <4>1. /\ request[r] # None /\ h # None /\ h.newest
            /\ request'[r].holds[k] = h /\ request'[r].wants = request[r].wants
        BY <3>1
      <4>2. h.since # 0
        BY <1>1, <2>1, <3>3, <4>1 DEF HoldGood
      <4>3. h.since = 1 => request[r].wants[k] \in Range(disk'[k])
        BY <1>4, <2>1, <3>3, <4>1 DEF HoldGood, Present
      <4> QED BY <4>1, <4>2, <4>3 DEF Present
    <3> QED BY <3>2, <3>3
  <2> QED BY <2>2, <2>3
<1> QED BY <1>6, <1>7, <1>9, <1>10, <1>11 DEF Inductive

LEMMA FailsInductive ==
  ASSUME Inductive, NEW i \in installs, Fails(i)
  PROVE  Inductive'
<1>1. /\ installs' = installs \ {i} /\ request' = NotFound(i)
      /\ disk' = disk /\ faults' = faults + 1 /\ cancels' = cancels
  BY DEF Fails, Fault
<1>2. /\ request' \in [Requests -> RequestStates \cup {None}]
      /\ \A r \in Requests : r # i.for => request'[r] = request[r]
      /\ i.for # None /\ request'[i.for] # None =>
           /\ request'[i.for].wants = request[i.for].wants
           /\ request'[i.for].holds = request[i.for].holds
  BY <1>1, NotFoundIs
<1>3. TypeOK'
  BY <1>1, <1>2 DEF Inductive, TypeOK
<1>4. LockGood' /\ TwoVersions'
  BY <1>1, LockRemoved
<1>5. WaitGood'
  BY <1>1, <1>2, WaitRemoved
<1>6. ASSUME NEW r \in Requests, NEW k \in Kinds PROVE HoldGood(r, k)'
  <2>1. HoldGood(r, k)
    BY DEF Inductive
  <2>2. r = i.for => i.for # None /\ request[i.for] # None
    BY NoneAssumption DEF Inductive, WaitGood
  <2>3. /\ request[r] # None \/ request'[r] = request[r]
        /\ request'[r] # None =>
             /\ request'[r].wants = request[r].wants
             /\ request'[r].holds[k] = request[r].holds[k]
    BY <1>2, <2>2
  <2> QED BY <1>1, <2>1, <2>3, HoldKept
<1> QED BY <1>3, <1>4, <1>5, <1>6 DEF Inductive

LEMMA RestartInductive ==
  ASSUME Inductive, Restart
  PROVE  Inductive'
<1>1. /\ request' = [r \in Requests |-> None] /\ installs' = {}
      /\ disk' = disk /\ faults' = faults + 1 /\ cancels' = cancels
  BY DEF Restart, Fault
<1>2. TypeOK'
  BY <1>1 DEF Inductive, TypeOK
<1>3. LockGood' /\ WaitGood' /\ TwoVersions'
  BY <1>1 DEF LockGood, WaitGood, Inductive, TwoVersions
<1>4. \A r \in Requests, k \in Kinds : HoldGood(r, k)'
  BY <1>1 DEF HoldGood
<1> QED BY <1>2, <1>3, <1>4 DEF Inductive

-------------------------------------------------------------------------------
(* What holds                                                                    *)

\* Every step of a request, an install or the container keeps the invariant.
LEMMA NextInductive ==
  ASSUME Inductive, [Next]_vars
  PROVE  Inductive'
<1>1. CASE UNCHANGED vars
  BY <1>1 DEF vars, Inductive, TypeOK, LockGood, WaitGood, TwoVersions, HoldGood, Present
<1>2. ASSUME NEW r \in Requests, Serve(r) PROVE Inductive'
  BY <1>2, ArriveInductive, NeedsOtherInductive, AnswerInductive, CancelInductive DEF Serve
<1>3. ASSUME NEW i \in installs, Lock(i) \/ Prune(i) \/ Rename(i) \/ Fails(i) PROVE Inductive'
  BY <1>3, LockInductive, PruneInductive, RenameInductive, FailsInductive
<1>4. CASE Restart
  BY <1>4, RestartInductive
<1> QED BY <1>1, <1>2, <1>3, <1>4 DEF Next

\* The strengthening that carries the properties: who has the lock of a kind, what
\* the requests that wait are waiting for, and where the version a request reads is
\* between two installs.
THEOREM InductiveHolds == Spec => []Inductive
<1>1. Init => Inductive
  BY InitInductive
<1>2. Inductive /\ [Next]_vars => Inductive'
  BY NextInductive
<1> QED BY <1>1, <1>2, PTL DEF Spec

\* Type correctness of the requests, the installs and the disk.
THEOREM TypeCorrect == Spec => []TypeOK
<1>1. Inductive => TypeOK
  BY DEF Inductive
<1> QED BY <1>1, InductiveHolds, PTL

\* The volume holds two versions of a database at most, none of them twice, for any
\* number of requests, cancellations and restarts (pruneOlder, Trivy.download).
THEOREM TwoVersionsHolds == Spec => []TwoVersions
<1>1. Inductive => TwoVersions
  BY DEF Inductive
<1> QED BY <1>1, InductiveHolds, PTL

\* A request that began to read the newest version keeps it over the next install,
\* though no lock is held while it scans (pruneOlder keeps the one installed last).
THEOREM SurvivesNextHolds == Spec => []SurvivesNext
<1>1. ASSUME Inductive PROVE SurvivesNext
  <2> SUFFICES ASSUME NEW r \in Requests, NEW k \in Kinds, request[r] # None,
                      request[r].holds[k] # None, request[r].holds[k].newest,
                      request[r].holds[k].since < 2
               PROVE  Present(k, request[r].wants[k])
    BY DEF SurvivesNext, Active
  <2> DEFINE h == request[r].holds[k]
  <2>1. h.since \in 0 .. 2
    <3>1. h \in Holds
      BY <1>1, RequestTyped DEF Inductive
    <3> QED BY <3>1 DEF Holds
  <2>2. HoldGood(r, k)
    BY <1>1 DEF Inductive
  <2>3. CASE h.since = 0
    <3>1. disk[k] # << >> /\ Last(disk[k]) = request[r].wants[k]
      BY <2>2, <2>3 DEF HoldGood
    <3>2. disk[k] \in Seq(AllVersions)
      BY <1>1 DEF Inductive, TypeOK
    <3> QED BY <3>1, <3>2, LastIn DEF Present
  <2>4. CASE h.since = 1
    BY <2>2, <2>4 DEF HoldGood
  <2> QED BY <2>1, <2>3, <2>4
<1> QED BY <1>1, InductiveHolds, PTL

===============================================================================
