---------------------------- MODULE SessionsProofs ----------------------------
(* What holds of sessions for any number of replicas, sessions, faults and       *)
(* lifetimes: no token outlives its session, a user the provider no longer       *)
(* vouches for is out in time, and a session that was ended stays ended.         *)
EXTENDS Sessions, SequenceTheorems, TLAPS

Tokens == [expires : Nat, check : Nat]

Flights == [at : Nat, token : Tokens, active : BOOLEAN]

Entries == [key : Keys, at : Nat \ {0}]

Versions == [data : [Keys -> Nat], at : Nat \ {0}]

\* Every variable has its type.
TypeOK ==
  /\ now \in Nat \ {0}
  /\ session \in [SessionIds -> SessionRecords \cup {None}]
  /\ tokens \in [SessionIds -> SUBSET Tokens]
  /\ access \in [SessionIds -> Nat]
  /\ flight \in [SessionIds -> Flights \cup {None}]
  /\ active \in [SessionIds -> Nat]
  /\ cm \in [Keys -> Nat]
  /\ queue \in [Replicas -> Seq(Versions)]
  /\ entries \in [Replicas -> [Keys -> Nat]]
  /\ pending \in [Replicas -> [Keys -> Nat]]
  /\ recording \in [Replicas -> Entries \cup {None}]
  /\ recorded \subseteq Replicas \X Keys \X (Nat \ {0})
  /\ posted \subseteq Entries
  /\ gone \in [ProviderSids \cup SessionIds -> Nat]
  /\ edits \in Nat

-------------------------------------------------------------------------------
(* The inductive invariant: the tokens.                                          *)

\* When the tokens of a session end at the latest.
End(s) == Least(SessionEnd(s), active[s] + IdleTTL)

\* The tokens of a session, and the one that waits for the provider, are from
\* its sign-in on and end with it; those of a session that is checked at the
\* provider are to be checked in time.
TokensGood(s) ==
  /\ session[s] = None => /\ tokens[s] = {} /\ access[s] = 0 /\ flight[s] = None
                          /\ gone[s] = 0
  /\ session[s] # None =>
       /\ session[s].authTime <= now
       /\ access[s] <= End(s)
       /\ \A t \in tokens[s] : t.expires <= End(s)
       /\ flight[s] # None => flight[s].at <= now /\ flight[s].token.expires <= End(s)
  /\ access[s] <= now + AccessTTL
  /\ gone[s] # 0 => /\ session[s].checked
                    /\ access[s] <= gone[s] + CheckEvery + AccessTTL
                    /\ \A t \in tokens[s] : t.check <= gone[s] + CheckEvery
  /\ \A t \in tokens[s] : /\ session[s].checked => t.check # 0
                          /\ t.check <= now + CheckEvery

-------------------------------------------------------------------------------
(* The inductive invariant: the record.                                          *)

\* The keys that name sessions, not the user.
SessionKeys == Keys \ {<<"sub">>}

\* The key k names session s.
Names(k, s) ==
  \/ k = <<"ksid", s>>
  \/ /\ session[s].provider = "oidc" /\ session[s].sid # None
     /\ k = <<"sid", session[s].sid>>

\* Every session that k may name has started.
Closed(k) ==
  /\ \A s \in SessionIds : k = <<"ksid", s>> => session[s] # None
  /\ \A p \in ProviderSids : k = <<"sid", p>> => gone[p] # 0

\* An entry of k is of the time at, at which every session it names had started.
EntryOf(k, at) ==
  at # 0 => /\ Closed(k)
            /\ \A s \in SessionIds :
                 session[s] # None /\ Names(k, s) => session[s].authTime <= at

\* Every session that k may name has reached its end.
Over(k) ==
  /\ Closed(k)
  /\ \A s \in SessionIds : session[s] # None /\ Names(k, s) => SessionEnd(s) <= now

\* An entry was recorded that counts, or will count, on a replica.
Recorded(k) ==
  \/ \E e \in recorded : e[2] = k
  \/ \E r \in Replicas : recording[r] # None /\ recording[r].key = k

\* The entries there are, wherever they are, are entries of their key.
EntriesGood(k) ==
  /\ EntryOf(k, cm[k])
  /\ \A r \in Replicas :
       /\ EntryOf(k, entries[r][k])
       /\ \A i \in 1 .. Len(queue[r]) : EntryOf(k, queue[r][i].data[k])
       /\ recording[r] # None /\ recording[r].key = k => EntryOf(k, recording[r].at)
  /\ \A e \in posted : e.key = k => EntryOf(k, e.at)

\* An entry stays in the ConfigMap, and in every version after the first with
\* it, until the sessions it names are over.
RecordGood(k) ==
  /\ Recorded(k) => cm[k] # 0 \/ Over(k)
  /\ \A r \in Replicas, i, j \in Nat :
       1 <= i /\ i < j /\ j <= Len(queue[r])
         /\ queue[r][i].data[k] # 0 /\ queue[r][j].data[k] = 0 => Over(k)

\* The replica that recorded an entry has it, and has it pending while its
\* watch may deliver versions without it.
OwnEntryGood(r, k) ==
  (\E e \in recorded : e[1] = r /\ e[2] = k) /\ ~ Over(k) =>
    /\ entries[r][k] # 0
    /\ \A i \in 1 .. Len(queue[r]) :
         queue[r][i].data[k] = 0 => queue[r][i].at <= pending[r][k]

\* A watch delivers the ConfigMap as it is in the end, and not later than a tick
\* after it was written.
QueueGood(r) ==
  /\ queue[r] # << >> => queue[r][Len(queue[r])].data = cm
  /\ queue[r] = << >> => \A k \in Keys : cm[k] # 0 => entries[r][k] # 0
  /\ \A i \in 1 .. Len(queue[r]) : queue[r][i].at <= now /\ now <= queue[r][i].at + 1

Inductive ==
  /\ TypeOK
  /\ \A s \in SessionIds : TokensGood(s)
  /\ \A k \in SessionKeys : EntriesGood(k) /\ RecordGood(k)
  /\ \A r \in Replicas : QueueGood(r) /\ \A k \in SessionKeys : OwnEntryGood(r, k)

-------------------------------------------------------------------------------
(* The operators the steps are made of.                                          *)

LEMMA LeastIs ==
  ASSUME NEW a \in Int, NEW b \in Int
  PROVE  Least(a, b) \in {a, b} /\ Least(a, b) <= a /\ Least(a, b) <= b
BY DEF Least

\* What is issued ends with the session, and with the activity it was issued
\* for or the token it was issued for.
LEMMA IssueGives ==
  ASSUME TypeOK, NEW s \in SessionIds, NEW at \in Nat, NEW authTime \in Nat,
         NEW previous \in Nat, NEW check \in Nat, NEW isActive \in BOOLEAN,
         isActive \/ previous <= active[s] + IdleTTL,
         Issue(s, at, authTime, previous, check, isActive)
  PROVE  /\ tokens' \in [SessionIds -> SUBSET Tokens]
         /\ access' \in [SessionIds -> Nat] /\ active' \in [SessionIds -> Nat]
         /\ \A q \in SessionIds \ {s} : /\ tokens'[q] = tokens[q]
                                        /\ access'[q] = access[q]
                                        /\ active'[q] = active[q]
         /\ active[s] <= active'[s]
         /\ \A t \in tokens'[s] \ tokens[s] :
              /\ t.check = check
              /\ t.expires <= authTime + SessionTTL
              /\ t.expires <= active'[s] + IdleTTL
         /\ \/ access'[s] = access[s]
            \/ /\ access'[s] <= at + AccessTTL /\ access'[s] <= authTime + SessionTTL
               /\ access'[s] <= active'[s] + IdleTTL
<1> DEFINE d == IdleDeadline(at, authTime, previous, isActive)
           l == Least(at + AccessTTL, d)
           a == IF access[s] > l THEN access[s] ELSE l
           f == IF isActive THEN IF active[s] > at THEN active[s] ELSE at ELSE active[s]
<1>1. /\ access[s] \in Nat /\ active[s] \in Nat /\ active \in [SessionIds -> Nat]
      /\ at + IdleTTL \in Nat /\ authTime + SessionTTL \in Nat /\ at + AccessTTL \in Nat
      /\ IdleTTL \in Nat
  BY LifetimesAssumption DEF TypeOK
<1>2. d \in Nat /\ d <= authTime + SessionTTL /\ d <= f + IdleTTL
  <2>1. CASE isActive
    BY <1>1, <2>1, LeastIs DEF IdleDeadline
  <2>2. CASE ~ isActive
    <3>1. /\ Least(previous, at + IdleTTL) \in Nat
          /\ Least(previous, at + IdleTTL) <= previous
      BY <1>1, LeastIs
    <3> QED BY <1>1, <2>2, <3>1, LeastIs DEF IdleDeadline
  <2> QED BY <2>1, <2>2
<1> HIDE DEF d
<1>3. l \in Nat /\ l <= at + AccessTTL /\ l <= d
  BY <1>1, <1>2, LeastIs
<1> HIDE DEF l
<1>4. a \in Nat /\ (a = access[s] \/ a = l)
  BY <1>1, <1>3
<1>5. f \in Nat /\ f >= active[s]
  BY <1>1
<1>5a. active' = [active EXCEPT ![s] = f]
  <2>1. CASE isActive
    BY <2>1 DEF Issue
  <2>2. CASE ~ isActive
    BY <1>1, <2>2 DEF Issue
  <2> QED BY <2>1, <2>2
<1>6. /\ tokens' = [tokens EXCEPT ![s] = @ \cup {[expires |-> d, check |-> check]}]
      /\ access' = [access EXCEPT ![s] = a]
  BY DEF Issue, d, l
<1>7. a = access[s] \/ (a <= at + AccessTTL /\ a <= d)
  BY <1>3, <1>4 DEF a
<1> HIDE DEF a, f
<1>8. tokens \in [SessionIds -> SUBSET Tokens] /\ access \in [SessionIds -> Nat]
  BY DEF TypeOK
<1>9. [expires |-> d, check |-> check] \in Tokens
  BY <1>2 DEF Tokens
<1>10. /\ tokens' \in [SessionIds -> SUBSET Tokens]
       /\ tokens'[s] = tokens[s] \cup {[expires |-> d, check |-> check]}
       /\ \A q \in SessionIds \ {s} : tokens'[q] = tokens[q]
  BY <1>6, <1>8, <1>9
<1>11. /\ access' \in [SessionIds -> Nat] /\ access'[s] = a
       /\ active' \in [SessionIds -> Nat] /\ active'[s] = f
       /\ \A q \in SessionIds \ {s} : access'[q] = access[q] /\ active'[q] = active[q]
  BY <1>1, <1>4, <1>5, <1>5a, <1>6, <1>8
<1>12. \A t \in tokens'[s] \ tokens[s] : t.check = check /\ t.expires = d
  BY <1>10
<1> QED BY <1>1, <1>2, <1>4, <1>5, <1>7, <1>10, <1>11, <1>12

\* Which sessions a key names does not change, and none starts that it names
\* once all of those it may name have started.
LEMMA KeysStable ==
  ASSUME TypeOK, TypeOK', now <= now',
         \A s \in SessionIds : session[s] # None => session'[s] = session[s],
         \A s \in SessionIds : session[s] = None /\ session'[s] # None
                                 /\ session'[s].sid # None => gone[session'[s].sid] = 0,
         \A x \in ProviderSids : gone[x] # 0 => gone'[x] = gone[x],
         NEW k \in SessionKeys
  PROVE  /\ Over(k) => Over(k)'
         /\ \A v \in Nat : EntryOf(k, v) => EntryOf(k, v)'
<1>1. Closed(k) => Closed(k)'
  BY DEF Closed
<1>2. ASSUME Closed(k), NEW s \in SessionIds, session'[s] # None, Names(k, s)'
      PROVE  session[s] # None /\ session'[s] = session[s] /\ Names(k, s)
  <2>1. CASE session[s] # None
    BY <1>2, <2>1 DEF Names
  <2>2. CASE session[s] = None
    <3>1. k # <<"ksid", s>>
      BY <1>2, <2>2 DEF Closed
    <3>2. session'[s].sid # None /\ k = <<"sid", session'[s].sid>>
      BY <1>2, <3>1 DEF Names
    <3>3. session'[s].sid \in ProviderSids
      BY <1>2, <3>2 DEF TypeOK, SessionRecords
    <3> QED BY <1>2, <2>2, <3>2, <3>3 DEF Closed
  <2> QED BY <2>1, <2>2
<1>3. Over(k) => Over(k)'
  <2>1. \A s \in SessionIds : session[s] # None => session[s].authTime \in Nat
    BY DEF TypeOK, SessionRecords
  <2>2. now \in Nat /\ now' \in Nat /\ SessionTTL \in Nat
    BY LifetimesAssumption DEF TypeOK
  <2> QED BY <1>1, <1>2, <2>1, <2>2 DEF Over, SessionEnd
<1>4. \A v \in Nat : EntryOf(k, v) => EntryOf(k, v)'
  BY <1>1, <1>2 DEF EntryOf
<1> QED BY <1>3, <1>4

\* A step that leaves the record keeps it good, if what it posts is good.
LEMMA EntriesKept ==
  ASSUME Inductive, TypeOK', UNCHANGED recordVars, now <= now',
         \A e \in posted' : e \in posted \/ e.key = <<"sub">> \/ EntryOf(e.key, e.at)',
         \A s \in SessionIds : session[s] # None => session'[s] = session[s],
         \A s \in SessionIds : session[s] = None /\ session'[s] # None
                                 /\ session'[s].sid # None => gone[session'[s].sid] = 0,
         \A x \in ProviderSids : gone[x] # 0 => gone'[x] = gone[x],
         NEW k \in SessionKeys
  PROVE  (EntriesGood(k) /\ RecordGood(k))' /\ \A r \in Replicas : OwnEntryGood(r, k)'
<1>1. UNCHANGED <<cm, queue, entries, pending, recording, recorded>>
      /\ TypeOK
  BY DEF recordVars, Inductive
<1>2. /\ Over(k) => Over(k)'
      /\ \A v \in Nat : EntryOf(k, v) => EntryOf(k, v)'
  BY <1>1, KeysStable
<1>3. /\ EntriesGood(k) /\ RecordGood(k)
      /\ \A r \in Replicas : OwnEntryGood(r, k)
  BY DEF Inductive
<1>4. EntriesGood(k)'
  <2>1. k \in Keys /\ k # <<"sub">> /\ cm[k] \in Nat
    BY <1>1 DEF SessionKeys, TypeOK
  <2>2. ASSUME NEW r \in Replicas
        PROVE  /\ entries[r][k] \in Nat
               /\ \A i \in 1 .. Len(queue[r]) : queue[r][i].data[k] \in Nat
               /\ recording[r] # None => recording[r].at \in Nat
    <3>1. entries[r] \in [Keys -> Nat] /\ recording[r] \in Entries \cup {None}
          /\ queue[r] \in Seq(Versions)
      BY <1>1 DEF TypeOK
    <3>2. \A i \in 1 .. Len(queue[r]) : queue[r][i] \in Versions
      BY <3>1
    <3> QED BY <2>1, <3>1, <3>2 DEF Versions, Entries
  <2>3. \A e \in posted' : e.key = k => EntryOf(k, e.at)'
    <3>1. \A e \in posted : e.at \in Nat
      BY <1>1 DEF TypeOK, Entries
    <3> QED BY <1>2, <1>3, <2>1, <3>1 DEF EntriesGood
  <2> QED BY <1>1, <1>2, <1>3, <2>1, <2>2, <2>3 DEF EntriesGood
<1>5. RecordGood(k)'
  BY <1>1, <1>2, <1>3 DEF RecordGood, Recorded
<1>6. \A r \in Replicas : OwnEntryGood(r, k)'
  BY <1>1, <1>2, <1>3 DEF OwnEntryGood
<1> QED BY <1>4, <1>5, <1>6

\* A step that leaves the record and what is posted, at the same time.
LEMMA RecordKept ==
  ASSUME Inductive, TypeOK', UNCHANGED <<now, recordVars, posted>>,
         \A s \in SessionIds : session[s] # None => session'[s] = session[s],
         \A s \in SessionIds : session[s] = None /\ session'[s] # None
                                 /\ session'[s].sid # None => gone[session'[s].sid] = 0,
         \A x \in ProviderSids : gone[x] # 0 => gone'[x] = gone[x],
         \A s \in SessionIds : TokensGood(s)'
  PROVE  Inductive'
<1>1. now <= now' /\ \A e \in posted' : e \in posted
  BY DEF Inductive, TypeOK
<1>2. \A k \in SessionKeys :
        (EntriesGood(k) /\ RecordGood(k))' /\ \A r \in Replicas : OwnEntryGood(r, k)'
  BY <1>1, EntriesKept
<1>3. \A r \in Replicas : QueueGood(r)'
  BY DEF Inductive, QueueGood, recordVars
<1> QED BY <1>2, <1>3 DEF Inductive

\* A step that leaves the sessions, the clock and the provider keeps the tokens
\* good, and what is over or an entry stays that.
LEMMA SessionsKept ==
  ASSUME Inductive, UNCHANGED <<now, sessionVars, gone>>
  PROVE  /\ \A s \in SessionIds : TokensGood(s)'
         /\ \A k \in SessionKeys :
              (Over(k)' <=> Over(k)) /\ \A v : EntryOf(k, v)' <=> EntryOf(k, v)
<1>1. UNCHANGED <<now, session, tokens, access, flight, active, gone>>
  BY DEF sessionVars
<1> QED
  BY <1>1 DEF Inductive, TokensGood, End, SessionEnd, Over, EntryOf, Closed, Names

-------------------------------------------------------------------------------
(* Every step keeps the inductive invariant: the tokens.                         *)

\* The end of a session is a time, and the least of two.
LEMMA EndIs ==
  ASSUME TypeOK, NEW s \in SessionIds, session[s] # None
  PROVE  /\ session[s] \in SessionRecords /\ SessionEnd(s) \in Nat /\ End(s) \in Nat
         /\ End(s) <= SessionEnd(s) /\ End(s) <= active[s] + IdleTTL
         /\ \A t \in Int : t <= SessionEnd(s) /\ t <= active[s] + IdleTTL => t <= End(s)
<1>1. session[s] \in SessionRecords
  BY DEF TypeOK
<1>2. SessionEnd(s) \in Nat /\ active[s] + IdleTTL \in Nat
  BY <1>1, LifetimesAssumption DEF SessionEnd, SessionRecords, TypeOK
<1> QED BY <1>1, <1>2 DEF End, Least

\* What is left of another session stays good.
LEMMA OtherSession ==
  ASSUME NEW s \in SessionIds, TokensGood(s), UNCHANGED now,
         session'[s] = session[s], tokens'[s] = tokens[s], access'[s] = access[s],
         flight'[s] = flight[s], active'[s] = active[s], gone'[s] = gone[s]
  PROVE  TokensGood(s)'
BY DEF TokensGood, End, SessionEnd

\* A session starts with one token, of which no other is left.
LEMMA StartInductive ==
  ASSUME Inductive, NEW s \in SessionIds, NEW provider \in {"admin", "oidc"},
         NEW sid \in ProviderSids \cup {None}, NEW checked \in BOOLEAN,
         sid # None => gone[sid] = 0,
         Start(s, provider, sid, checked)
  PROVE  Inductive'
<1> DEFINE record == [provider |-> provider, sid |-> sid, authTime |-> now,
                      checked |-> checked]
           check == IF checked THEN now + CheckEvery ELSE 0
<1>1. /\ TypeOK /\ TokensGood(s) /\ session[s] = None /\ now \in Nat \ {0}
      /\ CheckEvery \in Nat
      /\ UNCHANGED <<now, flight, cm, queue, entries, pending, recording, recorded,
                     posted, gone, edits>>
  BY LifetimesAssumption DEF Inductive, TypeOK, Start, recordVars
<1>2. record \in SessionRecords /\ record # None
  BY <1>1, IdsAssumption DEF SessionRecords
<1>3. session' = [session EXCEPT ![s] = record]
  BY DEF Start
<1>4. check \in Nat /\ check <= now + CheckEvery /\ (checked => check # 0)
  BY <1>1
<1>5. /\ tokens' \in [SessionIds -> SUBSET Tokens]
      /\ access' \in [SessionIds -> Nat] /\ active' \in [SessionIds -> Nat]
      /\ \A q \in SessionIds \ {s} : /\ tokens'[q] = tokens[q]
                                     /\ access'[q] = access[q]
                                     /\ active'[q] = active[q]
      /\ active[s] <= active'[s]
      /\ \A t \in tokens'[s] \ tokens[s] :
           /\ t.check = check
           /\ t.expires <= now + SessionTTL
           /\ t.expires <= active'[s] + IdleTTL
      /\ \/ access'[s] = access[s]
         \/ /\ access'[s] <= now + AccessTTL /\ access'[s] <= now + SessionTTL
            /\ access'[s] <= active'[s] + IdleTTL
  <2>1. Issue(s, now, now, 0, check, TRUE)
    BY DEF Start
  <2> HIDE DEF check
  <2>2. now \in Nat /\ 0 \in Nat /\ TRUE \in BOOLEAN /\ check \in Nat /\ TypeOK
    BY <1>1, <1>4
  <2> QED BY <2>1, <2>2, IssueGives
<1> HIDE DEF check
<1>7. TypeOK'
  BY <1>1, <1>2, <1>3, <1>5 DEF TypeOK
<1>8. /\ session'[s] = record /\ tokens[s] = {} /\ access[s] = 0
      /\ flight'[s] = None /\ gone'[s] = 0
      /\ access'[s] \in Nat /\ active'[s] \in Nat /\ tokens'[s] \subseteq Tokens
  BY <1>1, <1>3, <1>5 DEF TypeOK, TokensGood
<1>9. TokensGood(s)'
  <2>1. SessionEnd(s)' = now + SessionTTL
    BY <1>1, <1>8 DEF SessionEnd
  <2>2. End(s)' \in Nat /\ \A t \in Nat : t <= now + SessionTTL /\ t <= active'[s] + IdleTTL
                                            => t <= End(s)'
    BY <1>1, <1>8, <2>1, LifetimesAssumption DEF End, Least
  <2>3. access'[s] <= End(s)' /\ access'[s] <= now + AccessTTL
    BY <1>1, <1>5, <1>8, <2>2, LifetimesAssumption
  <2>4. \A t \in tokens'[s] : t.check = check /\ t.expires <= End(s)'
    BY <1>5, <1>8, <2>2 DEF Tokens
  <2>5. record.authTime = now /\ record.checked = checked
    OBVIOUS
  <2> HIDE DEF record
  <2> QED BY <1>1, <1>2, <1>4, <1>8, <2>3, <2>4, <2>5 DEF TokensGood
<1>10. \A q \in SessionIds : TokensGood(q)'
  <2>1. ASSUME NEW q \in SessionIds, q # s
        PROVE  TokensGood(q)'
    <3>1. /\ session'[q] = session[q] /\ tokens'[q] = tokens[q] /\ access'[q] = access[q]
          /\ active'[q] = active[q]
      BY <1>1, <1>3, <1>5, <2>1 DEF TypeOK
    <3> QED BY <1>1, <3>1, OtherSession DEF Inductive
  <2> QED BY <1>9, <2>1
<1>11. /\ \A q \in SessionIds : session[q] # None => session'[q] = session[q]
       /\ \A q \in SessionIds : session[q] = None /\ session'[q] # None
                                  /\ session'[q].sid # None => gone[session'[q].sid] = 0
  BY <1>1, <1>3 DEF TypeOK
<1> QED BY <1>1, <1>7, <1>10, <1>11, RecordKept DEF recordVars

LEMMA SignInInductive ==
  ASSUME Inductive, NEW s \in SessionIds, SignInAdmin(s) \/ SignInOIDC(s)
  PROVE  Inductive'
<1>1. CASE SignInAdmin(s)
  BY <1>1, StartInductive DEF SignInAdmin
<1>2. CASE SignInOIDC(s)
  <2>1. PICK in \in SignIns : /\ in.sid # None => gone[in.sid] = 0
                              /\ Start(s, "oidc", in.sid, in.checked)
    BY <1>2 DEF SignInOIDC
  <2>2. in.sid \in ProviderSids \cup {None} /\ in.checked \in BOOLEAN
    BY IdsAssumption
  <2> QED BY <2>1, <2>2, StartInductive
<1> QED BY <1>1, <1>2

\* A step that issues tokens of a session for another of its tokens.
LEMMA ReissueInductive ==
  ASSUME Inductive, NEW s \in SessionIds, session[s] # None,
         NEW at \in Nat, at <= now, NEW previous \in Nat, previous <= End(s),
         NEW check \in Nat, check <= now + CheckEvery, session[s].checked => check # 0,
         gone[s] # 0 => /\ check <= gone[s] + CheckEvery
                        /\ at <= gone[s] + CheckEvery,
         NEW isActive \in BOOLEAN,
         Issue(s, at, session[s].authTime, previous, check, isActive),
         UNCHANGED <<now, session, recordVars, posted, gone>>, edits' \in Nat,
         flight' \in [SessionIds -> Flights \cup {None}],
         \A q \in SessionIds : flight'[q] = flight[q] \/ flight'[q] = None
  PROVE  Inductive'
<1>1. /\ TypeOK /\ TokensGood(s) /\ session[s] \in SessionRecords /\ now \in Nat
      /\ session[s].authTime \in Nat /\ access[s] \in Nat /\ active[s] \in Nat
      /\ UNCHANGED <<cm, queue, entries, pending, recording, recorded>>
  BY EndIs DEF Inductive, TypeOK, SessionRecords, recordVars
<1>2. /\ SessionEnd(s) \in Nat /\ End(s) \in Nat /\ End(s) <= SessionEnd(s)
      /\ End(s) <= active[s] + IdleTTL
      /\ \A t \in Int : t <= SessionEnd(s) /\ t <= active[s] + IdleTTL => t <= End(s)
  BY <1>1, EndIs
<1>3. /\ tokens' \in [SessionIds -> SUBSET Tokens]
      /\ access' \in [SessionIds -> Nat] /\ active' \in [SessionIds -> Nat]
      /\ \A q \in SessionIds \ {s} : /\ tokens'[q] = tokens[q]
                                     /\ access'[q] = access[q]
                                     /\ active'[q] = active[q]
      /\ active[s] <= active'[s]
      /\ \A t \in tokens'[s] \ tokens[s] :
           /\ t.check = check
           /\ t.expires <= session[s].authTime + SessionTTL
           /\ t.expires <= active'[s] + IdleTTL
      /\ \/ access'[s] = access[s]
         \/ /\ access'[s] <= at + AccessTTL
            /\ access'[s] <= session[s].authTime + SessionTTL
            /\ access'[s] <= active'[s] + IdleTTL
  <2>1. isActive \/ previous <= active[s] + IdleTTL
    BY <1>1, <1>2, LifetimesAssumption
  <2> DEFINE authTime == session[s].authTime
  <2>2. authTime \in Nat /\ TypeOK /\ Issue(s, at, authTime, previous, check, isActive)
    BY <1>1
  <2> HIDE DEF authTime
  <2>3. /\ tokens' \in [SessionIds -> SUBSET Tokens]
        /\ access' \in [SessionIds -> Nat] /\ active' \in [SessionIds -> Nat]
        /\ \A q \in SessionIds \ {s} : /\ tokens'[q] = tokens[q]
                                       /\ access'[q] = access[q]
                                       /\ active'[q] = active[q]
        /\ active[s] <= active'[s]
        /\ \A t \in tokens'[s] \ tokens[s] :
             /\ t.check = check
             /\ t.expires <= authTime + SessionTTL
             /\ t.expires <= active'[s] + IdleTTL
        /\ \/ access'[s] = access[s]
           \/ /\ access'[s] <= at + AccessTTL
              /\ access'[s] <= authTime + SessionTTL
              /\ access'[s] <= active'[s] + IdleTTL
    BY <2>1, <2>2, IssueGives
  <2> QED BY <2>3 DEF authTime
<1>5. TypeOK'
  BY <1>1, <1>3 DEF TypeOK
<1>6. /\ session'[s] = session[s] /\ gone'[s] = gone[s] /\ gone[s] \in Nat
      /\ access'[s] \in Nat /\ active'[s] \in Nat /\ tokens'[s] \subseteq Tokens
  BY <1>1, <1>3 DEF TypeOK
<1>7. /\ SessionEnd(s) = session[s].authTime + SessionTTL
      /\ End(s)' \in Nat /\ End(s) <= End(s)'
      /\ \A t \in Nat : t <= SessionEnd(s) /\ t <= active'[s] + IdleTTL => t <= End(s)'
  <2>1. SessionEnd(s)' = SessionEnd(s) /\ SessionEnd(s) = session[s].authTime + SessionTTL
    BY <1>6 DEF SessionEnd
  <2> QED BY <1>1, <1>2, <1>3, <1>6, <2>1, LifetimesAssumption DEF End, Least
<1>8. TokensGood(s)'
  <2>1. /\ access[s] <= End(s) /\ access[s] <= now + AccessTTL
        /\ gone[s] # 0 => access[s] <= gone[s] + CheckEvery + AccessTTL
    BY <1>1 DEF TokensGood
  <2>3. /\ access'[s] <= End(s)' /\ access'[s] <= now + AccessTTL
        /\ gone[s] # 0 => access'[s] <= gone[s] + CheckEvery + AccessTTL
    BY <1>1, <1>2, <1>3, <1>6, <1>7, <2>1, LifetimesAssumption
  <2>4. \A t \in tokens'[s] :
          /\ t.expires <= End(s)' /\ t.check <= now + CheckEvery
          /\ session[s].checked => t.check # 0
          /\ gone[s] # 0 => t.check <= gone[s] + CheckEvery
    <3> SUFFICES ASSUME NEW t \in tokens'[s]
                 PROVE  /\ t.expires <= End(s)' /\ t.check <= now + CheckEvery
                        /\ session[s].checked => t.check # 0
                        /\ gone[s] # 0 => t.check <= gone[s] + CheckEvery
      OBVIOUS
    <3>1. t.expires \in Nat
      BY <1>6 DEF Tokens
    <3>2. CASE t \in tokens[s]
      BY <1>1, <1>2, <1>7, <3>1, <3>2 DEF TokensGood
    <3>3. CASE t \notin tokens[s]
      BY <1>3, <1>7, <3>1, <3>3
    <3> QED BY <3>2, <3>3
  <2>5. flight'[s] # None => flight'[s].at <= now /\ flight'[s].token.expires <= End(s)'
    <3>1. flight[s] # None => flight[s].token.expires \in Nat
      BY <1>1 DEF TypeOK, Flights, Tokens
    <3> QED BY <1>1, <1>2, <1>7, <3>1 DEF TokensGood
  <2> QED BY <1>1, <1>6, <2>3, <2>4, <2>5 DEF TokensGood
<1>9. \A q \in SessionIds : TokensGood(q)'
  <2>1. ASSUME NEW q \in SessionIds, q # s
        PROVE  TokensGood(q)'
    <3>1. /\ session'[q] = session[q] /\ tokens'[q] = tokens[q] /\ access'[q] = access[q]
          /\ active'[q] = active[q] /\ gone'[q] = gone[q] /\ UNCHANGED now
      BY <1>1, <1>3, <2>1 DEF TypeOK
    <3>2. TokensGood(q)
      BY DEF Inductive
    <3> QED BY <3>1, <3>2 DEF TokensGood, End, SessionEnd
  <2> QED BY <1>8, <2>1
<1> QED BY <1>1, <1>5, <1>9, RecordKept DEF recordVars

\* A refresh issues tokens now, or waits for the provider with a token that is.
LEMMA RefreshInductive ==
  ASSUME Inductive, NEW r \in Replicas, NEW s \in SessionIds, Refresh(r, s)
  PROVE  Inductive'
<1>1. /\ TypeOK /\ TokensGood(s) /\ now \in Nat \ {0} /\ session[s] # None
      /\ session[s].authTime \in Nat
      /\ gone[s] \in Nat /\ edits \in Nat /\ CheckEvery \in Nat
      /\ flight \in [SessionIds -> Flights \cup {None}]
      /\ UNCHANGED <<now, session, recordVars, posted, gone, edits>>
  BY EndIs, LifetimesAssumption DEF Refresh, Inductive, TypeOK, SessionRecords
<1>2. PICK t \in Valid(s), isActive \in BOOLEAN :
        IF t.check # 0 /\ now >= t.check
        THEN /\ flight' = [flight EXCEPT ![s] = [at |-> now, token |-> t, active |-> isActive]]
             /\ UNCHANGED <<tokens, access, active>>
        ELSE /\ Issue(s, now, session[s].authTime, t.expires, t.check, isActive)
             /\ UNCHANGED flight
  BY DEF Refresh
<1>3. t \in tokens[s] /\ t \in Tokens /\ t.expires \in Nat /\ t.check \in Nat
  BY <1>1, <1>2 DEF Valid, TypeOK, Tokens
<1>4. CASE t.check # 0 /\ now >= t.check
  <2> DEFINE waits == [at |-> now, token |-> t, active |-> isActive]
  <2>1. waits \in Flights /\ waits.at = now /\ waits.token = t
    BY <1>1, <1>3 DEF Flights
  <2> HIDE DEF waits
  <2>2. flight' = [flight EXCEPT ![s] = waits] /\ UNCHANGED <<tokens, access, active>>
    BY <1>2, <1>4 DEF waits
  <2>3. TypeOK'
    BY <1>1, <2>1, <2>2 DEF TypeOK, recordVars
  <2>4. TokensGood(s)'
    <3>1. flight'[s] = waits
      BY <1>1, <2>2
    <3> QED BY <1>1, <1>3, <2>1, <2>2, <3>1 DEF TokensGood, End, SessionEnd
  <2>5. \A q \in SessionIds : TokensGood(q)'
    <3>1. ASSUME NEW q \in SessionIds, q # s
          PROVE  TokensGood(q)'
      <4>1. flight'[q] = flight[q]
        BY <1>1, <2>2, <3>1
      <4> QED BY <1>1, <2>2, <4>1, OtherSession DEF Inductive
    <3> QED BY <2>4, <3>1
  <2> QED BY <1>1, <2>3, <2>5, RecordKept
<1>5. CASE ~ (t.check # 0 /\ now >= t.check)
  <2>1. /\ t.expires <= End(s) /\ t.check <= now + CheckEvery
        /\ session[s].checked => t.check # 0
        /\ gone[s] # 0 => t.check <= gone[s] + CheckEvery /\ session[s].checked
    BY <1>1, <1>3 DEF TokensGood
  <2>2. gone[s] # 0 => now <= gone[s] + CheckEvery
    BY <1>1, <1>3, <1>5, <2>1
  <2> DEFINE previous == t.expires
             check == t.check
  <2>3. /\ previous \in Nat /\ check \in Nat /\ isActive \in BOOLEAN /\ now \in Nat
        /\ now <= now
        /\ Issue(s, now, session[s].authTime, previous, check, isActive)
        /\ previous <= End(s) /\ check <= now + CheckEvery
        /\ session[s].checked => check # 0
        /\ gone[s] # 0 => check <= gone[s] + CheckEvery /\ now <= gone[s] + CheckEvery
    BY <1>1, <1>2, <1>3, <1>5, <2>1, <2>2
  <2>4. /\ flight' \in [SessionIds -> Flights \cup {None}] /\ edits' \in Nat
        /\ \A q \in SessionIds : flight'[q] = flight[q] \/ flight'[q] = None
        /\ UNCHANGED <<now, session, recordVars, posted, gone>>
    BY <1>1, <1>2, <1>5
  <2> HIDE DEF previous, check
  <2> QED BY <1>1, <2>3, <2>4, ReissueInductive
<1> QED BY <1>4, <1>5

\* The provider vouches for a session until its grant ends.
LEMMA ProviderAnswersInductive ==
  ASSUME Inductive, NEW s \in SessionIds, ProviderAnswers(s)
  PROVE  Inductive'
<1>1. /\ TypeOK /\ TokensGood(s) /\ now \in Nat \ {0} /\ flight[s] # None
      /\ session[s] # None /\ CheckEvery \in Nat
      /\ flight \in [SessionIds -> Flights \cup {None}]
      /\ UNCHANGED <<now, session, recordVars, posted, gone>>
      /\ flight' = [flight EXCEPT ![s] = None]
  BY LifetimesAssumption DEF ProviderAnswers, Inductive, TypeOK, TokensGood
<1>2. edits' \in Nat
  <2>1. edits' \in {edits, edits + 1}
    BY DEF ProviderAnswers, Budget
  <2> QED BY <1>1, <2>1 DEF TypeOK
<1>3. /\ flight' \in [SessionIds -> Flights \cup {None}]
      /\ \A q \in SessionIds : flight'[q] = flight[q] \/ flight'[q] = None
  BY <1>1
<1>4. CASE /\ gone[s] = 0
           /\ Issue(s, flight[s].at, session[s].authTime, flight[s].token.expires,
                    now + CheckEvery, flight[s].active)
  <2> DEFINE at == flight[s].at
             previous == flight[s].token.expires
             check == now + CheckEvery
             isActive == flight[s].active
  <2>1. flight[s] \in Flights
    BY <1>1
  <2>2. /\ at \in Nat /\ previous \in Nat /\ check \in Nat /\ isActive \in BOOLEAN
        /\ at <= now /\ previous <= End(s) /\ check <= now + CheckEvery /\ check # 0
    BY <1>1, <2>1 DEF Flights, Tokens, TokensGood
  <2>3. Issue(s, at, session[s].authTime, previous, check, isActive)
    BY <1>4
  <2>4. /\ gone[s] # 0 => check <= gone[s] + CheckEvery /\ at <= gone[s] + CheckEvery
        /\ session[s].checked => check # 0
    BY <1>4, <2>2
  <2> HIDE DEF at, previous, check, isActive
  <2> QED BY <1>1, <1>2, <1>3, <2>2, <2>3, <2>4, ReissueInductive
<1>5. CASE UNCHANGED <<tokens, access, active>>
  <2>1. TypeOK'
    BY <1>1, <1>2, <1>3, <1>5 DEF TypeOK, recordVars
  <2>2. \A q \in SessionIds : TokensGood(q)'
    BY <1>1, <1>3, <1>5 DEF Inductive, TokensGood, End, SessionEnd
  <2> QED BY <1>1, <2>1, <2>2, RecordKept
<1> QED BY <1>4, <1>5 DEF ProviderAnswers

\* When its grant ends, what was issued for a session is checked in time.
LEMMA GrantEndsInductive ==
  ASSUME Inductive, NEW s \in SessionIds, GrantEnds(s)
  PROVE  Inductive'
<1>1. /\ TypeOK /\ TokensGood(s) /\ now \in Nat \ {0} /\ gone[s] = 0
      /\ session[s] # None /\ session[s].checked /\ CheckEvery \in Nat /\ AccessTTL \in Nat
      /\ s \notin ProviderSids
      /\ gone \in [ProviderSids \cup SessionIds -> Nat]
      /\ access[s] \in Nat
      /\ UNCHANGED <<now, sessionVars, recordVars, posted>>
      /\ gone' = [gone EXCEPT ![s] = now]
  BY LifetimesAssumption, IdsAssumption DEF GrantEnds, Inductive, TypeOK
<1>2. UNCHANGED <<session, tokens, access, flight, active>> /\ edits' \in Nat
  BY <1>1 DEF sessionVars, TypeOK, GrantEnds, Budget
<1>3. TypeOK'
  BY <1>1, <1>2 DEF TypeOK, recordVars
<1>4. TokensGood(s)'
  <2>1. gone'[s] = now
    BY <1>1
  <2>2. access[s] <= now + CheckEvery + AccessTTL
    BY <1>1 DEF TokensGood
  <2> QED BY <1>1, <1>2, <2>1, <2>2 DEF TokensGood, End, SessionEnd
<1>5. \A q \in SessionIds : TokensGood(q)'
  <2>1. ASSUME NEW q \in SessionIds, q # s
        PROVE  TokensGood(q)'
    <3>1. gone'[q] = gone[q]
      BY <1>1, <2>1
    <3> QED BY <1>1, <1>2, <3>1, OtherSession DEF Inductive
  <2> QED BY <1>4, <2>1
<1>6. \A x \in ProviderSids : gone'[x] = gone[x]
  BY <1>1
<1> QED BY <1>1, <1>2, <1>3, <1>5, <1>6, RecordKept

\* Keys of different kinds, or of different sessions, differ.
LEMMA KeysDiffer ==
  ASSUME NEW s, NEW q
  PROVE  /\ <<"ksid", s>> # <<"sid", q>> /\ <<"ksid", s>> # <<"sub">>
         /\ <<"sid", s>> # <<"sub">>
         /\ <<"ksid", s>> = <<"ksid", q>> => s = q
         /\ <<"sid", s>> = <<"sid", q>> => s = q
OBVIOUS

\* The provider posts the end of a session it has, of which every one of Kokumi
\* has started.
LEMMA ProviderLogoutInductive ==
  ASSUME Inductive, ProviderLogout
  PROVE  Inductive'
<1>1. /\ TypeOK /\ now \in Nat \ {0}
      /\ gone \in [ProviderSids \cup SessionIds -> Nat]
      /\ UNCHANGED <<now, sessionVars, recordVars>>
      /\ UNCHANGED <<session, tokens, access, flight, active>>
      /\ UNCHANGED <<cm, queue, entries, pending, recording, recorded>>
      /\ edits' \in Nat
  BY DEF ProviderLogout, Budget, Inductive, TypeOK, sessionVars, recordVars
<1>2. \A s \in SessionIds : session[s] # None => session[s].authTime <= now
  BY DEF Inductive, TokensGood
<1>3. /\ gone' \in [ProviderSids \cup SessionIds -> Nat]
      /\ \A x \in ProviderSids : gone[x] # 0 => gone'[x] = gone[x]
      /\ \A s \in SessionIds : gone'[s] = gone[s]
      /\ posted' \subseteq Entries
      /\ \A e \in posted' : e.key = <<"sub">> \/ EntryOf(e.key, e.at)'
  <2>1. CASE posted' = {[key |-> <<"sub">>, at |-> now]} /\ UNCHANGED gone
    BY <1>1, <2>1 DEF Entries, Keys
  <2>2. CASE \E p \in ProviderSids :
               /\ gone[p] = 0
               /\ posted' = {[key |-> <<"sid", p>>, at |-> now]}
               /\ gone' = [gone EXCEPT ![p] = now]
    <3>1. PICK p \in ProviderSids :
            /\ gone[p] = 0
            /\ posted' = {[key |-> <<"sid", p>>, at |-> now]}
            /\ gone' = [gone EXCEPT ![p] = now]
      BY <2>2
    <3>2. /\ gone' \in [ProviderSids \cup SessionIds -> Nat] /\ gone'[p] = now
          /\ \A x \in ProviderSids \cup SessionIds : x # p => gone'[x] = gone[x]
      BY <1>1, <3>1
    <3>3. p \notin SessionIds
      BY IdsAssumption
    <3>4. EntryOf(<<"sid", p>>, now)'
      BY <1>1, <1>2, <3>2, KeysDiffer DEF EntryOf, Closed
    <3>5. [key |-> <<"sid", p>>, at |-> now] \in Entries
      BY <1>1 DEF Entries, Keys
    <3> QED BY <1>1, <3>1, <3>2, <3>3, <3>4, <3>5
  <2> QED BY <2>1, <2>2 DEF ProviderLogout
<1>4. TypeOK'
  BY <1>1, <1>3 DEF TypeOK
<1>5. \A s \in SessionIds : TokensGood(s)'
  BY <1>1, <1>3, OtherSession DEF Inductive
<1>6. \A k \in SessionKeys :
        (EntriesGood(k) /\ RecordGood(k))' /\ \A r \in Replicas : OwnEntryGood(r, k)'
  <2>1. now <= now'
    BY <1>1
  <2> QED BY <1>1, <1>3, <1>4, <2>1, EntriesKept
<1>7. \A r \in Replicas : QueueGood(r)'
  BY <1>1 DEF Inductive, QueueGood
<1> QED BY <1>4, <1>5, <1>6, <1>7 DEF Inductive

\* A tick takes the tokens that expire; a watch was not longer than one.
LEMMA TickInductive ==
  ASSUME Inductive, Tick
  PROVE  Inductive'
<1>1. /\ TypeOK /\ now \in Nat \ {0} /\ now' = now + 1
      /\ UNCHANGED <<session, access, flight, active, recordVars, posted, gone, edits>>
      /\ UNCHANGED <<cm, queue, entries, pending, recording, recorded>>
      /\ AccessTTL \in Nat /\ CheckEvery \in Nat
  BY LifetimesAssumption DEF Tick, Inductive, TypeOK, recordVars
<1>2. /\ tokens' \in [SessionIds -> SUBSET Tokens]
      /\ \A s \in SessionIds : tokens'[s] \subseteq tokens[s]
  BY <1>1 DEF Tick, TypeOK
<1>3. TypeOK'
  BY <1>1, <1>2 DEF TypeOK
<1>4. ASSUME NEW s \in SessionIds
      PROVE  TokensGood(s)'
  <2>1. TokensGood(s) /\ access[s] \in Nat
    BY <1>1 DEF Inductive, TypeOK
  <2>2. \A t \in tokens[s] : t.check \in Nat
    BY <1>1 DEF TypeOK, Tokens
  <2>3. session[s] # None => session[s].authTime \in Nat
    BY <1>1 DEF TypeOK, SessionRecords
  <2>4. flight[s] # None => flight[s].at \in Nat
    BY <1>1 DEF TypeOK, Flights
  <2>5. End(s)' = End(s)
    BY <1>1 DEF End, SessionEnd
  <2> QED BY <1>1, <1>2, <2>1, <2>2, <2>3, <2>4, <2>5 DEF TokensGood
<1>5. \A k \in SessionKeys :
        (EntriesGood(k) /\ RecordGood(k))' /\ \A r \in Replicas : OwnEntryGood(r, k)'
  <2>1. now <= now' /\ \A e \in posted' : e \in posted
    BY <1>1
  <2> QED BY <1>1, <1>3, <2>1, EntriesKept
<1>6. ASSUME NEW r \in Replicas
      PROVE  QueueGood(r)'
  <2>1. QueueGood(r) /\ \A i \in 1 .. Len(queue[r]) : queue[r][i].at = now
    BY DEF Inductive, Tick
  <2> QED BY <1>1, <2>1 DEF QueueGood
<1> QED BY <1>3, <1>4, <1>5, <1>6 DEF Inductive

-------------------------------------------------------------------------------
(* Every step keeps the inductive invariant: the record.                         *)

\* A patch makes one new version, which every watch is to deliver, or none.
LEMMA PatchGives ==
  ASSUME Inductive, NEW keys \in SUBSET Keys, NEW at \in Nat, Patch(keys, at)
  PROVE  /\ cm' \in [Keys -> Nat] /\ queue' \in [Replicas -> Seq(Versions)]
         /\ \A k \in keys : cm'[k] = at
         /\ \A k \in Keys \ keys : cm'[k] = cm[k]
         /\ \A r \in Replicas :
              \/ cm' = cm /\ queue'[r] = queue[r]
              \/ /\ Len(queue'[r]) = Len(queue[r]) + 1
                 /\ \A i \in 1 .. Len(queue[r]) : queue'[r][i] = queue[r][i]
                 /\ queue'[r][Len(queue[r]) + 1] = [data |-> cm', at |-> now]
<1> DEFINE merged == [k \in Keys |-> IF k \in keys THEN at ELSE cm[k]]
           version == [data |-> merged, at |-> now]
<1>1. /\ cm \in [Keys -> Nat] /\ queue \in [Replicas -> Seq(Versions)] /\ now \in Nat \ {0}
  BY DEF Inductive, TypeOK
<1>2. /\ merged \in [Keys -> Nat]
      /\ \A k \in keys : merged[k] = at
      /\ \A k \in Keys \ keys : merged[k] = cm[k]
  BY <1>1
<1>3. \/ merged = cm /\ UNCHANGED <<cm, queue>>
      \/ cm' = merged /\ queue' = [r \in Replicas |-> Append(queue[r], version)]
  BY DEF Patch
<1> HIDE DEF merged
<1>4. version \in Versions
  BY <1>1, <1>2 DEF Versions
<1>5. CASE merged = cm /\ UNCHANGED <<cm, queue>>
  BY <1>1, <1>2, <1>5
<1>6. CASE cm' = merged /\ queue' = [r \in Replicas |-> Append(queue[r], version)]
  <2>1. version = [data |-> cm', at |-> now]
    BY <1>6
  <2> HIDE DEF version
  <2>2. ASSUME NEW r \in Replicas
        PROVE  /\ queue'[r] \in Seq(Versions)
               /\ Len(queue'[r]) = Len(queue[r]) + 1
               /\ \A i \in 1 .. Len(queue[r]) : queue'[r][i] = queue[r][i]
               /\ queue'[r][Len(queue[r]) + 1] = version
    <3>1. queue[r] \in Seq(Versions) /\ queue'[r] = Append(queue[r], version)
      BY <1>1, <1>6
    <3> QED BY <1>4, <3>1
  <2>3. queue' \in [Replicas -> Seq(Versions)]
    BY <1>1, <1>4, <1>6
  <2> QED BY <1>2, <1>6, <2>1, <2>2, <2>3
<1> QED BY <1>3, <1>5, <1>6

\* A patch with entries of their keys, or that drops what is over, keeps the
\* record good; so does the record that has patched and is to count.
LEMMA PatchInductive ==
  ASSUME Inductive, NEW keys \in SUBSET Keys, NEW at \in Nat, Patch(keys, at),
         UNCHANGED <<now, sessionVars, entries, pending, posted, gone, recorded>>,
         edits' \in Nat, recording' \in [Replicas -> Entries \cup {None}],
         \A r \in Replicas : \/ recording'[r] = recording[r]
                             \/ recording'[r].key \in keys /\ recording'[r].at = at,
         \A k \in SessionKeys \cap keys : EntryOf(k, at) /\ (at = 0 => Over(k))
  PROVE  Inductive'
<1>1. /\ cm' \in [Keys -> Nat] /\ queue' \in [Replicas -> Seq(Versions)]
      /\ \A k \in keys : cm'[k] = at
      /\ \A k \in Keys \ keys : cm'[k] = cm[k]
      /\ \A r \in Replicas :
           \/ cm' = cm /\ queue'[r] = queue[r]
           \/ /\ Len(queue'[r]) = Len(queue[r]) + 1
              /\ \A i \in 1 .. Len(queue[r]) : queue'[r][i] = queue[r][i]
              /\ queue'[r][Len(queue[r]) + 1] = [data |-> cm', at |-> now]
  BY PatchGives
<1>2. TypeOK /\ TypeOK'
  BY <1>1 DEF Inductive, TypeOK, sessionVars
<1>3. /\ \A s \in SessionIds : TokensGood(s)'
      /\ \A k \in SessionKeys :
           (Over(k)' <=> Over(k)) /\ \A v : EntryOf(k, v)' <=> EntryOf(k, v)
  BY SessionsKept
<1>4. \A r \in Replicas : Len(queue[r]) \in Nat /\ (queue[r] = << >> <=> Len(queue[r]) = 0)
  BY <1>2 DEF TypeOK
<1>5. \A r \in Replicas : Len(queue'[r]) \in Nat /\ (queue'[r] = << >> <=> Len(queue'[r]) = 0)
  BY <1>2 DEF TypeOK
<1>6. ASSUME NEW k \in SessionKeys
      PROVE  EntriesGood(k)' /\ RecordGood(k)' /\ \A r \in Replicas : OwnEntryGood(r, k)'
  <2>1. /\ EntriesGood(k) /\ RecordGood(k) /\ \A r \in Replicas : OwnEntryGood(r, k)
        /\ k \in Keys
    BY DEF Inductive, SessionKeys
  <2>2. EntryOf(k, cm'[k]) /\ (cm'[k] = 0 => cm[k] = 0 \/ Over(k))
    BY <1>1, <2>1 DEF EntriesGood
  <2>3. EntriesGood(k)'
    <3>1. ASSUME NEW r \in Replicas
          PROVE  \A i \in 1 .. Len(queue'[r]) : EntryOf(k, queue'[r][i].data[k])
      BY <1>1, <1>4, <2>1, <2>2 DEF EntriesGood
    <3>2. ASSUME NEW r \in Replicas, recording'[r] # None, recording'[r].key = k
          PROVE  EntryOf(k, recording'[r].at)
      BY <2>1, <3>2 DEF EntriesGood
    <3> QED BY <1>3, <2>1, <2>2, <3>1, <3>2 DEF EntriesGood
  <2>4. Recorded(k)' => cm'[k] # 0 \/ Over(k)
    <3>1. CASE Recorded(k)
      BY <2>1, <2>2, <3>1 DEF RecordGood
    <3>2. CASE Recorded(k)' /\ ~ Recorded(k)
      <4>1. PICK r \in Replicas : recording'[r] # recording[r] /\ recording'[r].key = k
                                  /\ recording'[r] # None
        BY <3>2 DEF Recorded
      <4> QED BY <1>1, <2>1, <4>1
    <3> QED BY <3>1, <3>2
  <2>5. ASSUME NEW r \in Replicas, NEW i \in Nat, NEW j \in Nat,
               1 <= i, i < j, j <= Len(queue'[r]),
               queue'[r][i].data[k] # 0, queue'[r][j].data[k] = 0
        PROVE  Over(k)
    <3>1. CASE queue'[r] = queue[r] \/ j <= Len(queue[r])
      <4>1. queue'[r][i] = queue[r][i] /\ queue'[r][j] = queue[r][j] /\ j <= Len(queue[r])
        <5>1. CASE queue'[r] = queue[r]
          BY <2>5, <5>1
        <5>2. CASE j <= Len(queue[r]) /\ queue'[r] # queue[r]
          <6>1. i \in 1 .. Len(queue[r]) /\ j \in 1 .. Len(queue[r])
            BY <1>4, <2>5, <5>2
          <6> QED BY <1>1, <5>2, <6>1
        <5> QED BY <3>1, <5>1, <5>2
      <4> QED BY <2>1, <2>5, <4>1 DEF RecordGood
    <3>2. CASE queue'[r] # queue[r] /\ j > Len(queue[r])
      <4> DEFINE n == Len(queue[r])
      <4>1. n \in Nat /\ j = n + 1 /\ queue'[r][i] = queue[r][i] /\ queue'[r][j].data = cm'
            /\ i <= n
        BY <1>1, <1>4, <2>5, <3>2
      <4>2. cm[k] = 0 \/ Over(k)
        BY <2>2, <2>5, <4>1
      <4>3. queue[r][n].data = cm
        BY <1>4, <2>5, <4>1 DEF Inductive, QueueGood
      <4>4. cm[k] = 0 => i < n
        BY <2>5, <4>1, <4>3
      <4> QED BY <2>1, <2>5, <4>1, <4>2, <4>3, <4>4 DEF RecordGood
    <3> QED BY <1>1, <1>4, <2>5, <3>1, <3>2
  <2>6. RecordGood(k)'
    BY <1>3, <2>4, <2>5 DEF RecordGood
  <2>7. ASSUME NEW r \in Replicas
        PROVE  OwnEntryGood(r, k)'
    <3> SUFFICES ASSUME \E e \in recorded : e[1] = r /\ e[2] = k, ~ Over(k)
                 PROVE  /\ entries[r][k] # 0
                        /\ \A i \in 1 .. Len(queue'[r]) :
                             queue'[r][i].data[k] = 0 => queue'[r][i].at <= pending[r][k]
      BY <1>3 DEF OwnEntryGood
    <3>1. /\ entries[r][k] # 0
          /\ \A i \in 1 .. Len(queue[r]) :
               queue[r][i].data[k] = 0 => queue[r][i].at <= pending[r][k]
      BY <2>1 DEF OwnEntryGood
    <3>2. cm'[k] # 0
      BY <2>1, <2>2 DEF RecordGood, Recorded
    <3>3. ASSUME NEW i \in 1 .. Len(queue'[r]), queue'[r][i].data[k] = 0
          PROVE  queue'[r][i].at <= pending[r][k]
      <4>1. CASE i \in 1 .. Len(queue[r])
        BY <1>1, <3>1, <3>3, <4>1
      <4>2. CASE i \notin 1 .. Len(queue[r])
        <5>1. queue'[r][i].data = cm'
          BY <1>1, <1>4, <3>3, <4>2
        <5> QED BY <3>2, <3>3, <5>1
      <4> QED BY <4>1, <4>2
    <3> QED BY <3>1, <3>3
  <2> QED BY <2>3, <2>6, <2>7
<1>7. ASSUME NEW r \in Replicas
      PROVE  QueueGood(r)'
  <2>1. QueueGood(r) /\ now \in Nat
    BY <1>2 DEF Inductive, TypeOK
  <2>2. CASE cm' = cm /\ queue'[r] = queue[r]
    BY <2>1, <2>2 DEF QueueGood
  <2>3. CASE /\ Len(queue'[r]) = Len(queue[r]) + 1
             /\ \A i \in 1 .. Len(queue[r]) : queue'[r][i] = queue[r][i]
             /\ queue'[r][Len(queue[r]) + 1] = [data |-> cm', at |-> now]
    <3>1. queue'[r] # << >>
      BY <1>4, <1>5, <2>3
    <3>2. ASSUME NEW i \in 1 .. Len(queue'[r])
          PROVE  queue'[r][i].at <= now /\ now <= queue'[r][i].at + 1
      <4>1. CASE i \in 1 .. Len(queue[r])
        BY <2>1, <2>3, <4>1 DEF QueueGood
      <4>2. CASE i = Len(queue[r]) + 1
        BY <2>1, <2>3, <4>2
      <4> QED BY <1>4, <2>3, <4>1, <4>2
    <3> QED BY <2>3, <3>1, <3>2 DEF QueueGood
  <2> QED BY <1>1, <2>2, <2>3
<1> QED BY <1>2, <1>3, <1>6, <1>7 DEF Inductive

\* A record's patch, whether it fails, its answer is lost, or it succeeds.
LEMMA RecordPatchInductive ==
  ASSUME Inductive, NEW r \in Replicas, NEW key \in Keys, NEW at \in Nat \ {0},
         key # <<"sub">> => EntryOf(key, at), RecordPatch(r, key, at)
  PROVE  Inductive'
<1>1. /\ TypeOK /\ edits \in Nat /\ recording \in [Replicas -> Entries \cup {None}]
      /\ UNCHANGED <<now, sessionVars, entries, pending, posted, gone, recorded>>
      /\ edits' \in {edits, edits + 1}
  BY DEF RecordPatch, Budget, Inductive, TypeOK
<1>2. edits' \in Nat
  BY <1>1
<1>3. CASE UNCHANGED <<cm, queue, recording>>
  <2>1. UNCHANGED <<now, recordVars, posted, gone, session, tokens, access, flight, active>>
    BY <1>1, <1>3 DEF recordVars, sessionVars
  <2>2. TypeOK'
    BY <1>1, <1>2, <2>1 DEF TypeOK, recordVars
  <2>3. \A s \in SessionIds : TokensGood(s)'
    BY <1>1, SessionsKept
  <2> QED BY <2>1, <2>2, <2>3, RecordKept
<1>4. CASE /\ Patch({key}, at)
           /\ \/ UNCHANGED recording
              \/ recording' = [recording EXCEPT ![r] = [key |-> key, at |-> at]]
  <2>1. [key |-> key, at |-> at] \in Entries
    BY DEF Entries
  <2>2. /\ recording' \in [Replicas -> Entries \cup {None}]
        /\ \A q \in Replicas : \/ recording'[q] = recording[q]
                               \/ recording'[q].key \in {key} /\ recording'[q].at = at
    BY <1>1, <1>4, <2>1
  <2>3. \A k \in SessionKeys \cap {key} : EntryOf(k, at) /\ (at = 0 => Over(k))
    BY DEF SessionKeys
  <2> QED BY <1>1, <1>2, <1>4, <2>2, <2>3, PatchInductive
<1> QED BY <1>3, <1>4 DEF RecordPatch

\* A session that is signed out has started.
LEMMA SignOutInductive ==
  ASSUME Inductive, NEW r \in Replicas, NEW s \in SessionIds, SignOut(r, s)
  PROVE  Inductive'
<1>1. /\ TypeOK /\ now \in Nat \ {0} /\ tokens[s] # {}
      /\ RecordPatch(r, <<"ksid", s>>, now)
  BY DEF SignOut, Inductive, TypeOK
<1>2. session[s] # None /\ session[s].authTime <= now
  BY <1>1 DEF Inductive, TokensGood
<1>3. <<"ksid", s>> \in Keys
  BY DEF Keys
<1>4. EntryOf(<<"ksid", s>>, now)
  BY <1>2, KeysDiffer DEF EntryOf, Closed, Names
<1> QED BY <1>1, <1>3, <1>4, RecordPatchInductive

\* A logout token names what it was posted for.
LEMMA LogoutInductive ==
  ASSUME Inductive, NEW r \in Replicas, Logout(r)
  PROVE  Inductive'
<1>1. PICK e \in posted : RecordPatch(r, e.key, e.at)
  BY DEF Logout
<1>2. e.key \in Keys /\ e.at \in Nat \ {0}
  BY DEF Inductive, TypeOK, Entries
<1>3. e.key # <<"sub">> => EntryOf(e.key, e.at)
  BY <1>2 DEF Inductive, EntriesGood, SessionKeys
<1> QED BY <1>1, <1>2, <1>3, RecordPatchInductive

\* The entry that counts is the one that was patched.
LEMMA RecordCountsInductive ==
  ASSUME Inductive, NEW r \in Replicas, RecordCounts(r)
  PROVE  Inductive'
<1> DEFINE key == recording[r].key
           at == recording[r].at
<1>1. /\ TypeOK /\ recording[r] # None /\ recording[r] \in Entries
      /\ key \in Keys /\ at \in Nat \ {0} /\ now \in Nat \ {0} /\ edits \in Nat
      /\ UNCHANGED <<now, sessionVars, cm, queue, gone>>
      /\ entries' = [entries EXCEPT ![r][key] = at]
      /\ pending' = [pending EXCEPT ![r][key] = now]
      /\ recording' = [recording EXCEPT ![r] = None]
      /\ recorded' = recorded \cup {<<r, key, at>>}
      /\ posted' \subseteq posted
      /\ edits' \in {edits, edits + 1}
  BY DEF RecordCounts, Budget, Inductive, TypeOK, Entries
<1> HIDE DEF key, at
<1>2. /\ entries' \in [Replicas -> [Keys -> Nat]] /\ entries'[r][key] = at
      /\ pending' \in [Replicas -> [Keys -> Nat]] /\ pending'[r][key] = now
      /\ \A k \in Keys : k # key => /\ entries'[r][k] = entries[r][k]
                                    /\ pending'[r][k] = pending[r][k]
      /\ \A q \in Replicas : q # r => entries'[q] = entries[q] /\ pending'[q] = pending[q]
  BY <1>1 DEF TypeOK
<1>3. /\ recording' \in [Replicas -> Entries \cup {None}] /\ recording'[r] = None
      /\ \A q \in Replicas : q # r => recording'[q] = recording[q]
  BY <1>1 DEF TypeOK
<1>4. TypeOK'
  <2>1. edits' \in Nat
    BY <1>1
  <2>2. recorded' \subseteq Replicas \X Keys \X (Nat \ {0})
    BY <1>1 DEF TypeOK
  <2> QED BY <1>1, <1>2, <1>3, <2>1, <2>2 DEF TypeOK, sessionVars
<1>5. /\ \A s \in SessionIds : TokensGood(s)'
      /\ \A k \in SessionKeys :
           (Over(k)' <=> Over(k)) /\ \A v : EntryOf(k, v)' <=> EntryOf(k, v)
  BY <1>1, SessionsKept
<1>6. ASSUME NEW k \in SessionKeys
      PROVE  EntriesGood(k)' /\ RecordGood(k)' /\ \A q \in Replicas : OwnEntryGood(q, k)'
  <2>1. /\ EntriesGood(k) /\ RecordGood(k) /\ \A q \in Replicas : OwnEntryGood(q, k)
        /\ k \in Keys
    BY DEF Inductive, SessionKeys
  <2>2. k = key => EntryOf(k, at)
    BY <1>1, <2>1 DEF EntriesGood, key, at
  <2>3. EntriesGood(k)'
    <3>1. \A q \in Replicas : EntryOf(k, entries'[q][k])
      BY <1>2, <2>1, <2>2 DEF EntriesGood
    <3>2. \A q \in Replicas :
            recording'[q] # None /\ recording'[q].key = k => EntryOf(k, recording'[q].at)
      BY <1>3, <2>1 DEF EntriesGood
    <3> QED BY <1>1, <1>5, <2>1, <3>1, <3>2 DEF EntriesGood
  <2>4. Recorded(k)' => Recorded(k)
    BY <1>1, <1>3 DEF Recorded, key
  <2>5. RecordGood(k)'
    BY <1>1, <1>5, <2>1, <2>4 DEF RecordGood
  <2>6. ASSUME NEW q \in Replicas
        PROVE  OwnEntryGood(q, k)'
    <3>1. CASE q = r /\ k = key
      BY <1>1, <1>2, <3>1 DEF OwnEntryGood, Inductive, QueueGood
    <3>2. CASE ~ (q = r /\ k = key)
      <4>1. entries'[q][k] = entries[q][k] /\ pending'[q][k] = pending[q][k]
        BY <1>2, <2>1, <3>2
      <4>2. (\E e \in recorded' : e[1] = q /\ e[2] = k)
              => \E e \in recorded : e[1] = q /\ e[2] = k
        BY <1>1, <3>2
      <4> QED BY <1>1, <1>5, <2>1, <4>1, <4>2 DEF OwnEntryGood
    <3> QED BY <3>1, <3>2
  <2> QED BY <2>3, <2>5, <2>6
<1>7. \A q \in Replicas : QueueGood(q)'
  <2>1. \A q \in Replicas, k \in Keys : entries[q][k] # 0 => entries'[q][k] # 0
    BY <1>1, <1>2
  <2> QED BY <1>1, <2>1 DEF Inductive, QueueGood
<1> QED BY <1>4, <1>5, <1>6, <1>7 DEF Inductive

\* What is pruned has been over since the entry it is of was as old as a session
\* gets.
LEMMA PruneInductive ==
  ASSUME Inductive, NEW r \in Replicas, Prune(r)
  PROVE  Inductive'
<1>1. /\ TypeOK /\ now \in Nat /\ SessionTTL \in Nat /\ entries[r] \in [Keys -> Nat]
      /\ Patch(Expired(r), 0)
      /\ UNCHANGED <<now, sessionVars, entries, pending, recording, posted, gone, recorded,
                     edits>>
      /\ Expired(r) \in SUBSET Keys
  BY LifetimesAssumption DEF Prune, Inductive, TypeOK, Expired
<1>2. edits' \in Nat /\ recording' \in [Replicas -> Entries \cup {None}]
  BY <1>1 DEF TypeOK
<1>3. ASSUME NEW k \in SessionKeys \cap Expired(r)
      PROVE  EntryOf(k, 0) /\ Over(k)
  <2>1. /\ entries[r][k] # 0 /\ entries[r][k] \in Nat
        /\ now - entries[r][k] > SessionTTL /\ EntryOf(k, entries[r][k])
    BY <1>1 DEF Expired, Inductive, EntriesGood
  <2>2. \A s \in SessionIds : session[s] # None => session[s].authTime \in Nat
    BY <1>1 DEF TypeOK, SessionRecords
  <2> QED BY <1>1, <2>1, <2>2 DEF EntryOf, Over, SessionEnd
<1> QED BY <1>1, <1>2, <1>3, PatchInductive

\* A delivery does not take an entry this replica recorded: the version has it,
\* and so have the later ones, or the replica keeps it for longer than a version
\* without it may still be under way.
LEMMA WatchInductive ==
  ASSUME Inductive, NEW r \in Replicas, Watch(r)
  PROVE  Inductive'
<1>1. PICK i \in 1 .. Len(queue[r]) :
        /\ Update(r, queue[r][i].data)
        /\ queue' = [queue EXCEPT ![r] = SubSeq(@, i + 1, Len(@))]
  BY DEF Watch
<1> DEFINE n == Len(queue[r])
           data == queue[r][i].data
           kept == {k \in Keys : /\ pending[r][k] # 0
                                 /\ data[k] = 0
                                 /\ now - pending[r][k] <= PendingTTL}
           left == SubSeq(queue[r], i + 1, n)
<1>2. /\ TypeOK /\ now \in Nat \ {0} /\ PendingTTL \in Nat \ {0}
      /\ queue \in [Replicas -> Seq(Versions)] /\ queue[r] \in Seq(Versions)
      /\ n \in Nat /\ i \in 1 .. n
      /\ UNCHANGED <<now, sessionVars, cm, recording, posted, gone, recorded, edits>>
  BY LifetimesAssumption DEF Watch, Inductive, TypeOK, sessionVars
<1>3. /\ data \in [Keys -> Nat]
      /\ \A j \in 1 .. n : queue[r][j] \in Versions
  <2>1. \A j \in 1 .. n : queue[r][j] \in Versions
    BY <1>2
  <2> QED BY <1>2, <2>1 DEF Versions
<1>4. /\ entries' \in [Replicas -> [Keys -> Nat]] /\ pending' \in [Replicas -> [Keys -> Nat]]
      /\ \A k \in Keys : /\ entries'[r][k] = (IF k \in kept THEN entries[r][k] ELSE data[k])
                         /\ pending'[r][k] = (IF k \in kept THEN pending[r][k] ELSE 0)
      /\ \A q \in Replicas : q # r => entries'[q] = entries[q] /\ pending'[q] = pending[q]
  <2>1. /\ entries' = [entries EXCEPT ![r] = [k \in Keys |-> IF k \in kept THEN @[k]
                                                             ELSE data[k]]]
        /\ pending' = [pending EXCEPT ![r] = [k \in Keys |-> IF k \in kept THEN @[k] ELSE 0]]
    BY <1>1 DEF Update
  <2>2. entries \in [Replicas -> [Keys -> Nat]] /\ pending \in [Replicas -> [Keys -> Nat]]
    BY <1>2 DEF TypeOK
  <2> HIDE DEF kept, data
  <2> QED BY <1>3, <2>1, <2>2
<1>5. /\ left \in Seq(Versions) /\ Len(left) = n - i
      /\ \A j \in 1 .. n - i : left[j] = queue[r][i + j]
  <2>1. i + 1 \in 1 .. n + 1
    BY <1>2
  <2> QED BY <1>2, <2>1, SubSeqProperties
<1>6. /\ queue' \in [Replicas -> Seq(Versions)] /\ queue'[r] = left
      /\ \A q \in Replicas : q # r => queue'[q] = queue[q]
  BY <1>1, <1>2, <1>5
<1>7. TypeOK'
  BY <1>2, <1>4, <1>6 DEF TypeOK, sessionVars
<1> HIDE DEF left
<1>8. /\ \A s \in SessionIds : TokensGood(s)'
      /\ \A k \in SessionKeys :
           (Over(k)' <=> Over(k)) /\ \A v : EntryOf(k, v)' <=> EntryOf(k, v)
  BY <1>2, SessionsKept
<1>9. ASSUME NEW k \in SessionKeys
      PROVE  EntriesGood(k)' /\ RecordGood(k)' /\ \A q \in Replicas : OwnEntryGood(q, k)'
  <2>1. /\ EntriesGood(k) /\ RecordGood(k) /\ \A q \in Replicas : OwnEntryGood(q, k)
        /\ k \in Keys
    BY DEF Inductive, SessionKeys
  <2>2. EntriesGood(k)'
    <3>1. \A q \in Replicas : EntryOf(k, entries'[q][k])
      BY <1>2, <1>4, <2>1 DEF EntriesGood
    <3>2. ASSUME NEW q \in Replicas, NEW j \in 1 .. Len(queue'[q])
          PROVE  EntryOf(k, queue'[q][j].data[k])
      <4>1. CASE q = r
        <5>1. queue'[q][j] = queue[r][i + j] /\ i + j \in 1 .. n
          BY <1>2, <1>5, <1>6, <4>1
        <5> QED BY <2>1, <5>1 DEF EntriesGood
      <4>2. CASE q # r
        BY <1>6, <2>1, <4>2 DEF EntriesGood
      <4> QED BY <4>1, <4>2
    <3> QED BY <1>2, <1>8, <2>1, <3>1, <3>2 DEF EntriesGood
  <2>3. RecordGood(k)'
    <3>1. Recorded(k)' => cm'[k] # 0 \/ Over(k)
      BY <1>2, <2>1 DEF RecordGood, Recorded
    <3>2. ASSUME NEW q \in Replicas, NEW a \in Nat, NEW b \in Nat,
                 1 <= a, a < b, b <= Len(queue'[q]),
                 queue'[q][a].data[k] # 0, queue'[q][b].data[k] = 0
          PROVE  Over(k)
      <4>1. CASE q = r
        <5>1. /\ queue'[q][a] = queue[r][i + a] /\ queue'[q][b] = queue[r][i + b]
              /\ i + a \in Nat /\ i + b \in Nat
              /\ 1 <= i + a /\ i + a < i + b /\ i + b <= n
          <6>1. queue'[q] = left /\ Len(left) = n - i /\ i \in Nat /\ n \in Nat /\ 1 <= i
            BY <1>2, <1>5, <1>6, <4>1
          <6>2. a \in 1 .. n - i /\ b \in 1 .. n - i
            BY <3>2, <6>1
          <6> HIDE DEF n
          <6> QED BY <1>5, <3>2, <6>1, <6>2
        <5> QED BY <2>1, <3>2, <5>1 DEF RecordGood
      <4>2. CASE q # r
        BY <1>6, <2>1, <3>2, <4>2 DEF RecordGood
      <4> QED BY <4>1, <4>2
    <3> QED BY <1>8, <3>1, <3>2 DEF RecordGood
  <2>4. ASSUME NEW q \in Replicas, q # r
        PROVE  OwnEntryGood(q, k)'
    BY <1>2, <1>4, <1>6, <1>8, <2>1, <2>4 DEF OwnEntryGood
  <2>5. OwnEntryGood(r, k)'
    <3> SUFFICES ASSUME \E e \in recorded : e[1] = r /\ e[2] = k, ~ Over(k)
                 PROVE  /\ entries'[r][k] # 0
                        /\ \A j \in 1 .. Len(left) :
                             left[j].data[k] = 0 => left[j].at <= pending'[r][k]
      BY <1>2, <1>6, <1>8 DEF OwnEntryGood
    <3>1. /\ entries[r][k] # 0
          /\ \A j \in 1 .. n : queue[r][j].data[k] = 0 => queue[r][j].at <= pending[r][k]
      BY <2>1 DEF OwnEntryGood
    <3>2. CASE data[k] = 0
      <4>1. /\ queue[r][i].at \in Nat \ {0} /\ queue[r][i].at <= pending[r][k]
            /\ pending[r][k] \in Nat
        BY <1>2, <1>3, <2>1, <3>1, <3>2 DEF Versions, TypeOK
      <4>2. now <= queue[r][i].at + 1
        BY <1>2 DEF Inductive, QueueGood
      <4>3. k \in kept
        BY <1>2, <2>1, <3>2, <4>1, <4>2
      <4>4. entries'[r][k] = entries[r][k] /\ pending'[r][k] = pending[r][k]
        BY <1>4, <2>1, <4>3
      <4>5. ASSUME NEW j \in 1 .. Len(left), left[j].data[k] = 0
            PROVE  left[j].at <= pending[r][k]
        <5>1. left[j] = queue[r][i + j] /\ i + j \in 1 .. n
          BY <1>2, <1>5
        <5> QED BY <3>1, <4>5, <5>1
      <4> QED BY <3>1, <4>4, <4>5
    <3>3. CASE data[k] # 0
      <4>1. entries'[r][k] # 0
        BY <1>4, <2>1, <3>3
      <4>2. ASSUME NEW j \in 1 .. Len(left)
            PROVE  left[j].data[k] # 0
        <5>1. left[j] = queue[r][i + j] /\ i \in Nat /\ i + j \in Nat
              /\ 1 <= i /\ i < i + j /\ i + j <= n
          BY <1>2, <1>5
        <5> QED BY <2>1, <3>3, <5>1 DEF RecordGood
      <4> QED BY <4>1, <4>2
    <3> QED BY <3>2, <3>3
  <2> QED BY <2>2, <2>3, <2>4, <2>5
<1>10. ASSUME NEW q \in Replicas
       PROVE  QueueGood(q)'
  <2>1. QueueGood(q) /\ QueueGood(r)
    BY DEF Inductive
  <2>2. CASE q # r
    BY <1>2, <1>4, <1>6, <2>1, <2>2 DEF QueueGood
  <2>3. CASE q = r
    <3>1. \A j \in 1 .. Len(left) : left[j].at <= now /\ now <= left[j].at + 1
      <4>1. ASSUME NEW j \in 1 .. Len(left)
            PROVE  left[j] = queue[r][i + j] /\ i + j \in 1 .. n
        BY <1>2, <1>5
      <4> QED BY <2>1, <4>1 DEF QueueGood
    <3>2. queue[r][n].data = cm
      BY <1>2, <2>1 DEF QueueGood
    <3>3. left # << >> => left[Len(left)].data = cm
      <4> SUFFICES ASSUME left # << >>
                   PROVE  left[Len(left)].data = cm
        OBVIOUS
      <4>1. Len(left) \in 1 .. n - i /\ i + Len(left) = n
        BY <1>2, <1>5
      <4> QED BY <1>5, <3>2, <4>1
    <3>4. left = << >> => \A k \in Keys : cm[k] # 0 => entries'[r][k] # 0
      <4> SUFFICES ASSUME left = << >>
                   PROVE  \A k \in Keys : cm[k] # 0 => entries'[r][k] # 0
        OBVIOUS
      <4>1. i = n
        BY <1>2, <1>5
      <4>2. data = cm
        BY <3>2, <4>1
      <4> QED BY <1>4, <4>2
    <3> QED BY <1>2, <1>6, <2>3, <3>1, <3>3, <3>4 DEF QueueGood
  <2> QED BY <2>2, <2>3
<1> QED BY <1>7, <1>8, <1>9, <1>10 DEF Inductive

\* A replica that restarts has recorded nothing, and lists the ConfigMap.
LEMMA RestartInductive ==
  ASSUME Inductive, NEW r \in Replicas, Restart(r)
  PROVE  Inductive'
<1> DEFINE version == [data |-> cm, at |-> now]
<1>1. /\ TypeOK /\ now \in Nat \ {0} /\ edits \in Nat /\ cm \in [Keys -> Nat]
      /\ UNCHANGED <<now, sessionVars, cm, posted, gone>>
      /\ edits' = edits + 1
      /\ recorded' = {e \in recorded : e[1] # r}
  BY DEF Restart, Budget, Inductive, TypeOK
<1>2. /\ version \in Versions /\ version.data = cm /\ version.at = now
  BY <1>1 DEF Versions
<1>3. queue' = [queue EXCEPT ![r] = << version >>]
  BY DEF Restart
<1> HIDE DEF version
<1>4. /\ queue' \in [Replicas -> Seq(Versions)] /\ queue'[r] = << version >>
      /\ \A q \in Replicas : q # r => queue'[q] = queue[q]
  <2>1. queue \in [Replicas -> Seq(Versions)] /\ << version >> \in Seq(Versions)
    BY <1>1, <1>2 DEF TypeOK
  <2> QED BY <1>3, <2>1
<1>5. /\ NoEntries \in [Keys -> Nat] /\ \A k \in Keys : NoEntries[k] = 0
  BY DEF NoEntries
<1>6. /\ entries' \in [Replicas -> [Keys -> Nat]] /\ entries'[r] = NoEntries
      /\ pending' \in [Replicas -> [Keys -> Nat]]
      /\ \A q \in Replicas : q # r => entries'[q] = entries[q] /\ pending'[q] = pending[q]
      /\ recording' \in [Replicas -> Entries \cup {None}] /\ recording'[r] = None
      /\ \A q \in Replicas : q # r => recording'[q] = recording[q]
  BY <1>5 DEF Restart, Inductive, TypeOK
<1>7. TypeOK'
  <2>1. edits' \in Nat /\ recorded' \subseteq recorded
    BY <1>1
  <2> QED BY <1>1, <1>4, <1>6, <2>1 DEF TypeOK, sessionVars
<1>8. /\ \A s \in SessionIds : TokensGood(s)'
      /\ \A k \in SessionKeys :
           (Over(k)' <=> Over(k)) /\ \A v : EntryOf(k, v)' <=> EntryOf(k, v)
  BY <1>1, SessionsKept
<1>9. Len(<< version >>) = 1 /\ << version >>[1] = version /\ << version >> # << >>
  OBVIOUS
<1>10. ASSUME NEW k \in SessionKeys
       PROVE  EntriesGood(k)' /\ RecordGood(k)' /\ \A q \in Replicas : OwnEntryGood(q, k)'
  <2>1. /\ EntriesGood(k) /\ RecordGood(k) /\ \A q \in Replicas : OwnEntryGood(q, k)
        /\ k \in Keys
    BY DEF Inductive, SessionKeys
  <2>2. EntriesGood(k)'
    <3>1. EntryOf(k, 0)
      BY DEF EntryOf
    <3>2. ASSUME NEW q \in Replicas
          PROVE  /\ EntryOf(k, entries'[q][k])
                 /\ \A i \in 1 .. Len(queue'[q]) : EntryOf(k, queue'[q][i].data[k])
                 /\ recording'[q] # None /\ recording'[q].key = k
                      => EntryOf(k, recording'[q].at)
      <4>1. CASE q = r
        BY <1>2, <1>4, <1>5, <1>6, <1>9, <2>1, <3>1, <4>1 DEF EntriesGood
      <4>2. CASE q # r
        BY <1>4, <1>6, <2>1, <4>2 DEF EntriesGood
      <4> QED BY <4>1, <4>2
    <3> QED BY <1>1, <1>8, <2>1, <3>2 DEF EntriesGood
  <2>3. RecordGood(k)'
    <3>1. Recorded(k)' => Recorded(k)
      BY <1>1, <1>6 DEF Recorded
    <3>2. ASSUME NEW q \in Replicas, NEW i \in Nat, NEW j \in Nat,
                 1 <= i, i < j, j <= Len(queue'[q]),
                 queue'[q][i].data[k] # 0, queue'[q][j].data[k] = 0
          PROVE  Over(k)
      <4>1. q # r
        BY <1>4, <1>9, <3>2
      <4> QED BY <1>4, <2>1, <3>2, <4>1 DEF RecordGood
    <3> QED BY <1>1, <1>8, <2>1, <3>1, <3>2 DEF RecordGood
  <2>4. ASSUME NEW q \in Replicas
        PROVE  OwnEntryGood(q, k)'
    <3>1. CASE q = r
      BY <1>1, <3>1 DEF OwnEntryGood
    <3>2. CASE q # r
      BY <1>1, <1>4, <1>6, <1>8, <2>1, <3>2 DEF OwnEntryGood
    <3> QED BY <3>1, <3>2
  <2> QED BY <2>2, <2>3, <2>4
<1>11. ASSUME NEW q \in Replicas
       PROVE  QueueGood(q)'
  <2>1. CASE q = r
    BY <1>1, <1>2, <1>4, <1>9, <2>1 DEF QueueGood
  <2>2. CASE q # r
    BY <1>1, <1>4, <1>6, <2>2 DEF QueueGood, Inductive
  <2> QED BY <2>1, <2>2
<1> QED BY <1>7, <1>8, <1>10, <1>11 DEF Inductive

\* At first there is no session and no entry.
LEMMA InitInductive ==
  ASSUME Init
  PROVE  Inductive
<1>1. NoEntries \in [Keys -> Nat] /\ \A k \in Keys : NoEntries[k] = 0
  BY DEF NoEntries
<1>2. TypeOK
  BY <1>1 DEF Init, TypeOK
<1>3. \A s \in SessionIds : TokensGood(s)
  BY LifetimesAssumption DEF Init, TokensGood
<1>4. ASSUME NEW k \in SessionKeys
      PROVE  EntriesGood(k) /\ RecordGood(k) /\ \A r \in Replicas : OwnEntryGood(r, k)
  <2>1. k \in Keys /\ cm[k] = 0 /\ \A r \in Replicas : entries[r][k] = 0
    BY <1>1 DEF SessionKeys, Init
  <2>2. \A r \in Replicas : Len(queue[r]) = 0 /\ recording[r] = None
    BY DEF Init
  <2>3. recorded = {} /\ posted = {}
    BY DEF Init
  <2>4. EntriesGood(k)
    BY <2>1, <2>2, <2>3 DEF EntriesGood, EntryOf
  <2>5. RecordGood(k)
    BY <2>2, <2>3 DEF RecordGood, Recorded
  <2> QED BY <2>3, <2>4, <2>5 DEF OwnEntryGood
<1>5. \A r \in Replicas : QueueGood(r)
  BY <1>1 DEF Init, QueueGood
<1> QED BY <1>2, <1>3, <1>4, <1>5 DEF Inductive

\* Every step keeps it.
LEMMA NextInductive ==
  ASSUME Inductive, [Next]_vars
  PROVE  Inductive'
<1>1. ASSUME NEW s \in SessionIds,
             SignInAdmin(s) \/ SignInOIDC(s) \/ ProviderAnswers(s) \/ GrantEnds(s)
      PROVE  Inductive'
  BY <1>1, SignInInductive, ProviderAnswersInductive, GrantEndsInductive
<1>2. ASSUME NEW r \in Replicas, NEW s \in SessionIds, Refresh(r, s) \/ SignOut(r, s)
      PROVE  Inductive'
  BY <1>2, RefreshInductive, SignOutInductive
<1>3. ASSUME NEW r \in Replicas,
             Logout(r) \/ RecordCounts(r) \/ Watch(r) \/ Prune(r) \/ Restart(r)
      PROVE  Inductive'
  BY <1>3, LogoutInductive, RecordCountsInductive, WatchInductive, PruneInductive,
     RestartInductive
<1>4. CASE ProviderLogout
  BY <1>4, ProviderLogoutInductive
<1>5. CASE Tick
  BY <1>5, TickInductive
<1>6. CASE UNCHANGED vars
  <2>1. UNCHANGED <<now, recordVars, posted, gone, session, tokens, access, flight, active>>
        /\ UNCHANGED <<now, sessionVars, gone>> /\ UNCHANGED edits
    BY <1>6 DEF vars, recordVars, sessionVars
  <2>2. TypeOK'
    BY <2>1 DEF Inductive, TypeOK, recordVars
  <2>3. \A s \in SessionIds : TokensGood(s)'
    BY <2>1, SessionsKept
  <2> QED BY <2>1, <2>2, <2>3, RecordKept
<1> QED BY <1>1, <1>2, <1>3, <1>4, <1>5, <1>6 DEF Next

-------------------------------------------------------------------------------
(* The theorems.                                                                 *)

\* What every step keeps holds in every reachable state.
THEOREM InductiveHolds == Spec => []Inductive
<1>1. Init => Inductive
  BY InitInductive
<1>2. Inductive /\ [Next]_vars => Inductive'
  BY NextInductive
<1> QED BY <1>1, <1>2, PTL DEF Spec

\* Type correctness of the server's sessions and of their record
\* (sessions.go, ended_sessions.go).
THEOREM TypeCorrect == Spec => []TypeOK
<1>1. Inductive => TypeOK
  BY DEF Inductive
<1> QED BY <1>1, InductiveHolds, PTL

\* No token is valid after the end of its session, nor IdleTTL after the last
\* activity (auth.go, sessions.go).
THEOREM LifetimeHolds == Spec => []Lifetime
<1>1. Inductive => Lifetime
  BY DEF Inductive, TokensGood, End, Lifetime
<1> QED BY <1>1, InductiveHolds, PTL

\* A user the provider no longer vouches for is out in time (sessions.go).
THEOREM CheckedInTimeHolds == Spec => []CheckedInTime
<1>1. Inductive => CheckedInTime
  BY DEF Inductive, TokensGood, CheckedInTime
<1> QED BY <1>1, InductiveHolds, PTL

\* What was recorded still counts on that replica and where the watch has caught
\* up, or the sessions it names have reached their end.
LEMMA EndedIsRefused ==
  ASSUME Inductive
  PROVE  EndedEverywhere
<1> SUFFICES ASSUME NEW e \in recorded, NEW s \in SessionIds, NEW r \in Replicas,
                    session[s] # None, e[2] # <<"sub">>, Matches(e[2], e[3], s),
                    r = e[1] \/ queue[r] = << >>
             PROVE  ~ Works(r, s)
  BY DEF EndedEverywhere
<1> DEFINE k == e[2]
<1>1. k \in SessionKeys /\ k \in Keys /\ TypeOK
  BY DEF Inductive, TypeOK, SessionKeys
<1>2. Names(k, s)
  BY DEF Matches, Names
<1>3. CASE Over(k)
  <2>1. SessionEnd(s) <= now
    BY <1>2, <1>3 DEF Over
  <2>2. access[s] <= End(s) /\ access[s] \in Nat /\ now \in Nat
    BY <1>1 DEF Inductive, TokensGood, TypeOK
  <2>3. SessionEnd(s) \in Nat /\ End(s) \in Nat /\ End(s) <= SessionEnd(s)
    BY <1>1, EndIs
  <2> QED BY <2>1, <2>2, <2>3 DEF Works, Valid
<1>4. CASE ~ Over(k)
  <2>1. cm[k] # 0
    BY <1>1, <1>4 DEF Inductive, RecordGood, Recorded
  <2>2. entries[r][k] # 0
    <3>1. CASE r = e[1]
      BY <1>1, <1>4, <3>1 DEF Inductive, OwnEntryGood
    <3>2. CASE queue[r] = << >>
      BY <1>1, <2>1, <3>2 DEF Inductive, QueueGood
    <3> QED BY <3>1, <3>2
  <2>3. Matches(k, entries[r][k], s)
    BY <1>2 DEF Matches, Names
  <2> QED BY <1>1, <2>2, <2>3 DEF Works, Ended
<1> QED BY <1>3, <1>4

\* A session that was signed out, or logged out at its provider, is refused by
\* the replica that recorded it and by every one that has caught up
\* (ended_sessions.go).
THEOREM EndedEverywhereHolds == Spec => []EndedEverywhere
<1>1. Inductive => EndedEverywhere
  BY EndedIsRefused
<1> QED BY <1>1, InductiveHolds, PTL

===============================================================================
