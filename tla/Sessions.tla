------------------------------- MODULE Sessions -------------------------------
(* The sessions of the server: sign-in, refresh, sign-out and back-channel      *)
(* logout, and the record of ended sessions that the replicas share             *)
(* (src/internal/server: sessions.go, auth.go, ended_sessions.go, backchannel.go). *)
(*                                                                              *)
(* Tokens are signed and checked without asking anyone, so a session that is    *)
(* over before its tokens expire is refused because of an entry in a ConfigMap. *)
(* A replica patches the ConfigMap, then counts the entry itself; the others    *)
(* learn of it from their watch. A session is one browser's; its tokens may     *)
(* have been copied, so every token ever issued may be sent to any replica.     *)
(* Times are ticks of one clock, counted from 1.                                *)
EXTENDS Integers, Sequences, FiniteSets

CONSTANTS
  Replicas,          \* the server's replicas
  SessionIds,        \* the sessions that may be started
  ProviderSids,      \* the sessions users may have at the OIDC provider
  SignIns,           \* what a sign-in at the provider may bring: [sid, checked]
  None,              \* no value
  AccessTTL, IdleTTL, SessionTTL,   \* the lifetimes of auth.go
  PendingTTL,        \* pendingEntryTTL
  CheckEvery,        \* the lifetime of the provider's access tokens
  LogoutTTL,         \* the lifetime of the provider's logout tokens
  MaxTime,           \* bound of the clock
  MaxEntries,        \* bound of the entries recorded
  MaxEdits,          \* bound of the faults and the changes at the provider
  Edits              \* the kinds of them that may happen

ASSUME LifetimesAssumption ==
  /\ AccessTTL \in Nat \ {0} /\ IdleTTL \in Nat \ {0} /\ SessionTTL \in Nat \ {0}
  /\ PendingTTL \in Nat \ {0}   \* longer than a watch takes
  /\ CheckEvery \in Nat /\ LogoutTTL \in Nat

\* Who signed in, and when.
SessionRecords ==
  [provider : {"admin", "oidc"}, sid : ProviderSids \cup {None}, authTime : Nat,
   checked : BOOLEAN]

ASSUME IdsAssumption ==
  /\ None \notin SessionRecords
  /\ SessionIds \cap ProviderSids = {}
  /\ SignIns \subseteq [sid : ProviderSids \cup {None}, checked : BOOLEAN]

VARIABLES
  now,         \* the clock
  session,     \* per session: who signed in and when, or None
  tokens,      \* per session: the refresh tokens issued that have not expired
  access,      \* per session: until when its newest access token is valid
  flight,      \* per session: a refresh that waits for the OIDC provider, or None
  cm,          \* the entries of the ConfigMap kokumi-server-ended-sessions
  queue,       \* per replica: the versions its watch has not delivered yet
  entries,     \* per replica: endedSessions.entries
  pending,     \* per replica: endedSessions.pending
  recording,   \* per replica: a record whose patch is done and that does not count here yet
  posted,      \* the logout tokens the provider has no answer 200 for
  gone,        \* when a session of the provider ended, and when it began to refuse a session's grant
  active,      \* per session: when the user was last reported active
  recorded,    \* the entries a replica has recorded, as <<replica, key, time>>
  edits        \* how many faults and changes happened

vars == <<now, session, tokens, access, flight, cm, queue, entries, pending, recording,
          posted, gone, active, recorded, edits>>

recordVars  == <<cm, queue, entries, pending, recording, recorded>>
sessionVars == <<session, tokens, access, flight, active>>

Times == 0 .. MaxTime

\* The keys of the record (ended_sessions.go): a Kokumi session, a session
\* at the provider, or the user, who is the same in every OIDC session here.
Keys == {<<"ksid", s>> : s \in SessionIds} \cup {<<"sid", p>> : p \in ProviderSids}
          \cup {<<"sub">>}
NoEntries == [k \in Keys |-> 0]

Least(a, b) == IF a <= b THEN a ELSE b

Budget(kind) == kind \in Edits /\ edits < MaxEdits /\ edits' = edits + 1

-----------------------------------------------------------------------------
(* What a token of a session is worth *)

\* sessionEnd (auth.go).
SessionEnd(s) == session[s].authTime + SessionTTL

\* Not the code: every refresh moves the deadline.
IdleDeadlineAlwaysMoved(at, authTime, previous, isActive) == Least(at + IdleTTL, authTime + SessionTTL)

\* idleDeadline (auth.go): activity moves the deadline, nothing else does,
\* and it never passes the end of the session.
IdleDeadline(at, authTime, previous, isActive) ==
  LET idle == IF isActive THEN at + IdleTTL ELSE Least(previous, at + IdleTTL)
  IN  Least(idle, authTime + SessionTTL)

\* Whether the entry key with the time at ends session s.
Matches(key, at, s) ==
  \/ key = <<"ksid", s>>
  \/ /\ session[s].provider = "oidc"
     /\ \/ session[s].sid # None /\ key = <<"sid", session[s].sid>>
        \/ key = <<"sub">> /\ session[s].authTime < at

\* ended (ended_sessions.go), on replica r.
Ended(r, s) == \E key \in Keys : entries[r][key] # 0 /\ Matches(key, entries[r][key], s)

\* The refresh tokens of s that parseToken and refreshSession still take.
Valid(s) == {t \in tokens[s] : now < SessionEnd(s)}

\* The middleware or a refresh on replica r takes a token of s.
Works(r, s) == /\ session[s] # None
               /\ now < access[s] \/ Valid(s) # {}
               /\ ~Ended(r, s)

-----------------------------------------------------------------------------
(* The record *)

\* patch (ended_sessions.go): a merge patch of the ConfigMap. One that
\* changes nothing makes no new version.
Patch(keys, at) ==
  LET merged == [k \in Keys |-> IF k \in keys THEN at ELSE cm[k]]
  IN  IF merged = cm
      THEN UNCHANGED <<cm, queue>>
      ELSE /\ cm' = merged
           /\ queue' = [r \in Replicas |-> Append(queue[r], [data |-> merged, at |-> now])]

\* Not the code: a delivered version replaces what was recorded here.
UpdateReplaces(r, data) ==
  /\ entries' = [entries EXCEPT ![r] = data]
  /\ pending' = [pending EXCEPT ![r] = NoEntries]

\* update (ended_sessions.go): the watch delivers a version; an entry this
\* replica recorded and the version lacks stays, for PendingTTL.
Update(r, data) ==
  LET kept == {k \in Keys : /\ pending[r][k] # 0
                            /\ data[k] = 0
                            /\ now - pending[r][k] <= PendingTTL}
  IN  /\ entries' = [entries EXCEPT ![r] = [k \in Keys |-> IF k \in kept THEN @[k] ELSE data[k]]]
      /\ pending' = [pending EXCEPT ![r] = [k \in Keys |-> IF k \in kept THEN @[k] ELSE 0]]

\* The informer delivers a version to replica r; a relist skips older ones.
Watch(r) ==
  /\ \E i \in 1 .. Len(queue[r]) :
       /\ Update(r, queue[r][i].data)
       /\ queue' = [queue EXCEPT ![r] = SubSeq(@, i + 1, Len(@))]
  /\ UNCHANGED <<now, session, tokens, access, flight, cm, recording, posted, gone, active,
                 recorded, edits>>

\* record (ended_sessions.go), up to the answer of its patch: it fails, it is
\* applied and the answer is lost, or it succeeds.
RecordPatch(r, key, at) ==
  /\ recording[r] = None
  /\ Cardinality(recorded) < MaxEntries
  /\ \/ Budget("Failure") /\ UNCHANGED <<cm, queue, recording>>
     \/ Budget("Failure") /\ Patch({key}, at) /\ UNCHANGED recording
     \/ /\ Patch({key}, at)
        /\ recording' = [recording EXCEPT ![r] = [key |-> key, at |-> at]]
        /\ UNCHANGED edits
  /\ UNCHANGED <<now, sessionVars, entries, pending, posted, gone, recorded>>

\* record, after the patch: the entry counts on this replica. The answer 200 to
\* a logout token may be lost, so that the provider sends it again.
RecordCounts(r) ==
  /\ recording[r] # None
  /\ LET e == recording[r] IN
       /\ entries' = [entries EXCEPT ![r][e.key] = e.at]
       /\ pending' = [pending EXCEPT ![r][e.key] = now]
       /\ recorded' = recorded \cup {<<r, e.key, e.at>>}
       /\ \/ posted' = posted \ {e} /\ UNCHANGED edits
          \/ e \in posted /\ Budget("Failure") /\ UNCHANGED posted
  /\ recording' = [recording EXCEPT ![r] = None]
  /\ UNCHANGED <<now, sessionVars, cm, queue, gone>>

\* prune (ended_sessions.go): drops what ended more than sessionTTL ago, as
\* this replica knows it.
Expired(r) == {k \in Keys : entries[r][k] # 0 /\ now - entries[r][k] > SessionTTL}

Prune(r) ==
  /\ Expired(r) # {}
  /\ \E k \in Expired(r) : cm[k] # 0
  /\ Patch(Expired(r), 0)
  /\ UNCHANGED <<now, sessionVars, entries, pending, recording, posted, gone, recorded, edits>>

\* A replica restarts: it knows nothing until its watch has listed the ConfigMap.
Restart(r) ==
  /\ Budget("Restart")
  /\ entries' = [entries EXCEPT ![r] = NoEntries]
  /\ pending' = [pending EXCEPT ![r] = NoEntries]
  /\ queue' = [queue EXCEPT ![r] = <<[data |-> cm, at |-> now]>>]
  /\ recording' = [recording EXCEPT ![r] = None]
  /\ recorded' = {e \in recorded : e[1] # r}
  /\ UNCHANGED <<now, sessionVars, cm, posted, gone>>

-----------------------------------------------------------------------------
(* Sessions *)

\* issueTokens (auth.go): neither token outlives the idle deadline.
Issue(s, at, authTime, previous, check, isActive) ==
  LET deadline == IdleDeadline(at, authTime, previous, isActive) IN
  /\ tokens' = [tokens EXCEPT ![s] = @ \cup {[expires |-> deadline, check |-> check]}]
  /\ access' = [access EXCEPT ![s] = IF @ > Least(at + AccessTTL, deadline) THEN @
                                     ELSE Least(at + AccessTTL, deadline)]
  /\ active' = IF isActive THEN [active EXCEPT ![s] = IF @ > at THEN @ ELSE at] ELSE active

\* start (sessions.go): the first tokens of a session.
Start(s, provider, sid, checked) ==
  /\ session[s] = None
  /\ session' = [session EXCEPT ![s] = [provider |-> provider, sid |-> sid,
                                        authTime |-> now, checked |-> checked]]
  /\ Issue(s, now, now, 0, IF checked THEN now + CheckEvery ELSE 0, TRUE)
  /\ UNCHANGED <<now, flight, recordVars, posted, gone, edits>>

\* signInAdmin (sessions.go).
SignInAdmin(s) == Start(s, "admin", None, FALSE)

\* handleOIDCCallback (oidc_provider.go): the provider may name its session.
\* Without its refresh token, or when that cannot be sealed, the session is not
\* checked there.
SignInOIDC(s) ==
  \E in \in SignIns : /\ in.sid # None => gone[in.sid] = 0
                      /\ Start(s, "oidc", in.sid, in.checked)

\* refreshSession (sessions.go), on replica r with the refresh token t, up to
\* the request to the provider when the check is due. The refusals leave the
\* server as it is.
Refresh(r, s) ==
  /\ session[s] # None
  /\ flight[s] = None
  /\ ~Ended(r, s)
  /\ \E t \in Valid(s), isActive \in BOOLEAN :
       IF t.check # 0 /\ now >= t.check
       THEN /\ flight' = [flight EXCEPT ![s] = [at |-> now, token |-> t, active |-> isActive]]
            /\ UNCHANGED <<tokens, access, active>>
       ELSE /\ Issue(s, now, session[s].authTime, t.expires, t.check, isActive)
            /\ UNCHANGED flight
  /\ UNCHANGED <<now, session, recordVars, posted, gone, edits>>

\* Not the code: a provider that cannot be asked counts as one that vouches.
ProviderAnswersOrNot(s) ==
  /\ flight[s] # None
  /\ flight' = [flight EXCEPT ![s] = None]
  /\ \/ /\ gone[s] = 0 /\ UNCHANGED edits
        /\ Issue(s, flight[s].at, session[s].authTime, flight[s].token.expires,
                 now + CheckEvery, flight[s].active)
     \/ gone[s] # 0 /\ UNCHANGED <<tokens, access, active, edits>>
     \/ /\ Budget("Unavailable")
        /\ Issue(s, flight[s].at, session[s].authTime, flight[s].token.expires,
                 now + CheckEvery, flight[s].active)
  /\ UNCHANGED <<now, session, recordVars, posted, gone>>

\* checkAtProvider (sessions.go) and the rest of refreshSession: tokens for
\* the time the refresh began, with the next check; a refusal, or a provider
\* that cannot be asked, issues none.
ProviderAnswers(s) ==
  /\ flight[s] # None
  /\ flight' = [flight EXCEPT ![s] = None]
  /\ \/ /\ gone[s] = 0
        /\ Issue(s, flight[s].at, session[s].authTime, flight[s].token.expires,
                 now + CheckEvery, flight[s].active)
        /\ UNCHANGED edits
     \/ gone[s] # 0 /\ UNCHANGED <<tokens, access, active, edits>>
     \/ Budget("Unavailable") /\ UNCHANGED <<tokens, access, active>>
  /\ UNCHANGED <<now, session, recordVars, posted, gone>>

\* endSession (sessions.go): any refresh token that parses ends its session.
SignOut(r, s) ==
  /\ tokens[s] # {}
  /\ RecordPatch(r, <<"ksid", s>>, now)

\* handleBackchannelLogout (backchannel.go): the entry a valid token names.
Logout(r) == \E e \in posted : now <= e.at + LogoutTTL /\ RecordPatch(r, e.key, e.at)

-----------------------------------------------------------------------------
(* The OIDC provider and the clock *)

\* The provider ends one of its sessions, or all of the user's, and posts a
\* logout token. It posts the next one once this one was answered, or expired, and
\* no request with it is under way.
ProviderLogout ==
  /\ Budget("Logout")
  /\ \A e \in posted : now > e.at + LogoutTTL
  /\ \A r \in Replicas : recording[r] = None
  /\ \/ \E p \in ProviderSids :
          /\ gone[p] = 0
          /\ posted' = {[key |-> <<"sid", p>>, at |-> now]}
          /\ gone' = [gone EXCEPT ![p] = now]
     \/ posted' = {[key |-> <<"sub">>, at |-> now]} /\ UNCHANGED gone
  /\ UNCHANGED <<now, sessionVars, recordVars>>

\* The provider refuses the grant of a session from now on, e.g. because the
\* user was deactivated.
GrantEnds(s) ==
  /\ session[s] # None /\ session[s].checked /\ gone[s] = 0
  /\ Budget("Grant")
  /\ gone' = [gone EXCEPT ![s] = now]
  /\ UNCHANGED <<now, sessionVars, recordVars, posted>>

\* A tick is long against a request, a patch and the delay of a watch.
Tick ==
  /\ now < MaxTime
  /\ now' = now + 1
  /\ \A r \in Replicas : recording[r] = None /\ \A i \in 1 .. Len(queue[r]) : queue[r][i].at = now
  /\ \A s \in SessionIds : flight[s] # None => flight[s].at = now
  /\ tokens' = [s \in SessionIds |-> {t \in tokens[s] : now' < t.expires}]
  /\ UNCHANGED <<session, access, flight, active, recordVars, posted, gone, edits>>

-----------------------------------------------------------------------------
Init ==
  /\ now = 1
  /\ session = [s \in SessionIds |-> None]
  /\ tokens = [s \in SessionIds |-> {}]
  /\ access = [s \in SessionIds |-> 0]
  /\ flight = [s \in SessionIds |-> None]
  /\ active = [s \in SessionIds |-> 0]
  /\ cm = NoEntries
  /\ queue = [r \in Replicas |-> <<>>]
  /\ entries = [r \in Replicas |-> NoEntries]
  /\ pending = [r \in Replicas |-> NoEntries]
  /\ recording = [r \in Replicas |-> None]
  /\ recorded = {}
  /\ posted = {}
  /\ gone = [x \in ProviderSids \cup SessionIds |-> 0]
  /\ edits = 0

Next ==
  \/ \E s \in SessionIds : SignInAdmin(s) \/ SignInOIDC(s) \/ ProviderAnswers(s) \/ GrantEnds(s)
  \/ \E r \in Replicas, s \in SessionIds : Refresh(r, s) \/ SignOut(r, s)
  \/ \E r \in Replicas : Logout(r) \/ RecordCounts(r) \/ Watch(r) \/ Prune(r) \/ Restart(r)
  \/ ProviderLogout
  \/ Tick

Spec == Init /\ [][Next]_vars

-----------------------------------------------------------------------------
(* Properties *)

\* No token of a session is valid after the session's end, nor IdleTTL after the
\* last refresh that reported activity, in whatever order old and new refresh
\* tokens are redeemed and however long the provider takes to answer one
\* (auth.go, sessions.go).
Lifetime ==
  \A s \in SessionIds : session[s] # None =>
    LET end == Least(SessionEnd(s), active[s] + IdleTTL)
    IN  access[s] <= end /\ \A t \in tokens[s] : t.expires <= end

\* A sign-out and a logout of a provider session count from then on: on the
\* replica that recorded them whatever versions of the record its watch delivers,
\* and on every replica whose watch has caught up. No entry is lost between
\* patches, deliveries, restarts and pruning while it can still match a valid
\* token (ended_sessions.go).
EndedEverywhere ==
  \A e \in recorded, s \in SessionIds, r \in Replicas :
    (session[s] # None /\ e[2] # <<"sub">> /\ Matches(e[2], e[3], s)
       /\ (r = e[1] \/ queue[r] = <<>>))
      => ~Works(r, s)

\* A user the provider no longer vouches for is out at the latest one lifetime of
\* the provider's tokens and one access token later, whichever of the session's
\* refresh tokens is redeemed and whenever the provider cannot be asked
\* (sessions.go).
CheckedInTime ==
  \A s \in SessionIds :
    gone[s] # 0 => access[s] <= gone[s] + CheckEvery + AccessTTL

\* The same for every entry, also for the logouts of a user that signs in and out
\* again: what "replicas never conflict" promises (ended_sessions.go).
ReplicasNeverConflict ==
  \A e \in recorded, s \in SessionIds, r \in Replicas :
    (session[s] # None /\ Matches(e[2], e[3], s) /\ queue[r] = <<>>) => ~Works(r, s)
=============================================================================
