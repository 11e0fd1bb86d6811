-------------------------------- MODULE Events --------------------------------
(* The event streams of the server: the refresh that lists the informers' caches, *)
(* the hub that keeps the last snapshot of each type, and the stream that writes   *)
(* them to a client until its token expires or its session ends                   *)
(* (src/internal/server: watcher.go, hub.go, handler.go).                          *)
(*                                                                              *)
(* Two types stand for the nine: Products, and Orders, which refer to them. The   *)
(* caches are the server's; a handler is called after its cache changed. A client  *)
(* that is slow finds only the newest snapshot of a type.                          *)
EXTENDS Integers, Sequences, FiniteSets, SequencesExt

CONSTANTS
  Names,             \* Products, and the Orders of the same name that refer to them
  Clients,           \* the clients
  None,              \* no value
  MaxEdits,          \* bound of the changes of Products and Orders
  MaxOpens           \* bound of the streams a client opens

VARIABLES
  caches,      \* per type: the names in the informer's cache
  handlers,    \* whether a handler was not called yet for a change
  trigger,     \* whether the channel of coalesce holds a trigger
  run,         \* the goroutine of coalesce: where it is, and what it listed
  types,       \* hub.types
  last,        \* hub.last, per type: a snapshot or None
  stream,      \* per client: where its stream is
  types_,      \* per client: subscriber.types
  pending,     \* per client and type: subscriber.pending
  notify,      \* per client: whether subscriber.notify holds a signal
  sending,     \* per client: the events it was written and did not apply yet
  view,        \* per client and type: the snapshot the client shows
  session,     \* per client: whether its session lives
  token,       \* per client: whether the token of its stream is valid
  missed,      \* per client: whether the session ended while the stream did not look
  edits, opens \* how many changes and streams there were

cacheVars  == <<caches, handlers>>
hubVars    == <<types, last>>
subVars    == <<types_, pending, notify>>
clientVars == <<sending, view>>
authVars   == <<session, token, missed>>
vars == <<cacheVars, trigger, run, hubVars, stream, subVars, clientVars, authVars, edits, opens>>

Types == {"products", "orders"}

Init ==
  /\ caches = [t \in Types |-> {}] /\ handlers = TRUE /\ trigger = FALSE
  /\ run = [pc |-> "Idle", listed |-> [t \in Types |-> {}]]
  /\ types = <<>> /\ last = [t \in Types |-> None]
  /\ stream = [c \in Clients |-> "Closed"]
  /\ types_ = [c \in Clients |-> <<>>] /\ pending = [c \in Clients |-> [t \in Types |-> None]]
  /\ notify = [c \in Clients |-> FALSE] /\ sending = [c \in Clients |-> <<>>]
  /\ view = [c \in Clients |-> [t \in Types |-> None]]
  /\ session = [c \in Clients |-> TRUE] /\ token = [c \in Clients |-> FALSE]
  /\ missed = [c \in Clients |-> FALSE]
  /\ edits = 0 /\ opens = [c \in Clients |-> 0]

-------------------------------------------------------------------------------
(* The refresh: watcher.go                                                       *)

\* A Product or an Order is created or deleted; an Order only of a Product.
Change ==
  /\ edits < MaxEdits /\ edits' = edits + 1 /\ handlers' = TRUE
  /\ \E n \in Names :
       \/ caches' = [caches EXCEPT !["products"] = @ \cup {n}] /\ n \notin caches["products"]
       \/ caches' = [caches EXCEPT !["orders"] = @ \cup {n}] /\ n \in caches["products"] \ caches["orders"]
       \/ caches' = [caches EXCEPT !["orders"] = @ \ {n}] /\ n \in caches["orders"]
       \/ caches' = [caches EXCEPT !["products"] = @ \ {n}] /\ n \in caches["products"] \ caches["orders"]
  /\ UNCHANGED <<trigger, run, hubVars, stream, subVars, clientVars, authVars, opens>>

\* Not the code: a trigger while a run is under way is taken as covered by it.
HandleUnlessRuns ==
  /\ handlers /\ handlers' = FALSE /\ trigger' = (trigger \/ run.pc \in {"Idle", "Interval"})
  /\ UNCHANGED <<caches, run, hubVars, stream, subVars, clientVars, authVars, edits, opens>>

\* scheduleRefresh: a trigger more makes no difference.
Handle ==
  /\ handlers /\ handlers' = FALSE /\ trigger' = TRUE
  /\ UNCHANGED <<caches, run, hubVars, stream, subVars, clientVars, authVars, edits, opens>>

Running(pc) == run' = [run EXCEPT !.pc = pc]

\* The first trigger of a burst starts the interval.
Wake ==
  /\ run.pc = "Idle" /\ trigger /\ trigger' = FALSE /\ Running("Interval")
  /\ UNCHANGED <<cacheVars, hubVars, stream, subVars, clientVars, authVars, edits, opens>>

\* After the interval the run covers the triggers so far.
Begin ==
  /\ run.pc = "Interval" /\ trigger' = FALSE /\ Running("ListOrders")
  /\ UNCHANGED <<cacheVars, hubVars, stream, subVars, clientVars, authVars, edits, opens>>

\* refreshAll lists the Orders first, and Products after them.
List(t, from, to) ==
  /\ run.pc = from
  /\ run' = [run EXCEPT !.pc = to, !.listed[t] = caches[t]]
  /\ UNCHANGED <<cacheVars, trigger, hubVars, stream, subVars, clientVars, authVars, edits, opens>>

ListOrders   == List("orders", "ListOrders", "ListProducts")
ListProducts == List("products", "ListProducts", "PublishProducts")

\* The hub's offer: a snapshot replaces the pending one of its type, where
\* that stands.
Queued(c, t) == IF pending[c][t] = None THEN Append(types_[c], t) ELSE types_[c]
Offer(c, t, value) == [types |-> Queued(c, t), event |-> value]

Subscribed == {c \in Clients : stream[c] \notin {"Closed", "Opening"}}

\* publish: a snapshot equal to the last one is not sent again.
Publish(t, from, to) ==
  /\ run.pc = from /\ Running(to)
  /\ IF last[t] = run.listed[t] THEN UNCHANGED <<hubVars, subVars>>
     ELSE /\ types' = IF last[t] = None THEN Append(types, t) ELSE types
          /\ last' = [last EXCEPT ![t] = run.listed[t]]
          /\ types_' = [c \in Clients |-> IF c \in Subscribed THEN Offer(c, t, run.listed[t]).types ELSE types_[c]]
          /\ pending' = [c \in Clients |-> IF c \in Subscribed THEN [pending[c] EXCEPT ![t] = Offer(c, t, run.listed[t]).event] ELSE pending[c]]
          /\ notify' = [c \in Clients |-> notify[c] \/ c \in Subscribed]
  /\ UNCHANGED <<cacheVars, trigger, stream, clientVars, authVars, edits, opens>>

PublishProducts == Publish("products", "PublishProducts", "PublishOrders")
PublishOrders   == Publish("orders", "PublishOrders", "Idle")

-------------------------------------------------------------------------------
(* The stream: handleEventsStream                                                *)

\* The middleware takes the token, new or renewed. Then the handler asks the
\* API server what the user may list.
Open(c) ==
  /\ stream[c] = "Closed" /\ session[c] /\ sending[c] = <<>>
  /\ opens[c] < MaxOpens /\ opens' = [opens EXCEPT ![c] = @ + 1]
  /\ stream' = [stream EXCEPT ![c] = "Opening"] /\ token' = [token EXCEPT ![c] = TRUE]
  /\ missed' = [missed EXCEPT ![c] = FALSE]
  /\ UNCHANGED <<cacheVars, trigger, run, hubVars, subVars, clientVars, session, edits>>

\* subscribe: what the hub has is pending.
Subscribe(c) ==
  /\ stream[c] = "Opening"
  /\ stream' = [stream EXCEPT ![c] = "Watch"]
  /\ types_' = [types_ EXCEPT ![c] = types] /\ pending' = [pending EXCEPT ![c] = last]
  /\ notify' = [notify EXCEPT ![c] = types # <<>>]
  /\ UNCHANGED <<cacheVars, trigger, run, hubVars, clientVars, authVars, edits, opens>>

\* endedChanged = ended.changes(): from here a change of the record is seen.
Watch(c) ==
  /\ stream[c] = "Watch" /\ stream' = [stream EXCEPT ![c] = "Select"]
  /\ UNCHANGED <<cacheVars, trigger, run, hubVars, subVars, clientVars, authVars, edits, opens>>

\* The select takes any of its cases that is ready, once the events it took
\* before are written; a slow client makes the writes wait.
Selects(c) == stream[c] \in {"Select", "Signalled"} /\ sending[c] = <<>>

\* drain: the pending events, in the order they were queued, are written.
Drain(c) ==
  /\ Selects(c) /\ notify[c] /\ notify' = [notify EXCEPT ![c] = FALSE]
  /\ sending' = [sending EXCEPT ![c] = [i \in DOMAIN types_[c] |-> <<types_[c][i], pending[c][types_[c][i]]>>]]
  /\ types_' = [types_ EXCEPT ![c] = <<>>] /\ pending' = [pending EXCEPT ![c] = [t \in Types |-> None]]
  /\ UNCHANGED <<cacheVars, trigger, run, hubVars, stream, view, authVars, edits, opens>>

\* The client applies the next event.
Apply(c) ==
  /\ sending[c] # <<>>
  /\ view' = [view EXCEPT ![c] = [@ EXCEPT ![Head(sending[c])[1]] = Head(sending[c])[2]]]
  /\ sending' = [sending EXCEPT ![c] = Tail(@)]
  /\ UNCHANGED <<cacheVars, trigger, run, hubVars, stream, subVars, authVars, edits, opens>>

\* The stream returns and unsubscribes.
Closes(c) ==
  /\ stream' = [stream EXCEPT ![c] = "Closed"]
  /\ types_' = [types_ EXCEPT ![c] = <<>>] /\ pending' = [pending EXCEPT ![c] = [t \in Types |-> None]]
  /\ notify' = [notify EXCEPT ![c] = FALSE]
  /\ UNCHANGED <<cacheVars, trigger, run, hubVars, clientVars, authVars, edits, opens>>

\* Not the code: the stream looks at one change of the record, and no more.
LookDeaf(c) ==
  /\ Selects(c) /\ stream[c] = "Signalled"
  /\ IF session[c] THEN stream' = [stream EXCEPT ![c] = "Deaf"]
     ELSE stream' = [stream EXCEPT ![c] = "Closed"]
  /\ UNCHANGED <<cacheVars, trigger, run, hubVars, subVars, clientVars, authVars, edits, opens>>

\* The record of ended sessions changed: the stream ends, or goes on to watch
\* for the next change.
Look(c) ==
  /\ Selects(c) /\ stream[c] = "Signalled"
  /\ \/ ~session[c] /\ Closes(c)
     \/ /\ session[c] /\ stream' = [stream EXCEPT ![c] = "Watch"]
        /\ UNCHANGED <<cacheVars, trigger, run, hubVars, subVars, clientVars, authVars, edits, opens>>

\* The timer of the token fires, or the client goes.
Expire(c) == Selects(c) /\ ~token[c] /\ Closes(c)
Leave(c)  == Selects(c) /\ Closes(c)

\* The record of ended sessions changes, as sessions of these clients or others
\* end: the streams that watch it are signalled.
SessionEnds ==
  /\ edits < MaxEdits /\ edits' = edits + 1
  /\ \E ended \in SUBSET {c \in Clients : session[c]} :
       /\ session' = [c \in Clients |-> session[c] /\ c \notin ended]
       /\ missed' = [c \in Clients |-> missed[c] \/ (c \in ended /\ stream[c] \in {"Opening", "Watch"})]
  /\ stream' = [c \in Clients |-> IF stream[c] = "Select" THEN "Signalled" ELSE stream[c]]
  /\ UNCHANGED <<cacheVars, trigger, run, hubVars, subVars, clientVars, token, opens>>

TokenExpires(c) ==
  /\ stream[c] # "Closed" /\ token[c] /\ token' = [token EXCEPT ![c] = FALSE]
  /\ UNCHANGED <<cacheVars, trigger, run, hubVars, stream, subVars, clientVars, session, missed, edits, opens>>

Refresh == Handle \/ Wake \/ Begin \/ ListOrders \/ ListProducts \/ PublishProducts \/ PublishOrders
Serve(c) == Subscribe(c) \/ Watch(c) \/ Drain(c) \/ Apply(c) \/ Look(c) \/ Expire(c)

Next ==
  \/ Change \/ Refresh \/ SessionEnds
  \/ \E c \in Clients : Open(c) \/ Serve(c) \/ Leave(c) \/ TokenExpires(c)

\* Goroutines are scheduled; a client reads what it was written.
Fairness == WF_vars(Refresh) /\ \A c \in Clients : WF_vars(Serve(c))
Spec == Init /\ [][Next]_vars /\ Fairness
-------------------------------------------------------------------------------
(* Properties                                                                    *)

\* The streams are in the states of handleEventsStream, and hold events of
\* their types only.
TypeOK ==
  /\ stream \in [Clients -> {"Closed", "Opening", "Watch", "Select", "Signalled"}]
  /\ run.pc \in {"Idle", "Interval", "ListOrders", "ListProducts", "PublishProducts", "PublishOrders"}
  /\ \A c \in Clients : \A i \in DOMAIN types_[c] : pending[c][types_[c][i]] \subseteq Names

\* The last trigger is followed by a complete run: once nothing changes any more,
\* every stream that stays open has brought its client the lists of the caches,
\* however the changes fell into the runs before (coalesce, refreshAll, publish).
CatchesUp ==
  \A c \in Clients : <>[](stream[c] = "Closed" \/ \A t \in Types : view[c][t] = caches[t])

\* A stream ends with its token, and with its session, unless the session ended
\* while the stream asked for permissions or looked at an earlier change
\* (handleEventsStream).
StreamsEnd ==
  \A c \in Clients :
    (stream[c] # "Closed" /\ (~token[c] \/ (~session[c] /\ ~missed[c]))) ~> (stream[c] = "Closed")

\* The stream ends with its session: the comment of handleEventsStream, without
\* that exception.
StreamEndsWithSession ==
  \A c \in Clients : (stream[c] # "Closed" /\ ~session[c]) ~> (stream[c] = "Closed")

===============================================================================
