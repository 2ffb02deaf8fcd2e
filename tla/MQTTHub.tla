------------------------------ MODULE MQTTHub ------------------------------
(***************************************************************************)
(* The MQTT hub of serve mode (internal/server/mqtt.go) as k.mqtt_* of     *)
(* bindings/mqtt.go calls it.  Handlers of several workers call the hub at *)
(* the same time; the client library calls back on goroutines of its own,  *)
(* and one pump per client hands messages to the worker pool.              *)
(*                                                                         *)
(* The hub's lock covers single map accesses only, so a call is several    *)
(* steps: look up, talk to the broker, write the result.  The broker and   *)
(* the client library are external.                                        *)
(***************************************************************************)
EXTENDS Integers, Sequences

CONSTANTS
    Client,      \* handles k.mqtt_connect can return
    Caller,      \* workers whose handlers call the hub
    QueueCap,    \* capacity of msgCh (256 in the code)
    MaxMsgs,     \* bound: messages published
    NoClient

VARIABLES
    hub,         \* h.conns
    msgCh,       \* per client: "none", "open" or "closed"
    mlink,       \* per client: the library's connection is up
    queue,       \* per client: messages in msgCh
    subscribed,  \* clients with a subscription at the broker
    subs,        \* clients with an entry in c.subscriptions
    mpump,       \* per client: its pump goroutine "none", "run" or "done"
    call,        \* per caller: the hub call it is in
    flight,      \* messages the broker still has to hand to a client
    published,   \* messages published so far
    accepted,    \* history: messages msgCh took, per client
    delivered,   \* history: messages given to deliver, per client
    crashed,     \* a goroutine closed or wrote to a closed channel
    closing,     \* clients CloseAll has collected and not yet closed
    hubDown      \* shutdown has run CloseAll

mqttvars == <<hub, msgCh, mlink, queue, subscribed, subs, mpump, call, flight,
              published, accepted, delivered, crashed, closing, hubDown>>

Idle == [op |-> "idle", c |-> NoClient]

MqttInit ==
    /\ hub = {} /\ msgCh = [c \in Client |-> "none"]
    /\ mlink = [c \in Client |-> FALSE] /\ queue = [c \in Client |-> <<>>]
    /\ subscribed = {} /\ subs = {} /\ mpump = [c \in Client |-> "none"]
    /\ call = [w \in Caller |-> Idle] /\ flight = {} /\ published = 0
    /\ accepted = [c \in Client |-> 0] /\ delivered = [c \in Client |-> 0]
    /\ crashed = FALSE /\ closing = {} /\ hubDown = FALSE

Up == ~crashed
Goes(w, here, next) == Up /\ call[w].op = here /\ call' = [call EXCEPT ![w].op = next]
Returns(w, here) == Up /\ call[w].op = here /\ call' = [call EXCEPT ![w] = Idle]

-----------------------------------------------------------------------------
(* k.mqtt_connect: the library connects, then the client is registered and *)
(* its pump started.  A refused or timed-out connect changes nothing.      *)
Connect(w, c) ==
    /\ Up /\ call[w] = Idle /\ msgCh[c] = "none"
    /\ msgCh' = [msgCh EXCEPT ![c] = "open"] /\ mlink' = [mlink EXCEPT ![c] = TRUE]
    /\ hub' = hub \cup {c} /\ mpump' = [mpump EXCEPT ![c] = "run"]
    /\ UNCHANGED <<queue, subscribed, subs, call, flight, published, accepted,
                   delivered, crashed, closing, hubDown>>

\* h.get: every other call starts by looking its handle up.
get(w, op, c) ==
    /\ Up /\ call[w] = Idle /\ c \in hub
    /\ call' = [call EXCEPT ![w] = [op |-> op, c |-> c]]
    /\ UNCHANGED <<hub, msgCh, mlink, queue, subscribed, subs, mpump, flight,
                   published, accepted, delivered, crashed, closing, hubDown>>

\* The broker acknowledges the (un)subscription, or the wait runs out and the
\* call fails, whatever the broker did.
Subscribe(w, ok) ==
    /\ IF ok THEN Goes(w, "sub", "subscribed") ELSE Returns(w, "sub")
    /\ subscribed' \in {subscribed \cup {call[w].c}} \cup (IF ok THEN {} ELSE {subscribed})
    /\ UNCHANGED <<hub, msgCh, mlink, queue, subs, mpump, flight, published, accepted,
                   delivered, crashed, closing, hubDown>>

Unsubscribe(w, ok) ==
    /\ IF ok THEN Goes(w, "unsub", "unsubscribed") ELSE Returns(w, "unsub")
    /\ subscribed' \in {subscribed \ {call[w].c}} \cup (IF ok THEN {} ELSE {subscribed})
    /\ UNCHANGED <<hub, msgCh, mlink, queue, subs, mpump, flight, published, accepted,
                   delivered, crashed, closing, hubDown>>

\* The entry of k.mqtt_stats is written afterwards, under the client's own lock.
Record(w) ==
    /\ \/ Returns(w, "subscribed") /\ subs' = subs \cup {call[w].c}
       \/ Returns(w, "unsubscribed") /\ subs' = subs \ {call[w].c}
    /\ UNCHANGED <<hub, msgCh, mlink, queue, subscribed, mpump, flight, published,
                   accepted, delivered, crashed, closing, hubDown>>

\* Publish: the broker passes the message to every subscribed client, in any order.
Publish(w) ==
    /\ Returns(w, "pub") /\ published < MaxMsgs /\ published' = published + 1
    /\ flight' = IF mlink[call[w].c]
                 THEN flight \cup ({c \in subscribed : mlink[c]} \X {published + 1})
                 ELSE flight
    /\ UNCHANGED <<hub, msgCh, mlink, queue, subscribed, subs, mpump, accepted,
                   delivered, crashed, closing, hubDown>>

\* The default publish handler, on a goroutine of the library: count, and put
\* the message in msgCh unless that is full.  msgCh may be closed by now.
Arrive(f) ==
    /\ Up /\ f \in flight /\ mlink[f[1]] /\ flight' = flight \ {f}
    /\ LET c == f[1] IN
       IF msgCh[c] = "closed"
       THEN crashed' = TRUE /\ UNCHANGED <<queue, accepted>>
       ELSE /\ UNCHANGED crashed
            /\ IF Len(queue[c]) < QueueCap
               THEN /\ queue' = [queue EXCEPT ![c] = Append(@, f[2])]
                    /\ accepted' = [accepted EXCEPT ![c] = @ + 1]
               ELSE UNCHANGED <<queue, accepted>>
    /\ UNCHANGED <<hub, msgCh, mlink, subscribed, subs, mpump, call, published,
                   delivered, closing, hubDown>>

-----------------------------------------------------------------------------
(* k.mqtt_close: delete under the lock, close msgCh, disconnect.           *)
CloseDelete(w) ==
    /\ Goes(w, "close", "closeCh") /\ hub' = hub \ {call[w].c}
    /\ UNCHANGED <<msgCh, mlink, queue, subscribed, subs, mpump, flight, published,
                   accepted, delivered, crashed, closing, hubDown>>

CloseChannel(w) ==
    /\ Goes(w, "closeCh", "closeLink")
    /\ crashed' = (msgCh[call[w].c] = "closed")
    /\ msgCh' = [msgCh EXCEPT ![call[w].c] = "closed"]
    /\ UNCHANGED <<hub, mlink, queue, subscribed, subs, mpump, flight, published,
                   accepted, delivered, closing, hubDown>>

CloseLink(w) ==
    /\ Returns(w, "closeLink")
    /\ mlink' = [mlink EXCEPT ![call[w].c] = FALSE]
    /\ subscribed' = subscribed \ {call[w].c}
    /\ UNCHANGED <<hub, msgCh, queue, subs, mpump, flight, published, accepted,
                   delivered, crashed, closing, hubDown>>

\* CloseAll at shutdown: the map is emptied under the lock, then every client
\* that was in it is closed.
CloseAll ==
    /\ Up /\ ~hubDown /\ hubDown' = TRUE /\ closing' = hub /\ hub' = {}
    /\ UNCHANGED <<msgCh, mlink, queue, subscribed, subs, mpump, call, flight,
                   published, accepted, delivered, crashed>>

CloseNext(c) ==
    /\ Up /\ c \in closing /\ closing' = closing \ {c}
    /\ crashed' = (msgCh[c] = "closed")
    /\ msgCh' = [msgCh EXCEPT ![c] = "closed"]
    /\ mlink' = [mlink EXCEPT ![c] = FALSE] /\ subscribed' = subscribed \ {c}
    /\ UNCHANGED <<hub, queue, subs, mpump, call, flight, published, accepted,
                   delivered, hubDown>>

-----------------------------------------------------------------------------
\* Mutant: the pump returns as soon as msgCh is closed.
pumpStopsAtClose(c) ==
    /\ Up /\ mpump[c] = "run"
    /\ IF msgCh[c] = "closed"
       THEN mpump' = [mpump EXCEPT ![c] = "done"] /\ UNCHANGED <<queue, delivered>>
       ELSE /\ queue[c] # <<>> /\ queue' = [queue EXCEPT ![c] = Tail(@)]
            /\ delivered' = [delivered EXCEPT ![c] = @ + 1]
            /\ UNCHANGED mpump
    /\ UNCHANGED <<hub, msgCh, mlink, subscribed, subs, call, flight, published,
                   accepted, crashed, closing, hubDown>>

(* The pump reads msgCh until it is closed and empty.                      *)
pump(c) ==
    /\ Up /\ mpump[c] = "run"
    /\ IF queue[c] # <<>>
       THEN /\ queue' = [queue EXCEPT ![c] = Tail(@)]
            /\ delivered' = [delivered EXCEPT ![c] = @ + 1]
            /\ UNCHANGED mpump
       ELSE /\ msgCh[c] = "closed" /\ mpump' = [mpump EXCEPT ![c] = "done"]
            /\ UNCHANGED <<queue, delivered>>
    /\ UNCHANGED <<hub, msgCh, mlink, subscribed, subs, call, flight, published,
                   accepted, crashed, closing, hubDown>>

MqttCall(w) ==
    \/ \E ok \in BOOLEAN : Subscribe(w, ok) \/ Unsubscribe(w, ok)
    \/ Record(w) \/ Publish(w) \/ CloseDelete(w) \/ CloseChannel(w) \/ CloseLink(w)

MqttNext ==
    \/ \E w \in Caller : \/ MqttCall(w)
                         \/ \E c \in Client : Connect(w, c)
                         \/ \E c \in Client, op \in {"sub", "unsub", "pub", "close"} :
                               get(w, op, c)
    \/ \E f \in flight : Arrive(f)
    \/ \E c \in Client : pump(c) \/ CloseNext(c)
    \/ CloseAll

MqttSpec == MqttInit /\ [][MqttNext]_mqttvars

-----------------------------------------------------------------------------
(* Properties.                                                             *)

\* A message msgCh took is given to the worker pool, also when the client is
\* closed meanwhile; the pump ends only then.  A client the hub can still look up
\* has an open channel and a running pump: Close and CloseAll take it out of the
\* map before they close anything.
AcceptedDelivered ==
    /\ \A c \in Client :
          /\ delivered[c] + Len(queue[c]) = accepted[c]
          /\ mpump[c] = "done" => queue[c] = <<>>
    /\ \A c \in hub : msgCh[c] = "open" /\ mpump[c] = "run" /\ mlink[c]

\* Nothing is written to a closed channel.  Two calls of k.mqtt_close that both
\* looked the handle up close it twice, and the library calls back until Disconnect.
NoSendOnClosed == ~crashed

\* What k.mqtt_stats reports is what the broker knows, once no call is under way.
\* Two workers can record their acknowledgements in the other order, and a
\* timed-out call records nothing.
StatsAgree ==
    (\A w \in Caller : call[w] = Idle) => subs \cap hub = subscribed \cap hub
=============================================================================
