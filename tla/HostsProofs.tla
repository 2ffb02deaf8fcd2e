---------------------------- MODULE HostsProofs ----------------------------
(***************************************************************************)
(* Proofs about serve mode's host side: the MQTT hub and its pumps         *)
(* (MQTTHub), the outbound queues of WebSocket and TCP connections         *)
(* (ServeNet), and the dispatch of HTTP requests (Endpoints); and about    *)
(* the log sink both modes share (LogSink): no record of the structured    *)
(* log is lost without a count.                                            *)
(***************************************************************************)
EXTENDS ServeNet, Endpoints, MQTTHub, LogSink, SequenceTheorems, TLAPS

-----------------------------------------------------------------------------
(* The MQTT hub. *)

CallOps == {"idle", "sub", "subscribed", "unsub", "unsubscribed", "pub", "close", "closeCh", "closeLink"}

MqttTypeOK ==
    /\ hub \subseteq Client /\ closing \subseteq Client /\ subscribed \subseteq Client
    /\ msgCh \in [Client -> {"none", "open", "closed"}]
    /\ mpump \in [Client -> {"none", "run", "done"}]
    /\ mlink \in [Client -> BOOLEAN]
    /\ queue \in [Client -> Seq(Nat)]
    /\ accepted \in [Client -> Nat] /\ delivered \in [Client -> Nat]
    /\ flight \subseteq Client \X Nat /\ published \in Nat
    /\ call \in [Caller -> [op : CallOps, c : Client \cup {NoClient}]]

(* A handle that was looked up, or that CloseAll has collected, has had its channel     *)
(* made, so k.mqtt_connect does not return it again; once Close or CloseAll is past the *)
(* map, the handle is not in it.  A pump has ended only on a closed channel.            *)
HubInv ==
    /\ \A w \in Caller : call[w].op # "idle" => call[w].c \in Client /\ msgCh[call[w].c] # "none"
    /\ \A w \in Caller : call[w].op \in {"closeCh", "closeLink"} => call[w].c \notin hub
    /\ closing \cap hub = {} /\ \A c \in closing : msgCh[c] # "none"
    /\ \A c \in Client : mpump[c] = "done" => msgCh[c] = "closed"

MqttInv == MqttTypeOK /\ HubInv /\ AcceptedDelivered

LEMMA MqttInitInv == MqttInit => MqttInv
<1>. SUFFICES ASSUME MqttInit PROVE MqttInv
  OBVIOUS
<1>1. mlink \in [Client -> BOOLEAN]
  BY Zenon DEF MqttInit
<1>2. /\ call \in [Caller -> [op : CallOps, c : Client \cup {NoClient}]]
      /\ \A w \in Caller : call[w].op = "idle"
  BY SMT DEF MqttInit, Idle, CallOps
<1>3. queue \in [Client -> Seq(Nat)] /\ \A c \in Client : queue[c] = <<>> /\ Len(queue[c]) = 0
  BY DEF MqttInit
<1>4. MqttTypeOK
  BY <1>1, <1>2, <1>3 DEF MqttInit, MqttTypeOK
<1>5. HubInv
  BY <1>2 DEF MqttInit, HubInv
<1>6. AcceptedDelivered
  BY <1>3 DEF MqttInit, AcceptedDelivered
<1>. QED BY <1>4, <1>5, <1>6 DEF MqttInv

LEMMA OpUpdate ==
    ASSUME NEW A, NEW B, NEW v \in A, NEW r \in [op : A, c : B]
    PROVE  [r EXCEPT !.op = v] \in [op : A, c : B] /\ [r EXCEPT !.op = v].op = v /\ [r EXCEPT !.op = v].c = r.c
  BY SMT

\* A call that goes on keeps its handle; one that returns has none.
LEMMA CallGoes ==
    ASSUME MqttTypeOK, NEW w \in Caller, NEW here \in CallOps, NEW next \in CallOps, Goes(w, here, next)
    PROVE  /\ call' \in [Caller -> [op : CallOps, c : Client \cup {NoClient}]]
           /\ call[w].op = here /\ call'[w].op = next /\ call'[w].c = call[w].c
           /\ \A x \in Caller : x # w => call'[x] = call[x]
<1>1. PICK r : r = [call[w] EXCEPT !.op = next]
  OBVIOUS
<1>2. r \in [op : CallOps, c : Client \cup {NoClient}] /\ r.op = next /\ r.c = call[w].c
  <2>1. call[w] \in [op : CallOps, c : Client \cup {NoClient}]
    BY DEF MqttTypeOK
  <2>2. /\ [call[w] EXCEPT !.op = next] \in [op : CallOps, c : Client \cup {NoClient}]
        /\ [call[w] EXCEPT !.op = next].op = next /\ [call[w] EXCEPT !.op = next].c = call[w].c
    BY <2>1, OpUpdate
  <2>. QED BY <1>1, <2>2, Zenon
<1>3. call' = [call EXCEPT ![w] = r] /\ call[w].op = here
  BY <1>1 DEF Goes
<1>. QED BY <1>2, <1>3 DEF MqttTypeOK

LEMMA CallReturns ==
    ASSUME MqttTypeOK, NEW w \in Caller, NEW here \in CallOps, Returns(w, here)
    PROVE  /\ call' \in [Caller -> [op : CallOps, c : Client \cup {NoClient}]]
           /\ call[w].op = here /\ call'[w].op = "idle"
           /\ \A x \in Caller : x # w => call'[x] = call[x]
  BY SMT DEF MqttTypeOK, Returns, Idle, CallOps

\* The steps of a call that touch neither channel nor map.
LEMMA TalkStep ==
    ASSUME MqttInv, NEW w \in Caller,
           (\E ok \in BOOLEAN : Subscribe(w, ok) \/ Unsubscribe(w, ok)) \/ Record(w) \/ Publish(w)
    PROVE  MqttInv'
<1>1. UNCHANGED <<hub, msgCh, mlink, queue, mpump, accepted, delivered, closing>>
  BY DEF Subscribe, Unsubscribe, Record, Publish
<1>2. PICK here \in {"sub", "unsub", "subscribed", "unsubscribed", "pub"}, next \in {"subscribed", "unsubscribed"} :
          Goes(w, here, next) \/ Returns(w, here)
  BY DEF Subscribe, Unsubscribe, Record, Publish
<1>3. /\ call' \in [Caller -> [op : CallOps, c : Client \cup {NoClient}]]
      /\ call[w].op = here /\ \/ call'[w].op = "idle"
                              \/ call'[w].op = next /\ call'[w].c = call[w].c
      /\ \A x \in Caller : x # w => call'[x] = call[x]
  <2>1. here \in CallOps /\ next \in CallOps
    BY DEF CallOps
  <2>2. CASE Goes(w, here, next)
    BY <2>1, <2>2, CallGoes DEF MqttInv
  <2>3. CASE Returns(w, here)
    BY <2>1, <2>3, CallReturns DEF MqttInv
  <2>. QED BY <1>2, <2>2, <2>3
<1>4. call[w].c \in Client
  BY <1>3 DEF MqttInv, HubInv
<1>5. subscribed' \subseteq Client
  BY <1>4 DEF MqttInv, MqttTypeOK, Subscribe, Unsubscribe, Record, Publish
<1>6. flight' \subseteq Client \X Nat /\ published' \in Nat
  <2>1. CASE UNCHANGED <<flight, published>>
    BY <2>1 DEF MqttInv, MqttTypeOK
  <2>2. CASE Publish(w)
    <3>1. published' = published + 1 /\ published \in Nat /\ published + 1 \in Nat
      BY <2>2 DEF Publish, MqttInv, MqttTypeOK
    <3>2. PICK S : S = {c \in subscribed : mlink[c]}
      OBVIOUS
    <3>3. S \subseteq Client
      BY <3>2 DEF MqttInv, MqttTypeOK
    <3>4. S \X {published + 1} \subseteq Client \X Nat
      BY <3>1, <3>3
    <3>5. flight' = flight \/ flight' = flight \cup (S \X {published + 1})
      BY <2>2, <3>2, Zenon DEF Publish
    <3>. QED BY <3>1, <3>4, <3>5 DEF MqttInv, MqttTypeOK
  <2>. QED BY <2>1, <2>2 DEF Subscribe, Unsubscribe, Record
<1>7. MqttTypeOK'
  BY <1>1, <1>3, <1>5, <1>6, Zenon DEF MqttInv, MqttTypeOK
<1>8. HubInv'
  BY <1>1, <1>3, <1>4 DEF MqttInv, HubInv
<1>9. AcceptedDelivered'
  BY <1>1 DEF MqttInv, AcceptedDelivered
<1>. QED BY <1>7, <1>8, <1>9 DEF MqttInv

\* Connecting returns a handle nobody has seen; looking one up only finds what is in the map.
LEMMA LookStep ==
    ASSUME MqttInv, NEW w \in Caller, NEW c \in Client,
           Connect(w, c) \/ \E op \in {"sub", "unsub", "pub", "close"} : get(w, op, c)
    PROVE  MqttInv'
<1>1. CASE Connect(w, c)
  <2>1. /\ msgCh[c] = "none" /\ msgCh' = [msgCh EXCEPT ![c] = "open"] /\ mlink' = [mlink EXCEPT ![c] = TRUE]
        /\ hub' = hub \cup {c} /\ mpump' = [mpump EXCEPT ![c] = "run"]
        /\ UNCHANGED <<queue, subscribed, call, flight, published, accepted, delivered, closing>>
    BY <1>1 DEF Connect
  <2>2. mlink' \in [Client -> BOOLEAN] /\ mlink'[c] = TRUE /\ \A x \in Client : x # c => mlink'[x] = mlink[x]
    BY <2>1, Zenon DEF MqttInv, MqttTypeOK
  <2>3. MqttTypeOK'
    <3>1. hub' \subseteq Client /\ closing' \subseteq Client /\ subscribed' \subseteq Client
      BY <2>1 DEF MqttInv, MqttTypeOK
    <3>2. msgCh' \in [Client -> {"none", "open", "closed"}] /\ mpump' \in [Client -> {"none", "run", "done"}]
      BY <2>1 DEF MqttInv, MqttTypeOK
    <3>. QED BY <2>1, <2>2, <3>1, <3>2, Zenon DEF MqttInv, MqttTypeOK
  <2>4. \A w2 \in Caller : call[w2].op # "idle" => call[w2].c # c
    BY <2>1 DEF MqttInv, HubInv
  <2>5. HubInv'
    BY <2>1, <2>4 DEF MqttInv, MqttTypeOK, HubInv
  <2>6. \A x \in hub' : mlink'[x]
    BY <2>1, <2>2 DEF MqttInv, MqttTypeOK, AcceptedDelivered
  <2>7. AcceptedDelivered'
    BY <2>1, <2>6 DEF MqttInv, MqttTypeOK, AcceptedDelivered
  <2>. QED BY <2>3, <2>5, <2>7 DEF MqttInv
<1>2. ASSUME NEW op \in {"sub", "unsub", "pub", "close"}, get(w, op, c) PROVE MqttInv'
  <2>1. /\ c \in hub /\ call' = [call EXCEPT ![w] = [op |-> op, c |-> c]]
        /\ UNCHANGED <<hub, msgCh, mlink, queue, subscribed, mpump, flight, published, accepted, delivered, closing>>
    BY <1>2 DEF get
  <2>2. /\ call' \in [Caller -> [op : CallOps, c : Client \cup {NoClient}]]
        /\ call'[w].op = op /\ call'[w].c = c /\ \A x \in Caller : x # w => call'[x] = call[x]
    <3>1. PICK r : r = [op |-> op, c |-> c]
      OBVIOUS
    <3>2. r \in [op : CallOps, c : Client \cup {NoClient}] /\ r.op = op /\ r.c = c
      BY <3>1, SMT DEF CallOps
    <3>3. call' = [call EXCEPT ![w] = r]
      BY <2>1, <3>1, Zenon
    <3>. QED BY <3>2, <3>3 DEF MqttInv, MqttTypeOK
  <2>3. MqttTypeOK'
    BY <2>1, <2>2, Zenon DEF MqttInv, MqttTypeOK
  <2>4. msgCh[c] # "none"
    BY <2>1 DEF MqttInv, AcceptedDelivered
  <2>5. HubInv'
    BY <2>1, <2>2, <2>4 DEF MqttInv, HubInv
  <2>6. AcceptedDelivered'
    BY <2>1 DEF MqttInv, AcceptedDelivered
  <2>. QED BY <2>3, <2>5, <2>6 DEF MqttInv
<1>. QED BY <1>1, <1>2

\* The channel takes a message, or is full, or is closed: then the process dies.
LEMMA ArriveStep ==
    ASSUME MqttInv, NEW f \in flight, Arrive(f)
    PROVE  MqttInv'
<1>1. PICK c \in Client : f[1] = c
  BY DEF MqttInv, MqttTypeOK
<1>2. f[2] \in Nat
  BY DEF MqttInv, MqttTypeOK
<1>3. /\ flight' = flight \ {f}
      /\ UNCHANGED <<hub, msgCh, mlink, subscribed, subs, mpump, call, published, delivered, closing>>
  BY DEF Arrive
<1>4. \/ UNCHANGED <<queue, accepted>>
      \/ /\ msgCh[c] # "closed" /\ queue' = [queue EXCEPT ![c] = Append(@, f[2])]
         /\ accepted' = [accepted EXCEPT ![c] = @ + 1]
  BY <1>1 DEF Arrive
<1>5. flight' \subseteq Client \X Nat
  BY <1>3 DEF MqttInv, MqttTypeOK
<1>6. HubInv'
  BY <1>3 DEF MqttInv, HubInv
<1>7. CASE UNCHANGED <<queue, accepted>>
  <2>1. MqttTypeOK'
    BY <1>3, <1>5, <1>7, Zenon DEF MqttInv, MqttTypeOK
  <2>2. AcceptedDelivered'
    BY <1>3, <1>7 DEF MqttInv, AcceptedDelivered
  <2>. QED BY <1>6, <2>1, <2>2 DEF MqttInv
<1>8. CASE /\ msgCh[c] # "closed" /\ queue' = [queue EXCEPT ![c] = Append(@, f[2])]
           /\ accepted' = [accepted EXCEPT ![c] = @ + 1]
  <2>1. queue[c] \in Seq(Nat) /\ accepted[c] \in Nat /\ delivered[c] \in Nat
    BY DEF MqttInv, MqttTypeOK
  <2>2. Append(queue[c], f[2]) \in Seq(Nat) /\ Len(Append(queue[c], f[2])) = Len(queue[c]) + 1
    BY <1>2, <2>1
  <2>3. /\ queue' \in [Client -> Seq(Nat)] /\ Len(queue'[c]) = Len(queue[c]) + 1
        /\ \A x \in Client : x # c => queue'[x] = queue[x]
    BY <1>8, <2>2 DEF MqttInv, MqttTypeOK
  <2>4. /\ accepted' \in [Client -> Nat] /\ accepted'[c] = accepted[c] + 1
        /\ \A x \in Client : x # c => accepted'[x] = accepted[x]
    BY <1>8, <2>1 DEF MqttInv, MqttTypeOK
  <2>5. MqttTypeOK'
    BY <1>3, <1>5, <2>3, <2>4, Zenon DEF MqttInv, MqttTypeOK
  <2>6. mpump[c] # "done"
    BY <1>8 DEF MqttInv, HubInv
  <2>7. delivered[c] + Len(queue[c]) = accepted[c] /\ Len(queue[c]) \in Nat
    BY <2>1 DEF MqttInv, AcceptedDelivered
  <2>8. delivered[c] + Len(queue'[c]) = accepted'[c]
    BY <2>1, <2>3, <2>4, <2>7
  <2>9. AcceptedDelivered'
    BY <1>3, <2>3, <2>4, <2>6, <2>8 DEF MqttInv, AcceptedDelivered
  <2>. QED BY <1>6, <2>5, <2>9 DEF MqttInv
<1>. QED BY <1>4, <1>7, <1>8

\* The pump takes the oldest message, and ends on a channel that is closed and empty.
LEMMA PumpStep ==
    ASSUME MqttInv, NEW c \in Client, pump(c)
    PROVE  MqttInv'
<1>1. UNCHANGED <<hub, msgCh, mlink, subscribed, call, flight, published, accepted, closing>>
  BY DEF pump
<1>2. CASE queue[c] # <<>>
  <2>1. /\ queue' = [queue EXCEPT ![c] = Tail(@)] /\ delivered' = [delivered EXCEPT ![c] = @ + 1]
        /\ UNCHANGED mpump /\ mpump[c] = "run"
    BY <1>2 DEF pump
  <2>2. queue[c] \in Seq(Nat) /\ accepted[c] \in Nat /\ delivered[c] \in Nat
    BY DEF MqttInv, MqttTypeOK
  <2>3. Tail(queue[c]) \in Seq(Nat) /\ Len(Tail(queue[c])) = Len(queue[c]) - 1 /\ Len(queue[c]) \in Nat
    BY <1>2, <2>2
  <2>4. /\ queue' \in [Client -> Seq(Nat)] /\ Len(queue'[c]) = Len(queue[c]) - 1
        /\ \A x \in Client : x # c => queue'[x] = queue[x]
    BY <2>1, <2>3 DEF MqttInv, MqttTypeOK
  <2>5. /\ delivered' \in [Client -> Nat] /\ delivered'[c] = delivered[c] + 1
        /\ \A x \in Client : x # c => delivered'[x] = delivered[x]
    BY <2>1, <2>2 DEF MqttInv, MqttTypeOK
  <2>6. MqttTypeOK'
    BY <1>1, <2>1, <2>4, <2>5, Zenon DEF MqttInv, MqttTypeOK
  <2>7. HubInv'
    BY <1>1, <2>1 DEF MqttInv, HubInv
  <2>8. delivered'[c] + Len(queue'[c]) = accepted[c]
    <3>1. delivered[c] + Len(queue[c]) = accepted[c]
      BY DEF MqttInv, AcceptedDelivered
    <3>2. PICK n \in Nat : n = Len(queue[c])
      BY <2>3
    <3>3. Len(queue'[c]) = n - 1 /\ delivered'[c] = delivered[c] + 1 /\ delivered[c] + n = accepted[c]
      BY <2>4, <2>5, <3>1, <3>2
    <3>4. delivered[c] \in Nat
      BY <2>2
    <3>. QED BY <3>3, <3>4
  <2>9. AcceptedDelivered'
    <3>1. \A x \in Client : delivered'[x] + Len(queue'[x]) = accepted'[x] /\ (mpump'[x] = "done" => queue'[x] = <<>>)
      BY <1>1, <2>1, <2>4, <2>5, <2>8 DEF MqttInv, AcceptedDelivered
    <3>. QED BY <1>1, <2>1, <3>1 DEF MqttInv, AcceptedDelivered
  <2>. QED BY <2>6, <2>7, <2>9 DEF MqttInv
<1>3. CASE queue[c] = <<>>
  <2>1. /\ UNCHANGED <<queue, delivered>> /\ mpump' = [mpump EXCEPT ![c] = "done"] /\ msgCh[c] = "closed"
    BY <1>3 DEF pump
  <2>2. c \notin hub
    BY <2>1 DEF MqttInv, AcceptedDelivered
  <2>3. mpump' \in [Client -> {"none", "run", "done"}] /\ \A x \in Client : x # c => mpump'[x] = mpump[x]
    BY <2>1 DEF MqttInv, MqttTypeOK
  <2>4. MqttTypeOK'
    BY <1>1, <2>1, <2>3, Zenon DEF MqttInv, MqttTypeOK
  <2>5. HubInv'
    BY <1>1, <2>1, <2>3 DEF MqttInv, HubInv
  <2>6. AcceptedDelivered'
    BY <1>1, <1>3, <2>1, <2>2, <2>3 DEF MqttInv, MqttTypeOK, AcceptedDelivered
  <2>. QED BY <2>4, <2>5, <2>6 DEF MqttInv
<1>. QED BY <1>2, <1>3

\* Close and CloseAll: first out of the map, then the channel, then the connection.
LEMMA CloseStep ==
    ASSUME MqttInv,
           \/ \E w \in Caller : CloseDelete(w) \/ CloseChannel(w) \/ CloseLink(w)
           \/ CloseAll \/ \E c \in Client : CloseNext(c)
    PROVE  MqttInv'
<1>1. ASSUME NEW w \in Caller, CloseDelete(w) PROVE MqttInv'
  <2>1. /\ hub' = hub \ {call[w].c}
        /\ UNCHANGED <<msgCh, mlink, queue, subscribed, mpump, flight, published, accepted, delivered, closing>>
    BY <1>1 DEF CloseDelete
  <2>2. /\ call' \in [Caller -> [op : CallOps, c : Client \cup {NoClient}]]
        /\ call[w].op = "close" /\ call'[w].op = "closeCh" /\ call'[w].c = call[w].c
        /\ \A x \in Caller : x # w => call'[x] = call[x]
    BY <1>1, CallGoes DEF CloseDelete, MqttInv, CallOps
  <2>3. MqttTypeOK'
    <3>1. hub' \subseteq Client
      BY <2>1 DEF MqttInv, MqttTypeOK
    <3>. QED BY <2>1, <2>2, <3>1, Zenon DEF MqttInv, MqttTypeOK
  <2>4. HubInv'
    BY <2>1, <2>2 DEF MqttInv, HubInv
  <2>5. AcceptedDelivered'
    BY <2>1 DEF MqttInv, AcceptedDelivered
  <2>. QED BY <2>3, <2>4, <2>5 DEF MqttInv
<1>2. ASSUME NEW w \in Caller, CloseChannel(w) PROVE MqttInv'
  <2>1. /\ msgCh' = [msgCh EXCEPT ![call[w].c] = "closed"]
        /\ UNCHANGED <<hub, mlink, queue, subscribed, mpump, flight, published, accepted, delivered, closing>>
    BY <1>2 DEF CloseChannel
  <2>2. /\ call' \in [Caller -> [op : CallOps, c : Client \cup {NoClient}]]
        /\ call[w].op = "closeCh" /\ call'[w].op = "closeLink" /\ call'[w].c = call[w].c
        /\ \A x \in Caller : x # w => call'[x] = call[x]
    BY <1>2, CallGoes DEF CloseChannel, MqttInv, CallOps
  <2>3. call[w].c \in Client /\ call[w].c \notin hub
    BY <2>2 DEF MqttInv, HubInv
  <2>4. /\ msgCh' \in [Client -> {"none", "open", "closed"}] /\ msgCh'[call[w].c] = "closed"
        /\ \A x \in Client : x # call[w].c => msgCh'[x] = msgCh[x]
    BY <2>1, <2>3 DEF MqttInv, MqttTypeOK
  <2>5. MqttTypeOK'
    BY <2>1, <2>2, <2>4, Zenon DEF MqttInv, MqttTypeOK
  <2>6. HubInv'
    <3>1. \A x \in Caller : call'[x].op # "idle" => call'[x].c \in Client /\ msgCh'[call'[x].c] # "none"
      <4>. SUFFICES ASSUME NEW x \in Caller, call'[x].op # "idle"
                    PROVE  call'[x].c \in Client /\ msgCh'[call'[x].c] # "none"
        OBVIOUS
      <4>1. call'[x].c = call[x].c /\ call[x].op # "idle"
        BY <2>2
      <4>2. call[x].c \in Client /\ msgCh[call[x].c] # "none"
        BY <4>1 DEF MqttInv, HubInv
      <4>. QED BY <2>4, <4>1, <4>2
    <3>2. \A x \in Caller : call'[x].op \in {"closeCh", "closeLink"} => call'[x].c \notin hub'
      BY <2>1, <2>2, <2>3 DEF MqttInv, HubInv
    <3>3. closing' \cap hub' = {} /\ \A x \in closing' : msgCh'[x] # "none"
      BY <2>1, <2>4 DEF MqttInv, MqttTypeOK, HubInv
    <3>4. \A x \in Client : mpump'[x] = "done" => msgCh'[x] = "closed"
      BY <2>1, <2>4 DEF MqttInv, HubInv
    <3>. QED BY <3>1, <3>2, <3>3, <3>4 DEF HubInv
  <2>7. AcceptedDelivered'
    BY <2>1, <2>3, <2>4 DEF MqttInv, MqttTypeOK, AcceptedDelivered
  <2>. QED BY <2>5, <2>6, <2>7 DEF MqttInv
<1>3. ASSUME NEW w \in Caller, CloseLink(w) PROVE MqttInv'
  <2>1. /\ mlink' = [mlink EXCEPT ![call[w].c] = FALSE] /\ subscribed' = subscribed \ {call[w].c}
        /\ UNCHANGED <<hub, msgCh, queue, mpump, flight, published, accepted, delivered, closing>>
    BY <1>3 DEF CloseLink
  <2>2. /\ call' \in [Caller -> [op : CallOps, c : Client \cup {NoClient}]]
        /\ call[w].op = "closeLink" /\ call'[w].op = "idle"
        /\ \A x \in Caller : x # w => call'[x] = call[x]
    BY <1>3, CallReturns DEF CloseLink, MqttInv, CallOps
  <2>3. call[w].c \in Client /\ call[w].c \notin hub
    BY <2>2 DEF MqttInv, HubInv
  <2>4. mlink' \in [Client -> BOOLEAN] /\ \A x \in Client : x # call[w].c => mlink'[x] = mlink[x]
    BY <2>1, <2>3, Zenon DEF MqttInv, MqttTypeOK
  <2>5. MqttTypeOK'
    <3>1. subscribed' \subseteq Client
      BY <2>1 DEF MqttInv, MqttTypeOK
    <3>. QED BY <2>1, <2>2, <2>4, <3>1, Zenon DEF MqttInv, MqttTypeOK
  <2>6. HubInv'
    BY <2>1, <2>2 DEF MqttInv, HubInv
  <2>7. AcceptedDelivered'
    BY <2>1, <2>3, <2>4 DEF MqttInv, MqttTypeOK, AcceptedDelivered
  <2>. QED BY <2>5, <2>6, <2>7 DEF MqttInv
<1>4. CASE CloseAll
  <2>1. /\ closing' = hub /\ hub' = {}
        /\ UNCHANGED <<msgCh, mlink, queue, subscribed, mpump, call, flight, published, accepted, delivered>>
    BY <1>4 DEF CloseAll
  <2>2. MqttTypeOK'
    <3>1. hub' \subseteq Client /\ closing' \subseteq Client
      BY <2>1 DEF MqttInv, MqttTypeOK
    <3>. QED BY <2>1, <3>1, Zenon DEF MqttInv, MqttTypeOK
  <2>3. HubInv'
    BY <2>1 DEF MqttInv, HubInv, AcceptedDelivered
  <2>4. AcceptedDelivered'
    BY <2>1 DEF MqttInv, AcceptedDelivered
  <2>. QED BY <2>2, <2>3, <2>4 DEF MqttInv
<1>5. ASSUME NEW c \in Client, CloseNext(c) PROVE MqttInv'
  <2>1. /\ c \in closing /\ closing' = closing \ {c} /\ msgCh' = [msgCh EXCEPT ![c] = "closed"]
        /\ mlink' = [mlink EXCEPT ![c] = FALSE] /\ subscribed' = subscribed \ {c}
        /\ UNCHANGED <<hub, queue, mpump, call, flight, published, accepted, delivered>>
    BY <1>5 DEF CloseNext
  <2>2. c \notin hub
    BY <2>1 DEF MqttInv, HubInv
  <2>3. mlink' \in [Client -> BOOLEAN] /\ \A x \in Client : x # c => mlink'[x] = mlink[x]
    BY <2>1, Zenon DEF MqttInv, MqttTypeOK
  <2>4. /\ msgCh' \in [Client -> {"none", "open", "closed"}] /\ msgCh'[c] = "closed"
        /\ \A x \in Client : x # c => msgCh'[x] = msgCh[x]
    BY <2>1 DEF MqttInv, MqttTypeOK
  <2>5. MqttTypeOK'
    <3>1. subscribed' \subseteq Client /\ closing' \subseteq Client
      BY <2>1 DEF MqttInv, MqttTypeOK
    <3>. QED BY <2>1, <2>3, <2>4, <3>1, Zenon DEF MqttInv, MqttTypeOK
  <2>6. HubInv'
    BY <2>1, <2>4 DEF MqttInv, MqttTypeOK, HubInv
  <2>7. AcceptedDelivered'
    BY <2>1, <2>2, <2>3, <2>4 DEF MqttInv, MqttTypeOK, AcceptedDelivered
  <2>. QED BY <2>5, <2>6, <2>7 DEF MqttInv
<1>. QED BY <1>1, <1>2, <1>3, <1>4, <1>5

LEMMA MqttStepInv == MqttInv /\ [MqttNext]_mqttvars => MqttInv'
<1>1. ASSUME MqttInv, MqttNext PROVE MqttInv'
  BY <1>1, TalkStep, LookStep, ArriveStep, PumpStep, CloseStep DEF MqttNext, MqttCall
<1>2. ASSUME MqttInv, UNCHANGED mqttvars PROVE MqttInv'
  BY <1>2, Zenon DEF MqttInv, MqttTypeOK, HubInv, AcceptedDelivered, mqttvars
<1>. QED BY <1>1, <1>2

(***************************************************************************)
(* A message that a client's msgCh took is handed to the worker pool or    *)
(* still queued, whatever order the workers' k.mqtt_* calls, the library's *)
(* callbacks, Close and CloseAll come in; a pump ends only on an empty     *)
(* channel; and a handle that h.get can still return has an open channel,  *)
(* a running pump and a connection that is up.                             *)
(***************************************************************************)
THEOREM MqttCorrect == MqttSpec => []AcceptedDelivered
<1>1. MqttInv => AcceptedDelivered
  BY DEF MqttInv
<1>. QED BY <1>1, MqttInitInv, MqttStepInv, PTL DEF MqttSpec

-----------------------------------------------------------------------------
(* The outbound queues of connections. *)

ConnPc == {"out", "opening", "reading", "closing", "ending", "done"}

NetTypeOK ==
    /\ pc \in [Conn -> ConnPc] /\ outPump \in [Conn -> {"none", "run", "done"}]
    /\ sendCh \in [Conn -> Seq(Nat)] /\ wire \in [Conn -> Seq(Nat)] /\ taken \in [Conn -> Seq(Nat)]
    /\ sends \in Nat

\* A connection has no pump before its handler was called with "open": pumps are started once.
PumpInv == \A c \in Conn : pc[c] \in {"out", "opening"} => outPump[c] = "none"

NetInv == NetTypeOK /\ PumpInv /\ DeliveredInOrder

\* Prefixes, element by element.
LEMMA SameSeq ==
    ASSUME NEW s \in Seq(Nat), NEW t \in Seq(Nat), Len(s) = Len(t), \A i \in 1..Len(s) : s[i] = t[i]
    PROVE  s = t
  OBVIOUS

LEMMA PrefixDef ==
    ASSUME NEW s \in Seq(Nat), NEW t \in Seq(Nat)
    PROVE  IsPrefix(s, t) <=> Len(s) <= Len(t) /\ \A i \in 1..Len(s) : s[i] = t[i]
<1>1. SubSeq(s, 1, Len(s)) = s
  OBVIOUS
<1>2. ASSUME Len(s) <= Len(t), \A i \in 1..Len(s) : s[i] = t[i] PROVE IsPrefix(s, t)
  <2>1. SubSeq(t, 1, Len(s)) \in Seq(Nat) /\ Len(SubSeq(t, 1, Len(s))) = Len(s)
    BY <1>2
  <2>2. \A i \in 1..Len(s) : SubSeq(t, 1, Len(s))[i] = s[i]
    BY <1>2
  <2>3. SubSeq(t, 1, Len(s)) = s
    <3>1. PICK q : q = SubSeq(t, 1, Len(s))
      OBVIOUS
    <3>2. q \in Seq(Nat) /\ Len(q) = Len(s) /\ \A i \in 1..Len(q) : q[i] = s[i]
      BY <2>1, <2>2, <3>1
    <3>. QED BY <3>1, <3>2, SameSeq
  <2>. QED BY <1>1, <1>2, <2>3 DEF IsPrefix
<1>3. ASSUME IsPrefix(s, t) PROVE Len(s) <= Len(t) /\ \A i \in 1..Len(s) : s[i] = t[i]
  <2>1. Len(s) <= Len(t) /\ SubSeq(t, 1, Len(s)) = s
    BY <1>1, <1>3 DEF IsPrefix
  <2>2. \A i \in 1..Len(s) : SubSeq(t, 1, Len(s))[i] = t[i]
    BY <2>1
  <2>. QED BY <2>1, <2>2
<1>. QED BY <1>2, <1>3

LEMMA PrefixConcat ==
    ASSUME NEW s \in Seq(Nat), NEW t \in Seq(Nat)
    PROVE  IsPrefix(s, s \o t)
<1>1. s \o t \in Seq(Nat) /\ Len(s) <= Len(s \o t) /\ \A i \in 1..Len(s) : s[i] = (s \o t)[i]
  OBVIOUS
<1>. QED BY <1>1, PrefixDef

LEMMA PrefixAppend ==
    ASSUME NEW s \in Seq(Nat), NEW t \in Seq(Nat), NEW m \in Nat, IsPrefix(s, t)
    PROVE  IsPrefix(s, Append(t, m))
<1>1. Len(s) <= Len(t) /\ \A i \in 1..Len(s) : s[i] = t[i]
  BY PrefixDef
<1>2. Append(t, m) \in Seq(Nat) /\ Len(Append(t, m)) = Len(t) + 1 /\ \A i \in 1..Len(t) : Append(t, m)[i] = t[i]
  OBVIOUS
<1>3. Len(s) <= Len(Append(t, m)) /\ \A i \in 1..Len(s) : s[i] = Append(t, m)[i]
  BY <1>1, <1>2
<1>. QED BY <1>2, <1>3, PrefixDef

LEMMA QueueFacts ==
    ASSUME NEW s \in Seq(Nat), NEW t \in Seq(Nat), NEW m \in Nat
    PROVE  /\ Append(s \o t, m) = s \o Append(t, m)
           /\ t # <<>> => /\ Tail(t) \in Seq(Nat) /\ Head(t) \in Nat
                          /\ s \o t = Append(s, Head(t)) \o Tail(t)
<1>1. Append(s \o t, m) = s \o Append(t, m)
  <2>1. s \o t \in Seq(Nat) /\ <<m>> \in Seq(Nat)
    OBVIOUS
  <2>2. Append(s \o t, m) = (s \o t) \o <<m>> /\ Append(t, m) = t \o <<m>>
    BY <2>1, AppendIsConcat
  <2>3. (s \o t) \o <<m>> = s \o (t \o <<m>>)
    BY <2>1, ConcatAssociative
  <2>. QED BY <2>2, <2>3, Zenon
<1>2. ASSUME t # <<>> PROVE Tail(t) \in Seq(Nat) /\ Head(t) \in Nat /\ s \o t = Append(s, Head(t)) \o Tail(t)
  <2>1. Tail(t) \in Seq(Nat) /\ Head(t) \in Nat
    BY <1>2
  <2>2. PICK h \in Nat : h = Head(t)
    BY <2>1
  <2>3. PICK u \in Seq(Nat) : u = Tail(t)
    BY <2>1
  <2>4. t = <<h>> \o u
    BY <1>2, <2>2, <2>3
  <2>5. <<h>> \in Seq(Nat)
    OBVIOUS
  <2>6. Append(s, h) = s \o <<h>>
    BY AppendIsConcat
  <2>7. (s \o <<h>>) \o u = s \o (<<h>> \o u)
    BY <2>5, ConcatAssociative
  <2>. QED BY <2>1, <2>2, <2>3, <2>4, <2>6, <2>7, Zenon
<1>. QED BY <1>1, <1>2

\* What DeliveredInOrder says of one connection.
InOrder(c) ==
    /\ IsPrefix(wire[c], taken[c])
    /\ outPump[c] # "done" => taken[c] = wire[c] \o sendCh[c]

LEMMA NetInitInv == NetInit => NetInv
<1>. SUFFICES ASSUME NetInit PROVE NetInv
  OBVIOUS
<1>1. sendCh \in [Conn -> Seq(Nat)] /\ wire = sendCh /\ taken = sendCh /\ \A c \in Conn : sendCh[c] = <<>>
  BY DEF NetInit
<1>2. NetTypeOK
  BY <1>1 DEF NetInit, NetTypeOK, ConnPc
<1>3. PumpInv
  BY DEF NetInit, PumpInv
<1>4. <<>> \in Seq(Nat) /\ <<>> \o <<>> = <<>>
  OBVIOUS
<1>5. IsPrefix(<<>>, <<>>)
  BY <1>4, PrefixConcat
<1>6. DeliveredInOrder
  BY <1>1, <1>4, <1>5, Zenon DEF DeliveredInOrder
<1>. QED BY <1>2, <1>3, <1>6 DEF NetInv

\* What may happen to one connection's queue in a step: nothing, but the pump may start
\* or end; a message enters it; the pump writes the oldest one; or the pump ends.
LEMMA QueueStep ==
    ASSUME NetInv, NEW c \in Conn, outPump[c] # "done" \/ outPump'[c] = "done",
           \/ wire'[c] = wire[c] /\ taken'[c] = taken[c] /\ sendCh'[c] = sendCh[c]
           \/ \E m \in Nat : /\ wire'[c] = wire[c] /\ taken'[c] = Append(taken[c], m)
                             /\ sendCh'[c] = Append(sendCh[c], m)
           \/ /\ sendCh[c] # <<>> /\ wire'[c] = Append(wire[c], Head(sendCh[c])) /\ taken'[c] = taken[c]
              /\ sendCh'[c] = Tail(sendCh[c]) /\ outPump[c] # "done"
           \/ wire'[c] = wire[c] /\ taken'[c] = taken[c] /\ outPump'[c] = "done"
    PROVE  InOrder(c)'
<1>0. wire[c] \in Seq(Nat) /\ taken[c] \in Seq(Nat) /\ sendCh[c] \in Seq(Nat) /\ InOrder(c)
  BY DEF NetInv, NetTypeOK, DeliveredInOrder, InOrder
<1>1. CASE wire'[c] = wire[c] /\ taken'[c] = taken[c] /\ sendCh'[c] = sendCh[c]
  BY <1>0, <1>1 DEF InOrder
<1>2. ASSUME NEW m \in Nat, wire'[c] = wire[c], taken'[c] = Append(taken[c], m), sendCh'[c] = Append(sendCh[c], m)
      PROVE  InOrder(c)'
  <2>1. IsPrefix(wire[c], Append(taken[c], m))
    BY <1>0, PrefixAppend DEF InOrder
  <2>2. IsPrefix(wire'[c], taken'[c])
    BY <1>2, <2>1, Zenon
  <2>3. ASSUME outPump'[c] # "done" PROVE taken'[c] = wire'[c] \o sendCh'[c]
    <3>0. outPump[c] # "done"
      BY <2>3
    <3>1. taken[c] = wire[c] \o sendCh[c]
      BY <1>0, <3>0, Zenon DEF InOrder
    <3>2. Append(wire[c] \o sendCh[c], m) = wire[c] \o Append(sendCh[c], m)
      <4>1. wire[c] \in Seq(Nat) /\ sendCh[c] \in Seq(Nat) /\ m \in Nat
        BY <1>0
      <4>. QED BY <4>1, QueueFacts, Zenon
    <3>. QED BY <1>2, <3>1, <3>2, Zenon
  <2>. QED BY <2>2, <2>3 DEF InOrder
<1>3. CASE /\ sendCh[c] # <<>> /\ wire'[c] = Append(wire[c], Head(sendCh[c])) /\ taken'[c] = taken[c]
           /\ sendCh'[c] = Tail(sendCh[c]) /\ outPump[c] # "done"
  <2>1. taken[c] = wire[c] \o sendCh[c]
    BY <1>0, <1>3 DEF InOrder
  <2>2. /\ Tail(sendCh[c]) \in Seq(Nat) /\ Head(sendCh[c]) \in Nat
        /\ wire[c] \o sendCh[c] = Append(wire[c], Head(sendCh[c])) \o Tail(sendCh[c])
    <3>1. 0 \in Nat
      OBVIOUS
    <3>. QED BY <1>0, <1>3, <3>1, QueueFacts
  <2>3. Append(wire[c], Head(sendCh[c])) \in Seq(Nat)
    BY <1>0, <2>2
  <2>4. IsPrefix(Append(wire[c], Head(sendCh[c])), Append(wire[c], Head(sendCh[c])) \o Tail(sendCh[c]))
    BY <2>2, <2>3, PrefixConcat
  <2>. QED BY <1>3, <2>1, <2>2, <2>4, Zenon DEF InOrder
<1>4. CASE wire'[c] = wire[c] /\ taken'[c] = taken[c] /\ outPump'[c] = "done"
  BY <1>0, <1>4 DEF InOrder
<1>. QED BY <1>1, <1>2, <1>3, <1>4

\* Enqueue adds the message to the queue and to the history of the same connections.
LEMMA EnqueueStep ==
    ASSUME NetTypeOK, NEW S, NEW m \in Nat, Enqueue(S, m)
    PROVE  /\ sendCh' \in [Conn -> Seq(Nat)] /\ taken' \in [Conn -> Seq(Nat)] /\ wire' = wire
           /\ \A c \in Conn : \/ taken'[c] = taken[c] /\ sendCh'[c] = sendCh[c]
                              \/ taken'[c] = Append(taken[c], m) /\ sendCh'[c] = Append(sendCh[c], m)
<1>1. \A c \in Conn : /\ sendCh[c] \in Seq(Nat) /\ taken[c] \in Seq(Nat)
                      /\ Append(sendCh[c], m) \in Seq(Nat) /\ Append(taken[c], m) \in Seq(Nat)
  BY DEF NetTypeOK
<1>2. /\ sendCh' = [c \in Conn |-> IF c \in S /\ ~Full(c) THEN Append(sendCh[c], m) ELSE sendCh[c]]
      /\ taken' = [c \in Conn |-> IF c \in S /\ ~Full(c) THEN Append(taken[c], m) ELSE taken[c]]
      /\ wire' = wire
  BY DEF Enqueue
<1>. QED BY <1>1, <1>2

LEMMA Accepts ==
    ASSUME NetInv, NetTypeOK', PumpInv',
           \A c \in Conn : outPump[c] # "done" \/ outPump'[c] = "done",
           UNCHANGED outvars \/ \E S : Enqueue(S, sends + 1)
    PROVE  NetInv'
<1>1. sends + 1 \in Nat /\ NetTypeOK
  BY DEF NetInv, NetTypeOK
<1>2. ASSUME NEW c \in Conn PROVE InOrder(c)'
  <2>1. CASE UNCHANGED outvars
    <3>1. wire'[c] = wire[c] /\ taken'[c] = taken[c] /\ sendCh'[c] = sendCh[c]
      BY <2>1 DEF outvars
    <3>. QED BY <1>2, <3>1, QueueStep
  <2>2. ASSUME NEW S, Enqueue(S, sends + 1) PROVE InOrder(c)'
    <3>1. \/ wire'[c] = wire[c] /\ taken'[c] = taken[c] /\ sendCh'[c] = sendCh[c]
          \/ /\ wire'[c] = wire[c] /\ taken'[c] = Append(taken[c], sends + 1)
             /\ sendCh'[c] = Append(sendCh[c], sends + 1)
      BY <1>1, <1>2, <2>2, EnqueueStep
    <3>. QED BY <1>1, <1>2, <3>1, QueueStep
  <2>. QED BY <2>1, <2>2
<1>. QED BY <1>2 DEF NetInv, DeliveredInOrder, InOrder

\* The steps that leave every connection's pump and position alone.
LEMMA QuietStep ==
    ASSUME NetInv, UNCHANGED <<pc, outPump>>,
           \/ UNCHANGED outvars
           \/ sends' = sends + 1 /\ \E S : Enqueue(S, sends + 1)
    PROVE  NetInv'
<1>1. NetTypeOK'
  <2>1. CASE UNCHANGED outvars
    BY <2>1 DEF NetInv, NetTypeOK, outvars
  <2>2. ASSUME NEW S, sends' = sends + 1, Enqueue(S, sends + 1) PROVE NetTypeOK'
    <3>1. sends + 1 \in Nat /\ NetTypeOK
      BY DEF NetInv, NetTypeOK
    <3>2. sendCh' \in [Conn -> Seq(Nat)] /\ taken' \in [Conn -> Seq(Nat)] /\ wire' = wire
      BY <2>2, <3>1, EnqueueStep
    <3>. QED BY <2>2, <3>1, <3>2 DEF NetTypeOK
  <2>. QED BY <2>1, <2>2
<1>2. PumpInv'
  BY DEF NetInv, PumpInv
<1>3. \A c \in Conn : outPump[c] # "done" \/ outPump'[c] = "done"
  OBVIOUS
<1>. QED BY <1>1, <1>2, <1>3, Accepts

\* A connection moves on; its pump starts when its handler was called with "open".
LEMMA ConnStep ==
    ASSUME NetInv, NEW c \in Conn, NEW p \in ConnPc, pc' = [pc EXCEPT ![c] = p],
           \/ UNCHANGED outvars
           \/ sends' = sends + 1 /\ \E S : Enqueue(S, sends + 1),
           \/ UNCHANGED outPump /\ (p = "opening" => pc[c] = "out") /\ p # "out"
           \/ pc[c] = "opening" /\ p = "reading" /\ outPump' = [outPump EXCEPT ![c] = "run"]
    PROVE  NetInv'
<1>0. /\ pc' \in [Conn -> ConnPc] /\ pc'[c] = p /\ \A x \in Conn : x # c => pc'[x] = pc[x]
  BY DEF NetInv, NetTypeOK
<1>a. /\ outPump' \in [Conn -> {"none", "run", "done"}]
      /\ \A x \in Conn : outPump[x] # "done" \/ outPump'[x] = "done"
      /\ \A x \in Conn : outPump'[x] = outPump[x] \/ (x = c /\ p = "reading")
  BY DEF NetInv, NetTypeOK, PumpInv
<1>1. NetTypeOK'
  <2>1. CASE UNCHANGED outvars
    BY <1>0, <1>a, <2>1 DEF NetInv, NetTypeOK, outvars
  <2>2. ASSUME NEW S, sends' = sends + 1, Enqueue(S, sends + 1) PROVE NetTypeOK'
    <3>1. sends + 1 \in Nat /\ NetTypeOK
      BY DEF NetInv, NetTypeOK
    <3>2. sendCh' \in [Conn -> Seq(Nat)] /\ taken' \in [Conn -> Seq(Nat)] /\ wire' = wire
      BY <2>2, <3>1, EnqueueStep
    <3>. QED BY <1>0, <1>a, <2>2, <3>1, <3>2 DEF NetTypeOK
  <2>. QED BY <2>1, <2>2
<1>2. PumpInv'
  BY <1>0, <1>a DEF NetInv, PumpInv
<1>. QED BY <1>1, <1>2, <1>a, Accepts

\* The pump writes, fails or stops.
LEMMA OutPumpStep ==
    ASSUME NetInv, NEW c \in Conn, PumpWrites(c) \/ PumpFails(c) \/ PumpStops(c)
    PROVE  NetInv'
<1>0. /\ UNCHANGED <<pc, taken, sends>> /\ outPump[c] = "run"
      /\ UNCHANGED outPump \/ outPump' = [outPump EXCEPT ![c] = "done"]
  BY DEF PumpWrites, PumpFails, PumpStops, outvars
<1>1. /\ outPump' \in [Conn -> {"none", "run", "done"}]
      /\ \A x \in Conn : outPump[x] # "done" \/ outPump'[x] = "done"
      /\ \A x \in Conn : x # c => outPump'[x] = outPump[x]
  BY <1>0 DEF NetInv, NetTypeOK
<1>2. sendCh[c] \in Seq(Nat) /\ wire[c] \in Seq(Nat)
  BY DEF NetInv, NetTypeOK
<1>3. PumpInv'
  BY <1>0, <1>1 DEF NetInv, PumpInv
<1>4. CASE PumpWrites(c)
  <2>1. /\ sendCh[c] # <<>> /\ wire' = [wire EXCEPT ![c] = Append(@, Head(sendCh[c]))]
        /\ sendCh' = [sendCh EXCEPT ![c] = Tail(@)] /\ UNCHANGED outPump
    BY <1>4 DEF PumpWrites
  <2>2. Append(wire[c], Head(sendCh[c])) \in Seq(Nat) /\ Tail(sendCh[c]) \in Seq(Nat)
    BY <1>2, <2>1
  <2>3. /\ wire' \in [Conn -> Seq(Nat)] /\ wire'[c] = Append(wire[c], Head(sendCh[c]))
        /\ \A x \in Conn : x # c => wire'[x] = wire[x]
    BY <2>1, <2>2 DEF NetInv, NetTypeOK
  <2>4. /\ sendCh' \in [Conn -> Seq(Nat)] /\ sendCh'[c] = Tail(sendCh[c])
        /\ \A x \in Conn : x # c => sendCh'[x] = sendCh[x]
    BY <2>1, <2>2 DEF NetInv, NetTypeOK
  <2>5. NetTypeOK'
    BY <1>0, <1>1, <2>3, <2>4 DEF NetInv, NetTypeOK
  <2>6. ASSUME NEW x \in Conn PROVE InOrder(x)'
    <3>1. CASE x = c
      <4>1. outPump[c] # "done"
        BY <1>0
      <4>2. InOrder(c)'
        BY <1>0, <2>1, <2>3, <2>4, <4>1, QueueStep
      <4>. QED BY <3>1, <4>2
    <3>2. CASE x # c
      <4>1. wire'[x] = wire[x] /\ taken'[x] = taken[x] /\ sendCh'[x] = sendCh[x]
        BY <1>0, <2>3, <2>4, <3>2
      <4>. QED BY <1>1, <2>6, <4>1, QueueStep
    <3>. QED BY <3>1, <3>2
  <2>. QED BY <1>3, <2>5, <2>6 DEF NetInv, DeliveredInOrder, InOrder
<1>5. CASE PumpFails(c) \/ PumpStops(c)
  <2>1. /\ outPump'[c] = "done" /\ UNCHANGED wire
        /\ UNCHANGED sendCh \/ (sendCh[c] # <<>> /\ sendCh' = [sendCh EXCEPT ![c] = Tail(@)])
    BY <1>5 DEF PumpFails, PumpStops, outvars, NetInv, NetTypeOK
  <2>2. sendCh' \in [Conn -> Seq(Nat)] /\ \A x \in Conn : x # c => sendCh'[x] = sendCh[x]
    <3>1. CASE UNCHANGED sendCh
      BY <3>1 DEF NetInv, NetTypeOK
    <3>2. CASE sendCh[c] # <<>> /\ sendCh' = [sendCh EXCEPT ![c] = Tail(@)]
      <4>1. Tail(sendCh[c]) \in Seq(Nat)
        BY <1>2, <3>2
      <4>. QED BY <3>2, <4>1 DEF NetInv, NetTypeOK
    <3>. QED BY <2>1, <3>1, <3>2
  <2>3. NetTypeOK'
    BY <1>0, <1>1, <2>1, <2>2 DEF NetInv, NetTypeOK
  <2>4. ASSUME NEW x \in Conn PROVE InOrder(x)'
    <3>1. wire'[x] = wire[x] /\ taken'[x] = taken[x]
      BY <1>0, <2>1
    <3>2. outPump'[x] = "done" \/ sendCh'[x] = sendCh[x]
      BY <2>1, <2>2
    <3>. QED BY <1>1, <2>4, <3>1, <3>2, QueueStep
  <2>. QED BY <1>3, <2>3, <2>4 DEF NetInv, DeliveredInOrder, InOrder
<1>. QED BY <1>4, <1>5

LEMMA NetStepInv == NetInv /\ [NetNext]_netvars => NetInv'
<1>. SUFFICES ASSUME NetInv, [NetNext]_netvars PROVE NetInv'
  OBVIOUS
<1>1. CASE UNCHANGED <<pc, outPump>> /\ UNCHANGED outvars
  BY <1>1, QuietStep
<1>2. CASE NetRun \/ startFails \/ Cancel \/ kAccept \/ kQuit \/ UNCHANGED netvars
  BY <1>1, <1>2 DEF NetRun, startHTTP, startTCP, shutdownListeners, shutdownWorkers, shutdownWait, TcpLoopReturns,
         ctxCloses, startFails, Cancel, kAccept, kQuit, RestOfNet, outvars, netvars
<1>3. CASE kBroadcast
  <2>1. UNCHANGED <<pc, outPump>> /\ sends' = sends + 1 /\ Enqueue(conns \cap Ws, sends + 1)
    BY <1>3 DEF kBroadcast
  <2>. QED BY <2>1, QuietStep
<1>4. ASSUME NEW c \in Conn, HangUp(c) \/ kClose(c) PROVE NetInv'
  BY <1>1, <1>4 DEF HangUp, kClose
<1>5. ASSUME NEW c \in Conn, kSend(c) \/ CallText(c) PROVE NetInv'
  <2>1. /\ UNCHANGED <<pc, outPump>>
        /\ UNCHANGED outvars \/ (sends' = sends + 1 /\ Enqueue({c}, sends + 1))
    BY <1>5 DEF kSend, CallText, Call
  <2>. QED BY <2>1, QuietStep
<1>6. ASSUME NEW c \in Conn, PumpWrites(c) \/ PumpFails(c) \/ PumpStops(c) PROVE NetInv'
  BY <1>6, OutPumpStep
<1>7. ASSUME NEW c \in Conn, CallOpen(c) PROVE NetInv'
  <2>1. /\ pc[c] = "opening" /\ pc' = [pc EXCEPT ![c] = "reading"] /\ outPump' = [outPump EXCEPT ![c] = "run"]
        /\ UNCHANGED outvars \/ (sends' = sends + 1 /\ Enqueue({c}, sends + 1))
    BY <1>7 DEF CallOpen, Call
  <2>2. "reading" \in ConnPc
    BY DEF ConnPc
  <2>. QED BY <1>7, <2>1, <2>2, ConnStep
<1>8. ASSUME NEW c \in Conn, ReadFails(c) \/ CallClose(c) \/ ConnEnds(c) \/ handleWSUpgrade(c) \/ TcpAccept(c)
      PROVE  NetInv'
  <2>1. PICK p \in ConnPc : /\ pc' = [pc EXCEPT ![c] = p] /\ p # "out" /\ (p = "opening" => pc[c] = "out")
                            /\ UNCHANGED outPump
                            /\ UNCHANGED outvars \/ (sends' = sends + 1 /\ Enqueue({c}, sends + 1))
    BY <1>8 DEF ReadFails, CallClose, ConnEnds, handleWSUpgrade, TcpAccept, Open, Call, ConnPc
  <2>. QED BY <1>8, <2>1, ConnStep
<1>. QED BY <1>2, <1>3, <1>4, <1>5, <1>6, <1>7, <1>8 DEF NetNext, NetConn

(***************************************************************************)
(* What a connection's outbound pump has written is a prefix of what       *)
(* k.ws.send, k.ws.broadcast, k.tcp.send and handlers' return values got   *)
(* accepted for, in that order and each once, and until the pump ends the  *)
(* rest is in sendCh: whatever workers send at the same time, only a full  *)
(* channel refuses a message and only the connection's end loses one.      *)
(***************************************************************************)
THEOREM OutboundCorrect == NetSpec => []DeliveredInOrder
<1>1. NetInv => DeliveredInOrder
  BY DEF NetInv
<1>. QED BY <1>1, NetInitInv, NetStepInv, PTL DEF NetSpec

-----------------------------------------------------------------------------
(* The dispatch of HTTP requests. *)

RouteIds == {0} \cup {LookupRoute(a, t) : a \in Apps, t \in Target \cup {Nobody}}
Statuses == {-1, 200, 400, 404, 405, 500}
            \cup {decodeHTTPResponse(f) : f \in Forms} \cup {OrDefault(decodeHTTPResponse(f)) : f \in Forms}
ReqStages == {"idle", "slot", "match", "matched", "chain", "fallback", "context", "graphql", "done"}
ReqType == [at : ReqStages, target : Target \cup {Nobody}, w : Nat, hit : BOOLEAN, idx : RouteIds, i : Nat,
            status : Statuses]
LuaCall == {"mw", "route", "http", "context"} \X (Nat \cup RouteIds)

HttpTypeOK ==
    /\ apps \in Seq(Apps) /\ Len(apps) \in 1..MaxApps
    /\ httpSlot \in [Workers -> Req \cup {Nobody}]
    /\ matchIdx \in [Workers -> RouteIds]
    /\ req \in [Req -> ReqType]
    /\ ran \in [Req -> Seq(LuaCall)]

\* What a request's own record says of the worker it runs on and of what ran for it.
InLua == {"match", "matched", "chain", "fallback"}
ReqInv(r) ==
    /\ req[r].w \in 1..Len(apps)
    /\ req[r].at \in InLua => httpSlot[req[r].w] = r
    /\ req[r].at = "matched" => /\ matchIdx[req[r].w] = LookupRoute(App(r), req[r].target)
                                /\ req[r].hit <=> LookupRoute(App(r), req[r].target) # 0
    /\ req[r].at = "chain" => /\ req[r].idx = LookupRoute(App(r), req[r].target)
                              /\ req[r].i \in 1..(Len(App(r).mw) + 1)
                              /\ ToSet(ran[r]) = Existing(App(r), req[r].i - 1) /\ InScriptOrder(ran[r])
    /\ req[r].at = "fallback" => LookupRoute(App(r), req[r].target) = 0
    /\ req[r].at \notin {"chain", "done"} => req[r].i = 1
    /\ req[r].at \notin {"chain", "done", "graphql"} => ran[r] = <<>>
    /\ req[r].at = "graphql" => ran[r] = <<>> \/ ran[r] = <<<<"context", 0>>>>

\* What OwnRoute says of one request.
RanOwn(r) ==
    ran[r] # <<>> =>
        /\ Last(ran[r])[1] = "route" =>
              /\ Last(ran[r])[2] = LookupRoute(App(r), req[r].target)
              /\ ToSet(Front(ran[r])) = Existing(App(r), Len(App(r).mw)) /\ InScriptOrder(Front(ran[r]))
        /\ Last(ran[r])[1] = "mw" =>
              ToSet(ran[r]) = Existing(App(r), Last(ran[r])[2]) /\ InScriptOrder(ran[r])
        /\ Last(ran[r])[1] = "http" => LookupRoute(App(r), req[r].target) = 0 /\ Front(ran[r]) = <<>>

HttpInv == HttpTypeOK /\ \A r \in Req : ReqInv(r) /\ RanOwn(r)

\* Updating one field of a request keeps the others.
LEMMA ReqAtUpdate ==
    ASSUME NEW A, NEW B, NEW C, NEW D, NEW E, NEW F, NEW G, NEW v \in A, NEW q \in [at : A, target : B, w : C, hit : D, idx : E, i : F, status : G]
    PROVE  /\ [q EXCEPT !.at = v] \in [at : A, target : B, w : C, hit : D, idx : E, i : F, status : G]
           /\ [q EXCEPT !.at = v].at = v
           /\ [q EXCEPT !.at = v].target = q.target
           /\ [q EXCEPT !.at = v].w = q.w
           /\ [q EXCEPT !.at = v].hit = q.hit
           /\ [q EXCEPT !.at = v].idx = q.idx
           /\ [q EXCEPT !.at = v].i = q.i
           /\ [q EXCEPT !.at = v].status = q.status
  BY SMT
LEMMA ReqAt ==
    ASSUME NEW q \in ReqType, NEW v \in ReqStages
    PROVE  /\ [q EXCEPT !.at = v] \in ReqType
           /\ [q EXCEPT !.at = v].at = v
           /\ [q EXCEPT !.at = v].target = q.target
           /\ [q EXCEPT !.at = v].w = q.w
           /\ [q EXCEPT !.at = v].hit = q.hit
           /\ [q EXCEPT !.at = v].idx = q.idx
           /\ [q EXCEPT !.at = v].i = q.i
           /\ [q EXCEPT !.at = v].status = q.status
  BY ReqAtUpdate DEF ReqType

LEMMA ReqTargetUpdate ==
    ASSUME NEW A, NEW B, NEW C, NEW D, NEW E, NEW F, NEW G, NEW v \in B, NEW q \in [at : A, target : B, w : C, hit : D, idx : E, i : F, status : G]
    PROVE  /\ [q EXCEPT !.target = v] \in [at : A, target : B, w : C, hit : D, idx : E, i : F, status : G]
           /\ [q EXCEPT !.target = v].target = v
           /\ [q EXCEPT !.target = v].at = q.at
           /\ [q EXCEPT !.target = v].w = q.w
           /\ [q EXCEPT !.target = v].hit = q.hit
           /\ [q EXCEPT !.target = v].idx = q.idx
           /\ [q EXCEPT !.target = v].i = q.i
           /\ [q EXCEPT !.target = v].status = q.status
  BY SMT
LEMMA ReqTarget ==
    ASSUME NEW q \in ReqType, NEW v \in Target \cup {Nobody}
    PROVE  /\ [q EXCEPT !.target = v] \in ReqType
           /\ [q EXCEPT !.target = v].target = v
           /\ [q EXCEPT !.target = v].at = q.at
           /\ [q EXCEPT !.target = v].w = q.w
           /\ [q EXCEPT !.target = v].hit = q.hit
           /\ [q EXCEPT !.target = v].idx = q.idx
           /\ [q EXCEPT !.target = v].i = q.i
           /\ [q EXCEPT !.target = v].status = q.status
  BY ReqTargetUpdate DEF ReqType

LEMMA ReqWUpdate ==
    ASSUME NEW A, NEW B, NEW C, NEW D, NEW E, NEW F, NEW G, NEW v \in C, NEW q \in [at : A, target : B, w : C, hit : D, idx : E, i : F, status : G]
    PROVE  /\ [q EXCEPT !.w = v] \in [at : A, target : B, w : C, hit : D, idx : E, i : F, status : G]
           /\ [q EXCEPT !.w = v].w = v
           /\ [q EXCEPT !.w = v].at = q.at
           /\ [q EXCEPT !.w = v].target = q.target
           /\ [q EXCEPT !.w = v].hit = q.hit
           /\ [q EXCEPT !.w = v].idx = q.idx
           /\ [q EXCEPT !.w = v].i = q.i
           /\ [q EXCEPT !.w = v].status = q.status
  BY SMT
LEMMA ReqW ==
    ASSUME NEW q \in ReqType, NEW v \in Nat
    PROVE  /\ [q EXCEPT !.w = v] \in ReqType
           /\ [q EXCEPT !.w = v].w = v
           /\ [q EXCEPT !.w = v].at = q.at
           /\ [q EXCEPT !.w = v].target = q.target
           /\ [q EXCEPT !.w = v].hit = q.hit
           /\ [q EXCEPT !.w = v].idx = q.idx
           /\ [q EXCEPT !.w = v].i = q.i
           /\ [q EXCEPT !.w = v].status = q.status
  BY ReqWUpdate DEF ReqType

LEMMA ReqHitUpdate ==
    ASSUME NEW A, NEW B, NEW C, NEW D, NEW E, NEW F, NEW G, NEW v \in D, NEW q \in [at : A, target : B, w : C, hit : D, idx : E, i : F, status : G]
    PROVE  /\ [q EXCEPT !.hit = v] \in [at : A, target : B, w : C, hit : D, idx : E, i : F, status : G]
           /\ [q EXCEPT !.hit = v].hit = v
           /\ [q EXCEPT !.hit = v].at = q.at
           /\ [q EXCEPT !.hit = v].target = q.target
           /\ [q EXCEPT !.hit = v].w = q.w
           /\ [q EXCEPT !.hit = v].idx = q.idx
           /\ [q EXCEPT !.hit = v].i = q.i
           /\ [q EXCEPT !.hit = v].status = q.status
  BY SMT
LEMMA ReqHit ==
    ASSUME NEW q \in ReqType, NEW v \in BOOLEAN
    PROVE  /\ [q EXCEPT !.hit = v] \in ReqType
           /\ [q EXCEPT !.hit = v].hit = v
           /\ [q EXCEPT !.hit = v].at = q.at
           /\ [q EXCEPT !.hit = v].target = q.target
           /\ [q EXCEPT !.hit = v].w = q.w
           /\ [q EXCEPT !.hit = v].idx = q.idx
           /\ [q EXCEPT !.hit = v].i = q.i
           /\ [q EXCEPT !.hit = v].status = q.status
  BY ReqHitUpdate DEF ReqType

LEMMA ReqIdxUpdate ==
    ASSUME NEW A, NEW B, NEW C, NEW D, NEW E, NEW F, NEW G, NEW v \in E, NEW q \in [at : A, target : B, w : C, hit : D, idx : E, i : F, status : G]
    PROVE  /\ [q EXCEPT !.idx = v] \in [at : A, target : B, w : C, hit : D, idx : E, i : F, status : G]
           /\ [q EXCEPT !.idx = v].idx = v
           /\ [q EXCEPT !.idx = v].at = q.at
           /\ [q EXCEPT !.idx = v].target = q.target
           /\ [q EXCEPT !.idx = v].w = q.w
           /\ [q EXCEPT !.idx = v].hit = q.hit
           /\ [q EXCEPT !.idx = v].i = q.i
           /\ [q EXCEPT !.idx = v].status = q.status
  BY SMT
LEMMA ReqIdx ==
    ASSUME NEW q \in ReqType, NEW v \in RouteIds
    PROVE  /\ [q EXCEPT !.idx = v] \in ReqType
           /\ [q EXCEPT !.idx = v].idx = v
           /\ [q EXCEPT !.idx = v].at = q.at
           /\ [q EXCEPT !.idx = v].target = q.target
           /\ [q EXCEPT !.idx = v].w = q.w
           /\ [q EXCEPT !.idx = v].hit = q.hit
           /\ [q EXCEPT !.idx = v].i = q.i
           /\ [q EXCEPT !.idx = v].status = q.status
  BY ReqIdxUpdate DEF ReqType

LEMMA ReqIUpdate ==
    ASSUME NEW A, NEW B, NEW C, NEW D, NEW E, NEW F, NEW G, NEW v \in F, NEW q \in [at : A, target : B, w : C, hit : D, idx : E, i : F, status : G]
    PROVE  /\ [q EXCEPT !.i = v] \in [at : A, target : B, w : C, hit : D, idx : E, i : F, status : G]
           /\ [q EXCEPT !.i = v].i = v
           /\ [q EXCEPT !.i = v].at = q.at
           /\ [q EXCEPT !.i = v].target = q.target
           /\ [q EXCEPT !.i = v].w = q.w
           /\ [q EXCEPT !.i = v].hit = q.hit
           /\ [q EXCEPT !.i = v].idx = q.idx
           /\ [q EXCEPT !.i = v].status = q.status
  BY SMT
LEMMA ReqI ==
    ASSUME NEW q \in ReqType, NEW v \in Nat
    PROVE  /\ [q EXCEPT !.i = v] \in ReqType
           /\ [q EXCEPT !.i = v].i = v
           /\ [q EXCEPT !.i = v].at = q.at
           /\ [q EXCEPT !.i = v].target = q.target
           /\ [q EXCEPT !.i = v].w = q.w
           /\ [q EXCEPT !.i = v].hit = q.hit
           /\ [q EXCEPT !.i = v].idx = q.idx
           /\ [q EXCEPT !.i = v].status = q.status
  BY ReqIUpdate DEF ReqType

LEMMA ReqStatusUpdate ==
    ASSUME NEW A, NEW B, NEW C, NEW D, NEW E, NEW F, NEW G, NEW v \in G, NEW q \in [at : A, target : B, w : C, hit : D, idx : E, i : F, status : G]
    PROVE  /\ [q EXCEPT !.status = v] \in [at : A, target : B, w : C, hit : D, idx : E, i : F, status : G]
           /\ [q EXCEPT !.status = v].status = v
           /\ [q EXCEPT !.status = v].at = q.at
           /\ [q EXCEPT !.status = v].target = q.target
           /\ [q EXCEPT !.status = v].w = q.w
           /\ [q EXCEPT !.status = v].hit = q.hit
           /\ [q EXCEPT !.status = v].idx = q.idx
           /\ [q EXCEPT !.status = v].i = q.i
  BY SMT
LEMMA ReqStatus ==
    ASSUME NEW q \in ReqType, NEW v \in Statuses
    PROVE  /\ [q EXCEPT !.status = v] \in ReqType
           /\ [q EXCEPT !.status = v].status = v
           /\ [q EXCEPT !.status = v].at = q.at
           /\ [q EXCEPT !.status = v].target = q.target
           /\ [q EXCEPT !.status = v].w = q.w
           /\ [q EXCEPT !.status = v].hit = q.hit
           /\ [q EXCEPT !.status = v].idx = q.idx
           /\ [q EXCEPT !.status = v].i = q.i
  BY ReqStatusUpdate DEF ReqType


\* What a call adds to the calls made for a request.
LEMMA AppendCall ==
    ASSUME NEW S, NEW s \in Seq(S), NEW x \in S
    PROVE  /\ Append(s, x) \in Seq(S) /\ Append(s, x) # <<>> /\ Last(Append(s, x)) = x /\ Front(Append(s, x)) = s
           /\ ToSet(Append(s, x)) = ToSet(s) \cup {x}
<1>1. /\ Append(s, x) \in Seq(S) /\ Append(s, x) # <<>> /\ Len(Append(s, x)) = Len(s) + 1
      /\ \A i \in 1..Len(s) : Append(s, x)[i] = s[i]
      /\ Append(s, x)[Len(s) + 1] = x
  BY AppendProperties
<1>2. Last(Append(s, x)) = x
  BY <1>1 DEF Last
<1>3. Front(Append(s, x)) = s
  <2>1. PICK u : u = Append(s, x)
    OBVIOUS
  <2>2. u \in Seq(S) /\ Len(u) = Len(s) + 1 /\ \A i \in 1..Len(s) : u[i] = s[i]
    BY <1>1, <2>1
  <2>3. SubSeq(u, 1, Len(s)) = s
    BY <2>2
  <2>4. Len(u) - 1 = Len(s)
    BY <2>2
  <2>. QED BY <2>1, <2>3, <2>4 DEF Front
<1>4. ToSet(Append(s, x)) = ToSet(s) \cup {x}
  <2>1. DOMAIN Append(s, x) = 1..(Len(s) + 1) /\ DOMAIN s = 1..Len(s) /\ Len(s) \in Nat
    BY <1>1
  <2>. QED BY <1>1, <2>1 DEF ToSet
<1>. QED BY <1>1, <1>2, <1>3, <1>4

LEMMA ExistingStep ==
    ASSUME NEW a, NEW n \in Nat \ {0}
    PROVE  /\ Existing(a, 0) = {}
           /\ a.mw[n] = "missing" => Existing(a, n) = Existing(a, n - 1)
           /\ a.mw[n] # "missing" => Existing(a, n) = Existing(a, n - 1) \cup {<<"mw", n>>}
<1>1. 1..n = 1..(n - 1) \cup {n} /\ 1..0 = {}
  OBVIOUS
<1>2. Existing(a, 0) = {}
  BY <1>1 DEF Existing
<1>3. ASSUME a.mw[n] = "missing" PROVE Existing(a, n) = Existing(a, n - 1)
  <2>1. {j \in 1..n : a.mw[j] # "missing"} = {j \in 1..(n - 1) : a.mw[j] # "missing"}
    BY <1>1, <1>3
  <2>. QED BY <2>1, Zenon DEF Existing
<1>4. ASSUME a.mw[n] # "missing" PROVE Existing(a, n) = Existing(a, n - 1) \cup {<<"mw", n>>}
  <2>1. {j \in 1..n : a.mw[j] # "missing"} = {j \in 1..(n - 1) : a.mw[j] # "missing"} \cup {n}
    BY <1>1, <1>4
  <2>. QED BY <2>1, Zenon DEF Existing
<1>. QED BY <1>2, <1>3, <1>4

\* The next middleware keeps the order.
LEMMA OrderStep ==
    ASSUME NEW a, NEW n \in Nat \ {0}, NEW s \in Seq(LuaCall), ToSet(s) = Existing(a, n - 1), InScriptOrder(s)
    PROVE  InScriptOrder(Append(s, <<"mw", n>>))
<1>1. \A j \in 1..Len(s) : \E k \in 1..(n - 1) : s[j] = <<"mw", k>>
  <2>1. \A j \in 1..Len(s) : s[j] \in ToSet(s)
    BY DEF ToSet
  <2>. QED BY <2>1 DEF Existing
<1>2. \A j \in 1..Len(s) : s[j][2] < n
  BY <1>1
<1>3. PICK x : x = <<"mw", n>>
  OBVIOUS
<1>4. x[2] = n
  BY <1>3
<1>5. PICK u : u = Append(s, x)
  OBVIOUS
<1>6. /\ DOMAIN u = 1..(Len(s) + 1) /\ Len(s) \in Nat /\ u[Len(s) + 1] = x /\ DOMAIN s = 1..Len(s)
      /\ \A j \in 1..Len(s) : u[j] = s[j]
  BY <1>5
<1>7. ASSUME NEW j \in DOMAIN u, NEW k \in DOMAIN u, j < k PROVE u[j][2] < u[k][2]
  <2>1. j \in 1..Len(s) /\ u[j] = s[j]
    BY <1>6, <1>7
  <2>2. CASE k = Len(s) + 1
    BY <1>2, <1>4, <1>6, <2>1, <2>2
  <2>3. CASE k \in 1..Len(s)
    BY <1>6, <1>7, <2>1, <2>3 DEF InScriptOrder
  <2>. QED BY <1>6, <2>2, <2>3
<1>. QED BY <1>3, <1>5, <1>7 DEF InScriptOrder

\* No call of a route that the script does not declare.
LEMMA NoRoutes ==
    ASSUME NEW a, NEW t, a.routes = <<>>
    PROVE  LookupRoute(a, t) = 0
<1>1. InTree(a) = {}
  <2>1. Len(a.routes) = 0 /\ 0..0 = {0}
    OBVIOUS
  <2>2. PICK f : f = [n \in 0..Len(a.routes) |-> {}]
    OBVIOUS
  <2>. QED BY <2>1, <2>2, Zenon DEF InTree
<1>. QED BY <1>1 DEF LookupRoute

\* A request keeps its invariant while others run: its worker's script stays, and its slot is its own.
LEMMA OtherReq ==
    ASSUME HttpInv, NEW x \in Req, req'[x] = req[x], ran'[x] = ran[x],
           Len(apps') \in Nat, Len(apps) <= Len(apps'), \A w \in 1..Len(apps) : apps'[w] = apps[w],
           httpSlot[req[x].w] = x => httpSlot'[req[x].w] = x /\ matchIdx'[req[x].w] = matchIdx[req[x].w]
    PROVE  ReqInv(x)' /\ RanOwn(x)'
<1>1. ReqInv(x) /\ RanOwn(x) /\ Len(apps) \in Nat
  BY DEF HttpInv, HttpTypeOK
<1>2. req[x].w \in 1..Len(apps) /\ req'[x].w \in 1..Len(apps')
  BY <1>1 DEF ReqInv
<1>3. App(x)' = App(x)
  BY <1>2 DEF App
<1>4. ReqInv(x)'
  BY <1>1, <1>2, <1>3 DEF ReqInv, InLua
<1>5. RanOwn(x)'
  BY <1>1, <1>3 DEF RanOwn
<1>. QED BY <1>4, <1>5

\* A step of one request: it keeps its own invariant and the other requests' slots.
LEMMA OwnStep ==
    ASSUME HttpInv, NEW r \in Req, HttpTypeOK', UNCHANGED apps, ReqInv(r)', RanOwn(r)',
           \A x \in Req : x # r => req'[x] = req[x] /\ ran'[x] = ran[x],
           \A w \in Workers : httpSlot[w] \notin {r, Nobody} => httpSlot'[w] = httpSlot[w] /\ matchIdx'[w] = matchIdx[w]
    PROVE  HttpInv'
<1>1. ASSUME NEW x \in Req, x # r PROVE ReqInv(x)' /\ RanOwn(x)'
  <2>1. req[x].w \in 1..Len(apps) /\ Len(apps) \in 1..MaxApps /\ ReqInv(x)
    BY DEF HttpInv, HttpTypeOK, ReqInv
  <2>2. req[x].w \in Workers
    BY <2>1, EndpointsAssumption DEF Workers
  <2>3. httpSlot[req[x].w] = x => httpSlot'[req[x].w] = x /\ matchIdx'[req[x].w] = matchIdx[req[x].w]
    BY <1>1, <2>2, EndpointsAssumption
  <2>4. /\ Len(apps') \in Nat /\ Len(apps) <= Len(apps') /\ \A w \in 1..Len(apps) : apps'[w] = apps[w]
    BY <2>1, EndpointsAssumption
  <2>. QED BY <1>1, <2>3, <2>4, OtherReq
<1>. QED BY <1>1 DEF HttpInv

LEMMA OwnWorker ==
    ASSUME HttpInv, NEW r \in Req
    PROVE  /\ req[r] \in ReqType /\ req[r].w \in 1..Len(apps) /\ req[r].w \in Workers /\ App(r) \in Apps
           /\ ran[r] \in Seq(LuaCall)
           /\ Len(App(r).mw) \in Nat /\ ReqInv(r) /\ RanOwn(r)
<1>1. /\ req[r].w \in 1..Len(apps) /\ Len(apps) \in 1..MaxApps /\ apps \in Seq(Apps) /\ ReqInv(r) /\ RanOwn(r)
      /\ req[r] \in ReqType /\ ran[r] \in Seq(LuaCall)
  BY DEF HttpInv, HttpTypeOK, ReqInv
<1>2. req[r].w \in Workers
  BY <1>1, EndpointsAssumption DEF Workers
<1>3. App(r) \in Apps
  BY <1>1 DEF App
<1>4. Len(App(r).mw) \in Nat
  BY <1>3, EndpointsAssumption
<1>. QED BY <1>1, <1>2, <1>3, <1>4

\* The answer ends the request and frees its slot, nobody else's.
LEMMA AnswerFacts ==
    ASSUME HttpInv, NEW r \in Req, NEW st \in Statuses, answer(r, st)
    PROVE  /\ req' \in [Req -> ReqType] /\ req'[r].at = "done"
           /\ req'[r].target = req[r].target /\ req'[r].w = req[r].w
           /\ \A x \in Req : x # r => req'[x] = req[x]
           /\ httpSlot' \in [Workers -> Req \cup {Nobody}]
           /\ \A w \in Workers : httpSlot[w] # r => httpSlot'[w] = httpSlot[w]
<1>0. req[r] \in ReqType /\ req[r].w \in Workers
  BY OwnWorker
<1>1. PICK p : p = [req[r] EXCEPT !.at = "done"]
  OBVIOUS
<1>2. p \in ReqType /\ p.at = "done" /\ p.target = req[r].target /\ p.w = req[r].w
  BY <1>0, <1>1, ReqAt DEF ReqStages
<1>3. PICK q : q = [p EXCEPT !.status = st]
  OBVIOUS
<1>4. q \in ReqType /\ q.at = "done" /\ q.target = req[r].target /\ q.w = req[r].w
  BY <1>2, <1>3, ReqStatus
<1>5. req' \in [Req -> ReqType] /\ req'[r] = q /\ \A x \in Req : x # r => req'[x] = req[x]
  <2>1. PICK f : f = [req EXCEPT ![r].at = "done"]
    OBVIOUS
  <2>2. f = [req EXCEPT ![r] = p]
    BY <1>1, <2>1, Zenon
  <2>3. f \in [Req -> ReqType] /\ f[r] = p /\ \A x \in Req : x # r => f[x] = req[x]
    BY <1>2, <2>2 DEF HttpInv, HttpTypeOK
  <2>4. req' = [f EXCEPT ![r].status = st]
    BY <2>1, Zenon DEF answer
  <2>5. req' = [f EXCEPT ![r] = q]
    BY <1>3, <2>3, <2>4, Zenon
  <2>. QED BY <1>4, <2>3, <2>5
<1>6. /\ httpSlot' \in [Workers -> Req \cup {Nobody}]
      /\ \A w \in Workers : httpSlot[w] # r => httpSlot'[w] = httpSlot[w]
  <2>1. httpSlot' = [httpSlot EXCEPT ![req[r].w] = IF @ = r THEN Nobody ELSE @]
    BY DEF answer
  <2>. QED BY <1>0, <2>1 DEF HttpInv, HttpTypeOK
<1>. QED BY <1>4, <1>5, <1>6

LEMMA Answers ==
    ASSUME HttpInv, NEW r \in Req, NEW st \in Statuses, answer(r, st), UNCHANGED <<apps, matchIdx>>,
           UNCHANGED ran \/ ((\E c \in LuaCall : Calls(r, c)) /\ RanOwn(r)')
    PROVE  HttpInv'
<1>1. /\ req' \in [Req -> ReqType] /\ req'[r].at = "done"
      /\ req'[r].target = req[r].target /\ req'[r].w = req[r].w
      /\ \A x \in Req : x # r => req'[x] = req[x]
      /\ httpSlot' \in [Workers -> Req \cup {Nobody}]
      /\ \A w \in Workers : httpSlot[w] # r => httpSlot'[w] = httpSlot[w]
  BY AnswerFacts
<1>2. ran' \in [Req -> Seq(LuaCall)] /\ \A x \in Req : x # r => ran'[x] = ran[x]
  <2>1. ran \in [Req -> Seq(LuaCall)]
    BY DEF HttpInv, HttpTypeOK
  <2>2. CASE UNCHANGED ran
    BY <2>1, <2>2
  <2>3. ASSUME NEW c \in LuaCall, Calls(r, c) PROVE <1>2!1 /\ <1>2!2
    <3>1. Append(ran[r], c) \in Seq(LuaCall)
      BY <2>1
    <3>. QED BY <2>1, <2>3, <3>1 DEF Calls
  <2>. QED BY <2>2, <2>3
<1>3. HttpTypeOK'
  BY <1>1, <1>2 DEF HttpInv, HttpTypeOK
<1>4. ReqInv(r)'
  <2>1. req'[r].w \in 1..Len(apps')
    BY <1>1, OwnWorker
  <2>. QED BY <1>1, <2>1 DEF ReqInv, InLua
<1>5. RanOwn(r)'
  <2>1. CASE UNCHANGED ran
    <3>1. App(r)' = App(r) /\ req'[r].target = req[r].target /\ ran'[r] = ran[r] /\ RanOwn(r)
      BY <1>1, <2>1, OwnWorker DEF App
    <3>. QED BY <3>1 DEF RanOwn
  <2>. QED BY <2>1
<1>. QED BY <1>1, <1>2, <1>3, <1>4, <1>5, OwnStep

\* A request moves on, all else as it was.
LEMMA MoveFacts ==
    ASSUME HttpInv, NEW r \in Req, NEW where \in ReqStages, Moves(r, where)
    PROVE  /\ req' \in [Req -> ReqType] /\ req'[r].at = where
           /\ req'[r].target = req[r].target /\ req'[r].w = req[r].w /\ req'[r].i = req[r].i
           /\ \A x \in Req : x # r => req'[x] = req[x]
<1>0. req[r] \in ReqType
  BY OwnWorker
<1>1. PICK p : p = [req[r] EXCEPT !.at = where]
  OBVIOUS
<1>2. p \in ReqType /\ p.at = where /\ p.target = req[r].target /\ p.w = req[r].w /\ p.i = req[r].i
  BY <1>0, <1>1, ReqAt
<1>3. req' = [req EXCEPT ![r] = p]
  BY <1>1, Zenon DEF Moves
<1>. QED BY <1>2, <1>3 DEF HttpInv, HttpTypeOK

\* The first request of all.
LEMMA HttpInitInv == EndpointsInit => HttpInv
<1>. SUFFICES ASSUME EndpointsInit PROVE HttpInv
  OBVIOUS
<1>1. apps \in Seq(Apps) /\ Len(apps) = 1 /\ 1 \in 1..MaxApps
  BY EndpointsAssumption DEF EndpointsInit
<1>2. NoRequest \in ReqType
  BY DEF NoRequest, ReqType, ReqStages, RouteIds, Statuses
<1>3. /\ httpSlot \in [Workers -> Req \cup {Nobody}]
      /\ matchIdx \in [Workers -> RouteIds]
      /\ req \in [Req -> ReqType]
      /\ ran \in [Req -> Seq(LuaCall)]
  BY <1>2 DEF EndpointsInit, RouteIds
<1>4. ASSUME NEW r \in Req PROVE ReqInv(r) /\ RanOwn(r)
  <2>1. req[r] = NoRequest /\ ran[r] = <<>>
    BY DEF EndpointsInit
  <2>2. req[r].at = "idle" /\ req[r].w = 1 /\ req[r].i = 1
    BY <2>1 DEF NoRequest
  <2>. QED BY <1>1, <2>1, <2>2 DEF ReqInv, RanOwn, InLua
<1>. QED BY <1>1, <1>3, <1>4 DEF HttpInv, HttpTypeOK

LEMMA HttpRequestInv ==
    ASSUME HttpInv, NEW r \in Req, NEW t \in Target, handleHTTP(r, t)
    PROVE  HttpInv'
<1>0. /\ req[r] \in ReqType /\ req[r].w \in 1..Len(apps) /\ Len(apps) \in Nat /\ Len(apps) > 0 /\ ReqInv(r)
      /\ req \in [Req -> ReqType]
  BY OwnWorker DEF HttpInv, HttpTypeOK
<1>1. req[r].at = "idle" /\ ran[r] = <<>> /\ req[r].i = 1
  BY <1>0 DEF handleHTTP, At, ReqInv
<1>2. UNCHANGED <<apps, httpSlot, matchIdx, ran>>
  BY DEF handleHTTP, Kept
<1>3. PICK g : g = [req[r] EXCEPT !.target = t]
  OBVIOUS
<1>4. g \in ReqType /\ g.at = "idle" /\ g.w = req[r].w /\ g.i = 1
  BY <1>0, <1>1, <1>3, ReqTarget
<1>5. /\ req' \in [Req -> ReqType] /\ req'[r].at \in {"slot", "done"} /\ req'[r].w \in 1..Len(apps) /\ req'[r].i = 1
      /\ \A x \in Req : x # r => req'[x] = req[x]
  <2>1. CASE req' = [req EXCEPT ![r].at = "slot", ![r].target = t, ![r].w = Len(apps)]
    <3>1. PICK p : p = [req[r] EXCEPT !.at = "slot"]
      OBVIOUS
    <3>2. p \in ReqType /\ p.at = "slot" /\ p.i = 1
      BY <1>0, <1>1, <3>1, ReqAt DEF ReqStages
    <3>3. PICK q : q = [p EXCEPT !.target = t]
      OBVIOUS
    <3>4. q \in ReqType /\ q.at = "slot" /\ q.i = 1
      BY <3>2, <3>3, ReqTarget
    <3>5. PICK u : u = [q EXCEPT !.w = Len(apps)]
      OBVIOUS
    <3>6. u \in ReqType /\ u.at = "slot" /\ u.i = 1 /\ u.w = Len(apps)
      BY <1>0, <3>4, <3>5, ReqW
    <3>7. PICK f : f = [req EXCEPT ![r].at = "slot"]
      OBVIOUS
    <3>8. f = [req EXCEPT ![r] = p]
      BY <3>1, <3>7, Zenon
    <3>9. f \in [Req -> ReqType] /\ f[r] = p /\ \A x \in Req : x # r => f[x] = req[x]
      BY <1>0, <3>2, <3>8
    <3>10. PICK h : h = [f EXCEPT ![r].target = t]
      OBVIOUS
    <3>11. h = [f EXCEPT ![r] = q]
      BY <3>3, <3>9, <3>10, Zenon
    <3>12. h \in [Req -> ReqType] /\ h[r] = q /\ \A x \in Req : x # r => h[x] = req[x]
      BY <3>4, <3>9, <3>11
    <3>13. req' = [h EXCEPT ![r].w = Len(apps)]
      BY <2>1, <3>7, <3>10, Zenon
    <3>14. req' = [h EXCEPT ![r] = u]
      BY <3>5, <3>12, <3>13, Zenon
    <3>15. req' \in [Req -> ReqType] /\ req'[r] = u /\ \A x \in Req : x # r => req'[x] = req[x]
      BY <3>6, <3>12, <3>14
    <3>. QED BY <1>0, <3>6, <3>15
  <2>2. CASE req' = [req EXCEPT ![r].at = "done", ![r].target = t, ![r].status = 400]
    <3>1. PICK p : p = [req[r] EXCEPT !.at = "done"]
      OBVIOUS
    <3>2. p \in ReqType /\ p.at = "done" /\ p.i = 1 /\ p.w = req[r].w
      BY <1>0, <1>1, <3>1, ReqAt DEF ReqStages
    <3>3. PICK q : q = [p EXCEPT !.target = t]
      OBVIOUS
    <3>4. q \in ReqType /\ q.at = "done" /\ q.i = 1 /\ q.w = req[r].w
      BY <3>2, <3>3, ReqTarget
    <3>5. PICK u : u = [q EXCEPT !.status = 400]
      OBVIOUS
    <3>50. 400 \in Statuses
      BY DEF Statuses
    <3>6. u \in ReqType /\ u.at = "done" /\ u.i = 1 /\ u.w = req[r].w
      BY <3>4, <3>5, <3>50, ReqStatus
    <3>7. PICK f : f = [req EXCEPT ![r].at = "done"]
      OBVIOUS
    <3>8. f = [req EXCEPT ![r] = p]
      BY <3>1, <3>7, Zenon
    <3>9. f \in [Req -> ReqType] /\ f[r] = p /\ \A x \in Req : x # r => f[x] = req[x]
      BY <1>0, <3>2, <3>8
    <3>10. PICK h : h = [f EXCEPT ![r].target = t]
      OBVIOUS
    <3>11. h = [f EXCEPT ![r] = q]
      BY <3>3, <3>9, <3>10, Zenon
    <3>12. h \in [Req -> ReqType] /\ h[r] = q /\ \A x \in Req : x # r => h[x] = req[x]
      BY <3>4, <3>9, <3>11
    <3>13. req' = [h EXCEPT ![r].status = 400]
      BY <2>2, <3>7, <3>10, Zenon
    <3>14. req' = [h EXCEPT ![r] = u]
      BY <3>5, <3>12, <3>13, Zenon
    <3>15. req' \in [Req -> ReqType] /\ req'[r] = u /\ \A x \in Req : x # r => req'[x] = req[x]
      BY <3>6, <3>12, <3>14
    <3>. QED BY <1>0, <3>6, <3>15
  <2>. QED BY <2>1, <2>2 DEF handleHTTP
<1>6. HttpTypeOK'
  BY <1>2, <1>5 DEF HttpInv, HttpTypeOK
<1>7. ReqInv(r)' /\ RanOwn(r)'
  BY <1>1, <1>2, <1>5 DEF ReqInv, RanOwn, InLua
<1>. QED BY <1>2, <1>5, <1>6, <1>7, OwnStep

LEMMA TakeSlotInv ==
    ASSUME HttpInv, NEW r \in Req, takeSlot(r)
    PROVE  HttpInv'
<1>0. /\ req[r] \in ReqType /\ req[r].w \in 1..Len(apps) /\ req[r].w \in Workers /\ ReqInv(r)
      /\ httpSlot \in [Workers -> Req \cup {Nobody}]
  BY OwnWorker DEF HttpInv, HttpTypeOK
<1>1. req[r].at = "slot" /\ ran[r] = <<>> /\ req[r].i = 1 /\ httpSlot[req[r].w] = Nobody
  BY <1>0 DEF takeSlot, At, ReqInv
<1>2. UNCHANGED <<apps, matchIdx, ran>> /\ httpSlot' = [httpSlot EXCEPT ![req[r].w] = r]
  BY DEF takeSlot, Kept
<1>3. PICK where : where = IF App(r).routes # <<>> THEN "match" ELSE "fallback"
  OBVIOUS
<1>4. where \in {"match", "fallback"} /\ where \in ReqStages /\ (where = "fallback" => App(r).routes = <<>>)
  BY <1>3 DEF ReqStages
<1>5. Moves(r, where)
  BY <1>3 DEF takeSlot
<1>6. /\ req' \in [Req -> ReqType] /\ req'[r].at = where
      /\ req'[r].target = req[r].target /\ req'[r].w = req[r].w /\ req'[r].i = req[r].i
      /\ \A x \in Req : x # r => req'[x] = req[x]
  BY <1>4, <1>5, MoveFacts
<1>7. HttpTypeOK'
  BY <1>0, <1>2, <1>6 DEF HttpInv, HttpTypeOK
<1>8. App(r)' = App(r)
  BY <1>2, <1>6 DEF App
<1>9. where = "fallback" => LookupRoute(App(r), req[r].target) = 0
  BY <1>4, NoRoutes
<1>10. httpSlot'[req'[r].w] = r
  BY <1>0, <1>2, <1>6
<1>11. ReqInv(r)' /\ RanOwn(r)'
  BY <1>0, <1>1, <1>2, <1>4, <1>6, <1>8, <1>9, <1>10 DEF ReqInv, RanOwn, InLua
<1>12. \A w \in Workers : httpSlot[w] \notin {r, Nobody} => httpSlot'[w] = httpSlot[w] /\ matchIdx'[w] = matchIdx[w]
  BY <1>0, <1>1, <1>2
<1>. QED BY <1>2, <1>6, <1>7, <1>11, <1>12, OwnStep

LEMMA BusyHTTPInv ==
    ASSUME HttpInv, NEW r \in Req, busyHTTP(r)
    PROVE  HttpInv'
<1>1. 500 \in Statuses
  BY DEF Statuses
<1>2. answer(r, 500) /\ UNCHANGED <<apps, matchIdx>> /\ UNCHANGED ran
  BY DEF busyHTTP, Kept
<1>. QED BY <1>1, <1>2, Answers

LEMMA LookupInv ==
    ASSUME HttpInv, NEW r \in Req, Lookup(r)
    PROVE  HttpInv'
<1>0. /\ req[r] \in ReqType /\ req[r].w \in 1..Len(apps) /\ req[r].w \in Workers /\ ReqInv(r) /\ App(r) \in Apps
      /\ matchIdx \in [Workers -> RouteIds] /\ req \in [Req -> ReqType]
  BY OwnWorker DEF HttpInv, HttpTypeOK
<1>1. req[r].at = "match" /\ ran[r] = <<>> /\ req[r].i = 1 /\ httpSlot[req[r].w] = r
  BY <1>0 DEF Lookup, At, ReqInv, InLua
<1>2. PICK n : n = LookupRoute(App(r), req[r].target)
  OBVIOUS
<1>3. n \in RouteIds
  <2>1. req[r].target \in Target \cup {Nobody}
    BY <1>0 DEF ReqType
  <2>2. \E a \in Apps, t \in Target \cup {Nobody} : n = LookupRoute(a, t)
    BY <1>0, <1>2, <2>1, Zenon
  <2>3. n \in {LookupRoute(a, t) : a \in Apps, t \in Target \cup {Nobody}}
    BY <2>2
  <2>. QED BY <2>3 DEF RouteIds
<1>4. /\ UNCHANGED <<apps, httpSlot, ran>> /\ matchIdx' = [matchIdx EXCEPT ![req[r].w] = n]
      /\ req' = [req EXCEPT ![r].at = "matched", ![r].hit = (n # 0)]
  BY <1>2, Zenon DEF Lookup, Kept
<1>5. PICK b \in BOOLEAN : b = (n # 0)
  BY Zenon
<1>6. PICK p : p = [req[r] EXCEPT !.at = "matched"]
  OBVIOUS
<1>7. p \in ReqType /\ p.at = "matched" /\ p.target = req[r].target /\ p.w = req[r].w /\ p.i = req[r].i
  BY <1>0, <1>6, ReqAt DEF ReqStages
<1>8. PICK q : q = [p EXCEPT !.hit = b]
  OBVIOUS
<1>9. q \in ReqType /\ q.at = "matched" /\ q.target = req[r].target /\ q.w = req[r].w /\ q.i = req[r].i /\ q.hit = b
  BY <1>7, <1>8, ReqHit
<1>10. req' \in [Req -> ReqType] /\ req'[r] = q /\ \A x \in Req : x # r => req'[x] = req[x]
  <2>1. PICK f : f = [req EXCEPT ![r].at = "matched"]
    OBVIOUS
  <2>2. f = [req EXCEPT ![r] = p]
    BY <1>6, <2>1, Zenon
  <2>3. f \in [Req -> ReqType] /\ f[r] = p /\ \A x \in Req : x # r => f[x] = req[x]
    BY <1>0, <1>7, <2>2
  <2>4. req' = [f EXCEPT ![r].hit = b]
    BY <1>4, <1>5, <2>1, Zenon
  <2>5. req' = [f EXCEPT ![r] = q]
    BY <1>8, <2>3, <2>4, Zenon
  <2>. QED BY <1>9, <2>3, <2>5
<1>11. matchIdx' \in [Workers -> RouteIds] /\ matchIdx'[req[r].w] = n
  BY <1>0, <1>3, <1>4
<1>12. HttpTypeOK'
  BY <1>4, <1>10, <1>11 DEF HttpInv, HttpTypeOK
<1>13. App(r)' = App(r)
  BY <1>4, <1>9, <1>10 DEF App
<1>14. req'[r].hit <=> LookupRoute(App(r), req[r].target) # 0
  BY <1>2, <1>5, <1>9, <1>10, Zenon
<1>15. ReqInv(r)' /\ RanOwn(r)'
  BY <1>0, <1>1, <1>2, <1>4, <1>9, <1>10, <1>11, <1>13, <1>14 DEF ReqInv, RanOwn, InLua
<1>16. \A w \in Workers : httpSlot[w] \notin {r, Nobody} => httpSlot'[w] = httpSlot[w] /\ matchIdx'[w] = matchIdx[w]
  BY <1>0, <1>1, <1>4
<1>. QED BY <1>4, <1>10, <1>12, <1>15, <1>16, OwnStep

LEMMA MatchInv ==
    ASSUME HttpInv, NEW r \in Req, Match(r)
    PROVE  HttpInv'
<1>0. /\ req[r] \in ReqType /\ req[r].w \in 1..Len(apps) /\ req[r].w \in Workers /\ ReqInv(r) /\ App(r) \in Apps
      /\ matchIdx \in [Workers -> RouteIds] /\ req \in [Req -> ReqType] /\ Len(App(r).mw) \in Nat
  BY OwnWorker DEF HttpInv, HttpTypeOK
<1>1. /\ req[r].at = "matched" /\ ran[r] = <<>> /\ req[r].i = 1 /\ httpSlot[req[r].w] = r
      /\ matchIdx[req[r].w] = LookupRoute(App(r), req[r].target)
      /\ req[r].hit <=> LookupRoute(App(r), req[r].target) # 0
  BY <1>0 DEF Match, At, ReqInv, InLua
<1>2. PICK n : n = IF req[r].hit THEN matchIdx[req[r].w] ELSE 0
  OBVIOUS
<1>3. n = LookupRoute(App(r), req[r].target)
  <2>1. CASE req[r].hit
    BY <1>1, <1>2, <2>1, Zenon
  <2>2. CASE ~req[r].hit
    BY <1>1, <1>2, <2>2, Zenon
  <2>. QED BY <2>1, <2>2
<1>4. n \in RouteIds
  BY <1>0, <1>1, <1>3
<1>5. UNCHANGED <<apps, httpSlot, matchIdx, ran>>
  BY DEF Match, Kept
<1>6. IF n = 0 THEN Moves(r, "fallback") ELSE req' = [req EXCEPT ![r].at = "chain", ![r].idx = n]
  BY <1>2, Zenon DEF Match
<1>7. \A w \in Workers : httpSlot[w] \notin {r, Nobody} => httpSlot'[w] = httpSlot[w] /\ matchIdx'[w] = matchIdx[w]
  BY <1>5
<1>8. CASE n = 0
  <2>1. /\ req' \in [Req -> ReqType] /\ req'[r].at = "fallback"
        /\ req'[r].target = req[r].target /\ req'[r].w = req[r].w /\ req'[r].i = req[r].i
        /\ \A x \in Req : x # r => req'[x] = req[x]
    <3>1. Moves(r, "fallback") /\ "fallback" \in ReqStages
      BY <1>6, <1>8 DEF ReqStages
    <3>. QED BY <3>1, MoveFacts
  <2>2. HttpTypeOK'
    BY <1>5, <2>1 DEF HttpInv, HttpTypeOK
  <2>3. App(r)' = App(r)
    BY <1>5, <2>1 DEF App
  <2>4. ReqInv(r)' /\ RanOwn(r)'
    BY <1>0, <1>1, <1>3, <1>5, <1>8, <2>1, <2>3 DEF ReqInv, RanOwn, InLua
  <2>. QED BY <1>5, <1>7, <2>1, <2>2, <2>4, OwnStep
<1>9. CASE n # 0
  <2>1. PICK p : p = [req[r] EXCEPT !.at = "chain"]
    OBVIOUS
  <2>2. p \in ReqType /\ p.at = "chain" /\ p.target = req[r].target /\ p.w = req[r].w /\ p.i = req[r].i
    BY <1>0, <2>1, ReqAt DEF ReqStages
  <2>3. PICK q : q = [p EXCEPT !.idx = n]
    OBVIOUS
  <2>4. q \in ReqType /\ q.at = "chain" /\ q.target = req[r].target /\ q.w = req[r].w /\ q.i = req[r].i /\ q.idx = n
    BY <1>4, <2>2, <2>3, ReqIdx
  <2>5. req' \in [Req -> ReqType] /\ req'[r] = q /\ \A x \in Req : x # r => req'[x] = req[x]
    <3>1. PICK f : f = [req EXCEPT ![r].at = "chain"]
      OBVIOUS
    <3>2. f = [req EXCEPT ![r] = p]
      BY <2>1, <3>1, Zenon
    <3>3. f \in [Req -> ReqType] /\ f[r] = p /\ \A x \in Req : x # r => f[x] = req[x]
      BY <1>0, <2>2, <3>2
    <3>4. req' = [f EXCEPT ![r].idx = n]
      BY <1>6, <1>9, <3>1, Zenon
    <3>5. req' = [f EXCEPT ![r] = q]
      BY <2>3, <3>3, <3>4, Zenon
    <3>. QED BY <2>4, <3>3, <3>5
  <2>6. HttpTypeOK'
    BY <1>5, <2>5 DEF HttpInv, HttpTypeOK
  <2>7. App(r)' = App(r)
    BY <1>5, <2>4, <2>5 DEF App
  <2>8. ToSet(ran[r]) = Existing(App(r), req[r].i - 1) /\ InScriptOrder(ran[r])
    <3>1. ToSet(<<>>) = {} /\ InScriptOrder(<<>>)
      BY DEF ToSet, InScriptOrder
    <3>2. Existing(App(r), 0) = {} /\ req[r].i - 1 = 0
      BY <1>1, ExistingStep
    <3>. QED BY <1>1, <3>1, <3>2
  <2>9. req'[r].i \in 1..(Len(App(r).mw) + 1)
    BY <1>0, <1>1, <2>4, <2>5
  <2>10. ReqInv(r)'
    BY <1>0, <1>1, <1>3, <1>5, <2>4, <2>5, <2>7, <2>8, <2>9 DEF ReqInv, InLua
  <2>11. RanOwn(r)'
    BY <1>1, <1>5 DEF RanOwn
  <2>. QED BY <1>5, <1>7, <2>5, <2>6, <2>10, <2>11, OwnStep
<1>. QED BY <1>8, <1>9

\* A call of a middleware that exists is its own call, whatever the request does next.
LEMMA MiddlewareOwn ==
    ASSUME HttpInv, NEW r \in Req, At(r, "chain"), req[r].i <= Len(App(r).mw),
           App(r).mw[req[r].i] # "missing", Calls(r, <<"mw", req[r].i>>),
           req'[r].target = req[r].target, req'[r].w = req[r].w, UNCHANGED apps
    PROVE  RanOwn(r)' /\ <<"mw", req[r].i>> \in LuaCall
<1>0. /\ ReqInv(r) /\ ran[r] \in Seq(LuaCall) /\ ran \in [Req -> Seq(LuaCall)]
      /\ Len(App(r).mw) \in Nat
  BY OwnWorker DEF HttpInv, HttpTypeOK
<1>1. /\ req[r].i \in 1..(Len(App(r).mw) + 1)
      /\ ToSet(ran[r]) = Existing(App(r), req[r].i - 1) /\ InScriptOrder(ran[r])
  BY <1>0 DEF At, ReqInv
<1>2. PICK n : n = req[r].i
  OBVIOUS
<1>3. n \in Nat \ {0}
  BY <1>0, <1>1, <1>2
<1>4. PICK c : c = <<"mw", n>>
  OBVIOUS
<1>5. c \in LuaCall /\ c[1] = "mw" /\ c[2] = n
  BY <1>3, <1>4 DEF LuaCall
<1>6. /\ Last(Append(ran[r], c)) = c
      /\ ToSet(Append(ran[r], c)) = ToSet(ran[r]) \cup {c}
  BY <1>0, <1>5, AppendCall
<1>7. ran'[r] = Append(ran[r], c)
  BY <1>0, <1>2, <1>4 DEF Calls
<1>8. Existing(App(r), n) = Existing(App(r), n - 1) \cup {c}
  BY <1>2, <1>3, <1>4, ExistingStep
<1>9. InScriptOrder(ran'[r])
  <2>1. ran[r] \in Seq(LuaCall) /\ ToSet(ran[r]) = Existing(App(r), n - 1) /\ InScriptOrder(ran[r])
    BY <1>0, <1>1, <1>2
  <2>2. InScriptOrder(Append(ran[r], <<"mw", n>>))
    BY <1>3, <2>1, OrderStep
  <2>. QED BY <1>4, <1>7, <2>2
<1>10. App(r)' = App(r)
  BY DEF App
<1>11. Last(ran'[r]) = c /\ ToSet(ran'[r]) = Existing(App(r), n)
  BY <1>1, <1>2, <1>6, <1>7, <1>8
<1>12. RanOwn(r)'
  BY <1>5, <1>9, <1>10, <1>11 DEF RanOwn
<1>. QED BY <1>2, <1>4, <1>5, <1>12

\* The middleware is called, or passed over, and the request has come one further in the chain.
LEMMA NextMiddleware ==
    ASSUME HttpInv, NEW r \in Req, At(r, "chain"), req[r].i <= Len(App(r).mw),
           req' = [req EXCEPT ![r].i = @ + 1], UNCHANGED <<apps, httpSlot, matchIdx>>,
           \/ App(r).mw[req[r].i] = "missing" /\ UNCHANGED ran
           \/ App(r).mw[req[r].i] # "missing" /\ Calls(r, <<"mw", req[r].i>>)
    PROVE  HttpInv'
<1>0. /\ req[r] \in ReqType /\ req[r].w \in 1..Len(apps) /\ req[r].w \in Workers /\ ReqInv(r) /\ RanOwn(r)
      /\ req \in [Req -> ReqType] /\ Len(App(r).mw) \in Nat /\ ran \in [Req -> Seq(LuaCall)]
  BY OwnWorker DEF HttpInv, HttpTypeOK
<1>1. /\ req[r].at = "chain" /\ httpSlot[req[r].w] = r
      /\ req[r].idx = LookupRoute(App(r), req[r].target)
      /\ req[r].i \in 1..(Len(App(r).mw) + 1)
      /\ ToSet(ran[r]) = Existing(App(r), req[r].i - 1) /\ InScriptOrder(ran[r])
  BY <1>0 DEF At, ReqInv, InLua
<1>2. PICK n : n = req[r].i
  OBVIOUS
<1>3. n \in Nat \ {0} /\ n + 1 \in Nat /\ n + 1 \in 1..(Len(App(r).mw) + 1) /\ (n + 1) - 1 = n
  <2>1. PICK m : m = Len(App(r).mw)
    OBVIOUS
  <2>2. m \in Nat /\ n \in 1..(m + 1) /\ n <= m
    BY <1>0, <1>1, <1>2, <2>1
  <2>3. n \in Nat \ {0} /\ n + 1 \in Nat /\ n + 1 \in 1..(m + 1) /\ (n + 1) - 1 = n
    BY <2>2
  <2>. QED BY <2>1, <2>3
<1>4. PICK q : q = [req[r] EXCEPT !.i = n + 1]
  OBVIOUS
<1>5. q \in ReqType /\ q.at = "chain" /\ q.target = req[r].target /\ q.w = req[r].w /\ q.idx = req[r].idx /\ q.i = n + 1
  BY <1>0, <1>1, <1>3, <1>4, ReqI
<1>6. req' \in [Req -> ReqType] /\ req'[r] = q /\ \A x \in Req : x # r => req'[x] = req[x]
  <2>1. req' = [req EXCEPT ![r] = q]
    BY <1>2, <1>4, Zenon
  <2>. QED BY <1>0, <1>5, <2>1
<1>7. App(r)' = App(r)
  BY <1>5, <1>6 DEF App
<1>8. /\ ran' \in [Req -> Seq(LuaCall)] /\ \A x \in Req : x # r => ran'[x] = ran[x]
      /\ ToSet(ran'[r]) = Existing(App(r), n) /\ InScriptOrder(ran'[r])
  <2>1. CASE App(r).mw[n] = "missing" /\ UNCHANGED ran
    BY <1>0, <1>1, <1>2, <1>3, <2>1, ExistingStep
  <2>2. CASE App(r).mw[n] # "missing" /\ Calls(r, <<"mw", n>>)
    <3>1. PICK c : c = <<"mw", n>>
      OBVIOUS
    <3>2. c \in LuaCall
      BY <1>3, <3>1 DEF LuaCall
    <3>3. /\ Append(ran[r], c) \in Seq(LuaCall) /\ ToSet(Append(ran[r], c)) = ToSet(ran[r]) \cup {c}
      BY <1>0, <3>2, AppendCall
    <3>4. /\ ran' \in [Req -> Seq(LuaCall)] /\ ran'[r] = Append(ran[r], c)
          /\ \A x \in Req : x # r => ran'[x] = ran[x]
      BY <1>0, <2>2, <3>1, <3>3 DEF Calls
    <3>5. Existing(App(r), n) = Existing(App(r), n - 1) \cup {c}
      BY <1>3, <2>2, <3>1, ExistingStep
    <3>6. InScriptOrder(ran'[r])
      <4>1. ran[r] \in Seq(LuaCall) /\ ToSet(ran[r]) = Existing(App(r), n - 1) /\ InScriptOrder(ran[r])
        BY <1>0, <1>1, <1>2
      <4>2. InScriptOrder(Append(ran[r], <<"mw", n>>))
        BY <1>3, <4>1, OrderStep
      <4>. QED BY <3>1, <3>4, <4>2
    <3>. QED BY <1>1, <1>2, <3>3, <3>4, <3>5, <3>6
  <2>. QED BY <1>2, <2>1, <2>2
<1>9. HttpTypeOK'
  BY <1>6, <1>8 DEF HttpInv, HttpTypeOK
<1>10. ReqInv(r)'
  <2>1. req'[r].i - 1 = n /\ req'[r].i \in 1..(Len(App(r).mw) + 1)
    BY <1>3, <1>5, <1>6
  <2>. QED BY <1>0, <1>1, <1>5, <1>6, <1>7, <1>8, <2>1 DEF ReqInv, InLua
<1>11. RanOwn(r)'
  <2>1. CASE UNCHANGED ran
    BY <1>0, <1>5, <1>6, <1>7, <2>1 DEF RanOwn
  <2>2. CASE App(r).mw[req[r].i] # "missing" /\ Calls(r, <<"mw", req[r].i>>)
    <3>1. req'[r].target = req[r].target /\ req'[r].w = req[r].w
      BY <1>5, <1>6
    <3>. QED BY <2>2, <3>1, MiddlewareOwn
  <2>. QED BY <2>1, <2>2
<1>. QED BY <1>6, <1>8, <1>9, <1>10, <1>11, OwnStep

LEMMA MiddlewareInv ==
    ASSUME HttpInv, NEW r \in Req, Middleware(r)
    PROVE  HttpInv'
<1>0. UNCHANGED <<apps, matchIdx>> /\ At(r, "chain") /\ req[r].i <= Len(App(r).mw)
  BY DEF Middleware, Kept
<1>1. ASSUME App(r).mw[req[r].i] = "missing", req' = [req EXCEPT ![r].i = @ + 1], UNCHANGED <<ran, httpSlot>>
      PROVE  HttpInv'
  BY <1>0, <1>1, NextMiddleware
<1>2. ASSUME App(r).mw[req[r].i] # "missing", Calls(r, <<"mw", req[r].i>>),
             req' = [req EXCEPT ![r].i = @ + 1], UNCHANGED httpSlot
      PROVE  HttpInv'
  BY <1>0, <1>2, NextMiddleware
<1>3. ASSUME App(r).mw[req[r].i] # "missing", Calls(r, <<"mw", req[r].i>>), NEW st \in Statuses, answer(r, st)
      PROVE  HttpInv'
  <2>1. req'[r].target = req[r].target /\ req'[r].w = req[r].w
    BY <1>3, AnswerFacts
  <2>2. RanOwn(r)' /\ <<"mw", req[r].i>> \in LuaCall
    BY <1>0, <1>3, <2>1, MiddlewareOwn
  <2>3. (\E c \in LuaCall : Calls(r, c)) /\ RanOwn(r)'
    BY <1>3, <2>2
  <2>. QED BY <1>0, <1>3, <2>3, Answers
<1>4. 500 \in Statuses /\ \A f \in Forms : decodeHTTPResponse(f) \in Statuses
  BY DEF Statuses
<1>. QED BY <1>1, <1>2, <1>3, <1>4, Zenon DEF Middleware

\* The handler of the matched route, called when the whole chain has gone on.
LEMMA RouteHandlerInv ==
    ASSUME HttpInv, NEW r \in Req, RouteHandler(r)
    PROVE  HttpInv'
<1>0. UNCHANGED <<apps, matchIdx>> /\ At(r, "chain") /\ req[r].i > Len(App(r).mw)
  BY DEF RouteHandler, Kept
<1>1. 500 \in Statuses /\ \A f \in Forms : OrDefault(decodeHTTPResponse(f)) \in Statuses
  BY DEF Statuses
<1>2. ASSUME answer(r, 500), UNCHANGED ran
      PROVE  HttpInv'
  BY <1>0, <1>1, <1>2, Answers
<1>3. ASSUME Calls(r, <<"route", req[r].idx>>), NEW st \in Statuses, answer(r, st)
      PROVE  HttpInv'
  <2>0. /\ ReqInv(r) /\ ran[r] \in Seq(LuaCall) /\ ran \in [Req -> Seq(LuaCall)] /\ req[r] \in ReqType
        /\ Len(App(r).mw) \in Nat
    BY OwnWorker DEF HttpInv, HttpTypeOK
  <2>1. /\ req[r].idx = LookupRoute(App(r), req[r].target)
        /\ req[r].i \in 1..(Len(App(r).mw) + 1)
        /\ ToSet(ran[r]) = Existing(App(r), req[r].i - 1) /\ InScriptOrder(ran[r])
    BY <1>0, <2>0 DEF At, ReqInv
  <2>2. req[r].i - 1 = Len(App(r).mw)
    <3>1. PICK m : m = Len(App(r).mw)
      OBVIOUS
    <3>2. PICK n : n = req[r].i
      OBVIOUS
    <3>3. m \in Nat /\ n \in 1..(m + 1) /\ n > m
      BY <1>0, <2>0, <2>1, <3>1, <3>2
    <3>4. n - 1 = m
      BY <3>3
    <3>. QED BY <3>1, <3>2, <3>4
  <2>3. PICK c : c = <<"route", req[r].idx>>
    OBVIOUS
  <2>4. c \in LuaCall /\ c[1] = "route" /\ c[2] = req[r].idx
    <3>1. req[r].idx \in RouteIds
      BY <2>0 DEF ReqType
    <3>. QED BY <2>3, <3>1 DEF LuaCall
  <2>5. Last(Append(ran[r], c)) = c /\ Front(Append(ran[r], c)) = ran[r]
    BY <2>0, <2>4, AppendCall
  <2>6. ran'[r] = Append(ran[r], c)
    BY <1>3, <2>0, <2>3 DEF Calls
  <2>7. req'[r].target = req[r].target /\ req'[r].w = req[r].w
    BY <1>3, AnswerFacts
  <2>8. App(r)' = App(r)
    BY <1>0, <2>7 DEF App
  <2>9. RanOwn(r)'
    BY <2>1, <2>2, <2>4, <2>5, <2>6, <2>7, <2>8 DEF RanOwn
  <2>10. (\E d \in LuaCall : Calls(r, d)) /\ RanOwn(r)'
    BY <1>3, <2>3, <2>4, <2>9
  <2>. QED BY <1>0, <1>3, <2>10, Answers
<1>. QED BY <1>1, <1>2, <1>3, Zenon DEF RouteHandler

LEMMA HandleHTTPInv ==
    ASSUME HttpInv, NEW r \in Req, HandleHTTP(r)
    PROVE  HttpInv'
<1>0. UNCHANGED <<apps, matchIdx>> /\ At(r, "fallback")
  BY DEF HandleHTTP, Kept
<1>1. 500 \in Statuses /\ 404 \in Statuses /\ \A f \in Forms : OrDefault(decodeHTTPResponse(f)) \in Statuses
  BY DEF Statuses
<1>2. ASSUME answer(r, 404), UNCHANGED ran
      PROVE  HttpInv'
  BY <1>0, <1>1, <1>2, Answers
<1>3. ASSUME Calls(r, <<"http", 0>>), NEW st \in Statuses, answer(r, st)
      PROVE  HttpInv'
  <2>0. /\ ReqInv(r) /\ ran[r] \in Seq(LuaCall) /\ ran \in [Req -> Seq(LuaCall)]
    BY OwnWorker DEF HttpInv, HttpTypeOK
  <2>1. LookupRoute(App(r), req[r].target) = 0 /\ ran[r] = <<>>
    BY <1>0, <2>0 DEF At, ReqInv
  <2>3. PICK c : c = <<"http", 0>>
    OBVIOUS
  <2>4. c \in LuaCall /\ c[1] = "http"
    BY <2>3 DEF LuaCall
  <2>5. Last(Append(ran[r], c)) = c /\ Front(Append(ran[r], c)) = ran[r]
    BY <2>0, <2>4, AppendCall
  <2>6. ran'[r] = Append(ran[r], c)
    BY <1>3, <2>0, <2>3 DEF Calls
  <2>7. req'[r].target = req[r].target /\ req'[r].w = req[r].w
    BY <1>3, AnswerFacts
  <2>8. App(r)' = App(r)
    BY <1>0, <2>7 DEF App
  <2>9. RanOwn(r)'
    BY <2>1, <2>4, <2>5, <2>6, <2>7, <2>8 DEF RanOwn
  <2>10. (\E d \in LuaCall : Calls(r, d)) /\ RanOwn(r)'
    BY <1>3, <2>3, <2>4, <2>9
  <2>. QED BY <1>0, <1>3, <2>10, Answers
<1>. QED BY <1>1, <1>2, <1>3, Zenon DEF HandleHTTP

\* /graphql: the request is answered at once, runs the context function, or is executed.
LEMMA GraphqlRequestInv ==
    ASSUME HttpInv, NEW r \in Req, graphqlRequest(r)
    PROVE  HttpInv'
<1>0. UNCHANGED <<apps, matchIdx, ran>> /\ At(r, "idle")
  BY DEF graphqlRequest, Kept
<1>1. ASSUME NEW st \in {405, 400}, answer(r, st) PROVE HttpInv'
  <2>1. st \in Statuses
    BY <1>1 DEF Statuses
  <2>. QED BY <1>0, <1>1, <2>1, Answers
<1>2. ASSUME NEW where \in {"context", "graphql"}, Moves(r, where), UNCHANGED httpSlot PROVE HttpInv'
  <2>0. ReqInv(r) /\ req[r].w \in 1..Len(apps)
    BY OwnWorker
  <2>1. ran[r] = <<>> /\ req[r].i = 1
    BY <1>0, <2>0 DEF At, ReqInv
  <2>2. /\ req' \in [Req -> ReqType] /\ req'[r].at = where /\ where \in {"context", "graphql"}
        /\ req'[r].target = req[r].target /\ req'[r].w = req[r].w /\ req'[r].i = req[r].i
        /\ \A x \in Req : x # r => req'[x] = req[x]
    <3>1. where \in ReqStages
      BY <1>2 DEF ReqStages
    <3>. QED BY <1>2, <3>1, MoveFacts
  <2>3. HttpTypeOK'
    BY <1>0, <1>2, <2>2 DEF HttpInv, HttpTypeOK
  <2>4. ReqInv(r)' /\ RanOwn(r)'
    BY <1>0, <2>0, <2>1, <2>2 DEF ReqInv, RanOwn, InLua
  <2>. QED BY <1>0, <1>2, <2>2, <2>3, <2>4, OwnStep
<1>3. ASSUME Moves(r, IF apps[1].context THEN "context" ELSE "graphql"), UNCHANGED httpSlot PROVE HttpInv'
  <2>1. PICK where : where = IF apps[1].context THEN "context" ELSE "graphql"
    OBVIOUS
  <2>2. where \in {"context", "graphql"}
    BY <2>1, Zenon
  <2>3. Moves(r, where)
    BY <1>3, <2>1, Zenon
  <2>. QED BY <1>2, <1>3, <2>2, <2>3
<1>. QED BY <1>1, <1>3, Zenon DEF graphqlRequest

LEMMA GraphqlContextInv ==
    ASSUME HttpInv, NEW r \in Req, graphqlContext(r)
    PROVE  HttpInv'
<1>0. /\ UNCHANGED <<apps, matchIdx, httpSlot>> /\ At(r, "context")
      /\ Calls(r, <<"context", 0>>) /\ Moves(r, "graphql")
  BY DEF graphqlContext, Kept
<1>1. ReqInv(r) /\ req[r].w \in 1..Len(apps) /\ ran[r] \in Seq(LuaCall) /\ ran \in [Req -> Seq(LuaCall)]
  BY OwnWorker DEF HttpInv, HttpTypeOK
<1>2. ran[r] = <<>> /\ req[r].i = 1
  BY <1>0, <1>1 DEF At, ReqInv
<1>3. PICK c : c = <<"context", 0>>
  OBVIOUS
<1>4. c \in LuaCall /\ c[1] = "context"
  BY <1>3 DEF LuaCall
<1>5. Append(ran[r], c) \in Seq(LuaCall) /\ Last(Append(ran[r], c)) = c
  BY <1>1, <1>4, AppendCall
<1>6. ran' \in [Req -> Seq(LuaCall)] /\ ran'[r] = Append(ran[r], c) /\ \A x \in Req : x # r => ran'[x] = ran[x]
  BY <1>0, <1>1, <1>3, <1>5 DEF Calls
<1>7. ran'[r] = <<c>>
  BY <1>2, <1>6
<1>8. /\ req' \in [Req -> ReqType] /\ req'[r].at = "graphql"
      /\ req'[r].target = req[r].target /\ req'[r].w = req[r].w /\ req'[r].i = req[r].i
      /\ \A x \in Req : x # r => req'[x] = req[x]
  <2>1. "graphql" \in ReqStages
    BY DEF ReqStages
  <2>. QED BY <1>0, <2>1, MoveFacts
<1>9. HttpTypeOK'
  BY <1>0, <1>6, <1>8 DEF HttpInv, HttpTypeOK
<1>10. ran'[r] = <<<<"context", 0>>>>
  BY <1>3, <1>7
<1>11. ReqInv(r)'
  BY <1>0, <1>1, <1>2, <1>8, <1>10 DEF ReqInv, InLua
<1>12. RanOwn(r)'
  BY <1>4, <1>5, <1>6 DEF RanOwn
<1>. QED BY <1>0, <1>6, <1>8, <1>9, <1>11, <1>12, OwnStep

LEMMA GraphqlExecuteInv ==
    ASSUME HttpInv, NEW r \in Req, graphqlExecute(r)
    PROVE  HttpInv'
<1>1. 200 \in Statuses
  BY DEF Statuses
<1>2. answer(r, 200) /\ UNCHANGED <<apps, matchIdx>> /\ UNCHANGED ran
  BY DEF graphqlExecute, Kept
<1>. QED BY <1>1, <1>2, Answers

\* /soap answers at once.
LEMMA SoapRequestInv ==
    ASSUME HttpInv, NEW r \in Req, soapRequest(r)
    PROVE  HttpInv'
<1>0. UNCHANGED <<apps, httpSlot, matchIdx, ran>> /\ At(r, "idle")
  BY DEF soapRequest, Kept
<1>1. ReqInv(r) /\ req[r].w \in 1..Len(apps) /\ req[r] \in ReqType /\ req \in [Req -> ReqType]
  BY OwnWorker DEF HttpInv, HttpTypeOK
<1>2. ran[r] = <<>>
  BY <1>0, <1>1 DEF At, ReqInv
<1>3. PICK known \in {FALSE, apps[1].soap}, st \in {405, 400, 500} :
         req' = [req EXCEPT ![r].at = "done", ![r].status = st, ![r].hit = known /\ st = 500]
  BY Zenon DEF soapRequest
<1>4. PICK b \in BOOLEAN : b = (known /\ st = 500)
  BY Zenon
<1>5. PICK p : p = [req[r] EXCEPT !.at = "done"]
  OBVIOUS
<1>6. p \in ReqType /\ p.at = "done" /\ p.w = req[r].w
  BY <1>1, <1>5, ReqAt DEF ReqStages
<1>7. PICK q : q = [p EXCEPT !.status = st]
  OBVIOUS
<1>8. q \in ReqType /\ q.at = "done" /\ q.w = req[r].w
  <2>1. st \in Statuses
    BY DEF Statuses
  <2>. QED BY <1>6, <1>7, <2>1, ReqStatus
<1>9. PICK u : u = [q EXCEPT !.hit = b]
  OBVIOUS
<1>10. u \in ReqType /\ u.at = "done" /\ u.w = req[r].w
  BY <1>8, <1>9, ReqHit
<1>11. req' \in [Req -> ReqType] /\ req'[r] = u /\ \A x \in Req : x # r => req'[x] = req[x]
  <2>1. PICK f : f = [req EXCEPT ![r].at = "done"]
    OBVIOUS
  <2>2. f = [req EXCEPT ![r] = p]
    BY <1>5, <2>1, Zenon
  <2>3. f \in [Req -> ReqType] /\ f[r] = p /\ \A x \in Req : x # r => f[x] = req[x]
    BY <1>1, <1>6, <2>2
  <2>4. PICK h : h = [f EXCEPT ![r].status = st]
    OBVIOUS
  <2>5. h = [f EXCEPT ![r] = q]
    BY <1>7, <2>3, <2>4, Zenon
  <2>6. h \in [Req -> ReqType] /\ h[r] = q /\ \A x \in Req : x # r => h[x] = req[x]
    BY <1>8, <2>3, <2>5
  <2>7. req' = [h EXCEPT ![r].hit = b]
    BY <1>3, <1>4, <2>1, <2>4, Zenon
  <2>8. req' = [h EXCEPT ![r] = u]
    BY <1>9, <2>6, <2>7, Zenon
  <2>. QED BY <1>10, <2>6, <2>8
<1>12. HttpTypeOK'
  BY <1>0, <1>11 DEF HttpInv, HttpTypeOK
<1>13. ReqInv(r)' /\ RanOwn(r)'
  BY <1>0, <1>1, <1>2, <1>10, <1>11 DEF ReqInv, RanOwn, InLua
<1>. QED BY <1>0, <1>11, <1>12, <1>13, OwnStep

\* A reload adds a worker; the requests under way keep theirs.
LEMMA ReloadAppInv ==
    ASSUME HttpInv, reloadApp
    PROVE  HttpInv'
<1>0. UNCHANGED <<httpSlot, matchIdx, req, ran>> /\ Len(apps) < MaxApps
  BY DEF reloadApp
<1>1. PICK a \in Apps : apps' = Append(apps, a)
  BY DEF reloadApp, loadApp
<1>2. apps \in Seq(Apps) /\ Len(apps) \in 1..MaxApps
  BY DEF HttpInv, HttpTypeOK
<1>3. apps' \in Seq(Apps) /\ Len(apps') = Len(apps) + 1 /\ \A w \in 1..Len(apps) : apps'[w] = apps[w]
  BY <1>1, <1>2
<1>4. Len(apps') \in 1..MaxApps /\ Len(apps') \in Nat /\ Len(apps) <= Len(apps')
  <2>1. PICK n : n = Len(apps)
    OBVIOUS
  <2>2. n \in Nat /\ n \in 1..MaxApps /\ n < MaxApps /\ MaxApps \in Nat
    BY <1>0, <1>2, <2>1, EndpointsAssumption
  <2>3. n + 1 \in 1..MaxApps /\ n + 1 \in Nat /\ n <= n + 1
    BY <2>2
  <2>. QED BY <1>3, <2>1, <2>3
<1>5. HttpTypeOK'
  BY <1>0, <1>3, <1>4 DEF HttpInv, HttpTypeOK
<1>6. ASSUME NEW x \in Req PROVE ReqInv(x)' /\ RanOwn(x)'
  BY <1>0, <1>3, <1>4, OtherReq
<1>. QED BY <1>5, <1>6 DEF HttpInv

\* Every step of the dispatch keeps the invariant.
LEMMA HttpStepInv == HttpInv /\ [EndpointsNext]_httpvars => HttpInv'
<1>. SUFFICES ASSUME HttpInv, [EndpointsNext]_httpvars PROVE HttpInv'
  OBVIOUS
<1>1. ASSUME NEW r \in Req, NEW t \in Target, handleHTTP(r, t) PROVE HttpInv'
  BY <1>1, HttpRequestInv
<1>2. ASSUME NEW r \in Req, HttpStep(r) PROVE HttpInv'
  BY <1>2, TakeSlotInv, BusyHTTPInv, LookupInv, MatchInv, MiddlewareInv, RouteHandlerInv, HandleHTTPInv,
     GraphqlContextInv, GraphqlExecuteInv, Zenon DEF HttpStep
<1>3. ASSUME NEW r \in Req, httpAuthMiddleware(r) PROVE HttpInv'
  <2>1. UNCHANGED <<apps, httpSlot, matchIdx, req, ran>>
    BY <1>3 DEF httpAuthMiddleware
  <2>. QED BY <2>1 DEF HttpInv, HttpTypeOK, ReqInv, RanOwn, App
<1>4. ASSUME NEW r \in Req, graphqlRequest(r) PROVE HttpInv'
  BY <1>4, GraphqlRequestInv
<1>5. ASSUME NEW r \in Req, soapRequest(r) PROVE HttpInv'
  BY <1>5, SoapRequestInv
<1>6. CASE reloadApp
  BY <1>6, ReloadAppInv
<1>7. CASE UNCHANGED httpvars
  <2>1. UNCHANGED <<apps, httpSlot, matchIdx, req, ran>>
    BY <1>7 DEF httpvars
  <2>. QED BY <2>1 DEF HttpInv, HttpTypeOK, ReqInv, RanOwn, App
<1>. QED BY <1>1, <1>2, <1>3, <1>4, <1>5, <1>6, <1>7, Zenon DEF EndpointsNext

\* The HTTP dispatch of every set of scripts and any number of requests, workers and
\* reloads: a route's handler runs only for a request whose method and path match that
\* route on the worker it leased, after all of the script's middleware in its order, and
\* handle_http only when nothing matches.  callRoutedHTTP shares matchIdx between the
\* requests of a worker; the worker's slot, held from before Match until the answer, is
\* what keeps one request's index from another.
THEOREM RouteCorrect == EndpointsSpec => []OwnRoute
<1>1. HttpInv => OwnRoute
  BY DEF HttpInv, RanOwn, OwnRoute
<1>. QED BY <1>1, HttpInitInv, HttpStepInv, PTL DEF EndpointsSpec

-----------------------------------------------------------------------------
(* The log sink. *)

\* What LogAccounted says of where the records are ...
Under == batch \o lch
PlacesInv ==
    /\ IsInjective(Under)
    /\ rows \cup ToSet(Under) \cup dropped \cup gone = 1..emitted
    /\ rows \cap ToSet(Under) = {} /\ dropped \cap gone = {}
    /\ (rows \cup ToSet(Under)) \cap (dropped \cup gone) = {}

\* ... and of a Flush that returns.
FlushInv == \A e \in Emitter : lpc[e] = "flushed" => owes[e] \cap ToSet(Under) = {}

\* A flush is owed records that were emitted by then, and only Close ends the writer, after
\* which nobody emits.
LogTypeOK ==
    /\ lch \in Seq(Nat) /\ batch \in Seq(Nat) /\ emitted \in Nat
    /\ flushes \in Seq(Emitter) /\ lpc \in [Emitter -> {"run", "flushing", "flushed"}]
    /\ owes \in [Emitter -> SUBSET (1..emitted)]
WriterInv == writer = "exited" => stopped /\ batch = <<>> /\ lch = <<>>
LogInv == LogTypeOK /\ PlacesInv /\ FlushInv /\ WriterInv

-----------------------------------------------------------------------------
(* Sequences without repetition.                                           *)

LEMMA ConcatSet ==
    ASSUME NEW s \in Seq(Nat), NEW t \in Seq(Nat)
    PROVE  /\ s \o t \in Seq(Nat) /\ ToSet(s \o t) = ToSet(s) \cup ToSet(t)
           /\ ToSet(s) \subseteq Nat /\ ToSet(<<>>) = {}
<1>1. PICK u : u = s \o t
  OBVIOUS
<1>2. /\ u \in Seq(Nat) /\ DOMAIN u = 1..(Len(s) + Len(t)) /\ DOMAIN s = 1..Len(s) /\ DOMAIN t = 1..Len(t)
      /\ Len(s) \in Nat /\ Len(t) \in Nat
      /\ \A i \in 1..Len(s) : u[i] = s[i]
      /\ \A i \in 1..Len(t) : u[Len(s) + i] = t[i]
  BY <1>1
<1>3. ToSet(s) \cup ToSet(t) \subseteq ToSet(u)
  <2>1. \A i \in 1..Len(t) : Len(s) + i \in 1..(Len(s) + Len(t))
    BY <1>2
  <2>2. \A i \in 1..Len(s) : i \in 1..(Len(s) + Len(t))
    BY <1>2
  <2>. QED BY <1>2, <2>1, <2>2 DEF ToSet
<1>4. ASSUME NEW x \in ToSet(u) PROVE x \in ToSet(s) \cup ToSet(t)
  <2>1. PICK i \in DOMAIN u : x = u[i]
    BY DEF ToSet
  <2>2. CASE i \in 1..Len(s)
    BY <1>2, <2>1, <2>2 DEF ToSet
  <2>3. CASE i \notin 1..Len(s)
    <3>1. i - Len(s) \in 1..Len(t) /\ Len(s) + (i - Len(s)) = i
      BY <1>2, <2>1, <2>3
    <3>2. x = t[i - Len(s)]
      BY <1>2, <2>1, <3>1
    <3>. QED BY <1>2, <3>1, <3>2 DEF ToSet
  <2>. QED BY <2>2, <2>3
<1>5. ToSet(s) \subseteq Nat
  BY <1>2 DEF ToSet
<1>6. ToSet(<<>>) = {}
  BY DEF ToSet
<1>. QED BY <1>1, <1>2, <1>3, <1>4, <1>5, <1>6

LEMMA InjectiveParts ==
    ASSUME NEW s \in Seq(Nat), NEW t \in Seq(Nat), IsInjective(s \o t)
    PROVE  IsInjective(t) /\ ToSet(s) \cap ToSet(t) = {}
<1>1. PICK u : u = s \o t
  OBVIOUS
<1>2. /\ DOMAIN u = 1..(Len(s) + Len(t)) /\ DOMAIN s = 1..Len(s) /\ DOMAIN t = 1..Len(t)
      /\ Len(s) \in Nat /\ Len(t) \in Nat
      /\ \A i \in 1..Len(s) : u[i] = s[i]
      /\ \A i \in 1..Len(t) : u[Len(s) + i] = t[i]
  BY <1>1
<1>3. \A i, j \in 1..(Len(s) + Len(t)) : u[i] = u[j] => i = j
  BY <1>1, <1>2 DEF IsInjective
<1>4. \A i \in 1..Len(t) : Len(s) + i \in 1..(Len(s) + Len(t))
  BY <1>2
<1>5. IsInjective(t)
  <2>1. ASSUME NEW i \in 1..Len(t), NEW j \in 1..Len(t), t[i] = t[j] PROVE i = j
    <3>1. Len(s) + i = Len(s) + j
      BY <1>2, <1>3, <1>4, <2>1
    <3>. QED BY <1>2, <3>1
  <2>. QED BY <1>2, <2>1 DEF IsInjective
<1>6. ASSUME NEW x \in ToSet(s), x \in ToSet(t) PROVE FALSE
  <2>1. PICK i \in 1..Len(s) : x = s[i]
    BY <1>2 DEF ToSet
  <2>2. PICK j \in 1..Len(t) : x = t[j]
    BY <1>2, <1>6 DEF ToSet
  <2>3. u[i] = u[Len(s) + j] /\ i \in 1..(Len(s) + Len(t))
    <3>1. u[i] = x /\ u[Len(s) + j] = x
      BY <1>2, <2>1, <2>2
    <3>2. i \in 1..(Len(s) + Len(t))
      BY <1>2
    <3>. QED BY <3>1, <3>2
  <2>4. i = Len(s) + j
    BY <1>3, <1>4, <2>2, <2>3
  <2>. QED BY <1>2, <2>1, <2>2, <2>4
<1>. QED BY <1>5, <1>6

LEMMA InjectiveAppend ==
    ASSUME NEW s \in Seq(Nat), NEW n \in Nat, n \notin ToSet(s), IsInjective(s)
    PROVE  /\ Append(s, n) \in Seq(Nat) /\ IsInjective(Append(s, n)) /\ ToSet(Append(s, n)) = ToSet(s) \cup {n}
<1>1. PICK u : u = Append(s, n)
  OBVIOUS
<1>2. /\ u \in Seq(Nat) /\ DOMAIN u = 1..(Len(s) + 1) /\ DOMAIN s = 1..Len(s) /\ Len(s) \in Nat
      /\ \A i \in 1..Len(s) : u[i] = s[i]
      /\ u[Len(s) + 1] = n
  BY <1>1
<1>3. ToSet(u) = ToSet(s) \cup {n}
  BY <1>2 DEF ToSet
<1>4. \A i \in 1..Len(s) : u[i] # n
  BY <1>2 DEF ToSet
<1>5. ASSUME NEW i \in 1..(Len(s) + 1), NEW j \in 1..(Len(s) + 1), u[i] = u[j] PROVE i = j
  <2>1. (i \in 1..Len(s) \/ i = Len(s) + 1) /\ (j \in 1..Len(s) \/ j = Len(s) + 1)
    BY <1>2
  <2>2. CASE i \in 1..Len(s) /\ j \in 1..Len(s)
    BY <1>2, <1>5, <2>2 DEF IsInjective
  <2>. QED BY <1>2, <1>4, <1>5, <2>1, <2>2
<1>. QED BY <1>1, <1>2, <1>3, <1>5 DEF IsInjective

\* The records of failed transactions are records of the queue that was written.
LEMMA LostIn == ASSUME NEW b, NEW bad PROVE Lost(b, bad) \subseteq ToSet(b)
  BY DEF Lost, ToSet

\* The head of a queue moves to the end of the batch.
LEMMA MoveHead ==
    ASSUME NEW s \in Seq(Nat), NEW t \in Seq(Nat), t # <<>>
    PROVE  /\ Append(s, Head(t)) \in Seq(Nat) /\ Tail(t) \in Seq(Nat)
           /\ Append(s, Head(t)) \o Tail(t) = s \o t
<1>1. Head(t) \in Nat /\ Tail(t) \in Seq(Nat) /\ <<Head(t)>> \o Tail(t) = t
  BY HeadTailProperties
<1>2. Append(s, Head(t)) = s \o <<Head(t)>>
  BY <1>1, AppendIsConcat
<1>3. <<Head(t)>> \in Seq(Nat)
  BY <1>1
<1>4. (s \o <<Head(t)>>) \o Tail(t) = s \o (<<Head(t)>> \o Tail(t))
  BY <1>1, <1>3, ConcatAssociative
<1>. QED BY <1>1, <1>2, <1>4

-----------------------------------------------------------------------------
(* The writer's steps: the records of b are written or counted, those of   *)
(* rest stay queued.                                                       *)

LEMMA InsertPlaces ==
    ASSUME LogInv, NEW b \in Seq(Nat), NEW rest \in Seq(Nat), NEW bad, b \o rest = Under,
           insert(b, bad), lch' = rest, UNCHANGED <<gone, emitted>>
    PROVE  PlacesInv' /\ ToSet(Under)' \subseteq ToSet(Under) /\ batch' = <<>>
<1>1. IsInjective(rest) /\ ToSet(b) \cap ToSet(rest) = {} /\ ToSet(Under) = ToSet(b) \cup ToSet(rest)
  BY InjectiveParts, ConcatSet DEF LogInv, PlacesInv
<1>2. Under' = rest /\ batch' = <<>>
  <2>1. Under' = <<>> \o rest /\ batch' = <<>>
    BY DEF Under, insert
  <2>. QED BY <2>1
<1>3. Lost(b, bad) \subseteq ToSet(b)
  BY LostIn
<1>4. rows' = rows \cup (ToSet(b) \ Lost(b, bad)) /\ dropped' = dropped \cup Lost(b, bad)
  BY DEF insert, Written
<1>5. PlacesInv'
  BY <1>1, <1>2, <1>3, <1>4 DEF LogInv, PlacesInv
<1>. QED BY <1>1, <1>2, <1>5

LEMMA InsertKeeps ==
    ASSUME LogInv, NEW b \in Seq(Nat), NEW rest \in Seq(Nat), NEW bad, b \o rest = Under,
           insert(b, bad), lch' = rest, UNCHANGED <<gone, emitted, flushes, lpc, owes>>,
           writer' = writer \/ (stopped /\ rest = <<>>), UNCHANGED stopped
    PROVE  LogInv'
<1>1. PlacesInv' /\ ToSet(Under)' \subseteq ToSet(Under) /\ batch' = <<>>
  BY InsertPlaces
<1>2. FlushInv'
  BY <1>1 DEF LogInv, FlushInv
<1>3. LogTypeOK'
  BY <1>1 DEF LogInv, LogTypeOK
<1>4. WriterInv'
  <2>1. CASE writer' = "exited" /\ writer = "exited"
    <3>1. Under = <<>> /\ stopped
      <4>1. batch = <<>> /\ lch = <<>> /\ stopped
        BY <2>1 DEF LogInv, WriterInv
      <4>. QED BY <4>1 DEF Under
    <3>2. Len(b) + Len(rest) = 0 /\ Len(b) \in Nat /\ Len(rest) \in Nat
      <4>1. Len(b \o rest) = Len(b) + Len(rest)
        OBVIOUS
      <4>. QED BY <3>1, <4>1
    <3>3. rest = <<>>
      BY <3>2
    <3>. QED BY <1>1, <3>1, <3>3 DEF WriterInv
  <2>. QED BY <1>1, <2>1 DEF WriterInv
<1>. QED BY <1>1, <1>2, <1>3, <1>4 DEF LogInv

LEMMA LogInitInv == LogInit => LogInv
<1>. SUFFICES ASSUME LogInit PROVE LogInv
  OBVIOUS
<1>1. Under = <<>>
  BY DEF LogInit, Under
<1>2. ToSet(Under) = {} /\ IsInjective(Under)
  BY <1>1 DEF ToSet, IsInjective
<1>3. PlacesInv
  BY <1>2 DEF LogInit, PlacesInv
<1>4. LogTypeOK /\ WriterInv /\ FlushInv
  BY DEF LogInit, LogTypeOK, WriterInv, FlushInv
<1>. QED BY <1>3, <1>4 DEF LogInv

LEMMA EmitInv ==
    ASSUME LogInv, NEW e \in Emitter, Emit(e)
    PROVE  LogInv'
<1>0. /\ lch \in Seq(Nat) /\ batch \in Seq(Nat) /\ emitted \in Nat /\ emitted' = emitted + 1 /\ ~stopped
      /\ UNCHANGED <<batch, rows, gone, flushes, lpc, owes, writer, stopped>>
  BY DEF LogInv, LogTypeOK, Emit
<1>1. Under \in Seq(Nat) /\ ToSet(Under) \subseteq 1..emitted /\ emitted + 1 \in Nat /\ emitted + 1 \notin 1..emitted
      /\ 1..(emitted + 1) = 1..emitted \cup {emitted + 1}
  BY <1>0, ConcatSet DEF LogInv, PlacesInv, Under
<1>2. WriterInv'
  BY <1>0 DEF LogInv, WriterInv
<1>3. LogTypeOK'
  <2>1. lch' \in Seq(Nat)
    <3>1. Append(lch, emitted + 1) \in Seq(Nat)
      BY <1>0, <1>1
    <3>. QED BY <1>0, <3>1 DEF Emit
  <2>2. owes \in [Emitter -> SUBSET (1..(emitted + 1))]
    BY <1>1 DEF LogInv, LogTypeOK
  <2>. QED BY <1>0, <1>1, <2>1, <2>2 DEF LogInv, LogTypeOK
<1>4. CASE lch' = Append(lch, emitted + 1) /\ UNCHANGED dropped
  <2>1. Under' = Append(Under, emitted + 1)
    <3>1. Append(lch, emitted + 1) = lch \o <<emitted + 1>> /\ Append(Under, emitted + 1) = Under \o <<emitted + 1>>
      BY <1>0, <1>1, AppendIsConcat
    <3>2. <<emitted + 1>> \in Seq(Nat)
      BY <1>1
    <3>3. (batch \o lch) \o <<emitted + 1>> = batch \o (lch \o <<emitted + 1>>)
      BY <1>0, <3>2, ConcatAssociative
    <3>. QED BY <1>0, <1>4, <3>1, <3>3 DEF Under
  <2>2. IsInjective(Under') /\ ToSet(Under') = ToSet(Under) \cup {emitted + 1}
    <3>1. emitted + 1 \notin ToSet(Under) /\ IsInjective(Under)
      BY <1>1 DEF LogInv, PlacesInv
    <3>. QED BY <1>1, <2>1, <3>1, InjectiveAppend
  <2>3. PlacesInv'
    <3>1. ToSet(Under)' = ToSet(Under) \cup {emitted + 1} /\ IsInjective(Under)'
      BY <2>2
    <3>2. emitted + 1 \notin rows \cup ToSet(Under) \cup dropped \cup gone
      BY <1>1 DEF LogInv, PlacesInv
    <3>. QED BY <1>0, <1>1, <1>4, <3>1, <3>2 DEF LogInv, PlacesInv
  <2>4. FlushInv'
    <3>1. \A x \in Emitter : emitted + 1 \notin owes[x]
      BY <1>1 DEF LogInv, LogTypeOK
    <3>. QED BY <1>0, <2>2, <3>1 DEF LogInv, FlushInv
  <2>. QED BY <1>2, <1>3, <2>3, <2>4 DEF LogInv
<1>5. CASE dropped' = dropped \cup {emitted + 1} /\ UNCHANGED lch
  <2>1. Under' = Under
    BY <1>0, <1>5 DEF Under
  <2>2. PlacesInv'
    <3>1. emitted + 1 \notin rows \cup ToSet(Under) \cup dropped \cup gone
      BY <1>1 DEF LogInv, PlacesInv
    <3>. QED BY <1>0, <1>1, <1>5, <2>1, <3>1 DEF LogInv, PlacesInv
  <2>3. FlushInv'
    BY <1>0, <2>1 DEF LogInv, FlushInv
  <2>. QED BY <1>2, <1>3, <2>2, <2>3 DEF LogInv
<1>. QED BY <1>4, <1>5 DEF Emit

LEMMA FlushCallInv ==
    ASSUME LogInv, NEW e \in Emitter, FlushCall(e) \/ FlushReturns(e)
    PROVE  LogInv'
<1>0. /\ UNCHANGED <<lch, batch, rows, dropped, gone, emitted, writer, stopped>>
      /\ LogTypeOK
  BY DEF FlushCall, FlushReturns, LogInv
<1>1. Under' = Under /\ PlacesInv' /\ WriterInv'
  BY <1>0 DEF Under, LogInv, PlacesInv, WriterInv
<1>2. LogTypeOK'
  <2>1. <<e>> \in Seq(Emitter) /\ 1..emitted \in SUBSET (1..emitted) /\ {} \in SUBSET (1..emitted)
    OBVIOUS
  <2>2. flushes' \in Seq(Emitter)
    BY <1>0, <2>1 DEF LogTypeOK, FlushCall, FlushReturns
  <2>3. lpc' \in [Emitter -> {"run", "flushing", "flushed"}]
    BY <1>0 DEF LogTypeOK, FlushCall, FlushReturns
  <2>4. owes' \in [Emitter -> SUBSET (1..emitted)]
    BY <1>0, <2>1 DEF LogTypeOK, FlushCall, FlushReturns
  <2>. QED BY <1>0, <2>2, <2>3, <2>4 DEF LogTypeOK
<1>3. FlushInv'
  <2>1. \A x \in Emitter : lpc'[x] = "flushed" => lpc[x] = "flushed" /\ owes'[x] = owes[x]
    BY <1>0 DEF LogTypeOK, FlushCall, FlushReturns
  <2>. QED BY <1>1, <2>1 DEF LogInv, FlushInv
<1>. QED BY <1>1, <1>2, <1>3 DEF LogInv

LEMMA TakeRecordInv ==
    ASSUME LogInv, NEW bad, TakeRecord(bad)
    PROVE  LogInv'
<1>0. /\ UNCHANGED <<gone, emitted, flushes, lpc, owes, writer, stopped>> /\ writer = "run" /\ lch # <<>> /\ lch' = Tail(lch)
      /\ lch \in Seq(Nat) /\ batch \in Seq(Nat)
  BY DEF LogInv, LogTypeOK, TakeRecord
<1>1. PICK b : b = Append(batch, Head(lch))
  OBVIOUS
<1>2. b \in Seq(Nat) /\ Tail(lch) \in Seq(Nat) /\ b \o Tail(lch) = Under
  BY <1>0, <1>1, MoveHead DEF Under
<1>3. CASE insert(b, bad)
  BY <1>0, <1>2, <1>3, InsertKeeps
<1>4. CASE batch' = b /\ UNCHANGED <<rows, fileRows, dropped>>
  <2>1. Under' = Under
    BY <1>0, <1>2, <1>4 DEF Under
  <2>2. PlacesInv' /\ FlushInv' /\ WriterInv'
    BY <1>0, <1>4, <2>1 DEF LogInv, PlacesInv, FlushInv, WriterInv
  <2>3. LogTypeOK'
    BY <1>0, <1>2, <1>4 DEF LogInv, LogTypeOK
  <2>. QED BY <2>2, <2>3 DEF LogInv
<1>. QED BY <1>1, <1>3, <1>4 DEF TakeRecord

LEMMA TickInv ==
    ASSUME LogInv, NEW bad, Tick(bad)
    PROVE  LogInv'
<1>0. /\ UNCHANGED <<lch, gone, emitted, flushes, lpc, owes, writer, stopped>> /\ insert(batch, bad)
      /\ lch \in Seq(Nat) /\ batch \in Seq(Nat)
  BY DEF LogInv, LogTypeOK, Tick
<1>1. batch \o lch = Under /\ lch' = lch
  BY <1>0 DEF Under
<1>. QED BY <1>0, <1>1, InsertKeeps

LEMMA DrainPlaces ==
    ASSUME LogInv, NEW bad, insert(batch \o lch, bad), lch' = <<>>, UNCHANGED <<gone, emitted>>
    PROVE  PlacesInv' /\ batch' = <<>> /\ ToSet(Under)' = {}
<1>1. /\ Under \in Seq(Nat) /\ <<>> \in Seq(Nat) /\ insert(Under, bad)
  BY ConcatSet DEF LogInv, LogTypeOK, Under
<1>2. Under \o <<>> = Under
  BY <1>1, ConcatEmptySeq
<1>3. PlacesInv' /\ batch' = <<>>
  BY <1>1, <1>2, InsertPlaces
<1>4. Under' = <<>>
  BY <1>3 DEF Under
<1>. QED BY <1>3, <1>4 DEF ToSet

LEMMA ServeFlushInv ==
    ASSUME LogInv, NEW bad, ServeFlush(bad)
    PROVE  LogInv'
<1>0. /\ UNCHANGED <<gone, emitted, owes, writer, stopped>> /\ insert(batch \o lch, bad) /\ lch' = <<>> /\ LogTypeOK
      /\ flushes' = <<>> /\ lpc' = [lpc EXCEPT ![Head(flushes)] = "flushed"] /\ flushes # <<>> /\ writer = "run"
  BY DEF LogInv, ServeFlush
<1>1. PlacesInv' /\ batch' = <<>> /\ ToSet(Under)' = {}
  BY <1>0, DrainPlaces
<1>2. LogTypeOK'
  <2>1. Head(flushes) \in Emitter
    BY <1>0 DEF LogTypeOK
  <2>. QED BY <1>0, <1>1, <2>1 DEF LogTypeOK
<1>3. FlushInv' /\ WriterInv'
  BY <1>0, <1>1 DEF FlushInv, WriterInv
<1>. QED BY <1>1, <1>2, <1>3 DEF LogInv

\* What a prune deletes is remembered in gone.
LEMMA PruneInv ==
    ASSUME LogInv, NEW bad, Prune(bad)
    PROVE  LogInv'
<1>0. /\ UNCHANGED <<emitted, flushes, lpc, owes, writer, stopped>> /\ lch' = <<>> /\ batch' = <<>> /\ LogTypeOK /\ writer = "run"
  BY DEF LogInv, Prune
<1>1. PICK all : all = Written(batch \o lch, bad)
  OBVIOUS
<1>2. /\ rows' \subseteq all /\ gone' = gone \cup (all \ rows') /\ dropped' = dropped \cup Lost(batch \o lch, bad)
  BY <1>1 DEF Prune, Newest
<1>3. Lost(batch \o lch, bad) \subseteq ToSet(Under) /\ all = rows \cup (ToSet(Under) \ Lost(batch \o lch, bad))
  BY <1>1, LostIn DEF Under, Written
<1>4. Under' = <<>>
  BY <1>0 DEF Under
<1>5. ToSet(Under)' = {} /\ IsInjective(Under)'
  BY <1>4 DEF ToSet, IsInjective
<1>6. PlacesInv'
  BY <1>0, <1>2, <1>3, <1>5 DEF LogInv, PlacesInv
<1>7. LogTypeOK' /\ FlushInv' /\ WriterInv'
  BY <1>0, <1>5 DEF LogTypeOK, FlushInv, WriterInv
<1>. QED BY <1>6, <1>7 DEF LogInv

LEMMA WriterExitsInv ==
    ASSUME LogInv, NEW bad, WriterExits(bad)
    PROVE  LogInv'
<1>0. /\ UNCHANGED <<gone, emitted, flushes, lpc, owes, stopped>> /\ insert(batch \o lch, bad) /\ lch' = <<>> /\ LogTypeOK
      /\ stopped
  BY DEF LogInv, WriterExits
<1>1. PlacesInv' /\ batch' = <<>> /\ ToSet(Under)' = {}
  BY <1>0, DrainPlaces
<1>2. LogTypeOK' /\ FlushInv' /\ WriterInv'
  BY <1>0, <1>1 DEF LogTypeOK, FlushInv, WriterInv
<1>. QED BY <1>1, <1>2 DEF LogInv

\* Every step of the log keeps the invariant.
LEMMA LogStepInv == LogInv /\ [LogNext]_logvars => LogInv'
<1>. SUFFICES ASSUME LogInv, [LogNext]_logvars PROVE LogInv'
  OBVIOUS
<1>1. ASSUME NEW e \in Emitter, Emit(e) \/ FlushCall(e) \/ FlushReturns(e) PROVE LogInv'
  BY <1>1, EmitInv, FlushCallInv
<1>2. ASSUME NEW bad \in Failures,
             TakeRecord(bad) \/ Tick(bad) \/ ServeFlush(bad) \/ Prune(bad) \/ WriterExits(bad)
      PROVE  LogInv'
  BY <1>2, TakeRecordInv, TickInv, ServeFlushInv, PruneInv, WriterExitsInv
<1>3. CASE CloseLog \/ UNCHANGED logvars
  <2>1. /\ UNCHANGED <<lch, batch, rows, dropped, gone, emitted, flushes, lpc, owes, writer>>
        /\ stopped => stopped'
    BY <1>3 DEF CloseLog, logvars
  <2>2. Under' = Under
    BY <2>1 DEF Under
  <2>. QED BY <2>1, <2>2 DEF LogInv, LogTypeOK, PlacesInv, FlushInv, WriterInv
<1>. QED BY <1>1, <1>2, <1>3 DEF LogNext

\* klog never loses a record without a count: for any number of goroutines that log, any
\* queue and batch size and any transactions that fail, a record is in the queue, in the
\* batch, in the table, counted in d.dropped or removed by a prune, and in one of these
\* only; the writer ends with nothing queued; and when Flush returns, what was emitted
\* before it was called is no longer on its way.
THEOREM LogCorrect == LogSpec => []LogAccounted
<1>1. LogInv => LogAccounted
  BY DEF LogInv, PlacesInv, FlushInv, WriterInv, Under, LogAccounted
<1>. QED BY <1>1, LogInitInv, LogStepInv, PTL DEF LogSpec
=============================================================================
