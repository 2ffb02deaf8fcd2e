------------------------------ MODULE ServeNet ------------------------------
(***************************************************************************)
(* The network side of serve mode: Run's listeners and teardown            *)
(* (internal/server/server.go), the WebSocket and TCP connections with     *)
(* their hubs (ws.go, tcp.go), and k.ws.*, k.tcp.* and k.quit as a handler *)
(* of any worker calls them (bindings/serve.go).  WorkerPool has what      *)
(* happens to the workers; here a connection has a lease or not.           *)
(*                                                                         *)
(* TCP connections are served by the accept loop itself, one after the     *)
(* other; what the loop defers (unregister, close, release) runs only when *)
(* the loop returns.                                                       *)
(***************************************************************************)
EXTENDS Integers, Sequences, SequencesExt

CONSTANTS
    Ws, Tcp,     \* WebSocket and TCP connections
    SendCap,     \* capacity of a connection's sendCh (256 in the code)
    AcceptCap,   \* capacity of TCPHub.acceptCh (16 in the code)
    MaxSends,    \* bound: messages the script sends
    NoConn

VARIABLES
    run,         \* where Run is
    ctxDone,     \* the run context is cancelled (SIGTERM)
    stopCh,      \* Stop was called (k.quit)
    listening,   \* listeners that are open: subset of {"http", "tcp"}
    pool,        \* the server has workers to lease
    pc,          \* per connection: where its goroutine, or the loop for it, is
    link,        \* per connection: the socket is "up" or "down"
    conns,       \* the connections registered in the hubs
    leased,      \* the connections that hold a lease
    outPump,     \* per connection: outbound pump, "none", "run" or "done"
    sendCh,      \* per connection: messages to write
    wire,        \* per connection: messages written
    taken,       \* history: messages sendCh accepted
    acceptCh,    \* connections for k.tcp.accept
    serving,     \* the TCP connection the accept loop is busy with
    loop,        \* accept loop: "none", "run" or "exited"
    sends        \* messages sent so far

netvars == <<run, ctxDone, stopCh, listening, pool, pc, link, conns, leased,
             outPump, sendCh, wire, taken, acceptCh, serving, loop, sends>>
runvars == <<run, ctxDone, stopCh, listening, pool, loop>>
outvars == <<sendCh, wire, taken, sends>>

Conn == Ws \cup Tcp

NetInit ==
    /\ run = "boot" /\ ctxDone = FALSE /\ stopCh = FALSE
    /\ listening = {} /\ pool = TRUE /\ loop = "none" /\ serving = NoConn
    /\ pc = [c \in Conn |-> "out"] /\ link = [c \in Conn |-> "up"]
    /\ conns = {} /\ leased = {} 
    /\ outPump = [c \in Conn |-> "none"]
    /\ sendCh = [c \in Conn |-> <<>>] /\ wire = sendCh /\ taken = sendCh
    /\ acceptCh = <<>> /\ sends = 0

-----------------------------------------------------------------------------
(* Run: listeners one by one, then serve, then tear down.                  *)

RunTo(here, next) == run = here /\ run' = next
RestOfNet == UNCHANGED <<pc, link, conns, leased, outPump, sendCh, wire, taken,
                         acceptCh, serving, sends>>

startHTTP ==
    /\ RunTo("boot", "http") /\ listening' = {"http"}
    /\ UNCHANGED <<ctxDone, stopCh, pool, loop>> /\ RestOfNet

startTCP ==
    /\ RunTo("http", "serving")
    /\ listening' = listening \cup {"tcp"} /\ loop' = "run"
    /\ UNCHANGED <<ctxDone, stopCh, pool>> /\ RestOfNet

\* A port in use: Run returns the error, and what it had opened stays open.
startFails ==
    /\ RunTo("boot", "failed") \/ RunTo("http", "failed")
    /\ UNCHANGED <<ctxDone, stopCh, listening, pool, loop>> /\ RestOfNet

Cancel ==
    /\ ~ctxDone /\ ctxDone' = TRUE
    /\ UNCHANGED <<run, stopCh, listening, pool, loop>> /\ RestOfNet

\* The goroutine that waits for the context closes its listener; Shutdown of
\* the HTTP server leaves upgraded connections alone.
ctxCloses(l) ==
    /\ ctxDone /\ l \in listening /\ listening' = listening \ {l}
    /\ UNCHANGED <<run, ctxDone, stopCh, pool, loop>> /\ RestOfNet

\* The wait of Run ends; the shutdown() callback runs, then shutdown closes the
\* listeners, ...
shutdownListeners ==
    /\ ctxDone \/ stopCh
    /\ RunTo("serving", "closing")
    /\ stopCh' = TRUE /\ listening' = {}
    /\ UNCHANGED <<ctxDone, pool, loop>> /\ RestOfNet

\* ... takes and closes the workers, the log and the MQTT clients, ...
shutdownWorkers ==
    /\ RunTo("closing", "waiting") /\ pool' = FALSE
    /\ UNCHANGED <<ctxDone, stopCh, listening, loop>> /\ RestOfNet

\* ... and waits for the HTTP server and the accept loop (s.wg).
shutdownWait ==
    /\ RunTo("waiting", "returned") /\ loop = "exited"
    /\ UNCHANGED <<ctxDone, stopCh, listening, pool, loop>> /\ RestOfNet

-----------------------------------------------------------------------------
(* A connection.                                                           *)

Lease(c) == leased' = IF pool THEN leased \cup {c} ELSE leased

\* Register, lease a worker, call the handler with "open".  Without a worker
\* the connection is served, but no handler is ever called.
Open(c) ==
    /\ pc' = [pc EXCEPT ![c] = "opening"]
    /\ conns' = conns \cup {c}
    /\ Lease(c)

handleWSUpgrade(c) ==
    /\ c \in Ws /\ pc[c] = "out" /\ "http" \in listening
    /\ Open(c)
    /\ UNCHANGED <<runvars, outvars, link, outPump, acceptCh, serving>>

\* The accept loop takes the next TCP connection and offers it to k.tcp.accept.
TcpAccept(c) ==
    /\ c \in Tcp /\ pc[c] = "out"
    /\ loop = "run" /\ serving = NoConn /\ "tcp" \in listening
    /\ Open(c) /\ serving' = c
    /\ acceptCh' = IF Len(acceptCh) < AcceptCap THEN Append(acceptCh, c) ELSE acceptCh
    /\ UNCHANGED <<runvars, outvars, link, outPump>>

\* Accept fails on a closed listener.  The loop returns if the context is done,
\* and what it deferred for every connection it served runs; otherwise it tries
\* again at once, for ever.
TcpLoopReturns ==
    /\ loop = "run" /\ serving = NoConn /\ "tcp" \notin listening /\ ctxDone
    /\ loop' = "exited"
    /\ conns' = conns \ Tcp /\ leased' = leased \ Tcp
    /\ link' = [c \in Conn |-> IF c \in Tcp /\ pc[c] = "done" THEN "down" ELSE link[c]]
    /\ UNCHANGED <<run, ctxDone, stopCh, listening, pool, outvars, pc, outPump,
                   acceptCh, serving>>

\* Puts m on the channels of the connections in S that have room.
\* Mutant: a full channel loses its oldest message.
Full(c) == Len(sendCh[c]) >= SendCap
EnqueueDropsOldest(S, m) ==
    /\ sendCh' = [c \in Conn |-> IF c \notin S THEN sendCh[c]
                                 ELSE IF Full(c) THEN Append(Tail(sendCh[c]), m)
                                 ELSE Append(sendCh[c], m)]
    /\ taken' = [c \in Conn |-> IF c \in S THEN Append(taken[c], m) ELSE taken[c]]
    /\ UNCHANGED wire
Enqueue(S, m) ==
    /\ sendCh' = [c \in Conn |-> IF c \in S /\ ~Full(c) THEN Append(sendCh[c], m)
                                 ELSE sendCh[c]]
    /\ taken' = [c \in Conn |-> IF c \in S /\ ~Full(c) THEN Append(taken[c], m)
                                ELSE taken[c]]
    /\ UNCHANGED wire

\* CallWS, CallTCP with "open", "text" or "close": the handler may return a reply
\* to its own connection.  Without a lease there is no handler to call.
Call(c) ==
    \/ UNCHANGED outvars
    \/ /\ c \in leased /\ sends < MaxSends
       /\ sends' = sends + 1 /\ Enqueue({c}, sends + 1)

CallOpen(c) ==
    /\ pc[c] = "opening" /\ Call(c)
    /\ pc' = [pc EXCEPT ![c] = "reading"]
    /\ outPump' = [outPump EXCEPT ![c] = "run"]
    /\ UNCHANGED <<runvars, link, conns, leased, acceptCh, serving>>

CallText(c) ==
    /\ pc[c] = "reading" /\ link[c] = "up" /\ Call(c)
    /\ UNCHANGED <<runvars, pc, link, conns, leased, outPump, acceptCh, serving>>

\* The read fails: pumpStop is closed ...
ReadFails(c) ==
    /\ pc[c] = "reading" /\ link[c] = "down"
    /\ pc' = [pc EXCEPT ![c] = "closing"]
    /\ UNCHANGED <<runvars, outvars, link, conns, leased, outPump, acceptCh, serving>>

\* ... and the handler called with "close".
CallClose(c) ==
    /\ pc[c] = "closing" /\ Call(c)
    /\ pc' = [pc EXCEPT ![c] = "ending"]
    /\ UNCHANGED <<runvars, link, conns, leased, outPump, acceptCh, serving>>

\* The pump has ended.  A WebSocket connection releases its worker and leaves
\* the hub; the TCP loop goes on to the next connection with both kept.
ConnEnds(c) ==
    /\ pc[c] = "ending" /\ outPump[c] = "done"
    /\ pc' = [pc EXCEPT ![c] = "done"]
    /\ IF c \in Ws THEN /\ leased' = leased \ {c} /\ conns' = conns \ {c}
                        /\ UNCHANGED serving
                   ELSE /\ serving' = NoConn
                        /\ UNCHANGED <<leased, conns>>
    /\ UNCHANGED <<runvars, outvars, link, outPump, acceptCh>>

\* The outbound pump writes a message; a failed write ends it (a WebSocket write
\* that times out closes the connection), and so does a closed pumpStop, with
\* messages left.
PumpWrites(c) ==
    /\ outPump[c] = "run" /\ sendCh[c] # <<>> /\ link[c] = "up"
    /\ wire' = [wire EXCEPT ![c] = Append(@, Head(sendCh[c]))]
    /\ sendCh' = [sendCh EXCEPT ![c] = Tail(@)]
    /\ UNCHANGED <<runvars, pc, link, conns, leased, outPump, taken, acceptCh,
                   serving, sends>>

PumpFails(c) ==
    /\ outPump[c] = "run" /\ sendCh[c] # <<>> /\ (link[c] = "down" \/ c \in Ws)
    /\ outPump' = [outPump EXCEPT ![c] = "done"] /\ link' = [link EXCEPT ![c] = "down"]
    /\ sendCh' = [sendCh EXCEPT ![c] = Tail(@)]
    /\ UNCHANGED <<runvars, pc, conns, leased, wire, taken, acceptCh, serving, sends>>

\* Mutant: the pump looks at pumpStop only after a write.
PumpStopsIdle(c) ==
    /\ outPump[c] = "run" /\ pc[c] \in {"closing", "ending"} /\ Len(sendCh[c]) = SendCap
    /\ outPump' = [outPump EXCEPT ![c] = "done"]
    /\ UNCHANGED <<runvars, outvars, pc, link, conns, leased, acceptCh, serving>>
PumpStops(c) ==
    /\ outPump[c] = "run" /\ pc[c] \in {"closing", "ending"}
    /\ outPump' = [outPump EXCEPT ![c] = "done"]
    /\ UNCHANGED <<runvars, outvars, pc, link, conns, leased, acceptCh, serving>>

HangUp(c) ==
    /\ pc[c] \notin {"out", "done"} /\ link[c] = "up"
    /\ link' = [link EXCEPT ![c] = "down"]
    /\ UNCHANGED <<runvars, outvars, pc, conns, leased, outPump, acceptCh, serving>>

-----------------------------------------------------------------------------
(* What a handler of any worker may call, as long as there are workers.    *)

kSend(c) ==
    /\ pool /\ sends < MaxSends /\ c \in conns
    /\ sends' = sends + 1 /\ Enqueue({c}, sends + 1)
    /\ UNCHANGED <<runvars, pc, link, conns, leased, outPump, acceptCh, serving>>

kBroadcast ==
    /\ pool /\ sends < MaxSends /\ conns \cap Ws # {}
    /\ sends' = sends + 1 /\ Enqueue(conns \cap Ws, sends + 1)
    /\ UNCHANGED <<runvars, pc, link, conns, leased, outPump, acceptCh, serving>>

kClose(c) ==
    /\ pool /\ c \in conns /\ link[c] = "up" /\ link' = [link EXCEPT ![c] = "down"]
    /\ UNCHANGED <<runvars, outvars, pc, conns, leased, outPump, acceptCh, serving>>

\* k.tcp.accept waits in its worker until the accept loop has a connection.
kAccept ==
    /\ pool /\ acceptCh # <<>> /\ acceptCh' = Tail(acceptCh)
    /\ UNCHANGED <<runvars, outvars, pc, link, conns, leased, outPump, serving>>

kQuit ==
    /\ pool /\ ~stopCh /\ stopCh' = TRUE
    /\ UNCHANGED <<run, ctxDone, listening, pool, loop>> /\ RestOfNet

-----------------------------------------------------------------------------
NetRun == \/ startHTTP \/ startTCP \/ shutdownListeners \/ shutdownWorkers
          \/ shutdownWait \/ TcpLoopReturns \/ \E l \in listening : ctxCloses(l)
NetConn(c) == \/ CallOpen(c) \/ ReadFails(c) \/ CallClose(c) \/ ConnEnds(c)
              \/ PumpStops(c)

NetNext ==
    \/ NetRun \/ startFails \/ Cancel
    \/ \E c \in Conn : \/ NetConn(c) \/ handleWSUpgrade(c) \/ TcpAccept(c)
                       \/ CallText(c) \/ PumpWrites(c) \/ PumpFails(c) \/ HangUp(c)
                       \/ kSend(c) \/ kClose(c)
    \/ kBroadcast \/ kAccept \/ kQuit

NetSpec == NetInit /\ [][NetNext]_netvars

-----------------------------------------------------------------------------
(* Properties.                                                             *)

\* A message k.ws.send, k.ws.broadcast, k.tcp.send or a handler's return value
\* got accepted for is written to that connection once and in order: what was
\* written is a prefix of what was accepted, and while the pump runs the rest is
\* still queued.  Only the connection's end loses messages.
DeliveredInOrder ==
    \A c \in Conn :
        /\ IsPrefix(wire[c], taken[c])
        /\ outPump[c] # "done" => taken[c] = wire[c] \o sendCh[c]

\* If the clients hang up in the end, a cancelled context makes Run return.
ClientsGone == \A c \in Conn : link[c] = "down" \/ pc[c] = "out"
RunReturns == <>[]ClientsGone => (ctxDone ~> run \in {"returned", "failed"})

\* "released when its last lease ends": a TCP connection that has ended has no
\* lease.  The accept loop keeps it until it returns.
TcpReleased == \A c \in Tcp : pc[c] = "done" => c \notin leased

\* k.quit stops the server.  The accept loop only looks at the context.
QuitReturns == stopCh ~> run = "returned"
=============================================================================
