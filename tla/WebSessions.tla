---------------------------- MODULE WebSessions ----------------------------
(***************************************************************************)
(* Run mode's web server (internal/web/server.go, bridge.go, runCmd of     *)
(* internal/cli/cli.go): the session limit, the handler of a tab from the  *)
(* upgrade to its deferred clean-up, the reload of a changed script by the *)
(* watcher and by SIGHUP, and the broadcast to the tabs.                   *)
(*                                                                         *)
(* A tab's handler waits for the end of its request's context.  net/http   *)
(* (external) does not cancel the context of a hijacked connection before  *)
(* its handler returns, so the wait never ends.                            *)
(***************************************************************************)
EXTENDS Integers, Sequences, FiniteSets

CONSTANTS
    Tab,             \* browser tabs
    SessionLimit,    \* --session-limit
    TabOutboxCap,    \* capacity of a session's outbox
    MaxEdits,        \* bound: edits of the script on disk
    Broken           \* the edits that do not pass the static check

VARIABLES
    sessions,        \* s.sessions
    hpc,             \* per tab: where handleWS is
    ws,              \* per tab: the WebSocket is up
    tdone,           \* per tab: how often transport.done was closed
    open,            \* the sessions that are not closed
    tout,            \* per tab: the outbox
    disk,            \* the number of the edit on disk
    lastReloadHash,
    rpc              \* per caller of Reload: what it has read, and where it is

webvars == <<sessions, hpc, ws, tdone, open, tout, disk, lastReloadHash, rpc>>
Reloader == {"watch", "hup"}

WebInit ==
    /\ sessions = {} /\ hpc = [t \in Tab |-> "none"] /\ ws = [t \in Tab |-> FALSE]
    /\ tdone = [t \in Tab |-> 0] /\ open = {} /\ tout = [t \in Tab |-> <<>>]
    /\ disk = 0 /\ lastReloadHash = 0
    /\ rpc = [r \in Reloader |-> [at |-> "idle", src |-> 0]]

Tabs(t, here, next) == hpc[t] = here /\ hpc' = [hpc EXCEPT ![t] = next]
NoReload == UNCHANGED <<disk, lastReloadHash, rpc>>

-----------------------------------------------------------------------------
(* handleWS.                                                               *)

\* The limit is read under the lock; the session is registered much later.
checkLimit(t) ==
    /\ Tabs(t, "none", "accepted") /\ Cardinality(sessions) < SessionLimit
    /\ UNCHANGED <<sessions, ws, tdone, open, tout>> /\ NoReload

\* Token, origin, upgrade and script path; a failure answers and ends the handler.
upgrade(t, ok) ==
    /\ Tabs(t, "accepted", IF ok THEN "upgraded" ELSE "done")
    /\ ws' = [ws EXCEPT ![t] = ok]
    /\ UNCHANGED <<sessions, tdone, open, tout>> /\ NoReload

\* NewSessionWithWSTransport loads the script and starts main; registering it
\* makes broadcasts reach it.  On failure the deferred transport.Close runs.
newSession(t, ok) ==
    /\ Tabs(t, "upgraded", IF ok THEN "registered" ELSE "done")
    /\ IF ok THEN /\ open' = open \cup {t} /\ sessions' = sessions \cup {t}
                  /\ UNCHANGED <<ws, tdone>>
             ELSE /\ tdone' = [tdone EXCEPT ![t] = 1] /\ ws' = [ws EXCEPT ![t] = FALSE]
                  /\ UNCHANGED <<open, sessions>>
    /\ UNCHANGED tout /\ NoReload

\* The init message: sent, or the clean-up begins at once.
sendInit(t) ==
    /\ hpc[t] = "registered"
    /\ hpc' = [hpc EXCEPT ![t] = IF ws[t] THEN "serving" ELSE "cleanup"]
    /\ UNCHANGED <<sessions, ws, tdone, open, tout>> /\ NoReload

\* The deferred calls: unregister, Close of the session (whose actor closes the
\* transport when its context ends), then transport.Close again.
unregister(t) ==
    /\ Tabs(t, "cleanup", "closing") /\ sessions' = sessions \ {t}
    /\ UNCHANGED <<ws, tdone, open, tout>> /\ NoReload

closeSession(t) ==
    /\ Tabs(t, "closing", "done") /\ open' = open \ {t}
    /\ tdone' = [tdone EXCEPT ![t] = 2] /\ ws' = [ws EXCEPT ![t] = FALSE]
    /\ UNCHANGED <<sessions, tout>> /\ NoReload

Disconnect(t) ==
    /\ ws[t] /\ ws' = [ws EXCEPT ![t] = FALSE]
    /\ UNCHANGED <<sessions, hpc, tdone, open, tout>> /\ NoReload

\* The session's outbox pump; a failed send ends it.
pumpTab(t) ==
    /\ t \in open /\ ws[t] /\ tout[t] # <<>> /\ tout' = [tout EXCEPT ![t] = Tail(@)]
    /\ UNCHANGED <<sessions, hpc, ws, tdone, open>> /\ NoReload

-----------------------------------------------------------------------------
(* Reload, called by the watcher's ticker and by SIGHUP.                   *)

NoTabs == UNCHANGED <<sessions, hpc, ws, tdone, open>>

Edit ==
    /\ disk < MaxEdits /\ disk' = disk + 1
    /\ NoTabs /\ UNCHANGED <<tout, lastReloadHash, rpc>>

readScript(r) ==
    /\ rpc[r].at = "idle" /\ rpc' = [rpc EXCEPT ![r] = [at |-> "read", src |-> disk]]
    /\ NoTabs /\ UNCHANGED <<tout, disk, lastReloadHash>>

\* Mutant: the hash is only taken over when the check passes.
compareHashNoTake(r) ==
    /\ rpc[r].at = "read"
    /\ rpc' = [rpc EXCEPT ![r].at = IF rpc[r].src = lastReloadHash THEN "idle" ELSE "check"]
    /\ lastReloadHash' = IF rpc[r].src \in Broken THEN lastReloadHash ELSE rpc[r].src
    /\ NoTabs /\ UNCHANGED <<tout, disk>>

\* Equal hashes end the call; otherwise the hash is taken over.
compareHash(r) ==
    /\ rpc[r].at = "read"
    /\ IF rpc[r].src = lastReloadHash
       THEN rpc' = [rpc EXCEPT ![r].at = "idle"] /\ UNCHANGED lastReloadHash
       ELSE rpc' = [rpc EXCEPT ![r].at = "check"] /\ lastReloadHash' = rpc[r].src
    /\ NoTabs /\ UNCHANGED <<tout, disk>>

\* The static check, then a broadcast under the sessions' lock: "reload", or the
\* errors as "status".  SendOutbox drops the message when the outbox is full.
checkAndBroadcast(r) ==
    /\ rpc[r].at = "check" /\ rpc' = [rpc EXCEPT ![r].at = "idle"]
    /\ LET m == IF rpc[r].src \in Broken THEN "status" ELSE "reload" IN
       tout' = [t \in Tab |-> IF t \in sessions /\ Len(tout[t]) < TabOutboxCap
                              THEN Append(tout[t], m) ELSE tout[t]]
    /\ NoTabs /\ UNCHANGED <<disk, lastReloadHash>>

ReloadStep(r) == compareHash(r) \/ checkAndBroadcast(r)
TabStep(t) == sendInit(t) \/ unregister(t) \/ closeSession(t)

WebNext ==
    \/ \E t \in Tab : \/ TabStep(t) \/ checkLimit(t) \/ Disconnect(t) \/ pumpTab(t)
                      \/ \E ok \in BOOLEAN : upgrade(t, ok) \/ newSession(t, ok)
    \/ \E r \in Reloader : ReloadStep(r) \/ readScript(r)
    \/ Edit

-----------------------------------------------------------------------------
(* Properties.                                                             *)

\* The watcher always catches up with the disk: however reloads by the watcher
\* and by SIGHUP overlap, and also when the script does not pass the check, the
\* hash ends up as that of the script on disk.
HashCatchesUp == []<>(lastReloadHash = disk)

\* "--session-limit caps concurrent tabs": two tabs can both pass the check before
\* either is registered.
WithinLimit == Cardinality(sessions) <= SessionLimit

\* "Session ctx tied to WS lifecycle": the session of a tab that has gone is closed.
TabGoneCloses == \A t \in Tab : (t \in sessions /\ ~ws[t]) ~> t \notin sessions

\* A transport's done channel is closed once.
CloseOnce == \A t \in Tab : tdone[t] <= 1
=============================================================================
