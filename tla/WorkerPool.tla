----------------------------- MODULE WorkerPool -----------------------------
(***************************************************************************)
(* The serve-mode worker pool (internal/server/server.go, worker.go): a    *)
(* slice of Lua workers, leased by HTTP requests, WebSocket connections    *)
(* and the MQTT pump; each worker runs one Lua handler at a time, under a  *)
(* one-token slot.  A SIGHUP reload builds a new slice, swaps it in and    *)
(* retires the old workers, which are closed when their last lease ends.   *)
(* Run builds the first pool, and at the end runs the shutdown() callback, *)
(* empties the pool and closes every worker.                               *)
(*                                                                         *)
(* Every step is one atomic operation of the code: a critical section      *)
(* under workerMu, one atomic load, store or add, one channel operation.   *)
(* A retired flag is never reset and Close is idempotent (sync.Once), so a *)
(* load that decides to close and the close itself are one step.           *)
(***************************************************************************)
EXTENDS Integers, Sequences, FiniteSets

CONSTANTS
    HTTPReq,      \* HTTP requests, each served by a goroutine of its own
    WSConn,       \* WebSocket connections
    MQTTPump,     \* the per-client pump goroutines of the MQTT hub
    PoolSize,     \* cfg.Workers
    MaxWorkers,   \* bound: workers built in the life of the server
    Callbacks,    \* which optional callbacks the script defines
    EarlyHUP      \* a SIGHUP may arrive before Run is ready

ASSUME PoolAssumption ==
    /\ IsFiniteSet(HTTPReq) /\ IsFiniteSet(WSConn) /\ IsFiniteSet(MQTTPump)
    /\ HTTPReq \cap WSConn = {}
    /\ HTTPReq \cap MQTTPump = {}
    /\ WSConn \cap MQTTPump = {}
    /\ PoolSize \in Nat \ {0}          \* NewServer: Workers <= 0 becomes 1
    /\ MaxWorkers \in Nat /\ MaxWorkers >= PoolSize
    /\ Callbacks \subseteq {"init", "ws", "shutdown"}
    /\ EarlyHUP \in BOOLEAN

Client == HTTPReq \cup WSConn \cup MQTTPump
Worker == 1..MaxWorkers
NoWorker == 0

(* Program counter of a client goroutine. *)
ClientPC == {"start",     \* accepted, not yet at leaseWorker
             "leased",    \* holds a lease, outside Call*
             "waiting",   \* in acquireSlot / tryAcquireSlot
             "inLua",     \* holds the slot, a Lua handler runs
             "finished",  \* the work is over, release() not yet called
             "dropped",   \* release() took refs to zero, retired not yet read
             "done"}

(* What became of an HTTP request: why it ended and the status written. *)
Cause == {"none", "ok", "lua_error", "busy", "bad_body", "no_worker"}
NoAnswer == [cause |-> "none", status |-> 0]
Answer == [cause : Cause \ {"none"}, status : {200, 400, 500, 503}]
              \cup {NoAnswer}

(* Reload() and Run() are the two other goroutines. *)
ReloadPC == {"idle", "swap", "retire", "check"}
BootPC == {"build", "install", "init", "initWait", "initLua", "listen"}
ServePC == {"running", "pick", "callWait", "callLua", "listeners", "collect"}
DrainPC == {"drain", "idleTaken", "close", "stopped"}
RunPC == BootPC \cup ServePC \cup DrainPC \cup {"failed"}

VARIABLES
    workers,     \* s.workers
    retiredQ,    \* s.retired, as a set
    cursor,      \* s.nextWorkerIdx modulo the pool size
    nBuilt,      \* workers 1..nBuilt have been created by NewWorker
    refs,        \* w.refs
    retired,     \* w.retired
    closed,      \* w.L.Close() has run
    slot,        \* TRUE iff the token is in w.slot
    pc, lease,   \* the clients: where they are, which worker they hold
    closing,     \* a WS connection: its close event has been dispatched
    answer,      \* the HTTP requests' outcomes
    rpc,         \* where Reload() is
    fresh,       \* newWorkers of the Reload() in progress
    old,         \* the old workers its retire loop has still to visit
    retiring,    \* the old worker it is retiring
    mpc,         \* where Run() is
    boot,        \* the workers startWorkers has built
    target,      \* the worker Run() is calling or draining
    drain,       \* the workers shutdown() has still to close
    sawIdle,     \* workers whose token waitIdle has seen
    ctxDone,     \* the signal context is cancelled
    stop         \* stopCh is closed

poolVars == <<workers, retiredQ, cursor, nBuilt>>
workerVars == <<refs, retired, closed, slot>>
clientVars == <<pc, lease, closing, answer>>
reloadVars == <<rpc, fresh, old, retiring>>
runVars == <<mpc, boot, target, drain, sawIdle>>
stopVars == <<ctxDone, stop>>
vars == <<poolVars, workerVars, clientVars, reloadVars, runVars, stopVars>>

Members(s) == {s[i] : i \in 1..Len(s)}
Ids(first, n) == [i \in 1..n |-> first + i - 1]

(* Write lock on workerMu: held through Reload's retire loop; the other    *)
(* critical sections are single steps.                                     *)
WriteLocked == rpc \in {"retire", "check"}

(* Work reaches the pool: HTTP and WebSocket once the listener is bound,   *)
(* MQTT messages once SetDeliver has wired the pump.  A failed start ends  *)
(* the process.                                                            *)
Reachable(c) ==
    IF c \in MQTTPump THEN mpc \notin {"build", "install", "failed"}
    ELSE mpc \notin BootPC \cup {"failed"}

(* Run has just been called: NewServer has made an empty pool. *)
Init ==
    /\ workers = <<>> /\ retiredQ = {} /\ cursor = 0 /\ nBuilt = 0
    /\ refs = [w \in Worker |-> 0]
    /\ retired = [w \in Worker |-> FALSE]
    /\ closed = [w \in Worker |-> FALSE]
    /\ slot = [w \in Worker |-> TRUE]
    /\ pc = [c \in Client |-> "start"]
    /\ lease = [c \in Client |-> NoWorker]
    /\ closing = [c \in Client |-> FALSE]
    /\ answer = [c \in Client |-> NoAnswer]
    /\ rpc = "idle" /\ fresh = <<>> /\ old = {} /\ retiring = NoWorker
    /\ mpc = "build" /\ boot = <<>> /\ target = NoWorker
    /\ drain = {} /\ sawIdle = {}
    /\ ctxDone = FALSE /\ stop = FALSE

-----------------------------------------------------------------------------
(* Clients *)

(* leaseWorker: under the read lock, take the next worker and count the    *)
(* lease.                                                                  *)
LeaseWorker(c) ==
    /\ pc[c] = "start"
    /\ Reachable(c)
    /\ ~WriteLocked
    /\ workers # <<>>
    /\ cursor' = (cursor + 1) % Len(workers)
    /\ LET w == workers[((cursor + 1) % Len(workers)) + 1]
       IN  /\ refs' = [refs EXCEPT ![w] = @ + 1]
           /\ lease' = [lease EXCEPT ![c] = w]
    /\ pc' = [pc EXCEPT ![c] = "leased"]
    /\ UNCHANGED <<workers, retiredQ, nBuilt, retired, closed, slot, closing,
                   answer, reloadVars, runVars, stopVars>>

(* leaseWorker on an empty pool: HTTP answers 503, the others give up. *)
NoWorkers(c) ==
    /\ pc[c] = "start"
    /\ Reachable(c)
    /\ ~WriteLocked
    /\ workers = <<>>
    /\ pc' = [pc EXCEPT ![c] = "done"]
    /\ answer' = IF c \in HTTPReq
                 THEN [answer EXCEPT ![c] = [cause |-> "no_worker", status |-> 503]]
                 ELSE answer
    /\ UNCHANGED <<poolVars, workerVars, lease, closing, reloadVars, runVars,
                   stopVars>>

(* handleHTTP could not read the body: 400, the deferred release follows. *)
BadBody(c) ==
    /\ c \in HTTPReq /\ pc[c] = "leased"
    /\ pc' = [pc EXCEPT ![c] = "finished"]
    /\ answer' = [answer EXCEPT ![c] = [cause |-> "bad_body", status |-> 400]]
    /\ UNCHANGED <<poolVars, workerVars, lease, closing, reloadVars, runVars,
                   stopVars>>

(* CallHTTP, CallMQTT: queue for the slot. *)
BeginCall(c) ==
    /\ c \in HTTPReq \cup MQTTPump /\ pc[c] = "leased"
    /\ pc' = [pc EXCEPT ![c] = "waiting"]
    /\ UNCHANGED <<poolVars, workerVars, lease, closing, answer, reloadVars,
                   runVars, stopVars>>

(* A WebSocket event (open, a message, or close when last) reaches CallWS, *)
(* which returns at once when the script has no handle_ws.                 *)
WSEvent(c, last) ==
    /\ c \in WSConn /\ pc[c] = "leased" /\ ~closing[c]
    /\ closing' = [closing EXCEPT ![c] = last]
    /\ pc' = [pc EXCEPT ![c] = IF "ws" \in Callbacks THEN "waiting"
                               ELSE IF last THEN "finished" ELSE "leased"]
    /\ UNCHANGED <<poolVars, workerVars, lease, answer, reloadVars, runVars,
                   stopVars>>

(* The waiter receives the token. *)
AcquireSlot(c) ==
    /\ pc[c] = "waiting" /\ slot[lease[c]]
    /\ slot' = [slot EXCEPT ![lease[c]] = FALSE]
    /\ pc' = [pc EXCEPT ![c] = "inLua"]
    /\ UNCHANGED <<poolVars, refs, retired, closed, lease, closing, answer,
                   reloadVars, runVars, stopVars>>

(* handleHTTP: an error from CallHTTP is answered with 500, whatever the   *)
(* response that came with it.                                             *)
StatusWritten(respStatus, err) == IF err THEN 500 ELSE respStatus

(* Fault: the deferred freeSlot runs although the slot was never acquired. *)
BusyTimeoutFrees(c) ==
    /\ c \in HTTPReq /\ pc[c] = "waiting"
    /\ slot' = [slot EXCEPT ![lease[c]] = TRUE]
    /\ pc' = [pc EXCEPT ![c] = "finished"]
    /\ UNCHANGED <<poolVars, refs, retired, closed, lease, closing, answer,
                   reloadVars, runVars, stopVars>>

(* tryAcquireSlot gave up (busyTimeout, or the request was cancelled):     *)
(* CallHTTP returns a 503 response together with an error.                 *)
BusyTimeout(c) ==
    /\ c \in HTTPReq /\ pc[c] = "waiting"
    /\ pc' = [pc EXCEPT ![c] = "finished"]
    /\ answer' = [answer EXCEPT ![c] = [cause |-> "busy",
                                         status |-> StatusWritten(503, TRUE)]]
    /\ UNCHANGED <<poolVars, workerVars, lease, closing, reloadVars, runVars,
                   stopVars>>

(* The running handler calls k.quit: Server.Stop. *)
Quit(c) ==
    /\ pc[c] = "inLua" /\ ~stop
    /\ stop' = TRUE
    /\ UNCHANGED <<poolVars, workerVars, clientVars, reloadVars, runVars,
                   ctxDone>>

(* Fault: the error return forgets to free the slot. *)
ReturnKeepsSlotOnError(c, ok) ==
    /\ pc[c] = "inLua"
    /\ slot' = [slot EXCEPT ![lease[c]] = ok]
    /\ pc' = [pc EXCEPT ![c] = IF c \in WSConn /\ ~closing[c] THEN "leased"
                               ELSE "finished"]
    /\ UNCHANGED <<poolVars, refs, retired, closed, lease, closing, answer,
                   reloadVars, runVars, stopVars>>

(* The handler returns (ok) or raises a Lua error, and the deferred        *)
(* freeSlot runs.  A WebSocket connection goes on reading until its close  *)
(* event has been handled.                                                 *)
Return(c, ok) ==
    /\ pc[c] = "inLua"
    /\ slot' = [slot EXCEPT ![lease[c]] = TRUE]
    /\ pc' = [pc EXCEPT ![c] = IF c \in WSConn /\ ~closing[c] THEN "leased"
                               ELSE "finished"]
    /\ answer' = IF c \in HTTPReq
                 THEN [answer EXCEPT ![c] =
                         [cause |-> IF ok THEN "ok" ELSE "lua_error",
                          status |-> StatusWritten(200, ~ok)]]
                 ELSE answer
    /\ UNCHANGED <<poolVars, refs, retired, closed, lease, closing,
                   reloadVars, runVars, stopVars>>

(* Where a client goes once its lease is dropped: the pump waits for the   *)
(* next message, the others end.                                           *)
AfterRelease(c) == IF c \in MQTTPump THEN "start" ELSE "done"

(* release: refs.Add(-1), and only a zero result goes on to read retired. *)
ReleaseDec(c) ==
    /\ pc[c] = "finished"
    /\ refs' = [refs EXCEPT ![lease[c]] = @ - 1]
    /\ IF refs[lease[c]] = 1
       THEN /\ pc' = [pc EXCEPT ![c] = "dropped"]
            /\ UNCHANGED lease
       ELSE /\ pc' = [pc EXCEPT ![c] = AfterRelease(c)]
            /\ lease' = [lease EXCEPT ![c] = NoWorker]
    /\ UNCHANGED <<poolVars, retired, closed, slot, closing, answer,
                   reloadVars, runVars, stopVars>>

(* Fault: the last lease closes the worker without looking at retired. *)
ReleaseAlwaysCloses(c) ==
    /\ pc[c] = "dropped"
    /\ closed' = [closed EXCEPT ![lease[c]] = TRUE]
    /\ pc' = [pc EXCEPT ![c] = AfterRelease(c)]
    /\ lease' = [lease EXCEPT ![c] = NoWorker]
    /\ UNCHANGED <<poolVars, refs, retired, slot, closing, answer, reloadVars,
                   runVars, stopVars>>

(* Fault: release leaves closing to somebody else. *)
ReleaseNeverCloses(c) ==
    /\ pc[c] = "dropped"
    /\ pc' = [pc EXCEPT ![c] = AfterRelease(c)]
    /\ lease' = [lease EXCEPT ![c] = NoWorker]
    /\ UNCHANGED <<poolVars, workerVars, closing, answer, reloadVars, runVars,
                   stopVars>>

(* release: a retired worker is closed by its last lease. *)
ReleaseCheck(c) ==
    /\ pc[c] = "dropped"
    /\ closed' = [closed EXCEPT ![lease[c]] = @ \/ retired[lease[c]]]
    /\ pc' = [pc EXCEPT ![c] = AfterRelease(c)]
    /\ lease' = [lease EXCEPT ![c] = NoWorker]
    /\ UNCHANGED <<poolVars, refs, retired, slot, closing, answer, reloadVars,
                   runVars, stopVars>>

-----------------------------------------------------------------------------
(* buildWorkers creates and starts a whole pool of workers, whose main()   *)
(* may call k.quit ...                                                     *)
BuildSucceeds ==
    /\ nBuilt + PoolSize <= MaxWorkers
    /\ nBuilt' = nBuilt + PoolSize
    /\ stop' \in {stop, TRUE}

(* ... or closes the k workers it has created when the next one fails. *)
BuildFails(k) ==
    /\ k < PoolSize /\ nBuilt + k <= MaxWorkers
    /\ nBuilt' = nBuilt + k
    /\ closed' = [w \in Worker |-> closed[w] \/ w \in (nBuilt + 1)..(nBuilt + k)]
    /\ stop' \in {stop, TRUE}

-----------------------------------------------------------------------------
(* Reload, called from the CLI's signal loop, so never concurrent with     *)
(* itself, but concurrent with all of Run.                                 *)

ReloadBuild ==
    /\ rpc = "idle"
    /\ EarlyHUP \/ mpc \notin BootPC
    /\ BuildSucceeds
    /\ fresh' = Ids(nBuilt + 1, PoolSize)
    /\ rpc' = "swap"
    /\ UNCHANGED <<workers, retiredQ, cursor, workerVars, clientVars, old,
                   retiring, runVars, ctxDone>>

(* Reload returns the error and the pool is left as it was. *)
ReloadFail(k) ==
    /\ rpc = "idle"
    /\ EarlyHUP \/ mpc \notin BootPC
    /\ BuildFails(k)
    /\ UNCHANGED <<workers, retiredQ, cursor, refs, retired, slot, clientVars,
                   reloadVars, runVars, ctxDone>>

(* Fault: the superseded workers are not remembered in s.retired. *)
ReloadSwapForgets ==
    /\ rpc = "swap"
    /\ old' = Members(workers)
    /\ workers' = fresh
    /\ fresh' = <<>>
    /\ cursor' = 0
    /\ rpc' = "retire"
    /\ UNCHANGED <<retiredQ, nBuilt, workerVars, clientVars, retiring, runVars,
                   stopVars>>

(* Take the write lock, install the new pool, restart the round robin.     *)
(* s.retired grows by the old workers after the retire loop; nobody reads  *)
(* it before the unlock, so it grows here.                                 *)
ReloadSwap ==
    /\ rpc = "swap"
    /\ old' = Members(workers)
    /\ retiredQ' = retiredQ \cup Members(workers)
    /\ workers' = fresh
    /\ fresh' = <<>>
    /\ cursor' = 0
    /\ rpc' = "retire"
    /\ UNCHANGED <<nBuilt, workerVars, clientVars, retiring, runVars, stopVars>>

(* retire: retired.Store(true) on an old worker ... *)
RetireStore ==
    /\ rpc = "retire"
    /\ \E w \in old :
          /\ retired' = [retired EXCEPT ![w] = TRUE]
          /\ old' = old \ {w}
          /\ retiring' = w
    /\ rpc' = "check"
    /\ UNCHANGED <<poolVars, refs, closed, slot, clientVars, fresh, runVars,
                   stopVars>>

(* Fault: retire leaves an idle worker to a release that never comes. *)
RetireNeverCloses ==
    /\ rpc = "check"
    /\ retiring' = NoWorker
    /\ rpc' = "retire"
    /\ UNCHANGED <<poolVars, workerVars, clientVars, fresh, old, runVars,
                   stopVars>>

(* ... which is closed at once when idle. *)
RetireCheck ==
    /\ rpc = "check"
    /\ closed' = [closed EXCEPT ![retiring] = @ \/ refs[retiring] = 0]
    /\ retiring' = NoWorker
    /\ rpc' = "retire"
    /\ UNCHANGED <<poolVars, refs, retired, slot, clientVars, fresh, old,
                   runVars, stopVars>>

(* Unlock. *)
ReloadDone ==
    /\ rpc = "retire" /\ old = {}
    /\ rpc' = "idle"
    /\ UNCHANGED <<poolVars, workerVars, clientVars, fresh, old, retiring,
                   runVars, stopVars>>

-----------------------------------------------------------------------------
(* Run, from startWorkers to readiness *)

(* startWorkers builds the first pool ... *)
BootBuild ==
    /\ mpc = "build"
    /\ BuildSucceeds
    /\ boot' = Ids(nBuilt + 1, PoolSize)
    /\ mpc' = "install"
    /\ UNCHANGED <<workers, retiredQ, cursor, workerVars, clientVars,
                   reloadVars, target, drain, sawIdle, ctxDone>>

(* ... or Run returns its error. *)
BootFail(k) ==
    /\ mpc = "build"
    /\ BuildFails(k)
    /\ mpc' = "failed"
    /\ UNCHANGED <<workers, retiredQ, cursor, refs, retired, slot, clientVars,
                   reloadVars, boot, target, drain, sawIdle, ctxDone>>

(* startWorkers publishes the pool, without the lock.  Building the        *)
(* GraphQL schema or the SOAP operations may fail: Run returns the error   *)
(* and leaves the workers open.                                            *)
BootInstall(ok) ==
    /\ mpc = "install"
    /\ workers' = boot
    /\ mpc' = IF ok THEN "init" ELSE "failed"
    /\ UNCHANGED <<retiredQ, cursor, nBuilt, workerVars, clientVars,
                   reloadVars, boot, target, drain, sawIdle, stopVars>>

(* CallInit on the first of the workers just built, if there is an init(). *)
BootInit ==
    /\ mpc = "init"
    /\ mpc' = IF "init" \in Callbacks THEN "initWait" ELSE "listen"
    /\ UNCHANGED <<poolVars, workerVars, clientVars, reloadVars, boot, target,
                   drain, sawIdle, stopVars>>

InitAcquire ==
    /\ mpc = "initWait" /\ slot[boot[1]]
    /\ slot' = [slot EXCEPT ![boot[1]] = FALSE]
    /\ target' = boot[1]
    /\ mpc' = "initLua"
    /\ UNCHANGED <<poolVars, refs, retired, closed, clientVars, reloadVars,
                   boot, drain, sawIdle, stopVars>>

(* init() returns; after an error startWorkers closes its workers and Run  *)
(* returns.                                                                *)
InitReturn(ok) ==
    /\ mpc = "initLua"
    /\ slot' = [slot EXCEPT ![target] = TRUE]
    /\ closed' = IF ok THEN closed
                 ELSE [w \in Worker |-> closed[w] \/ w \in Members(boot)]
    /\ target' = NoWorker
    /\ mpc' = IF ok THEN "listen" ELSE "failed"
    /\ UNCHANGED <<poolVars, refs, retired, clientVars, reloadVars, boot,
                   drain, sawIdle, stopVars>>

(* startHTTP, startTCP: bind, or Run returns the error at once. *)
BootListen(ok) ==
    /\ mpc = "listen"
    /\ mpc' = IF ok THEN "running" ELSE "failed"
    /\ UNCHANGED <<poolVars, workerVars, clientVars, reloadVars, boot, target,
                   drain, sawIdle, stopVars>>

-----------------------------------------------------------------------------
(* Run, from readiness to its return *)

(* SIGINT / SIGTERM cancel the context. *)
Signal ==
    /\ ~ctxDone
    /\ ctxDone' = TRUE
    /\ UNCHANGED <<poolVars, workerVars, clientVars, reloadVars, runVars,
                   stop>>

(* Run's select wakes up. *)
RunWake ==
    /\ mpc = "running" /\ (ctxDone \/ stop)
    /\ mpc' = "pick"
    /\ UNCHANGED <<poolVars, workerVars, clientVars, reloadVars, boot, target,
                   drain, sawIdle, stopVars>>

(* runShutdownHandlers reads s.workers[0], without the lock and without a  *)
(* lease.                                                                  *)
PickShutdownWorker ==
    /\ mpc = "pick"
    /\ IF workers # <<>> /\ "shutdown" \in Callbacks
       THEN /\ target' = workers[1]
            /\ mpc' = "callWait"
       ELSE /\ mpc' = "listeners"
            /\ UNCHANGED target
    /\ UNCHANGED <<poolVars, workerVars, clientVars, reloadVars, boot, drain,
                   sawIdle, stopVars>>

(* CallShutdown: acquireSlot *)
ShutdownAcquire ==
    /\ mpc = "callWait" /\ slot[target]
    /\ slot' = [slot EXCEPT ![target] = FALSE]
    /\ mpc' = "callLua"
    /\ UNCHANGED <<poolVars, refs, retired, closed, clientVars, reloadVars,
                   boot, target, drain, sawIdle, stopVars>>

(* CallShutdown returns; errors are logged only. *)
ShutdownReturn ==
    /\ mpc = "callLua"
    /\ slot' = [slot EXCEPT ![target] = TRUE]
    /\ target' = NoWorker
    /\ mpc' = "listeners"
    /\ UNCHANGED <<poolVars, refs, retired, closed, clientVars, reloadVars,
                   boot, drain, sawIdle, stopVars>>

(* shutdown: Stop, then close the server and its listeners.  Requests      *)
(* already accepted go on.                                                 *)
CloseListeners ==
    /\ mpc = "listeners"
    /\ stop' = TRUE
    /\ mpc' = "collect"
    /\ UNCHANGED <<poolVars, workerVars, clientVars, reloadVars, boot, target,
                   drain, sawIdle, ctxDone>>

(* shutdown: under the write lock, take every current and retired worker. *)
Collect ==
    /\ mpc = "collect" /\ ~WriteLocked
    /\ drain' = Members(workers) \cup retiredQ
    /\ workers' = <<>>
    /\ retiredQ' = {}
    /\ mpc' = "drain"
    /\ UNCHANGED <<cursor, nBuilt, workerVars, clientVars, reloadVars, boot,
                   target, sawIdle, stopVars>>

(* waitIdle takes the token of the next worker ... *)
WaitIdleTake ==
    /\ mpc = "drain"
    /\ \E w \in drain :
          /\ slot[w]
          /\ target' = w
          /\ drain' = drain \ {w}
          /\ slot' = [slot EXCEPT ![w] = FALSE]
          /\ sawIdle' = sawIdle \cup {w}
    /\ mpc' = "idleTaken"
    /\ UNCHANGED <<poolVars, refs, retired, closed, clientVars, reloadVars,
                   boot, stopVars>>

(* ... and puts it back ... *)
WaitIdleReseed ==
    /\ mpc = "idleTaken"
    /\ slot' = [slot EXCEPT ![target] = TRUE]
    /\ mpc' = "close"
    /\ UNCHANGED <<poolVars, refs, retired, closed, clientVars, reloadVars,
                   boot, target, drain, sawIdle, stopVars>>

(* ... or its five seconds pass first. *)
WaitIdleTimeout ==
    /\ mpc = "drain"
    /\ \E w \in drain :
          /\ ~slot[w]
          /\ target' = w
          /\ drain' = drain \ {w}
    /\ mpc' = "close"
    /\ UNCHANGED <<poolVars, workerVars, clientVars, reloadVars, boot, sawIdle,
                   stopVars>>

(* shutdown: w.Close() *)
DrainClose ==
    /\ mpc = "close"
    /\ closed' = [closed EXCEPT ![target] = TRUE]
    /\ target' = NoWorker
    /\ mpc' = "drain"
    /\ UNCHANGED <<poolVars, refs, retired, slot, clientVars, reloadVars, boot,
                   drain, sawIdle, stopVars>>

(* Every worker is closed: the MQTT clients are disconnected (their pumps  *)
(* end), and Run returns once its wait group is done.                      *)
RunReturn ==
    /\ mpc = "drain" /\ drain = {}
    /\ mpc' = "stopped"
    /\ UNCHANGED <<poolVars, workerVars, clientVars, reloadVars, boot, target,
                   drain, sawIdle, stopVars>>

-----------------------------------------------------------------------------
ClientStep(c) ==
    \/ LeaseWorker(c) \/ NoWorkers(c) \/ BadBody(c) \/ BeginCall(c)
    \/ \E last \in BOOLEAN : WSEvent(c, last)
    \/ AcquireSlot(c) \/ BusyTimeout(c) \/ Quit(c)
    \/ \E ok \in BOOLEAN : Return(c, ok)
    \/ ReleaseDec(c) \/ ReleaseCheck(c)

ReloadStep ==
    \/ ReloadBuild \/ (\E k \in 0..PoolSize : ReloadFail(k))
    \/ ReloadSwap \/ RetireStore \/ RetireCheck \/ ReloadDone

BootStep ==
    \/ BootBuild \/ BootInit \/ InitAcquire
    \/ \E k \in 0..PoolSize : BootFail(k)
    \/ \E ok \in BOOLEAN : BootInstall(ok) \/ InitReturn(ok) \/ BootListen(ok)

RunStep ==
    \/ RunWake \/ PickShutdownWorker \/ ShutdownAcquire \/ ShutdownReturn
    \/ CloseListeners \/ Collect \/ WaitIdleTake \/ WaitIdleReseed
    \/ WaitIdleTimeout \/ DrainClose \/ RunReturn

Next ==
    \/ \E c \in Client : ClientStep(c)
    \/ ReloadStep
    \/ BootStep
    \/ RunStep
    \/ Signal

Spec == Init /\ [][Next]_vars

(* The goroutines run on; a Lua handler returns; a waiter gets the token   *)
(* (channel receivers queue in order) and a lock is granted; MQTT messages *)
(* and connection events may stop coming, a HUP or a signal may never      *)
(* arrive.                                                                 *)
Fairness ==
    /\ \A c \in Client :
          /\ SF_vars(AcquireSlot(c))
          /\ WF_vars(BeginCall(c))
          /\ WF_vars(\E ok \in BOOLEAN : Return(c, ok))
          /\ WF_vars(ReleaseDec(c))
          /\ WF_vars(ReleaseCheck(c))
    /\ WF_vars(ReloadSwap) /\ WF_vars(RetireStore) /\ WF_vars(RetireCheck)
    /\ WF_vars(ReloadDone)
    /\ WF_vars(BootStep)
    /\ SF_vars(InitAcquire) /\ SF_vars(ShutdownAcquire) /\ SF_vars(Collect)
    /\ WF_vars(RunStep)

FairSpec == Spec /\ Fairness

-----------------------------------------------------------------------------
(* Properties *)

Leasing == {"leased", "waiting", "inLua", "finished"}
Holders(w) == {c \in Client : pc[c] \in Leasing /\ lease[c] = w}
RunsLua(w) == {c \in Client : pc[c] = "inLua" /\ lease[c] = w}
RunTakes == {"initLua", "callLua", "idleTaken"}

(* Every variable has its type. *)
TypeOK ==
    /\ workers \in Seq(Worker) /\ Len(workers) \in {0, PoolSize}
    /\ retiredQ \subseteq Worker
    /\ cursor \in 0..(PoolSize - 1)
    /\ nBuilt \in 0..MaxWorkers
    /\ refs \in [Worker -> Int]
    /\ retired \in [Worker -> BOOLEAN]
    /\ closed \in [Worker -> BOOLEAN]
    /\ slot \in [Worker -> BOOLEAN]
    /\ pc \in [Client -> ClientPC]
    /\ lease \in [Client -> Worker \cup {NoWorker}]
    /\ closing \in [Client -> BOOLEAN]
    /\ answer \in [Client -> Answer]
    /\ rpc \in ReloadPC
    /\ fresh \in Seq(Worker) /\ Len(fresh) \in {0, PoolSize}
    /\ old \subseteq Worker
    /\ retiring \in Worker \cup {NoWorker}
    /\ mpc \in RunPC
    /\ boot \in Seq(Worker) /\ Len(boot) \in {0, PoolSize}
    /\ mpc \notin {"build", "failed"} => Len(boot) = PoolSize
    /\ target \in Worker \cup {NoWorker}
    /\ drain \subseteq Worker
    /\ sawIdle \subseteq Worker
    /\ ctxDone \in BOOLEAN /\ stop \in BOOLEAN

(* One handler at a time: the slot's token is in the channel or in exactly *)
(* one hand - a client's, or Run's for init(), shutdown() and waitIdle -   *)
(* on every path through Call* and on every interleaving of the three.     *)
SlotMutex ==
    \A w \in Worker :
        /\ \A c, d \in RunsLua(w) : c = d
        /\ RunsLua(w) # {} => ~(mpc \in RunTakes /\ target = w)
        /\ slot[w] <=> RunsLua(w) = {} /\ ~(mpc \in RunTakes /\ target = w)

(* Hot reload never hands out a dead worker: until shutdown drains the     *)
(* pool, every worker in it has an open Lua state and is not retired.      *)
PoolOpen ==
    mpc \in ServePC =>
        \A w \in Members(workers) : ~closed[w] /\ ~retired[w]

(* "The lease guards against a hot-reload closing the worker underneath a  *)
(* live handler or connection."                                            *)
LeaseSafety ==
    mpc \in ServePC =>
        \A c \in Client : pc[c] \in Leasing => ~closed[lease[c]]

(* retire and release race on refs and retired, without a lock; whichever  *)
(* comes last closes the worker: a retired worker without leases, that     *)
(* neither is about to look at, is closed.                                 *)
NoLostClose ==
    \A w \in Worker :
        /\ retired[w] /\ Holders(w) = {}
        /\ ~(\E c \in Client : pc[c] = "dropped" /\ lease[c] = w)
        /\ retiring # w
        => closed[w]

(* No Lua state is leaked: every worker built is closed, or is reachable   *)
(* by what will close it.                                                  *)
NoLostWorker ==
    \A w \in 1..nBuilt :
        \/ closed[w]
        \/ w \in Members(workers) \cup retiredQ \cup Members(fresh) \cup drain
        \/ w \in Members(boot) /\ mpc \in BootPC
        \/ w = target
        \/ mpc = "failed"

(* An HTTP request that gave up waiting for a busy worker is answered 503. *)
BusyIs503 ==
    \A c \in HTTPReq : answer[c].cause = "busy" => answer[c].status = 503

(* shutdown() waits for the slot and only then closes the Lua state: no    *)
(* handler runs on a worker closed after waitIdle saw it idle.             *)
NoRaceWithClose ==
    \A w \in sawIdle : closed[w] => RunsLua(w) = {}

(* shutdown() runs "on the first worker, before workers are torn down". *)
ShutdownRunsOnOpenWorker == mpc = "callLua" => ~closed[target]

(* Run has returned and no reload is in progress: every worker is closed. *)
StoppedMeansClosed ==
    mpc = "stopped" /\ rpc = "idle" => \A w \in 1..nBuilt : closed[w]

(* A signal or k.quit ends a started server, whatever its clients do. *)
ShutdownCompletes ==
    (ctxDone \/ stop) ~> mpc \in {"stopped", "failed"}

(* A retired worker is closed once no connection keeps it: only an open    *)
(* WebSocket connection can hold it back.                                  *)
RetiredIsClosed ==
    \A w \in Worker :
        retired[w] ~> (closed[w] \/ \E c \in WSConn : lease[c] = w)
=============================================================================
