----------------------------- MODULE Database -----------------------------
(***************************************************************************)
(* Database handles and transactions (internal/bindings/db.go), and how a  *)
(* binding fails (fail, fireError, setErrorGlobals of bindings.go).        *)
(*                                                                         *)
(* The handles are the process's: every session and worker finds them      *)
(* under their id, the preregistered ones under their name.  A handle has  *)
(* one mutex, and one transaction that all its users share.  A transaction *)
(* call that fails runs the script's k.on_error hook before it lets go of  *)
(* the mutex.                                                              *)
(***************************************************************************)
EXTENDS Integers, FiniteSets

CONSTANTS
    Sess,            \* the sessions and workers that run scripts
    Runtime,         \* handles of k.connect_db
    Named,           \* handles of --db NAME=DSN
    HookOps,         \* what the k.on_error hook calls on a handle
    MaxDbOps,        \* bound: calls
    Free             \* no one holds a mutex

Handle == Runtime \cup Named
TxOps == {"tx_begin", "tx_commit", "tx_rollback"}
StmtOps == {"sql", "query"}

VARIABLES
    dbHandles, namedDBs,  \* the two registries
    db,              \* [Handle -> [open, tx, rows, pend]]: the connection, its transaction, the writes committed and not
    lock,            \* who holds a handle's mutex, dbHandlesMu, namedMu
    run,             \* [Sess -> what the script is doing]
    err,             \* [Sess -> [global, cache]]: ERRORCODE and what was last written to it
    dbOps

dbvars == <<dbHandles, namedDBs, db, lock, run, err, dbOps>>

IdleScript == [op |-> "none", h |-> Free, at |-> "idle", held |-> {}, nested |-> FALSE, rest |-> {}]

DatabaseInit ==
    /\ dbHandles = {} /\ namedDBs = Named
    /\ db = [h \in Handle |-> [open |-> h \in Named, tx |-> "none", rows |-> {}, pend |-> {}]]
    /\ lock = [l \in Handle \cup {"dbHandlesMu", "namedMu"} |-> Free]
    /\ run = [s \in Sess |-> IdleScript]
    /\ err = [s \in Sess |-> [global |-> "nil", cache |-> "nil"]]
    /\ dbOps = 0

-----------------------------------------------------------------------------
(* Failing.                                                                *)

\* The global is written only when it is not what was written last.
setErrorGlobals(e, code) == IF e.cache = code THEN e ELSE [global |-> code, cache |-> code]

\* The call is over: back to the script, or to the hook that made it.
Returned(r) == IF r.nested THEN [r EXCEPT !.at = "hook", !.nested = FALSE] ELSE IdleScript

\* The hook runs while what is held stays held; within the hook only the globals are set.
fail(s, code, held) ==
    /\ err' = [err EXCEPT ![s] = setErrorGlobals(@, code)]
    /\ IF run[s].nested
       THEN run' = [run EXCEPT ![s] = Returned(@)] /\ UNCHANGED lock
       ELSE /\ run' = [run EXCEPT ![s].at = "hook", ![s].held = held]
            /\ lock' = [l \in DOMAIN lock |-> IF l \in held THEN s ELSE lock[l]]

done(s) == run' = [run EXCEPT ![s] = Returned(@)] /\ UNCHANGED <<lock, err>>

\* The script resets ERRORCODE itself.
assignErrorCode(s) ==
    /\ run[s].at = "idle" /\ err[s].global # "nil" /\ err' = [err EXCEPT ![s].global = "nil"]
    /\ UNCHANGED <<dbHandles, namedDBs, db, lock, run, dbOps>>

-----------------------------------------------------------------------------
(* Calls.                                                                  *)

call(s, op, h) ==
    /\ run[s].at = "idle" /\ dbOps < MaxDbOps /\ dbOps' = dbOps + 1
    /\ run' = [run EXCEPT ![s] = [IdleScript EXCEPT !.op = op, !.h = h, !.at = "lookup"]]
    /\ UNCHANGED <<dbHandles, namedDBs, db, lock, err>>

\* The k.on_error hook makes a call of its own, or returns: fail pushes nil and the mutex is unlocked.
hookCalls(s) ==
    /\ run[s].at = "hook"
    /\ \E op \in HookOps, h \in Handle :
          run' = [run EXCEPT ![s].op = op, ![s].h = h, ![s].at = "lookup", ![s].nested = TRUE]
    /\ UNCHANGED <<dbHandles, namedDBs, db, lock, err, dbOps>>

hookReturns(s) ==
    /\ run[s].at = "hook"
    /\ lock' = [l \in DOMAIN lock |-> IF l \in run[s].held THEN Free ELSE lock[l]]
    /\ run' = [run EXCEPT ![s] = IdleScript]
    /\ UNCHANGED <<dbHandles, namedDBs, db, err, dbOps>>

\* Both registries are consulted, each under its mutex.
getDBHandle(s) ==
    /\ run[s].at = "lookup" /\ run[s].op \in TxOps \cup StmtOps
    /\ lock["dbHandlesMu"] = Free /\ (run[s].h \in dbHandles \/ lock["namedMu"] = Free)
    /\ IF run[s].h \in dbHandles \cup namedDBs
       THEN run' = [run EXCEPT ![s].at = "lock"] /\ UNCHANGED <<lock, err>>
       ELSE fail(s, "not connected", {})
    /\ UNCHANGED <<dbHandles, namedDBs, db, dbOps>>

connect_db(s, h) ==
    /\ run[s].at = "idle" /\ dbOps < MaxDbOps /\ dbOps' = dbOps + 1
    /\ ~db[h].open /\ h \notin dbHandles /\ db[h].rows = {} /\ lock["dbHandlesMu"] = Free
    /\ \/ /\ dbHandles' = dbHandles \cup {h} /\ db' = [db EXCEPT ![h].open = TRUE]
          /\ UNCHANGED <<lock, run, err>>
       \/ fail(s, "comm", {}) /\ UNCHANGED <<dbHandles, db>>
    /\ UNCHANGED namedDBs

-----------------------------------------------------------------------------
(* Under the handle's mutex.                                               *)

At(s, op) == run[s].at = "lock" /\ run[s].op = op /\ lock[run[s].h] = Free

tx_begin(s) ==
    LET h == run[s].h IN
    /\ At(s, "tx_begin")
    /\ \/ db[h].tx = "none" /\ db[h].open /\ db' = [db EXCEPT ![h].tx = "live"] /\ done(s)
       \/ db[h].tx # "none" /\ fail(s, "connected", {h}) /\ UNCHANGED db
       \/ db[h].tx = "none" /\ fail(s, "generic", {h}) /\ UNCHANGED db
    /\ UNCHANGED <<dbHandles, namedDBs, dbOps>>

\* A commit that fails has ended the transaction; the handle still takes it for one in progress.
tx_commit(s) ==
    LET h == run[s].h IN
    /\ At(s, "tx_commit")
    /\ \/ db[h].tx = "live" /\ done(s)
          /\ db' = [db EXCEPT ![h].tx = "none", ![h].rows = @ \cup db[h].pend, ![h].pend = {}]
       \/ db[h].tx = "none" /\ fail(s, "not connected", {h}) /\ UNCHANGED db
       \/ db[h].tx # "none" /\ fail(s, "generic", {h}) /\ db' = [db EXCEPT ![h].tx = "done", ![h].pend = {}]
    /\ UNCHANGED <<dbHandles, namedDBs, dbOps>>

tx_rollback(s) ==
    LET h == run[s].h IN
    /\ At(s, "tx_rollback")
    /\ \/ db[h].tx = "live" /\ done(s) /\ db' = [db EXCEPT ![h].tx = "none", ![h].pend = {}]
       \/ db[h].tx = "none" /\ fail(s, "not connected", {h}) /\ UNCHANGED db
       \/ db[h].tx # "none" /\ fail(s, "generic", {h}) /\ db' = [db EXCEPT ![h].tx = "done", ![h].pend = {}]
    /\ UNCHANGED <<dbHandles, namedDBs, dbOps>>

\* The error path returns with the mutex locked.
executeDBQueryLeaks(s) ==
    LET h == run[s].h IN
    /\ At(s, "sql")
    /\ \/ db[h].tx = "live" /\ db' = [db EXCEPT ![h].pend = @ \cup {s}] /\ done(s)
       \/ db[h].tx = "none" /\ db[h].open /\ db' = [db EXCEPT ![h].rows = @ \cup {s}] /\ done(s)
       \/ /\ err' = [err EXCEPT ![s] = setErrorGlobals(@, "generic")] /\ run' = [run EXCEPT ![s] = Returned(@)]
          /\ lock' = [lock EXCEPT ![h] = s] /\ UNCHANGED db
    /\ UNCHANGED <<dbHandles, namedDBs, dbOps>>

\* A statement joins the handle's transaction, whoever began it; it fails without the mutex.
executeDBQuery(s) ==
    LET h == run[s].h IN
    /\ At(s, "sql")
    /\ \/ db[h].tx = "live" /\ db' = [db EXCEPT ![h].pend = @ \cup {s}] /\ done(s)
       \/ db[h].tx = "none" /\ db[h].open /\ db' = [db EXCEPT ![h].rows = @ \cup {s}] /\ done(s)
       \/ fail(s, "generic", {}) /\ UNCHANGED db
    /\ UNCHANGED <<dbHandles, namedDBs, dbOps>>

\* The controls' queries and the builder's preview go past the transaction.
Query(s) ==
    /\ At(s, "query") /\ (done(s) \/ fail(s, "generic", {}))
    /\ UNCHANGED <<dbHandles, namedDBs, db, dbOps>>

-----------------------------------------------------------------------------
(* Disconnecting.                                                          *)

\* The connection goes, the transaction is forgotten.
CloseForgets(h) == [db EXCEPT ![h].open = FALSE]

\* An open transaction is rolled back.
Close(h) == [db EXCEPT ![h] = [@ EXCEPT !.open = FALSE, !.tx = "none", !.pend = {}]]

\* k.disconnect_db(handle), k.disconnect_sqlite: a named handle is not found.
disconnect_db(s) ==
    LET h == run[s].h IN
    /\ run[s].at = "lookup" /\ run[s].op = "disconnect" /\ lock["dbHandlesMu"] = Free
    /\ IF h \in dbHandles
       THEN /\ dbHandles' = dbHandles \ {h} /\ run' = [run EXCEPT ![s].at = "close", ![s].rest = {h}]
            /\ UNCHANGED <<lock, err>>
       ELSE fail(s, "not connected", {}) /\ UNCHANGED dbHandles
    /\ UNCHANGED <<namedDBs, db, dbOps>>

\* Without a handle: all of them, then the named ones, each set under its mutex to the end.
closeDB(s) ==
    /\ run[s].at = "lookup" /\ run[s].op = "disconnect_all" /\ lock["dbHandlesMu"] = Free
    /\ lock' = [lock EXCEPT !["dbHandlesMu"] = s]
    /\ run' = [run EXCEPT ![s].at = "close", ![s].rest = dbHandles]
    /\ UNCHANGED <<dbHandles, namedDBs, db, err, dbOps>>

CloseNamedDBs(s) ==
    /\ run[s].at = "named" /\ lock["namedMu"] = Free
    /\ lock' = [lock EXCEPT !["namedMu"] = s]
    /\ run' = [run EXCEPT ![s].at = "close", ![s].rest = namedDBs]
    /\ UNCHANGED <<dbHandles, namedDBs, db, err, dbOps>>

closeNext(s) ==
    /\ run[s].at = "close"
    /\ \E h \in run[s].rest :
          /\ lock[h] = Free /\ db' = Close(h)
          /\ run' = [run EXCEPT ![s].rest = @ \ {h}]
    /\ UNCHANGED <<dbHandles, namedDBs, lock, err, dbOps>>

closed(s) ==
    /\ run[s].at = "close" /\ run[s].rest = {}
    /\ \/ run[s].op = "disconnect" /\ done(s) /\ UNCHANGED <<dbHandles, namedDBs>>
       \/ /\ lock["dbHandlesMu"] = s /\ dbHandles' = {} /\ lock' = [lock EXCEPT !["dbHandlesMu"] = Free]
          /\ run' = [run EXCEPT ![s].at = "named"] /\ UNCHANGED <<namedDBs, err>>
       \/ /\ lock["namedMu"] = s /\ namedDBs' = {} /\ lock' = [lock EXCEPT !["namedMu"] = Free]
          /\ run' = [run EXCEPT ![s] = Returned(@)] /\ UNCHANGED <<dbHandles, err>>
    /\ UNCHANGED <<db, dbOps>>

-----------------------------------------------------------------------------
\* What a call that is under way does next.
DbStep(s) ==
    \/ getDBHandle(s) \/ tx_begin(s) \/ tx_commit(s) \/ tx_rollback(s) \/ executeDBQuery(s) \/ Query(s)
    \/ disconnect_db(s) \/ closeDB(s) \/ CloseNamedDBs(s) \/ closeNext(s) \/ closed(s)

DatabaseNext ==
    \E s \in Sess :
        \/ \E h \in Handle, op \in TxOps \cup StmtOps \cup {"disconnect"} : call(s, op, h)
        \/ call(s, "disconnect_all", Free)
        \/ \E h \in Runtime : connect_db(s, h)
        \/ assignErrorCode(s) \/ hookCalls(s) \/ hookReturns(s) \/ DbStep(s)

DatabaseSpec == DatabaseInit /\ [][DatabaseNext]_dbvars

\* The Go scheduler runs every goroutine, a mutex is handed to who waits for it, and a hook returns.
DatabaseFair == \A s \in Sess : SF_dbvars(DbStep(s)) /\ WF_dbvars(hookReturns(s))

-----------------------------------------------------------------------------
\* A transaction never outlives its connection, however a disconnect races with the calls of other sessions.
TxEndsWithHandle == \A h \in Handle : ~db[h].open => db[h].tx = "none" /\ db[h].pend = {}

\* "The script continues": every call returns to the script, whether it fails or not.
CallsReturn == \A s \in Sess : run[s].at # "idle" ~> run[s].at = "idle"

\* "Branch on ERRORCODE": after a call has failed, and as long as the script has not assigned it since, ERRORCODE says so.
ErrorVisible == \A s \in Sess : run[s].at = "hook" => err[s].global # "nil"
=============================================================================
