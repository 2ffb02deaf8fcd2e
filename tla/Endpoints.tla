----------------------------- MODULE Endpoints -----------------------------
(***************************************************************************)
(* What serve mode's HTTP listener does with a request: the declarative    *)
(* routes and the middleware of a worker (internal/server/router.go,       *)
(* CallHTTP and callRoutedHTTP of worker.go), /graphql (graphql.go) and    *)
(* /soap (soap.go).                                                        *)
(*                                                                         *)
(* Every worker has a router of its own, built when the worker is; requests*)
(* to one worker share its matchIdx and its Lua state and are kept apart by*)
(* its slot.  /graphql and /soap take no slot and no lease; they hold what *)
(* start-up read from the first worker.  WorkerPool has leases, reloads and*)
(* retirement; here a pool is one worker and a reload adds the next.       *)
(* Counters, headers and bodies are left out.                              *)
(***************************************************************************)
EXTENDS Integers, Sequences, SequencesExt

CONSTANTS
    Req,             \* requests
    Target,          \* methods and paths they may have
    Apps,            \* the scripts, by what they declare
    MaxApps,         \* bound: scripts loaded, one after the other
    Nobody           \* the slot is free

ASSUME EndpointsAssumption ==
    /\ MaxApps \in Nat \ {0} /\ Nobody \notin Req
    /\ \A a \in Apps : a.mw \in Seq(STRING)

VARIABLES
    apps,            \* the scripts loaded, the worker of the last one serves
    httpSlot,        \* per worker: the request whose Lua runs
    matchIdx,        \* per worker: the router's matchIdx, 0 for -1
    chain,           \* per worker: the table k.http_middleware
    req,             \* per request: where it is and what it knows
    ran              \* history: the Lua functions called for a request

httpvars == <<apps, httpSlot, matchIdx, chain, req, ran>>

Workers == 1..MaxApps
NoRequest == [at |-> "idle", target |-> Nobody, w |-> 1, hit |-> FALSE, idx |-> 0, i |-> 1, status |-> -1]

\* NewWorker and newHTTPRouter: the chain is what the script has declared by then.
loadApp(a) ==
    LET w == Len(apps) + 1 IN
    /\ apps' = Append(apps, a)
    /\ chain' = [chain EXCEPT ![w] = a.mw]

EndpointsInit ==
    /\ \E a \in Apps :
          apps = <<a>> /\ chain = [w \in Workers |-> IF w = 1 THEN a.mw ELSE <<>>]
    /\ httpSlot = [w \in Workers |-> Nobody] /\ matchIdx = [w \in Workers |-> 0]
    /\ req = [r \in Req |-> NoRequest] /\ ran = [r \in Req |-> <<>>]

reloadApp ==
    /\ Len(apps) < MaxApps
    /\ \E a \in Apps : loadApp(a)
    /\ UNCHANGED <<httpSlot, matchIdx, req, ran>>

-----------------------------------------------------------------------------
(* The router.                                                             *)

\* httprouter: Handle refuses a route that an accepted one conflicts with; the
\* refused route stays in rt.routes.
InTree(a) ==
    LET tree[n \in 0..Len(a.routes)] ==
            IF n = 0 THEN {}
            ELSE IF \E j \in tree[n - 1] : a.routes[j].on \cap a.routes[n].on # {}
                   THEN tree[n - 1] ELSE tree[n - 1] \cup {n}
    IN tree[Len(a.routes)]

\* The route whose stub Lookup returns, 0 for none.
LookupRoute(a, t) ==
    IF \E n \in InTree(a) : t \in a.routes[n].on
      THEN CHOOSE n \in InTree(a) : t \in a.routes[n].on
      ELSE 0

At(r, where) == req[r].at = where
App(r) == apps[req[r].w]
Moves(r, where) == req' = [req EXCEPT ![r].at = where]
Kept == UNCHANGED <<apps, chain>>

\* The answer of CallHTTP: the deferred freeSlot, then the status line.  net/http
\* panics for a status of 0 and closes the connection.
answer(r, status) ==
    /\ httpSlot' = [httpSlot EXCEPT ![req[r].w] = IF @ = r THEN Nobody ELSE @]
    /\ req' = [req EXCEPT ![r].at = "done", ![r].status = status]

\* handleHTTP: the newest worker is leased, the body is read or is not.
handleHTTP(r, t) ==
    /\ At(r, "idle")
    /\ \/ req' = [req EXCEPT ![r].at = "slot", ![r].target = t, ![r].w = Len(apps)]
       \/ req' = [req EXCEPT ![r].at = "done", ![r].target = t, ![r].status = 400]
    /\ UNCHANGED <<httpSlot, matchIdx, ran>> /\ Kept

\* Mutant: the slot is not waited for.
takeSlotAnyway(r) ==
    /\ At(r, "slot")
    /\ httpSlot' = [httpSlot EXCEPT ![req[r].w] = r]
    /\ Moves(r, IF App(r).routes # <<>> THEN "match" ELSE "fallback")
    /\ UNCHANGED <<matchIdx, ran>> /\ Kept

\* tryAcquireSlot in time, or not (busyTimeout, or the client is gone, also when the
\* slot has just become free): an error, which handleHTTP answers with 500.
takeSlot(r) ==
    /\ At(r, "slot") /\ httpSlot[req[r].w] = Nobody
    /\ httpSlot' = [httpSlot EXCEPT ![req[r].w] = r]
    /\ Moves(r, IF App(r).routes # <<>> THEN "match" ELSE "fallback")
    /\ UNCHANGED <<matchIdx, ran>> /\ Kept

busyHTTP(r) ==
    /\ At(r, "slot")
    /\ answer(r, 500)
    /\ UNCHANGED <<matchIdx, ran>> /\ Kept

\* Match: reset matchIdx, look up, call the stub, which writes it ...
Lookup(r) ==
    /\ At(r, "match")
    /\ LET n == LookupRoute(App(r), req[r].target) IN
         /\ matchIdx' = [matchIdx EXCEPT ![req[r].w] = n]
         /\ req' = [req EXCEPT ![r].at = "matched", ![r].hit = n # 0]
    /\ UNCHANGED <<httpSlot, ran>> /\ Kept

\* ... and read it: no match falls back to handle_http.
Match(r) ==
    /\ At(r, "matched")
    /\ LET n == IF req[r].hit THEN matchIdx[req[r].w] ELSE 0 IN
         IF n = 0 THEN Moves(r, "fallback")
         ELSE req' = [req EXCEPT ![r].at = "chain", ![r].idx = n]
    /\ UNCHANGED <<httpSlot, matchIdx, ran>> /\ Kept

\* What a Lua function returns, and the status decodeHTTPResponse finds in it:
\* "table" is a table without a status, also one with json, or any other value.
Forms == {"nil", "text", "number", "status", "table", "badJSON"}
decodeHTTPResponse(f) ==
    CASE f \in {"nil", "text"} -> 200 [] f \in {"number", "status"} -> 201
      [] f = "table" -> 0 [] f = "badJSON" -> 500
OrDefault(status) == IF status = 0 THEN 200 ELSE status

Calls(r, fn) == ran' = [ran EXCEPT ![r] = Append(@, fn)]

\* One middleware: a name that is no function is passed over, nil goes on, an
\* error or any other value ends the request.
Middleware(r) ==
    /\ At(r, "chain") /\ req[r].i <= Len(App(r).mw)
    /\ \/ /\ App(r).mw[req[r].i] = "missing"
          /\ req' = [req EXCEPT ![r].i = @ + 1]
          /\ UNCHANGED <<ran, httpSlot>>
       \/ /\ App(r).mw[req[r].i] # "missing"
          /\ Calls(r, <<"mw", req[r].i>>)
          /\ \/ req' = [req EXCEPT ![r].i = @ + 1] /\ UNCHANGED httpSlot
             \/ answer(r, 500)
             \/ \E f \in Forms \ {"nil"} : answer(r, decodeHTTPResponse(f))
    /\ UNCHANGED matchIdx /\ Kept

\* The route's handler.
RouteHandler(r) ==
    /\ At(r, "chain") /\ req[r].i > Len(App(r).mw)
    /\ \/ App(r).routes[req[r].idx].fn = "missing" /\ answer(r, 500) /\ UNCHANGED ran
       \/ /\ App(r).routes[req[r].idx].fn # "missing"
          /\ Calls(r, <<"route", req[r].idx>>)
          /\ \/ answer(r, 500)
             \/ \E f \in Forms : answer(r, OrDefault(decodeHTTPResponse(f)))
    /\ UNCHANGED matchIdx /\ Kept

\* handle_http, when no route matches.
HandleHTTP(r) ==
    /\ At(r, "fallback")
    /\ \/ ~App(r).http /\ answer(r, 404) /\ UNCHANGED ran
       \/ /\ App(r).http /\ Calls(r, <<"http", 0>>)
          /\ \/ answer(r, 500)
             \/ \E f \in Forms : answer(r, OrDefault(decodeHTTPResponse(f)))
    /\ UNCHANGED matchIdx /\ Kept

\* k.http_auth_middleware as handle_http calls it (bound: once per worker): the
\* table grows, the router keeps the chain it was built with.
httpAuthMiddleware(r) ==
    /\ At(r, "fallback") /\ App(r).http
    /\ chain[req[r].w] = App(r).mw
    /\ chain' = [chain EXCEPT ![req[r].w] = Append(@, "added")]
    /\ UNCHANGED <<apps, httpSlot, matchIdx, req, ran>>

-----------------------------------------------------------------------------
(* /graphql and /soap.  Both keep the first worker's declarations.         *)

\* GraphQLRequestHandler: not a POST, or no JSON; the script's context function
\* runs on a state of its own over the first worker's globals.
graphqlRequest(r) ==
    /\ At(r, "idle")
    /\ \/ \E status \in {405, 400} : answer(r, status)
       \/ Moves(r, IF apps[1].context THEN "context" ELSE "graphql") /\ UNCHANGED httpSlot
    /\ UNCHANGED <<matchIdx, ran>> /\ Kept

graphqlContext(r) ==
    /\ At(r, "context")
    /\ Calls(r, <<"context", 0>>) /\ Moves(r, "graphql")
    /\ UNCHANGED <<httpSlot, matchIdx>> /\ Kept

\* Execute: no schema, a query that does not parse, or one that Validate refuses.
\* Validate (external) refuses every query when its schema is nil, and nothing
\* assigns validatorSchema: no resolver is ever called.
graphqlExecute(r) ==
    /\ At(r, "graphql")
    /\ answer(r, 200)
    /\ UNCHANGED <<matchIdx, ran>> /\ Kept

\* SOAPRequestHandler and Execute: not a POST, an unreadable body, or a fault: an
\* envelope that does not parse, an unknown operation, or a known one, for which
\* callLuaSOAPHandler has no Lua state, because nothing assigns it.
soapRequest(r) ==
    /\ At(r, "idle")
    /\ \E known \in {FALSE, apps[1].soap}, status \in {405, 400, 500} :
          req' = [req EXCEPT ![r].at = "done", ![r].status = status, ![r].hit = known /\ status = 500]
    /\ UNCHANGED <<httpSlot, matchIdx, ran>> /\ Kept

-----------------------------------------------------------------------------
HttpStep(r) ==
    \/ takeSlot(r) \/ busyHTTP(r) \/ Lookup(r) \/ Match(r) \/ Middleware(r)
    \/ RouteHandler(r) \/ HandleHTTP(r) \/ graphqlContext(r) \/ graphqlExecute(r)

EndpointsNext ==
    \/ \E r \in Req : \/ \E t \in Target : handleHTTP(r, t)
                      \/ HttpStep(r) \/ httpAuthMiddleware(r) \/ graphqlRequest(r) \/ soapRequest(r)
    \/ reloadApp

EndpointsSpec == EndpointsInit /\ [][EndpointsNext]_httpvars

-----------------------------------------------------------------------------
(* Properties.                                                             *)

\* The middleware of a script that exists, up to the n-th; calls in the order of the script.
Existing(a, n) == {<<"mw", k>> : k \in {j \in 1..n : a.mw[j] # "missing"}}
InScriptOrder(calls) == \A j, k \in DOMAIN calls : j < k => calls[j][2] < calls[k][2]

\* "Run in order, before the handler": a request that reaches the handler of a
\* route reaches the one that its own method and path match, whatever other
\* requests the worker looks up meanwhile, after every middleware of the worker's
\* script that exists, in order; a request that reaches handle_http has no route.
OwnRoute ==
    \A r \in Req : ran[r] # <<>> =>
        LET last == Last(ran[r])
            before == Front(ran[r])
        IN /\ last[1] = "route" =>
                 /\ last[2] = LookupRoute(App(r), req[r].target)
                 /\ ToSet(before) = Existing(App(r), Len(App(r).mw)) /\ InScriptOrder(before)
           /\ last[1] = "mw" => ToSet(ran[r]) = Existing(App(r), last[2]) /\ InScriptOrder(ran[r])
           /\ last[1] = "http" => LookupRoute(App(r), req[r].target) = 0 /\ before = <<>>

\* "Each may short-circuit with a response": every request gets a status line.
Answered == \A r \in Req : At(r, "done") => req[r].status # 0

\* "Middleware may be added dynamically": the router's chain is the script's.
AddedRuns == \A w \in DOMAIN apps : chain[w] = apps[w].mw

\* "Concurrent dispatch never shares the LState": no script function runs while
\* another request has the slot of the worker whose globals it uses.
ContextApart == \A r \in Req : At(r, "context") => httpSlot[1] = Nobody

\* SOAP is "implemented": the function a known operation names is called.
SoapServed ==
    \A r \in Req : At(r, "done") /\ req[r].target = Nobody /\ req[r].hit => ran[r] # <<>>
=============================================================================
