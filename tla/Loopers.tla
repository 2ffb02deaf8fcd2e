------------------------------ MODULE Loopers ------------------------------
(***************************************************************************)
(* The looper, the tree and the login control (internal/session/session.go *)
(* handleLooperScrollRequest, handleTreeDataRequest, handleLoginSubmit;    *)
(* internal/bindings/looperdb.go, tree.go, login.go, the looper operations *)
(* of tabulator.go; the loopers of web/assets/app.js).                     *)
(*                                                                         *)
(* A looper grows by batches: the page asks for the rows from an index, a  *)
(* count at a time, when the user scrolls; at most one request is under    *)
(* way, until a refresh of the script clears the rows and asks again.      *)
(* A tree is fetched whole.  A login is one lookup in the database.        *)
(***************************************************************************)
EXTENDS Integers, SeqFilter

CONSTANTS
    LRows,           \* rows of the looper's query
    Batch,           \* rows of a batch
    LOutCap,         \* capacity of the outbox
    MaxRefresh,      \* bound: refreshes
    MaxNodes,        \* the cap on the rows of a tree
    Attempts         \* "attempts" of the login control

ASSUME LooperAssumption == LRows \in Nat /\ Batch \in Nat \ {0} /\ MaxNodes \in Nat

VARIABLES
    looper,          \* the page's looper: [rows, next, hasMore, loading]
    lIn, lOut,       \* requests; the outbox
    raced,           \* history: a refresh came while a batch was under way
    refreshes,
    treeOf,          \* the parents of the tree's rows and what the page got
    attempt,         \* the control's attempt counter
    attemptsLeft,    \* what on_login_error last heard
    user             \* the control holds a user

lpvars == <<looper, lIn, lOut, raced, refreshes>>
loopvars == <<lpvars, treeOf, attempt, attemptsLeft, user>>

NoTree == [parent |-> <<>>, nodes |-> <<>>, count |-> 0, error |-> FALSE]

LoopersInit ==
    /\ looper = [rows |-> <<>>, next |-> 1, hasMore |-> TRUE, loading |-> TRUE]
    /\ lIn = <<1>> /\ lOut = <<>> /\ raced = FALSE /\ refreshes = 0
    /\ treeOf = NoTree
    /\ attempt = 0 /\ attemptsLeft = Attempts /\ user = FALSE

-----------------------------------------------------------------------------
(* The looper.                                                             *)

\* Start indices are from 1; page 0 becomes page 1.
parseLooperScrollReqZero(start) == LET p == start \div Batch IN IF p < 1 THEN 1 ELSE p

parseLooperScrollReq(start) == start \div Batch + 1

\* The rows of a page and the number of pages.
FetchLooperRows(page) ==
    LET off == (page - 1) * Batch IN
    [rows |-> [i \in 1..(IF off + Batch < LRows THEN Batch ELSE IF LRows > off THEN LRows - off ELSE 0) |-> off + i],
     last |-> IF LRows = 0 THEN 1 ELSE (LRows + Batch - 1) \div Batch]

\* A row of a batch says its index.
looperBatchRows(start, rs) == [i \in DOMAIN rs |-> [index |-> start + i - 1, row |-> rs[i]]]

dispatchDBLooperPage(start) ==
    LET page == parseLooperScrollReq(start)
        res == FetchLooperRows(page)
    IN [type |-> "batch", rows |-> looperBatchRows(start, res.rows), hasMore |-> page < res.last]

\* A batch, or an error: then the page waits for a batch that does not come.
handleLooperScrollRequest ==
    /\ lIn # <<>> /\ lIn' = Tail(lIn)
    /\ \/ lOut' = IF Len(lOut) < LOutCap THEN Append(lOut, dispatchDBLooperPage(Head(lIn))) ELSE lOut
       \/ lOut' = lOut
    /\ UNCHANGED <<looper, raced, refreshes, treeOf, attempt, attemptsLeft, user>>

\* k.looper.refresh, set_db_source, link_db.
looperRefresh ==
    /\ refreshes < MaxRefresh /\ refreshes' = refreshes + 1
    /\ lOut' = IF Len(lOut) < LOutCap THEN Append(lOut, [type |-> "refresh"]) ELSE lOut
    /\ UNCHANGED <<looper, lIn, raced, treeOf, attempt, attemptsLeft, user>>

\* looperMaybeFetch: the user is near the bottom.
scroll ==
    /\ looper.hasMore /\ ~looper.loading
    /\ looper' = [looper EXCEPT !.loading = TRUE] /\ lIn' = Append(lIn, looper.next)
    /\ UNCHANGED <<lOut, raced, refreshes, treeOf, attempt, attemptsLeft, user>>

\* A batch is appended; the rows of a refresh are asked for from 1, also when a batch is under way.
batchArrives ==
    /\ lOut # <<>> /\ Head(lOut).type = "batch" /\ lOut' = Tail(lOut)
    /\ looper' = [rows |-> looper.rows \o Head(lOut).rows, next |-> looper.next + Len(Head(lOut).rows),
                  hasMore |-> Head(lOut).hasMore, loading |-> FALSE]
    /\ UNCHANGED <<lIn, raced, refreshes, treeOf, attempt, attemptsLeft, user>>

refreshArrives ==
    /\ lOut # <<>> /\ Head(lOut).type = "refresh" /\ lOut' = Tail(lOut)
    /\ looper' = [rows |-> <<>>, next |-> 1, hasMore |-> TRUE, loading |-> TRUE]
    /\ lIn' = Append(lIn, 1) /\ raced' = (raced \/ looper.loading)
    /\ UNCHANGED <<refreshes, treeOf, attempt, attemptsLeft, user>>

-----------------------------------------------------------------------------
(* The tree.  Row i has the id i; its parent is a row, 0 for none, or an id  *)
(* that was not loaded.                                                      *)

\* Mutant: only rows without a parent are roots, orphans are lost.
TreeRootsOnly(parent) == Filter([i \in DOMAIN parent |-> i], {i \in DOMAIN parent : parent[i] = 0})

\* A row whose parent was not loaded is a root.
TreeRoots(parent) == Filter([i \in DOMAIN parent |-> i], {i \in DOMAIN parent : parent[i] \notin DOMAIN parent})

TreeChildren(parent, i) == Filter([j \in DOMAIN parent |-> j], {j \in DOMAIN parent : parent[j] = i})

\* Each row with what is below its children.
Grow(parent, below) ==
    [i \in DOMAIN parent |->
        <<i>> \o FlattenSeq([k \in DOMAIN TreeChildren(parent, i) |-> below[TreeChildren(parent, i)[k]]])]

\* The nodes below row i, itself first; no chain of distinct rows is longer than the rows.
build(parent) ==
    LET below[d \in 0..Len(parent)] ==
            IF d = 0 THEN [i \in DOMAIN parent |-> <<>>] ELSE Grow(parent, below[d - 1])
    IN below[Len(parent)]

\* Rows in a cycle hang below no root: they are counted and not placed.
BuildTree(parent) ==
    LET roots == TreeRoots(parent) IN
    [parent |-> parent, count |-> Len(parent), error |-> FALSE,
     nodes |-> FlattenSeq([r \in DOMAIN roots |-> build(parent)[roots[r]]])]

\* More rows than the cap, no link or a failing query: on_error and an empty tree.
FetchTreeRows == UNION {[1..n -> 0..(n + 1)] : n \in 0..MaxNodes}

sendTreeError == treeOf' = [NoTree EXCEPT !.error = TRUE]

handleTreeDataRequest ==
    /\ treeOf = NoTree
    /\ (\E parent \in FetchTreeRows : treeOf' = BuildTree(parent)) \/ sendTreeError
    /\ UNCHANGED <<lpvars, attempt, attemptsLeft, user>>

-----------------------------------------------------------------------------
(* The login.                                                              *)

\* The user's row, none, or an error of the database.
LookupLoginUser == {"row", "none", "error"}

\* Plain text, a hash or a salted one, compared with what the row holds.
VerifyLoginPassword(found, matches) == found = "row" /\ matches

\* An exhausted budget starts again: the control never stops.
handleLoginError ==
    /\ attempt' = IF attempt + 1 >= Attempts THEN 0 ELSE attempt + 1
    /\ attemptsLeft' = IF attempt + 1 >= Attempts THEN 0 ELSE Attempts - (attempt + 1)
    /\ UNCHANGED user

handleLoginSubmit ==
    /\ \E found \in LookupLoginUser, matches \in BOOLEAN :
          \/ VerifyLoginPassword(found, matches) /\ attempt' = 0 /\ user' = TRUE /\ UNCHANGED attemptsLeft
          \/ ~VerifyLoginPassword(found, matches) /\ handleLoginError
    /\ UNCHANGED <<lpvars, treeOf>>

-----------------------------------------------------------------------------
LooperNext == handleLooperScrollRequest \/ looperRefresh \/ scroll \/ batchArrives \/ refreshArrives

LooperSpec == LoopersInit /\ [][LooperNext]_loopvars

LoopersSpec == LoopersInit /\ [][LooperNext \/ handleTreeDataRequest \/ handleLoginSubmit]_loopvars

-----------------------------------------------------------------------------
\* The looper shows the rows of the query in order from the first under their own indices, and all of them when it
\* says there are no more, unless a refresh came while a batch was under way.
LooperInOrder ==
    raced \/ /\ Len(looper.rows) <= LRows
             /\ \A i \in DOMAIN looper.rows : looper.rows[i] = [index |-> i, row |-> i]
             /\ ~looper.hasMore => Len(looper.rows) = LRows

\* One step from a row to its parent, as long as there is one.
Climb(parent, up) == [i \in DOMAIN parent |-> IF up[i] \in DOMAIN parent THEN parent[up[i]] ELSE up[i]]

\* Following the parents from a row leaves the rows.
Acyclic(parent) ==
    LET up[d \in 0..Len(parent)] ==
            IF d = 0 THEN [i \in DOMAIN parent |-> i] ELSE Climb(parent, up[d - 1])
    IN \A i \in DOMAIN parent : up[Len(parent)][i] \notin DOMAIN parent

\* "So no row is lost": every row of an acyclic tree is placed exactly once, orphans as roots.
TreeKeepsRows ==
    ~treeOf.error /\ Acyclic(treeOf.parent) =>
        /\ Len(treeOf.nodes) = treeOf.count
        /\ ToSet(treeOf.nodes) = DOMAIN treeOf.parent
=============================================================================
