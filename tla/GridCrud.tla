------------------------------ MODULE GridCrud ------------------------------
(***************************************************************************)
(* The CRUD grid and the paged table (internal/session/session.go, the     *)
(* grid_* and tabulator_* handlers; internal/bindings/grid.go, tabledb.go, *)
(* the grid operations of tabulator.go; the grid of web/assets/app.js).    *)
(*                                                                         *)
(* The page holds one page of rows and a modal with a copy of one of them. *)
(* Every save and delete goes to the session, which writes the database    *)
(* and tells the page to fetch again; the page asks, the session answers   *)
(* with the rows of then.  Other programs write the same database.         *)
(*                                                                         *)
(* SQL is reduced to what it selects: a row is a key and one value, the    *)
(* order is by key, a filter compares the value.                           *)
(***************************************************************************)
EXTENDS Integers, FiniteSets, SequencesExt

CONSTANTS
    Pk,              \* primary keys: a set of integers
    RowVal,          \* values of a row
    PageSize,        \* rows of a page
    GOutCap,         \* capacity of the outbox
    MaxGrid,         \* bound: inputs of the user
    MaxOutside,      \* bound: writes of other programs
    NoPk,            \* the pk of the modal of a new record
    NoRow            \* the value of a blank form

ASSUME GridAssumption == GOutCap \in Nat /\ Pk \subseteq Int /\ IsFiniteSet(Pk) /\ PageSize \in Nat \ {0}

VARIABLES
    rows,            \* the table: key -> value
    view,            \* the grid: [page, data, last]
    modal,           \* the detail form: [open, mode, pk, val]
    gIn, gOut,       \* requests to the session; its outbox
    gStale,          \* history: the page missed an answer, or the table changed behind it
    aborted,         \* history: keys of deletes whose handler answered {ok = false}
    gInputs, outside \* inputs and foreign writes so far

gridvars == <<rows, view, modal, gIn, gOut, gStale, aborted, gInputs, outside>>

Closed == [open |-> FALSE, mode |-> "none", pk |-> NoPk, val |-> NoRow]

GridInit ==
    /\ \E ks \in SUBSET Pk, v \in RowVal : rows = [k \in ks |-> v]
    /\ view = [page |-> 1, data |-> <<>>, last |-> 1] /\ modal = Closed
    /\ gIn = <<[type |-> "page", page |-> 1]>> /\ gOut = <<>>
    /\ gStale = FALSE /\ aborted = {} /\ gInputs = 0 /\ outside = 0

-----------------------------------------------------------------------------
(* The pager.                                                              *)

\* The fields a filter may name are those of the link or of a probe of the query.
factoryColumns == {"id", "val"}

\* A filter on an unknown field or with an unknown operator is dropped.
buildFilterClause(f, r) ==
    CASE f.field \notin factoryColumns -> TRUE
      [] f.op = "=" -> r.val = f.value
      [] f.op = "!=" -> r.val # f.value
      [] OTHER -> TRUE

\* The keys in the order of the query.
Ordered(S) ==
    CHOOSE s \in [1..Cardinality(S) -> S] : \A i, j \in 1..Cardinality(S) : i < j => s[i] < s[j]

Selected(t, filters) ==
    LET Row(k) == [id |-> k, val |-> t[k]]
        keys == Ordered({k \in DOMAIN t : \A i \in DOMAIN filters : buildFilterClause(filters[i], Row(k))})
    IN [i \in DOMAIN keys |-> Row(keys[i])]

\* Mutant: the last page of a count that ignores the remainder.
lastPageFloor(n, size) == IF n \div size < 1 THEN 1 ELSE n \div size

lastPage(n, size) ==
    LET p == (n + size - 1) \div size IN IF p < 1 THEN 1 ELSE p

LimitClause(s, size, offset) == SubSeq(s, offset + 1, IF offset + size < Len(s) THEN offset + size ELSE Len(s))

\* A page below 1 is page 1.
FetchTablePage(t, page, filters) ==
    LET p == IF page < 1 THEN 1 ELSE page
        s == Selected(t, filters)
    IN [data |-> LimitClause(s, PageSize, (p - 1) * PageSize), last |-> lastPage(Len(s), PageSize)]

-----------------------------------------------------------------------------
(* The session.  Its outbox drops what does not fit.                       *)

Fits(n) == Len(gOut) + n <= GOutCap

SendAll(ms) ==
    LET n == IF Fits(Len(ms)) THEN Len(ms) ELSE GOutCap - Len(gOut) IN
    /\ gOut' = gOut \o SubSeq(ms, 1, n)
    /\ gStale' = (gStale \/ \E i \in (n + 1)..Len(ms) : ms[i].type = "refresh")

Answers == gIn # <<>> /\ gIn' = Tail(gIn) /\ UNCHANGED <<view, modal, gInputs, outside>>

\* A status line or an error: the control is gone, no grid or not linked (gridMeta), or the database failed.
Error == [type |-> "error"]

\* The page of rows that is asked for, and the number of the last page.
remotePagePayload(page, r) == [type |-> "data", page |-> page, data |-> r.data, last |-> r.last]

handleTabulatorAjaxRequest ==
    /\ Answers /\ Head(gIn).type = "page"
    /\ \/ LET r == FetchTablePage(rows, Head(gIn).page, <<>>) IN
          IF Fits(1)
          THEN /\ gOut' = Append(gOut, remotePagePayload(Head(gIn).page, r))
               /\ gStale' = FALSE
          ELSE gOut' = gOut /\ gStale' = TRUE
       \/ gOut' = (IF Fits(1) THEN Append(gOut, Error) ELSE gOut) /\ gStale' = TRUE
    /\ UNCHANGED <<rows, aborted>>

\* A grid event runs its handler; an answer {ok = false} sends an error, and no caller looks at
\* what fireGridEvent returns.
fireGridEvent(no) == IF no THEN <<Error>> ELSE <<>>

\* A form the grid names, one from an inline definition, or a textbox per column: filled with the
\* row the page sent.
BuildGridForm(req) == [type |-> "form", mode |-> req.mode, pk |-> req.pk, val |-> req.val]

\* on_row_view, on_row_edit, on_new_record; then the modal, whatever they said.
handleGridFormOpen ==
    /\ Answers /\ Head(gIn).type = "open"
    /\ \E no \in BOOLEAN :
          SendAll(Append(fireGridEvent(no), BuildGridForm(Head(gIn))))
    /\ UNCHANGED <<rows, aborted>>

\* An empty key of a new row is left out: the database picks one.
GridInsert(v) ==
    \E k \in Pk \ DOMAIN rows : rows' = [x \in DOMAIN rows \cup {k} |-> IF x = k THEN v ELSE rows[x]]

\* UPDATE ... WHERE pk: of a row that is gone it changes nothing and is no error.
GridUpdate(k, v) == rows' = [x \in DOMAIN rows |-> IF x = k THEN v ELSE rows[x]]

GridDeleteMany(ks) == rows' = [x \in DOMAIN rows \ ks |-> rows[x]]

\* A save that does not tell the grid.
handleGridFormSaveQuiet ==
    /\ Answers /\ Head(gIn).type = "save"
    /\ \/ /\ \/ Head(gIn).mode = "new" /\ GridInsert(Head(gIn).val)
             \/ Head(gIn).mode # "new" /\ GridUpdate(Head(gIn).pk, Head(gIn).val)
          /\ SendAll(<<[type |-> "close"]>>)
       \/ SendAll(<<Error>>) /\ UNCHANGED rows
    /\ UNCHANGED aborted

\* on_save may reject the values, the write may fail: then the modal stays and nothing is written.
handleGridFormSave ==
    /\ Answers /\ Head(gIn).type = "save"
    /\ \/ /\ \/ Head(gIn).mode = "new" /\ GridInsert(Head(gIn).val)
             \/ Head(gIn).mode # "new" /\ GridUpdate(Head(gIn).pk, Head(gIn).val)
          /\ SendAll(<<[type |-> "close"], [type |-> "refresh"]>>)
       \/ SendAll(<<Error>>) /\ UNCHANGED rows
    /\ UNCHANGED aborted

handleGridFormCancel ==
    /\ Answers /\ Head(gIn).type = "cancel"
    /\ SendAll(<<[type |-> "close"]>>) /\ UNCHANGED <<rows, aborted>>

\* on_batch_delete, then the rows go.  handleGridRowDelete is the case of one key.
handleGridBatchDelete ==
    /\ Answers /\ Head(gIn).type = "delete"
    /\ \E no \in BOOLEAN :
          /\ aborted' = IF no THEN aborted \cup Head(gIn).pks ELSE aborted
          /\ \/ GridDeleteMany(Head(gIn).pks) /\ SendAll(Append(fireGridEvent(no), [type |-> "refresh"]))
             \/ UNCHANGED rows /\ SendAll(Append(fireGridEvent(no), Error))

\* k.grid.refresh and k.grid.set_db_source, from a handler of the script.
gridRefresh ==
    /\ gInputs < MaxGrid /\ gInputs' = gInputs + 1
    /\ SendAll(<<[type |-> "refresh"]>>) /\ UNCHANGED <<rows, view, modal, gIn, aborted, outside>>

-----------------------------------------------------------------------------
(* The page.                                                               *)

Ask(m) ==
    /\ gInputs < MaxGrid /\ gInputs' = gInputs + 1 /\ gIn' = Append(gIn, m)
    /\ UNCHANGED <<rows, view, modal, gOut, gStale, aborted, outside>>

setPage(p) == p \in 1..view.last /\ Ask([type |-> "page", page |-> p])
newRecord == ~modal.open /\ Ask([type |-> "open", mode |-> "new", pk |-> NoPk, val |-> NoRow])
openRow(i, m) == ~modal.open /\ Ask([type |-> "open", mode |-> m, pk |-> view.data[i].id, val |-> view.data[i].val])
save(v) == modal.open /\ modal.mode # "view" /\ Ask([type |-> "save", mode |-> modal.mode, pk |-> modal.pk, val |-> v])
cancel == modal.open /\ Ask([type |-> "cancel"])
deleteRows(is) == is # {} /\ Ask([type |-> "delete", pks |-> {view.data[i].id : i \in is}])

\* A refresh goes back to page 1 and asks for it.  An answer is shown whichever request it belongs to.
receive ==
    /\ gOut # <<>> /\ gOut' = Tail(gOut)
    /\ LET m == Head(gOut) IN
       /\ view' = IF m.type = "data" THEN [page |-> m.page, data |-> m.data, last |-> m.last] ELSE view
       /\ modal' = CASE m.type = "form" -> [open |-> TRUE, mode |-> m.mode, pk |-> m.pk, val |-> m.val]
                     [] m.type = "close" -> Closed
                     [] OTHER -> modal
       /\ gIn' = IF m.type = "refresh" THEN Append(gIn, [type |-> "page", page |-> 1]) ELSE gIn
    /\ UNCHANGED <<rows, gStale, aborted, gInputs, outside>>

\* Another program writes the table.
outsideWrite ==
    /\ outside < MaxOutside /\ outside' = outside + 1
    /\ \/ \E v \in RowVal : GridInsert(v)
       \/ \E k \in DOMAIN rows : GridDeleteMany({k})
    /\ gStale' = TRUE /\ UNCHANGED <<view, modal, gIn, gOut, aborted, gInputs>>

-----------------------------------------------------------------------------
GridNext ==
    \/ handleTabulatorAjaxRequest \/ handleGridFormOpen \/ handleGridFormSave
    \/ handleGridFormCancel \/ handleGridBatchDelete \/ gridRefresh
    \/ \E p \in 1..Cardinality(Pk) : setPage(p)
    \/ \E i \in DOMAIN view.data, m \in {"view", "edit"} : openRow(i, m)
    \/ newRecord \/ cancel
    \/ \E v \in RowVal : save(v)
    \/ \E is \in SUBSET DOMAIN view.data : deleteRows(is)
    \/ receive \/ outsideWrite

GridSpec == GridInit /\ [][GridNext]_gridvars

-----------------------------------------------------------------------------
\* With nothing under way, the grid shows the rows the table has on its page, unless an answer
\* was dropped or failed, or another program wrote since the last answer: every save and delete
\* of the user reaches the grid that it was made in, from whatever page.
GridCurrent ==
    gIn = <<>> /\ gOut = <<>> /\ ~gStale =>
        view.data = FetchTablePage(rows, view.page, <<>>).data

\* The pages 1..last_page of a table, one after the other, are its selected rows.
PagesShow(t, fs) ==
    LET last == FetchTablePage(t, 1, fs).last IN
    FlattenSeq([p \in 1..last |-> FetchTablePage(t, p, fs).data]) = Selected(t, fs)

\* Going through the pages 1..last_page shows every selected row once, in order, whatever the
\* table holds and the filter selects.
PagesCover ==
    \A fs \in {<<>>} \cup {<<[field |-> f, op |-> o, value |-> v]>> :
                              f \in {"val", "secret"}, o \in {"=", "!=", "??"}, v \in RowVal} :
        PagesShow(rows, fs)
=============================================================================
