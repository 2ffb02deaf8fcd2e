-------------------------------- MODULE Page --------------------------------
(***************************************************************************)
(* Forms on the page (internal/bindings/forms.go, render.go, tab.go,       *)
(* chart.go, tabulator.go; the events of internal/session/session.go; the  *)
(* page's side in internal/web/assets/app.js).                             *)
(*                                                                         *)
(* The session keeps one Lua table per control; the page keeps elements.   *)
(* Lua operations change the table and send HTML or data through an outbox *)
(* that drops what does not fit; the user changes the element and the page *)
(* sends an event that changes the table.  Both directions are FIFO and    *)
(* nothing synchronises them.                                              *)
(*                                                                         *)
(* A control is reduced to the one attribute its kind displays: the value  *)
(* of a textbox or combo, the rows of a table, the tabs of a tab, the      *)
(* datasets of a chart.  HTML is what it shows; styling is left out.       *)
(***************************************************************************)
EXTENDS Integers, FiniteSets, SeqFilter

CONSTANTS
    Ctrl,            \* control names
    Kinds,           \* the types they may have: functions from Ctrl
    Form,            \* form names
    Owner,           \* the form of each control
    Cells,           \* per form: its grid cells, <<>> for the vertical layout
    Val,             \* contents; Blank is what a fresh control holds
    Blank,
    POutCap,         \* capacity of the outbox
    MaxLua,          \* bound: operations of the script
    MaxInputs,       \* bound: inputs of the user
    Absent           \* the control has no element on the page

ASSUME PageAssumption == IsFiniteSet(Ctrl) /\ Owner \in [Ctrl -> Form] /\ \A f \in Form : Cells[f] \in Seq(STRING)

VARIABLES
    kind,            \* per control: its type
    order,           \* per form: the names in creation order
    cell,            \* per control: its "cell" attribute
    ctl,             \* per control: what its table holds
    shown,           \* per control: what its element shows
    pIn,             \* events on their way to the session
    pOut,            \* the outbox
    stale,           \* history: controls whose last update was lost or crossed an event
    luas, inputs     \* operations so far

pagevars == <<kind, order, cell, ctl, shown, pIn, pOut, stale, luas, inputs>>

FormControls == [f \in Form |-> {c \in Ctrl : Owner[c] = f}]
shellControl(c) == kind[c] \in {"topbar", "sidebar", "footer"}
On(f) == {c \in FormControls[f] : c \in Range(order[f])}

\* main() has made the forms; none is shown.
PageInit ==
    /\ kind \in Kinds
    /\ order = [f \in Form |-> SetToSeq(FormControls[f])] /\ cell = [c \in Ctrl |-> "none"]
    /\ ctl = [c \in Ctrl |-> Blank] /\ shown = [c \in Ctrl |-> Absent]
    /\ pIn = <<>> /\ pOut = <<>> /\ stale = {} /\ luas = 0 /\ inputs = 0

-----------------------------------------------------------------------------
(* Rendering.                                                              *)

\* These carry the contents in their HTML or in the JSON of an attribute ...
renderTraditionalTable(v) == v
renderTab(v) == v
renderChart(v) == v
renderImage(v) == v
renderTopbar(v) == v

\* ... these are containers the page fills by asking for rows or with a push.
renderTabulator(v) == Blank
renderGrid(v) == Blank
renderLooper(v) == Blank

\* A select is rendered with its options and none of them selected.
renderControl(c, v) ==
    CASE kind[c] = "table" -> renderTraditionalTable(v)
      [] kind[c] = "tab" -> renderTab(v)
      [] kind[c] = "chart" -> renderChart(v)
      [] kind[c] = "image" -> renderImage(v)
      [] kind[c] = "topbar" -> renderTopbar(v)
      [] kind[c] = "tabulator" -> renderTabulator(v)
      [] kind[c] = "grid" -> renderGrid(v)
      [] kind[c] = "looper" -> renderLooper(v)
      [] kind[c] = "combo" -> Blank
      [] OTHER -> v

\* A control in an unknown cell is placed nowhere.
bucketLost(f, c) == cell[c]

\* A control whose cell the form does not define falls back to "main".
bucket(f, c) == IF cell[c] \in Range(Cells[f]) THEN cell[c] ELSE "main"

\* "main" is added when a control needs it.
cellsOf(f) ==
    IF "main" \in Range(Cells[f]) \/ \A c \in On(f) : shellControl(c) \/ bucket(f, c) # "main"
    THEN Cells[f] ELSE Append(Cells[f], "main")

renderGridForm(f) ==
    FlattenSeq([i \in DOMAIN cellsOf(f) |->
                  Filter(order[f], {c \in Ctrl : ~shellControl(c) /\ bucket(f, c) = cellsOf(f)[i]})])

renderVerticalControls(f) == Filter(order[f], {c \in Ctrl : ~shellControl(c)})

\* The form's elements in document order; the shell controls come last.
renderForm(f) ==
    (IF Cells[f] = <<>> THEN renderVerticalControls(f) ELSE renderGridForm(f))
        \o Filter(order[f], {c \in Ctrl : shellControl(c)})

-----------------------------------------------------------------------------
(* The outbox: a message is about the controls whose elements it sets.     *)

Update(c, v) == [type |-> "update_control", sets |-> {c}, to |-> [x \in {c} |-> v]]
Data(c, v) == [type |-> "data", sets |-> {c}, to |-> [x \in {c} |-> v]]
Render(f, t) ==
    LET cs == Range(renderForm(f)) IN
    [type |-> "render_form", sets |-> cs, to |-> [x \in cs |-> renderControl(x, t[x])]]

EventsAbout(c) == \E i \in DOMAIN pIn : c \in DOMAIN pIn[i]
MessageAbout(c) == \E i \in DOMAIN pOut : c \in pOut[i].sets

\* The elements of a tab do not have the id an update_control looks for.
Reaches(m) == {c \in m.sets : m.type = "update_control" => kind[c] # "tab"}

\* SendOutbox never waits: a message that does not fit is dropped.
SendOutbox(m) ==
    IF Len(pOut) < POutCap
    THEN /\ pOut' = Append(pOut, m)
         /\ stale' = (stale \ Reaches(m)) \cup {c \in m.sets : EventsAbout(c)}
    ELSE pOut' = pOut /\ stale' = stale \cup m.sets

Lua == luas < MaxLua /\ luas' = luas + 1 /\ UNCHANGED <<kind, shown, inputs>>

-----------------------------------------------------------------------------
(* The script.                                                             *)

\* k.ctrl.* makes a fresh table and appends the name to the order, also when it is there already.
addControl(c) ==
    /\ Lua /\ Len(order[Owner[c]]) <= Cardinality(FormControls[Owner[c]])
    /\ \E d \in Range(Cells[Owner[c]]) \cup {"none", "gone"} : cell' = [cell EXCEPT ![c] = d]
    /\ order' = [order EXCEPT ![Owner[c]] = Append(@, c)]
    /\ ctl' = [ctl EXCEPT ![c] = Blank]
    /\ stale' = stale \cup {c}
    /\ UNCHANGED <<pIn, pOut>>

formShow(f) == Lua /\ SendOutbox(Render(f, ctl)) /\ UNCHANGED <<order, cell, ctl, pIn>>

\* k.form.refresh and k.set_property render the form, also one that is not shown.
formRefresh(f) == Lua /\ SendOutbox(Render(f, ctl)) /\ UNCHANGED <<order, cell, ctl, pIn>>

\* The element is rendered before the table is written.
setValueRendersFirst(c, v) ==
    /\ Lua /\ c \in On(Owner[c]) /\ kind[c] \in {"text", "combo"}
    /\ ctl' = [ctl EXCEPT ![c] = v]
    /\ SendOutbox(Update(c, renderControl(c, ctl[c])))
    /\ UNCHANGED <<order, cell, pIn>>

setValue(c, v) ==
    /\ Lua /\ c \in On(Owner[c]) /\ kind[c] \in {"text", "combo"}
    /\ ctl' = [ctl EXCEPT ![c] = v]
    /\ SendOutbox(Update(c, renderControl(c, v)))
    /\ UNCHANGED <<order, cell, pIn>>

\* k.ctrl.set_property: the src of an image, the title of a topbar, ...
setProperty(c, v) ==
    /\ Lua /\ c \in On(Owner[c]) /\ kind[c] \in {"image", "topbar", "looper", "grid"}
    /\ ctl' = [ctl EXCEPT ![c] = v]
    /\ SendOutbox(Update(c, renderControl(c, v)))
    /\ UNCHANGED <<order, cell, pIn>>

\* Moving a control to another cell renders the whole form.
setCell(c, d) ==
    /\ Lua /\ c \in On(Owner[c]) /\ cell' = [cell EXCEPT ![c] = d]
    /\ LET f == Owner[c] IN
       SendOutbox(Render(f, ctl))
    /\ UNCHANGED <<order, ctl, pIn>>

ctrlRefresh(c) ==
    /\ Lua /\ c \in On(Owner[c]) /\ SendOutbox(Update(c, renderControl(c, ctl[c])))
    /\ UNCHANGED <<order, cell, ctl, pIn>>

\* k.table.add_line, delete_line, set_column_value.
tableLine(c, v) ==
    /\ Lua /\ c \in On(Owner[c]) /\ kind[c] = "table"
    /\ ctl' = [ctl EXCEPT ![c] = v] /\ SendOutbox(Update(c, v))
    /\ UNCHANGED <<order, cell, pIn>>

\* k.table.set_data: the rows of a Tabulator table go to the page only.
tableSetData(c, v) ==
    /\ Lua /\ c \in On(Owner[c])
    /\ \/ kind[c] = "table" /\ ctl' = [ctl EXCEPT ![c] = v] /\ SendOutbox(Update(c, v))
       \/ kind[c] = "tabulator" /\ UNCHANGED ctl /\ SendOutbox(Data(c, v))
    /\ UNCHANGED <<order, cell, pIn>>

\* k.tab.* and k.chart.*: the table, and a message with the new data.
tabUpdate(c, v) ==
    /\ Lua /\ c \in On(Owner[c]) /\ kind[c] = "tab"
    /\ ctl' = [ctl EXCEPT ![c] = v] /\ SendOutbox(Data(c, v))
    /\ UNCHANGED <<order, cell, pIn>>

chartUpdate(c, v) ==
    /\ Lua /\ c \in On(Owner[c]) /\ kind[c] = "chart"
    /\ ctl' = [ctl EXCEPT ![c] = v] /\ SendOutbox(Data(c, v))
    /\ UNCHANGED <<order, cell, pIn>>

\* k.ctrl.execute_event posts the value of now to the session's own inbox, behind an edit on its way.
executeEvent(c) ==
    /\ Lua /\ c \in On(Owner[c]) /\ kind[c] \in {"text", "combo"}
    /\ pIn' = Append(pIn, [x \in {c} |-> ctl[c]])
    /\ stale' = IF EventsAbout(c) THEN stale \cup {c} ELSE stale
    /\ UNCHANGED <<order, cell, ctl, pOut>>

\* The session stores what an event carries; no element is sent back.
handleEvent ==
    /\ pIn # <<>> /\ pIn' = Tail(pIn)
    /\ ctl' = [c \in Ctrl |-> IF c \in DOMAIN Head(pIn) THEN Head(pIn)[c] ELSE ctl[c]]
    /\ UNCHANGED <<kind, order, cell, shown, pOut, stale, luas, inputs>>

-----------------------------------------------------------------------------
(* The page.                                                               *)

\* render_form replaces the stage; another message goes to the elements that are there.
deliver ==
    /\ pOut # <<>> /\ pOut' = Tail(pOut)
    /\ LET m == Head(pOut) IN
       shown' = IF m.type = "render_form"
                THEN [c \in Ctrl |-> IF c \in m.sets THEN m.to[c] ELSE Absent]
                ELSE [c \in Ctrl |-> IF c \in Reaches(m) /\ shown[c] # Absent THEN m.to[c] ELSE shown[c]]
    /\ UNCHANGED <<kind, order, cell, ctl, pIn, stale, luas, inputs>>

Send(ev) ==
    /\ inputs < MaxInputs /\ inputs' = inputs + 1 /\ pIn' = Append(pIn, ev)
    /\ stale' = (stale \ DOMAIN ev) \cup {c \in DOMAIN ev : MessageAbout(c) \/ (EventsAbout(c) /\ c \in stale)}
    /\ UNCHANGED <<kind, order, cell, ctl, pOut, luas>>

\* An edit: whenever_modified, selection_change, the onchange of a tab.
edit(c, v) ==
    /\ shown[c] # Absent /\ kind[c] \in {"text", "combo", "tab"}
    /\ shown' = [shown EXCEPT ![c] = v] /\ Send([x \in {c} |-> v])

\* A click on a button sends the values of all the inputs of its form.
click(f) ==
    LET cs == {c \in FormControls[f] : shown[c] # Absent /\ kind[c] \in {"text", "combo"}}
    IN cs # {} /\ Send([c \in cs |-> shown[c]]) /\ UNCHANGED shown

-----------------------------------------------------------------------------
PageNext ==
    \/ \E c \in Ctrl : addControl(c) \/ ctrlRefresh(c) \/ executeEvent(c)
    \/ \E c \in Ctrl, v \in Val : setValue(c, v) \/ setProperty(c, v) \/ tableLine(c, v) \/ tableSetData(c, v)
                                    \/ tabUpdate(c, v) \/ chartUpdate(c, v) \/ edit(c, v)
    \/ \E c \in Ctrl, d \in UNION {Range(Cells[f]) : f \in Form} : setCell(c, d)
    \/ \E f \in Form : formShow(f) \/ formRefresh(f) \/ click(f)
    \/ handleEvent
    \/ deliver

PageSpec == PageInit /\ [][PageNext]_pagevars

-----------------------------------------------------------------------------
\* With nothing under way, an element shows what the table of its control holds, unless
\* the last word about it was dropped by the full outbox or crossed an event.  Selects and
\* containers are excepted: their HTML does not carry the value or the rows.
PageCurrent ==
    pIn = <<>> /\ pOut = <<>> =>
        \A c \in Ctrl \ stale : shown[c] # Absent /\ kind[c] \notin {"combo", "tabulator", "grid", "looper"}
                                    => shown[c] = ctl[c]

\* Whatever cells a grid form has and its controls name, every control is placed as often
\* as it was added: none disappears.
NoControlLost ==
    \A f \in Form, c \in Ctrl :
        Len(Filter(renderForm(f), {c})) = Len(Filter(order[f], {c}))
=============================================================================
