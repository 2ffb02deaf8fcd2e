------------------------------ MODULE Builder ------------------------------
(***************************************************************************)
(* The visual form builder on a Lua file (internal/builder/server.go,      *)
(* lua_import.go, lua_export.go, rebuild.go, merge.go, model.go and the    *)
(* editor, assets/builder.js).                                             *)
(*                                                                         *)
(* A tab loads the document that Import finds in the source, edits it and  *)
(* puts it back: RebuildLua splices the changed forms into the source as   *)
(* it is on disk by then.  Several tabs, and a text editor, share a file.  *)
(*                                                                         *)
(* A source is a sequence of statements: user code, comments of the        *)
(* generator, and the calls of k.form.new, k.ctrl.<type>, k.form.on and    *)
(* k.form.show with a literal form name.  Blank lines, indentation and the *)
(* options of a control are left out; a title stands for what a form holds *)
(* besides controls and handlers, one event for those of a form or control.*)
(***************************************************************************)
EXTENDS Integers, SeqFilter, FiniteSetsExt

CONSTANTS
    Tab,             \* browser tabs
    CtrlName,        \* names of controls; all but the ones of Tables are buttons
    Tables,          \* controls of a type that has a data source
    Sources,         \* the sources a file may have to begin with
    Generated,       \* documents of generated scripts
    NewForm,         \* the name of a form the user adds or renames to
    MaxEdits,        \* bound: edits of documents
    MaxPuts,         \* bound: saves
    MaxTyped         \* bound: edits of the file in a text editor

VARIABLES
    file,            \* the file: [src, parses]
    tmp,             \* the file beside it: [on, src]
    tab,             \* [Tab -> the editor and its save]
    code,            \* history: the user's code, as the user wrote it
    clobbered,       \* history: reasons a save may have overwritten the user's code
    saved,           \* history: the forms of the last save
    edits, puts, typed

bvars == <<file, tmp, tab, code, clobbered, saved, edits, puts, typed>>

-----------------------------------------------------------------------------
(* Statements.  "arg" is the title of a new, the control of a ctrl, the      *)
(* control or "@form" of an on, and the options of a show; a statement that  *)
(* is not bare is part of a larger expression and is never owned.            *)

Stmt(form, stmt, arg, body, bare) == [form |-> form, stmt |-> stmt, arg |-> arg, body |-> body, bare |-> bare]
CodeLine(text) == Stmt("", "code", text, "", TRUE)
Comment(text) == Stmt("", "comment", text, "", TRUE)
NewStmt(f, title) == Stmt(f, "new", title, "", TRUE)
CtrlStmt(f, c) == Stmt(f, "ctrl", c, "", TRUE)
OnStmt(f, c, body) == Stmt(f, "on", c, body, TRUE)
ShowStmt(f, opts) == Stmt(f, "show", opts, "", TRUE)

IsUserCode(s) == s.stmt = "code" \/ ~s.bare
UserCode(src) == Filter(src, {s \in Range(src) : IsUserCode(s)})

\* Sources and documents are sequences; a form's captured handlers are whole statements.
IsSeq(s) == s \in Seq(Range(s))
IsForm(f) ==
    /\ f = [name |-> f.name, title |-> f.title, ctrls |-> f.ctrls, handlers |-> f.handlers, bodies |-> f.bodies]
    /\ IsSeq(f.ctrls)
    /\ \A k \in DOMAIN f.bodies : f.bodies[k].stmt = "on" /\ f.bodies[k].bare
IsDoc(doc) == IsSeq(doc) /\ \A k \in DOMAIN doc : IsForm(doc[k])

ASSUME BuilderAssumption == (\A src \in Sources : IsSeq(src)) /\ \A doc \in Generated : IsDoc(doc)

\* The members of src at the indices in S.
At(src, S) ==
    LET idx == Filter([i \in DOMAIN src |-> i], S) IN [k \in DOMAIN idx |-> src[idx[k]]]

-----------------------------------------------------------------------------
(* Import.                                                                 *)

\* checkCall and recordSpan: the bare statements of a form after its first k.form.new; later news and shows stay
\* where they are.
Owned(src, f) ==
    LET news == {i \in DOMAIN src : src[i].form = f /\ src[i].stmt = "new" /\ src[i].bare}
        first == Min(news)
        shows == {i \in DOMAIN src : i > first /\ src[i].form = f /\ src[i].stmt = "show"}
    IN IF news = {} THEN {}
       ELSE {first} \cup {i \in DOMAIN src : i > first /\ src[i].form = f /\ src[i].bare /\ src[i].stmt \in {"ctrl", "on"}}
                    \cup {i \in shows : i = Min(shows) /\ src[i].bare}

\* The forms in the order of their k.form.new.
importFormNew(src) ==
    LET firsts == At(src, {i \in DOMAIN src : src[i].stmt = "new" /\ i \in Owned(src, src[i].form)})
    IN [k \in DOMAIN firsts |-> firsts[k].form]

OwnedStmts(src, f, stmt) == At(src, {i \in Owned(src, f) : src[i].stmt = stmt})

importControl(src, f) == [k \in DOMAIN OwnedStmts(src, f, "ctrl") |-> OwnedStmts(src, f, "ctrl")[k].arg]

\* Every registration counts as a handler; only a bare one leaves its text, the last one of a key.
importFormOn(src, f) ==
    LET from == Min(Owned(src, f))
        ons == {i \in DOMAIN src : i > from /\ src[i].form = f /\ src[i].stmt = "on"}
        bare == {i \in ons : src[i].bare}
    IN [keys |-> {src[i].arg : i \in ons},
        bodies |-> [k \in {src[i].arg : i \in bare} |-> src[Max({i \in bare : src[i].arg = k})]]]

\* Whether the form is shown anywhere after its k.form.new.
importFormShow(src, f) == \E i \in DOMAIN src : i > Min(Owned(src, f)) /\ src[i].form = f /\ src[i].stmt = "show"

importForm(src, f) ==
    [name |-> f, title |-> src[Min(Owned(src, f))].arg, ctrls |-> importControl(src, f),
     handlers |-> importFormOn(src, f).keys, bodies |-> importFormOn(src, f).bodies]

Import(src) == [k \in DOMAIN importFormNew(src) |-> importForm(src, importFormNew(src)[k])]

NewEmptyDoc == <<[name |-> "main", title |-> "", ctrls |-> <<>>, handlers |-> {}, bodies |-> <<>>]>>

-----------------------------------------------------------------------------
(* Generation.                                                             *)

findForm(doc, f) == {k \in DOMAIN doc : doc[k].name = f}
hasCtrl(form, c) == c \in ToSet(form.ctrls)

exportFormNew(form) == NewStmt(form.name, form.title)

\* A data source is a comment besides the call.
exportControl(f, c) == (IF c \in Tables THEN <<Comment(c)>> ELSE <<>>) \o <<CtrlStmt(f, c)>>

\* The captured statements of the keys, verbatim and in order: they name the form they were written for.  A key
\* without a text is a statement that stays in the source.
exportHandlers(form, orphans) ==
    LET keys == Filter(<<"@form">> \o form.ctrls \o SetToSeq(orphans), form.handlers \cap DOMAIN form.bodies)
    IN [i \in DOMAIN keys |-> form.bodies[keys[i]]]

\* A stub for what has no handler.
exportDefaultHandlers(form) ==
    LET keys == Filter(<<"@form">> \o form.ctrls, ({"@form"} \cup ToSet(form.ctrls)) \ form.handlers)
    IN [i \in DOMAIN keys |-> OnStmt(form.name, keys[i], "stub")]

\* A generated show has no options.
GenerateFormLua(form, orphans, emitShow) ==
    <<exportFormNew(form)>>
    \o FlattenSeq([i \in DOMAIN form.ctrls |-> exportControl(form.name, form.ctrls[i])])
    \o exportHandlers(form, orphans) \o exportDefaultHandlers(form)
    \o (IF emitShow THEN <<ShowStmt(form.name, "")>> ELSE <<>>)

AllForms(doc) == FlattenSeq([k \in DOMAIN doc |-> GenerateFormLua(doc[k], {}, TRUE)])

ExportLua(doc) == <<Comment("generated")>> \o AllForms(doc)

appendMainToScript(src, doc) == src \o AllForms(doc)

-----------------------------------------------------------------------------
(* Splicing a document into its source.                                    *)

\* The index of the only name that differs; 0 when there is none or more.
renameIndex(cur, doc) ==
    LET diff == {k \in DOMAIN cur : cur[k].name # doc[k].name}
    IN IF Len(cur) = Len(doc) /\ Cardinality(diff) = 1 THEN CHOOSE k \in diff : TRUE ELSE 0

docCounterpart(cur, doc, i) ==
    IF findForm(doc, cur[i].name) # {} THEN findForm(doc, cur[i].name)
    ELSE IF i = renameIndex(cur, doc) THEN {i} ELSE {}

\* The handlers of a control that was renamed are kept under the old name.
patchOrphans(df, sf) ==
    LET removed == {c \in ToSet(sf.ctrls) : ~hasCtrl(df, c)}
        added == {c \in ToSet(df.ctrls) : ~hasCtrl(sf, c)}
        orphans == {k \in df.handlers : k # "@form" /\ ~hasCtrl(df, k)}
    IN IF Cardinality(added) = 1 /\ Cardinality(removed) = 1 /\ orphans = removed THEN orphans ELSE {}

\* Titles are not compared.
formEqualLoose(df, sf) == [df EXCEPT !.title = ""] = [sf EXCEPT !.title = ""]

formEqual(df, sf) == df = sf

\* The whole block, with what lies between.
markDeletedBlock(src, f) == Min(Owned(src, f))..Max(Owned(src, f))

markDeleted(src, f) == Owned(src, f)

\* The generated block is what the source holds already.
sameText(block, src, f) ==
    block = At(src, Owned(src, f))

\* What becomes of a form of the source: [drop, block].
Splice(src, cur, doc, i) ==
    LET sf == cur[i]
        dfs == docCounterpart(cur, doc, i)
        df == doc[CHOOSE k \in dfs : TRUE]
        block == GenerateFormLua(df, patchOrphans(df, sf), importFormShow(src, sf.name))
    IN IF dfs = {} THEN [drop |-> markDeleted(src, sf.name), block |-> <<>>]
       ELSE IF formEqual(df, sf) \/ sameText(block, src, sf.name) THEN [drop |-> {}, block |-> <<>>]
       ELSE [drop |-> markDeleted(src, sf.name), block |-> block]

RebuildLua(src, doc) ==
    LET cur == Import(src)
        splice == [i \in DOMAIN cur |-> Splice(src, cur, doc, i)]
        del == UNION {splice[i].drop : i \in DOMAIN cur}
        From(s) == {i \in DOMAIN cur : splice[i].block # <<>> /\ s = Min(Owned(src, cur[i].name))}
        news == At(doc, {k \in DOMAIN doc : ~\E i \in DOMAIN cur : cur[i].name = doc[k].name \/ k = renameIndex(cur, doc)})
        added == AllForms(news)
        after == Max(UNION {Owned(src, cur[i].name) : i \in DOMAIN cur})
        rest == {s \in DOMAIN src : s > after /\ s \notin del}
        kept == {s \in DOMAIN src : s <= after /\ s \notin del}
        insertPos == IF rest # {} THEN Min(rest) ELSE IF kept # {} THEN Max(kept) + 1 ELSE Len(src) + 1
        Piece(s) ==
            (IF From(s) # {} THEN splice[CHOOSE i \in From(s) : TRUE].block ELSE <<>>)
            \o (IF s = insertPos THEN added ELSE <<>>)
            \o (IF s \notin del THEN <<src[s]>> ELSE <<>>)
    IN IF src = <<>> THEN ExportLua(doc)
       ELSE IF cur = <<>> THEN appendMainToScript(src, doc)
       ELSE FlattenSeq([s \in DOMAIN src |-> Piece(s)]) \o (IF insertPos > Len(src) THEN added ELSE <<>>)

-----------------------------------------------------------------------------
(* Merging a generated document.                                           *)

\* Controls of the base keep their place, new ones follow, none is deleted.
mergeControls(base, gen) == base \o Filter(gen, ToSet(gen) \ ToSet(base))

mergeForm(base, gen) ==
    [name |-> base.name, title |-> IF gen.title # "" THEN gen.title ELSE base.title,
     ctrls |-> mergeControls(base.ctrls, gen.ctrls), handlers |-> base.handlers \cup gen.handlers,
     bodies |-> [k \in DOMAIN base.bodies \cup DOMAIN gen.bodies |->
                    IF k \in DOMAIN gen.bodies THEN gen.bodies[k] ELSE base.bodies[k]]]

MergeDocument(base, gen) ==
    [k \in DOMAIN base |-> IF findForm(gen, base[k].name) = {} THEN base[k]
                           ELSE mergeForm(base[k], gen[CHOOSE g \in findForm(gen, base[k].name) : TRUE])]
    \o At(gen, {k \in DOMAIN gen : findForm(base, gen[k].name) = {}})

-----------------------------------------------------------------------------
(* The editor.                                                             *)

Idle(r) == [r EXCEPT !.pc = "idle", !.sent = <<>>, !.seen = <<>>, !.data = <<>>, !.where = "tmp"]
ClosedTab == [open |-> FALSE, doc |-> <<>>, seen |-> <<>>, pc |-> "idle", sent |-> <<>>, data |-> <<>>, where |-> "tmp"]

\* A source without forms is an empty document.
load(src) == IF Import(src) = <<>> THEN NewEmptyDoc ELSE Import(src)

\* A source that does not parse is an error.
getForm(t) ==
    /\ ~tab[t].open /\ file.parses
    /\ tab' = [tab EXCEPT ![t] = [ClosedTab EXCEPT !.open = TRUE, !.doc = load(file.src)]]
    /\ UNCHANGED <<file, tmp, code, clobbered, saved, edits, puts, typed>>

\* An edit during a save is none of the save's: it may as well come after it.
Edit(t, doc) ==
    /\ tab[t].open /\ tab[t].pc = "idle" /\ edits < MaxEdits /\ edits' = edits + 1
    /\ tab' = [tab EXCEPT ![t].doc = doc]
    /\ UNCHANGED <<file, tmp, code, clobbered, saved, puts, typed>>

addForm(t) ==
    /\ findForm(tab[t].doc, NewForm) = {}
    /\ Edit(t, Append(tab[t].doc, [NewEmptyDoc[1] EXCEPT !.name = NewForm]))

doDeleteForm(t) ==
    /\ Len(tab[t].doc) > 1
    /\ \E k \in DOMAIN tab[t].doc : Edit(t, RemoveAt(tab[t].doc, k))

\* The name and the other properties of a form.
wireFormProps(t) ==
    \E k \in DOMAIN tab[t].doc :
        \/ Edit(t, [tab[t].doc EXCEPT ![k].name = NewForm])
        \/ tab[t].doc[k].title # "edited" /\ Edit(t, [tab[t].doc EXCEPT ![k].title = "edited"])

addNewControl(t) ==
    \E k \in DOMAIN tab[t].doc, c \in CtrlName :
        /\ ~hasCtrl(tab[t].doc[k], c)
        /\ Edit(t, [tab[t].doc EXCEPT ![k].ctrls = Append(@, c)])

\* The list is spliced first: the handlers dropped are those of the control that follows.
deleteControl(t) ==
    \E k \in DOMAIN tab[t].doc : \E i \in DOMAIN tab[t].doc[k].ctrls :
        LET left == RemoveAt(tab[t].doc[k].ctrls, i) IN
        Edit(t, [tab[t].doc EXCEPT ![k].ctrls = left,
                                   ![k].handlers = IF i \in DOMAIN left THEN @ \ {left[i]} ELSE @])

\* The forms of the edited code, here with a control renamed; the code around them is not taken over.
applyCode(t) ==
    \E k \in DOMAIN tab[t].doc, c \in CtrlName : \E i \in DOMAIN tab[t].doc[k].ctrls :
        /\ ~hasCtrl(tab[t].doc[k], c)
        /\ Edit(t, [tab[t].doc EXCEPT ![k].ctrls[i] = c])

\* "Apply to Builder": merged into the open document, or in its place.
aiApply(t) ==
    \E gen \in Generated : Edit(t, MergeDocument(tab[t].doc, gen)) \/ Edit(t, gen)

-----------------------------------------------------------------------------
(* A save.                                                                 *)

\* Form and control names are unique.
Validate(doc) ==
    /\ \A j, k \in DOMAIN doc : doc[j].name = doc[k].name => j = k
    /\ \A k \in DOMAIN doc : IsInjective(doc[k].ctrls)

\* A source that does not parse is regenerated from the document alone.
putForm(t) ==
    /\ tab[t].open /\ tab[t].pc = "idle" /\ puts < MaxPuts /\ puts' = puts + 1
    /\ Validate(tab[t].doc)
    /\ tab' = [tab EXCEPT ![t].pc = "truncate", ![t].sent = tab[t].doc, ![t].seen = IF file.parses THEN file.src ELSE <<>>,
                          ![t].data = IF file.parses THEN RebuildLua(file.src, tab[t].doc) ELSE ExportLua(tab[t].doc)]
    /\ clobbered' = clobbered \cup (IF file.parses THEN {} ELSE {"unparsable"})
                              \cup (IF \E u \in Tab : tab[u].pc # "idle" THEN {"overlap"} ELSE {})
    /\ UNCHANGED <<file, tmp, code, saved, edits, typed>>

\* The reassembled text does not parse: the file is left alone.
putRejected(t) ==
    /\ tab[t].pc = "truncate" /\ tab' = [tab EXCEPT ![t] = Idle(@)]
    /\ UNCHANGED <<file, tmp, code, clobbered, saved, edits, puts, typed>>

\* os.WriteFile on the one name all saves use: it is emptied, then written.
openTmp(t) ==
    /\ tab[t].pc = "truncate"
    /\ tmp' = [on |-> TRUE, src |-> <<>>]
    /\ tab' = [tab EXCEPT ![t].pc = "write", ![t].where = "tmp"]
    /\ UNCHANGED <<file, code, clobbered, saved, edits, puts, typed>>

writeTmp(t) ==
    /\ tab[t].pc = "write"
    /\ IF tab[t].where = "tmp" THEN tmp' = [tmp EXCEPT !.src = tab[t].data] /\ UNCHANGED file
       ELSE file' = [src |-> tab[t].data, parses |-> TRUE] /\ UNCHANGED tmp
    /\ tab' = [tab EXCEPT ![t].pc = "rename"]
    /\ UNCHANGED <<code, clobbered, saved, edits, puts, typed>>

\* Who has the old name open writes the renamed file; who comes second finds nothing to rename.
renameTmp(t) ==
    /\ tab[t].pc = "rename"
    /\ IF tmp.on
       THEN /\ file' = [src |-> tmp.src, parses |-> TRUE] /\ tmp' = [on |-> FALSE, src |-> <<>>]
            /\ tab' = [u \in Tab |-> IF u = t THEN Idle(tab[u])
                                     ELSE IF tab[u].pc \in {"write", "rename"} THEN [tab[u] EXCEPT !.where = "file"] ELSE tab[u]]
            /\ saved' = [on |-> TRUE, doc |-> tab[t].sent]
       ELSE tab' = [tab EXCEPT ![t] = Idle(@)] /\ UNCHANGED <<file, tmp, saved>>
    /\ UNCHANGED <<code, clobbered, edits, puts, typed>>

\* The user changes the file in a text editor: more code, or a source that no longer parses.
typeInFile ==
    /\ typed < MaxTyped /\ typed' = typed + 1
    /\ \/ file' = [file EXCEPT !.src = <<CodeLine("typed")>> \o @] /\ code' = <<CodeLine("typed")>> \o code
       \/ file' = [file EXCEPT !.parses = ~@] /\ UNCHANGED code
    /\ clobbered' = clobbered \cup (IF \E t \in Tab : tab[t].pc # "idle" THEN {"typed"} ELSE {})
    /\ saved' = [saved EXCEPT !.on = FALSE]
    /\ UNCHANGED <<tmp, tab, edits, puts>>

-----------------------------------------------------------------------------
BuilderInit ==
    /\ file \in [src : Sources, parses : {TRUE}] /\ tmp = [on |-> FALSE, src |-> <<>>]
    /\ tab = [t \in Tab |-> ClosedTab]
    /\ code = UserCode(file.src) /\ clobbered = {} /\ saved = [on |-> FALSE, doc |-> <<>>]
    /\ edits = 0 /\ puts = 0 /\ typed = 0

BuilderNext ==
    \/ \E t \in Tab : getForm(t) \/ addForm(t) \/ doDeleteForm(t) \/ wireFormProps(t) \/ addNewControl(t)
                      \/ deleteControl(t) \/ applyCode(t) \/ aiApply(t)
    \/ \E t \in Tab : putForm(t) \/ putRejected(t) \/ openTmp(t) \/ writeTmp(t) \/ renameTmp(t)
    \/ typeInFile

BuilderSpec == BuilderInit /\ [][BuilderNext]_bvars

-----------------------------------------------------------------------------
\* "Non-form code preserved": whatever is edited and saved, by any tab, the file holds the user's code, whole and in
\* order, unless saves overlapped, the user typed during a save, or a source was saved over that did not parse.
CodePreserved == clobbered = {} => UserCode(file.src) = code

\* What was saved is what the next load finds: the same forms, with the same titles and controls.
SavedIsLoaded ==
    saved.on /\ clobbered = {} =>
        LET now == Import(file.src)
            Shape(doc) == {[name |-> doc[k].name, title |-> doc[k].title, ctrls |-> doc[k].ctrls] : k \in DOMAIN doc}
        IN Shape(now) = Shape(saved.doc)

\* "Re-emission never loses a hand-written handler": a handler in the file before a save is there after it, as long as
\* its control is in the document saved.
HandlersKept ==
    \A t \in Tab : tab[t].pc = "truncate" /\ clobbered = {} =>
        \A i \in DOMAIN tab[t].seen :
            LET s == tab[t].seen[i] IN
            s.stmt = "on" /\ s.body # "stub" /\ (\E k \in DOMAIN tab[t].sent : tab[t].sent[k].name = s.form /\ hasCtrl(tab[t].sent[k], s.arg))
                => \E j \in DOMAIN tab[t].data : tab[t].data[j].stmt = "on" /\ tab[t].data[j].body = s.body
=============================================================================
