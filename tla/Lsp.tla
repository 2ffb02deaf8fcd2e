-------------------------------- MODULE Lsp --------------------------------
(***************************************************************************)
(* The language server (internal/lsp/lsp.go).                              *)
(*                                                                         *)
(* The editor's messages are handled one after the other on the reading    *)
(* goroutine.  A change marks the server dirty and arms a timer that every *)
(* change pushes back; when it fires, a goroutine of its own checks and    *)
(* publishes every open document.  A flush may still be checking when the  *)
(* next one starts.  A document's text is its version number.              *)
(***************************************************************************)
EXTENDS Integers, Sequences

CONSTANTS Uri,          \* documents
          Flush,        \* bound: flushes at work at the same time
          MaxVersion    \* bound: texts of the documents

Gone == 0               \* the version of a document that is not open

VARIABLES editor,       \* the version the editor shows of each document
          sent,         \* the editor's messages that are not handled yet
          client,       \* whether the server knows its client
          docs,         \* the server's documents
          closing,      \* the document whose closing is under way, or none
          timer, dirty, \* the debounce timer is armed; diagDirty
          flush,        \* [Flush -> what the goroutine is doing]
          published,    \* the version each document was last published for
          newest,       \* history: the newest version published since it was opened
          versions

lspvars == <<editor, sent, client, docs, closing, timer, dirty, flush, published,
             newest, versions>>

NoUri == "no uri"
Rest  == [pc |-> "idle"]

LspInit ==
    /\ editor = [u \in Uri |-> Gone] /\ docs = [u \in Uri |-> Gone]
    /\ sent = << >> /\ client = FALSE /\ closing = NoUri
    /\ timer = FALSE /\ dirty = FALSE
    /\ flush = [f \in Flush |-> Rest]
    /\ published = [u \in Uri |-> Gone] /\ newest = [u \in Uri |-> Gone]
    /\ versions = 0

-----------------------------------------------------------------------------
(* The editor.                                                             *)

Send(m) == sent' = Append(sent, m)

\* A document is opened or changed, under a new version.
EditorTypes(u) ==
    /\ versions < MaxVersion
    /\ versions' = versions + 1
    /\ editor' = [editor EXCEPT ![u] = versions + 1]
    /\ Send([typ |-> IF editor[u] = Gone THEN "open" ELSE "change", u |-> u, v |-> versions + 1])
    /\ UNCHANGED <<client, docs, closing, timer, dirty, flush, published, newest>>

EditorCloses(u) ==
    /\ editor[u] # Gone
    /\ editor' = [editor EXCEPT ![u] = Gone]
    /\ Send([typ |-> "close", u |-> u, v |-> Gone])
    /\ UNCHANGED <<client, docs, closing, timer, dirty, flush, published, newest, versions>>

-----------------------------------------------------------------------------
(* The reading goroutine.                                                  *)

\* Serve stores the client it dispatches to, as does the initialize request,
\* which an editor sends before anything else.
Initialize ==
    /\ ~client /\ client' = TRUE
    /\ UNCHANGED <<editor, sent, docs, closing, timer, dirty, flush, published, newest, versions>>

\* The next message; the one before it is handled to its end.
Take(typ) ==
    /\ client /\ closing = NoUri
    /\ sent # << >> /\ Head(sent).typ = typ
    /\ sent' = Tail(sent)

scheduleDiagnostics == dirty' = TRUE /\ timer' = TRUE

\* The text of an opened document, or of a changed one, replaces what was there.
Store(u, v) == docs' = [docs EXCEPT ![u] = v] /\ scheduleDiagnostics

DidOpen ==
    /\ Take("open")
    /\ Store(Head(sent).u, Head(sent).v)
    /\ newest' = [newest EXCEPT ![Head(sent).u] = Gone]
    /\ UNCHANGED <<editor, client, closing, flush, published, versions>>

DidChange ==
    /\ Take("change")
    /\ Store(Head(sent).u, Head(sent).v)
    /\ UNCHANGED <<editor, client, closing, flush, published, newest, versions>>

\* The document is deleted under the lock, and published as empty after it.
DidClose ==
    /\ Take("close")
    /\ docs' = [docs EXCEPT ![Head(sent).u] = Gone]
    /\ closing' = Head(sent).u
    /\ UNCHANGED <<editor, client, timer, dirty, flush, published, newest, versions>>

publishEmpty ==
    /\ closing # NoUri
    /\ published' = [published EXCEPT ![closing] = Gone]
    /\ closing' = NoUri
    /\ UNCHANGED <<editor, sent, client, docs, timer, dirty, flush, newest, versions>>

-----------------------------------------------------------------------------
(* The debounce timer and the flushes.                                     *)

TimerFires(f) ==
    /\ timer /\ flush[f].pc = "idle"
    /\ timer' = FALSE
    /\ flush' = [flush EXCEPT ![f] = [pc |-> "start"]]
    /\ UNCHANGED <<editor, sent, client, docs, closing, dirty, published, newest, versions>>

\* Mutant: the documents are collected before the flag is reset, not after.
flushDiagnosticsLate(f) ==
    /\ flush[f].pc \in {"start", "reset"}
    /\ IF flush[f].pc = "start"
       THEN flush' = [flush EXCEPT ![f] = [pc |-> "reset", todo |-> {u \in Uri : docs[u] # Gone}]]
       ELSE flush' = [flush EXCEPT ![f] = IF dirty THEN [pc |-> "next", todo |-> flush[f].todo] ELSE Rest]
    /\ dirty' = (dirty /\ flush[f].pc = "start")
    /\ UNCHANGED <<editor, sent, client, docs, closing, timer, published, newest, versions>>

\* The flag is taken, then the open documents are collected: two locks.
flushDiagnostics(f) ==
    /\ flush[f].pc \in {"start", "collect"}
    /\ flush' = [flush EXCEPT ![f] =
                   IF flush[f].pc = "collect" THEN [pc |-> "next", todo |-> {u \in Uri : docs[u] # Gone}]
                   ELSE IF dirty THEN [pc |-> "collect"] ELSE Rest]
    /\ dirty' = (dirty /\ flush[f].pc = "collect")
    /\ UNCHANGED <<editor, sent, client, docs, closing, timer, published, newest, versions>>

\* The text is read under the lock, checked and published without it.
publishDiags(f) ==
    /\ flush[f].pc = "next"
    /\ IF flush[f].todo = {} THEN flush' = [flush EXCEPT ![f] = Rest]
       ELSE \E u \in flush[f].todo :
              flush' = [flush EXCEPT ![f] = [pc |-> "check", todo |-> @.todo \ {u}, u |-> u, v |-> docs[u]]]
    /\ UNCHANGED <<editor, sent, client, docs, closing, timer, dirty, published, newest, versions>>

checked(f) ==
    /\ flush[f].pc = "check"
    /\ published' = [published EXCEPT ![flush[f].u] = flush[f].v]
    /\ newest' = [newest EXCEPT ![flush[f].u] = IF flush[f].v > @ THEN flush[f].v ELSE @]
    /\ flush' = [flush EXCEPT ![f] = [pc |-> "next", todo |-> @.todo]]
    /\ UNCHANGED <<editor, sent, client, docs, closing, timer, dirty, versions>>

-----------------------------------------------------------------------------
Reader ==
    \/ Initialize \/ publishEmpty
    \/ DidOpen \/ DidChange \/ DidClose

Flushing(f) == flushDiagnostics(f) \/ publishDiags(f) \/ checked(f)

LspNext ==
    \/ \E u \in Uri : EditorTypes(u) \/ EditorCloses(u)
    \/ Reader
    \/ \E f \in Flush : TimerFires(f) \/ Flushing(f)

\* Goroutines run, and a timer that is armed and not pushed back fires.
LspFair ==
    /\ WF_lspvars(\E f \in Flush : TimerFires(f))
    /\ \A f \in Flush : WF_lspvars(Flushing(f))

-----------------------------------------------------------------------------
\* When the editor pauses, the text of every open document is checked and
\* published: no change falls between the taking of the dirty flag, the
\* collecting of the documents and the next timer.
DiagnosticsCatchUp == \A u \in Uri : newest[u] < docs[u] ~> newest[u] >= docs[u]

=============================================================================
