------------------------------ MODULE LogSink ------------------------------
(***************************************************************************)
(* The structured log of serve mode (internal/klog): any worker emits and  *)
(* flushes, one writer goroutine batches rows into transactions, prunes    *)
(* and, at Close, drains the queue and ends.                               *)
(***************************************************************************)
EXTENDS Integers, Sequences, FiniteSets, SequencesExt

CONSTANTS
    Emitter,     \* goroutines that log
    LogCap,      \* capacity of d.ch (1024 in the code)
    BatchMax,    \* rows per transaction (64 in the code)
    MaxRecords,  \* bound: records emitted
    Retained,    \* rows the age limit lets a prune keep
    LowWater     \* rows that fit into 80% of the size cap

VARIABLES
    lch,         \* d.ch
    batch,       \* the writer's batch
    rows,        \* the klog table: the records in it, numbered in the order of their ids
    fileRows,    \* the size of the file: SQLite reuses pages and gives none back
    dropped,     \* records counted in d.dropped
    gone,        \* history: records a prune removed
    emitted,     \* records emitted
    flushes,     \* d.flushes, of capacity one
    lpc,         \* per emitter: "run" or where it is in Flush
    owes,        \* per emitter: records it had emitted when it called Flush
    writer,      \* "run" or "exited" (d.done closed)
    stopped      \* d.stopCh is closed

logvars == <<lch, batch, rows, fileRows, dropped, gone, emitted, flushes, lpc, owes, writer,
             stopped>>

LogInit ==
    /\ lch = <<>> /\ batch = <<>> /\ rows = {} /\ fileRows = 0
    /\ dropped = {} /\ gone = {}
    /\ emitted = 0 /\ flushes = <<>> /\ lpc = [e \in Emitter |-> "run"]
    /\ owes = [e \in Emitter |-> {}] /\ writer = "run" /\ stopped = FALSE

\* Emit of a record whose level is logged: never blocks, a full queue counts it.
Emit(e) ==
    /\ lpc[e] = "run" /\ emitted < MaxRecords /\ ~stopped
    /\ emitted' = emitted + 1
    /\ IF Len(lch) < LogCap
       THEN lch' = Append(lch, emitted + 1) /\ UNCHANGED dropped
       ELSE dropped' = dropped \cup {emitted + 1} /\ UNCHANGED lch
    /\ UNCHANGED <<batch, rows, fileRows, gone, flushes, lpc, owes, writer, stopped>>

\* Flush hands a reply channel to the writer, or finds the writer gone, ...
FlushCall(e) ==
    /\ lpc[e] = "run"
    /\ IF writer = "exited" THEN UNCHANGED <<flushes, lpc, owes>>
       ELSE /\ flushes = <<>> /\ flushes' = <<e>>
            /\ lpc' = [lpc EXCEPT ![e] = "flushing"]
            /\ owes' = [owes EXCEPT ![e] = 1..emitted]
    /\ UNCHANGED <<lch, batch, rows, fileRows, dropped, gone, emitted, writer, stopped>>

-----------------------------------------------------------------------------
(* The writer.                                                             *)

\* The transactions that may fail while a queue is written in batches.
Failures == SUBSET (0..(LogCap \div BatchMax))

\* insert, for every full batch of b and for the rest: one transaction each; when
\* it fails its records count as dropped.
Lost(b, bad) == {b[i] : i \in {j \in DOMAIN b : (j - 1) \div BatchMax \in bad}}
Written(b, bad) == rows \cup (ToSet(b) \ Lost(b, bad))
Grown(n) == IF n > fileRows THEN n ELSE fileRows
insert(b, bad) ==
    /\ batch' = <<>>
    /\ rows' = Written(b, bad) /\ dropped' = dropped \cup Lost(b, bad)
    /\ fileRows' = Grown(Cardinality(Written(b, bad)))

\* A record joins the batch, which is written when it is full.
TakeRecord(bad) ==
    /\ writer = "run" /\ lch # <<>> /\ lch' = Tail(lch)
    /\ LET b == Append(batch, Head(lch)) IN
       IF Len(b) >= BatchMax THEN insert(b, bad)
       ELSE batch' = b /\ UNCHANGED <<rows, fileRows, dropped>>
    /\ UNCHANGED <<gone, emitted, flushes, lpc, owes, writer, stopped>>

Tick(bad) ==
    /\ writer = "run" /\ batch # <<>> /\ insert(batch, bad)
    /\ UNCHANGED <<lch, gone, emitted, flushes, lpc, owes, writer, stopped>>

\* ... and waits for the answer, which comes after the queue is drained.
ServeFlush(bad) ==
    /\ writer = "run" /\ flushes # <<>>
    /\ insert(batch \o lch, bad) /\ lch' = <<>>
    /\ flushes' = <<>> /\ lpc' = [lpc EXCEPT ![Head(flushes)] = "flushed"]
    /\ UNCHANGED <<gone, emitted, owes, writer, stopped>>

\* The n newest rows of a table.
Newest(t, n) == {x \in t : Cardinality({y \in t : y > x}) < n}

\* The hourly prune drains, then deletes what is older than the age limit, and
\* the oldest rows as long as the file is above the low-water mark: deleting does
\* not make it smaller, so nothing is left.
Prune(bad) ==
    /\ writer = "run" /\ lch' = <<>> /\ batch' = <<>>
    /\ LET b == batch \o lch
           all == Written(b, bad)
           kept == IF Grown(Cardinality(all)) > LowWater THEN {} ELSE Newest(all, Retained) IN
       /\ rows' = kept /\ gone' = gone \cup (all \ kept)
       /\ dropped' = dropped \cup Lost(b, bad) /\ fileRows' = Grown(Cardinality(all))
    /\ UNCHANGED <<emitted, flushes, lpc, owes, writer, stopped>>

FlushReturns(e) ==
    /\ lpc[e] = "flushed" /\ lpc' = [lpc EXCEPT ![e] = "run"]
    /\ owes' = [owes EXCEPT ![e] = {}]
    /\ UNCHANGED <<lch, batch, rows, fileRows, dropped, gone, emitted, flushes, writer, stopped>>

\* Close closes stopCh; the writer drains the queue, writes it and exits.
CloseLog ==
    /\ ~stopped /\ stopped' = TRUE
    /\ UNCHANGED <<lch, batch, rows, fileRows, dropped, gone, emitted, flushes, lpc, owes, writer>>

\* Mutant: the writer ends without a look at the queue.
WriterExitsEarly(bad) ==
    /\ writer = "run" /\ stopped /\ writer' = "exited" /\ insert(batch, bad)
    /\ UNCHANGED <<lch, gone, emitted, flushes, lpc, owes, stopped>>

WriterExits(bad) ==
    /\ writer = "run" /\ stopped /\ writer' = "exited"
    /\ insert(batch \o lch, bad) /\ lch' = <<>>
    /\ UNCHANGED <<gone, emitted, flushes, lpc, owes, stopped>>

LogNext ==
    \/ \E e \in Emitter : Emit(e) \/ FlushCall(e) \/ FlushReturns(e)
    \/ \E bad \in Failures : \/ TakeRecord(bad) \/ Tick(bad) \/ ServeFlush(bad)
                           \/ Prune(bad) \/ WriterExits(bad)
    \/ CloseLog

LogSpec == LogInit /\ [][LogNext]_logvars

-----------------------------------------------------------------------------
(* Properties.                                                             *)

\* Every record emitted is written, counted as dropped, pruned, or still on its
\* way to a writer that runs: none is lost without a count, and each ends in one
\* place.  "Flush blocks until all queued records are written": when it returns,
\* none of the records emitted before the call is queued or batched.
LogAccounted ==
    LET under == batch \o lch IN
    /\ IsInjective(under)
    /\ rows \cup ToSet(under) \cup dropped \cup gone = 1..emitted
    /\ rows \cap ToSet(under) = {} /\ dropped \cap gone = {}
    /\ (rows \cup ToSet(under)) \cap (dropped \cup gone) = {}
    /\ writer = "exited" => batch = <<>> /\ lch = <<>>
    /\ \A e \in Emitter : lpc[e] = "flushed" => owes[e] \cap ToSet(under) = {}

\* Prune "shrinks the file to 80% low-water": it keeps the newest rows.
PruneKeepsNewest == [][rows # {} => rows' # {}]_logvars

\* Flush returns.  A request the writer finds together with stopCh may stay in the
\* channel when the writer exits, and its caller waits for ever.
FlushAnswered == \A e \in Emitter : lpc[e] = "flushing" ~> lpc[e] # "flushing"
=============================================================================
