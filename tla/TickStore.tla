----------------------------- MODULE TickStore ------------------------------
(***************************************************************************)
(* The storage of the Python connector (connectors/database): Database     *)
(* with its "db" thread, the TickStorage of one market and the rows of the *)
(* market table.  A stream thread stores ticks, the db thread inserts the  *)
(* rows and flushes the ticks into one text and one binary file per month, *)
(* and the main thread closes the database at the end of the process.      *)
(* Ticks and rows are numbered in the order they are stored.  The rows of  *)
(* one market all have the same key, so the table holds the last one.      *)
(***************************************************************************)
EXTENDS Naturals, FiniteSets, Sequences, SequencesExt

CONSTANTS MaxTicks,  \* bound on the ticks that arrive
          PerMonth,  \* ticks of a month
          MaxRows,   \* bound on the rows of market information
          Faults,    \* what may fail: "open", "write", "close", "insert"
          MaxFaults  \* bound on the kinds of failure of a behaviour

ASSUME StoreAssumption ==
  /\ MaxTicks \in Nat /\ MaxRows \in Nat /\ MaxFaults \in Nat
  /\ PerMonth \in Nat \ {0}
  /\ Faults \subseteq {"open", "write", "close", "insert"}

VARIABLES
  main,       \* where the main thread is in Database.close
  running,    \* Database._running
  db,         \* where the db thread is in Database.run
  arrived,    \* ticks given to store_market_trade
  storing,    \* the stream thread is between the two lists of that function
  pending,    \* length of Database._pending_tick_insert
  visits,     \* what is left of the copy process_tick works on
  ticks,      \* TickStorage._ticks
  batch,      \* flush(): the copy it writes
  written,    \* flush(): n
  month,      \* TickStorage._curr_date
  open,       \* the month each file handle is open on, 0 for None
  files,      \* the ticks in each file of each month
  recent,     \* less than a minute since TickStorage._last_save
  rows,       \* Database._pending_market_info_insert
  inserting,  \* process_market(): mki
  table,      \* the row of the market, 0 when there is none
  stored,     \* rows given to store_market_info
  before,     \* what was stored when close() was called
  failed      \* the faults that happened

threads == <<main, running, db>>
streamVars == <<arrived, storing>>
visitVars == <<pending, visits>>
fileVars == <<month, open, files>>
flushVars == <<batch, written, recent>>
rowVars == <<rows, inserting, table, stored>>
vars == <<threads, streamVars, visitVars, ticks, fileVars, flushVars, rowVars,
          before, failed>>

Formats == {"text", "binary"}
MonthOf(tick) == 1 + (tick - 1) \div PerMonth
Months == {MonthOf(t) : t \in 1..MaxTicks}
Closed == [f \in Formats |-> 0]

(* An insertion and the opening of a file may fail again and again, while  *)
(* a write and a close() fail at most once.                                *)
Fault(kind) ==
  /\ kind \in Faults
  /\ \/ kind \in failed \intersect {"open", "insert"}
     \/ kind \notin failed /\ Cardinality(failed) < MaxFaults
  /\ failed' = failed \union {kind}

Init ==
  /\ main = "running" /\ running = TRUE /\ db = "loop"
  /\ arrived = 0 /\ storing = FALSE
  /\ pending = 0 /\ visits = 0
  /\ ticks = <<>> /\ batch = <<>> /\ written = 0 /\ recent = FALSE
  /\ month = 0 /\ open = Closed
  /\ files = [f \in Formats |-> [m \in Months |-> <<>>]]
  /\ rows = <<>> /\ inserting = <<>> /\ table = 0 /\ stored = 0
  /\ before = [ticks |-> 0, rows |-> 0] /\ failed = {}

-----------------------------------------------------------------------------
(* The threads that store.                                                 *)

(* store_market_trade(): the storage is put on the list of those to visit, *)
(* and the tick into the storage once the lock is released.                *)
Arrive ==
  /\ ~storing /\ arrived < MaxTicks
  /\ arrived' = arrived + 1 /\ storing' = TRUE
  /\ pending' = pending + 1
  /\ UNCHANGED <<threads, visits, ticks, fileVars, flushVars, rowVars, before,
                 failed>>

Store ==
  /\ storing
  /\ storing' = FALSE
  /\ ticks' = Append(ticks, arrived)
  /\ UNCHANGED <<threads, arrived, visitVars, fileVars, flushVars, rowVars,
                 before, failed>>

(* store_market_info()                                                     *)
StoreRow ==
  /\ stored < MaxRows
  /\ stored' = stored + 1
  /\ rows' = Append(rows, stored + 1)
  /\ UNCHANGED <<threads, streamVars, visitVars, ticks, fileVars, flushVars,
                 inserting, table, before, failed>>

(* A minute passes since the last flush.                                   *)
Minute ==
  /\ recent
  /\ recent' = FALSE
  /\ UNCHANGED <<threads, streamVars, visitVars, ticks, fileVars, batch,
                 written, rowVars, before, failed>>

-----------------------------------------------------------------------------
(* The db thread: the rows.                                                *)

Leave ==
  /\ db = "loop" /\ ~running
  /\ db' = "ended"
  /\ UNCHANGED <<main, running, streamVars, visitVars, ticks, fileVars,
                 flushVars, rowVars, before, failed>>

TakeRows ==
  /\ db = "loop" /\ running
  /\ inserting' = rows /\ rows' = <<>>
  /\ db' = IF rows = <<>> THEN "ticks" ELSE "insert"
  /\ UNCHANGED <<main, running, streamVars, visitVars, ticks, fileVars,
                 flushVars, table, stored, before, failed>>

(* The rows a failed insertion takes back to the list.                     *)
PutBackLast(some) == rows \o some
PutBack(some) == some \o rows

Insert ==
  /\ db = "insert"
  /\ table' = Last(inserting)
  /\ inserting' = <<>> /\ db' = "ticks"
  /\ UNCHANGED <<main, running, streamVars, visitVars, ticks, fileVars,
                 flushVars, rows, stored, before, failed>>

(* The insertion fails after some rows, which nothing rolls back, or the   *)
(* commit fails after all of them; it is tried again without end.          *)
InsertFails ==
  /\ db = "insert" /\ Fault("insert")
  /\ \E n \in 0..Len(inserting) :
       table' = IF n = 0 THEN table ELSE inserting[n]
  /\ rows' = PutBack(inserting)
  /\ inserting' = <<>> /\ db' = "ticks"
  /\ UNCHANGED <<main, running, streamVars, visitVars, ticks, fileVars,
                 flushVars, stored, before>>

-----------------------------------------------------------------------------
(* The db thread: the ticks.                                               *)

TakeVisits ==
  /\ db = "ticks"
  /\ visits' = pending /\ pending' = 0
  /\ db' = "visit"
  /\ UNCHANGED <<main, running, streamVars, ticks, fileVars, flushVars,
                 rowVars, before, failed>>

(* flush(): the ticks are copied and cleared under the lock.               *)
Copy ==
  /\ batch' = ticks /\ written' = 0
  /\ ticks' = <<>>

(* A storage of the list that has data is flushed, once a minute.          *)
Visit ==
  /\ db = "visit" /\ visits > 0
  /\ visits' = visits - 1
  /\ IF ticks = <<>> \/ recent
     THEN UNCHANGED <<db, ticks, batch, written>>
     ELSE Copy /\ db' = "flush"
  /\ UNCHANGED <<main, running, streamVars, pending, fileVars, recent,
                 rowVars, before, failed>>

Visited ==
  /\ db = "visit" /\ visits = 0
  /\ db' = "loop"
  /\ UNCHANGED <<main, running, streamVars, visitVars, ticks, fileVars,
                 flushVars, rowVars, before, failed>>

-----------------------------------------------------------------------------
(* flush(), by the db thread or, once it is joined, by the main thread.    *)

Flushing == db = "flush" \/ main = "flush"

(* The handles once close() and open() are done for a tick of month m; a   *)
(* file that cannot be opened is only logged.                              *)
HandlesKept(m, unopened) ==
  [f \in Formats |-> IF open[f] # 0 THEN open[f]
                     ELSE IF f \in unopened THEN 0 ELSE m]
Handles(m, unopened) ==
  LET kept == IF month \notin {0, m} THEN Closed ELSE open
  IN [f \in Formats |-> IF kept[f] # 0 THEN kept[f]
                        ELSE IF f \in unopened THEN 0 ELSE m]

Appended(f, tick, handles) ==
  IF handles[f] = 0 THEN files[f]
  ELSE [files[f] EXCEPT ![handles[f]] = Append(@, tick)]

(* close() raised in an earlier flush: one handle is closed but not None,  *)
(* and is used if the next tick is of the same month.                      *)
Leftover ==
  /\ written = 0 /\ batch # <<>>
  /\ open # Closed /\ month = MonthOf(batch[1])

WriteTick ==
  LET tick == batch[written + 1] m == MonthOf(tick) IN
  /\ Flushing /\ written < Len(batch) /\ ~Leftover
  /\ \E unopened \in SUBSET Formats :
       /\ IF unopened = {} THEN UNCHANGED failed ELSE Fault("open")
       /\ open' = Handles(m, unopened)
  /\ month' = m
  /\ files' = [f \in Formats |-> Appended(f, tick, open')]
  /\ written' = written + 1
  /\ UNCHANGED <<threads, streamVars, visitVars, ticks, batch, recent,
                 rowVars, before>>

(* What may be left of file f when its handle, open on month h, cannot     *)
(* write out what it buffers: some of the last ticks of this flush miss.   *)
Kept(f, h) ==
  LET s == files[f][h]
      buffered == Cardinality({n \in 1..written : MonthOf(batch[n]) = h})
  IN  IF h = 0 THEN {files[f]}
      ELSE {[files[f] EXCEPT ![h] = SubSeq(s, 1, k)] :
              k \in {k \in 0..Len(s) : Len(s) <= k + buffered}}

(* The close() of a month change raises.                                   *)
MonthCloseFails ==
  /\ month \notin {0, MonthOf(batch[written + 1])}
  /\ \E text \in Kept("text", open["text"]),
        binary \in Kept("binary", open["binary"]) :
       files' = [f \in Formats |-> IF f = "text" THEN text ELSE binary]
  /\ UNCHANGED <<month, open>>

(* The write of a tick raises, possibly once its text row is written.      *)
TickFails ==
  LET tick == batch[written + 1]
      row == IF Leftover /\ open["text"] # 0 THEN files["text"]
             ELSE Appended("text", tick, open')
  IN
  /\ month' = MonthOf(tick) /\ open' = Handles(month', {})
  /\ \E text \in Kept("text", open'["text"]) \union {row},
        binary \in Kept("binary", open'["binary"]) :
       files' = [f \in Formats |-> IF f = "text" THEN text ELSE binary]

(* "retry the next time": the whole batch is put before what is left of    *)
(* the new ticks, and flush() goes on to its end.                          *)
WriteFails ==
  /\ Flushing /\ written < Len(batch)
  /\ IF Leftover THEN UNCHANGED failed ELSE Fault("write")
  /\ MonthCloseFails \/ TickFails
  /\ ticks' = batch \o SubSeq(ticks, written + 1, Len(ticks))
  /\ batch' = <<>> /\ written' = 0
  /\ UNCHANGED <<threads, streamVars, visitVars, recent, rowVars, before>>

(* The end of flush(): the handles are closed, and the caller goes on.     *)
Flushed ==
  /\ Flushing /\ written = Len(batch)
  /\ batch' = <<>> /\ written' = 0
  /\ recent' = TRUE /\ open' = Closed
  /\ db' = IF db = "flush" THEN "visit" ELSE db
  /\ main' = IF main = "flush" THEN "closed" ELSE main
  /\ UNCHANGED <<running, streamVars, visitVars, month, files, rowVars,
                 before, failed>>
EndFlushClearing == Flushed /\ ticks' = <<>>
EndFlush == Flushed /\ UNCHANGED ticks

(* The close() at the end of flush() raises, outside the try: it leaves    *)
(* Database.run, and the db thread ends, or Database.close().  The handle  *)
(* that raised is not None; the ticks it buffered are in no list any more. *)
CloseFails ==
  /\ Flushing /\ written = Len(batch) /\ Fault("close")
  /\ \E f \in {f \in Formats : open[f] # 0} :
       /\ \E kept \in Kept(f, open[f]) : files' = [files EXCEPT ![f] = kept]
       /\ open' = IF f = "text" THEN open ELSE [open EXCEPT !["text"] = 0]
  /\ batch' = <<>> /\ written' = 0 /\ recent' = TRUE
  /\ db' = IF db = "flush" THEN "dead" ELSE db
  /\ main' = IF main = "flush" THEN "raised" ELSE main
  /\ UNCHANGED <<running, streamVars, visitVars, ticks, month, rowVars, before>>

-----------------------------------------------------------------------------
(* Database.close(), by the main thread.                                   *)

BeginClose ==
  /\ main = "running"
  /\ main' = "waiting"
  /\ before' = [ticks |-> IF storing THEN arrived - 1 ELSE arrived,
                rows |-> stored]
  /\ UNCHANGED <<running, db, streamVars, visitVars, ticks, fileVars,
                 flushVars, rowVars, failed>>

(* "wait until all insertions": until no row is pending.                   *)
Waited ==
  /\ main = "waiting" /\ rows = <<>>
  /\ main' = "stopping"
  /\ UNCHANGED <<running, db, streamVars, visitVars, ticks, fileVars,
                 flushVars, rowVars, before, failed>>

StopForgotten ==
  /\ main = "stopping"
  /\ main' = "joining"
  /\ UNCHANGED <<running, db, streamVars, visitVars, ticks, fileVars,
                 flushVars, rowVars, before, failed>>
Stop ==
  /\ main = "stopping"
  /\ main' = "joining" /\ running' = FALSE
  /\ UNCHANGED <<db, streamVars, visitVars, ticks, fileVars, flushVars,
                 rowVars, before, failed>>

(* join(), then flush(force=True), and close() for what is left open.      *)
LastFlushUnforced ==
  /\ main = "joining" /\ db \in {"ended", "dead"}
  /\ IF ticks = <<>> \/ recent
     THEN main' = "closed" /\ open' = Closed /\ UNCHANGED <<ticks, batch, written>>
     ELSE Copy /\ main' = "flush" /\ UNCHANGED open
  /\ UNCHANGED <<running, db, streamVars, visitVars, month, files, recent,
                 rowVars, before, failed>>
LastFlush ==
  /\ main = "joining" /\ db \in {"ended", "dead"}
  /\ IF ticks = <<>>
     THEN main' = "closed" /\ open' = Closed /\ UNCHANGED <<ticks, batch, written>>
     ELSE Copy /\ main' = "flush" /\ UNCHANGED open
  /\ UNCHANGED <<running, db, streamVars, visitVars, month, files, recent,
                 rowVars, before, failed>>

StreamNext == Arrive \/ Store \/ StoreRow \/ Minute
FlushNext == WriteTick \/ WriteFails \/ EndFlush \/ CloseFails
DbNext == Leave \/ TakeRows \/ Insert \/ InsertFails \/ TakeVisits \/ Visit
            \/ Visited
CloseNext == Waited \/ Stop \/ LastFlush

Next == StreamNext \/ DbNext \/ FlushNext \/ BeginClose \/ CloseNext

Spec == Init /\ [][Next]_vars

(* The three loops are run by threads that nothing else blocks: the locks  *)
(* are held for a few statements only.                                     *)
FairSpec ==
  /\ Spec
  /\ WF_vars(DbNext) /\ WF_vars(FlushNext) /\ WF_vars(CloseNext)

-----------------------------------------------------------------------------
TypeOK ==
  /\ main \in {"running", "waiting", "stopping", "joining", "flush", "closed",
              "raised"}
  /\ running \in BOOLEAN
  /\ db \in {"loop", "insert", "ticks", "visit", "flush", "ended", "dead"}
  /\ arrived \in 0..MaxTicks /\ storing \in BOOLEAN
  /\ pending \in Nat /\ visits \in Nat
  /\ ticks \in Seq(1..MaxTicks) /\ batch \in Seq(1..MaxTicks)
  /\ written \in 0..Len(batch)
  /\ month \in Months \union {0} /\ open \in [Formats -> Months \union {0}]
  /\ files \in [Formats -> [Months -> Seq(1..MaxTicks)]]
  /\ recent \in BOOLEAN
  /\ rows \in Seq(1..MaxRows) /\ inserting \in Seq(1..MaxRows)
  /\ table \in 0..MaxRows /\ stored \in 0..MaxRows
  /\ before \in [ticks : 0..MaxTicks, rows : 0..MaxRows]
  /\ failed \subseteq Faults

Unfailed(kinds) == failed \intersect kinds = {}

(* Every file holds the ticks of its own month only, each once and in the  *)
(* order they were stored (TickStorage.flush: the month change of the      *)
(* handles, the copy that two flushes never share), as long as no handle   *)
(* failed to write or to close.                                            *)
TicksOnce ==
  Unfailed({"write", "close"}) =>
    \A f \in Formats, m \in Months :
      LET s == files[f][m] IN
      /\ \A i \in DOMAIN s : MonthOf(s[i]) = m
      /\ \A i, j \in DOMAIN s : i < j => s[i] < s[j]

(* The ticks the storage was given, and where each of them may be.         *)
Given == 1..(IF storing THEN arrived - 1 ELSE arrived)
Filed(f) == {t \in Given : \E m \in Months :
               \E i \in DOMAIN files[f][m] : files[f][m][i] = t}
Held == {t \in Given :
           \/ \E i \in DOMAIN ticks : ticks[i] = t
           \/ \E i \in DOMAIN batch : i > written /\ batch[i] = t}

(* Between the two threads and the copy of flush(), no tick is lost: each  *)
(* is in memory, or in both files (store, flush; the interleaving of the   *)
(* stream thread with the copy and the clear), as long as every file       *)
(* could be opened, written and closed.                                    *)
NothingLost ==
  Unfailed({"open", "write", "close"}) =>
    \A f \in Formats : Given = Filed(f) \union Held

(* When close() returns, what was stored before it was called is in the    *)
(* files, if they could be opened, written and closed, and in the table,   *)
(* if no insertion failed: the throttle, the visits lost between the two   *)
(* lists and the row that is being inserted are all made up for.           *)
SavedAtClose ==
  main = "closed" =>
    /\ Unfailed({"open", "write", "close"}) =>
         \A f \in Formats : 1..before.ticks \subseteq Filed(f)
    /\ Unfailed({"insert"}) => table >= before.rows

(* When no row is pending nor being inserted, the table holds the last one *)
(* stored: a failed batch goes back before the rows that came meanwhile    *)
(* (the MySql connector; that of PgSql inserts some of the rows only).     *)
LatestRow == rows = <<>> /\ inserting = <<>> => table = stored

(* close() comes to an end, if insertions do not fail for ever: whatever   *)
(* the db thread was doing, except that it ended on a handle that could    *)
(* not be closed and left a row pending, for which close() waits for ever. *)
CloseReturns ==
  <>[][~InsertFails]_vars =>
    (main = "waiting" ~> \/ main \in {"closed", "raised"}
                         \/ db = "dead" /\ rows # <<>>)

(* "retry the next time" (tickdb.py:141): a tick of a flush whose write    *)
(* failed, or stored meanwhile, is still to be written or in both files.   *)
RetryLosesNothing ==
  Unfailed({"open"}) => \A f \in Formats : Given = Filed(f) \union Held
=============================================================================
