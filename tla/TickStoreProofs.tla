-------------------------- MODULE TickStoreProofs ---------------------------
(***************************************************************************)
(* Proofs about the storage of the Python connector, for any number of     *)
(* ticks, rows and failures.                                               *)
(***************************************************************************)
EXTENDS TickStore, SequenceTheorems, TLAPS

(* The month of a tick is never the 0 of a closed handle.                  *)
LEMMA MonthsPositive ==
  ASSUME NEW t \in 1..MaxTicks
  PROVE  MonthOf(t) \in Months /\ MonthOf(t) # 0
<1>1. MonthOf(t) \in Months
  BY DEF Months
<1>2. t - 1 \in Nat
  BY StoreAssumption
<1>3. (t - 1) \div PerMonth \in Nat
  BY <1>2, StoreAssumption
<1> QED
  BY <1>1, <1>3 DEF MonthOf

-----------------------------------------------------------------------------
(* The last row stored is the last one of whatever list it is in.          *)
RowsInv ==
  /\ rows # <<>> => Last(rows) = stored
  /\ rows = <<>> /\ inserting # <<>> => Last(inserting) = stored
  /\ rows = <<>> /\ inserting = <<>> => table = stored
  /\ db = "insert" <=> inserting # <<>>

(* Only the db thread flushes, or the main thread once it has ended, and   *)
(* no handle is open between two flushes unless one could not be closed.   *)
FlushInv ==
  /\ main \in {"flush", "closed", "raised"} => db \in {"ended", "dead"}
  /\ ~Flushing => batch = <<>> /\ written = 0
  /\ written = 0 /\ Unfailed({"write", "close"}) => open = Closed
  /\ storing => arrived # 0

StoreInv == TypeOK /\ RowsInv /\ FlushInv

USE StoreAssumption

LEMMA InitStore == Init => StoreInv
<1> SUFFICES ASSUME Init PROVE StoreInv
  OBVIOUS
<1>1. TypeOK
  <2>1. <<>> \in Seq(1..MaxTicks) /\ <<>> \in Seq(1..MaxRows)
    OBVIOUS
  <2> QED
    <3>1. files \in [Formats -> [Months -> Seq(1..MaxTicks)]]
      BY <2>1 DEF Init
    <3>2. open \in [Formats -> Months \union {0}]
      BY DEF Init, Closed
    <3>3. written \in 0..Len(batch)
      BY DEF Init
    <3>4. before \in [ticks : 0..MaxTicks, rows : 0..MaxRows]
      BY DEF Init
    <3> QED
      BY <2>1, <3>1, <3>2, <3>3, <3>4 DEF Init, TypeOK
<1>2. RowsInv /\ FlushInv
  BY DEF Init, RowsInv, FlushInv, Flushing, Unfailed
<1> QED
  BY <1>1, <1>2 DEF StoreInv

(* A tick that is being written, the handles and what the files become.    *)
LEMMA HandlesType ==
  ASSUME TypeOK, written < Len(batch), NEW unopened
  PROVE  /\ batch[written + 1] \in 1..MaxTicks
         /\ Handles(MonthOf(batch[written + 1]), unopened)
              \in [Formats -> Months \union {0}]
<1>1. batch[written + 1] \in 1..MaxTicks
  BY DEF TypeOK
<1>2. MonthOf(batch[written + 1]) \in Months
  BY <1>1, MonthsPositive
<1>3. Closed \in [Formats -> Months \union {0}]
  BY DEF Closed
<1> QED
  BY <1>1, <1>2, <1>3 DEF Handles, TypeOK

LEMMA AppendedType ==
  ASSUME TypeOK, NEW f \in Formats, NEW tick \in 1..MaxTicks,
         NEW handles \in [Formats -> Months \union {0}]
  PROVE  Appended(f, tick, handles) \in [Months -> Seq(1..MaxTicks)]
<1>1. files[f] \in [Months -> Seq(1..MaxTicks)]
  BY DEF TypeOK
<1>2. CASE handles[f] = 0
  BY <1>1, <1>2 DEF Appended
<1>3. CASE handles[f] # 0
  <2>1. handles[f] \in Months
    BY <1>3
  <2>2. Append(files[f][handles[f]], tick) \in Seq(1..MaxTicks)
    BY <1>1, <2>1
  <2> QED
    BY <1>1, <1>3, <2>1, <2>2 DEF Appended
<1> QED
  BY <1>2, <1>3

(* Whatever a file has lost, it has lost at its end.                       *)
LEMMA KeptType ==
  ASSUME TypeOK, NEW f \in Formats, NEW h \in Months \union {0},
         NEW kept \in Kept(f, h)
  PROVE  kept \in [Months -> Seq(1..MaxTicks)]
<1>1. files[f] \in [Months -> Seq(1..MaxTicks)]
  BY DEF TypeOK
<1>2. CASE h = 0
  BY <1>1, <1>2 DEF Kept
<1>3. CASE h # 0
  <2>1. PICK k \in 0..Len(files[f][h]) :
          kept = [files[f] EXCEPT ![h] = SubSeq(files[f][h], 1, k)]
    BY <1>3 DEF Kept
  <2>2. files[f][h] \in Seq(1..MaxTicks)
    BY <1>1, <1>3
  <2>3. SubSeq(files[f][h], 1, k) \in Seq(1..MaxTicks)
    BY <2>2, SubSeqProperties
  <2> QED
    BY <1>1, <2>1, <2>3
<1> QED
  BY <1>2, <1>3

(* A failure is never forgotten.                                           *)
LEMMA FailuresStay ==
  ASSUME [Next]_vars, NEW kinds, Unfailed(kinds)'
  PROVE  Unfailed(kinds)
<1>1. failed \subseteq failed'
  BY DEF Next, StreamNext, DbNext, FlushNext, CloseNext, Arrive, Store, StoreRow,
     Minute, Leave, TakeRows, Insert, InsertFails, TakeVisits, Visit, Visited,
     WriteTick, WriteFails, EndFlush, Flushed, CloseFails, BeginClose, Waited, Stop, LastFlush,
     Fault, vars
<1> QED
  BY <1>1 DEF Unfailed

(* A flush that does not reach its end has failed, or an earlier one has.  *)
LEMMA FileFailure ==
  ASSUME FlushInv, WriteFails \/ CloseFails, NEW kinds,
         {"write", "close"} \subseteq kinds
  PROVE  ~Unfailed(kinds)'
<1>1. CASE WriteFails
  <2>1. CASE Leftover
    <3>1. ~Unfailed({"write", "close"})
      BY <2>1 DEF FlushInv, Leftover
    <3>2. failed' = failed
      BY <1>1, <2>1 DEF WriteFails
    <3> QED
      BY <3>1, <3>2 DEF Unfailed
  <2>2. CASE ~Leftover
    BY <1>1, <2>2 DEF WriteFails, Fault, Unfailed
  <2> QED
    BY <2>1, <2>2
<1>2. CASE CloseFails
  BY <1>2 DEF CloseFails, Fault, Unfailed
<1> QED
  BY <1>1, <1>2

LEMMA StepTypes == ASSUME TypeOK, RowsInv, FlushInv, Next PROVE TypeOK'
<1> USE DEF TypeOK
<1>1. CASE Arrive
  BY <1>1 DEF Arrive, threads, fileVars, flushVars, rowVars
<1>2. CASE Store
  <2>1. arrived \in 1..MaxTicks
    BY <1>2 DEF Store, FlushInv
  <2>2. ticks' \in Seq(1..MaxTicks)
    BY <1>2, <2>1 DEF Store
  <2> QED
    BY <1>2, <2>2 DEF Store, threads, visitVars, fileVars, flushVars, rowVars
<1>3. CASE StoreRow
  BY <1>3 DEF StoreRow, threads, streamVars, visitVars, fileVars, flushVars
<1>4. CASE Minute
  BY <1>4 DEF Minute, threads, streamVars, visitVars, fileVars, rowVars
<1>5. CASE Leave
  BY <1>5 DEF Leave, streamVars, visitVars, fileVars, flushVars, rowVars
<1>6. CASE TakeRows
  BY <1>6 DEF TakeRows, streamVars, visitVars, fileVars, flushVars
<1>7. CASE Insert
  <2>1. Last(inserting) \in 1..MaxRows
    <3>1. inserting \in Seq(1..MaxRows) /\ inserting # <<>>
      BY <1>7 DEF Insert, RowsInv
    <3> HIDE DEF TypeOK
    <3> QED
      BY <3>1 DEF Last
  <2> QED
    BY <1>7, <2>1 DEF Insert, streamVars, visitVars, fileVars, flushVars
<1>8. CASE InsertFails
  <2>1. table' \in 0..MaxRows
    <3>1. PICK n \in 0..Len(inserting) : table' = IF n = 0 THEN table ELSE inserting[n]
      BY <1>8 DEF InsertFails
    <3>2. table \in 0..MaxRows /\ MaxRows \in Nat /\ inserting \in Seq(1..MaxRows)
      BY StoreAssumption
    <3> HIDE DEF TypeOK
    <3>3. n # 0 => inserting[n] \in 1..MaxRows
      BY <3>2
    <3>4. n # 0 => inserting[n] \in 0..MaxRows
      BY <3>2, <3>3
    <3> QED
      BY <3>1, <3>2, <3>4
  <2>2. rows' \in Seq(1..MaxRows)
    BY <1>8 DEF InsertFails, PutBack
  <2> QED
    BY <1>8, <2>1, <2>2 DEF InsertFails, Fault, streamVars, visitVars, fileVars,
       flushVars
<1>9. CASE TakeVisits
  BY <1>9 DEF TakeVisits, streamVars, fileVars, flushVars, rowVars
<1>10. CASE Visit
  <2>1. 0 \in 0..Len(ticks) /\ <<>> \in Seq(1..MaxTicks)
    OBVIOUS
  <2>2. CASE ticks = <<>> \/ recent
    BY <1>10, <2>2 DEF Visit, streamVars, fileVars, rowVars
  <2>3. CASE ~(ticks = <<>> \/ recent)
    BY <1>10, <2>1, <2>3 DEF Visit, Copy, streamVars, fileVars, rowVars
  <2> QED
    BY <2>2, <2>3
<1>11. CASE Visited
  BY <1>11 DEF Visited, streamVars, visitVars, fileVars, flushVars, rowVars
<1>12. CASE WriteTick
  <2>1. batch[written + 1] \in 1..MaxTicks
    BY <1>12, HandlesType DEF WriteTick
  <2>2. open' \in [Formats -> Months \union {0}]
    BY <1>12, HandlesType DEF WriteTick
  <2>3. files' \in [Formats -> [Months -> Seq(1..MaxTicks)]]
    BY <1>12, <2>1, <2>2, AppendedType DEF WriteTick
  <2>4. month' \in Months /\ failed' \subseteq Faults
    BY <1>12, <2>1, MonthsPositive DEF WriteTick, Fault
  <2>5. written' \in 0..Len(batch')
    BY <1>12 DEF WriteTick
  <2> QED
    BY <1>12, <2>2, <2>3, <2>4, <2>5
       DEF WriteTick, threads, streamVars, visitVars, rowVars
<1>13. CASE WriteFails
  <2> DEFINE tick == batch[written + 1]
  <2>1. tick \in 1..MaxTicks
    BY <1>13, HandlesType DEF WriteFails
  <2>2. Handles(MonthOf(tick), {}) \in [Formats -> Months \union {0}]
    BY <1>13, HandlesType DEF WriteFails
  <2>3. /\ files' \in [Formats -> [Months -> Seq(1..MaxTicks)]]
        /\ open' \in [Formats -> Months \union {0}]
        /\ month' \in Months \union {0}
    <3>1. "text" \in Formats /\ "binary" \in Formats
      BY DEF Formats
    <3>2. CASE MonthCloseFails
      <4>1. PICK text \in Kept("text", open["text"]),
                 binary \in Kept("binary", open["binary"]) :
              files' = [f \in Formats |-> IF f = "text" THEN text ELSE binary]
        BY <3>2 DEF MonthCloseFails
      <4>2. /\ text \in [Months -> Seq(1..MaxTicks)]
            /\ binary \in [Months -> Seq(1..MaxTicks)]
        <5>1. open["text"] \in Months \union {0} /\ open["binary"] \in Months \union {0}
          BY <3>1
        <5> QED
          BY <3>1, <5>1, KeptType
      <4> QED
        BY <3>2, <4>1, <4>2 DEF MonthCloseFails
    <3>3. CASE TickFails
      <4> DEFINE row == IF Leftover /\ open["text"] # 0 THEN files["text"]
                        ELSE Appended("text", tick, open')
      <4>1. PICK text \in Kept("text", open'["text"]) \union {row},
                 binary \in Kept("binary", open'["binary"]) :
              files' = [f \in Formats |-> IF f = "text" THEN text ELSE binary]
        BY <3>3 DEF TickFails
      <4>2. open' \in [Formats -> Months \union {0}] /\ month' \in Months
        BY <2>1, <2>2, <3>3, MonthsPositive DEF TickFails
      <4>3. row \in [Months -> Seq(1..MaxTicks)]
        <5>1. Appended("text", tick, open') \in [Months -> Seq(1..MaxTicks)]
          BY <2>1, <3>1, <4>2, AppendedType
        <5> QED
          BY <3>1, <5>1
      <4>4. /\ text \in [Months -> Seq(1..MaxTicks)]
            /\ binary \in [Months -> Seq(1..MaxTicks)]
        <5>1. open'["text"] \in Months \union {0} /\ open'["binary"] \in Months \union {0}
          BY <3>1, <4>2
        <5>2. \A kept \in Kept("text", open'["text"]) : kept \in [Months -> Seq(1..MaxTicks)]
          BY <3>1, <5>1, KeptType
        <5>3. \A kept \in Kept("binary", open'["binary"]) : kept \in [Months -> Seq(1..MaxTicks)]
          BY <3>1, <5>1, KeptType
        <5> QED
          BY <4>3, <5>2, <5>3
      <4> QED
        BY <4>1, <4>2, <4>4
    <3> QED
      BY <1>13, <3>2, <3>3 DEF WriteFails
  <2>4. failed' \subseteq Faults
    BY <1>13 DEF WriteFails, Fault
  <2>5. ticks' \in Seq(1..MaxTicks)
    <3>1. /\ ticks \in Seq(1..MaxTicks) /\ batch \in Seq(1..MaxTicks)
          /\ written + 1 \in 1..(Len(ticks) + 1) \/ written + 1 > Len(ticks)
      OBVIOUS
    <3>2. ticks' = batch \o SubSeq(ticks, written + 1, Len(ticks))
      BY <1>13 DEF WriteFails
    <3>3. written + 1 \in Nat \ {0}
      OBVIOUS
    <3> HIDE DEF TypeOK
    <3>4. SubSeq(ticks, written + 1, Len(ticks)) \in Seq(1..MaxTicks)
      BY <3>1, <3>3, SubSeqProperties
    <3> QED
      BY <3>1, <3>2, <3>4
  <2>6. batch' \in Seq(1..MaxTicks) /\ written' \in 0..Len(batch')
    <3>1. batch' = <<>> /\ written' = 0
      BY <1>13 DEF WriteFails
    <3> HIDE DEF TypeOK
    <3> QED
      BY <3>1
  <2>7. UNCHANGED <<main, running, db, arrived, storing, pending, visits, recent,
                    rows, inserting, table, stored, before>>
    BY <1>13 DEF WriteFails, threads, streamVars, visitVars, rowVars
  <2> HIDE DEF TypeOK
  <2> QED
    BY <2>3, <2>4, <2>5, <2>6, <2>7 DEF TypeOK
<1>14. CASE EndFlush
  BY <1>14 DEF EndFlush, Flushed, Closed, streamVars, visitVars, rowVars
<1>15. CASE CloseFails
  <2>1. PICK f \in Formats :
          /\ open[f] # 0
          /\ \E kept \in Kept(f, open[f]) : files' = [files EXCEPT ![f] = kept]
          /\ open' = IF f = "text" THEN open ELSE [open EXCEPT !["text"] = 0]
    BY <1>15 DEF CloseFails
  <2>2. files' \in [Formats -> [Months -> Seq(1..MaxTicks)]]
    BY <2>1, KeptType
  <2>3. open' \in [Formats -> Months \union {0}]
    BY <2>1
  <2>4. failed' \subseteq Faults
    BY <1>15 DEF CloseFails, Fault
  <2> QED
    BY <1>15, <2>2, <2>3, <2>4
       DEF CloseFails, streamVars, visitVars, rowVars
<1>16. CASE BeginClose
  BY <1>16 DEF BeginClose, streamVars, visitVars, fileVars, flushVars, rowVars,
     FlushInv
<1>17. CASE Waited
  BY <1>17 DEF Waited, streamVars, visitVars, fileVars, flushVars, rowVars
<1>18. CASE Stop
  BY <1>18 DEF Stop, streamVars, visitVars, fileVars, flushVars, rowVars
<1>19. CASE LastFlush
  <2>1. 0 \in 0..Len(ticks) /\ <<>> \in Seq(1..MaxTicks)
    OBVIOUS
  <2>2. CASE ticks = <<>>
    BY <1>19, <2>2 DEF LastFlush, Closed, streamVars, visitVars, rowVars
  <2>3. CASE ticks # <<>>
    BY <1>19, <2>1, <2>3 DEF LastFlush, Copy, streamVars, visitVars, rowVars
  <2> QED
    BY <2>2, <2>3
<1> QED
  BY <1>1, <1>2, <1>3, <1>4, <1>5, <1>6, <1>7, <1>8, <1>9, <1>10, <1>11,
     <1>12, <1>13, <1>14, <1>15, <1>16, <1>17, <1>18, <1>19
     DEF Next, StreamNext, DbNext, FlushNext, CloseNext

LEMMA StepRows == ASSUME TypeOK, RowsInv, Next PROVE RowsInv'
<1> USE DEF RowsInv
<1>1. CASE UNCHANGED rowVars /\ (db' = "insert" <=> db = "insert")
  BY <1>1 DEF rowVars, Last
<1>2. CASE StoreRow
  <2>1. rows' # <<>> /\ Last(rows') = stored + 1
    <3>1. rows \in Seq(1..MaxRows) /\ stored + 1 \in 1..MaxRows
      BY <1>2 DEF StoreRow, TypeOK
    <3>2. rows' = Append(rows, stored + 1)
      BY <1>2 DEF StoreRow
    <3>3. Len(rows') = Len(rows) + 1 /\ rows'[Len(rows) + 1] = stored + 1
      BY <3>1, <3>2
    <3>4. Len(rows) \in Nat
      BY <3>1
    <3> QED
      BY <3>3, <3>4 DEF Last
  <2> QED
    <3>1. db' = db /\ inserting' = inserting /\ stored' = stored + 1
      BY <1>2 DEF StoreRow, threads
    <3>2. Last(rows)' = stored'
      BY <2>1, <3>1 DEF Last
    <3> QED
      BY <2>1, <3>1, <3>2
<1>3. CASE TakeRows
  BY <1>3 DEF TakeRows
<1>4. CASE Insert
  BY <1>4 DEF Insert
<1>5. CASE InsertFails
  <2>1. inserting # <<>>
    BY <1>5 DEF InsertFails
  <2>2. rows' # <<>> /\ (rows # <<>> => Last(rows') = Last(rows))
         /\ (rows = <<>> => Last(rows') = Last(inserting))
    <3>1. rows \in Seq(1..MaxRows) /\ inserting \in Seq(1..MaxRows)
      BY DEF TypeOK
    <3>2. rows' = inserting \o rows
      BY <1>5 DEF InsertFails, PutBack
    <3>3. /\ Len(rows') = Len(inserting) + Len(rows)
          /\ \A i \in 1..Len(rows') :
               rows'[i] = IF i <= Len(inserting) THEN inserting[i]
                          ELSE rows[i - Len(inserting)]
      BY <3>1, <3>2, ConcatProperties
    <3>4. Len(inserting) \in Nat \ {0} /\ Len(rows) \in Nat
          /\ (rows # <<>> => Len(rows) # 0)
      BY <2>1, <3>1
    <3> QED
      BY <3>3, <3>4 DEF Last
  <2> QED
    <3>1. db' # "insert" /\ inserting' = <<>> /\ stored' = stored
      BY <1>5 DEF InsertFails
    <3>2. Last(rows)' = stored'
      BY <2>1, <2>2, <3>1 DEF Last
    <3> QED
      BY <2>2, <3>1, <3>2
<1>6. CASE Leave \/ TakeVisits \/ Visit \/ Visited
  BY <1>1, <1>6 DEF Leave, TakeVisits, Visit, Visited
<1>7. CASE Arrive \/ Store \/ Minute \/ BeginClose \/ CloseNext
  BY <1>1, <1>7 DEF Arrive, Store, Minute, BeginClose, CloseNext, Waited, Stop,
     LastFlush, threads
<1>8. CASE FlushNext
  <2>1. CASE WriteTick
    BY <1>1, <2>1 DEF WriteTick, threads
  <2>2. CASE WriteFails
    BY <1>1, <2>2 DEF WriteFails, threads
  <2>3. CASE EndFlush
    BY <1>1, <2>3 DEF EndFlush, Flushed
  <2>4. CASE CloseFails
    BY <1>1, <2>4 DEF CloseFails
  <2> QED
    BY <1>8, <2>1, <2>2, <2>3, <2>4 DEF FlushNext
<1> QED
  BY <1>2, <1>3, <1>4, <1>5, <1>6, <1>7, <1>8 DEF Next, StreamNext, DbNext

LEMMA StepFlush == ASSUME TypeOK, FlushInv, Next PROVE FlushInv'
<1>1. /\ main' \in {"flush", "closed", "raised"} => db' \in {"ended", "dead"}
      /\ ~Flushing' => batch' = <<>> /\ written' = 0
      /\ storing' => arrived' # 0
  <2> USE DEF FlushInv, Flushing
  <2>0. CASE Arrive
    <3>1. arrived \in Nat /\ arrived' = arrived + 1
      BY <2>0 DEF Arrive, TypeOK
    <3> QED
      BY <2>0, <3>1 DEF Arrive, threads, flushVars
  <2>1. CASE Store \/ StoreRow \/ Minute
    BY <2>1 DEF Store, StoreRow, Minute, threads, flushVars, streamVars
  <2>2. CASE Leave \/ TakeRows \/ Insert \/ InsertFails \/ TakeVisits \/ Visited
    BY <2>2 DEF Leave, TakeRows, Insert, InsertFails, TakeVisits, Visited,
       flushVars, streamVars
  <2>3. CASE Visit
    BY <2>3 DEF Visit, Copy, streamVars
  <2>4. CASE WriteTick \/ WriteFails
    BY <2>4 DEF WriteTick, WriteFails, threads, streamVars
  <2>5. CASE EndFlush \/ CloseFails
    BY <2>5 DEF EndFlush, Flushed, CloseFails, streamVars
  <2>6. CASE BeginClose \/ Waited \/ Stop
    BY <2>6 DEF BeginClose, Waited, Stop, flushVars, streamVars
  <2>7. CASE LastFlush
    BY <2>7 DEF LastFlush, Copy, streamVars
  <2> QED
    BY <2>0, <2>1, <2>2, <2>3, <2>4, <2>5, <2>6, <2>7
       DEF Next, StreamNext, DbNext, FlushNext, CloseNext
<1>2. ASSUME written' = 0, Unfailed({"write", "close"})' PROVE open' = Closed
  <2>1. written = 0 => open = Closed
    <3>1. Unfailed({"write", "close"})
      BY <1>2, FailuresStay
    <3> QED
      BY <3>1 DEF FlushInv
  <2>2. CASE UNCHANGED <<open, written>>
    BY <1>2, <2>1, <2>2
  <2>3. CASE Visit \/ LastFlush
    <3>1. written = 0
      BY <2>3 DEF Visit, LastFlush, FlushInv, Flushing
    <3> QED
      BY <2>1, <2>3, <3>1 DEF Visit, LastFlush, fileVars
  <2>4. CASE WriteTick
    BY <1>2, <2>4 DEF WriteTick, TypeOK
  <2>5. CASE WriteFails \/ CloseFails
    BY <1>2, <2>5, FileFailure
  <2>6. CASE EndFlush
    BY <2>6 DEF EndFlush, Flushed
  <2> QED
    BY <2>2, <2>3, <2>4, <2>5, <2>6
       DEF Next, StreamNext, DbNext, FlushNext, CloseNext, Arrive, Store, StoreRow,
       Minute, Leave, TakeRows, Insert, InsertFails, TakeVisits, Visited,
       BeginClose, Waited, Stop, fileVars, flushVars
<1> QED
  BY <1>1, <1>2 DEF FlushInv

LEMMA StoreInvariant == Spec => []StoreInv
<1>1. StoreInv /\ [Next]_vars => StoreInv'
  <2> SUFFICES ASSUME StoreInv, [Next]_vars PROVE StoreInv'
    OBVIOUS
  <2>1. CASE Next
    BY <2>1, StepTypes, StepRows, StepFlush DEF StoreInv
  <2>2. CASE UNCHANGED vars
    <3>1. TypeOK'
      BY <2>2 DEF vars, threads, streamVars, visitVars, fileVars, flushVars,
         rowVars, StoreInv, TypeOK
    <3>2. RowsInv'
      BY <2>2 DEF vars, threads, rowVars, StoreInv, RowsInv, Last
    <3>3. FlushInv'
      BY <2>2 DEF vars, threads, streamVars, fileVars, flushVars, StoreInv,
         FlushInv, Flushing, Unfailed
    <3> QED
      BY <3>1, <3>2, <3>3 DEF StoreInv
  <2> QED
    BY <2>1, <2>2
<1> QED
  BY InitStore, <1>1, PTL DEF Spec

(* The state of the storage is well typed.                                 *)
THEOREM StoreTypes == Spec => []TypeOK
<1>1. StoreInv => TypeOK
  BY DEF StoreInv
<1> QED
  BY StoreInvariant, <1>1, PTL

(* A failed insertion never lets an older row win over a newer one         *)
(* (process_market(), mki + self._pending_market_info_insert).             *)
THEOREM LatestRowWins == Spec => []LatestRow
<1>1. StoreInv => LatestRow
  BY DEF StoreInv, RowsInv, LatestRow
<1> QED
  BY StoreInvariant, <1>1, PTL

-----------------------------------------------------------------------------
(* A tick of the files stays there.                                        *)
LEMMA FiledStays ==
  ASSUME TypeOK, NEW f \in Formats, NEW tick \in 1..MaxTicks,
         NEW handles \in [Formats -> Months \union {0}],
         files'[f] = Appended(f, tick, handles),
         UNCHANGED <<arrived, storing>>
  PROVE  /\ Filed(f) \subseteq Filed(f)'
         /\ handles[f] # 0 /\ tick \in Given => tick \in Filed(f)'
<1>1. Given' = Given
  BY DEF Given
<1>2. CASE handles[f] = 0
  BY <1>1, <1>2 DEF Appended, Filed
<1>3. CASE handles[f] # 0
  <2> DEFINE h == handles[f]
  <2>1. h \in Months /\ files[f] \in [Months -> Seq(1..MaxTicks)]
    BY <1>3 DEF TypeOK
  <2>2. files'[f] = [files[f] EXCEPT ![h] = Append(files[f][h], tick)]
    BY <1>3 DEF Appended
  <2>3. files'[f][h] = Append(files[f][h], tick)
         /\ \A m \in Months \ {h} : files'[f][m] = files[f][m]
    BY <2>1, <2>2
  <2>4. files[f][h] \in Seq(1..MaxTicks)
    BY <2>1
  <2>5. /\ DOMAIN files'[f][h] = 1..(Len(files[f][h]) + 1)
        /\ files'[f][h][Len(files[f][h]) + 1] = tick
        /\ \A i \in DOMAIN files[f][h] : i \in DOMAIN files'[f][h]
              /\ files'[f][h][i] = files[f][h][i]
    BY <2>3, <2>4
  <2>6. Len(files[f][h]) + 1 \in DOMAIN files'[f][h]
    BY <2>4, <2>5
  <2>7. ASSUME NEW t \in Filed(f) PROVE t \in Filed(f)'
    <3>1. PICK m \in Months : \E i \in DOMAIN files[f][m] : files[f][m][i] = t
      BY <2>7 DEF Filed
    <3>2. PICK i \in DOMAIN files[f][m] : files[f][m][i] = t
      BY <3>1
    <3>3. i \in DOMAIN files'[f][m] /\ files'[f][m][i] = t
      <4>1. CASE m = h
        BY <2>5, <3>2, <4>1
      <4>2. CASE m # h
        BY <2>3, <3>2, <4>2
      <4> QED
        BY <4>1, <4>2
    <3>4. t \in Given'
      BY <1>1, <2>7 DEF Filed
    <3> QED
      BY <3>3, <3>4 DEF Filed
  <2>8. ASSUME tick \in Given PROVE tick \in Filed(f)'
    <3>1. tick \in Given'
      BY <1>1, <2>8
    <3> QED
      BY <2>1, <2>5, <2>6, <3>1 DEF Filed
  <2> QED
    BY <2>7, <2>8
<1> QED
  BY <1>2, <1>3

(* When no file failed to open, a tick that is written is in both.         *)
LEMMA WriteTickFiles ==
  ASSUME StoreInv, WriteTick, Unfailed({"open", "write", "close"})'
  PROVE  /\ Unfailed({"open", "write", "close"})
         /\ Given' = Given
         /\ \A f \in Formats : Filed(f) \subseteq Filed(f)'
         /\ \A f \in Formats :
              batch[written + 1] \in Given => batch[written + 1] \in Filed(f)'
<1> DEFINE tick == batch[written + 1]
           m == MonthOf(tick)
<1>1. TypeOK /\ written < Len(batch) /\ UNCHANGED <<arrived, storing>>
  BY DEF StoreInv, WriteTick, streamVars
<1>2. PICK unopened \in SUBSET Formats :
        /\ IF unopened = {} THEN UNCHANGED failed ELSE Fault("open")
        /\ open' = Handles(m, unopened)
  BY DEF WriteTick
<1>3. unopened = {} /\ failed' = failed
  BY <1>2 DEF Fault, Unfailed
<1>4. tick \in 1..MaxTicks /\ open' \in [Formats -> Months \union {0}]
  BY <1>1, <1>2, HandlesType
<1>5. \A f \in Formats : open'[f] # 0
  <2>1. m # 0
    BY <1>4, MonthsPositive
  <2> QED
    BY <1>2, <1>3, <2>1 DEF Handles
<1>6. \A f \in Formats : files'[f] = Appended(f, tick, open')
  BY DEF WriteTick
<1>7. \A f \in Formats : Filed(f) \subseteq Filed(f)'
         /\ (tick \in Given => tick \in Filed(f)')
  <2> SUFFICES ASSUME NEW f \in Formats
               PROVE  /\ Filed(f) \subseteq Filed(f)'
                      /\ tick \in Given => tick \in Filed(f)'
    OBVIOUS
  <2> HIDE DEF tick
  <2>1. files'[f] = Appended(f, tick, open') /\ open'[f] # 0
    BY <1>5, <1>6
  <2> QED
    BY <1>1, <1>4, <2>1, FiledStays
<1>8. Given' = Given
  BY <1>1 DEF Given
<1> QED
  BY <1>3, <1>7, <1>8 DEF Unfailed

-----------------------------------------------------------------------------
(* A batch is only copied when there is no other, and a copied tick is     *)
(* still to be written.                                                    *)
LEMMA CopyHolds ==
  ASSUME TypeOK, batch = <<>>, Copy, UNCHANGED <<arrived, storing>>
  PROVE  Held \subseteq Held'
<1>1. Given' = Given
  BY DEF Given
<1>2. ASSUME NEW t \in Held PROVE t \in Held'
  <2>1. PICK i \in DOMAIN ticks : ticks[i] = t
    BY <1>2 DEF Held
  <2>2. i \in DOMAIN batch' /\ i > written' /\ batch'[i] = t
    BY <2>1 DEF Copy, TypeOK
  <2> QED
    BY <1>1, <1>2, <2>2 DEF Held
<1> QED
  BY <1>2

LEMMA StepNothingLost ==
  ASSUME StoreInv, NothingLost, [Next]_vars
  PROVE  NothingLost'
<1> SUFFICES ASSUME Unfailed({"open", "write", "close"})', NEW f \in Formats,
                    NEW t \in Given'
             PROVE  t \in Filed(f)' \/ t \in Held'
  BY DEF NothingLost, Filed, Held
<1>1. Unfailed({"open", "write", "close"})
  BY FailuresStay
<1>2. Given = Filed(f) \union Held
  BY <1>1 DEF NothingLost
<1> USE DEF StoreInv
<1>3. CASE UNCHANGED <<files, ticks, batch, written>> /\ Given' = Given
  BY <1>2, <1>3 DEF Filed, Held
<1>4. CASE Arrive
  <2>1. Given' = Given
    BY <1>4 DEF Arrive, Given, TypeOK
  <2> QED
    BY <1>3, <1>4, <2>1 DEF Arrive, fileVars, flushVars
<1>5. CASE Store
  <2>1. Given' = Given \union {arrived}
    <3>1. arrived \in Nat /\ arrived > 0 /\ storing /\ ~storing' /\ arrived' = arrived
      BY <1>5 DEF Store, TypeOK, FlushInv
    <3>2. Given = 1..(arrived - 1) /\ Given' = 1..arrived
      BY <3>1 DEF Given
    <3>3. \A x : x \in 1..arrived <=> x \in 1..(arrived - 1) \/ x = arrived
      BY <3>1
    <3> QED
      BY <3>2, <3>3
  <2>2. UNCHANGED <<files, batch, written>>
    BY <1>5 DEF Store, fileVars, flushVars
  <2>3. /\ DOMAIN ticks' = 1..(Len(ticks) + 1) /\ Len(ticks) \in Nat
        /\ ticks'[Len(ticks) + 1] = arrived
        /\ \A i \in DOMAIN ticks : i \in DOMAIN ticks' /\ ticks'[i] = ticks[i]
    <3>1. ticks \in Seq(1..MaxTicks) /\ arrived \in Nat
      BY DEF TypeOK
    <3>2. ticks' = Append(ticks, arrived)
      BY <1>5 DEF Store
    <3> QED
      BY <3>1, <3>2
  <2>4. CASE t = arrived
    <3>1. Len(ticks) + 1 \in DOMAIN ticks'
      BY <2>3
    <3> QED
      BY <2>3, <2>4, <3>1 DEF Held
  <2>5. CASE t \in Given
    BY <1>2, <2>1, <2>2, <2>3, <2>5 DEF Filed, Held
  <2> QED
    BY <2>1, <2>4, <2>5
<1>6. CASE StoreRow \/ Minute \/ BeginClose
  BY <1>3, <1>6 DEF StoreRow, Minute, BeginClose, Given, streamVars, fileVars,
     flushVars
<1>7. CASE Leave \/ TakeRows \/ Insert \/ InsertFails \/ TakeVisits \/ Visited
  BY <1>3, <1>7 DEF Leave, TakeRows, Insert, InsertFails, TakeVisits, Visited,
     Given, streamVars, fileVars, flushVars
<1>8. CASE Visit
  <2>1. Given' = Given /\ Filed(f)' = Filed(f)
    BY <1>8 DEF Visit, Given, Filed, streamVars, fileVars
  <2>2. CASE UNCHANGED <<ticks, batch, written>>
    BY <1>3, <1>8, <2>1, <2>2 DEF Visit, fileVars
  <2>3. CASE Copy
    <3>1. batch = <<>>
      BY <1>8 DEF Visit, FlushInv, Flushing
    <3>2. Held \subseteq Held'
      BY <1>8, <2>3, <3>1, CopyHolds DEF Visit, streamVars
    <3> QED
      BY <1>2, <2>1, <3>2
  <2> QED
    BY <1>8, <2>2, <2>3 DEF Visit
<1>9. CASE WriteTick
  <2>1. /\ Given' = Given /\ Filed(f) \subseteq Filed(f)'
        /\ batch[written + 1] \in Given => batch[written + 1] \in Filed(f)'
    BY <1>9, WriteTickFiles
  <2>2. UNCHANGED <<ticks, batch>> /\ written' = written + 1
    BY <1>9 DEF WriteTick
  <2>3. CASE t \in Filed(f)
    BY <2>1, <2>3
  <2>4. CASE \E i \in DOMAIN ticks : ticks[i] = t
    BY <2>2, <2>4 DEF Held
  <2>5. CASE \E i \in DOMAIN batch : i > written /\ batch[i] = t
    <3>1. PICK i \in DOMAIN batch : i > written /\ batch[i] = t
      BY <2>5
    <3>2. i = written + 1 \/ i > written + 1
      <4>1. i \in Int /\ written \in Int
        BY <3>1 DEF TypeOK
      <4> QED
        BY <3>1, <4>1
    <3> QED
      BY <2>1, <2>2, <3>1, <3>2 DEF Held
  <2> QED
    BY <1>2, <2>1, <2>3, <2>4, <2>5 DEF Held
<1>10. CASE WriteFails \/ CloseFails
  BY <1>10, FileFailure
<1>11. CASE EndFlush
  <2>1. Given' = Given /\ UNCHANGED <<files, ticks>>
    BY <1>11 DEF EndFlush, Flushed, Given, streamVars
  <2>2. ~\E i \in DOMAIN batch : i > written
    BY <1>11 DEF EndFlush, Flushed, TypeOK
  <2> QED
    BY <1>2, <2>1, <2>2 DEF Filed, Held
<1>12. CASE Waited \/ Stop
  BY <1>3, <1>12 DEF Waited, Stop, Given, streamVars, fileVars, flushVars
<1>13. CASE LastFlush
  <2>1. Given' = Given /\ Filed(f)' = Filed(f)
    BY <1>13 DEF LastFlush, Given, Filed, streamVars
  <2>2. CASE UNCHANGED <<ticks, batch, written>>
    BY <1>3, <1>13, <2>1, <2>2 DEF LastFlush
  <2>3. CASE Copy
    <3>1. batch = <<>>
      BY <1>13 DEF LastFlush, FlushInv, Flushing
    <3>2. Held \subseteq Held'
      BY <1>13, <2>3, <3>1, CopyHolds DEF LastFlush, streamVars
    <3> QED
      BY <1>2, <2>1, <3>2
  <2> QED
    BY <1>13, <2>2, <2>3 DEF LastFlush
<1>14. CASE UNCHANGED vars
  BY <1>3, <1>14 DEF vars, Given, streamVars, fileVars, flushVars
<1> QED
  BY <1>4, <1>5, <1>6, <1>7, <1>8, <1>9, <1>10, <1>11, <1>12, <1>13, <1>14
     DEF Next, StreamNext, DbNext, FlushNext, CloseNext

LEMMA InitNothingLost == Init => NothingLost
  BY DEF Init, NothingLost, Given, Filed, Held

(* Whatever the interleaving of the stream thread, the db thread and the   *)
(* closing thread, a tick given to the storage is in memory or in both     *)
(* files, unless a file operation failed (TickStorage.store and flush).    *)
THEOREM NoTickLost == Spec => []NothingLost
<1>1. StoreInv /\ NothingLost /\ [Next]_vars => NothingLost'
  BY StepNothingLost
<1> QED
  BY InitNothingLost, <1>1, StoreInvariant, PTL DEF Spec
-----------------------------------------------------------------------------
(* What close() has ensured so far: nothing stored before it can be in     *)
(* _ticks only once the last flush has begun, nor in the pending rows only *)
(* once it no longer waits for them.                                       *)
BeforeInv ==
  main # "running" => 1..before.ticks \subseteq Given /\ before.rows <= stored

Unwritten == {t \in Given : \E i \in DOMAIN batch : i > written /\ batch[i] = t}

TicksSaved ==
  Unfailed({"open", "write", "close"}) =>
    \A f \in Formats :
      /\ main = "flush" => 1..before.ticks \subseteq Filed(f) \union Unwritten
      /\ main = "closed" => 1..before.ticks \subseteq Filed(f)

RowsSaved ==
  Unfailed({"insert"}) /\ main \notin {"running", "waiting"} =>
    IF db = "insert" THEN Last(inserting) >= before.rows
                     ELSE table >= before.rows

LEMMA StepBefore ==
  ASSUME StoreInv, BeforeInv, [Next]_vars
  PROVE  BeforeInv'
<1> USE DEF BeforeInv, StoreInv
<1>1. Given \subseteq Given' /\ stored <= stored'
  <2>1. arrived \in Nat /\ stored \in Nat
    BY DEF TypeOK
  <2>2. CASE Arrive
    BY <2>1, <2>2 DEF Arrive, Given, rowVars
  <2>3. CASE Store
    BY <2>1, <2>3 DEF Store, Given, rowVars
  <2>4. CASE StoreRow
    BY <2>1, <2>4 DEF StoreRow, Given, streamVars
  <2>5. CASE UNCHANGED <<arrived, storing, stored>>
    BY <2>1, <2>5 DEF Given
  <2> QED
    BY <2>2, <2>3, <2>4, <2>5 DEF Next, StreamNext, DbNext, FlushNext,
       CloseNext, Minute, Leave, TakeRows, Insert, InsertFails, TakeVisits,
       Visit, Visited, WriteTick, WriteFails, EndFlush, Flushed, CloseFails, BeginClose,
       Waited, Stop, LastFlush, vars, streamVars, rowVars
<1>2. CASE BeginClose
  BY <1>2 DEF BeginClose, Given, TypeOK, streamVars, rowVars
<1>3. CASE before' = before /\ (main' # "running" => main # "running")
  <2>1. before.rows \in Nat /\ stored \in Nat /\ stored' \in Int
    BY StepTypes, <1>1 DEF TypeOK, Next, StreamNext, DbNext, FlushNext, vars,
       rowVars
  <2> QED
    BY <1>1, <1>3, <2>1
<1> QED
  BY <1>2, <1>3 DEF Next, StreamNext, DbNext, FlushNext, CloseNext, Arrive,
     Store, StoreRow, Minute, Leave, TakeRows, Insert, InsertFails, TakeVisits,
     Visit, Visited, WriteTick, WriteFails, EndFlush, Flushed, CloseFails, Waited, Stop,
     LastFlush, vars, threads

LEMMA StepTicksSaved ==
  ASSUME StoreInv, NothingLost, BeforeInv, TicksSaved, [Next]_vars
  PROVE  TicksSaved'
<1> SUFFICES ASSUME Unfailed({"open", "write", "close"})', NEW f \in Formats
             PROVE  /\ main' = "flush" =>
                         1..before'.ticks \subseteq Filed(f)' \union Unwritten'
                    /\ main' = "closed" => 1..before'.ticks \subseteq Filed(f)'
  BY DEF TicksSaved
<1>1. Unfailed({"open", "write", "close"})
  BY FailuresStay
<1>2. /\ main = "flush" => 1..before.ticks \subseteq Filed(f) \union Unwritten
      /\ main = "closed" => 1..before.ticks \subseteq Filed(f)
  BY <1>1 DEF TicksSaved
<1> USE DEF StoreInv
<1>3. Given \subseteq Given'
  <2>1. arrived \in Nat
    BY DEF TypeOK
  <2>2. CASE Arrive
    BY <2>1, <2>2 DEF Arrive, Given
  <2>3. CASE Store
    BY <2>1, <2>3 DEF Store, Given
  <2>4. CASE UNCHANGED <<arrived, storing>>
    BY <2>4 DEF Given
  <2> QED
    BY <2>2, <2>3, <2>4 DEF Next, StreamNext, DbNext, FlushNext, CloseNext,
       StoreRow, Minute, Leave, TakeRows, Insert, InsertFails, TakeVisits,
       Visit, Visited, WriteTick, WriteFails, EndFlush, Flushed, CloseFails, BeginClose,
       Waited, Stop, LastFlush, vars, streamVars
<1>4. CASE UNCHANGED <<files, batch, written, before>>
           /\ (main' \in {"flush", "closed"} => main' = main)
  BY <1>2, <1>3, <1>4 DEF Filed, Unwritten
<1>5. CASE Visit
  <2>1. main \notin {"flush", "closed"}
    BY <1>5 DEF Visit, FlushInv
  <2> QED
    BY <1>5, <2>1 DEF Visit
<1>6. CASE WriteTick
  <2>1. /\ Filed(f) \subseteq Filed(f)' /\ Given' = Given
        /\ batch[written + 1] \in Given => batch[written + 1] \in Filed(f)'
    BY <1>6, WriteTickFiles
  <2>2. UNCHANGED <<main, batch, before>> /\ written' = written + 1
    BY <1>6 DEF WriteTick, threads
  <2>3. Unwritten \subseteq Filed(f)' \union Unwritten'
    <3> SUFFICES ASSUME NEW t \in Given, NEW i \in DOMAIN batch,
                        i > written, batch[i] = t
                 PROVE  t \in Filed(f)' \/ t \in Unwritten'
      BY DEF Unwritten
    <3>1. i = written + 1 \/ i > written + 1
      <4>1. i \in Int /\ written \in Int
        BY DEF TypeOK
      <4> QED
        BY <4>1
    <3> QED
      BY <2>1, <2>2, <3>1 DEF Unwritten
  <2> QED
    BY <1>2, <2>1, <2>2, <2>3
<1>7. CASE WriteFails \/ CloseFails
  BY <1>7, FileFailure
<1>8. CASE EndFlush
  <2>1. Given' = Given /\ UNCHANGED <<files, before>>
    BY <1>8 DEF EndFlush, Flushed, Given, streamVars
  <2>2. Unwritten = {}
    BY <1>8 DEF EndFlush, Flushed, TypeOK, Unwritten
  <2>3. Filed(f)' = Filed(f)
    BY <2>1 DEF Filed
  <2>4. main' \in {"flush", "closed"} => main \in {"flush", "closed"}
         /\ main' = "closed"
    BY <1>8 DEF EndFlush, Flushed, TypeOK
  <2> QED
    BY <1>2, <2>1, <2>2, <2>3, <2>4
<1>9. CASE LastFlush
  <2>1. Given' = Given /\ UNCHANGED <<files, before>>
    BY <1>9 DEF LastFlush, Given, streamVars, fileVars
  <2>2. Filed(f)' = Filed(f)
    BY <2>1 DEF Filed
  <2>3. batch = <<>> /\ 1..before.ticks \subseteq Given
    BY <1>9 DEF LastFlush, BeforeInv, FlushInv, Flushing
  <2>4. Given = Filed(f) \union Held
    BY <1>1 DEF NothingLost
  <2>5. CASE ticks = <<>> /\ main' = "closed"
    BY <2>1, <2>2, <2>3, <2>4, <2>5 DEF Held
  <2>6. CASE Copy /\ main' = "flush"
    <3>1. Held \subseteq Unwritten'
      <4> SUFFICES ASSUME NEW t \in Held PROVE t \in Unwritten'
        OBVIOUS
      <4>1. PICK i \in DOMAIN ticks : ticks[i] = t
        BY <2>3 DEF Held
      <4>2. i \in DOMAIN batch' /\ i > written' /\ batch'[i] = t
        BY <2>6, <4>1 DEF Copy, TypeOK
      <4> QED
        BY <2>1, <4>2 DEF Held, Unwritten
    <3> QED
      BY <2>1, <2>2, <2>3, <2>4, <2>6, <3>1
  <2> QED
    BY <1>9, <2>5, <2>6 DEF LastFlush
<1>10. CASE BeginClose \/ Waited \/ Stop
  BY <1>10 DEF BeginClose, Waited, Stop
<1> QED
  BY <1>4, <1>5, <1>6, <1>7, <1>8, <1>9, <1>10
     DEF Next, StreamNext, DbNext, FlushNext, CloseNext, Arrive, Store, StoreRow,
     Minute, Leave, TakeRows, Insert, InsertFails, TakeVisits, Visited, vars,
     threads, fileVars, flushVars

LEMMA StepRowsSaved ==
  ASSUME StoreInv, BeforeInv, RowsSaved, [Next]_vars
  PROVE  RowsSaved'
<1> SUFFICES ASSUME Unfailed({"insert"})', main' \notin {"running", "waiting"}
             PROVE  IF db' = "insert" THEN Last(inserting)' >= before'.rows
                                      ELSE table' >= before'.rows
  BY DEF RowsSaved
<1>1. Unfailed({"insert"})
  BY FailuresStay
<1>2. main # "running" /\ before.rows <= stored
  BY DEF BeforeInv, Next, StreamNext, DbNext, FlushNext, CloseNext, Arrive, Store,
     StoreRow, Minute, Leave, TakeRows, Insert, InsertFails, TakeVisits, Visit,
     Visited, WriteTick, WriteFails, EndFlush, Flushed, CloseFails, BeginClose, Waited, Stop,
     LastFlush, vars, threads, StoreInv, TypeOK
<1>3. CASE Waited
  <2>1. rows = <<>> /\ UNCHANGED <<db, inserting, table, before>>
    BY <1>3 DEF Waited, rowVars
  <2> QED
    BY <1>2, <2>1 DEF StoreInv, RowsInv, TypeOK, Last
<1>4. CASE main' = main /\ UNCHANGED <<inserting, table, before>>
           /\ (db' = "insert" <=> db = "insert")
  BY <1>1, <1>4 DEF RowsSaved, Last
<1>5. CASE TakeRows
  <2>1. UNCHANGED <<main, table, before>> /\ inserting' = rows
    BY <1>5 DEF TakeRows
  <2>2. rows # <<>> => Last(inserting)' = stored
    BY <2>1 DEF StoreInv, RowsInv, Last
  <2> QED
    BY <1>1, <1>2, <1>5, <2>1, <2>2 DEF TakeRows, RowsSaved, StoreInv, TypeOK
<1>6. CASE Insert
  BY <1>1, <1>6 DEF Insert, RowsSaved
<1>7. CASE InsertFails
  BY <1>7 DEF InsertFails, Fault, Unfailed
<1>8. CASE Stop \/ LastFlush \/ Flushed \/ CloseFails
  <2>1. UNCHANGED <<inserting, table, before>> /\ (db' = "insert" <=> db = "insert")
    BY <1>8 DEF Stop, LastFlush, Flushed, CloseFails, rowVars
  <2>2. main \notin {"running", "waiting"}
    BY <1>8 DEF Stop, LastFlush, Flushed, CloseFails
  <2> QED
    BY <1>1, <2>1, <2>2 DEF RowsSaved, Last
<1> QED
  BY <1>2, <1>3, <1>4, <1>5, <1>6, <1>7, <1>8
     DEF Next, StreamNext, DbNext, FlushNext, CloseNext, Arrive, Store, StoreRow,
     Minute, Leave, TakeVisits, Visit, Visited, WriteTick, WriteFails, EndFlush,
     BeginClose, vars, threads, rowVars

LEMMA InitSaved == Init => BeforeInv /\ TicksSaved /\ RowsSaved
  BY DEF Init, BeforeInv, TicksSaved, RowsSaved

(* When close() returns, the ticks and rows stored before it was called    *)
(* are saved, unless an operation of their kind failed (Database.close,    *)
(* flush(force=True)).                                                     *)
THEOREM CloseSaves == Spec => []SavedAtClose
<1>1. StoreInv /\ NothingLost /\ BeforeInv /\ TicksSaved /\ RowsSaved
        /\ [Next]_vars => (BeforeInv /\ TicksSaved /\ RowsSaved)'
  BY StepBefore, StepTicksSaved, StepRowsSaved
<1>2. StoreInv /\ TicksSaved /\ RowsSaved => SavedAtClose
  BY DEF StoreInv, FlushInv, TicksSaved, RowsSaved, SavedAtClose
<1> QED
  BY InitSaved, <1>1, <1>2, StoreInvariant, NoTickLost, PTL DEF Spec

-----------------------------------------------------------------------------
(* Ticks move from _ticks to the copy of a flush to the files, in order:   *)
(* what is further along the way was stored earlier.                       *)
Increasing(s) == \A i, j \in DOMAIN s : i < j => s[i] < s[j]
Before(S, T) == \A s \in S, t \in T : s < t

InFile(f, m) == {files[f][m][i] : i \in DOMAIN files[f][m]}
ToWrite == {batch[i] : i \in {j \in DOMAIN batch : j > written}}
InTicks == {ticks[i] : i \in DOMAIN ticks}

FilesInOrder ==
  \A f \in Formats, m \in Months :
    /\ \A i \in DOMAIN files[f][m] : MonthOf(files[f][m][i]) = m
    /\ Increasing(files[f][m])
    /\ InFile(f, m) \subseteq Given
    /\ Before(InFile(f, m), ToWrite) /\ Before(InFile(f, m), InTicks)

MemoryInOrder ==
  /\ Increasing(batch) /\ Increasing(ticks)
  /\ ToWrite \subseteq Given /\ InTicks \subseteq Given
  /\ Before(ToWrite, InTicks)

(* A handle that is open is open on the file of the current month.         *)
HandlesInMonth == \A f \in Formats : open[f] \in {0, month}

OrderInv ==
  /\ HandlesInMonth
  /\ Unfailed({"write", "close"}) => FilesInOrder /\ MemoryInOrder

LEMMA AppendIncreases ==
  ASSUME NEW s \in Seq(Nat), Increasing(s), NEW t \in Nat,
         \A i \in DOMAIN s : s[i] < t
  PROVE  Increasing(Append(s, t))
<1> DEFINE u == Append(s, t)
<1>1. /\ DOMAIN u = 1..(Len(s) + 1) /\ Len(s) \in Nat /\ DOMAIN s = 1..Len(s)
      /\ u[Len(s) + 1] = t
      /\ \A i \in 1..Len(s) : u[i] = s[i]
  OBVIOUS
<1> HIDE DEF u
<1>2. ASSUME NEW i \in DOMAIN u, NEW j \in DOMAIN u, i < j PROVE u[i] < u[j]
  <2>1. i \in 1..Len(s) /\ (j \in 1..Len(s) \/ j = Len(s) + 1)
    BY <1>1, <1>2
  <2> QED
    BY <1>1, <1>2, <2>1 DEF Increasing
<1> QED
  BY <1>2 DEF Increasing, u

LEMMA InitOrder == Init => OrderInv
<1> SUFFICES ASSUME Init PROVE OrderInv
  OBVIOUS
<1>1. InTicks = {} /\ ToWrite = {} /\ \A f \in Formats, m \in Months : files[f][m] = <<>>
  BY DEF Init, InTicks, ToWrite
<1>2. HandlesInMonth
  BY DEF Init, HandlesInMonth, Closed
<1>3. FilesInOrder
  BY <1>1 DEF FilesInOrder, Increasing, InFile, Before
<1>4. MemoryInOrder
  BY <1>1 DEF Init, MemoryInOrder, Increasing, Before
<1> QED
  BY <1>2, <1>3, <1>4 DEF OrderInv

(* The copy of flush() takes over the order of _ticks.                     *)
LEMMA CopyInOrder ==
  ASSUME TypeOK, batch = <<>>, FilesInOrder, MemoryInOrder, Copy,
         UNCHANGED <<arrived, storing, files>>
  PROVE  FilesInOrder' /\ MemoryInOrder'
<1>1. Given' = Given
  BY DEF Given
<1>2. ToWrite' = InTicks /\ InTicks' = {}
  BY DEF Copy, ToWrite, InTicks, TypeOK
<1>3. ToWrite = {} /\ batch' = ticks /\ ticks' = <<>>
  BY DEF Copy, ToWrite
<1>4. \A f \in Formats, m \in Months : InFile(f, m)' = InFile(f, m)
  BY DEF InFile
<1>5. FilesInOrder'
  BY <1>1, <1>2, <1>4 DEF FilesInOrder, Before
<1>6. MemoryInOrder'
  BY <1>1, <1>2, <1>3 DEF MemoryInOrder, Before, Increasing
<1> QED
  BY <1>5, <1>6

LEMMA StoreInOrder ==
  ASSUME StoreInv, FilesInOrder, MemoryInOrder, Store
  PROVE  FilesInOrder' /\ MemoryInOrder'
<1>1. /\ arrived \in 1..MaxTicks /\ ticks \in Seq(Nat)
      /\ \A t \in Given : t < arrived
      /\ Given \subseteq Given' /\ arrived \in Given'
  <2>1. arrived \in 1..MaxTicks /\ storing /\ ~storing' /\ arrived' = arrived /\ ticks \in Seq(1..MaxTicks)
    BY DEF StoreInv, TypeOK, FlushInv, Store
  <2>2. Given = 1..(arrived - 1) /\ Given' = 1..arrived
    BY <2>1 DEF Given
  <2> QED
    BY <2>1, <2>2
<1>2. ticks' = Append(ticks, arrived) /\ UNCHANGED <<files, batch, written>>
  BY DEF Store, fileVars, flushVars
<1>3. InTicks' = InTicks \cup {arrived}
  BY <1>1, <1>2 DEF InTicks
<1>4. ToWrite' = ToWrite /\ \A f \in Formats, m \in Months : InFile(f, m)' = InFile(f, m)
  BY <1>2 DEF ToWrite, InFile
<1>5. FilesInOrder'
  BY <1>1, <1>2, <1>3, <1>4 DEF FilesInOrder, Before
<1>6. Increasing(ticks)'
  <2>1. \A i \in DOMAIN ticks : ticks[i] < arrived
    BY <1>1 DEF MemoryInOrder, InTicks
  <2> QED
    BY <1>1, <1>2, <2>1, AppendIncreases DEF MemoryInOrder, Increasing
<1>7. MemoryInOrder'
  BY <1>1, <1>2, <1>3, <1>4, <1>6 DEF MemoryInOrder, Before, Increasing
<1> QED
  BY <1>5, <1>7

(* A tick goes to the file of its month, whatever handles were open.       *)
LEMMA HandlesFit ==
  ASSUME HandlesInMonth, NEW m, NEW unopened
  PROVE  \A f \in Formats : Handles(m, unopened)[f] \in {0, m}
  BY DEF HandlesInMonth, Handles, Closed

LEMMA WriteInOrder ==
  ASSUME StoreInv, HandlesInMonth, FilesInOrder, MemoryInOrder, WriteTick
  PROVE  FilesInOrder' /\ MemoryInOrder'
<1> DEFINE tick == batch[written + 1]
<1>1. /\ Given' = Given /\ InTicks' = InTicks /\ Increasing(batch)' /\ Increasing(ticks)'
      /\ written' = written + 1 /\ batch' = batch
  BY DEF WriteTick, streamVars, Given, InTicks, Increasing, MemoryInOrder
<1>2. /\ tick \in 1..MaxTicks /\ tick \in ToWrite
      /\ ToWrite' \subseteq ToWrite
      /\ \A t \in ToWrite' : tick < t
  <2>1. batch \in Seq(1..MaxTicks) /\ written + 1 \in DOMAIN batch /\ written \in Nat
    BY DEF StoreInv, TypeOK, WriteTick
  <2>2. ASSUME NEW t \in ToWrite' PROVE t \in ToWrite /\ tick < t
    <3>1. PICK i \in DOMAIN batch : i > written + 1 /\ batch[i] = t
      BY <1>1, <2>2 DEF ToWrite
    <3> QED
      BY <2>1, <3>1 DEF ToWrite, MemoryInOrder, Increasing
  <2>3. tick \in ToWrite
    BY <2>1 DEF ToWrite
  <2>4. tick \in 1..MaxTicks
    BY <2>1
  <2> QED
    BY <2>2, <2>3, <2>4
<1>3. MemoryInOrder'
  BY <1>1, <1>2 DEF MemoryInOrder, Before
<1>4. ASSUME NEW f \in Formats, NEW m \in Months
      PROVE  /\ \A i \in DOMAIN files'[f][m] : MonthOf(files'[f][m][i]) = m
             /\ Increasing(files'[f][m])
             /\ InFile(f, m)' \subseteq Given'
             /\ Before(InFile(f, m)', ToWrite') /\ Before(InFile(f, m)', InTicks')
  <2>1. files'[f] = Appended(f, tick, open') /\ open'[f] \in {0, MonthOf(tick)}
    BY HandlesFit DEF WriteTick
  <2>2. files[f] \in [Months -> Seq(1..MaxTicks)] /\ files[f][m] \in Seq(Nat)
    BY DEF StoreInv, TypeOK
  <2>3. files'[f][m] = files[f][m] \/ (m = MonthOf(tick) /\ files'[f][m] = Append(files[f][m], tick))
    BY <2>1, <2>2 DEF Appended
  <2>4. CASE files'[f][m] = files[f][m]
    <3>1. InFile(f, m)' = InFile(f, m)
      BY <2>4 DEF InFile
    <3> QED
      BY <1>1, <1>2, <2>4, <3>1 DEF FilesInOrder, Before
  <2>5. CASE m = MonthOf(tick) /\ files'[f][m] = Append(files[f][m], tick)
    <3> DEFINE s == files[f][m]
    <3>1. s \in Seq(Nat) /\ tick \in Nat
      BY <1>2, <2>2
    <3>2. \A i \in DOMAIN s : s[i] < tick /\ MonthOf(s[i]) = m
      BY <1>2 DEF FilesInOrder, Before, InFile
    <3>3. Increasing(s)
      BY DEF FilesInOrder
    <3>4. Increasing(files'[f][m])
      <4> HIDE DEF s, tick
      <4> QED
        BY <2>5, <3>1, <3>2, <3>3, AppendIncreases DEF s
    <3>5. /\ DOMAIN files'[f][m] = 1..(Len(s) + 1) /\ Len(s) \in Nat /\ DOMAIN s = 1..Len(s)
          /\ files'[f][m][Len(s) + 1] = tick
          /\ \A i \in 1..Len(s) : files'[f][m][i] = s[i]
      <4> HIDE DEF tick
      <4> QED
        BY <2>5, <3>1
    <3>6. \A i \in DOMAIN files'[f][m] : MonthOf(files'[f][m][i]) = m
      <4> SUFFICES ASSUME NEW i \in DOMAIN files'[f][m] PROVE MonthOf(files'[f][m][i]) = m
        OBVIOUS
      <4>1. i \in 1..Len(s) \/ i = Len(s) + 1
        BY <3>5
      <4> HIDE DEF s, tick
      <4> QED
        BY <2>5, <3>2, <3>5, <4>1
    <3>7. InFile(f, m)' = InFile(f, m) \cup {tick}
      <4>1. InFile(f, m)' = {files'[f][m][i] : i \in DOMAIN files'[f][m]}
        BY DEF InFile
      <4>2. InFile(f, m) = {s[i] : i \in DOMAIN s}
        BY DEF InFile
      <4>3. \A i \in DOMAIN files'[f][m] : i \in 1..Len(s) \/ i = Len(s) + 1
        BY <3>5
      <4>4. Len(s) + 1 \in DOMAIN files'[f][m] /\ \A i \in DOMAIN s : i \in DOMAIN files'[f][m]
        BY <3>5
      <4> HIDE DEF s, tick
      <4> QED
        BY <3>5, <4>1, <4>2, <4>3, <4>4
    <3> HIDE DEF tick
    <3> QED
      BY <1>1, <1>2, <3>4, <3>6, <3>7 DEF FilesInOrder, MemoryInOrder, Before
  <2> QED
    BY <2>3, <2>4, <2>5
<1>5. FilesInOrder'
  BY <1>4 DEF FilesInOrder
<1> QED
  BY <1>3, <1>5

LEMMA StepOrder ==
  ASSUME StoreInv, OrderInv, [Next]_vars
  PROVE  OrderInv'
<1>1. HandlesInMonth'
  <2>1. CASE WriteTick
    BY <2>1, HandlesFit DEF WriteTick, OrderInv, HandlesInMonth
  <2>2. CASE Flushed
    BY <2>2 DEF Flushed, Closed, HandlesInMonth
  <2>3. CASE UNCHANGED <<open, month>>
    BY <2>3 DEF OrderInv, HandlesInMonth
  <2>4. CASE WriteFails
    <3>1. CASE MonthCloseFails
      BY <2>3, <3>1 DEF MonthCloseFails
    <3>2. CASE TickFails
      BY <3>2, HandlesFit DEF TickFails, OrderInv, HandlesInMonth
    <3> QED
      BY <2>4, <3>1, <3>2 DEF WriteFails
  <2>5. CASE CloseFails
    <3>1. PICK f \in Formats :
            open' = IF f = "text" THEN open ELSE [open EXCEPT !["text"] = 0]
      BY <2>5 DEF CloseFails
    <3>2. month' = month /\ open \in [Formats -> Months \union {0}]
      BY <2>5 DEF CloseFails, StoreInv, TypeOK
    <3> QED
      BY <3>1, <3>2 DEF OrderInv, HandlesInMonth
  <2>6. CASE LastFlush
    BY <2>6 DEF LastFlush, Closed, OrderInv, HandlesInMonth
  <2> QED
    BY <2>1, <2>2, <2>3, <2>4, <2>5, <2>6 DEF Next, StreamNext, DbNext, FlushNext, CloseNext, Arrive,
       Store, StoreRow, Minute, Leave, TakeRows, Insert, InsertFails, TakeVisits,
       Visit, Visited, EndFlush, BeginClose, Waited, Stop, vars, fileVars
<1> SUFFICES ASSUME Unfailed({"write", "close"})' PROVE FilesInOrder' /\ MemoryInOrder'
  BY <1>1 DEF OrderInv
<1>2. HandlesInMonth /\ FilesInOrder /\ MemoryInOrder
  BY FailuresStay DEF OrderInv
<1>3. CASE UNCHANGED <<files, ticks, batch, written>> /\ Given \subseteq Given'
  <2>1. /\ ToWrite' = ToWrite /\ InTicks' = InTicks
        /\ \A f \in Formats, m \in Months : InFile(f, m)' = InFile(f, m)
    BY <1>3 DEF ToWrite, InTicks, InFile
  <2>2. FilesInOrder'
    BY <1>2, <1>3, <2>1 DEF FilesInOrder, Increasing, Before
  <2>3. MemoryInOrder'
    BY <1>2, <1>3, <2>1 DEF MemoryInOrder, Increasing, Before
  <2> QED
    BY <2>2, <2>3
<1>4. CASE Arrive
  <2>1. Given' = Given
    BY <1>4 DEF Arrive, Given, StoreInv, TypeOK
  <2> QED
    BY <1>3, <1>4, <2>1 DEF Arrive, fileVars, flushVars
<1>5. CASE Store
  BY <1>2, <1>5, StoreInOrder
<1>6. CASE StoreRow \/ Minute \/ BeginClose
  BY <1>3, <1>6 DEF StoreRow, Minute, BeginClose, Given, streamVars, fileVars,
     flushVars
<1>7. CASE Leave \/ TakeRows \/ Insert \/ InsertFails \/ TakeVisits \/ Visited
  BY <1>3, <1>7 DEF Leave, TakeRows, Insert, InsertFails, TakeVisits, Visited,
     Given, streamVars, fileVars, flushVars
<1>8. CASE Visit \/ LastFlush
  <2>1. Given' = Given /\ UNCHANGED <<arrived, storing, files>>
    BY <1>8 DEF Visit, LastFlush, Given, streamVars, fileVars
  <2>2. CASE UNCHANGED <<ticks, batch, written>>
    BY <1>3, <2>1, <2>2
  <2>3. CASE Copy
    <3>1. batch = <<>>
      BY <1>8 DEF Visit, LastFlush, StoreInv, FlushInv, Flushing
    <3> QED
      BY <1>2, <2>1, <2>3, <3>1, CopyInOrder DEF StoreInv
  <2> QED
    BY <1>8, <2>2, <2>3 DEF Visit, LastFlush
<1>9. CASE WriteTick
  BY <1>2, <1>9, WriteInOrder
<1>10. CASE WriteFails \/ CloseFails
  BY <1>10, FileFailure DEF StoreInv
<1>11. CASE EndFlush
  <2>1. Given' = Given /\ InTicks' = InTicks /\ UNCHANGED <<files, ticks>>
    BY <1>11 DEF EndFlush, Flushed, Given, InTicks, streamVars
  <2>2. batch' = <<>> /\ ToWrite' = {}
    BY <1>11 DEF EndFlush, Flushed, ToWrite
  <2>3. \A f \in Formats, m \in Months : InFile(f, m)' = InFile(f, m)
    BY <2>1 DEF InFile
  <2>4. FilesInOrder'
    BY <1>2, <2>1, <2>2, <2>3 DEF FilesInOrder, Increasing, Before
  <2>5. MemoryInOrder'
    BY <1>2, <2>1, <2>2 DEF MemoryInOrder, Increasing, Before
  <2> QED
    BY <2>4, <2>5
<1>12. CASE Waited \/ Stop
  BY <1>3, <1>12 DEF Waited, Stop, Given, streamVars, fileVars, flushVars
<1>13. CASE UNCHANGED vars
  BY <1>3, <1>13 DEF vars, Given, streamVars, fileVars, flushVars
<1> QED
  BY <1>4, <1>5, <1>6, <1>7, <1>8, <1>9, <1>10, <1>11, <1>12, <1>13
     DEF Next, StreamNext, DbNext, FlushNext, CloseNext

(* Unless a file operation failed, a file holds its month's ticks only,    *)
(* each once and in the order they were stored (TickStorage.flush: handles *)
(* that are closed when the month changes, a copy that no other flush has).*)
THEOREM TicksWrittenOnce == Spec => []TicksOnce
<1>1. StoreInv /\ OrderInv /\ [Next]_vars => OrderInv'
  BY StepOrder
<1>2. OrderInv => TicksOnce
  BY DEF OrderInv, FilesInOrder, Increasing, TicksOnce
<1> QED
  BY InitOrder, <1>1, <1>2, StoreInvariant, PTL DEF Spec
=============================================================================
