----------------------------- MODULE TickStream -----------------------------
(***************************************************************************)
(* TickStream: the ticks a backtest replays, read from one file per month  *)
(* in blocks of BufferSize records.  fillNext() appends to the caller's    *)
(* array every tick up to a time; it is a loop, modelled one branch per    *)
(* action because nothing in it bounds how long it runs.                   *)
(***************************************************************************)
EXTENDS Integers, Sequences, SequencesExt

CONSTANTS FromTs, ToTs,   \* the range asked of the stream
          MonthLength,    \* a month, in units of time
          BufferSize,     \* records of one read
          Stores          \* what may be on disk: a file per month

ASSUME StreamAssumption ==
  /\ FromTs \in Nat \ {0} /\ ToTs \in Nat /\ FromTs < ToTs
  /\ MonthLength \in Nat \ {0} /\ BufferSize \in Nat \ {0}
  /\ \A s \in Stores : \A m \in DOMAIN s :
       /\ s[m].format \in {"binary", "text", "none"}
       /\ s[m].records \in Seq([ts : Nat, price : Nat])

VARIABLES
  store,     \* month -> [format, records], as the market's directory holds it
  cur,       \* m_cur, the date whose month is being read
  file,      \* m_file: the month it is open on and how far it was read
  lastTs,    \* m_lastTs, of the last binary record
  buffer,    \* m_buffer
  ofs,       \* m_ofs, in ticks
  finished,  \* m_finished
  asked,     \* the timestamp given to the fillNext() in progress
  out        \* the array it appends to

diskVars == <<store, cur, file, lastTs>>
streamVars == <<diskVars, buffer, ofs, finished, asked, out>>

NoCall == 0
NoFile == [month |-> -1, read |-> 0]
Malformed == [ts |-> 0, price |-> 0]   \* a text line without its 6 tokens

Month(ts) == ts \div MonthLength
NextMonth(ts) == (Month(ts) + 1) * MonthLength

(* The constructor; the first file is opened by the first bufferize().     *)
StreamInit ==
  /\ store \in Stores
  /\ cur = FromTs /\ file = NoFile /\ lastTs = 0
  /\ buffer = <<>> /\ ofs = 0 /\ finished = FALSE
  /\ asked = NoCall /\ out = <<>>

-----------------------------------------------------------------------------
(* bufferize().                                                            *)

Format(m) == IF m \in DOMAIN store THEN store[m].format ELSE "none"

(* open(): the binary file of the month, else its text file, else nothing. *)
Opened(m) == IF Format(m) = "none" THEN NoFile ELSE [month |-> m, read |-> 0]

Block(f) ==
  LET records == store[f.month].records
  IN SubSeq(records, f.read + 1,
            IF f.read + BufferSize < Len(records) THEN f.read + BufferSize
                                                  ELSE Len(records))

InOrder(block, n) ==
  \A i \in 1..n : block[i].ts >= (IF i = 1 THEN lastTs ELSE block[i - 1].ts)

(* The ticks of a text block, line by line, without the malformed ones.    *)
Readable(block) ==
  LET kept[n \in 0..Len(block)] ==
        IF n = 0 THEN <<>>
        ELSE IF block[n] = Malformed THEN kept[n - 1]
        ELSE Append(kept[n - 1], block[n])
  IN kept[Len(block)]

(* Any block is good.                                                      *)
Unchecked(block, n) == n = Len(block)

(* A binary block gives its n records before the first one that goes back  *)
(* in time: "broken file".                                                 *)
Sound(block, n) ==
  /\ InOrder(block, n)
  /\ n < Len(block) => ~InOrder(block, n + 1)

(* The month after the next one.                                           *)
EndOfFileSkipping ==
  /\ cur' = NextMonth(cur) + MonthLength
  /\ file' = IF cur' < ToTs THEN Opened(Month(cur')) ELSE NoFile
  /\ finished' = (file' = NoFile)

(* The end of a file goes unnoticed.                                       *)
EndOfFileUnseen == UNCHANGED <<cur, file, finished>>

(* The end of a file: the next month, or the end of the stream when that   *)
(* month is not in the range or has no file.                               *)
EndOfFile ==
  /\ cur' = NextMonth(cur)
  /\ file' = IF cur' < ToTs THEN Opened(Month(cur')) ELSE NoFile
  /\ finished' = (file' = NoFile)

Continue(f) ==
  /\ file' = [f EXCEPT !.read = @ + Len(Block(f))]
  /\ UNCHANGED <<cur, finished>>

(* A short or empty read ends a binary file, and so does a broken record;  *)
(* a text file has no end: readLine() fails and fileEnd stays false.       *)
ReadFile(f) ==
  IF Format(f.month) = "binary"
  THEN \E n \in 0..Len(Block(f)) :
         /\ Sound(Block(f), n)
         /\ buffer' = SubSeq(Block(f), 1, n)
         /\ lastTs' = IF n = 0 THEN lastTs ELSE Block(f)[n].ts
         /\ IF 0 < n /\ n = Len(Block(f)) THEN Continue(f) ELSE EndOfFile
  ELSE /\ buffer' = Readable(Block(f))
       /\ Continue(f)
       /\ UNCHANGED lastTs

Bufferize ==
  LET f == IF file = NoFile THEN Opened(Month(cur)) ELSE file
  IN IF f # NoFile THEN ReadFile(f)
     ELSE buffer' = <<>> /\ EndOfFile /\ UNCHANGED lastTs

-----------------------------------------------------------------------------
(* fillNext().                                                             *)

FillNext(ts) ==
  /\ asked = NoCall
  /\ asked' = ts /\ out' = <<>>
  /\ UNCHANGED <<diskVars, buffer, ofs, finished>>

Filling == asked # NoCall /\ ~finished
Upcoming == buffer[ofs + 1]

(* A broken record in the last file ends the stream with the records read   *)
(* before it in the buffer: the same iteration still looks at the first.   *)
LookAtFirst ==
  LET given == FromTs <= buffer'[1].ts /\ buffer'[1].ts <= ToTs /\ buffer'[1].ts <= asked
  IN /\ out' = IF given THEN Append(out, buffer'[1]) ELSE out
     /\ ofs' = IF given \/ buffer'[1].ts < FromTs THEN 1 ELSE 0

(* The end of the buffer: the next block, or the end of the range.         *)
Refill ==
  /\ Filling /\ ofs >= Len(buffer)
  /\ IF cur < ToTs THEN Bufferize
     ELSE finished' = TRUE /\ buffer' = <<>> /\ UNCHANGED <<cur, file, lastTs>>
  /\ IF finished' /\ buffer' # <<>> THEN LookAtFirst ELSE ofs' = 0 /\ out' = out
  /\ UNCHANGED <<store, asked>>

(* "ignore older than min timestamp"                                       *)
Skip ==
  /\ Filling /\ ofs < Len(buffer) /\ Upcoming.ts < FromTs
  /\ ofs' = ofs + 1
  /\ UNCHANGED <<diskVars, buffer, finished, asked, out>>

(* "finished when reach max timestamp"                                     *)
ReachMax ==
  /\ Filling /\ ofs < Len(buffer) /\ Upcoming.ts > ToTs
  /\ finished' = TRUE /\ file' = NoFile
  /\ UNCHANGED <<store, cur, lastTs, buffer, ofs, asked, out>>

Take ==
  /\ Filling /\ ofs < Len(buffer)
  /\ FromTs <= Upcoming.ts /\ Upcoming.ts <= ToTs /\ Upcoming.ts <= asked
  /\ out' = Append(out, Upcoming) /\ ofs' = ofs + 1
  /\ UNCHANGED <<diskVars, buffer, finished, asked>>

FillStep == Refill \/ Skip \/ ReachMax \/ Take

(* When the loop ends: nothing more to read, or a tick of a later step.    *)
Filled ==
  /\ asked # NoCall
  /\ \/ finished
     \/ ofs < Len(buffer) /\ FromTs <= Upcoming.ts /\ Upcoming.ts <= ToTs /\ Upcoming.ts > asked

Returned ==
  /\ Filled
  /\ asked' = NoCall
  /\ UNCHANGED <<diskVars, buffer, ofs, finished, out>>
=============================================================================
