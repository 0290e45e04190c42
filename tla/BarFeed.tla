------------------------------ MODULE BarFeed -------------------------------
(***************************************************************************)
(* The market feed of a backtest of one strategy: at each time step        *)
(* Backtest::run fills the market's tick buffer from the stream, and the   *)
(* analyser turns the ticks into bars (TimeframeOhlcGen or RangeOhlcGen,   *)
(* in a ring of Depth bars) and the bars into the arrays its indicators    *)
(* read, recomputing only the last value when no bar was added.            *)
(***************************************************************************)
EXTENDS TickStream, Folds, FiniteSetsExt

CONSTANTS Kinds,      \* subset of {"timeframe", "range"}
          Timeframe,  \* m_toTf of a timeframe bar
          BarSize,    \* m_barSize of a range bar, in tick sizes
          Depth,      \* depth(): the size of the ring
          Histories,  \* the bulks of final bars prepareMarketData() may find
          Timesteps

ASSUME FeedAssumption ==
  /\ Timeframe \in Nat \ {0} /\ BarSize \in Nat \ {0}
  /\ Depth \in Nat /\ Depth > 1   \* asserted by OhlcCircular
  /\ Timesteps \subseteq Nat \ {0}

VARIABLES
  kind, timestep,
  loop,          \* where Backtest::run is
  curTs,         \* m_curTs
  ring,          \* m_ohlc
  at,            \* how many bars of the bulk or ticks of the batch it has taken
  newBars,       \* n of genFromTicks(): the bars this batch has opened
  gen,           \* the generator: [current, lastTs]
  numLastBars,   \* m_numLastBars
  prices,        \* the arrays of m_price and m_volume, as one sequence
  consolidated,  \* m_consolidated of m_price
  lastClosed,    \* m_lastClosedTimestamp of m_price
  (* Not in the program: what the properties compare with.                 *)
  history,       \* the bulk that was loaded
  delivered      \* every tick handed over so far

barVars == <<ring, at, newBars, gen, numLastBars>>
priceVars == <<prices, consolidated, lastClosed>>
config == <<kind, timestep, history>>
vars == <<streamVars, config, loop, curTs, barVars, priceVars, delivered>>

None == -1
ZeroBar == [ts |-> 0, open |-> 0, high |-> 0, low |-> 0, close |-> 0,
            volume |-> 0, ended |-> FALSE]

-----------------------------------------------------------------------------
(* A bulk may begin with the bars of another analyser.  Its last bar is    *)
(* the analyser's own, before the range: the query stops one second before *)
(* (hmama.cpp:203); by timeframe it is aligned.                            *)
BarTypes == [ts : Nat, open : Nat, high : Nat, low : Nat, close : Nat,
             volume : Nat, ended : BOOLEAN]

ASSUME HistoryAssumption ==
  \A h \in Histories :
    /\ h \in Seq(BarTypes)
    /\ \A i \in 1..Len(h) : h[i].ts > 0
    /\ h # <<>> => /\ Last(h).ts < FromTs
                   /\ "timeframe" \in Kinds => Last(h).ts % Timeframe = 0

-----------------------------------------------------------------------------
(* OhlcCircular.                                                           *)

EmptyRing == [cells |-> [i \in 0..(Depth - 1) |-> ZeroBar],
              first |-> 0, last |-> 0, size |-> 0]
Full(r) == r.size = Depth
Wrapped(i) == IF i < Depth THEN i ELSE i - Depth
After(i) == Wrapped(i + 1)

(* writeElt(): the cell at last, zeroed; the oldest bar goes when full.    *)
WriteElt(r, bar) ==
  [cells |-> [r.cells EXCEPT ![r.last] = bar],
   first |-> IF Full(r) THEN After(r.last) ELSE r.first,
   last |-> After(r.last),
   size |-> IF Full(r) THEN r.size ELSE r.size + 1]

(* The bars from cbegin() to cend(), the oldest first: a whole turn when   *)
(* full, else from first to last.                                          *)
Bars(r) ==
  LET n == IF Full(r) THEN Depth ELSE Wrapped(r.last + Depth - r.first)
  IN [i \in 1..n |-> r.cells[Wrapped(r.first + i - 1)]]

-----------------------------------------------------------------------------
(* The generators: genFromTicks() with the "last" price.                   *)

BaseTime(ts) == (ts \div Timeframe) * Timeframe

(* Compares with the open of the bar, not with its other extreme.          *)
ClosesFromOpen(bar, tick) ==
  IF kind = "timeframe" THEN ~bar.ended /\ tick.ts >= bar.ts + Timeframe
  ELSE \/ tick.price > bar.high /\ tick.price - bar.open > BarSize
       \/ tick.price < bar.low /\ bar.open - tick.price > BarSize

(* Is the current bar over before this tick.                               *)
Closes(bar, tick) ==
  IF kind = "timeframe" THEN ~bar.ended /\ tick.ts >= bar.ts + Timeframe
  ELSE \/ tick.price > bar.high /\ tick.price - bar.low > BarSize
       \/ tick.price < bar.low /\ bar.high - tick.price > BarSize

(* The bar a tick opens, and the bar it continues.                         *)
NewBar(tick) ==
  [ts |-> IF kind = "timeframe" THEN BaseTime(tick.ts) ELSE tick.ts,
   open |-> tick.price, high |-> tick.price, low |-> tick.price,
   close |-> tick.price, volume |-> 1, ended |-> FALSE]

Extended(bar, tick) ==
  [bar EXCEPT !.high = IF tick.price > @ THEN tick.price ELSE @,
              !.low = IF tick.price < @ THEN tick.price ELSE @,
              !.close = tick.price,
              !.volume = @ + 1]

Ended(cells, i) == IF i = None THEN cells ELSE [cells EXCEPT ![i].ended = TRUE]

-----------------------------------------------------------------------------
(* Price and Volume.                                                       *)

PriceOf(bar) == [ts |-> bar.ts, open |-> bar.open, high |-> bar.high,
                 low |-> bar.low, close |-> bar.close, volume |-> bar.volume]

(* Never clears the flag of the previous call.                             *)
ConsolidateStays(ts, closed) ==
  /\ consolidated' = (closed \/ consolidated)
  /\ lastClosed' = IF closed THEN ts ELSE lastClosed

Consolidate(ts, closed) ==
  /\ consolidated' = closed
  /\ lastClosed' = IF closed THEN ts ELSE lastClosed

Compute ==
  LET bars == Bars(ring)
      last == bars[Len(bars)]
  IN /\ prices' = [i \in 1..Len(bars) |-> PriceOf(bars[i])]
     /\ Consolidate(last.ts, ring.size > 1 /\ last.ts > lastClosed)

ComputeLast ==
  IF gen.current = None THEN UNCHANGED priceVars
  ELSE LET bar == ring.cells[gen.current]
       IN /\ prices' = [prices EXCEPT ![Len(prices)] = PriceOf(bar)]
          /\ Consolidate(bar.ts, bar.ts > lastClosed)

ComputeMinimalist == IF numLastBars = 1 THEN ComputeLast ELSE Compute

-----------------------------------------------------------------------------
(* The analyser and the loop that feeds it.                                *)

Init ==
  /\ StreamInit
  /\ kind \in Kinds /\ timestep \in Timesteps /\ history \in Histories
  /\ loop = "load" /\ curTs = FromTs
  /\ ring = EmptyRing /\ at = 0 /\ newBars = 0 /\ numLastBars = 0
  /\ gen = [current |-> None, lastTs |-> 0]
  /\ prices = <<>> /\ consolidated = FALSE /\ lastClosed = 0
  /\ delivered = <<>>

(* prepareMarketData() gives onOhlcUpdate() a bulk of final bars.          *)
LoadBar ==
  /\ loop = "load" /\ at < Len(history)
  /\ ring' = WriteElt(ring, history[at + 1])
  /\ at' = at + 1
  /\ UNCHANGED <<streamVars, config, loop, curTs, gen, newBars, numLastBars,
                 priceVars, delivered>>

EndLoad ==
  /\ loop = "load" /\ at = Len(history)
  /\ numLastBars' = Len(history)
  /\ at' = 0 /\ loop' = "top"
  /\ UNCHANGED <<streamVars, config, curTs, ring, gen, newBars, priceVars, delivered>>

Fill ==
  /\ loop = "top" /\ curTs <= ToTs
  /\ FillNext(curTs)
  /\ loop' = "fill"
  /\ UNCHANGED <<config, curTs, barVars, priceVars, delivered>>

KeepFilling ==
  /\ loop = "fill" /\ FillStep
  /\ UNCHANGED <<config, loop, curTs, barVars, priceVars, delivered>>

(* "no ticks for this run", or they go to the strategy.                    *)
EndFill ==
  /\ loop = "fill" /\ Returned
  /\ delivered' = delivered \o out
  /\ IF out = <<>> THEN loop' = "top" /\ curTs' = curTs + timestep
                   ELSE loop' = "update" /\ UNCHANGED curTs
  /\ UNCHANGED <<config, barVars, priceVars>>

(* onTickUpdate(): genFromTicks() takes the ticks one by one.              *)
Tick == out[at + 1]
Current == ring.cells[gen.current]

Updating ==
  /\ loop = "update" /\ at < Len(out)
  /\ at' = at + 1
  /\ UNCHANGED <<streamVars, config, loop, curTs, numLastBars, priceVars, delivered>>

(* A tick at the time of the last one is dropped: "already done".          *)
DropTick ==
  /\ Updating /\ Tick.ts <= gen.lastTs
  /\ UNCHANGED <<ring, gen, newBars>>

ExtendBar ==
  /\ Updating /\ Tick.ts > gen.lastTs
  /\ gen.current # None /\ ~Closes(Current, Tick)
  /\ ring' = [ring EXCEPT !.cells[gen.current] = Extended(Current, Tick)]
  /\ gen' = [gen EXCEPT !.lastTs = Tick.ts]
  /\ UNCHANGED newBars

(* Close the current bar if there is one, and open the next.               *)
OpenBar ==
  /\ Updating /\ Tick.ts > gen.lastTs
  /\ gen.current # None => Closes(Current, Tick)
  /\ ring' = WriteElt([ring EXCEPT !.cells = Ended(@, gen.current)], NewBar(Tick))
  /\ gen' = [current |-> ring.last, lastTs |-> Tick.ts]
  /\ newBars' = newBars + 1

(* The new bars only, the current one not counted.                         *)
CountedNewOnly == IF newBars > 0 THEN newBars ELSE 1

(* "new generated bars", "plus the current one".                           *)
Counted == IF gen.current = None THEN newBars ELSE newBars + 1

EndUpdate ==
  /\ loop = "update" /\ at = Len(out)
  /\ numLastBars' = numLastBars + Counted
  /\ newBars' = 0 /\ at' = 0 /\ loop' = "process"
  /\ UNCHANGED <<streamVars, config, curTs, ring, gen, priceVars, delivered>>

Enough == ring.size >= Depth /\ Bars(ring)[1].ts > 0

(* process(): nothing before there are enough samples.                     *)
Process ==
  /\ loop = "process"
  /\ IF Enough THEN ComputeMinimalist /\ numLastBars' = 0
               ELSE UNCHANGED <<priceVars, numLastBars>>
  /\ loop' = "top" /\ curTs' = curTs + timestep
  /\ UNCHANGED <<streamVars, config, ring, at, newBars, gen, delivered>>

Next ==
  \/ LoadBar \/ EndLoad
  \/ Fill \/ KeepFilling \/ EndFill
  \/ DropTick \/ ExtendBar \/ OpenBar \/ EndUpdate
  \/ Process

Spec == Init /\ [][Next]_vars
FairSpec == Spec /\ WF_vars(Next)
-----------------------------------------------------------------------------
(* What the bars should be, from the ticks alone.                          *)

Accepted ==
  LET isNext(i) == \A j \in 1..(i - 1) : delivered[j].ts < delivered[i].ts
      indices == SetToSortSeq({i \in DOMAIN delivered : isNext(i)}, <)
  IN [k \in DOMAIN indices |-> delivered[indices[k]]]

PricesOf(ticks) == {ticks[i].price : i \in DOMAIN ticks}
Span(ticks) == Max(PricesOf(ticks)) - Min(PricesOf(ticks))

(* Whether these consecutive ticks fit in one bar.                         *)
OneBar(ticks) ==
  IF kind = "timeframe" THEN BaseTime(ticks[1].ts) = BaseTime(Last(ticks).ts)
                        ELSE Span(ticks) <= BarSize

BarOf(ticks, isOver) ==
  [ts |-> IF kind = "timeframe" THEN BaseTime(ticks[1].ts) ELSE ticks[1].ts,
   open |-> ticks[1].price, high |-> Max(PricesOf(ticks)),
   low |-> Min(PricesOf(ticks)), close |-> Last(ticks).price,
   volume |-> Len(ticks), ended |-> isOver]

(* The accepted ticks cut into the longest runs that each fit in one bar.  *)
ExpectedBars ==
  LET t == Accepted
      start[i \in DOMAIN t] ==
        IF i > 1 /\ OneBar(SubSeq(t, start[i - 1], i)) THEN start[i - 1] ELSE i
      starts == SetToSortSeq({start[i] : i \in DOMAIN t}, <)
      end(k) == IF k < Len(starts) THEN starts[k + 1] - 1 ELSE Len(t)
  IN [k \in DOMAIN starts |-> BarOf(SubSeq(t, starts[k], end(k)), k < Len(starts))]

Latest(s, n) == IF Len(s) <= n THEN s ELSE SubSeq(s, Len(s) - n + 1, Len(s))

(* The ring holds the latest Depth bars, the history then the bars of the  *)
(* ticks, each with the right open, high, low, close and volume, all ended *)
(* but the last: across any cut of the ticks into batches, and however     *)
(* often the ring wrapped (ohlc.h:327, timeframeohlcgen.cpp:220,           *)
(* rangeohlcgen.cpp:214).                                                  *)
RingHoldsLatest ==
  loop \notin {"load", "update"} => Bars(ring) = Latest(history \o ExpectedBars, Depth)

(* "optimized compute version without trade-off" (price.h:67): after a     *)
(* process the arrays are what a full compute over the ring would give,    *)
(* though most calls only wrote the last element.                          *)
PricesMatchRing ==
  loop \in {"top", "fill"} /\ numLastBars = 0
    => prices = [i \in DOMAIN Bars(ring) |-> PriceOf(Bars(ring)[i])]

(* An analyser configured with update-at-close computes when the price     *)
(* says "consolidated": once for each bar that becomes the last one, at    *)
(* the first process that sees it, and never again for that bar            *)
(* (price.cpp:110, price.cpp:225, maadxtrendanalyser.cpp:74).              *)
AtCloseOncePerBar ==
  [][loop = "process" /\ prices' # <<>>
       => (consolidated' <=> (prices = <<>> \/ Last(prices').ts # Last(prices).ts))]_vars

Monotone(ticks) == \A i \in 2..Len(ticks) : ticks[i - 1].ts <= ticks[i].ts

LastAsked == IF loop \in {"update", "process"} THEN curTs ELSE curTs - timestep

(* The lines of the files of the range, which are those of the months that *)
(* begin before its end; no text line that could not be read.              *)
MonthsAsked == {m \in Month(FromTs)..Month(ToTs) : m * MonthLength < ToTs}
Line(p) == store[p[1]].records[p[2]]
Lines ==
  {p \in UNION {{m} \X DOMAIN store[m].records : m \in MonthsAsked \cap DOMAIN store} :
     Format(p[1]) = "text" => Line(p) # Malformed}
Upto(p, q) == p[1] < q[1] \/ (p[1] = q[1] /\ p[2] <= q[2])

(* What the calls so far had to give, and how many of them up to a line.   *)
Due == {p \in Lines : /\ FromTs <= Line(p).ts /\ Line(p).ts <= ToTs
                      /\ Line(p).ts <= LastAsked}
Rank(p) == Cardinality({q \in Due : Upto(q, p)})

(* When fillNext() is back, every tick of the files between the bounds of  *)
(* the stream and up to the time asked was handed over exactly once, in    *)
(* order (tickstream.h:70), when no month of the range lacks its file      *)
(* and the files do not go back in time.                                   *)
FillIsExact ==
  (/\ loop # "fill" /\ (curTs > FromTs \/ loop \in {"update", "process"})
   /\ \A p, q \in Lines : Upto(p, q) => Line(p).ts <= Line(q).ts
   /\ \A m \in MonthsAsked : Format(m) # "none")
    => /\ Len(delivered) = Cardinality(Due)
       /\ \A p \in Due : delivered[Rank(p)] = Line(p)

(* Whatever the binary files hold, the strategy never sees time go back    *)
(* (tickstream.cpp:276).                                                   *)
TimeNeverGoesBack ==
  (\A m \in DOMAIN store : store[m].format # "text") => Monotone(delivered)

(* A call of fillNext() comes back ("Number of filled ticks",              *)
(* tickstream.h:73), whichever of the two formats the files have.          *)
FillReturns == []<>(asked = NoCall)

(* It does when every month has a binary file or none: the stream tries    *)
(* the next month at the end of a file (tickstream.cpp:346).               *)
BinaryFillReturns ==
  (\A m \in DOMAIN store : store[m].format # "text") => FillReturns

(* The state is well formed; the cursors of the ring stay inside it.       *)
TypeOK ==
  /\ ring.first \in 0..(Depth - 1) /\ ring.last \in 0..(Depth - 1)
  /\ ring.size \in 0..Depth
  /\ gen.current \in 0..(Depth - 1) \cup {None} /\ gen.lastTs \in Nat
  /\ numLastBars \in Nat /\ lastClosed \in Nat /\ consolidated \in BOOLEAN
  /\ loop \in {"load", "top", "fill", "update", "process"}
  /\ at \in Nat /\ newBars \in Nat
  /\ ofs \in 0..Len(buffer) /\ finished \in BOOLEAN
=============================================================================
