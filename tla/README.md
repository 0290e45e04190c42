# SiiS Revolution in TLA+

TLA+ models, TLC configurations and TLAPS proofs for SiiS Revolution, an
automated trading program: a C++ engine (`src/strategies`) that runs strategies
in a backtest or live, and Python processes (`src/connectors`) that talk to the
brokers. Paths below are relative to `src/strategies/`, those of the connectors
to `src/connectors/`.

## The system

| Component | State | Operations | Source |
|---|---|---|---|
| Application thread | running flag, exit confirmation | run loop, progress, signals, terminate | `src/main.cpp` |
| Backtest handler | strategies, `m_curTs`, `m_running` | init, start, run (one or several strategies), stop, progress, terminate | `src/backtest/backtest.cpp` |
| Live handler | strategies, markets, `m_running` | init, run, onTick, onOhlc, terminate | `src/live/live.cpp` |
| Worker pool | queue of jobs, workers, CountDown | addJob, nextJob, Worker::run, done, wait, terminate | `src/poolworker.cpp`, `src/worker.cpp` |
| Strategy | life cycle, statistics, sessions, market | process (prepare, compute, finalize), signals | `src/strategy.cpp` |
| Strategies, analysers, indicators | series, last signal | compute, updateTrade, orderEntry | `src/strategies`, `src/analysers`, `src/indicators` |
| Trade manager | list of trades, mutex | addTrade, process, closeAllByDirection, onOrderSignal | `src/trade/stdtrademanager.cpp` |
| Trades (indivisible margin, margin, position, asset) | slots of orders, quantities, levels | open, close, modify, process, orderSignal, positionSignal | `src/trade/*trade.cpp` |
| Stop policies | configuration | break-even, trailing stop | `src/trade/breakeven.cpp`, `dynamicstoploss.cpp` |
| Trader proxy | pools of trades, orders, positions; account, assets | create and free, forward to the connector | `src/connector/traderproxy.cpp` |
| Paper connector | virtual orders, positions, account | createOrder, cancelOrder, update, closePosition | `src/connector/localconnector*.cpp` |
| ZMQ connector | send queue, threads, subscriptions | send, receive, dispatch | `src/connector/zmqconnector.cpp` |
| Tick streams | file, buffer, cursor | fillNext, bufferize, open | `src/database/tickstream.cpp` |
| Bars | ring of bars, current bar, price arrays | genFromTicks, writeElt, computeMinimalist | `src/utils/*ohlcgen.cpp`, `include/siis/ohlc.h`, `src/analysers`, `src/indicators/price` |
| Learning, optimisation, statistics, configuration, display | files, counters | batch, I/O | the directories of those names |
| Python storage | pending rows, tick buffers, month files | store, flush, process, close | `database/tickdb.py`, `database/database.py`, `database/mysql.py` |
| Python connectors | sockets, subscriptions, watchdog | a separate process | the rest of `src/connectors` |

How they interact. The backtest thread reads the ticks of a time step into the
market and has the strategy process them: on its own thread when there is one
strategy, as jobs of the worker pool behind a countdown when there are several.
`compute()` of a strategy decides a signal, closes opposite trades, lets the
trade manager process its trades, and opens a trade taken from the proxy's pool.
A trade talks to the connector through the proxy with orders and hears of them
through `onOrderSignal`, a call made *inside* `createOrder`, `cancelOrder` or
`update` of the paper connector, by identifiers: the `refId` it chose and the
`orderId` it learns. `update()` executes the limit orders whose price has come.
The application thread watches the progress, then stops the backtest, deletes
its strategies and terminates the pool, in this order.

What is hard in it:

- Each trade believes in three slots of identifiers, the connector in a table of
  orders and one position per market shared by all trades, the manager in a
  list, the proxy in a pool: four views that only agree if every path of every
  handler updates all of them (refusals, cancellations, executions inside a call).
- The single position of an indivisible market nets trades of both sides.
- The threads of the pool share strategies with the backtest thread; a barrier,
  whose count is set before the strategies are looked at, is all that separates
  them. The order of termination matters.
- With a real broker, signals are late, lost, repeated or reordered, and report
  totals or parts; the strategy goes on modifying and closing meanwhile.
- Ticks cross four cuts that need not agree: blocks of a file, months, requests
  of the loop, bars; the price arrays are updated in place when they can be.
- In the Python storage a stream thread, the db thread and the closing thread
  share lists under two locks, and a file or an insertion may fail half way.

What makes each component correct: *trades and connector* agree on what rests
(`OrdersOwned`, `OrdersRest`, `EntriesRest`) and on quantities (`NetPosition`,
`DeletedFlat`); a *trade* beyond its level is closed (`ExitHonoured`); the
*strategy* keeps to one side (`OneSided`) and leaves nothing on the other that
`closeAllByDirection` could close (`ReversalCloses`); a *strategy* is processed once per step and by one worker at
a time (`RefinesRounds`, `OneWorkerEach`), never after its deletion
(`FreedIdle`); *every round and the program* end (`RoundEnds`, `Ends`); with a
broker, a *trade* believes nothing that was not executed (`EntryBacked`,
`NotOverbooked`...), catches up once it was told everything (`EntryInStep`,
`PositionInStep`...), closes once (`OneClosingOrder`) and is rid of (`ClosingEnds`,
`ClosedIsPurged`); the *stop policies* never loosen a stop (`StopTightens`); the
*feed* hands every tick over once, in time (`FillIsExact`, `TimeNeverGoesBack`), in
the right bars (`RingHoldsLatest`, `PricesMatchRing`); the *storage* loses nothing
(`NothingLost`, `SavedAtClose`, `LatestRow`).
`PROJECT.json` lists the hazards line by line, with the properties that cover
them or the reason why none does.

## The modules

| Module | Models |
|---|---|
| `IndMarginTrade` | the trade of an indivisible margin position, as operators on a record: predicates, level tests, `orderSignal` |
| `PaperTrading` | extends it: one strategy, the single-strategy backtest loop, `compute`, the trade manager, the trade's operations, the paper connector |
| `MCPaperTrading` | the instances of `PaperTrading` for TLC |
| `WorkerPool` | the queue of jobs, the loop of the workers, the countdown |
| `BacktestLoop` | extends it: the multi-strategy loop of `Backtest::run`, the application thread that stops and terminates |
| `Rounds` | the abstract promise of that loop: time advances once every strategy has been processed once |
| `MCBacktestLoop` | the instances of `BacktestLoop` for TLC |
| `MarginTrade` | extends `IndMarginTrade`: the signal handler of the margin trade |
| `BrokerTrade` | extends it: a trade of either class, its operations, and an asynchronous broker |
| `StopPolicies` | break-even and trailing stop, as operators |
| `PositionTrade`, `MCPositionTrade` | extends it: the position trade, the manager around it, a broker of positions |
| `TickStream` | the reading of month files into blocks and requests |
| `BarFeed`, `MCBarFeed` | extends it: the loop that feeds a strategy, the generators, the ring, the price arrays |
| `TickStore` | the Python storage: three threads, tick files, market rows |
| `PaperTradingProofs` | types of `PaperTrading`; the orders of a strategy that manages its exits locally |
| `PaperNettingProofs` | the position nets the trades, orders belong to trades, levels hold, with exchange side take-profits |
| `BacktestLoopProofs` | the barrier: one worker per strategy, nothing used after deletion, the rounds implemented |
| `IndMarginTradeProofs`, `BrokerTradeProofs` | what the handlers do to a trade; what a trade may believe of a broker |
| `PositionTradeProofs` | the books of the position trade, the stops |
| `BarFeedProofs` | time never goes back, the arrays follow the ring, one computation at close per bar |
| `TickStoreProofs` | nothing lost by the storage |

### IndMarginTrade and PaperTrading

A trade is a record of its direction, quantities, levels and three slots
(entry, limit, stop: `IndMarginTrade::EntryExit`). A handler is an operator
from the *world* (`trades`, `book` of resting orders, `position`) to the world:
the connector calls back into the trade before it returns, so a call with all
its signals is one value, and the actions of the module are the iterations of
the loops of the program: a tick (`OnTick`), the signal (`ComputeSignal`), each
iteration of `closeAllByDirection` (`CloseOpposite`, `Reversed`), each iteration
of `StdTradeManager::process` (`ProcessTrade`) and its purge (`PurgeTrades`), the
entry (`OrderEntry`, `NoOrderEntry`), each iteration of `LocalConnector::update`
(`UpdateOrder`, `Updated`). Everything runs on the backtest thread, which is
what makes this grain exact. The order in which a loop visits trades or orders
is free.

Decisions:

- Prices and quantities are whole ticks and lots, prices positive. Fees, the
  virtual account, statistics and timestamps are left out; no guard reads them.
  What a signal or a trailing policy chooses is a free choice among `Levels`.
- An order has one identity, standing for its `orderId` and its `refId`, both
  unique (`o3d::Uuid::uuid5` is outside the repository and assumed to give fresh
  identifiers). `NewIds` offers at most one identifier that nothing refers to.
  A trade that needs an identifier when none is left cannot step; the instances
  have enough of them (in each, more than its orders and slots ever refer to at a
  time), deadlock is checked, and only one choice is offered since fresh
  identifiers are interchangeable. `OrderEntry` needs a free slot of `TradeIds`
  too, where the code allocates another trade: past it, only `NoOrderEntry` is left.
- The trade uses market and limit orders only, so the stop and take-profit order
  types of the connector are not modelled.
- `cancelOrder` announces CANCELED, and the caller clears the slot once more:
  one operator (`Canceled`).
- The pool resets a trade when it is freed (`PurgeTrades`); slots not listed are
  free.
- `allow-short` and the trading sessions also forbid an entry, that of a reversal
  which has closed the other side too: `NoOrderEntry` is always possible.
- The break-even and then the dynamic stop-loss act in one `process()`: `Updates` is
  what two of them, each free, make of the trade.
- The entry timeout is a free choice (`late`); the strategies give their manager
  the timeout but `cancelOpen` guards itself.
- The strategies of the repository only give `MOD_PREVIOUS` to `modifyStopLoss`;
  the other modifiers are public operations and are modelled.

### WorkerPool, BacktestLoop, Rounds

The actions are the steps between two accesses to shared state: a worker's test
of `m_running` (`Loop`), `nextJob` (`NextJob`), the end of
`strategy->process` (`Process`), `countDown->done` (`Done`); the backtest
thread's head of loop (`BeginRound`, `EndLoop`), `addJob` or the `continue` for
a strategy without ticks (`AddJob`, `SkipSilent`), `countDown.wait` (`Wait`,
and `SpuriousWake`, which POSIX allows); the application thread's look at the
progress (`SeeCompleted`), a user's or signal's request (`Quit`),
`Backtest::stop` (`Stop`, `WaitFinish`), `Backtest::terminate` (`Terminate`) and
`PoolWorker::terminate` (`TerminatePool`). Threads, mutexes and condition
variables are those of the external library o3d. In a backtest every strategy is
in the running state once its market data is finalised, so the only strategies
skipped are those without ticks, the constant `Silent`.

`BacktestLoop` implements `Rounds` by the mapping `ts <- m_curTs`, `processed <-`
the strategies of the round whose processing is over or that had nothing to process.

### MarginTrade and BrokerTrade

`BrokerTrade` takes the same trade records to a broker. `createOrder` returns
"sent" or refused and `cancelOrder` marks the order; whatever the broker does to an
order becomes a signal in a queue, delivered one at a time between two operations
of the strategy. The queue may repeat, reorder or lose a signal. A broker reports
the running total (`cumulativeFilled`) or the last part (`filled`), the choice of
`orderSignal`'s two branches. The two classes share the operations up to three
differences the module keeps apart by `kind`: the fields of the order, `close()`
(only the indivisible one records its order and sets `closing`), and
`orderSignal` (`MarginTrade` replaces its exited quantity by the total of one
order). Prices become "a level is set" and "beyond the level or not", a free
choice at each `process()`. Any operation may be called at any time, `remove` and
`cancelClose` too, though nothing in the repository calls them yet. The broker is
external; the bound `MaxSignals` is on what is on its way, never on what happens.

### StopPolicies and PositionTrade

A position trade follows one order and one position through two kinds of signals,
which travel in one stream or two. A flag stands for each identifier (`orderId`,
`refId`, `positionId`): known or empty, since there is one of each. The two
policies are sets of new stop-losses, empty when the code returns early; whether a
policy acts in a `process()` (its timeframe) is free. `modifyPosition` and
`closePosition` are accepted or refused by the broker, and a refused `close`
takes `closing` back. The broker fills in parts and reduces the position when a
close was accepted or a level it holds is reached.

### TickStream and BarFeed

`TickStream` reads month files, a record of a format and of ticks for each month,
block by block, across the end of a file and of a month, as `bufferize` does;
`FillNext` opens a request, each `FillStep` is one turn of the loop of `fillNext`,
`Returned` its end. When a broken record ends the last file, `bufferize` finishes
the stream with sound records in the buffer, and the turn of the loop that called
it still looks at the first of them (`LookAtFirst`). `BarFeed` is the single-strategy loop around it: a request,
the ticks into the generator one at a time (`DropTick`, `ExtendBar`, `OpenBar`),
the count of new bars, the analyser and `Price`. Times and prices are small
naturals and a volume is one per tick. The bars the properties compare with
are computed from the accepted ticks alone (`ExpectedBars`), not from the
generator. The timeframe generator is modelled with ticks of the "last" price; mid, bid
and ask are the same code over another field.

### TickStore

The actions are what a thread does between two accesses to a list of another:
`store_market_trade` is two steps (`Arrive`, `Store`) since it uses two locks,
`flush` copies and clears under its lock (`Visit`), writes tick by tick, and may
fail in the middle; `process_market` takes the rows, inserts them, or puts them
back. `close` waits, stops, joins, and flushes what is left. Ticks and rows are
numbers in the order they are stored; the rows of a market replace each other.
`recent` stands for the minute since the last save and may pass at any time.
`Faults` are the opening of a file (logged, then skipped by the code), a write, a
close and an insertion. Opening and inserting may fail again and again, a write and
a close once. A handle writes out what it buffers when it likes, so after a failed
write or close some of the last ticks of the flush may miss from its file (`Kept`).
The `close()` of a month change is inside the `try` of `flush` (`MonthCloseFails`),
the last one is not: it raises out of `Database.run`, which ends the db thread, or
out of `Database.close` (`CloseFails`: `"dead"`, `"raised"`). The handle that raised
is not `None`: the next flush writes to a closed file if it is of the same month
(`Leftover`). The insertion is that of `mysql.py`. The base classes are modelled as written: at this commit
`database/mysql.py:39` and `database/pgsql.py:48` use `import_module` without
importing it, so no connector can start on them before that is repaired.

## The runs

| Run | Specification and bounds | Shows |
|---|---|---|
| `paper_long` | long only, market and limit entries, exchange side take-profits; two trades, prices 1..3, spread 1 | orders, trades and the position agree; triggered levels are honoured |
| `paper_reversal` | both sides, market entries, reversal, take-profits on the exchange; three slots, max-trades two | one side at a time, netting through reversals |
| `paper_local` | both sides, both entry types, exits managed locally; three slots, max-trades two, one level | the orders are the unfilled entries; what a reversal leaves on the other side |
| `rounds_safe` | three strategies, one possibly silent, two workers, three steps | one worker per strategy, rounds, no use after deletion |
| `rounds_live` | two strategies with ticks in every step, two workers, fairness | rounds and the program end |
| `broker_trade` | either class, both ways to report, three orders, an entry of two lots, two signals on their way, one fault of any kind | what the trade believes is backed; it closes once; `closing` ends |
| `position_trade` | long and short, both ways to report, one or two streams, two lots, levels on both sides of the price, one fault | the books balance, the stop tightens, a closed position ends the trade |
| `bar_feed` | up to five ticks over two months, blocks of two, steps of one and two, rings of two bars, histories of none to three bars, broken files, the last one too, missing and malformed ones | exact filling, the bars, the arrays, one computation at close per bar |
| `tick_store` | three ticks over two months, two rows, one kind of failure (open, write, close, insert) | nothing lost or doubled, the latest row, `close` saves, and returns unless the db thread died on a `close` |

Two trades and two resting orders each, three trades where a reversal may list one
past max-trades, are what an interaction between trades
takes: every property speaks of a trade, or of a pair, and the single position.
Three price levels put a price below, at and above a level; the spread makes
the bid and the ask differ. Two workers for three jobs make a worker take a
second job in a round; three steps let a late worker of a round meet the next.
In `broker_trade` three orders are an entry, an exit and a close; two lots make
executions partial, and two signals are what it takes to reorder. In
`position_trade` stop levels below and above the entry price let the policies and
`modifyStopLoss` meet on both sides of it. In `bar_feed` blocks of two make a request span
blocks, blocks span months and the ring of two wrap twice; timestamps include the
bounds of the range, both sides of them and duplicates. In `tick_store` the second
and the third tick are in different months, so a batch of three changes month in
the middle and a failure can fall before, at and after the change.

Deadlock is checked where the system never rests. It is not in `BacktestLoop`,
which ends, in `BrokerTrade` and `PositionTrade`, where a purged trade with
nothing on its way is the end of the story, in `BarFeed`, whose backtest ends at
`ToTs`, and in `TickStore`, which closes.

Three runs end in a violation of something the repository says of itself;
`PROJECT.json` quotes it:

| Run | What happens |
|---|---|
| `rounds_silent` | a strategy without ticks leaves the barrier closed: the backtest hangs |
| `stream_text` | the end of a text file is never seen: `fillNext` loops for ever on the format the stream falls back to |
| `tick_retry` | after a failed write the ticks already written are queued again, and as many of those stored meanwhile are dropped |

### Known divergences without a run

Met while modelling and visible in the modules; the passing runs avoid them by
their parameters or by the antecedents of their properties:

- `createOrder` asks `closeExecPrice` with the direction of the closing order: a
  long closed at market exits at the ask (`localconnector.cpp:308`,
  `market.h:313`).
- A reversed position keeps its direction (`localconnectorindmargin.cpp:549`,
  announced at 43). Opposite trades that net to no position can no longer be closed
  (97). The runs of `PaperTrading` never enter more than the position.
- An accepted limit entry is never OPENED (`indmargintrade.cpp:423`), so
  `cancelOpen` leaves it resting at a reversal and it fills later on the other
  side (`maadx.cpp:319`): `OneSided` is checked with market entries.
- `closeAllByDirection` counts such an entry as closed all the same
  (`stdtrademanager.cpp:351`), and `numClosed` lets the new trade in past max-trades
  (`maadx.cpp:342`): with limit entries of both sides (`entry.cpp:106`) a strategy
  lists more trades than its maximum, again at each reversal. No property bounds
  their number; `ReversalCloses` (`paper_local`, which reaches it) says which trades
  the reversal may leave.
- A take-profit refused at its price leaves the book without a signal
  (`localconnector.cpp:504`) and the slot keeps its identifier: the next one is
  orphaned (`indmargintrade.cpp:271`).
- `main.cpp:483` displays "Completed !" at `m_curTs = m_toTs`, whose step may not
  have been run (`backtest.cpp:256`, 436).
- `MarginTrade::close` neither records its order nor sets `closing`
  (`margintrade.cpp:315`): it sends another at each `process()` and stays active.
  `cancelOrder` with the empty identifier of an order not yet acknowledged cancels
  nothing: the close and that order may both execute.
- `close` of an indivisible trade overwrites the `refId` of a stop that was not
  acknowledged, and signals of a given up stop clear `closing`
  (`indmargintrade.cpp:284`): the antecedents of `ExitInStep` and
  `OneClosingOrder` say so.
- An OPENED of the order after the position has opened puts a filled position
  trade back to OPENED, no longer active (`positiontrade.cpp:363`; `trade.h:372`).
  `close` before the position is known cancels at most the entry (231).
- The average prices of later entries divide by a product of quantities
  (`positiontrade.cpp:572`); those of later exits by the new term only
  (`indmargintrade.cpp:789`). The operators keep the code's arithmetic.
- For a short the trailing stop starts when the price has NOT moved by the
  break-even distance (`dynamicstoploss.cpp:139`, the comment at 132).
- Ticks at the time of the previous one are dropped by the generators
  (`timeframeohlcgen.cpp:224`); a missing month ends a stream that began before
  it (`tickstream.cpp:377`); every tick of a block gets its side from the first
  one (289, `m_preBuffer[40]`). `FillIsExact` asks for a file in each month.
- The end of a range is inclusive (`tickstream.h:70`), but a month that begins at that
  very time is never opened (`tickstream.cpp:250`, 367): `FillIsExact` speaks of the
  files of the months that begin before the end.
- `prepareMarketData` reads the history of every analyser into the one buffer of
  the market and never empties it (`hmama.cpp:224`, `market.h:436`): the second
  analyser is given the bars of the first one, of another timeframe, before its own.
  `MCHistories` has such a bulk. What is checked of the bars and the arrays still
  holds; that the ring may start with bars of another timeframe is not a property.
- A batch of rows that fails after `close` saw its list empty is never retried,
  user trades and liquidations are not waited for (`database/database.py:178`),
  and a file that cannot be opened skips its ticks (`database/tickdb.py:75`).
- The `close()` that ends `flush` is outside its `try` (`database/tickdb.py:147`),
  and a small batch only reaches the disk there: when it raises, the db thread ends,
  the ticks of the batch are in no list any more, and `Database.close` waits for
  ever if a row is pending (`database/database.py:178`). It does too while the
  insertion keeps failing (`database/mysql.py:271`). `CloseReturns` excepts exactly
  these, `NothingLost` and `SavedAtClose` speak of behaviours without that failure.
- `pgsql.py:194` inserts a row of the market only when its margin factor is missing,
  the `INSERT` being under that `if`: the others are dropped. `LatestRow` speaks of
  `mysql.py`.

## Fairness

`rounds_live` and `rounds_silent` use `FairSpec`: weak fairness of the backtest
thread, of the application thread and of each worker. The workers poll without
blocking, the application thread loops every 10 ms, and the backtest thread is
only kept from running by `wait()`, whose wake is part of `Done`: an operating
system that schedules every runnable thread gives exactly that. `Quit` is a
user's choice and is not fair; a spurious wake is possible and not relied on.

`position_trade`: the signals on their way arrive (`Deliver`), the manager purges
at each turn (`Purge`), and a broker executes the close it accepted
(`CloseAsked`); no operation of the strategy, and neither a fill nor a level, is
fair. `bar_feed` and `stream_text`: the one thread of the backtest goes on.
`tick_store`: the db thread, a flush once begun and `close` once called go on; the
locks are held for a few statements and nothing else blocks them. Arrivals, the
minute and the call of `close` are not fair. `CloseReturns` assumes that insertions
do not fail for ever: the server comes back at some time.

## What is proved

TLAPS checks, for every value of the constants that satisfies the assumptions:

- `PaperTradingProofs!TypeCorrect`: `Spec => []TypeOK`. `TypeOK` alone is not
  inductive: the loops index `trades` with what is left in `todo`. The invariant
  `TInv` adds that these are listed trades (`TodoListed`) and the analogous fact
  on the orders `update` visits. One lemma per operator says what it keeps of the
  types of a world.
- `PaperTradingProofs!EntriesRestAlways` and `OrdersOwnedAlways`, under
  `NoDistant` (no modifier is `MOD_DISTANT`; `MOD_PREVIOUS` then never becomes
  distant, because the invariant says the slots are idle). The inductive
  invariant `LInv` is `TInv`, `EntriesRest` and `TodoResting`: every listed
  trade has idle exit slots and either a filled, idle entry or an entry that
  rests in the book, is not yet closed and belongs to no other trade; each
  order of the book is such an entry; the orders still to be visited by
  `update` rest. `OrdersOwned` follows from it.
- `PaperNettingProofs!NetPositionAlways`, `OrdersRestAlways`, `ProfitsOwnedAlways`,
  `ExitHonouredAlways`, `OneSidedAlways` and
  `DeletedFlatAlways`: everything `paper_long` and `paper_reversal` check, for any
  number of trades and orders, any quantities, prices and levels. Two assumptions,
  which both configurations satisfy. `NoDistantStop`: no stop-loss is asked of the
  connector; every call of `modifyStopLoss` in the strategies and policies gives
  `MOD_PREVIOUS` (`dynamicstoploss.cpp:159`, `breakeven.cpp:76`,
  `supertrendstrat.cpp:358`), and that only becomes distant if the slot
  already has an order. `OneWay`: the strategy trades one direction, or it enters at
  the market only and reverses by closing the other side first. Without it two
  limit entries of opposite sides execute in one market that has one position, and
  the second closes what the first opened. Take-profits may rest in the connector.

  One inductive invariant, `NInv`, gives all six; none is inductive alone.
  - `Owns`: a listed trade waits for its entry order (`Waiting`), or holds what it
    entered with at most a reduce-only take-profit of that quantity (`Held`), or
    has exited all of it (`Exited`); no order belongs to two trades, and each order of
    the book belongs to one. This is what makes an execution reach its trade.
  - `Nets`: the position is the sum over the list of what is left to each trade, and
    every trade that holds something is on its side. A handler changes one trade,
    in one of three ways: nothing moves (`Keeps`), the trade exits and the position
    loses exactly its quantity (`Leaves`), or it enters and the position gains it
    (`Enters`). A position is dropped when it comes to zero, which by the sum is when
    the last trade leaves.
  - `Sided`, `NoneWaits`, `SignalSide`: why `Enters` never meets a position of the
    other side. `TodoResting`: why `update` does not execute an order it has
    already removed. `Collected`: `process` collects the trades that are closed, and
    leaves none of those it visited. `Watched`: trades already processed are within
    their levels.

  The sum is `SumFunctionOnSet` of the community modules, a recursion over the set.
  The library proves its laws by induction with an operator as parameter, which
  the provers at hand cannot instantiate. The module derives what it needs in first
  order instead: well-foundedness of `<` on `Nat` gives a least counterexample
  (`LeastElement`), hence induction over the subsets of a finite set with the
  predicate as a *set* of subsets (`SubsetInduction`), hence that the recursion has
  a solution (`SumsExist`), only one (`SumsUnique`), and that removing an element
  takes its value from the sum, whichever `CHOOSE` picks first.
- `BacktestLoopProofs!OneWorkerEachAlways`, `FreedIdleAlways` and
  `RoundsImplemented`, for any number of strategies, workers and steps. None of the
  three is inductive. What makes the barrier work is the invariant `BInv`: a worker
  holds a job exactly while it is busy (`JobsHeld`); a strategy is either to visit,
  or queued once, or held by one worker (`OnePlace`, `OneWorkerEach`); the number
  of those pending is at most the countdown, and outside a round nothing is
  pending (`Covered`). `wait()` returning means a countdown that is not positive,
  hence nothing pending (`RoundOver`). `Stopped` says that the application thread
  only moves on once the loop has ended. A silent strategy makes the countdown too
  large, never too small: these theorems hold with silent strategies, it is the end
  of the round that does not (`rounds_silent`). The refinement is the case analysis
  of the steps: the end of `process()` and a skipped strategy are `ProcessOne`,
  the return of `wait()` is `NextRound`, everything else leaves the rounds alone.
  The proof uses the cardinality theorems of `FiniteSetTheorems`.

- `BrokerTradeProofs!EntryIsBacked` and `MarginExitIsBacked` (and `BrokerTypes`),
  for any orders, sizes, faults and length of the queue. Neither is inductive: a
  signal from far back in the queue may be applied to a slot that has changed its
  order meanwhile. `BrokerInv` says that the identifiers of the entry slot name
  entry orders and those of the other slots exit orders (`IdsOf`), and that each
  total on its way is positive and at most what its order has executed
  (`Sound`); an order executes no more than its side (`Bounded`). A total then stays
  true when the order executes further, when it is repeated and when it is late.
  The lemmas say of each handler and operation what it does to a consistent
  world; `IndMarginTradeProofs` holds the types they share.
- `BrokerTradeProofs!ClosingEndsAlways`. `ClosingKept` adds the roles of the orders
  a slot names, and that the order of a closing slot is `Awaited`: it is live, or a
  signal that ends it is in the queue. That signal is the one the slot recognises,
  so the flag goes with the last of them, whatever came before it or twice.
- `BrokerTradeProofs!EntryInStepAlways`. That the trade knows everything in the end
  does not follow from knowing no more than there is: the proof needs to know what
  each execution still in the queue will add. `OrdersKept` describes the orders (an
  order is not live once it is executed or its end was told, and nothing is traded
  after its end). `Ledger` gives, for each execution in the queue, what its order had
  executed then, growing along the queue. `Path` says that these executions lead, one
  from the other, from what the slot counted to what the order executed. Each signal
  delivered moves the start of the path, each execution its end; an empty queue
  is a path of length zero. `EntryKept` ties it to the one entry order of a trade.
- `BrokerTradeProofs!OneClosingOrderAlways`. `ClosedOnce` says that a live closing
  order is the one of the closing slot, which asked for the same quantity. The slot
  drops the flag when it believes the order complete, so the proof must exclude that
  it believes so too early: `Behind` says that what it counted is at most what any
  execution still in the queue starts from. Lost signals leave it further behind;
  repeated ones would not, hence the condition of the property.
- `BrokerTradeProofs!ExitInStepAlways`. `ExitsFollowed` is a `Path` again, from what
  the slot counted of the present closing order; what earlier orders exited is in
  `exitQty`, because the flag is dropped only once nothing more of them is in the
  queue. The four proofs share the lemmas that say what an operation of the strategy
  (`Moves`), an opening (`Opens`), a report (`Reports`) and a signal (`Hears`) do to
  a world, whatever the class of the trade.
- `BrokerTradeProofs!IndMarginExitIsBacked`. A slot of an IndMarginTrade may follow
  two orders, when `close()` overwrites the `refId` of one that is still to be
  acknowledged, and counts both in one `execQty`. `ExitRoom` has two parts. `Room`
  gives, for each order, what it executed and the trade has not counted, and for
  each execution in the queue a place after what was counted: hearing a part late
  moves the places before it, a total heard in turn has none before it. `HasRoom`
  says that the trade's quantity and what the orders of its two slots may still add
  (`Debt`) are together within what was sold, and that a slot counted no less
  than was counted of either of its orders (`SlotRoom`): so a total, less what
  the slot counted, is no more than what its own order still has to add.
- `PositionTradeProofs!BooksAlwaysBalance` (and `PositionTypes`): the invariant is
  the types with the balance itself, through every branch of `positionSignal`.
  `StopsTighten` is an action property from the same invariant:
  `PoliciesTighten` states that a policy returns no looser stop, for every
  price and distance, and `UpdateTightens` that two policies in a row do not
  either, whatever the broker answers in between.
- `PositionTradeProofs!NeverOverbooked`: each report of the position has an
  *account*, how much the broker had executed of the entry and sold when it was
  sent. `Ledger` says that the quantities of a report agree with its account, that
  accounts grow along the queue (by the executed part, when the report gives
  one) and end below what the broker has done so far, and that the trade is within
  the account of everything it has not heard. So hearing a report late, or after
  others were lost, brings the trade within that account and hence within all the
  later ones. A repeated total changes nothing; a repeated part would be added
  twice, hence the condition of the property.
- `PositionTradeProofs!PositionKnown`: `Way` gives, for every place in the queue,
  what the trade will know there: from what it knows now, one report at a time, to
  the position of the broker. `Named` is what keeps the way open: the order
  signals that make a trade forget its order come after the first report of its
  position, which it recognises by that order. A cancel of the strategy's own breaks
  exactly this, hence `~order.revoked` in the property.
- `BarFeedProofs!TimeIsMonotone`: `InTime` orders, along the way of a tick, what was
  delivered, what is in the request, what is left of the buffer and the last time
  `bufferize` accepted; each step moves ticks from one to the next, the last turn of a
  stream that a broken record ended too (`LookAtFirstInTime`).
- `BarFeedProofs!FillHandsOverAll`, for any split of the ticks into months, blocks and
  requests. What the files must satisfy is in the property: a month without a file
  ends the stream, and a block that goes back in time ends its file. A line is named
  by its month and its place (`Lines`), so that two equal ticks are two lines.
  `FillInv` says that the lines read so far form a list that only grows
  (`Listed`): its first part was skipped, the next one is what the calls gave
  (`Handed`), the rest is what the buffer still holds (`Ahead`), and the lines of the
  list are those up to the place reached in the file of `m_cur` (`HasRead`). `Reading`
  keeps that place inside the range and `m_lastTs` behind what is left, so a sound
  file is never taken for a broken one (`BinaryInOrder`). The stream ends at a tick
  past the range or at the last file, with an empty buffer when the files are sound
  (`BufferizeEnds`), and then nothing of the range is left
  (`Through`, `EndOfFileMonth`). `ReadablePicks` says what a block of text gives, by
  the least line where it would not; `HandedIsDue` counts.
- `BarFeedProofs!PricesAreTheRing`. `PriceInv` says what `m_numLastBars` means at each
  place of the loop (`Priced`): when it is zero the arrays are those of the ring; when
  it is one and there is a current bar, all but the last element are, and nothing was
  opened since. The shapes of the ring (`RingShape`) and of the generator (`GenShape`)
  put the current bar last, so rewriting the last element repairs the arrays. A
  history of one bar also gives one, but is never enough for a ring of two.
- `BarFeedProofs!ComputedOncePerBar`: `Dated` says that the last bar is not later
  than the last tick, that the last of the history is before the range, and that what
  follows a dated bar is dated; so no bar opens before the one it follows, whichever
  the kind. `Closed` ties `m_lastClosedTimestamp` to the last element computed, and
  says that there are enough bars for good once there were. That a text file gives
  ticks at all (`ReadableTypes`) is an induction over its lines, by their least
  counterexample.
- `TickStoreProofs!NoTickLost`, `LatestRowWins`, `CloseSaves` (and `StoreTypes`),
  in all interleavings. `RowsInv`: what is being inserted and what is pending are,
  end to end, the rows up to the last one stored, and the table holds the one
  before. `FlushInv`: there is a batch only during a flush, and a handle is left open
  between two flushes only if one failed to write or to close. For `CloseSaves`,
  `TicksSaved` and `RowsSaved` say at each stage of `close` what is still to be
  done: until the last flush the ticks stored before are in memory or in both
  files, and after `stop` no row from before is pending.
- `TickStoreProofs!TicksWrittenOnce`: `OrderInv` says that ticks move in order from
  `_ticks` to the copy a flush writes and from there to the files, that what is
  further along was stored earlier, and that an open handle is on the month of the
  tick being written, which is why none is written to another month's file.

The assumptions are the named ASSUMEs of the modules (`NoIdAssumption`,
`PaperAssumption`, `PoolAssumption`, `LoopAssumption`, `BrokerAssumption`,
`PositionAssumption`, `StopAssumption`, `StreamAssumption`, `FeedAssumption`,
`HistoryAssumption`, `StoreAssumption`): finite sets of strategies and workers, model
values apart from data, non negative bounds. `HistoryAssumption` says that the bars an
analyser starts with are dated, and that the last one is before the range, because
the queries stop one second before it (`hmama.cpp:203`), and by timeframe aligned on
it; those before it may belong to another analyser. TLC evaluates all of them in the
runs.

Only model-checked: `RingHoldsLatest`, which compares the bars with a recursive
definition over the whole history of ticks, cut at sorted sets of indices, whose
operators the provers know nothing about; and liveness
(`RoundEnds`, `Ends`, `ClosedIsPurged`, `BinaryFillReturns`, `CloseReturns`), which is
out of its reach too.

## Not modelled

- Arithmetic on series: the indicators other than `Price` and `Volume`, the signals
  of the strategies, statistics, optimisation and learning. Nothing else reads
  their state; `PaperTrading` and `PositionTrade` leave their choices free.
- Vendored and generated code: `third/ta-lib`, which is nine tenths of the lines of
  the repository, the build, SQL schemas, scripts.
- I/O: configuration, display, logging, the cache, message encoding, the queries of
  `src/database` and of the Python tables; the tables other than `market`
  repeat its pattern.
- Stubs and unfinished parts: asset trades and FIFO paper execution, the paper
  connector's position market (`localconnectorposition.cpp:192`), the live handler
  (its strategies never reach the running state, so its loop processes nothing),
  the ZMQ connector (its queue keeps addresses of local variables, its reader
  dispatches nothing), the Python message server.
- Variants of modelled code: distances in percent of the policies, the mid, bid and
  ask bars, bars from bars, the reversal generator, the preferred text mode of a
  stream.
- Locks of the trade manager and of the proxy, and `connector->update()` against a
  worker inside a handler of a trade: the handlers would have to be split at
  their calls to the connector, which only the multi-strategy backtest exercises.
  `PROJECT.json` lists the hazard.
