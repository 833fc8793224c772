# A verification project for the trading platform

TLA+ modules, TLC configurations and TLAPS proofs for the parts of this
repository in which orders, positions, prices and switches are shared between
threads, processes and a broker.  Paths are relative to `src/`, the root of the
repository.

* Section 1 lists the parts of the system, section 2 the modules and the state of
  the plan.
* Sections 3 to 8 go through the modules: state, actions, abstractions, fairness,
  behaviours a reader of the code should know of.
* Section 9 describes the runs and their bounds, section 10 the proofs, section 11
  what is not modelled.

## 1. Inventory

The repository holds two trading engines on one broker gateway.

| component | state | operations | what makes it hard | correct when |
|---|---|---|---|---|
| **intraday session loop** `intraday/runtime/loop.py`, `server/runner.py`, `server/app.py` | tracked positions, halt, flatten request, session day, pause | one tick: flatten, exits, risk, halt, scan, entries; start-up recovery and reconciliation; API: kill, pause, resume, mode | engine thread and API thread share the fields without a lock; the process may die between any two steps | memory, journal and broker agree; a kill or a halt really stops entries; everything ends flat |
| **intraday execution link** `intraday/brokers.py`, `orders/manager.py` | none (the broker's account) | place, confirm, cancel, positions | answers lost, cancels that fail, partial fills, unreadable book | status and filled shares tell what traded |
| **intraday journal** `intraday/journal/store.py` | positions, trades, halt flags (SQLite) | open, close, partial (each of the last two: two commits) | death between commits | a restart restores what was managed; every share is recorded once |
| **intraday rule engine** `intraday/rules` | none | check | rule priority | square-off beats every rule, entries capped |
| **intraday exit machine** `intraday/exits` | stop, flags of a position, its journal row | I0 to I8 each tick | failed and short partials, failed journal writes, restarts | a stop that reached the entry stays there |
| **intraday risk governor** `intraday/risk` | equity curve, halt | size, caps, heat, throttle | the budget is edited while entries are sized; adopted positions | the book an entry joins still pays for itself |
| **intraday scanner, selector, agents** | none | score, choose a vehicle | numerics | – |
| **gateway execution coordinator** `gateway/app/services/execution_coordinator.py` | reservations per contract and per intent, a lock per account | reserve, release, submit | TTLs against slow broker calls | never two orders in flight for one contract or intent |
| **gateway auto-exit** `gateway/app/services/targets.py` | targets, "already exited" marks, watchers | tick handler, order placement, watch and re-arm | asyncio interleavings at each await | exits never commit more than is held; a fired target is not dead |
| **gateway reconciliation and lots** `gateway/app/services/{reconciliation,lots}.py`, `routers/{orders,lots}.py` | lots, exits (SQL) | pass over the order book, imports, position sync, offsetting, exit, cancel, roll over | readings taken before and used after other writes, lost answers, out-of-band fills, a death between claim and placement | the ledger of lots equals the account, each fill counted |
| **gateway P&L** `gateway/app/services/pnl.py` | position rows, lots | value a row, value a lot | two accounts of the same money | they agree at every price |
| **gateway persistent orders** `gateway/app/services/persistent_orders.py` | last submission date, remaining quantity | create, daily sweep, reconcile, cancel | a death between placement and commit; routes racing with the sweep | one order per order and day; the remainder is what is not bought yet |
| **gateway ticker hub** `gateway/ticker_manager.py`, `routers/ws.py` | subscriptions, socket, reconnect, probes | connect, subscribe, reopen, watchdog, probes | four threads and the library's own redial | what is wanted is streamed; the feed heals |
| **gateway broker session and egress** `gateway/brokers/shoonya/{_token_cache,adapter,netproxy}.py`, `routers/legacy_auth.py` | token file, code, proxies | login, disconnect, log in again; place over proxies | read-modify-write of a file without a lock, one session per account; lost answers | the gateway ends up with the token the broker honours; an order is placed once |
| **legacy engine exits and executor** `engine/{exits,executor}.py` | paper position with a live leg, plan, stop | enter, manage, close, retry net | paper closes before the live leg does; a walk that must equal its simulation | the live leg ends flat; booked target 1 means no loss |
| **legacy engine sweep, agent scanner, orchestrator, switches** `engine/{scanner,agent_scanner,orchestrator}.py`, `core/{killswitch,trade_mode}.py`, `server/app.py`, `run_app.py` | pause, mode, phase, loss of the day (files and memory) | tick, sweep, pause, resume, restart | four threads that read then act | a lost day opens nothing live; a pause holds |
| **tick feed** `feed/{cache,pump}.py`, `shoonya_client.py` | last quote per key, subscriptions, ages | publish, read, subscribe, replay, poll | staleness, replay racing with subscriptions | a price taken as fresh is recent |
| **quant data hub** `quant/datahub.py` | caches with lifetimes, circuit breaker | quote, candles, chain | threads without a lock, values computed from cached values | what is served is recent; data return after an outage |
| **signals** `signals/*.py` | walks with memory over a frame of candles | supertrend, regime, pullback leg, signal of the day | frames of different lengths must agree | live sweep and replay do not drift |
| **zero-loss search** `strategist/{zeroloss,payoff}.py` | none | scan a chain | a floor computed on the strikes only | a structure it returns cannot lose |
| legacy engine scanners and P&L reports, quant, strategist, news, assistant, activity log, frontend | – | scoring and presentation | – | no state whose order matters |

Who talks to whom: the intraday engine thread calls rule engine, exit machine
and governor as functions, writes the journal, and places orders through
OrderManager → GatewayBroker → HTTP → gateway routers → coordinator → broker
adapter → proxies.  The API thread (FastAPI handlers) writes the loop's fields
directly.  The gateway runs one asyncio loop whose tasks (tick handlers,
watchers, sweeps, request handlers) interleave at every `await` and share
dictionaries and SQL tables with a reconciliation thread.  The legacy engine has
a scanner thread, an agent thread, an orchestrator loop and a user interface; it
reads market data from its own feed and data hub and trades through the same
gateway.

The hazards, each at its line, are the `hazards` of `PROJECT.json`.

## 2. Modules and plan

| modules | what they model | section | state |
|---|---|---|---|
| `SessionLoop`, `MCSessionLoop`, `SessionLoop_proofs` | intraday loop, execution link, journal, API handlers, crashes | 3 | checked and proved; liveness checked |
| `ExitDesk`, `AutoExit`, `MCAutoExit`, `AutoExit_proofs` | the promise of the automatic exits, and the gateway's code for them | 4 | checked (safety, refinement, liveness); types, the booking of fills and the refinement of symbol and exchange targets, and of lot targets, proved |
| `LiveExits`, `TradingDay`, `StopWalk`, `ExitMachine`, `MCEngines`, `Engines_proofs` | legacy paper position with its live leg; who may open and when; the stop of a position bar by bar and its simulation; the intraday exit rules | 5 | checked, every safety property proved; liveness checked |
| `ExecutionCoordinator`, `Rollover`, `PersistentOrders`, `LotLedger`, `Egress`, `MCGatewayOrders`, `Rollover_proofs`, `GatewayOrders_proofs` | the order side of the gateway: reservations, rollovers, hold-until-filled orders, the ledger, the way of an order to the broker | 6 | checked, every property proved |
| `FeedHub`, `PushFeed`, `DataHub`, `BrokerSession`, `MCFeeds`, `Feeds_proofs` | market data and sessions | 7 | checked; every safety property proved |
| `SignalWalk`, `ZeroLoss`, `OiSweep`, `RiskDesk`, `DayPnl`, `MCDecisions`, `Decisions_proofs` | what decisions are made on | 8 | checked; signals, sweeps, the risk desk and the two accounts of a profit proved |
| `Totals_proofs` | lemmas about sums, least and greatest elements of finite sets | 10 | proved |

Left of the plan: proofs about what the ledger and the P&L add up to; the
composition of `SessionLoop` with the gateway.

## 3. The intraday session: `SessionLoop`, `MCSessionLoop`, `SessionLoop_proofs`

### State

| variable | code |
|---|---|
| `pos`, `halted`, `flattenReq`, `engineDay` | `SessionLoop.positions`, `.halted`, `._flatten_request`, `._day` |
| `paused`, `savedPaused`, `mode` | `cfg["paused"]` in memory and in the config file; `cfg["mode"]` with the broker object it selects |
| `row`, `booked`, `haltFlags` | OPEN rows of `positions`, shares in `trades`, `flags` named `halted:<day>` |
| `net`, `restBuy`, `restSell` | the broker's net position and the orders still working there |
| `pc`, `tick`, `todo`, `job`, `book` | where the engine thread is: stage of the tick, the `now` read at its start, contracts the loop has still to visit, the order or journal write it is in, the start-up snapshot |
| `api` | where the API thread is inside a handler of several assignments |
| `opened`, `killed`, `sealed` | observation only; no action of the program reads them |
| `entries`, `crashes`, `ops`, `slips` | counters of the bounds |

### Actions

A tick is `TickBegin` (roll-over or `_restore_halt`, flatten request taken), then
`FlattenOne`/`FlattenEnd`, `ManageHold`/`ManagePartial`/`ManageExit`, `ExitsEnd`,
`RiskCheck`, `HaltRead`/`PersistHalt` (two database calls), `ScanAndGate`,
`EntryApprove`/`EntryRefuse`, `EntriesEnd`.  A placement (`PlaceExit`,
`PlaceEntry`) and each journal commit (`BookPartial`, `ShrinkRow`, `CloseRow`,
`BookClose`, `OpenRow`) is a step of its own: those are the places where the API
thread can run or the process can die.  `Start`, `ReconcileMatch`,
`ReconcileGhost`, `ReconcileAdopt`, `ReconcileEnd` are `EngineRunner.start` and
`reconcile_with_broker`.  `Kill`, `Pause`, `Resume` and their continuations are
the handlers, one assignment visible to the engine per step.  `Crash` may come
anywhere, and an order that was on its way still trades.  `SquareOff`, `NextDay`
and `RestFill` are the market's.

An answer of the broker is a record `(status, seen, done, left)`: what `place()`
returns, the shares it reports, the shares that traded, those left working.  The
honest link (`CleanAnswers`) reports what traded, in part or in full, or
refuses.  `Faults` admits, one by one, what the code's comments discuss: a cancel
that does not take effect, an order that then trades, an answer that is lost, an
unreadable position book, a broker that squares off itself, an operator who
switches modes with open positions.

### Abstractions

* Prices, signals, scores, sizing, budget, margin and the model gate are the free
  choice between `EntryApprove` and `EntryRefuse`; the cooldown and the lot cap of
  the rule engine are in that refusal too.  `RulesPass` keeps the rules that read
  shared state.
* The exit machine is a free choice among hold, partial and full, except at
  square-off (rule I0), where only the full exit is left.
* `/api/pause`, `/api/kill` and `/api/resume` set `cfg["paused"]` and save it in
  one step; the file write cannot fail.
* A contract has one side.  The futures hedge, where both sides of one contract
  are tracked as two positions, is listed under the hazards without a property.
* A broker row for which no price can be found is not adopted by the code; in the
  model every row has a price.
* `NextDay` needs a running engine to be between ticks and its account to be flat
  (the day's square-off has done its work) unless `rms_square_off` is admitted.
* A new day clears `halted` and its flags, so a kill that comes after midnight and
  before the first tick of the day is lifted by that tick.  That is what the code
  does; `killed` ends with the day for that reason.

### Fairness

`WF(Engine)`: the engine thread sleeps a bounded time between ticks and every
call it makes has a timeout.  `WF(Handlers)`: a handler that began finishes.
`SF(ExitFilled(s))`: an exit order is retried every tick; a market that refuses
each of infinitely many is excluded, any finite number of refusals is not.
Without it neither liveness property holds, and neither should.  Nothing is
assumed fair of the operator, the clock, the crashes or the entries.

### Further counterexamples

`SessionLoop` also says what the promises cost: each of the following violates a
property of section 9 under a fault or a bound the passing runs leave out, and
becomes a TLC run by changing a constant or two of the configuration named.

* `SL_crash.cfg` with `Faults = {"blind_positions"}` violates `BrokerMatchesTracked`: a
  position read that fails at start-up looks like an empty account
  (`intraday/brokers.py:265`).
* `SL_crash.cfg` with `Faults = {"cancel_fails"}`, `MaxSlips = 1` sells an exit that
  is still resting a second time; with `EntryQty = 3` a partial exit that ends
  WORKING books none of the shares that were sold (`intraday/runtime/loop.py:377`).
* `SL_live.cfg` with `MaxCrashes = 1` violates `NoEntryAfterKill`: a kill raises the
  halt in memory, the flag is written by the next tick (`intraday/server/app.py:233`),
  so a process that dies first restarts paused but not halted, and an un-pause lets
  entries through.
* `Faults = {"mode_toggle"}`: `set_mode` swaps the broker under open positions, so
  paper positions are exited with real orders (`intraday/server/runner.py:158`).
* `HaltRead`, `Resume` to its end and `PersistHalt`, in that order, leave the flag
  of a halt the operator has lifted in the journal (`intraday/runtime/loop.py:168`);
  the next restart restores it.
* An entry that ends WORKING or in a timeout is not tracked, though it may trade
  (`loop.py:895`); a broker that squares off itself is answered by another exit
  (`loop.py:397`); the two sides of a hedged future are closed as ghosts
  (`loop.py:753`); realized profit is keyed by the date of the entry (`store.py:238`).


## 4. The gateway's automatic exits: `ExitDesk`, `AutoExit`, `MCAutoExit`, `AutoExit_proofs`

`ExitDesk` is the promise: exit orders working at the broker never add up to more
than is held, so no order of trades turns a position over.  Its steps are
`Commit` (an order is accepted for shares nobody else is selling), `Trade` and
`Withdraw`.  `AutoExit` is the code, and `ImplementsDesk` the refinement, with
`held <- net` and `working <- Working` (the unfilled shares of live orders).

### State

| variable | code |
|---|---|
| `net`, `orders` | the broker's net positions and its order book |
| `cache`, `latched`, `exchLatch` | `_target_positions`, `_auto_exited_tokens`, `_exchange_target_exited` |
| `lotCache`, `lotLatch` | `_lot_targets`, `_lot_target_exited` |
| `lotOpen`, `exits`, `booked`, `numbered` | `order_lots.open_qty`, the status of the `LotExit` of an order, orders whose fill has synthetic `LotExit` rows (it closed lots oldest first), lot exits whose `broker_exit_orderid` is stored |
| `task`, `turn` | where each `_on_target_tick` coroutine is; which of them is running between two awaits |
| `watching`, `fetches`, `owed`, `siblings` | running `_watch_auto_exit_order` coroutines, `_load_target_positions` calls on their way, a refresh that follows a booked fill, exits of closed lots about to be cancelled |

### Actions

`SymbolFires`/`SymbolPasses` start a tick.  A symbol exit runs `PlaceCovered` and
`PlaceOne` per position, `Placed` at each answer, `SymbolPlaced` back in the tick;
the lot loop is `LotFires`, `LotPasses`, `LotPlaced`; then `ExchangeFires` and
`ExchangePlaced`, or `TickEnds`.  A watcher ends in `WatcherSees`, `WatcherGivesUp`
or `WatcherBlind`; a refresh in `FetchArrives` (with the re-arming that waits for
it) or `FetchFails`.  `BookLotExit` and `BookAutoExit` are reconciliation's
transaction, `CancelSibling` and `Refresh` what follows it, `Reenable` the user's
`PUT`.  `Fill` and `BrokerKills` are the exchange's.

Reconciliation finds a lot exit by the tag of its row, which only rows of the
order-update websocket carry, or by the order number once `LotPlaced` has stored it.
`BookLotExit` is a row that is found; it books a fill once, whatever happened before.
`BookAutoExit` is a complete row that is found by neither: an exit of a symbol or
exchange target, and also a lot exit met in the REST order book before its number was
stored or after its answer was lost.  It closes the lots of the position oldest first,
and the exit's own row may book the same fill again.  A lot closed either way queues
its pending exits for a cancel, those with a stored number.

`turn` states asyncio's rule: a coroutine keeps the loop until it awaits, and
every other coroutine's step needs `turn = NoTask`.  Reconciliation's transaction
runs in a worker thread and needs no turn.

### Abstractions

* All positions are long, on one exchange, with the market open; a short
  position mirrors each sign.  Whether a target that is armed is hit is a free
  choice, so is which lot's.
* A placement is accepted by the broker when it is sent, and its answer comes
  later.  `placement_lost` is a placement that raises although it was accepted.
* A watcher's chasing (`modifyOrder`) changes a price only and is left out; the
  number of its checks is a free choice; its cancel and the sending of the
  refresh that follows are one step.
* A position answer is the broker's net at the time of asking.
* Reconciliation books one order per step (the code several in one
  transaction), so it admits more interleavings than the code.  The rest of an
  unknown row that finds no lot to close is imported as an external lot: that is
  `LotLedger`'s (section 6).  A row with a number that a synthetic row has too may be
  taken for that one and book nothing; the model's `BookLotExit` is then not taken.
* Lots equal the position at the start; entries during the run belong to the
  lot-ledger module of the plan.

### Fairness

Strong fairness of each coroutine's steps and of the watchers together: the event
loop serves ready coroutines first come, first served, so none is passed over for
ever because another happens to hold the turn; a watcher stops after a bounded
number of checks, and there are finitely many orders; a position request is answered or times out.  The market
owes nothing: no fill is assumed.  `TargetNotDead` is claimed for refreshes that
succeed; with `fetch_fails` or `cancel_unheard` the code keeps the latch on
purpose and waits for the user.

### What is proved

`ExitsKeepTheDesk` (in `AutoExit_proofs`) is the refinement for any number of
contracts, coroutines, orders and requests: where targets are those of symbols and of
the exchange, a contract is held as one position, every placement is answered truly,
position requests are answered in order and nobody re-enables a target, every step is
one of the desk's.  The broker may kill orders, a refresh may fail and a cancel may go
unheard (`broker_kills`, `fetch_fails`, `cancel_unheard`): none of these oversells.
`NeverOversold` is what follows for the account.

`LotExitsKeepTheDesk` is the refinement for targets of single lots, any number of them
on one position, firing together.  A lot exit is sized by the ledger and not by the
cache, so an old refresh that lands late (`late_snapshot`) does no harm here.
`LotsSettle` is the promise of the ledger for them: with every order dead and every fill
its own row would book booked, the lots show no share that was sold, and lack none but
those of fills that were booked both ways.  `FillsAreCounted` bounds what the ledger can
lack in general, with targets of all kinds and every fault of the model.  Each hypothesis
is needed; the counterexamples below say for what.

### Further counterexamples

Each of these breaks `ImplementsDesk` or `LotsMatchAccount` in an instance that
differs from a checked one in the constants named; the checked instances keep one
kind of target per position where they claim the refinement, for these reasons.

* A lot target and a symbol target on one position: the lot loop reads the latch
  before it awaits, so a symbol target that fires in between sells the same shares.
* One lot and a symbol target, ticks one after the other: between the commit that
  marks a lot exit FILLED and the arrival of the refresh, the filled shares are in
  neither number (`gateway/app/services/targets.py:297`).
* One contract in two products (`KeyOf` not one-to-one): one latch serves both, so the
  watcher of one product's dead order re-arms the contract beside the other's live
  one, or beside its fill that the cache has not seen (`targets.py:391`).
* `placement_lost`: an exception frees the lot although the order was accepted
  (`targets.py:241`).
* `late_snapshot`: of two refreshes under way the older may land last (`targets.py:54`).
* A re-enabled target un-latches its contract at once, with the old cache
  (`gateway/app/routers/targets.py:56`).
* The filled part of a cancelled automatic exit is booked by nobody: the ledger
  keeps lots the account has sold.
* A fill booked twice is a real shortfall: two lots of one share, the younger one's exit
  fills at once, the short poll reads the order book before the answer of `placeOrder`
  has been stored, closes the older lot, and the next pass books the exit on the younger:
  the ledger shows 0 shares and the account holds 1.  `FillsCounted` and
  `LedgerMatchesAccount` name exactly these fills (`BookedTwice`); without that term TLC
  finds them in the lots instance and in the mixed one.

## 5. The legacy engine and the exit rules: `LiveExits`, `TradingDay`, `StopWalk`, `ExitMachine`

### The live legs: `LiveExits`

The legacy engine books every position on paper first and mirrors it at the
broker.  `ExitEngine` (`engine/exits.py`) closes a paper position on a closed bar
and then asks `LiveExecutor` (`engine/executor.py`) to sell the shares of its live
leg; when that fails the shares are parked (`live_pending_qty`) and sold again by
`_retry_pending_closes` on every update.

State:

| variable | code |
|---|---|
| `positions` | `ExitEngine.positions`, in the order of opening; of a position, its symbol, status, `live`, `live_qty`, `live_qty_left`, `live_pending_qty` |
| `saved` | `state/paper_positions.json` |
| `live` | `state/live_mode.flag` |
| `net`, `working` | the account, and unfilled shares of orders at the broker |
| `pc`, `todo`, `job` | where the scanner thread is in its sweep, what it has still to visit, the order it waits for (`sent` says whether the executor was active when asked) |
| `eod` | whether the 15:12 bar has closed |
| `crashes`, `toggles`, `slips` | counters of the bounds |
| `excused` | observation only: symbols whose account may differ, and why is known |

Actions: `SweepBegin` reads the pause; `NoSignal`, `OpenPaper`, `OpenLiveLeg` with
`EntryAnswered` are `open_from_signal`; `SweepEnd` starts `update_all`.  There
`Hold`, `TargetOne` and `CloseOut` are the outcomes of a bar, `ExitAnswered` the
end of `close`, `UpdateEnd` the start of the retry net, `Retry` and `RetryAnswered`
one parked order, `Save` the write that ends the update.  `SetMode` may come
between any two steps, as may `Crash`; `Restart` loads the file, and its comparison
with the broker only prints.  `EndOfDay` and `WorkingTrades` are the market's.

An order comes to an `Outcome`: whether `_place` returns a fill, the shares it
reports, those that traded, those left working.  An honest broker fills all or
nothing; `slow_fill`, `dead_part` and `unheard` are the three cases in which
`_place` says something else than what happened.

Abstractions:

* Positions are long.  Stops, targets, trails and the time stop are the free
  choice among hold, target 1 and close; after `eod` only the close is left.
* Pause, cooldown and scoring are the choice between an empty and a full sweep and
  between `NoSignal` and an entry.  The executor's limits on loss and on orders
  are part of that refusal; `max_positions` is kept.
* A paper position of zero live shares keeps its paper quantities out of the model.
* A resting order trades in full or expires.

Fairness: `WF(Engine)`: the scanner sleeps a bounded time and its calls time out.
`SF(RetryFilled)`: among infinitely many retries one is filled, without which no
retry net could end flat.  `SquaredOff` asks nothing of a process that stays dead
or of an engine switched to paper, in which the retry net does nothing.


### The day: `TradingDay`

| variable | code |
|---|---|
| `clock`, `phase`, `tick` | the day and its part; `Orchestrator.phase`; the pause flag an orchestrator tick has read and not yet mirrored |
| `flag`, `mode`, `dayFile` | `state/killswitch.flag`, the mode file, `state/live_day.json` |
| `paused`, `day` | `scanner.paused`, `LiveExecutor._day` (date and realized loss) |
| `click` | a `POST` of the user interface between its read and its write |
| `sweep`, `agent`, `duty` | the scanner thread, the agent thread, what the holder of the exit engine's lock still has to do |
| `book` | per symbol: no position, one on paper, one live |
| `up` | which threads of `run_app.py` have started |
| `truth`, `missed` | observation: what the exits of the day came to; a result that never reached `_add_realized` |

The orchestrator's `TickReads`/`TickWrites`, the user's `Clicks`, `ClickReads`,
`ClickWrites` and `Switches`, the scanner's `SweepBegins`, `Signal`, the exits
(`ClosesOnPaper`, `ExitTrades`, `AddRealized`, `Trips`, `Unpriced`, `SweepEnds`), the
agent's `AgentSweeps`, `AgentAsks`, `AgentOpens`, and `ClockMoves`, `NextDay`, `Dies`,
`Starts`, `OrchestratorStarts`.  A read and the write that follows it are two steps
wherever another thread can come in between.

Positions are known by what the gates ask of them; both directions of a symbol count
as one; profits are whole units; the book is saved at once and the cap is constant.
Manual orders, cooldown, warm-up and the end-of-day summary are left out; an agent
sweep visits one symbol; "late" is 15:15 to 15:30.

Fairness: the orchestrator ticks, requests of the user interface finish, the
orchestrator starts.  Nothing is asked of the user, the clock or the scanner.

Further counterexamples:

* The agent thread tests the mode before it waits for the lock of the exit engine; a
  switch to live in between sends an order nothing has validated
  (`engine/agent_scanner.py:159`).
* The first sweep after a restart takes signals at any hour (no phase yet); the
  user interface's "immediate effect" is not true of a sweep that runs.
* `_seen` and `_last_fired` are lost at a restart, so a signal may be taken again.
* While paused, manual orders are refused even to close, and the cap does not count
  what they lose.

### The stop of a position: `StopWalk`

`dir`, `plan`, `trade`, `when` are a position of `ExitEngine` with what
`open_from_signal` fixed (targets, ladder, wall, fill), `sim` the trade of
`simulate_position`, walked over the same bars.  `Bar` is one closed bar:
`ProcessBar` with stop, targets, ladder, supertrend trail, wall and square-off in the
order of `_process_bar`, and `SimulateBar` beside it.  `simulate_position` knows
nothing of the plan: its stop and targets (`SimStop`, `SimTarget1`, `SimTarget2`) are
always the multiples of the ATR.

Prices are integers around the signal, a position is two half units, multiples of the
ATR are constants, and whether a wall unwinds is a free choice.  A simulation that
runs out of bars is left out.  Both walks have the same ATR at the entry and the same
supertrend line of a bar; frames of different lengths, which could give them others,
are the subject of `SignalWalk`.

`SimulationAgrees` says how far the replay can be trusted.  With the targets of the ATR
(no wall in reach), the replay has booked what the engine has until the engine's stop
is hit, and the engine's stop is never the looser one; only with a plan that is all of
the ATR do they never part.  With a wall for a target, or once a supertrend or wall stop
has been hit, the two differ, as they do at the square-off, and nothing is claimed.

What the model shows beside its properties: a square-off on the bar that reached
target 1 may still end in a loss (`RiskFree` speaks of later bars); `wall_unwind` can
put the stop above the market, and the exit is then booked at a price never traded;
the simulation squares off at 15:25 and the engine at 15:12; a live fill replaces
`entry_price` while stop and targets stay those of the signal.

### The intraday exit rules: `ExitMachine`

`pos` is the position in memory, `row` its journal row, `order` the decision being
carried out.  `Tick` is `manage` with I0 to I8 in their order of priority on one of the
`Markets`; `Fills` and `Fails` are what the loop makes of the order, `Saves` the journal
write after it, `Restarts` a process that takes the position from its row.  Every write
of the journal commits or raises (`Writes`, `BooksInPart`); after one that raised the loop
goes on with the position as memory has it.  `EntryIsSafe` therefore speaks of memory and
journal apart: memory keeps the offer and a stop at the entry while the process lives,
the journal from its first committed write on, and a restart in between forgets both.

The premium is known by the target it has reached, the distance of the trail is free.
Positions adopted without a stop are left out.

Beside the finding: I5 (stall) fires once, so a failed stall exit is not retried
although `intraday/runtime/loop.py` near line 398 says so; short partials, each
offered again, may sell more than half; a crash between `book_partial` and
`update_position` offers the partial again.

### Findings

Three, quoted in `PROJECT.json`.

* `exits_overclose`: a target-1 order that fails is parked, and its shares stay in
  `live_qty_left`.  The final exit then sells all of `live_qty_left`, and the retry net
  sells the parked half again (`engine/exits.py:851` and `:620`): the account goes
  short by it.  `Explained` marks such an order, and `LegMatchesAccount` claims the rest.
* `day_restart_pause`: after a restart the scanner thread sweeps before there is an
  orchestrator to mirror the pause flag (`run_app.py:131`).
* `exit_ratchet`: a partial that failed or was short is offered again after the trail
  has moved the stop beyond the entry, and the stop falls back to the entry
  (`intraday/exits/machine.py:153`).


## 6. Orders in the gateway: `ExecutionCoordinator`, `Rollover`, `PersistentOrders`, `LotLedger`, `Egress`

### Reservations: `ExecutionCoordinator`

`recent` and `inflight` are `_recent` and `_inflight`, with the time of each entry;
`lock` is the account lock `submit()` takes; `stage`, `intent`, `since` say what a caller
does, for what and since when; `overran` is observation: a `submit()` outlived its own
reservation.  `RouteReserve`/`RouteReturn` are `POST /api/orders`, `SubmitLock`,
`SubmitReserve`, `SubmitReturn` are `submit()`, `Tick` the clock.  `Pruned` drops what
is past its TTL before each test, as `_prune` does.

`OneInFlight` says when two placements on one contract can overlap at all: the
reservations expire, so a broker call longer than the TTL, or a `submit()` that outlived
its reservation and then released someone else's, lets a second one in.  A placement
that fails validation keeps its reservation to the end of the TTL; re-entries, exits and
persistent orders do not come this way.

### Rollovers: `Rollover`

| variable | code |
|---|---|
| `near` | `order_lots`: `open_qty` and `carried_pnl` of the lots that are rolled |
| `nearExits` | `lot_exits` in the order of their ids, with the order each stands for at the broker |
| `asked` | `rollover_lot` handlers: where each is |
| `row` | `rollover_intents` |
| `pass` | `_fire_ready_rollovers` passes: the rows read and the claims in hand |
| `far` | far orders, and what their lots carry |
| `crashes`, `mixed` | bound; observation: lots with a claim taken while another was in hand |

`RollAsk` and `RollNote` are the two halves of a request around the exit it places
(`ExitAnswer`); `ManualExit`, `CancelAsk`, `CancelMark`, `CancelUnsent` the user's;
`ExitTrades` and `ReconcileExit` what happens to the exits; `FireBegin`, `FireClaim`,
`FireGo`, `FarPlace`, `FarAnswer`, `FarTag`, `FarRestore` a pass from its query to the end
of each claim.  The far placement takes its reservation from `ExecutionCoordinator`.

Further counterexamples: an intent names the newest exit of the lot, so a cancel and a
second roll put two intents on one exit and double the far leg; a far leg refused with
409 is left UNRESOLVED; a death after the claim leaves the intent FIRING with the
carried result lost; two claims of one lot in hand and one failure restore the whole
prior carry; `cancel_lot_exit` overwrites FILLED.

### Hold-until-filled orders: `PersistentOrders`

`po` is the row (status, remaining quantity, last submission), `attempts` the lots with a
`persistent_order_id` and their orders, `sweep` the rows the running sweep has still to
visit, as it read them, `cancelling` cancel routes between their read and their write,
`day` and `open` the venue's session, `lost` (observation) attempts whose acceptance was
never heard.  `Create`, `SweepRead`, `SweepVisit`, `AnswerOk`, `AnswerBad`,
`AttemptEnds`, `ReconcileAttempt`, `WriteOffAttempt`, `CancelRead`, `CancelWrite`,
`SessionOpens`, `SessionCloses`, `Death`.

Further counterexamples: the create route commits the row ACTIVE before its own
placement returns, so a sweep that starts then places it a second time; a row the sweep
read before such an answer is placed again; a lost answer lets the lot be written off,
and its fill reduces the remainder twice; a cancel overwrites FILLED.

### The ledger: `LotLedger`

`orders` is the broker's book with the caller that waits for each number; `lots` and
`exits` are the two tables; `late` an order book or update that was read and not passed
yet; `sync` a position sync between its two reads; `doomed` the exits
`_cancel_sibling_exits` has still to cancel; `missed` shares of the account no lot has.
`misread`, `blunt`, `met`, `stray` are observation: what excuses a difference, and why.

`PlaceEntry`, `PlaceExit`, `PlaceCard`, `PlaceOutside`, `Reenter` are the routes and the
user's terminal; `Accept`, `Trades`, `Ends` the broker; `AnswerTaken`, `AnswerRefused`,
`AnswerLost` the route's second half; `ReadAhead`, `PassLate`, `Reconcile` the passes,
each with every stage of `reconcile_order_book` (known lots, exits, imports, offsetting,
write-offs of the day); `SyncBook`, `SyncPositions`, `SyncBlind`, `SyncPass` the position
sync; `CancelSibling`.

Abstractions: a pass commits once under its lock and is one step; at most one delayed
reading at a time; entries buy; a rejected row is CANCELLED, PARTIAL is an OPEN lot with
less than its entry; of two exits with one broker number the newest is taken; an exit
that a re-entry deleted keeps its place as a `deleted` row that no answer brings back;
`delete_lot` and `cleanup_external` are left out.

What the observation variables stand for, each a behaviour worth knowing:

* `misread`: a pass that meets an order before its number is stored imports a lot
  beside the gateway's own; an exit whose answer was lost is booked by a later tagged
  update on top of its synthetic booking (`AutoExit` counts such fills, `BookedTwice`); a delayed book is older than what was booked.
* `blunt`: a sync that reads positions before a fill is booked imports the fill; a
  part-filled resting order imported without a number is booked again when it ends;
  rows with `netqty` 0 are skipped, so lots the account no longer has stay
  (`reconciliation.py:616`).
* `stray`: an exit whose number arrives after its lot has closed is never swept; a
  refused sibling cancel is not retried.
* Re-entry (`orders.py:246`) reopens a lot that old orders still name, so they are
  booked again, and a refused re-entry does not restore the exits it deleted
  (`orders.py:310-312` says it restores the row).
* What the rows do not say (`LeftOutIn`): part fills of cancelled orders no row is about,
  and what exits trade beyond their lots.
* An exit of the gateway can be imported as a lot of its own: the import tests a resting
  order against the numbers of the entries and the remarks of the exits
  (`reconciliation.py:446-453`, `476`, `483`), never against the numbers of the exits, and
  the rows of an order book carry no remarks.  What keeps exits out is the test that they
  fit the open shares of the other side (`reconciliation.py:501-508`), which fails when
  an outside order has reduced the lot meanwhile: of 3 shares, an exit of 3 rests, 1 is
  sold outside, 2 remain.  If the exit is then cancelled with a part filled, one pass books
  the fill for the imported lot and the next for the exit.  The last case of `LeftOutIn`
  names these orders; it takes 3 shares of a lot, one more than the run has, and was met in
  simulation of larger instances.
* An unresolved PENDING lot without an order number is cancelled after ten minutes
  though its order may live.

### The way of an order: `Egress`

`registered` are the addresses the broker knows, `refusedFor` and `lastGood` the module
state of `netproxy.py`, `post` the call of each order, `accepted` and `lot` the broker's
and the route's view.  `Posts`, `DirectAnswers`, `DirectRetried`, `DirectFails`,
`ProxyAnswers`, `ProxyGarbled`, `ProxyFails`, `Exhausted`, and the world's `Moves` and
`StickyPasses`.  Only placement is modelled.

Finding (`refused_order`): the loop over the proxies takes any exception for an
unreachable proxy, a timeout while waiting for the answer too, and posts the order again
through the next; a refusal of the second lets the route cancel the row although the
first order lives (`netproxy.py:234`).


## 7. Market data and sessions: `FeedHub`, `PushFeed`, `DataHub`, `BrokerSession`

### The gateway's feed: `FeedHub`

`flags` are `TickerManager`'s booleans, `wanted` its two sets of subscriptions, `sock`,
`late`, `silent`, `subs`, `orders` the socket and what the broker streams on it,
`opening` the `_on_open` callback, `kick` and `rc` a scheduled and the running
`_reconnect`, `call` a subscribe between its note and its send, `leaving` a disconnect,
`probe` a depth probe, `token` whether the broker honours the token, `stolen`
(observation) subscriptions a probe has taken away.

Callbacks (`SocketOpens`, `OpenMarks`, `OpenTouch`, `OpenDepth`, `OpenOrders`, `Drops`,
`LateClose`), the loop (`Kicked`, `Watchdog`, `Attempt`, `Succeeds`, `GivesUp`, `Slow`,
`BacksOff`, `Declares`), the pool thread (`Reopen`), the routes (`Connect`, `Disconnect`,
`DisconnectTears`, `LogsOut`, `Adds`, `Sends`, `Unsubscribe`, `ProbeStarts`, `ProbeEnds`),
the world (`GoesSilent`, `TokenExpires`).  Kinds of depth are one; the library dials
again by itself; what is sent on a dead socket is lost; browser clients are left out.

Fairness (`HubFairness`): the event loop, the pool thread, the callbacks, the dialling
and calls in progress go on.

Further counterexamples: a reopening that ends after `stop()` brings the socket back
(`ticker_manager.py:383`, `routers/legacy_auth.py:113`); a late `_on_open` in the last
back-off and then `_declare_session_expired` mark a live socket dead; the watchdog looks
at touchline subscriptions only; a connect while running keeps the old token; a first
login that is refused leaves `running` set for ever; one client's unsubscribe stops
another's stream.

### The legacy feed: `PushFeed`

`wants`, `wantOrders`, `asking` are `_subs`, `_want_orders` and an application call
between its note and its send; `connected`, `link`, `served`, `orderFeed` the connection;
`replay`, `todo`, `torn` the replay after a login; `left` and `stamp` the cached price
(how long ago it ceased to be the market's) and its time stamp; `poll` the keeper's REST
call; `undone` (observation) keys whose newer price a poll has overwritten.

Ages saturate just above the limits that are tested.  Frames arrive within a unit of
time and in order, or not at all.  Depth levels and greeks are left out.  The keeper is
off by default in `run_app.py` and modelled on.

### The data hub: `DataHub`

`entries` is `_cache` (age of the entry, age of its value), `fails` and `closed` the
breaker, `tick` the age of the spot in the push cache, `thread` what each caller is
fetching, `rest` whether the REST service works, `asked` what the engine keeps asking.
`AskQuote`, `AskCandles`, `Prefetch`, `AskChain`, `ChainAsks`, `BrokerAnswers`, `Returns`,
`Trips`.

`Slack` is how old a value can be when it is stored.  The spot of a chain may wait once
for a worker and once for its quotes: the proof needs both, with a call time of 1 the
shorter bound happened to hold.  Not modelled: exceptions inside a chain fetch, the gap
between requests, master files, the gate on partial histories.  `_feed_quote` falls back
to `feed.quotes`, which never goes stale without `ft`; the model has `ft`.

Fairness (`DataFairness`): time passes, outages and calls end, the engine keeps asking.

Worth knowing: the breaker opens when `fails` equals its limit, so after a hold in the
same outage it does not open again before a success, and two threads may step over the
limit; cached hits count as successes; refused candles count as failures though
`datahub.py:141-144` says an instrument's refusal must not; a failed fetch stores None
for the whole lifetime; in `_quote_raw` the breaker is tested before the push cache.

### The broker session: `BrokerSession`

`file` is the entry of the account in `token_store.json`, `auth` the token of the
singleton, `req` what each request is doing and holds.  Tokens are known by what they
are worth (live, dead, of an earlier day), codes by the request whose browser login
obtained them.  Every change of the file is a read (`DropRead`, `MintRead`, `ClearRead`,
`KeepRead`) and a later write, and a reader may find it empty while another writes.
One account; the browser login is one step; the 45 s cache of the liveness verdict and
the injected headers are left out.

Fairness: the steps of a request are answered, the page keeps asking, the user connects
when disconnected.  If two pages keep asking concurrently for ever, their logins can end
each other's sessions for ever: overlaps are among the bounded mishaps.  A disconnect
leaves the token in the file.


## 8. What decisions are made on: `SignalWalk`, `ZeroLoss`, `OiSweep`, `RiskDesk`, `DayPnl`

**`SignalWalk`** walks one history from two starts (`walk`, `opened`, `today`, `says`):
the supertrend (`Upper`, `Lower`, `Bull`), regimes, pullback legs, signals of the day.
A frame reads a bar (`Read`) by bands of its own: bullish on its first bar, each band
kept until a close beyond it.  Inputs of a bar are its prices, ATR, body and where RSI and
%R stand to their thresholds.  ATR, RSI and ADX are averages over the frame too
(`rma`, `ewm`): their start fades by a tenth or a fourteenth a bar and is taken as gone,
so what is shown leaves out ties of less than that; the opening guard is left out, one symbol.
`kept` (observation) says what the shorter frame has seen: a regime engage, the two
supertrends turn together up and down, a leg begin with nothing held back.  Until then the
frames do drift, in the trend of a bar itself, which `signals/engine.py:81-82` says cannot
happen: the history starts seven days before now.  Also: a %R of exactly -80 for one bar misses the
cross; the live sweep takes repeats after the cooldown where `simulate_day` takes the
first per symbol and side (`engine/scanner.py:340-347`); a skipped sweep misses the
signal.

**`ZeroLoss`** is the scan of one chain: which quotes count, what a leg costs, the
combinations, the floor on the strikes, and the exact evaluation.  Whole ticks, money in
hundredths for the slippage; the families of mixed types are empty in the code; the
background thread is left out.

**`OiSweep`** is the rotation of probes through the one depth feed and the one raw hook
(`handler`, `probe`, `stream`, `renewed`, `wire`).  A contract is right or wrong.  Two
probes overwrite `raw_probe` and the first to end clears it; an acknowledgement is not
withdrawn by a later frame that names another contract (`misnamed`); a swallowed error
of an unsubscribe leaks legs; the freshness test ages the leg's last message, not its
open interest; other probes test no identity.

**`RiskDesk`** is what `_enter` lets an entry cost: vehicle, size, caps, throttle, over
the `book` that entries, exits and adopted positions build, with the `budget` edited at
any time (`equity` is the budget as the step began, `curve` the day's equity).  One
signal at a time; margin, cooldown and model filter are "not entering".  Sized on the
ask of the scan: the fill may be dearer and the risk is not recomputed; short options
that were adopted do not count as deployed; an edited budget reads as a drawdown or a
new peak; a selector that fails falls back to the option even in a blackout; the margin
gate takes the stop's risk for futures.

**`DayPnl`** is the broker's position row against the gateway's lots (`row`, `books`), on
which symbol targets and lot targets fire.  A carried basis is yesterday's settlement
although `reconciliation.py` near 621-626 says it backs out what the trader paid; an
import beside lots prices the difference by the whole position's P&L, and an imported
carried lot counts as opened today (`adopted`); missing prices, exits beyond the lots and
the carry of a rollover are left out.

None of these modules assumes fairness.


## 9. Runs

A run whose module has a variable `part` asks one question per part; the parts share no
state, and in each the variables of the others rest.

| run | what is asked | bounds |
|---|---|---|
| `session_crash` | `BrokerMatchesTracked`, `NoEntryAfterJournalledHalt` | one contract, 2 shares, 2 days, 2 entries, 1 death, 2 requests, honest link |
| `session_faults` | `JournalMatchesTracked`, `LedgerBalanced` | all six faults, 1 slip, 1 death, 2 days, 1 entry, 1 request |
| `session_live` | `KillFlattens`, `SquareOffFlat`, `NoEntryAfterKill` | two contracts, 2 requests, no death, fair |
| `autoexit` | `ImplementsDesk`, `FiredIsNotDead`, `MixedFillsCounted`, `LotsMatchAccount` | symbol: two contracts of 2 and 1 shares, symbol and exchange target, 2 ticks, 3 orders, 2 refreshes, the broker rejects and cancels, fair; lots: two lots of one share on a position of 2; mixed: a position of 3, lots of 1 and 2, a symbol target and one of the younger lot, every fault, one re-enabling, 2 orders |
| `engines` | `NothingDropped`, `LegMatchesAccount`, `SquaredOff` (legs); `CapHolds` (money); `PauseSettles` (pauses); `SimulationAgrees`, `RiskFree` (walk); `EntryIsSafe` (rules) | legs: one symbol, 2 shares, two positions one after the other, all faults with 1 slip, 1 death or 1 switch; cap 2, 2 days, 2 pauses, 1 switch, 2 deaths, 3 exits; prices -3 to 3 without 0, strikes -1 and 2; spots -2 to 3, 3 lots, trails 1, 9 |
| `gateway_orders` | `OneInFlight` (route); `FarCovered`, `CarryConserved` (rollover); `OncePerDay`, `RemainderExact` (persistent); `PlacedOnce` (egress); `LedgerMatches`, `ClosedIsSwept` (three ledger parts) | 1 contract, 2 intents, 2 callers of each kind, TTLs 0, 1 tick; one lot of 2 that carries 2, 2 rolls, 2 near exits, 2 passes, lost answers and user cancels, 1 death; one order for 2, 2 days, 2 attempts, 2 sweeps, 1 death, 1 lost answer; 2 orders, 3 lots, 3 exits, quantity 2, 1 held; 2 orders, 2 proxies, 2 moves |
| `feeds` | `StreamsAgree`, `FeedHeals` (hub); `StreamsRestored` (streams); `FreshIsRecent` (prices); `ServedIsRecent`, `DataReturns` (data); `SessionHeals` (session) | one stream on each feed, 3 attempts, 3 faults, 3 calls; 2 keys, one of them with ages, limits 1, 2 drops, 3 asks; 2 threads, breaker at 2 for 2, lifetimes 1, 2, 2, 1 outage; 2 requests, 3 mishaps |
| `decisions` | `FramesAgree` (regimes, legs); `FloorIsHonest` (zero); `OiIsIdentified`, `SweepsLeaveNothing` (sweep); `EntryIsCovered` (desk); `LotsMatchPosition` (pnl) | the multiples of the code for bands, zone and depth; bars over every standing of RSI and %R under either trend, and bars of an ATR of 1 at prices up to 5, on which the trend turns (four), pulls back and confirms; every chain of 5 strikes with quotes up to 3; 2 tokens, 2 probes, batches of 1, 3 frames, 1 failure; budgets 1000 and 900; 2 prices, 3 trades, 1 night |
| `refused_order` | (violated) `RefusedHasNoOrder` | 2 proxies, lost answers |
| `exits_overclose` | (violated) `NoReversal`, honest broker that refuses one order | one position |
| `day_restart_pause` | (violated) `PauseSurvives` | one death |
| `exit_ratchet` | (violated) `RatchetOnly` | 3 lots |

The bounds are small because each quantity only needs to be splittable (2 or 3 shares
give "none, some, all"), each pair of requests, ticks, passes or threads is the shortest
that conflicts, one death splits every pair of commits, one slip is the one order that
goes wrong, and the orders are one more than can be placed without a repeat.  Two
refreshes are the least that can overtake each other, two lots the least that make FIFO
booking and lot races visible, two days the least that make a stale date visible.  Ages
and clocks only need to cross the limits they are compared with.

The `...TypeOK` invariants of the modules are not run properties: they are there for
the proofs, which state them (section 10).


## 10. Proofs

Every theorem holds for every value of the constants that the assumption of its module
admits: any sets of contracts, lots, tasks, tokens or strikes, any bound, any number of
deaths.  A hypothesis beyond that stands in the theorem, and the counterexamples of the
sections above say why it is needed.  The runs of section 9 check the same definitions
on small instances (`MixedFillsCounted` and `LotsMatchAccount` are `FillsCounted` and
`LedgerMatchesAccount` of an instance); every inductive invariant was model-checked before it was proved.

| module | theorem | hypothesis | the inductive invariant, and why the property alone is not inductive |
|---|---|---|---|
| `SessionLoop_proofs` | `TypeCorrect` | – | `Inv`: that a quantity stays a natural number needs `JobFits` (the write in progress is no larger than the position it shrinks), `JobPlace` (which loop an order belongs to) and `TodoHeld` (exit loops visit tracked positions only) |
| | `JournalAlwaysMatches`, `LedgerAlwaysBalanced` | – | with `Inv`: `CloseRow` opens the exception that `BookClose` shuts; every commit moves shares between `opened`, `row`, `booked` and the write in progress |
| | `JournalledHaltHolds` | – | `SealKept`: a sealed day has its flag stored, and an engine running on that day is halted; an entry needs `~halted` |
| | `KilledAdmitsNoEntry` | `MaxCrashes = 0` | a kill halts as long as the process lives |
| | `BrokerAlwaysMatches`, `NeverShort` | `Faults = {}` | `AccountKept`: the account is the tracked quantity corrected by the write in progress and by the snapshot while start-up is at work; a crash voids it until the next start-up reads the book |
| `AutoExit_proofs` | `ExitsTyped` | – | `TypeOK` and `Linked`: who waits for an answer waits for an order that was placed |
| | `FillsAreCounted` | the lots of a position stand for at least what was held at the start | `FillsCovered`: the lots exceed the account by at least the fills nobody has booked less those booked both ways; `RowsOK`: only an order that has ended is booked, its own row books once and the oldest-first way once.  The step that books oldest lots first needs `ClosesFilled`: closing the oldest lots first closes no more than was filled |
| | `ExitsKeepTheDesk`, `NeverOversold` | `SymbolTargetsOnly`: no lot targets, no re-enabling, a contract is one position, placements answered truly, requests answered in order | `Exclusive`: at most one of four has a position in hand, a coroutine that is placing for it, an order that is watched or works on unwatched, a request that re-arms it, or nobody (`OneTurn`), and it is latched throughout; whoever gives it back knows quantities no larger than what is held (`Fresh`, and `FreshFrom` for the answers still on their way), which needs `Whole`: an order that ends untouched has left the quantities as they were read |
| | `LotsSettle`, `LotExitsKeepTheDesk` | `LotTargetsOnly`: no symbol or exchange target, no placement lost; the lots of a position stand for exactly (at most) what was held at the start | `LotInv`: a lot has one exit whose own row may still book something (`OneEach`), for no more than the lot's own exits have left of it (`LotOrder`), and shows no more than that itself (`LotLimits`): a fill booked on the wrong lot only makes a lot smaller, and its exits are withdrawn (`SiblingsClosed`).  `Account`: the position is what was held at the start less what its orders have sold.  So what the orders of a lot have sold and still sell fits into the lot (`LotCovered`), and over the lots into the position: a sum over orders taken lot by lot (`WithinLots`, from `SumGroupsWithin`); once everything is settled the same sum bounds the ledger (`SettledIsSold`) |
| `Engines_proofs` | `LegsStayTyped`, `NothingIsDropped` | – | `JobFits`, `TodoParked`, `JobPlace`; `Parked`: a closed position's shares are parked or in the order on its way, and then in full |
| | `LegsMatchAccount` | – | `AccountInv`: the account is the sum of the legs of all positions, corrected by the order on its way; sums over the finite set of positions |
| | `EntryStaysSafe` | – | `MachineInv`: both copies of the stop, in memory and in the journal, are safe, and an offer the journal has, memory has too: no write can undo it and no restart lose it |
| | `DayCapHolds` | – | `DayInv`: what has been lost is in the file or in the addition under way, and whoever is past a test has read it |
| | `SimulationGrades`, `PartialsAreRiskFree` | – | `StopInv`: while the day lasts and the targets are those of the ATR, the two walks are one until a stop of the engine is hit (`Nearer`: same exits and units, the engine's stop no looser, because the ATR stop is always among its candidates), and one throughout when the whole plan is (`OnePath`); after target 1 exactly one exit is booked, at target 1, and the stop is at the entry or beyond it, which every later ratchet keeps (`KeepsIt`).  That target 2 lies beyond target 1 is what keeps a bar that jumps both from booking less |
| `Decisions_proofs` | `OpenInterestIsIdentified` | – | `SweepInv`: two frames that name a leg differently bracket every delta of the second contract, in flight and as streamed now (`WireTold`); so before a wrong delta reaches a sweep that has accepted the leg its wrong name does (`Told`), and the leg is then `misnamed` |
| | `SweepsEndClean` | – | `CleanInv`: what streams or has been subscribed is of a batch that a probe will unsubscribe (`StreamsSettle`), and the listener is a probe on its way |
| | `EntriesStayCovered` | – | `DeskInv` types the book; the property is about one step, and what it says of a sum over the whole book is proved by letting the sum grow by the entry's own part (`DeskSums`), the quotients that size it by what a whole quotient leaves (`Quotient`) |
| | `SweepsAgree` | – | `WalkInv`: the short frame remembers the bar before from its first bar on, the regime from the first extreme it has seen, a band of the supertrend from the first turn both trends make through it together (the next bar begins it anew in both: `BandsMeet`, `TurnsMeet`), the trend once both bands have met, and the leg from such a turn with nothing held back; from then on both read a bar alike (`ReadAlike`), remember the same (`Drawn`) and walk alike (`TrendsMeet`, `LegsMoveAlike`, `DoneAlike`) |
| | `LotsAndPositionAgree` | – | `PnlInv`: at every integer price, not only at the marks, the lots have made what the position made; lots that do not explain the position are none of the account's day yet (an import finds the settlement as its price, `DerivedIsSettled`).  A trade adds the same to both whichever lot it opens or closes (`Moves`), and netting two lots changes neither what the lots hold nor what they make (`PairOffsets`, `AllOffsets`): what the older earns at the newer's price the newer gives up |
| `Rollover_proofs` | `FarLegIsCovered` | – | `RollInv`: a far leg is sent by the pass that holds its FIRING row and nobody else (`SentOnce`, `Apart`), one pass claims at a time (`OneClaims`), and a claim carries what its exit has booked (`PassSound`, `Named`) |
| | `CarryIsKept` | – | `CarryInv`: per lot, what it carried is on it, on its far lots or in the claim of a pass, where every FIRING row is in the hands of a pass while nobody has died |
| | `ReservationExcludes`, `SubmitSerialises`, `CoordTyped` | – | `CInv`: what a caller reserved is still in the table while it is young (`Held`); nobody's `release` frees a younger reservation |
| `GatewayOrders_proofs` | `OrdersPlacedOnce` | every answer through a proxy is heard | `EgressInv`: a way is tried once, and an order that was taken has no way left to try |
| | `PersistTyped`, `SubmittedOncePerDay` | – | `PersistInv`: whoever read a row knows which attempts of the day it had seen |
| | `RemaindersStayExact` | – | `RemainderInv`: what a row has left is what was wanted less the booked part of its attempts; sums over the finite set of attempts |
| | `LedgerWellTyped`, `ClosedLotsAreSwept` | – | `LedgerInv`, kept by each stage of a pass for any book (`DbOK`): an exit with a number names an order the broker took, so a lot can only be closed on exits the sweep can find; the lot of an order that is still on its way waits for it and has no exit left (`Waiting`), so a refusal that brings back the CLOSED row of a re-entry brings back no resting exit |
| | `LedgerAddsUp` | – | `AddsInv`: `OrdersFit` and `RowsTold`, what a book says of an order it said when it was read and an order that has ended stays as it is; `Whole`, the rows of an order stand for no more than it did, have the right side, and for a met order all it did but what `LeftOutIn` names; and, while no sync was blunt, `Gap`: the lots less what their orders booked are what the account held before (`Held`) less what was missed.  Each stage of a pass keeps it for every book, row by row of the fold, and so does each placement, answer, cancel and fill; an untagged exit takes from the lots, oldest first, exactly what its synthetic exits carry.  A misread order and a re-entered lot break `Whole`, a blunt sync breaks `Gap`: section 6 has the counterexamples |
| `Feeds_proofs` | `HubStreamsAgree` | – | `HubInv`: which of wanted, queued and streamed agree in each state of the connection |
| | `PushStreamsRestored` | – | `ReplayInv`: what the replay has still to send, and what a subscriber will send itself, make up the difference |
| | `PushFreshIsRecent` | – | `AgeInv`: an entry is no older than its stamp and the longest poll |
| | `DataServedIsRecent` | – | `DataInv`: an entry is no older than its lifetime and what it was computed from, entry by entry and for every value a thread holds |

`Totals_proofs` has what these proofs say about sums: the sum over a finite set of a
function's values exists, is an integer, does not depend on the order, and changes by
what one value changes, by what one element adds, by nothing where the values agree;
sums of sums, of parts, bounds, and the largest and least elements.  The folds of the
community modules are recursive functions over subsets, so each fact is proved by
taking a smallest subset where it fails (`LeastSubset`) and removing one element.  The
same way a fold with any step exists (`FoldExists`) and stays where its steps keep it
(`GoodFold`, `FoldStays`, `FoldFollows`): with these the loops of a reconciliation pass, over the rows
of the book and over the lots oldest first, and the netting of lots are followed step by step.

Proving showed that a property was too strong as it stood: `FramesAgree` spoke of a
frame with just enough bars, which signals for the first time on the bar after; with
limits larger than those of the run it was false, and now it speaks of that bar.

What stays with TLC:

* liveness and fairness (`KillFlattens`, `SquareOffFlat`, `FiredIsNotDead`, `SquaredOff`,
  `PauseSettles`, `FeedHeals`, `DataReturns`, `SessionHeals`): the prover does not reason
  about `ENABLED`;
* `FloorIsHonest`: what it says is what a search over all points of a floor returns;
* `ImplementsDesk` where symbol targets and lot targets meet on one position: section 4
  shows the interleavings that break it;
* the four violations: a counterexample is its own proof.

## 11. Not modelled

Strategies, scores and indicators of `quant`, `strategist`, `news`, the intraday agents
and the legacy scanners are numerical functions without shared state; the reports of the
engines' P&L, the activity log, the assistants and the frontends write nothing the
modelled parts read.  The diagnostic probes of `ws.py` print.  Broker adapters other than
Shoonya's are thin clients of remote services.  These files are most of the repository's
lines.

Within the modelled parts, what is left out is named in the abstractions of each
section.  The larger pieces: short positions in the automatic exits, configuration
changes other than re-enabling a target, `delete_lot` and `cleanup_external`, modifying
an entry, the futures hedge of the intraday engine, margin and model gates, end-of-day
summaries, and the contents of the prices themselves.

Next in the plan: `SessionLoop` placing through the gateway's modules, and the floor's
search as a theorem.

