------------------------------ MODULE AutoExit ------------------------------
(***************************************************************************)
(* Target-driven exits in the gateway (src/gateway/app/services/targets.py) *)
(* with the part of order-book reconciliation that books their fills       *)
(* (src/gateway/app/services/reconciliation.py).                           *)
(*                                                                         *)
(* Every websocket tick starts a coroutine of its own; all of them, the    *)
(* watchers of placed orders and the position refreshes share dictionaries *)
(* and interleave wherever one awaits the broker.  `turn` is the coroutine *)
(* running between two awaits.  Positions are long, on one exchange; P&L   *)
(* is abstracted to whether a target that could fire does.                 *)
(***************************************************************************)
EXTENDS Integers, Sequences, FiniteSets, Functions

CONSTANTS
  Key,          \* contracts: EXCH|TOKEN
  Pos,          \* positions: a contract in one product
  KeyOf,        \* the contract of a position
  StartQty,     \* shares held at the start, per position
  Lot,          \* lots of the gateway's ledger, all long
  PosOf,        \* the position of a lot
  LotQty,       \* shares of a lot
  Age,          \* the order in which the lots were opened
  SymTargets,   \* contracts with an enabled symbol target
  LotTargets,   \* lots with an enabled target of their own
  ExchTarget,   \* the exchange has an enabled target
  Task,         \* slots for concurrent tick coroutines
  NoTask, NoLot,
  MaxOrders,    \* bound: exit orders placed
  MaxFetches,   \* bound: position requests on their way at a time
  MaxReenables, \* bound: targets re-enabled by the user
  Faults

\* placement_lost   placeOrder raises although the broker took the order
\* late_snapshot    position answers may arrive out of order
\* fetch_fails      a position request fails
\* cancel_unheard   cancelOrder raises, the order lives on
\* broker_kills     an accepted order is rejected by the exchange, or cancelled
FaultKinds == {"placement_lost", "late_snapshot", "fetch_fails",
               "cancel_unheard", "broker_kills"}

ASSUME AutoExitAssumption ==
  /\ Pos # {} /\ KeyOf \in [Pos -> Key] /\ StartQty \in [Pos -> Nat]
  /\ IsFiniteSet(Lot) /\ PosOf \in [Lot -> Pos] /\ LotQty \in [Lot -> Nat \ {0}]
  /\ Age \in [Lot -> Nat] /\ \A l, m \in Lot : Age[l] = Age[m] => l = m
  /\ SymTargets \subseteq Key /\ LotTargets \subseteq Lot /\ ExchTarget \in BOOLEAN
  /\ NoTask \notin Task /\ NoLot \notin Lot
  /\ MaxOrders \in Nat /\ MaxFetches \in Nat \ {0} /\ MaxReenables \in Nat
  /\ Faults \subseteq FaultKinds

VARIABLES
  \* the broker
  net,        \* net quantity per position
  orders,     \* every exit order placed: its position, size, rest and status
  \* the gateway's dictionaries
  cache,      \* _target_positions: netqty per position
  latched,    \* _auto_exited_tokens
  exchLatch,  \* the exchange is in _exchange_target_exited
  lotCache,   \* _lot_targets: the lots in it
  lotLatch,   \* _lot_target_exited
  \* the ledger (SQL)
  lotOpen,    \* order_lots.open_qty, OPEN or PARTIAL while positive
  exits,      \* status of the LotExit row an order belongs to
  booked,     \* orders with synthetic LotExit rows, whose fill closed lots oldest first
  numbered,   \* lot exits with a stored order number, broker_exit_orderid
  \* coroutines
  task,       \* one record per tick coroutine
  turn,       \* the coroutine between two awaits
  watching,   \* orders with a running watcher
  fetches,    \* position requests on their way, oldest first
  owed,       \* a booked fill has a refresh coming
  siblings,   \* exits of closed lots, on their way to be cancelled
  reenables

broker == <<net, orders>>
latches == <<latched, exchLatch>>
lotTable == <<lotCache, lotLatch>>
ledger == <<lotOpen, exits, booked, numbered>>
background == <<watching, fetches, owed, siblings, reenables>>
vars == <<broker, cache, latches, lotTable, ledger, task, turn, background>>

-----------------------------------------------------------------------------
Ids == DOMAIN orders
Live == {o \in Ids : orders[o].st = "live"}
IsAuto(o) == orders[o].lot = NoLot
KeyOfOrder(o) == KeyOf[orders[o].pos]
WholeOrder(o) == orders[o].qty  \* mutant: a cancelled order books its full size
Filled(o) == orders[o].qty - orders[o].left
LotsAt(k) == {l \in Lot : KeyOf[PosOf[l]] = k}
PendingOf(l) == {o \in Ids : orders[o].lot = l /\ exits[o] = "PENDING"}
Lesser(a, b) == IF a < b THEN a ELSE b

\* Unfilled shares of the exit orders at the broker.
Unfilled == [o \in Ids |-> orders[o].left]
LiveAt(p) == {o \in Live : orders[o].pos = p}
Working == [p \in Pos |-> SumFunctionOnSet(Unfilled, LiveAt(p))]

\* Shares of resting lot exits, which a full exit must not sell again.
Ordered == [o \in Ids |-> orders[o].qty]
PendingAt(p) == {o \in Ids : exits[o] = "PENDING" /\ orders[o].pos = p}
PendingExits == [p \in Pos |-> SumFunctionOnSet(Ordered, PendingAt(p))]

Resting == [at |-> "idle"]

\* The bound on orders is met before a coroutine commits to placing any.
Placing == {t \in Task : task[t].at \in {"place", "answer"}}
Planned == SumFunctionOnSet([t \in Placing |-> Cardinality(task[t].queue)], Placing)
Room(n) == Len(orders) + Planned + n <= MaxOrders
Ended(o, st) == [orders EXCEPT ![o].st = st]
Traded(o, n) ==
  [orders EXCEPT ![o].left = @ - n, ![o].st = IF n = orders[o].left THEN "done" ELSE "live"]
Order(p, l, q, st) == [pos |-> p, lot |-> l, qty |-> q, left |-> q, st |-> st]
NeverRearm(keys, lots) == [snap |-> net, rearm |-> {}, lots |-> lots]  \* mutant: refreshed, not re-armed
Fetch(keys, lots) == [snap |-> net, rearm |-> keys, lots |-> lots]
Without(s, i) == SubSeq(s, 1, i - 1) \o SubSeq(s, i + 1, Len(s))

\* What placeOrder does: the status the order gets, and whether the caller
\* sees it accepted.
Placements == {<<"live", TRUE>>, <<"rejected", FALSE>>}
              \cup (IF "placement_lost" \in Faults THEN {<<"live", FALSE>>} ELSE {})

Init ==
  /\ net = StartQty /\ cache = StartQty
  /\ orders = <<>> /\ exits = <<>> /\ booked = {} /\ numbered = {}
  /\ latched = {} /\ exchLatch = FALSE
  /\ lotCache = LotTargets /\ lotLatch = {}
  /\ lotOpen = LotQty
  /\ task = [t \in Task |-> Resting] /\ turn = NoTask
  /\ watching = {} /\ fetches = <<>> /\ owed = FALSE /\ siblings = {} /\ reenables = 0

-----------------------------------------------------------------------------
(* _on_target_tick: symbol target, then lot targets, then exchange target  *)

\* The coroutine enters _place_exit_orders with the quantities it read.
PlaceAll(t, k, path, S) ==
  task' = [task EXCEPT ![t] =
             [at |-> "place", path |-> path, key |-> k, queue |-> S, size |-> cache,
              pend |-> PendingExits, bad |-> {}, order |-> 0, pos |-> CHOOSE p \in Pos : TRUE]]

\* The lot loop: the key's latch is looked at once, before it.
LotQueue(k, latches1) == IF k \in latches1 THEN {} ELSE lotCache \cap LotsAt(k)
LotLoop(t, k, latches1) ==
  task' = [task EXCEPT ![t] = [at |-> "lot", key |-> k, lots |-> LotQueue(k, latches1), order |-> 0]]

\* A symbol target fires: latched before the first await.
MayFireLatched(k) == k \in SymTargets  \* mutant: the latch is not consulted
MayFire(k) == k \in SymTargets /\ k \notin latched
SymbolFires(t, k) ==
  LET S == {p \in Pos : KeyOf[p] = k /\ cache[p] > 0} IN
  /\ turn = NoTask /\ task[t] = Resting
  /\ MayFire(k) /\ S # {} /\ Room(Cardinality(S))
  /\ latched' = latched \cup {k}
  /\ PlaceAll(t, k, "symbol", S)
  /\ turn' = t
  /\ UNCHANGED <<broker, cache, exchLatch, lotTable, ledger, background>>

SymbolPasses(t, k) ==
  /\ turn = NoTask /\ task[t] = Resting
  /\ LotLoop(t, k, latched)
  /\ turn' = t
  /\ UNCHANGED <<broker, cache, latches, lotTable, ledger, background>>

\* _place_exit_orders, one position: the pending lot exits come off first.
PlaceCovered(t, p) ==
  LET j == task[t] IN
  /\ turn = t /\ j.at = "place" /\ p \in j.queue
  /\ j.size[p] <= j.pend[p]
  /\ task' = [task EXCEPT ![t] = [j EXCEPT !.queue = @ \ {p}, !.pend[p] = @ - j.size[p]]]
  /\ UNCHANGED <<broker, cache, latches, lotTable, ledger, turn, background>>

PlaceOne(t, p) ==
  LET j == task[t] IN
  /\ turn = t /\ j.at = "place" /\ p \in j.queue
  /\ j.size[p] > j.pend[p]
  /\ \E r \in Placements :
       /\ orders' = Append(orders, Order(p, NoLot, j.size[p] - j.pend[p], r[1]))
       /\ task' = [task EXCEPT ![t] =
            [j EXCEPT !.at = "answer", !.queue = @ \ {p}, !.pend[p] = 0, !.pos = p,
                      !.order = IF r[2] THEN Len(orders) + 1 ELSE 0]]
  /\ exits' = Append(exits, "none")
  /\ turn' = NoTask
  /\ UNCHANGED <<net, cache, latches, lotTable, lotOpen, booked, numbered, background>>

\* The answer arrives: a watcher for an accepted order, a failed key otherwise.
WatchesFor(j) == IF j.order # 0 THEN {j.order} ELSE {}
Placed(t) ==
  LET j == task[t] IN
  /\ turn = NoTask /\ j.at = "answer"
  /\ watching' = watching \cup WatchesFor(j)
  /\ task' = [task EXCEPT ![t] =
       [j EXCEPT !.at = "place", !.bad = IF j.order # 0 THEN @ ELSE @ \cup {KeyOf[j.pos]}]]
  /\ turn' = t
  /\ UNCHANGED <<broker, cache, latches, lotTable, ledger, fetches, owed, siblings, reenables>>

\* Back in the tick: a symbol whose exits were not all accepted is un-latched.
StillLatched(j) == latched \ j.bad
SymbolPlaced(t) ==
  LET j == task[t] IN
  /\ turn = t /\ j.at = "place" /\ j.queue = {} /\ j.path = "symbol"
  /\ latched' = StillLatched(j)
  /\ LotLoop(t, j.key, latched')
  /\ UNCHANGED <<broker, cache, exchLatch, lotTable, ledger, turn, background>>

\* A lot's own target fires (_auto_exit_lot), unless it is closed or has an
\* exit resting.
LotMayExit(l) == lotOpen[l] > 0 /\ PendingOf(l) = {}
LotExitSize(l) == lotOpen[l]
LotFires(t, l) ==
  LET j == task[t] IN
  /\ turn = t /\ j.at = "lot" /\ l \in j.lots
  /\ l \notin lotLatch /\ LotMayExit(l) /\ Room(1)
  /\ lotLatch' = lotLatch \cup {l}
  /\ \E r \in Placements :
       /\ orders' = Append(orders, Order(PosOf[l], l, LotExitSize(l), r[1]))
       /\ task' = [task EXCEPT ![t] =
            [at |-> "lotanswer", key |-> j.key, lots |-> j.lots \ {l},
             lot |-> l, ok |-> r[2], order |-> Len(orders) + 1]]
  /\ exits' = Append(exits, "PENDING")
  /\ turn' = NoTask
  /\ UNCHANGED <<net, cache, latches, lotCache, lotOpen, booked, numbered, background>>

LotPasses(t, l) ==
  /\ turn = t /\ task[t].at = "lot" /\ l \in task[t].lots
  /\ task' = [task EXCEPT ![t].lots = @ \ {l}]
  /\ UNCHANGED <<broker, cache, latches, lotTable, ledger, turn, background>>

\* The answer arrives: the order's number is stored, or its row given up.
LotPlaced(t) ==
  LET j == task[t] IN
  /\ turn = NoTask /\ j.at = "lotanswer"
  /\ IF j.ok THEN numbered' = numbered \cup {j.order} /\ UNCHANGED <<exits, lotLatch>>
     ELSE /\ exits' = [exits EXCEPT ![j.order] = IF @ = "PENDING" THEN "REJECTED" ELSE @]
          /\ lotLatch' = lotLatch \ {j.lot}
          /\ UNCHANGED numbered
  /\ task' = [task EXCEPT ![t] = [at |-> "lot", key |-> j.key, lots |-> j.lots, order |-> 0]]
  /\ turn' = t
  /\ UNCHANGED <<broker, cache, latches, lotCache, lotOpen, booked, background>>

\* The exchange target fires for every key that is not latched, and latches
\* them all before the first await.
ExchangeFires(t) ==
  LET j == task[t]
      S == {p \in Pos : KeyOf[p] \notin latched /\ cache[p] > 0}
  IN
  /\ turn = t /\ j.at = "lot" /\ j.lots = {}
  /\ ExchTarget /\ ~exchLatch /\ Room(Cardinality(S))
  /\ exchLatch' = TRUE
  /\ latched' = Key
  /\ PlaceAll(t, j.key, "exchange", S)
  /\ UNCHANGED <<broker, cache, lotTable, ledger, turn, background>>

ExchangePlaced(t) ==
  LET j == task[t] IN
  /\ turn = t /\ j.at = "place" /\ j.queue = {} /\ j.path = "exchange"
  /\ latched' = StillLatched(j)
  /\ exchLatch' = (exchLatch /\ j.bad = {})
  /\ task' = [task EXCEPT ![t] = Resting] /\ turn' = NoTask
  /\ UNCHANGED <<broker, cache, lotTable, ledger, background>>

TickEnds(t) ==
  /\ turn = t /\ task[t].at = "lot" /\ task[t].lots = {}
  /\ task' = [task EXCEPT ![t] = Resting] /\ turn' = NoTask
  /\ UNCHANGED <<broker, cache, latches, lotTable, ledger, background>>

-----------------------------------------------------------------------------
(* _watch_auto_exit_order and _refresh_then_rearm                          *)

\* A check finds the order dead: filled, rejected (re-arm at once) or
\* cancelled by someone else (refresh first).
WatcherSees(o) ==
  LET k == KeyOfOrder(o) IN
  /\ turn = NoTask /\ o \in watching
  /\ watching' = watching \ {o}
  /\ \/ orders[o].st = "done" /\ UNCHANGED <<latches, fetches>>
     \/ /\ orders[o].st = "rejected"
        /\ latched' = latched \ {k} /\ exchLatch' = FALSE
        /\ UNCHANGED fetches
     \/ /\ orders[o].st = "cancelled" /\ Len(fetches) < MaxFetches
        /\ fetches' = Append(fetches, Fetch({k}, FALSE)) /\ UNCHANGED latches
  /\ UNCHANGED <<broker, cache, lotTable, ledger, task, turn, owed, siblings, reenables>>

\* Out of patience with a resting order: cancel it, then refresh and re-arm.
WatcherGivesUp(o) ==
  /\ turn = NoTask /\ o \in watching /\ o \in Live
  /\ Len(fetches) < MaxFetches
  /\ watching' = watching \ {o}
  /\ orders' = Ended(o, "cancelled")
  /\ fetches' = Append(fetches, Fetch({KeyOfOrder(o)}, FALSE))
  /\ UNCHANGED <<net, cache, latches, lotTable, ledger, task, turn, owed, siblings, reenables>>

\* The cancel raised and the state is unknown: no re-arming.
WatcherBlind(o) ==
  /\ "cancel_unheard" \in Faults
  /\ turn = NoTask /\ o \in watching /\ o \in Live
  /\ watching' = watching \ {o}
  /\ UNCHANGED <<broker, cache, latches, lotTable, ledger, task, turn, fetches, owed, siblings, reenables>>

\* _load_target_positions and _load_lot_targets: a position answer rebuilds
\* the caches; the keys waiting for it are re-armed.
FetchArrives(i) ==
  LET f == fetches[i]
      open == {l \in LotTargets : lotOpen[l] > 0}
  IN
  /\ turn = NoTask
  /\ i = 1 \/ "late_snapshot" \in Faults
  /\ cache' = f.snap
  /\ latched' = latched \ f.rearm
  /\ exchLatch' = (exchLatch /\ f.rearm = {})
  /\ IF f.lots THEN lotCache' = open /\ lotLatch' = lotLatch \cap open
     ELSE UNCHANGED lotTable
  /\ fetches' = Without(fetches, i)
  /\ UNCHANGED <<broker, ledger, task, turn, watching, owed, siblings, reenables>>

FetchFails(i) ==
  /\ "fetch_fails" \in Faults /\ turn = NoTask
  /\ fetches' = Without(fetches, i)
  /\ UNCHANGED <<broker, cache, latches, lotTable, ledger, task, turn, watching, owed, siblings, reenables>>

\* PUT /api/symbol-targets: enabled again, re-armed at once, refreshed later.
Reenable(k) ==
  /\ turn = NoTask /\ k \in SymTargets /\ reenables < MaxReenables
  /\ latched' = latched \ {k}
  /\ Len(fetches) < MaxFetches
  /\ fetches' = Append(fetches, Fetch({}, FALSE)) /\ reenables' = reenables + 1
  /\ UNCHANGED <<broker, cache, exchLatch, lotTable, ledger, task, turn, watching, owed, siblings>>

-----------------------------------------------------------------------------
(* Reconciliation: one database transaction in a worker thread.  A row of  *)
(* the order-update websocket carries the tag of its lot exit, a row of    *)
(* the REST order book has the order number only.                          *)

\* The row of a lot exit that is found, by its tag or by its stored number, books
\* whatever the order filled, once.
Rebookable(o) == orders[o].st # "live"  \* mutant: whatever the row already says
Bookable(o) ==
  \/ exits[o] = "PENDING" /\ orders[o].st # "live"
  \/ exits[o] \in {"CANCELLED", "REJECTED"} /\ Filled(o) > 0 /\ orders[o].st # "live"
\* Closing a lot queues its resting exits for a cancel, those whose order
\* number is known by then.
SiblingsOf(S) == numbered \cap UNION {PendingOf(l) : l \in S}
BookLotExit(o) ==
  LET l == orders[o].lot IN
  /\ ~IsAuto(o) /\ Bookable(o)
  /\ IF Filled(o) > 0
     THEN /\ exits' = [exits EXCEPT ![o] = "FILLED"]
          /\ lotOpen' = [lotOpen EXCEPT ![l] = @ - Lesser(@, Filled(o))]
          /\ siblings' = siblings \cup
               (IF lotOpen[l] <= Filled(o) THEN SiblingsOf({l}) \ {o} ELSE {})
          /\ owed' = TRUE
     ELSE /\ exits' = [exits EXCEPT ![o] = IF orders[o].st = "rejected" THEN "REJECTED"
                                           ELSE "CANCELLED"]
          /\ UNCHANGED <<lotOpen, owed, siblings>>
  /\ UNCHANGED <<broker, cache, latches, lotTable, booked, numbered, task, turn, watching, fetches,
                 reenables>>

\* A complete order that is found by neither closes the position's lots, oldest
\* first: an exit of a symbol or exchange target, and a lot exit whose number is not
\* stored, because its answer has not come yet or was lost.  Its own row may book the
\* same fill before or after.
OlderAt(l) == {m \in Lot : PosOf[m] = PosOf[l] /\ Age[m] < Age[l]}
Closes(o, l) ==
  LET rest == Filled(o) - SumFunctionOnSet(lotOpen, OlderAt(l))
  IN  IF PosOf[l] # orders[o].pos \/ rest <= 0 THEN 0 ELSE Lesser(lotOpen[l], rest)
BookAutoExit(o) ==
  /\ orders[o].st = "done" /\ o \notin booked \cup numbered
  /\ \E l \in Lot : Closes(o, l) > 0
  /\ lotOpen' = [l \in Lot |-> lotOpen[l] - Closes(o, l)]
  /\ booked' = booked \cup {o}
  /\ siblings' = siblings \cup
       SiblingsOf({l \in Lot : Closes(o, l) > 0 /\ Closes(o, l) = lotOpen[l]})
  /\ owed' = TRUE
  /\ UNCHANGED <<broker, cache, latches, lotTable, exits, numbered, task, turn, watching, fetches,
                 reenables>>

\* _cancel_sibling_exits: the row follows only a cancel the broker accepted.
CancelSibling(o) ==
  /\ turn = NoTask /\ o \in siblings
  /\ siblings' = siblings \ {o}
  /\ IF o \in Live
     THEN /\ orders' = Ended(o, "cancelled")
          /\ exits' = [exits EXCEPT ![o] = IF @ = "PENDING" THEN "CANCELLED" ELSE @]
     ELSE UNCHANGED <<orders, exits>>
  /\ UNCHANGED <<net, cache, latches, lotTable, lotOpen, booked, numbered, task, turn, watching,
                 fetches, owed, reenables>>

\* After a booked fill the position cache is refreshed: by the order update
\* that brought it, or at the end of the poll burst.
Refresh ==
  /\ turn = NoTask /\ owed /\ Len(fetches) < MaxFetches
  /\ fetches' = Append(fetches, Fetch({}, TRUE))
  /\ owed' = FALSE
  /\ UNCHANGED <<broker, cache, latches, lotTable, ledger, task, turn, watching, siblings, reenables>>

-----------------------------------------------------------------------------
(* The exchange                                                            *)

Fill(o) ==
  /\ o \in Live
  /\ \E n \in 1..orders[o].left :
       /\ net' = [net EXCEPT ![orders[o].pos] = @ - n]
       /\ orders' = Traded(o, n)
  /\ UNCHANGED <<cache, latches, lotTable, ledger, task, turn, background>>

\* Rejected by the exchange before anything filled, or cancelled at the broker.
BrokerKills(o) ==
  /\ "broker_kills" \in Faults /\ o \in Live
  /\ \E st \in {"cancelled"} \cup (IF Filled(o) = 0 THEN {"rejected"} ELSE {}) :
       orders' = Ended(o, st)
  /\ UNCHANGED <<net, cache, latches, lotTable, ledger, task, turn, background>>

-----------------------------------------------------------------------------
TickStep(t) ==
  \/ \E p \in Pos : PlaceCovered(t, p) \/ PlaceOne(t, p)
  \/ \E l \in Lot : LotFires(t, l) \/ LotPasses(t, l)
  \/ Placed(t) \/ SymbolPlaced(t) \/ LotPlaced(t)
  \/ ExchangeFires(t) \/ ExchangePlaced(t) \/ TickEnds(t)
NewTick(t) == \E k \in Key : SymbolFires(t, k) \/ SymbolPasses(t, k)
Watcher(o) == WatcherSees(o) \/ WatcherGivesUp(o) \/ WatcherBlind(o)
Fetching == \E i \in DOMAIN fetches : FetchArrives(i) \/ FetchFails(i)
Reconcile(o) == BookLotExit(o) \/ BookAutoExit(o) \/ CancelSibling(o)

Next ==
  \/ \E t \in Task : NewTick(t) \/ TickStep(t)
  \/ \E o \in Ids : Watcher(o) \/ Reconcile(o) \/ Fill(o) \/ BrokerKills(o)
  \/ \E k \in Key : Reenable(k)
  \/ Fetching \/ Refresh

Spec == Init /\ [][Next]_vars

\* The event loop runs ready coroutines first come, first served, so none is
\* overtaken for ever by other turns; a watcher counts its checks; every
\* broker call is answered or times out.
Fairness ==
  /\ \A t \in Task : SF_vars(TickStep(t))
  /\ SF_vars(\E o \in Ids : Watcher(o))
  /\ SF_vars(Fetching)
FairSpec == Spec /\ Fairness

-----------------------------------------------------------------------------
(* Properties                                                              *)

PlaceJob ==
  [at : {"place", "answer"}, path : {"symbol", "exchange"}, key : Key, queue : SUBSET Pos,
   size : [Pos -> Int], pend : [Pos -> Int], bad : SUBSET Key, order : Nat, pos : Pos]
LotJob == [at : {"lot"}, key : Key, lots : SUBSET Lot, order : Nat]
AnswerJob ==
  [at : {"lotanswer"}, key : Key, lots : SUBSET Lot, lot : Lot, ok : BOOLEAN, order : Nat]
Job == {Resting} \cup PlaceJob \cup LotJob \cup AnswerJob
OrderStatus == {"live", "done", "cancelled", "rejected"}
ExitOrder == [pos : Pos, lot : Lot \cup {NoLot}, qty : Nat \ {0}, left : Nat,
              st : OrderStatus]
RowStatus == {"none", "PENDING", "FILLED", "CANCELLED", "REJECTED"}
Request == [snap : [Pos -> Int], rearm : SUBSET Key, lots : BOOLEAN]

\* The ranges of the dictionaries, the ledger and the control state.
TypeOK ==
  /\ net \in [Pos -> Int] /\ cache \in [Pos -> Int]
  /\ latched \subseteq Key /\ exchLatch \in BOOLEAN
  /\ lotCache \subseteq Lot /\ lotLatch \subseteq Lot /\ lotOpen \in [Lot -> Nat]
  /\ orders \in Seq(ExitOrder) /\ exits \in Seq(RowStatus) /\ Len(exits) = Len(orders)
  /\ booked \subseteq Ids /\ numbered \subseteq Ids
  /\ watching \subseteq Ids /\ siblings \subseteq Ids
  /\ task \in [Task -> Job] /\ turn \in Task \cup {NoTask}
  /\ fetches \in Seq(Request) /\ owed \in BOOLEAN /\ reenables \in Nat

\* Fills booked both ways: by the row of their lot exit, and oldest lot first.
Fills == [o \in Ids |-> Filled(o)]
TwiceAt(p) == {o \in booked : exits[o] = "FILLED" /\ orders[o].pos = p}
BookedTwice(p) == SumFunctionOnSet(Fills, TwiceAt(p))

\* The ledger is short of the account by no more than the fills of lot exits that a
\* pass over the order book met before the exit's number was stored: no other fill
\* is booked twice, and none more than twice.
LotsOf(p) == {l \in Lot : PosOf[l] = p}
LotsTotal(p) == SumFunctionOnSet(lotOpen, LotsOf(p))
FillsCounted == \A p \in Pos : LotsTotal(p) + BookedTwice(p) >= net[p]

\* With every order dead and every fill the gateway would book booked, the ledger
\* shows no share the account does not hold, and misses none but by such a fill.
Settled ==
  /\ Live = {}
  /\ \A o \in Ids : ~IsAuto(o) => ~Bookable(o)
  /\ \A o \in Ids : IsAuto(o) /\ orders[o].st = "done" => o \in booked
LedgerMatchesAccount ==
  Settled => \A p \in Pos : LotsTotal(p) <= net[p] /\ net[p] <= LotsTotal(p) + BookedTwice(p)

\* A fired target is not silently dead: its contract is closed or re-armed.
TargetNotDead ==
  \A k \in Key : k \in latched ~>
    (k \notin latched \/ \A p \in Pos : KeyOf[p] = k => net[p] = 0)
=============================================================================
