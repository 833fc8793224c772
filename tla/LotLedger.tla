------------------------------ MODULE LotLedger ------------------------------
(***************************************************************************)
(* The lot ledger of the gateway (tables order_lots and lot_exits) and the *)
(* pass that keeps it equal to the account                                 *)
(* (src/gateway/app/services/reconciliation.py), with the routes that add  *)
(* rows (routers/orders.py, routers/lots.py).  One contract and product.   *)
(*                                                                         *)
(* A pass works on what was read earlier: the order book of a REST call,   *)
(* whose rows carry no remarks, or one pushed order update, which does.    *)
(* Passes are serialised by state._reconcile_lock and each commits once,   *)
(* so a pass is one step; the reads before it and the routes interleave.   *)
(* A side is 1 (buy) or -1 (sell); PARTIAL is an OPEN lot with less than   *)
(* its entry; a rejected row is CANCELLED; 0 stands for "no order number". *)
(***************************************************************************)
EXTENDS Integers, Sequences, FiniteSets, SequencesExt, FiniteSetsExt, Functions

CONSTANTS
  MaxOrders, MaxLots, MaxExits, MaxQty,   \* bounds
  Sources,       \* what places orders and touches the ledger
  Held           \* shares of a lot kept from the day before

\* entry, exit   the gateway's entries and lot exits
\* outside       orders placed in the broker's own terminal
\* card          the exit button of the position card (remarks `exit`, no row)
\* lost          answers of the broker that never arrive
\* sync          importing what the positions show and the lots do not
\* reentry       reopening a closed lot in place
AllSources == {"entry", "exit", "outside", "card", "lost", "sync", "reentry"}

ASSUME LedgerAssumption ==
  /\ {MaxOrders, MaxLots, MaxExits, MaxQty, Held} \subseteq Nat
  /\ Sources \subseteq AllSources

VARIABLES
  orders,     \* the broker's orders of the day, with the caller that waits
  lots, exits,
  late,       \* an order book or update that was read and not passed yet
  sync,       \* a position sync: its book and its positions
  doomed,     \* _cancel_sibling_exits: exits to cancel at the broker
  missed,     \* shares in the account from before today that no lot has
  misread,    \* observation: orders a pass met before their number was stored, or
              \* met in an older state than a pass before it
  blunt,      \* observation: a sync imported while a fill was not booked yet
  met,        \* observation: orders a pass has met in their final state
  stray       \* observation: exits of a closed lot that nothing will cancel

db == <<lots, exits>>
reads == <<late, sync>>
marks == <<misread, blunt, met, stray>>
ledgerVars == <<orders, db, reads, doomed, missed, marks>>

NoSync == [on |-> FALSE, rows |-> <<>>, net |-> <<>>]
Lots == DOMAIN lots
Final == {"COMPLETE", "CANCELLED", "REFUSED"}
Unfilled == {"PENDING", "CANCELLED"}

NewLot(side, q, st, ord, ext, at) ==
  [side |-> side, entry |-> q, open |-> q, st |-> st, ord |-> ord,
   tag |-> IF ext THEN 0 ELSE ord, ext |-> ext, at |-> at]

LedgerInit ==
  /\ orders = <<>> /\ exits = <<>>
  /\ \/ lots = <<>> /\ missed = Held /\ "sync" \in Sources
     \/ lots = <<NewLot(1, Held, "OPEN", 0, FALSE, 0)>> /\ missed = 0 /\ Held > 0
  /\ late = <<>> /\ sync = NoSync
  /\ doomed = {} /\ misread = {} /\ blunt = FALSE /\ met = {} /\ stray = {}

Net(ls) == SumFunctionOnSet([n \in DOMAIN ls |-> ls[n].side * ls[n].open],
                            {n \in DOMAIN ls : ls[n].st = "OPEN"})
AccountNet == Held + SumFunctionOnSet([o \in DOMAIN orders |-> orders[o].side * orders[o].done],
                                      DOMAIN orders)

-----------------------------------------------------------------------------
\* What a pass computes.  d is the ledger as it goes: [lots, exits, doomed].

WithOrder(rows, o) == {n \in DOMAIN rows : rows[n].ord = o}
WithTag(rows, r) == {n \in DOMAIN rows : r.tagged /\ rows[n].tag = r.ord /\ rows[n].st # "deleted"}
SideOf(r) == orders[r.ord].side
Known(d, r) == WithTag(d.lots, r) # {} \/ WithTag(d.exits, r) # {}
IsExitRemarks(r) == r.tagged /\ orders[r.ord].ref \in {"exit", "card"}

\* _collect_pending_exits
PendingExits(d, n) == {e \in DOMAIN d.exits :
  d.exits[e].lot = n /\ d.exits[e].st = "PENDING" /\ d.exits[e].ord # 0}

CollectNone(d, n) == {}  \* mutant
Collect(d, n) == PendingExits(d, n)
\* a lot loses q shares; one that is empty is closed and its exits collected
Reduce(d, n, q) ==
  LET left == d.lots[n].open - q IN
  [d EXCEPT !.lots[n].open = left,
            !.lots[n].st = IF left = 0 THEN "CLOSED" ELSE "OPEN",
            !.doomed = IF left = 0 THEN @ \cup Collect(d, n) ELSE @]

\* the fill of an order that has ended, for a lot that was not filled yet
SettleLot(l, r) ==
  IF r.st \in Final /\ r.done > 0 /\ l.st \in Unfilled
    THEN [l EXCEPT !.entry = r.done, !.open = r.done, !.st = "OPEN"]
  ELSE IF r.st = "CANCELLED" /\ l.st = "PENDING" THEN [l EXCEPT !.st = "CANCELLED"]
  ELSE l

\* no more than the lot has open
Took(l, f) == IF f < l.open THEN f ELSE l.open

\* mutant: an exit that was cancelled with a part filled is only cancelled
OnlyComplete(x, r) == r.st = "COMPLETE" /\ r.done > 0 /\ x.filled = 0
Fills(x, r) == r.st \in Final /\ r.done > 0 /\ x.filled = 0
\* _apply_exit_fill, or the row is written off
SettleExit(d, e, r) ==
  LET x == d.exits[e]
      took == Took(d.lots[x.lot], r.done)
  IN
  IF Fills(x, r)
    THEN Reduce([d EXCEPT !.exits[e].st = "FILLED", !.exits[e].filled = r.done,
                          !.exits[e].took = took], x.lot, took)
  ELSE IF r.st = "CANCELLED" /\ x.st = "PENDING" THEN [d EXCEPT !.exits[e].st = "CANCELLED"]
  ELSE d

\* the first loop: an external lot that was PENDING or CANCELLED when the pass
\* began, one of our lots, one of our exits; by tag if there is one
Matched(d0, d, r) ==
  LET external == {n \in WithOrder(d0.lots, r.ord) : d0.lots[n].ext /\ d0.lots[n].st \in Unfilled}
      tagged == WithTag(d.lots, r)
      mine == {n \in WithOrder(d.lots, r.ord) : ~d.lots[n].ext}
      leg == WithTag(d.exits, r)
      legs == {e \in WithOrder(d.exits, r.ord) : d.exits[e].st # "deleted"}
      settle(n) == [d EXCEPT !.lots[n] = SettleLot(@, r)]
  IN
  IF external # {} THEN settle(Max(external))
  ELSE IF tagged # {} THEN settle(Max(tagged))
  ELSE IF mine # {} THEN settle(Max(mine))
  ELSE IF leg # {} THEN SettleExit(d, Max(leg), r)
  ELSE IF legs # {} THEN SettleExit(d, Max(legs), r)
  ELSE d

\* _import_external_pending_orders: a resting order nobody knows, unless it
\* fits the open shares on the other side
OpenOn(d, side) ==
  SumFunctionOnSet([n \in DOMAIN d.lots |-> d.lots[n].open],
                   {n \in DOMAIN d.lots : d.lots[n].side = side /\ d.lots[n].st = "OPEN"})
Imported(d0, d, r) ==
  IF /\ r.st = "OPEN" /\ WithOrder(d.lots, r.ord) = {}
     /\ ~Known(d, r) /\ ~IsExitRemarks(r)
     /\ OpenOn(d0, -SideOf(r)) < orders[r.ord].qty
    THEN [d EXCEPT !.lots = Append(@,
           NewLot(SideOf(r), orders[r.ord].qty, "PENDING", r.ord, TRUE, 2 * r.ord))]
    ELSE d

\* oldest first; lots that this pass has added come last
Ids(rows) == [n \in DOMAIN rows |-> n]
OpenLots(d) == {n \in DOMAIN d.lots : d.lots[n].st = "OPEN"}
Age(d, known, n) == IF n <= known THEN d.lots[n].at ELSE 2 * MaxOrders + n + 1
Older(d, known, m, n) ==
  Age(d, known, m) < Age(d, known, n) \/ (Age(d, known, m) = Age(d, known, n) /\ m < n)
OldestFirst(step(_, _), base, S, d, known) ==
  MapThenFoldSet(step, base, LAMBDA n : n,
                 LAMBDA T : CHOOSE n \in T : \A m \in T \ {n} : Older(d, known, m, n), S)

\* _reconcile_untagged_fills: close what is open on the other side, oldest
\* first, with an exit row for each; what remains is a lot of its own
NotBooked(d, r) ==
  WithOrder(d.lots, r.ord) = {} /\ {e \in WithOrder(d.exits, r.ord) : d.exits[e].st # "deleted"} = {}
ByFill(r, n, acc) ==
  LET l == acc.d.lots[n]
      q == IF l.open < acc.left THEN l.open ELSE acc.left
  IN IF acc.left = 0 \/ l.side = SideOf(r) THEN acc
     ELSE [left |-> acc.left - q,
           d |-> [Reduce(acc.d, n, q) EXCEPT !.exits = Append(@,
             [lot |-> n, ord |-> r.ord, tag |-> 0, qty |-> q, filled |-> q,
              took |-> q, st |-> "FILLED"])]]
Untagged(d0, d, r) ==
  LET closed == OldestFirst(LAMBDA n, acc : ByFill(r, n, acc), [left |-> r.done, d |-> d],
                            OpenLots(d), d, Len(d0.lots))
  IN
  IF r.st # "COMPLETE" \/ ~NotBooked(d, r) \/ Known(d, r) THEN d
  ELSE IF closed.left = 0 \/ IsExitRemarks(r) THEN closed.d
  ELSE [closed.d EXCEPT !.lots = Append(@,
         NewLot(SideOf(r), closed.left, "OPEN", r.ord, TRUE, 2 * r.ord))]

\* _offset_opposing_lots: open lots on both sides net out, oldest first, each
\* against those younger than it
NetOut(a, b, d) ==
  LET q == IF d.lots[a].open < d.lots[b].open THEN d.lots[a].open ELSE d.lots[b].open
  IN IF d.lots[a].side = d.lots[b].side \/ q = 0 THEN d ELSE Reduce(Reduce(d, a, q), b, q)
Against(d0, a, d) ==
  OldestFirst(LAMBDA b, x : NetOut(a, b, x), d,
              {b \in OpenLots(d0) : Older(d0, Len(d0.lots), a, b)}, d0, Len(d0.lots))
Offset(d) == OldestFirst(LAMBDA a, x : Against(d, a, x), d, OpenLots(d), d, Len(d.lots))

\* _cancel_stale_pending_lots: ten minutes without an order number
Stale(d) == {n \in DOMAIN d.lots : d.lots[n].st = "PENDING" /\ d.lots[n].ord = 0
               /\ ~d.lots[n].ext /\ ~orders[d.lots[n].tag].waits}
WriteOff(d, aged) == [d EXCEPT !.lots = [n \in DOMAIN @ |->
  IF aged /\ n \in Stale(d) THEN [@[n] EXCEPT !.st = "CANCELLED"] ELSE @[n]]]

\* the three loops of a pass
MatchAll(d0, rows) == FoldLeft(LAMBDA d, r : Matched(d0, d, r), d0, rows)
ImportAll(d0, rows) == FoldLeft(LAMBDA d, r : Imported(d0, d, r), d0, rows)
BookAll(d0, rows) == FoldLeft(LAMBDA d, r : Untagged(d0, d, r), d0, rows)
Pass(rows, aged) ==
  LET d == [lots |-> lots, exits |-> exits, doomed |-> doomed]
  IN IF rows = <<>> THEN d
     ELSE WriteOff(Offset(BookAll(ImportAll(MatchAll(d, rows), rows), rows)), aged)

Fits(d) == Len(d.lots) <= MaxLots /\ Len(d.exits) <= MaxExits
Commit(d) == Fits(d) /\ lots' = d.lots /\ exits' = d.exits /\ doomed' = d.doomed

\* what the pass has seen, for the properties
Unnumbered(rows) == {rows[n].ord : n \in {k \in DOMAIN rows :
  /\ ~rows[k].tagged /\ orders[rows[k].ord].ref \in {"lot", "exit"}
  /\ WithOrder(lots, rows[k].ord) = {} /\ WithOrder(exits, rows[k].ord) = {}}}
Observe(rows) ==
  /\ misread' = misread \cup Unnumbered(rows)
       \cup {rows[n].ord : n \in {k \in DOMAIN rows : rows[k].st = "OPEN" /\ rows[k].ord \in met}}
  /\ met' = met \cup {rows[n].ord : n \in {k \in DOMAIN rows : rows[k].st \in Final}}
-----------------------------------------------------------------------------
\* Orders.  A route commits its row and calls the broker.

NewOrder(side, q, ref) ==
  /\ Len(orders) < MaxOrders
  /\ orders' = Append(orders, [side |-> side, qty |-> q, done |-> 0, ref |-> ref,
       st |-> IF ref = "none" THEN "OPEN" ELSE "sent", waits |-> ref # "none", was |-> <<>>])
Upcoming == Len(orders) + 1

\* place_order for an entry
PlaceEntry(side, q) ==
  /\ "entry" \in Sources /\ Len(lots) < MaxLots /\ NewOrder(side, q, "lot")
  /\ lots' = Append(lots, [NewLot(side, q, "PENDING", 0, FALSE, 2 * Upcoming) EXCEPT !.tag = Upcoming])
  /\ UNCHANGED <<exits, reads, doomed, missed, marks>>

\* exit_lot; nothing compares it with the exits that are pending already
PlaceExit(n, q) ==
  /\ "exit" \in Sources /\ Len(exits) < MaxExits
  /\ lots[n].st = "OPEN" /\ q <= lots[n].open /\ NewOrder(-lots[n].side, q, "exit")
  /\ exits' = Append(exits, [lot |-> n, ord |-> 0, tag |-> Upcoming, qty |-> q,
                             filled |-> 0, took |-> 0, st |-> "PENDING"])
  /\ UNCHANGED <<lots, reads, doomed, missed, marks>>

\* the position card's exit, and the broker's terminal: no row
PlaceCard(side, q) ==
  /\ "card" \in Sources /\ NewOrder(side, q, "card")
  /\ UNCHANGED <<db, reads, doomed, missed, marks>>
PlaceOutside(side, q) ==
  /\ "outside" \in Sources /\ NewOrder(side, q, "none")
  /\ UNCHANGED <<db, reads, doomed, missed, marks>>

\* place_order with reentry_source_lot_id: a CLOSED lot becomes the new entry,
\* its exits are deleted; the order remembers the row for _fail_lot
Reenter(n, q) ==
  /\ "reentry" \in Sources /\ Len(orders) < MaxOrders
  /\ lots[n].st = "CLOSED"
  /\ orders' = Append(orders, [side |-> lots[n].side, qty |-> q, done |-> 0, ref |-> "lot",
       st |-> "sent", waits |-> TRUE, was |-> <<lots[n]>>])
  /\ lots' = [lots EXCEPT ![n] = [@ EXCEPT !.entry = q, !.open = q, !.st = "PENDING",
                                           !.ord = 0, !.tag = Upcoming, !.at = 2 * Upcoming]]
  /\ exits' = [e \in DOMAIN exits |-> IF exits[e].lot = n THEN [exits[e] EXCEPT !.st = "deleted"]
                                                          ELSE exits[e]]
  /\ doomed' = {e \in doomed : exits[e].lot # n}
  /\ UNCHANGED <<reads, missed, marks>>

\* at the broker
Accept(o) ==
  /\ orders[o].st = "sent" /\ orders' = [orders EXCEPT ![o].st = "OPEN"]
  /\ UNCHANGED <<db, reads, doomed, missed, marks>>
\* it ends with f shares traded, or is cancelled before that.  Trades of an
\* order that still rests show in the positions only
Ends(o, f) ==
  /\ orders[o].st = "OPEN" /\ f \in orders[o].done..orders[o].qty
  /\ orders' = [orders EXCEPT ![o].done = f,
       ![o].st = IF f = orders[o].qty THEN "COMPLETE" ELSE "CANCELLED"]
  /\ UNCHANGED <<db, reads, doomed, missed, marks>>
Trades(o, f) ==
  /\ "sync" \in Sources /\ orders[o].st = "OPEN" /\ f \in (orders[o].done + 1)..(orders[o].qty - 1)
  /\ orders' = [orders EXCEPT ![o].done = f]
  /\ UNCHANGED <<db, reads, doomed, missed, marks>>

\* the answer of the broker reaches the route
Answered(o, st) == orders' = [orders EXCEPT ![o].waits = FALSE, ![o].st = st]
LotOf(o) == {n \in Lots : lots[n].tag = o /\ o # 0}
ExitOf(o) == {e \in DOMAIN exits : exits[e].tag = o /\ o # 0 /\ exits[e].st # "deleted"}

AnswerTaken(o) ==
  /\ orders[o].waits /\ orders[o].st # "sent" /\ Answered(o, orders[o].st)
  /\ lots' = [n \in Lots |-> IF n \in LotOf(o) THEN [lots[n] EXCEPT !.ord = o] ELSE lots[n]]
  /\ exits' = [e \in DOMAIN exits |-> IF e \in ExitOf(o) THEN [exits[e] EXCEPT !.ord = o] ELSE exits[e]]
  /\ stray' = stray \cup {e \in ExitOf(o) : lots[exits[e].lot].st = "CLOSED"}
  /\ UNCHANGED <<reads, doomed, missed, misread, blunt, met>>

\* _fail_lot; an exit is REJECTED
FailedLot(o, l) == IF orders[o].was # <<>> THEN orders[o].was[1] ELSE [l EXCEPT !.st = "CANCELLED"]
AnswerRefused(o) ==
  /\ orders[o].waits /\ orders[o].st = "sent" /\ Answered(o, "REFUSED")
  /\ lots' = [n \in Lots |-> IF n \in LotOf(o) THEN FailedLot(o, lots[n]) ELSE lots[n]]
  /\ exits' = [e \in DOMAIN exits |-> IF e \in ExitOf(o) THEN [exits[e] EXCEPT !.st = "CANCELLED"] ELSE exits[e]]
  /\ UNCHANGED <<reads, doomed, missed, marks>>

\* no verdict: the lot stays PENDING (_unresolved_lot), the exit is REJECTED
AnswerLost(o) ==
  /\ "lost" \in Sources /\ orders[o].waits
  /\ Answered(o, IF orders[o].st = "sent" THEN "REFUSED" ELSE orders[o].st)
  /\ exits' = [e \in DOMAIN exits |-> IF e \in ExitOf(o) THEN [exits[e] EXCEPT !.st = "CANCELLED"] ELSE exits[e]]
  /\ UNCHANGED <<lots, reads, doomed, missed, marks>>

-----------------------------------------------------------------------------
\* Reads and passes

RowOf(o, tagged) ==
  [ord |-> o, st |-> orders[o].st, tagged |-> tagged,
   done |-> IF orders[o].st = "OPEN" THEN 0 ELSE orders[o].done]
Seen(o) == orders[o].st \notin {"sent", "REFUSED"}
BookNow ==
  FoldLeft(LAMBDA rows, o : IF Seen(o) THEN Append(rows, RowOf(o, FALSE)) ELSE rows, <<>>, Ids(orders))

\* what one pass works on: the book of a poll (short poll, 30 s poll, GET
\* /api/orders), or one pushed update
Readings == {BookNow} \cup {<<RowOf(o, TRUE)>> : o \in {x \in DOMAIN orders : Seen(x)}}

\* passed at once
Reconcile(aged) ==
  \E rows \in Readings : Commit(Pass(rows, aged)) /\ Observe(rows)
  /\ UNCHANGED <<orders, reads, missed, blunt, stray>>

\* passed later: the call was slow or the lock was taken
ReadAhead ==
  /\ late = <<>> /\ late' \in Readings /\ late' # <<>>
  /\ UNCHANGED <<orders, db, sync, doomed, missed, marks>>
PassLate ==
  /\ late # <<>> /\ late' = <<>>
  /\ Commit(Pass(late, FALSE)) /\ Observe(late)
  /\ UNCHANGED <<orders, sync, missed, blunt, stray>>

\* _cancel_sibling_exits: marked only if the broker took the cancel
CancelSibling(e) ==
  LET o == exits[e].ord IN
  /\ e \in doomed /\ doomed' = doomed \ {e}
  /\ \/ /\ orders[o].st = "OPEN" /\ orders' = [orders EXCEPT ![o].st = "CANCELLED"]
        /\ exits' = [exits EXCEPT ![e].st = IF @ = "PENDING" THEN "CANCELLED" ELSE @]
        /\ UNCHANGED stray
     \/ stray' = stray \cup {e} /\ UNCHANGED <<orders, exits>>
  /\ UNCHANGED <<lots, reads, missed, misread, blunt, met>>

\* _sync_positions_to_lots: the book, then the positions, then both under the lock
SyncBook ==
  /\ "sync" \in Sources /\ ~sync.on /\ sync' = [on |-> TRUE, rows |-> BookNow, net |-> <<>>]
  /\ UNCHANGED <<orders, db, late, doomed, missed, marks>>
SyncPositions ==
  /\ sync.on /\ sync.net = <<>> /\ sync' = [sync EXCEPT !.net = <<AccountNet>>]
  /\ UNCHANGED <<orders, db, late, doomed, missed, marks>>
SyncBlind ==  \* either read failed: the sync is given up
  /\ sync.on /\ sync.net = <<>> /\ sync' = NoSync
  /\ UNCHANGED <<orders, db, late, doomed, missed, marks>>

\* _import_position_deltas_impl
Delta(d, net) == net - Net(d.lots)
WithDelta(d, q) ==
  IF q = 0 THEN d
  ELSE [d EXCEPT !.lots = Append(@, NewLot(IF q > 0 THEN 1 ELSE -1, IF q > 0 THEN q ELSE -q,
                                           "OPEN", 0, TRUE, 2 * Len(orders) + 1))]
SyncPass ==
  LET d == Pass(sync.rows, FALSE)
      net == sync.net[1]
      q == Delta(d, net)
  IN
  /\ sync.net # <<>> /\ sync' = NoSync
  /\ Observe(sync.rows)
  /\ IF net = 0 THEN Commit(d) /\ UNCHANGED <<missed, blunt>>
     ELSE /\ Commit(WithDelta(d, q)) /\ missed' = 0
          /\ blunt' = (blunt \/ q # missed)
  /\ UNCHANGED <<orders, late, stray>>

\* entries of the gateway buy, the position card closes the long side
PlaceNext ==
  \E q \in 1..MaxQty :
    \/ PlaceEntry(1, q) \/ \E side \in {1, -1} : PlaceOutside(side, q)
    \/ \E n \in Lots : PlaceExit(n, q)
CardNext == \E q \in 1..MaxQty : PlaceCard(-1, q)
ReenterNext == \E n \in Lots, q \in 1..MaxQty : Reenter(n, q)
BrokerNext ==
  \E o \in DOMAIN orders :
    Accept(o) \/ (\E f \in 0..MaxQty : Ends(o, f)) \/ AnswerTaken(o) \/ AnswerRefused(o)
PassNext ==
  \/ Reconcile(FALSE) \/ (Stale([lots |-> lots]) # {} /\ Reconcile(TRUE)) \/ ReadAhead \/ PassLate
  \/ \E e \in doomed : CancelSibling(e)
LossNext ==
  \/ \E o \in DOMAIN orders : AnswerLost(o) \/ \E f \in 1..MaxQty : Trades(o, f)
  \/ SyncBook \/ SyncPositions \/ SyncBlind \/ SyncPass
LedgerNext == PlaceNext \/ CardNext \/ ReenterNext \/ BrokerNext \/ PassNext \/ LossNext

LedgerSpec == LedgerInit /\ [][LedgerNext]_ledgerVars

-----------------------------------------------------------------------------
LotSet == [side : {1, -1}, entry : Nat, open : Nat, ord : Nat, tag : Nat, ext : BOOLEAN,
           at : Nat, st : {"PENDING", "OPEN", "CLOSED", "CANCELLED"}]
ExitSet == [lot : Nat, ord : Nat, tag : Nat, qty : Nat, filled : Nat, took : Nat,
            st : {"PENDING", "FILLED", "CANCELLED", "deleted"}]
\* Rows are typed, a lot has never more open than it was entered for, is CLOSED
\* exactly when nothing is, and has nothing taken before it is filled.
LedgerTypeOK ==
  /\ lots \in Seq(LotSet) /\ exits \in Seq(ExitSet)
  /\ \A n \in Lots : LET l == lots[n] IN
       /\ l.open <= l.entry /\ (l.st = "CLOSED" <=> l.open = 0)
       /\ l.st \in Unfilled => l.open = l.entry

Recycled == \E o \in DOMAIN orders : orders[o].was # <<>>

\* The shares the rows of order o stand for: a lot that was filled for what it
\* was entered for, an exit for what it took.
LotShare(l, o) == IF l.st \in {"OPEN", "CLOSED"} /\ o \in {l.ord, l.tag} THEN l.entry ELSE 0
ExitShare(x, o) == IF x.st # "deleted" /\ o \in {x.ord, x.tag} THEN x.took ELSE 0
BookedIn(d, o) ==
  SumFunctionOnSet([n \in DOMAIN d.lots |-> LotShare(d.lots[n], o)], DOMAIN d.lots)
  + SumFunctionOnSet([e \in DOMAIN d.exits |-> ExitShare(d.exits[e], o)], DOMAIN d.exits)
Ledger == [lots |-> lots, exits |-> exits, doomed |-> doomed]

\* every order has ended and a pass has met it in that state
Settled == \A o \in DOMAIN orders : ~orders[o].waits /\ (orders[o].st = "REFUSED" \/ o \in met)

\* What the rows of an order do not say: part fills of cancelled orders that no
\* row is about, what a position-card exit trades beyond the lots, what an exit
\* trades beyond its lot, and an exit that has a lot beside its own row: the
\* import of resting orders knows exits by their remarks only, which the rows
\* of an order book do not carry.
LeftOutIn(d, o) ==
  \/ orders[o].ref \in {"none", "card"} /\ orders[o].st = "CANCELLED" /\ BookedIn(d, o) = 0
  \/ orders[o].ref = "card" /\ orders[o].st = "COMPLETE"
  \/ \E e \in DOMAIN d.exits : /\ d.exits[e].tag = o
                             /\ \/ d.exits[e].took < d.exits[e].filled
                                \/ \E n \in DOMAIN d.lots : d.lots[n].ext /\ d.lots[n].ord = o
Unexplained ==
  SumFunctionOnSet([o \in DOMAIN orders |-> orders[o].side * (orders[o].done - BookedIn(Ledger, o))],
                   {o \in DOMAIN orders : LeftOutIn(Ledger, o)})
Explained == Net(lots) + missed + Unexplained = AccountNet

\* Once every order has ended and been met, the open lots add up to the account
\* except for what the rows leave out, unless an order was misread, a sync
\* imported a fill before it was booked, or a closed lot was entered again.
LedgerMatches == Settled /\ misread = {} /\ ~blunt /\ ~Recycled => Explained

\* An exit that rests on a closed lot is about to be cancelled, except when its
\* number was stored only after the lot closed or the broker refused the cancel.
ClosedIsSwept ==
  \A e \in DOMAIN exits :
    /\ exits[e].st = "PENDING" /\ exits[e].ord # 0
    /\ lots[exits[e].lot].st = "CLOSED" /\ orders[exits[e].ord].st = "OPEN"
    => e \in doomed \cup stray
=============================================================================
