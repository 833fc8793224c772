------------------------------- MODULE DayPnl -------------------------------
(***************************************************************************)
(* Two accounts of the money in one contract: the broker's position row,   *)
(* which starts every day at yesterday's settlement, and the lots of the   *)
(* gateway, which remember what was paid (src/gateway/app/services/pnl.py  *)
(* with the booking of reconciliation.py).  The targets of a symbol and of *)
(* an exchange fire on the first, those of a lot on the second.            *)
(*                                                                         *)
(* Prices are multiples of Grain, so that a price derived from a P&L is a  *)
(* whole number; every order of the day reaches the ledger at once, what   *)
(* comes in between is LotLedger's matter.                                 *)
(***************************************************************************)
EXTENDS Integers, Sequences, FiniteSetsExt, SequencesExt

CONSTANTS
  Marks,      \* prices
  Factor,     \* prcftr: rupees a unit of price and quantity is worth
  MaxHeld,    \* bound of a position
  MaxTrades, MaxNights   \* bounds

ASSUME DayPnlAssumption ==
  /\ Marks \subseteq Nat \ {0} /\ {Factor, MaxHeld} \subseteq Nat \ {0}
  /\ {MaxTrades, MaxNights} \subseteq Nat
  /\ \A p \in Marks, n \in 1..MaxHeld : p % n = 0

VARIABLES
  row,      \* the position: net, carried, settled, spent and earned today
  books,    \* the lots, oldest first
  trades, nights,
  past,     \* observation: what the days before came to
  adopted   \* observation: a position was imported beside lots, or days late

pnlVars == <<row, books, trades, nights, past, adopted>>

Signed(lot) == IF lot.buy THEN lot.open ELSE -lot.open
NetOf(ls) == SumFunction([i \in DOMAIN ls |-> Signed(ls[i])])

-----------------------------------------------------------------------------
(* Valuation                                                               *)

\* mutant: only today's money counts (the broker's own rpnl)
ClosedToday(r) == r.earned - r.spent
\* _compute_position_pnl: the day's cash flow less the carried quantity at
\* yesterday's settlement, and the worth of what is open.
Closed(r) == r.earned - r.spent - r.carried * r.settled
PositionPnl(r, price) == (Closed(r) + r.net * price) * Factor

LotPnl(lot, price) ==
  lot.realized + IF lot.open = 0 THEN 0 ELSE (price - lot.entry) * Signed(lot) * Factor
\* The day's move of an open lot, none for a lot of today.
LotMtm(lot, price) == IF lot.open = 0 \/ lot.fresh THEN 0 ELSE (price - row.settled) * Signed(lot) * Factor
PnlOf(ls, price) == SumFunction([i \in DOMAIN ls |-> LotPnl(ls[i], price)])
MtmOf(ls, price) == SumFunction([i \in DOMAIN ls |-> LotMtm(ls[i], price)])

-----------------------------------------------------------------------------
(* Booking                                                                 *)

NewLotAt(buy, n, price) == [buy |-> buy, open |-> n, entry |-> price, realized |-> 0, fresh |-> TRUE]
LessOf(lot, n, price) ==
  [lot EXCEPT !.open = @ - n, !.realized = @ + (price - lot.entry) * (IF lot.buy THEN n ELSE -n) * Factor]

\* _reconcile_untagged_fills closes the other side, oldest first.
ClosesAt(buy, lot, n) == IF lot.buy = buy THEN 0 ELSE Min({lot.open, n})
Closing(acc, lot, buy, price) ==
  LET took == ClosesAt(buy, lot, acc.left)
  IN [left |-> acc.left - took, ls |-> Append(acc.ls, LessOf(lot, took, price))]
CloseOldest(ls, buy, n, price) ==
  FoldLeft(LAMBDA acc, lot : Closing(acc, lot, buy, price), [left |-> n, ls |-> <<>>], ls)

\* _offset_opposing_lots: each lot meets the newer ones of the other side, and
\* closes at the price the newer was entered at.
Places(ls) == [i \in DOMAIN ls |-> i]
OffsetPair(ls, i, j) ==
  LET n == Min({ls[i].open, ls[j].open})
  IN IF i < j /\ ls[i].buy # ls[j].buy
     THEN [ls EXCEPT ![i] = LessOf(@, n, ls[j].entry), ![j].open = @ - n]
     ELSE ls
OffsetFrom(ls, i) == FoldLeft(LAMBDA b, j : OffsetPair(b, i, j), ls, Places(ls))
OffsetAll(ls) == FoldLeft(OffsetFrom, ls, Places(ls))

-----------------------------------------------------------------------------
Flat == [net |-> 0, carried |-> 0, settled |-> 0, spent |-> 0, earned |-> 0]

\* The gateway starts on an empty ledger; the account may hold a position.
PnlInit ==
  /\ \/ row = Flat
     \/ \E n \in (-MaxHeld..MaxHeld) \ {0}, p \in Marks :
          row = [Flat EXCEPT !.net = n, !.carried = n, !.settled = p]
  /\ books = <<>> /\ trades = 0 /\ nights = 0 /\ past = 0 /\ adopted = FALSE

Traded(buy, n, price) ==
  /\ trades < MaxTrades /\ trades' = trades + 1
  /\ row.net + (IF buy THEN n ELSE -n) \in -MaxHeld..MaxHeld
  /\ row' = [row EXCEPT !.net = @ + (IF buy THEN n ELSE -n),
                        !.spent = IF buy THEN @ + n * price ELSE @,
                        !.earned = IF buy THEN @ ELSE @ + n * price]
  /\ UNCHANGED <<nights, past, adopted>>

\* An entry of the gateway fills: a lot, netted against the lots before it.
EntryFills(buy, n, price) ==
  Traded(buy, n, price) /\ books' = OffsetAll(Append(books, NewLotAt(buy, n, price)))
\* The exit of a lot fills.
ExitFills(i, n, price) ==
  /\ n <= books[i].open /\ Traded(~books[i].buy, n, price)
  /\ books' = OffsetAll([books EXCEPT ![i] = LessOf(@, n, price)])
\* An order of the terminal fills, without a tag.
OutsideFills(buy, n, price) ==
  /\ Traded(buy, n, price)
  /\ LET done == CloseOldest(books, buy, n, price)
     IN books' = OffsetAll(IF done.left = 0 THEN done.ls ELSE Append(done.ls, NewLotAt(buy, done.left, price)))

\* _import_position_deltas_impl: what the lots do not explain of a carried
\* position becomes a lot, at the price its P&L gives.
Derived(price) ==
  IF row.net > 0 THEN price - PositionPnl(row, price) \div (row.net * Factor)
  ELSE price - (-PositionPnl(row, price)) \div (-row.net * Factor)
SyncsPosition ==
  /\ row.net # 0 /\ row.carried # 0 /\ row.net # NetOf(books)
  /\ LET n == row.net - NetOf(books)
     IN \E price \in Marks :
          /\ Derived(price) > 0
          /\ books' = Append(books, NewLotAt(n > 0, IF n > 0 THEN n ELSE -n, Derived(price)))
  /\ adopted' = (adopted \/ books # <<>> \/ past # 0)
  /\ UNCHANGED <<row, trades, nights, past>>

\* The exchange settles; a flat row does not come back the next day.
NightPasses(price) ==
  /\ nights < MaxNights /\ nights' = nights + 1
  /\ past' = past + PositionPnl(row, price)
  /\ row' = [Flat EXCEPT !.net = row.net, !.carried = row.net, !.settled = IF row.net = 0 THEN 0 ELSE price]
  /\ books' = [i \in DOMAIN books |-> [books[i] EXCEPT !.fresh = FALSE]]
  /\ UNCHANGED <<trades, adopted>>

PnlNext ==
  \/ \E buy \in BOOLEAN, n \in 1..MaxHeld, price \in Marks :
       EntryFills(buy, n, price) \/ OutsideFills(buy, n, price)
  \/ \E i \in DOMAIN books, n \in 1..MaxHeld, price \in Marks : ExitFills(i, n, price)
  \/ SyncsPosition \/ \E price \in Marks : NightPasses(price)
PnlSpec == PnlInit /\ [][PnlNext]_pnlVars

-----------------------------------------------------------------------------
(* Properties                                                              *)

\* The two accounts agree: once the lots explain the position, what they have
\* made since they were opened is, at every price, what the position made on
\* all days since, through partial exits, exits of either side, reversals,
\* netting and an imported position; and on a day without trades what the lots
\* moved is what the position moved.
LotsMatchPosition ==
  row.net = NetOf(books) /\ ~adopted =>
    \A price \in Marks :
      /\ PnlOf(books, price) = past + PositionPnl(row, price)
      /\ row.spent + row.earned = 0 /\ (\A lot \in Range(books) : ~lot.fresh)
           => MtmOf(books, price) = PositionPnl(row, price)
=============================================================================
