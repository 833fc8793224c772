------------------------------ MODULE RiskDesk ------------------------------
(***************************************************************************)
(* What the intraday engine lets an entry cost: the vehicle of a signal    *)
(* (src/intraday/intelligence/scanner.py, selector/router.py), the size    *)
(* and the caps of the Governor (risk/governor.py) and the order of the    *)
(* checks in _enter (runtime/loop.py), over the book that entries, exits   *)
(* and adopted positions build up, with the budget edited at any time.     *)
(*                                                                         *)
(* Money is in whole units and percentages round down, as the lots do; the *)
(* features of a leg are the gate of the router they trip.                 *)
(***************************************************************************)
EXTENDS Integers, FiniteSetsExt, SequencesExt

CONSTANTS
  Names,        \* underlyings
  Budgets, Prices, Stops,   \* budgets, premiums, distances of the stop
  Reprices,     \* what an option may be worth at its stop
  FoundLots,    \* quantities start-up may find at the broker
  Results,      \* profits the session may show
  Lot, MaxPositions, MaxLots,
  RiskPct, HeatPct, PremiumPct, HardPct, PremiumLossPct, LossPct,
  DayLoss,      \* the loss of a day that halts it
  MinRisk,      \* least risk of a share of an option
  Slip,         \* how much dearer than the ask a fill may be
  MaxSurprises  \* bound: rows of the broker's book the journal had not

ASSUME RiskDeskAssumption ==
  /\ {Budgets, Prices, Stops, FoundLots} \subseteq SUBSET (Nat \ {0})
  /\ Reprices \subseteq Nat /\ Results \subseteq Int
  /\ {Lot, MinRisk, MaxLots, MaxPositions, DayLoss} \subseteq Nat \ {0} /\ {Slip, MaxSurprises} \subseteq Nat
  /\ {RiskPct, HeatPct, PremiumPct, HardPct, PremiumLossPct, LossPct} \subseteq 0..100

VARIABLES
  book,     \* the positions tracked, oldest first
  budget,   \* cfg total_budget, as the user last set it
  equity,   \* the budget as the step began
  curve,    \* the equity curve of the day: its peak and its last point, if it has two
  halted,
  surprises

deskVars == <<book, budget, equity, curve, halted, surprises>>

NoLeg == [ask |-> 0]
Most(S) == Max(S \cup {0})
NoCurve == [points |-> 0, peak |-> 0, last |-> 0]

DeskInit ==
  /\ book = <<>> /\ budget \in Budgets /\ equity = budget
  /\ curve = NoCurve /\ halted = FALSE /\ surprises = 0

-----------------------------------------------------------------------------
(* The vehicle                                                             *)

\* Each gate the features of a signal may trip, from the chain, the session
\* and the momentum; "scored" leaves the choice to the comparison of edges.
Gates == {"blackout", "forces_future", "forces_option", "scored", "selector_off", "selector_fails"}

Vehicles(gate, leg, future) ==
  CASE gate = "selector_fails" \/ gate = "selector_off" -> {"OPT"}
    [] gate = "blackout" -> {"SKIP"}
    [] OTHER -> IF ~future THEN IF leg = NoLeg THEN {"SKIP"} ELSE {"OPT"}
                ELSE IF leg = NoLeg \/ gate = "forces_future" THEN {"FUT"}
                ELSE IF gate = "forces_option" THEN {"OPT"} ELSE {"OPT", "FUT"}

-----------------------------------------------------------------------------
(* The Governor                                                            *)

Risk(p) == p.rps * p.qty
RiskOf(b) == SumFunction([i \in DOMAIN b |-> Risk(b[i])])
\* mutant: adopted ones forgotten
OpenRiskOwn == SumFunction([i \in DOMAIN book |-> IF book[i].adopted THEN 0 ELSE Risk(book[i])])
OpenRisk == RiskOf(book)
\* Futures count their risk, long options the premium paid, short ones nothing.
Committed(p) == IF p.right = "FUT" THEN Risk(p) ELSE IF p.long THEN p.px * p.qty ELSE 0
Deployed(b) == SumFunction([i \in DOMAIN b |-> Committed(b[i])])
\* The loss of the day halts it: in money, or as a share of the budget.
Breached(pnl) == pnl <= -DayLoss \/ (LossPct > 0 /\ 100 * pnl <= -LossPct * budget)

\* Quarters of the risk a drawdown of 5 and of 10 percent leaves.
Throttle ==
  LET fall == curve.peak - curve.last
  IN CASE curve.points < 2 \/ 100 * fall < 5 * curve.peak -> 4
       [] 100 * fall < 10 * curve.peak -> 3
       [] OTHER -> 2

\* An option risks down to its price at the underlying's stop, at most the
\* share of the premium at which it is sold; a future risks the stop distance.
RiskPerShare(kind, ask, sl, worth) ==
  IF kind = "FUT" THEN sl ELSE Most({ask - Most({worth, (ask * (100 - PremiumLossPct)) \div 100}), MinRisk})

HeatRoom == Most({(HeatPct * equity) \div 100 - OpenRisk})
LotsFor(kind, ask, rps, regime) ==
  Min({ (equity * RiskPct * Throttle * regime) \div (1600 * rps * Lot),
        HeatRoom \div (rps * Lot), MaxLots }
      \cup IF kind = "FUT" THEN {} ELSE {((PremiumPct * equity) \div 100) \div (ask * Lot)})

\* can_open_new, by the budget as it is now.
CanOpen(extra) == 100 * (Deployed(book) + extra) < HardPct * budget

\* The rule engine: positions, one bet per direction, the lots of an underlying.
LotsOf(name, b) == SumFunction([i \in DOMAIN b |-> IF b[i].under = name THEN b[i].qty \div Lot ELSE 0])
SameBet(p, q) == p.under = q.under /\ p.right = q.right /\ (p.right = "FUT" => p.long = q.long)
Allowed(p, lots) ==
  /\ Len(book) < MaxPositions /\ \A q \in Range(book) : ~SameBet(p, q)
  /\ LotsOf(p.under, book) + lots <= MaxLots

-----------------------------------------------------------------------------
\* One signal of a step, from the leg the scanner found to the tracked fill,
\* which may be partial, and dearer than the ask it was sized by.
Enter(name, call, leg, sl, worth, gate, future, regime) ==
  /\ ~halted
  /\ \E kind \in Vehicles(gate, leg, future) \ {"SKIP"} :
       LET rps == RiskPerShare(kind, leg.ask, sl, worth)
           lots == LotsFor(kind, leg.ask, rps, regime)
           qty == lots * Lot
           extra == IF kind = "FUT" THEN rps * qty ELSE leg.ask * qty
           right == IF kind = "FUT" THEN "FUT" ELSE IF call THEN "CE" ELSE "PE"
           opened(n, px) ==
             [under |-> name, right |-> right, long |-> kind = "OPT" \/ call, qty |-> n, rps |-> rps,
              px |-> px, quoted |-> leg.ask, adopted |-> FALSE]
       IN /\ kind = "OPT" => leg # NoLeg
          /\ lots > 0 /\ CanOpen(extra) /\ Allowed(opened(qty, leg.ask), lots)
          /\ \E n \in 1..lots, px \in {leg.ask, leg.ask + Slip} :
               book' = Append(book, opened(n * Lot, px))
  /\ UNCHANGED <<budget, equity, curve, halted, surprises>>

\* An exit, in part or whole.
Reduce(i) ==
  /\ \E n \in 0..(book[i].qty - 1) :
       book' = IF n = 0 THEN RemoveAt(book, i) ELSE [book EXCEPT ![i].qty = n]
  /\ UNCHANGED <<budget, equity, curve, halted, surprises>>

\* Start-up finds a position the journal never saw, or another quantity.
Adopt(name, right, long, px, sl, n) ==
  /\ surprises < MaxSurprises /\ surprises' = surprises + 1
  /\ LET rps == IF right = "FUT" THEN sl ELSE Most({(px * PremiumLossPct) \div 100, MinRisk})
     IN book' = Append(book, [under |-> name, right |-> right, long |-> long, qty |-> n * Lot, rps |-> rps,
                              px |-> px, quoted |-> px, adopted |-> TRUE])
  /\ UNCHANGED <<budget, equity, curve, halted>>
Adjust(i, n) ==
  /\ surprises < MaxSurprises /\ surprises' = surprises + 1
  /\ book' = [book EXCEPT ![i].qty = n * Lot]
  /\ UNCHANGED <<budget, equity, curve, halted>>

\* The end of a step marks the equity, the next picks the budget up; a breach
\* flattens, which may leave positions.
Tick(pnl) ==
  /\ equity' = budget
  /\ LET point == equity + pnl
     IN curve' = [points |-> Min({curve.points + 1, 2}), last |-> point,
                  peak |-> IF curve.points = 0 THEN point ELSE Max({curve.peak, point})]
  /\ \/ Breached(pnl) /\ halted' = TRUE /\ book' \in {<<>>, book}
     \/ ~Breached(pnl) /\ UNCHANGED <<halted, book>>
  /\ UNCHANGED <<budget, surprises>>
EditBudget(b) ==
  /\ b # budget /\ budget' = b /\ UNCHANGED <<book, equity, curve, halted, surprises>>
NewDay ==
  /\ curve.points > 0 /\ halted' = FALSE /\ curve' = NoCurve
  /\ UNCHANGED <<book, budget, equity, surprises>>

DeskNext ==
  \/ \E name \in Names, call, future \in BOOLEAN, leg \in {NoLeg} \cup [ask : Prices], sl \in Stops,
        worth \in Reprices, gate \in Gates, regime \in {2, 4} :
        Enter(name, call, leg, sl, worth, gate, future, regime)
  \/ \E i \in DOMAIN book : Reduce(i) \/ \E n \in FoundLots : Adjust(i, n)
  \/ \E name \in Names, right \in {"CE", "FUT"}, long \in BOOLEAN, px \in Prices, sl \in Stops,
        n \in FoundLots : Adopt(name, right, long, px, sl, n)
  \/ \E pnl \in Results : Tick(pnl)
  \/ \E b \in Budgets : EditBudget(b)
  \/ NewDay
DeskSpec == DeskInit /\ [][DeskNext]_deskVars

-----------------------------------------------------------------------------
(* Properties                                                              *)

\* An entry is paid for by the whole book it joins, whatever the book holds,
\* adopted positions too, and whatever the budget was before: the risk of all
\* positions stays within the heat cap, the money committed at the price it was
\* sized by within the hard cap, the lots of the underlying within theirs, no
\* bet is doubled, and a drawdown of a tenth halves what the entry may risk.
Opens == Len(book') = Len(book) + 1 /\ ~Last(book').adopted
Quoted(p) == [p EXCEPT !.px = p.quoted]
Covered ==
  LET new == Last(book')
  IN /\ 100 * RiskOf(book') <= HeatPct * equity
     /\ 100 * Deployed(Append(book, Quoted(new))) < HardPct * budget
     /\ LotsOf(new.under, book') <= MaxLots
     /\ \A i \in DOMAIN book : ~SameBet(book[i], new)
     /\ curve.points = 2 /\ 10 * (curve.peak - curve.last) >= curve.peak
          => 200 * Risk(new) <= RiskPct * equity
EntryIsCovered == [][Opens => Covered]_deskVars
=============================================================================
