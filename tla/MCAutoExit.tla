----------------------------- MODULE MCAutoExit -----------------------------
(* Three small instances of AutoExit.  "symbol": two contracts with a      *)
(* symbol and an exchange target, as the configuration gives it.  "lots":  *)
(* two lots with targets of their own on one position.  "mixed": a symbol  *)
(* and a lot target on one position, with every fault.  `part` picks which *)
(* one runs.                                                               *)
EXTENDS AutoExit, TLC

CONSTANTS k1, k2, p1, p2, l1, l2, t1, t2
VARIABLE part

EachKey == (p1 :> k1) @@ (p2 :> k2)
TwoOne == (p1 :> 2) @@ (p2 :> 1)
NoLots == <<>>

OnK1 == p1 :> k1
BothAtP1 == (l1 :> p1) @@ (l2 :> p1)
InTurn == (l1 :> 1) @@ (l2 :> 2)

Lots == INSTANCE AutoExit WITH
  Key <- {k1}, Pos <- {p1}, KeyOf <- OnK1, StartQty <- (p1 :> 2),
  Lot <- {l1, l2}, PosOf <- BothAtP1, LotQty <- (l1 :> 1) @@ (l2 :> 1), Age <- InTurn,
  SymTargets <- {}, LotTargets <- {l1, l2}, ExchTarget <- FALSE,
  MaxOrders <- 3, MaxFetches <- 2, MaxReenables <- 0, Faults <- {"broker_kills"}
Mixed == INSTANCE AutoExit WITH
  Key <- {k1}, Pos <- {p1}, KeyOf <- OnK1, StartQty <- (p1 :> 3),
  Lot <- {l1, l2}, PosOf <- BothAtP1, LotQty <- (l1 :> 1) @@ (l2 :> 2), Age <- InTurn,
  SymTargets <- {k1}, LotTargets <- {l2}, ExchTarget <- FALSE,
  MaxOrders <- 2, MaxFetches <- 1, MaxReenables <- 1, Faults <- FaultKinds

Symbol == part = "symbol"
PartInit ==
  /\ part \in {"symbol", "lots", "mixed"}
  /\ IF Symbol THEN Init ELSE IF part = "lots" THEN Lots!Init ELSE Mixed!Init
PartNext ==
  /\ UNCHANGED part
  /\ \/ Symbol /\ Next
     \/ part = "lots" /\ Lots!Next
     \/ part = "mixed" /\ Mixed!Next
AutoExitSpec ==
  /\ PartInit /\ [][PartNext]_<<part, vars>>
  /\ \A t \in Task : SF_vars(Symbol /\ TickStep(t))
  /\ SF_vars(Symbol /\ \E o \in Ids : Watcher(o))
  /\ SF_vars(Symbol /\ Fetching)
-----------------------------------------------------------------------------
\* Whatever goes wrong between the gateway and the broker, the ledger is short of the
\* account by no more than the fills of lot exits that a pass over the order book met
\* before the exit's number was stored: no other is booked twice, none three times.
MixedFillsCounted == part = "mixed" => Mixed!FillsCounted

\* With every order dead and every fill the gateway would book booked, the ledger of
\* two lots whose targets race shows no share the account does not hold, and misses
\* none but by a fill booked twice.
LotsMatchAccount == part = "lots" => Lots!LedgerMatchesAccount

\* Exits never commit more shares than are held, whichever targets fire together
\* and however their orders end: every step is one of the abstract desk's.
Shown(q) == [p \in Pos |-> IF part \in {"symbol", "lots"} /\ p \in DOMAIN q THEN q[p] ELSE 0]
Desk == INSTANCE ExitDesk WITH
  held <- Shown(net), working <- Shown(IF part = "lots" THEN Lots!Working ELSE Working)
ImplementsDesk == Desk!DeskSpec

\* A fired symbol or exchange target is not silently dead: its contract is closed
\* or the target re-armed.
FiredIsNotDead == Symbol => TargetNotDead
=============================================================================
