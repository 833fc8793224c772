------------------------------ MODULE ExitDesk ------------------------------
(***************************************************************************)
(* What every exit path of the platform promises about one account: the    *)
(* exit orders working at the broker never add up to more than is held, so *)
(* no order of trades can turn a position over.  Abstract: who places,     *)
(* who retries and who cancels is not said.                                *)
(***************************************************************************)
EXTENDS Integers

CONSTANT Pos      \* positions: contract and product

VARIABLES
  held,     \* shares held, per position
  working   \* unfilled shares of the exit orders at the broker, per position

deskVars == <<held, working>>

DeskInit == held \in [Pos -> Nat] /\ working = [p \in Pos |-> 0]

\* An exit order is accepted for shares no other order is selling.
Commit(p) ==
  /\ working'[p] > working[p] /\ working'[p] <= held[p]
  /\ working' = [working EXCEPT ![p] = working'[p]]
  /\ UNCHANGED held

\* Some of the working shares trade.
Trade(p) ==
  /\ held'[p] < held[p]
  /\ held[p] - held'[p] = working[p] - working'[p]
  /\ held' = [held EXCEPT ![p] = held'[p]]
  /\ working' = [working EXCEPT ![p] = working'[p]]

\* An order is cancelled or rejected with shares left.
Withdraw(p) ==
  /\ working'[p] < working[p]
  /\ working' = [working EXCEPT ![p] = working'[p]]
  /\ UNCHANGED held

DeskNext == \E p \in Pos : Commit(p) \/ Trade(p) \/ Withdraw(p)

DeskSpec == DeskInit /\ [][DeskNext]_deskVars

\* No order of trades can turn a position over.
CoveredByHolding == \A p \in Pos : 0 <= working[p] /\ working[p] <= held[p]
=============================================================================
