---------------------------- MODULE MCDecisions ----------------------------
(* What the engines decide on, in one run: the signals of the legacy       *)
(* engine, the search for structures that cannot lose, the open interest   *)
(* the gateway sweeps, what the intraday engine lets an entry cost, and    *)
(* the profit the targets of the gateway fire on.                          *)
(* `part` picks which one runs.  The signals run twice, on bars that move  *)
(* the regimes under either trend and on bars that move the legs.         *)
EXTENDS SignalWalk, ZeroLoss, OiSweep, RiskDesk, DayPnl

CONSTANTS t1, t2, r1, r2
VARIABLE part

\* Bars of one price, and one with wicks; with an ATR of 1 the trend turns on
\* four prices, pulls back on two or three and confirms on the way back.
Bar(high, low, close, atr, body, rsi, wr) ==
  [high |-> high, low |-> low, close |-> close, atr |-> atr, body |-> body, rsi |-> rsi, wr |-> wr]
Dot(p, body, rsi, wr) == Bar(p, p, p, 1, body, rsi, wr)
RegimeBars ==
  {Dot(4, "none", rsi, wr) : rsi \in 1..5, wr \in 1..5}
  \cup {Dot(0, "none", q[1], q[2]) : q \in {<<3, 3>>, <<1, 5>>, <<3, 4>>, <<5, 1>>}}
LegBars ==
  {Dot(p, "none", 3, 3) : p \in {0, 1, 3, 4, 5}} \cup {Dot(4, "none", 5, 1), Dot(0, "none", 1, 5)}
  \cup {Dot(2, "up", 3, 3), Dot(2, "down", 3, 3), Dot(3, "up", 3, 3), Bar(3, 1, 2, 1, "none", 3, 3)}
AllBars == RegimeBars \cup LegBars
PartBars == IF part = "regimes" THEN RegimeBars ELSE LegBars

\* Chains with quotes of one type; the two high strikes are quoted at most 2 and 1.
Quote(bid, ask, thin) == [bid |-> bid, ask |-> ask, thin |-> thin]
Quotes == {Quote(b, a, FALSE) : b \in 1..MaxQuote, a \in 1..MaxQuote} \cup {Quote(0, 1, FALSE)}
Sound == {q \in Quotes : q.ask >= q.bid}
Dark == [k \in Strikes |-> Quote(0, 0, FALSE)]
Snapshot(spot, near, call, quotes) ==
  [spot |-> spot, near |-> near, quotes |-> [c \in BOOLEAN |-> IF c = call THEN quotes ELSE Dark]]
Even == [k \in Strikes |-> Quote(1, 1, FALSE)]
Snapshots ==
  {Snapshot(spot, FALSE, call, q) : spot \in {4, 8}, call \in BOOLEAN,
      q \in {f \in [Strikes -> Sound] : f[8].ask <= 2 /\ f[10].ask = 1}}
  \cup {Snapshot(0, FALSE, TRUE, Even), Snapshot(4, TRUE, TRUE, Even),
        Snapshot(4, FALSE, TRUE, [Even EXCEPT ![4] = Quote(1, 1, TRUE)])}

SessionResults == {0, -130}

decisionVars == <<part, signalVars, zeroVars, sweepVars, deskVars, pnlVars>>
ZeroRest == chain = Snapshot(0, FALSE, TRUE, Even) /\ answer = {} /\ scanned = FALSE
DecisionsInit ==
  /\ part \in {"regimes", "legs", "zero", "sweep", "desk", "pnl"}
  /\ SignalInit /\ SweepInit /\ DeskInit /\ PnlInit /\ (part # "pnl" => row = Flat)
  /\ part # "desk" => budget = Max(Budgets)
  /\ IF part = "zero" THEN ZeroInit ELSE ZeroRest
DecisionsNext ==
  /\ UNCHANGED part
  /\ \/ /\ part \in {"regimes", "legs"} /\ UNCHANGED <<zeroVars, sweepVars, deskVars, pnlVars>>
        /\ FrameOpens \/ SessionOpens \/ \E b \in PartBars : CloseBar(b)
     \/ part = "zero" /\ ZeroNext /\ UNCHANGED <<signalVars, sweepVars, deskVars, pnlVars>>
     \/ part = "sweep" /\ SweepNext /\ UNCHANGED <<signalVars, zeroVars, deskVars, pnlVars>>
     \/ part = "desk" /\ DeskNext /\ UNCHANGED <<signalVars, zeroVars, sweepVars, pnlVars>>
     \/ part = "pnl" /\ PnlNext /\ UNCHANGED <<signalVars, zeroVars, sweepVars, deskVars>>
DecisionsSpec == DecisionsInit /\ [][DecisionsNext]_decisionVars

\* Tokens and requests are interchangeable.
Alike == {f @@ g : f \in Permutations({t1, t2}), g \in Permutations({r1, r2})}
=============================================================================
