----------------------------- MODULE SignalWalk -----------------------------
(***************************************************************************)
(* The signals of the legacy engine: the supertrend (src/signals/          *)
(* indicators.py), the OBS regimes (obs.py), the pullback legs             *)
(* (pullback.py) and the day's signals drawn from them (engine.py).  All   *)
(* are walks over a frame of candles with memory of their own, begun anew  *)
(* on every sweep from the first candle of the frame; a frame holds the    *)
(* last seven days, so later sweeps and the replay of the day begin later. *)
(* The module walks one history from two starts.                           *)
(*                                                                         *)
(* The averages (ATR, RSI, ADX), whose start fades away, and %R, which     *)
(* looks back over a window, are those of the bar in either frame.  RSI    *)
(* and %R are given by where they stand to their two thresholds.           *)
(***************************************************************************)
EXTENDS Integers, FiniteSetsExt

CONSTANTS
  Bars,       \* the bars the market may print
  Band, Zone, Chase, \* twice the multiples of the ATR: supertrend, value zone, no chasing
  PqfMin, PqfMax,    \* tenths of the ATR
  TouchValid, MinFlipBars, MaxPerLeg, Cooldown,
  MinFlipAge, \* bars of one trend before a triangle counts
  Warm        \* bars a frame needs before it signals

ASSUME SignalWalkAssumption ==
  /\ {Band, Zone, Chase, PqfMin, PqfMax, TouchValid, MaxPerLeg, MinFlipAge, Warm} \subseteq Nat
  /\ MinFlipBars \in Nat \ {0} /\ Cooldown \in Nat \ {0}
  /\ \A b \in Bars :
       /\ {b.low, b.close, b.high} \subseteq Nat /\ b.close \in b.low..b.high /\ b.atr \in Nat \ {0}
       /\ {b.rsi, b.wr} \subseteq 1..5
       /\ b.body \in {"up", "down", "none"} \* a strong close on that side, and an ADX that allows it

VARIABLES
  walk,   \* walk[f]: the memory of the walks over frame f
  opened, \* does the short frame hold the next bar
  today,  \* has the last session begun
  says,   \* says[f]: what the last bar signals in frame f
  kept    \* observation: what the short frame has seen of the long one

signalVars == <<walk, opened, today, says, kept>>

Frames == {"long", "short"}
Unset == -1       \* NaN
OS == 2  OB == 4  \* where RSI stands: 1 below, 2 at OS, 3 between, 4 at OB, 5 above
Dip == 2  Top == 4  \* the same for %R and -80, -20
Capped(n, limit) == Min({n, limit})
Untouched == TouchValid + 1

Fresh == [bars |-> 0, bull |-> FALSE, upper |-> 0, lower |-> 0, close |-> 0, rsi |-> Unset, wr |-> Unset, last |-> "neutral", up |-> FALSE, down |-> FALSE,
          leg |-> Unset, pull |-> Unset, retracing |-> FALSE, touched |-> Untouched, count |-> 0, rearmed |-> TRUE,
          sinceSignal |-> Cooldown, sinceFlip |-> MinFlipBars, age |-> 0, bias |-> "none"]
Silent == [entry |-> "none", day |-> "none", kind |-> "none"]

SignalInit ==
  /\ walk = [f \in Frames |-> Fresh] /\ says = [f \in Frames |-> Silent]
  /\ opened = FALSE /\ today = FALSE /\ kept = [regime |-> FALSE, turned |-> {}, leg |-> FALSE]

-----------------------------------------------------------------------------
(* The supertrend: bands that only close in, twice the price, until the    *)
(* bar before closed beyond them; bullish on the first bar of the frame.   *)

Upper(w, b) ==
  LET basic == b.high + b.low + Band * b.atr
  IN IF w.bars = 0 \/ basic < w.upper \/ 2 * w.close > w.upper THEN basic ELSE w.upper
\* mutant: a band that was broken through is never begun anew
LowerRatchets(w, b) ==
  LET basic == b.high + b.low - Band * b.atr
  IN IF w.bars = 0 \/ basic > w.lower THEN basic ELSE w.lower
Lower(w, b) ==
  LET basic == b.high + b.low - Band * b.atr
  IN IF w.bars = 0 \/ basic > w.lower \/ 2 * w.close < w.lower THEN basic ELSE w.lower
Bull(w, b) == w.bars = 0 \/ IF w.bull THEN 2 * b.close >= Lower(w, b) ELSE 2 * b.close > Upper(w, b)

\* The bar as the frame reads it: where its wick stands to the value zone round
\* the line, and whether it is a candle that may be entered on.
Touches(w, b) ==
  \/ Bull(w, b) /\ 2 * b.low <= Lower(w, b) + Zone * b.atr
  \/ ~Bull(w, b) /\ 2 * b.high >= Upper(w, b) - Zone * b.atr
Confirms(w, b) ==
  \/ Bull(w, b) /\ b.body = "up" /\ b.close > w.close /\ 2 * b.close - Lower(w, b) \in 1..(Chase * b.atr)
  \/ ~Bull(w, b) /\ b.body = "down" /\ b.close < w.close /\ Upper(w, b) - 2 * b.close \in 1..(Chase * b.atr)
Read(w, b) ==
  [upper |-> Upper(w, b), lower |-> Lower(w, b), bull |-> Bull(w, b),
   touch |-> Touches(w, b), confirms |-> Confirms(w, b), high |-> b.high, low |-> b.low,
   close |-> b.close, atr |-> b.atr, rsi |-> b.rsi, wr |-> b.wr]

-----------------------------------------------------------------------------
(* OBS: the last RSI extreme, the regime it allows, the crosses of %R      *)

Extreme(w, b) == IF b.rsi < OS THEN "Oversold" ELSE IF b.rsi > OB THEN "Overbought" ELSE w.last
Dips(w, b) == Extreme(w, b) = "Overbought" /\ b.wr < Dip
Tops(w, b) == Extreme(w, b) = "Oversold" /\ b.wr > Top
UpTrend(w, b) == Dips(w, b) \/ (w.up /\ ~Tops(w, b))
DownTrend(w, b) == ~Dips(w, b) /\ (w.down \/ Tops(w, b))

BuyTriangle(w, b) == UpTrend(w, b) /\ w.wr # Unset /\ w.wr < Dip /\ b.wr > Dip
SellTriangle(w, b) == DownTrend(w, b) /\ w.wr > Top /\ b.wr < Top
LabelBuy(w, b) == w.rsi # Unset /\ w.rsi < OS /\ b.rsi >= OS
LabelSell(w, b) == w.rsi > OB /\ b.rsi <= OB

\* The opposite extreme cancels the regime, after the signals of the bar.
Regime(w, b) ==
  [w EXCEPT !.last = Extreme(w, b), !.rsi = b.rsi, !.wr = b.wr,
            !.up = UpTrend(w, b) /\ b.rsi > OS,
            !.down = DownTrend(w, b) /\ b.rsi < OB]

-----------------------------------------------------------------------------
(* The pullback inside a trend leg                                         *)

\* The first bar of a frame counts as a flip.
Flips(w, b) == w.bull # b.bull
NewExtreme(w, b) == w.leg = Unset \/ IF b.bull THEN b.high > w.leg ELSE b.low < w.leg
Deepest(w, b) ==
  IF w.pull = Unset THEN IF b.bull THEN b.low ELSE b.high
  ELSE IF b.bull THEN Min({w.pull, b.low}) ELSE Max({w.pull, b.high})

Started(w, b) ==
  [w EXCEPT !.leg = IF b.bull THEN b.high ELSE b.low, !.pull = Unset, !.retracing = FALSE,
            !.touched = Untouched, !.rearmed = TRUE]
StartLeg(w, b) == [Started(w, b) EXCEPT !.count = 0]
Retraced(w, b) ==
  [w EXCEPT !.retracing = TRUE, !.pull = Deepest(w, b),
            !.touched = IF b.touch THEN 0 ELSE Capped(w.touched + 1, Untouched)]
Leg(w, b) ==
  LET flip == Flips(w, b)
      moved == IF flip THEN StartLeg(w, b) ELSE IF NewExtreme(w, b) THEN Started(w, b) ELSE Retraced(w, b)
  IN [moved EXCEPT !.sinceFlip = IF flip THEN 0 ELSE Capped(w.sinceFlip + 1, MinFlipBars),
                   !.sinceSignal = Capped(w.sinceSignal + 1, Cooldown)]

Depth(w, b) == IF b.bull THEN w.leg - w.pull ELSE w.pull - w.leg
Enters(w, b) ==
  /\ w.sinceFlip >= MinFlipBars /\ w.retracing /\ w.touched <= TouchValid
  /\ w.pull # Unset /\ 10 * Depth(w, b) \in (PqfMin * b.atr)..(PqfMax * b.atr)
  /\ w.rearmed /\ w.count < MaxPerLeg /\ w.sinceSignal >= Cooldown
  /\ b.confirms
Signalled(w) == [w EXCEPT !.count = @ + 1, !.sinceSignal = 0, !.touched = Untouched, !.rearmed = FALSE]

-----------------------------------------------------------------------------
(* The signals of the day                                                  *)

Age(w, b) == IF w.bars > 0 /\ w.bull = b.bull THEN Capped(w.age + 1, MinFlipAge) ELSE 1
Bias(w, b) == IF ~today THEN "none" ELSE IF LabelSell(w, b) THEN "SELL" ELSE IF LabelBuy(w, b) THEN "BUY" ELSE w.bias
EntryOf(w, b) == IF ~Enters(Leg(w, b), b) THEN "none" ELSE IF b.bull THEN "BUY" ELSE "SELL"
TriangleOf(w, b) ==
  IF Age(w, b) < MinFlipAge THEN "none"
  ELSE IF BuyTriangle(w, b) /\ b.bull THEN "BUY" ELSE IF SellTriangle(w, b) /\ ~b.bull THEN "SELL" ELSE "none"

DaySignal(w, b) ==
  LET entry == EntryOf(w, b)
      biased == entry # "none" /\ entry = Bias(w, b)
      day == IF biased THEN entry ELSE TriangleOf(w, b)
  IN IF ~today \/ w.bars < Warm \/ day = "none" THEN [Silent EXCEPT !.entry = entry]
     ELSE [entry |-> entry, day |-> day, kind |-> IF biased THEN "pullback" ELSE "triangle"]

Walked(w, b) ==
  LET led == Leg(w, b)
      done == IF Enters(led, b) THEN Signalled(led) ELSE led
  IN [Regime(done, b) EXCEPT !.bars = Capped(w.bars + 1, Warm + 1), !.bull = b.bull, !.upper = b.upper, !.lower = b.lower,
                             !.close = b.close, !.age = Age(w, b), !.bias = Bias(w, b)]

-----------------------------------------------------------------------------
\* Has the short frame now seen a regime engage; the trend turn with the long
\* one, and which way; both turns, the last beginning a leg which no signal of
\* the leg before, in either frame, keeps waiting?
Holds(f) == f = "long" \/ opened
Turn(b) == {trend \in BOOLEAN : \A f \in Frames : walk[f].bull # trend /\ Bull(walk[f], b) = trend}
Calm(b) == \A f \in Frames : Leg(walk[f], Read(walk[f], b)).sinceSignal >= Cooldown
Sees(b) ==
  LET w == walk["short"]
      turn == IF opened /\ w.bars > 0 THEN Turn(b) ELSE {}
      turned == kept.turned \cup turn
  IN [regime |-> kept.regime \/ (opened /\ (Dips(w, b) \/ Tops(w, b))), turned |-> turned,
      leg |-> kept.leg \/ (turn # {} /\ turned = BOOLEAN /\ Calm(b))]

\* A closed bar: every sweep walks the frame up to it.
CloseBar(b) ==
  /\ walk' = [f \in Frames |-> IF Holds(f) THEN Walked(walk[f], Read(walk[f], b)) ELSE walk[f]]
  /\ says' = [f \in Frames |-> IF Holds(f) THEN DaySignal(walk[f], Read(walk[f], b)) ELSE Silent]
  /\ kept' = Sees(b)
  /\ UNCHANGED <<opened, today>>

\* The history request of a later sweep starts at a later candle.
FrameOpens ==
  /\ ~opened /\ ~today /\ opened' = TRUE
  /\ UNCHANGED <<walk, today, says, kept>>

\* The first candle of the last session: biases of the day before are gone.
SessionOpens ==
  /\ walk["short"].bars > 0 /\ ~today /\ today' = TRUE
  /\ UNCHANGED <<walk, opened, says, kept>>

SignalNext == FrameOpens \/ SessionOpens \/ \E b \in Bars : CloseBar(b)
SignalSpec == SignalInit /\ [][SignalNext]_signalVars

-----------------------------------------------------------------------------
(* Properties                                                              *)

\* Live sweeps and the replay of the day cannot drift apart (engine.py): two
\* frames signal the same on a bar of the day, the same kind in the same
\* direction, once the shorter one had enough bars before it and holds what the
\* walks remember: a regime engaged, the supertrend turned either way together
\* with that of the longer frame, and a leg that began when no earlier signal
\* held the next back.
FramesAgree ==
  kept.regime /\ kept.leg /\ walk["short"].bars > Warm => says["short"] = says["long"]
=============================================================================
