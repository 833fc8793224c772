------------------------------ MODULE StopWalk ------------------------------
(***************************************************************************)
(* The stop and the targets of one position, bar by bar                    *)
(* (src/engine/exits.py): the plan open_from_signal derives from walls,    *)
(* supertrend and ATR, ExitEngine._process_bar over each closed bar, and   *)
(* beside it simulate_position, the walk that grades the day replay and    *)
(* says it mirrors _process_bar; its stop and targets are always those of  *)
(* the ATR.                                                                *)
(*                                                                         *)
(* Prices are whole numbers around the signal price 0; a position is two   *)
(* half units.  Multiples of the ATR are constants.                        *)
(***************************************************************************)
EXTENDS Integers, Sequences, FiniteSets, FiniteSetsExt, SequencesExt

CONSTANTS
  Prices,      \* prices a bar may reach
  Strikes,     \* strikes that may carry a wall or a level
  HardStop, FallbackStop, MinGap, Buffer,
  FirstAt, SecondAt, WallNear, WallFar,
  UnwindStop, UnwindTrail

ASSUME StopWalkAssumption ==
  /\ Prices \subseteq Int /\ Strikes \subseteq Prices \ {0} /\ IsFiniteSet(Strikes)
  /\ {HardStop, FallbackStop, MinGap, Buffer, FirstAt, SecondAt, WallNear, WallFar} \subseteq Nat
  /\ 0 < MinGap /\ MinGap < FallbackStop /\ MinGap < HardStop
  /\ 0 < FirstAt /\ FirstAt < SecondAt /\ 0 < WallNear
  /\ UnwindStop \in Nat /\ UnwindTrail \in Nat

VARIABLES
  dir,   \* 1 for BUY, -1 for SELL
  plan,  \* what the entry fixed: targets, ladder, wall, fill
  trade, \* the engine's position
  sim,   \* the simulated trade
  when   \* "day" until a bar at or after EOD_SQUARE_OFF, then "square", "over"

walkVars == <<dir, plan, trade, sim, when>>

None == 99  \* no wall, no line

Favours(a, b) == IF dir = 1 THEN a >= b ELSE a <= b
Better(a, b) == IF Favours(a, b) THEN a ELSE b
Ratchet(stop, candidate) == Better(stop, candidate)

-----------------------------------------------------------------------------
(* The plan                                                                *)

\* Stop candidates: behind the protective wall, the supertrend line, the ATR.
StopCandidates(d, wall, line) ==
  {-d * HardStop}
    \cup (IF wall = None THEN {} ELSE {wall - d * Buffer})
    \cup (IF line = None \/ line * d >= 0 THEN {} ELSE {line})

\* The candidate nearest to the entry that leaves it room to breathe.
PlannedStop(d, cands) ==
  LET ok == {c \in cands : c * d < -MinGap}
  IN IF ok = {} THEN -d * FallbackStop ELSE IF d = 1 THEN Max(ok) ELSE Min(ok)

\* The opposing wall, when it is in reach, else multiples of the ATR.
Reaches(d, opposing) == opposing # None /\ opposing * d \in WallNear..WallFar
PlannedTargets(d, opposing) ==
  IF Reaches(d, opposing) THEN <<opposing, 2 * opposing>> ELSE <<d * FirstAt, d * SecondAt>>

Behind(d) == {k \in Strikes : k * d < 0} \cup {None}
Ahead(d) == {k \in Strikes : k * d > 0} \cup {None}
Between(k, a, b) == (a < k /\ k < b) \/ (b < k /\ k < a)

\* What simulate_position starts from, whatever open_from_signal has planned.
SimStop == -dir * HardStop
SimTarget1 == dir * FirstAt
SimTarget2 == dir * SecondAt

WalkInit ==
  /\ dir \in {1, -1}
  /\ \E wall \in Behind(dir), opposing \in Ahead(dir), line \in Prices \cup {None}, fill \in {0, dir} :
       LET stop == PlannedStop(dir, StopCandidates(dir, wall, line))
           to == PlannedTargets(dir, opposing)
       IN \E levels \in {{}, {k \in Strikes : Between(k, stop, to[2])}} :
            /\ plan = [stop |-> stop, one |-> to[1], two |-> to[2], levels |-> levels, wall |-> wall, entry |-> fill]
            /\ trade = [st |-> "OPEN", stop |-> stop, units |-> 2, exits |-> <<>>, best |-> 0]
            /\ sim = [partial |-> FALSE, stop |-> SimStop, units |-> 2, exits |-> <<>>]
  /\ when = "day"

-----------------------------------------------------------------------------
(* _process_bar.  A bar has a high, a low and a close; against names the   *)
(* extreme that hurts the position, beyond the one that favours it.        *)

Bars == {b \in [high : Prices, low : Prices, close : Prices] : b.low <= b.close /\ b.close <= b.high}
Against(b) == IF dir = 1 THEN b.low ELSE b.high
Beyond(b) == IF dir = 1 THEN b.high ELSE b.low

\* A supertrend line that agrees with the trade is behind the close.
Lines(b) == {l \in Prices : Favours(b.close, l)} \cup {None}

TakeOff(p, price, units, reason) ==
  [p EXCEPT !.units = @ - units,
            !.exits = Append(@, [price |-> price, units |-> units, reason |-> reason]),
            !.st = IF p.units = units THEN "CLOSED" ELSE @]

Marked(p, b) == [p EXCEPT !.best = Better(@, Beyond(b))]

NoBreakeven(p) == p  \* mutant: the stop stays where it was
Breakeven(p) == [p EXCEPT !.stop = Ratchet(@, plan.entry)]
Stopped(p, b) == Favours(p.stop, Against(b))
FirstTarget(p, b) ==
  IF p.st = "OPEN" /\ Favours(Beyond(b), plan.one)
  THEN Breakeven([TakeOff(p, plan.one, 1, "target1") EXCEPT !.st = "PARTIAL"]) ELSE p
SecondTarget(p, b) == p.st = "PARTIAL" /\ Favours(Beyond(b), plan.two)

\* The ladder, the trail and the unwinding wall only ratchet the stop.
Laddered(p, b) ==
  LET passed == {k - dir * Buffer : k \in {k \in plan.levels : Favours(b.close, k) /\ b.close # k}}
  IN [p EXCEPT !.stop = IF passed = {} THEN @ ELSE Ratchet(@, IF dir = 1 THEN Max(passed) ELSE Min(passed))]
Supertrended(p, line) ==
  IF p.st = "PARTIAL" /\ line # None THEN [p EXCEPT !.stop = Ratchet(@, line)] ELSE p
WallChecked(p, unwinds) ==
  IF ~unwinds THEN p
  ELSE LET q == [p EXCEPT !.stop = Ratchet(@, plan.entry - dir * UnwindStop)]
       IN IF p.st = "PARTIAL" THEN [q EXCEPT !.stop = Ratchet(@, p.best - dir * UnwindTrail)] ELSE q

SquaredAt(p, b, late) == IF late THEN TakeOff(p, b.close, p.units, "eod") ELSE p

ProcessBar(p, b, line, unwinds, late) ==
  LET m == Marked(p, b)
      t == FirstTarget(m, b)
  IN IF Stopped(m, b) THEN TakeOff(m, m.stop, m.units, "stop")
     ELSE IF SecondTarget(t, b) THEN TakeOff(t, plan.two, t.units, "target2")
     ELSE SquaredAt(WallChecked(Supertrended(Laddered(t, b), line), unwinds), b, late)

-----------------------------------------------------------------------------
(* simulate_position                                                       *)

Book(s, price, units, reason) ==
  [s EXCEPT !.units = @ - units,
            !.exits = Append(@, [price |-> price, units |-> units, reason |-> reason])]

MoveStop(s, candidate) == [s EXCEPT !.stop = Better(@, candidate)]
SimFirst(s, b) ==
  IF ~s.partial /\ Favours(Beyond(b), SimTarget1)
  THEN MoveStop([Book(s, SimTarget1, 1, "target1") EXCEPT !.partial = TRUE], 0) ELSE s
SimTrail(s, line) == IF s.partial /\ line # None THEN MoveStop(s, line) ELSE s
SimClose(s, b, last) == IF last THEN Book(s, b.close, s.units, "eod") ELSE s

\* mutant: the target is looked at before the stop
TargetBeforeStop(s, b, line, last) ==
  IF ~s.partial /\ Favours(Beyond(b), SimTarget1) THEN SimFirst(s, b)
  ELSE IF Favours(s.stop, Against(b)) THEN Book(s, s.stop, s.units, "stop")
  ELSE SimClose(SimTrail(s, line), b, last)
SimulateBar(s, b, line, last) ==
  LET t == SimFirst(s, b)
  IN IF Favours(s.stop, Against(b)) THEN Book(s, s.stop, s.units, "stop")
     ELSE IF t.partial /\ Favours(Beyond(b), SimTarget2) THEN Book(t, SimTarget2, t.units, "target2")
     ELSE SimClose(SimTrail(t, line), b, last)

-----------------------------------------------------------------------------
\* One closed bar, seen by both.  The engine squares off with the first bar
\* of 15:12 or later, the simulation with the last bar up to 15:25.
Bar(b, line, unwinds, at) ==
  /\ when # "over" /\ (trade.units > 0 \/ sim.units > 0)
  /\ (when = "square" => at # "day") /\ (unwinds => plan.wall # None)
  /\ when' = at
  /\ trade' = IF trade.units = 0 THEN trade ELSE ProcessBar(trade, b, line, unwinds, at # "day")
  /\ sim' = IF sim.units = 0 THEN sim ELSE SimulateBar(sim, b, line, at = "over")
  /\ UNCHANGED <<dir, plan>>

WalkNext ==
  \E b \in Bars : \E line \in Lines(b), unwinds \in BOOLEAN, at \in {"day", "square", "over"} :
    Bar(b, line, unwinds, at)
WalkSpec == WalkInit /\ [][WalkNext]_walkVars

-----------------------------------------------------------------------------
(* Properties                                                              *)

Total(p) == SumFunction([i \in DOMAIN p.exits |-> p.exits[i].units * dir * (p.exits[i].price - plan.entry)])

\* simulate_position of its rules: "mirroring ExitEngine._process_bar".  When
\* the engine has no wall to aim at, the two part only where the engine's stop
\* is hit: until then, before 15:12, both have booked the same exits, whatever
\* stop, ladder, wall and fill the engine's plan has, and the engine's stop is
\* never the looser one.  When the plan has nothing but the ATR, they do not
\* part at all.
SameTargets == plan.one = SimTarget1 /\ plan.two = SimTarget2
SamePlan == SameTargets /\ plan.stop = SimStop /\ plan.levels = {} /\ plan.wall = None /\ plan.entry = 0
NotStopped == \A i \in DOMAIN trade.exits : trade.exits[i].reason # "stop"
SimulationAgrees ==
  when = "day" /\ SameTargets =>
    /\ NotStopped => trade.exits = sim.exits /\ trade.units = sim.units /\ Favours(trade.stop, sim.stop)
    /\ SamePlan => trade.exits = sim.exits /\ trade.units = sim.units /\ trade.stop = sim.stop

\* A position that has booked target 1 does not end in a loss, whatever
\* ladder, trail, wall and square-off do on later bars, unless its fill was
\* beyond the target.
RiskFree ==
  [][trade.st = "PARTIAL" /\ trade'.st = "CLOSED" /\ Favours(plan.one, plan.entry) => Total(trade') >= 0]_walkVars
=============================================================================
