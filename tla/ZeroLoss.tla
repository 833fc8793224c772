------------------------------ MODULE ZeroLoss ------------------------------
(***************************************************************************)
(* The search for structures that cannot lose (src/strategist/zeroloss.py  *)
(* with src/strategist/payoff.py): which quotes count, the prices a leg is *)
(* charged at, the combinations it tries, the floor it computes on the     *)
(* strikes only, and the exact evaluation that confirms it.                *)
(*                                                                         *)
(* Quotes and strikes are whole ticks.  Money is in hundredths of a tick   *)
(* because of the one percent of slippage; UNLIMITED is Infinite.          *)
(***************************************************************************)
EXTENDS Integers, Sequences, FiniteSetsExt, SequencesExt

CONSTANTS
  Strikes,    \* strikes of the chain
  Chains,     \* the snapshots the sweep may come by
  MaxQuote,   \* the highest quote
  LotSize,
  FrictionPerLeg,   \* cost of a leg, in hundredths
  MaxPerType, \* contracts of one type that are kept, the nearest ones
  MaxExact, MaxResults

ASSUME ZeroLossAssumption ==
  /\ Strikes \subseteq Nat \ {0} /\ Strikes # {} /\ MaxQuote \in Nat
  /\ \A c \in Chains : c.spot \in Nat /\ c.spot % 4 = 0
  /\ {LotSize, MaxPerType, MaxExact, MaxResults} \subseteq Nat \ {0} /\ FrictionPerLeg \in Nat

VARIABLES
  chain,     \* the snapshot: spot, near (inside delivery week), quotes per type and strike
  answer,    \* the structures the scan returned
  scanned

zeroVars == <<chain, answer, scanned>>

Infinite == 10 ^ 6
Percent == 100

\* The book of a leg; 0 is a side nobody quotes, a thin leg has no open interest.
Books == [bid : 0..MaxQuote, ask : 0..MaxQuote, thin : BOOLEAN]

Intrinsic(call, k, s) == IF call THEN Max({0, s - k}) ELSE Max({0, k - s})

\* _price_contract: a live two-sided book with liquidity, and a premium that
\* is not nearly all intrinsic value (more than 80 percent of the middle).
Usable(c, call, k) ==
  LET q == c.quotes[call][k]
  IN ~q.thin /\ q.bid > 0 /\ q.ask > 0 /\ q.ask >= q.bid
     /\ Intrinsic(call, k, c.spot) * 10 <= 4 * (q.ask + q.bid)

\* Buying costs the ask and a percent, selling earns the bid less a percent.
BuyPx(q) == q.ask * 101
SellPx(q) == q.bid * 99

\* The usable contracts of a type nearest to the spot, by strike.
Distance(c, k) == IF k > c.spot THEN k - c.spot ELSE c.spot - k
Nearer(c, j, k) == Distance(c, j) < Distance(c, k) \/ (Distance(c, j) = Distance(c, k) /\ j < k)
Universe(c, call) ==
  LET all == {k \in Strikes : Usable(c, call, k)}
  IN {k \in all : Cardinality({j \in all : Nearer(c, j, k)}) < MaxPerType}

\* The families, lowest strike first.  Those whose coefficients sum below zero
\* leave a naked short tail and are skipped.
Families ==
  { <<1, -1>>, <<-1, 1>>, <<1, -2, 1>>, <<-1, 2, -1>>,
    <<-1, 2, -1, 1>>, <<1, -2, 1, -1>>, <<1, -1, -1, 1>>, <<-1, 1, 1, -1>> }
SumOf(s) == FoldLeft(LAMBDA x, y : x + y, 0, s)
TailSafe(coef) == SumOf(coef) >= 0
Lots(coef) == FoldLeft(LAMBDA x, y : x + (IF y > 0 THEN y ELSE -y), 0, coef)

Combos(c, call) ==
  {[call |-> call, coef |-> coef, at |-> SetToSortSeq(ks, <)] :
     <<coef, ks>> \in {p \in {f \in Families : TailSafe(f)} \X SUBSET Universe(c, call) : Cardinality(p[2]) = Len(p[1])}}

\* mutant: buying at the bid and selling at the ask
PremiumSwapped(c, combo, j) ==
  LET q == c.quotes[combo.call][combo.at[j]] IN IF combo.coef[j] > 0 THEN SellPx(q) ELSE BuyPx(q)

\* The payoff of a combination at expiry, by what its legs were charged.
Premium(c, combo, j) ==
  LET q == c.quotes[combo.call][combo.at[j]] IN IF combo.coef[j] > 0 THEN BuyPx(q) ELSE SellPx(q)
Legs(c, combo) == [j \in 1..Len(combo.at) |-> [n |-> combo.coef[j], k |-> combo.at[j], px |-> Premium(c, combo, j)]]
Payoff(call, legs, s) ==
  FoldLeft(LAMBDA x, l : x + l.n * (Percent * Intrinsic(call, l.k, s) - l.px), 0, legs)

\* scan_chain's first sieve: the least payoff over the strikes and two far points.
Far == 3 * Max(Strikes)
FloorOf(c, combo) ==
  Min({Payoff(combo.call, Legs(c, combo), s) : s \in Strikes \cup {0, Far}})
Friction(combo) == FrictionPerLeg * Lots(combo.coef)
Floors(c, combo) == FloorOf(c, combo) * LotSize - Friction(combo)
Survivors(c) == {combo \in Combos(c, TRUE) \cup Combos(c, FALSE) : Floors(c, combo) >= 0}

\* evaluate_strategy: extremes on the strikes and on a quarter and two and a
\* half times the spot; the tails by the net number of calls and puts.
Probes(c, combo) == Range(combo.at) \cup {c.spot \div 4, (5 * c.spot) \div 2}
Nets(combo, call) == IF combo.call = call THEN SumOf(combo.coef) ELSE 0
Values(c, combo) == {Payoff(combo.call, Legs(c, combo), s) : s \in Probes(c, combo)}
AtZero(c, combo) == Payoff(combo.call, Legs(c, combo), 0)
MaxProfit(c, combo) ==
  IF Nets(combo, TRUE) > 0 THEN Infinite
  ELSE IF Nets(combo, FALSE) > 0 THEN Max(Values(c, combo) \cup {AtZero(c, combo)}) ELSE Max(Values(c, combo))
MaxLoss(c, combo) ==
  IF Nets(combo, TRUE) < 0 THEN Infinite
  ELSE -Min({0} \cup Values(c, combo) \cup IF Nets(combo, FALSE) < 0 THEN {AtZero(c, combo)} ELSE {})

ExactFloor(c, combo) ==
  Min({Payoff(combo.call, Legs(c, combo), s) : s \in Range(combo.at) \cup {0, Far}})

\* A survivor is kept when both evaluations agree and there is profit beyond costs.
Confirmed(c, combo) ==
  LET floor == ExactFloor(c, combo)
  IN MaxLoss(c, combo) # Infinite /\ MaxLoss(c, combo) = -Min({0, floor})
     /\ floor * LotSize - Friction(combo) >= 0
     /\ (MaxProfit(c, combo) = Infinite \/ MaxProfit(c, combo) * LotSize > Friction(combo))

\* The n best of a set by their floor, equal floors in no order we rely on.
BestOf(c, set, n) ==
  {best \in SUBSET set :
     /\ Cardinality(best) = Min({n, Cardinality(set)})
     /\ \A a \in best, b \in set \ best : Floors(c, a) >= Floors(c, b)}

\* No claim without a spot or inside the delivery week, nor on fewer than two contracts.
Refused(c) == c.spot <= 0 \/ c.near \/ Cardinality(Universe(c, TRUE)) + Cardinality(Universe(c, FALSE)) < 2

-----------------------------------------------------------------------------
ZeroInit ==
  chain \in Chains /\ answer = {} /\ scanned = FALSE

\* The sweep visits the chain.
ScanChain ==
  /\ ~scanned /\ scanned' = TRUE
  /\ IF Refused(chain) THEN answer' = {}
     ELSE \E exact \in BestOf(chain, Survivors(chain), MaxExact) :
            answer' \in BestOf(chain, {combo \in exact : Confirmed(chain, combo)}, MaxResults)
  /\ UNCHANGED chain
ZeroNext == ScanChain
ZeroSpec == ZeroInit /\ [][ZeroNext]_zeroVars

-----------------------------------------------------------------------------
(* Properties                                                              *)

Pays(c, combo, s) ==
  LET leg(j) == LET q == c.quotes[combo.call][combo.at[j]]
                IN combo.coef[j] * (Intrinsic(combo.call, combo.at[j], s) - IF combo.coef[j] > 0 THEN q.ask ELSE q.bid)
  IN LotSize * Percent * SumOf([j \in 1..Len(combo.at) |-> leg(j)]) - Friction(combo)

\* Books that leave room for prices that fall, or rise, by at most the distance
\* of the strikes and bend the right way.
Slopes(p, a, b, call) == IF call THEN p[a] - p[b] \in 0..(b - a) ELSE p[b] - p[a] \in 0..(b - a)
Convex(p, a, b, d) == (p[b] - p[a]) * (d - b) <= (p[d] - p[b]) * (b - a)
Fair(c, call) ==
  \E p \in [Strikes -> 0..MaxQuote] :
    /\ \A k \in Strikes : Usable(c, call, k) => p[k] \in c.quotes[call][k].bid..c.quotes[call][k].ask
    /\ \A a, b \in Strikes : a < b => Slopes(p, a, b, call)
    /\ \A a, b, d \in Strikes : a < b /\ b < d => Convex(p, a, b, d)

\* A structure that is returned cannot lose: at every price of the underlying,
\* not on the strikes alone, it pays its costs when every leg is bought at the
\* ask and sold at the bid of a live book, and at some price it pays more; fair
\* prices admit none (zeroloss.py: "at fair two-sided prices this scan MUST find
\* nothing").
FloorIsHonest ==
  \A combo \in answer :
    /\ \A s \in 0..Far + 1 : Pays(chain, combo, s) >= 0
    /\ \E s \in 0..Far + 1 : Pays(chain, combo, s) > 0
    /\ \A k \in Range(combo.at) : chain.quotes[combo.call][k].bid > 0
    /\ ~Fair(chain, combo.call)
=============================================================================
