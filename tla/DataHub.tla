------------------------------ MODULE DataHub ------------------------------
(***************************************************************************)
(* The market data of the legacy engine (src/quant/datahub.py): quotes,    *)
(* candles and option chains fetched from the broker, the caches with      *)
(* their time limits, and the circuit breaker they share.  Several threads *)
(* ask at once: the scanner, the exits, the workers of a chain or of a     *)
(* prefetch.  Nothing but the request gap is behind a lock.                *)
(*                                                                         *)
(* A value is known by its age, how long ago it was the market's; a cache  *)
(* entry by its own age and its value.  The push cache holds the spot      *)
(* only: no option is on the socket.                                       *)
(***************************************************************************)
EXTENDS Integers

CONSTANTS
  Threads,
  BreakerFails, BreakerHold,               \* BREAKER_FAILS, BREAKER_HOLD
  QuoteTtl, CandleTtl, ChainTtl,    \* lifetimes of the entries
  FeedFresh,                        \* FEED_FRESH_SECONDS
  CallTime,       \* longest REST call, its retries included, and longest wait for a worker
  MaxTroubles                       \* bound on outages and refusals

ASSUME DataAssumption ==
  /\ {BreakerFails, BreakerHold, QuoteTtl, CandleTtl, ChainTtl, CallTime} \subseteq Nat \ {0}
  /\ {FeedFresh, MaxTroubles} \subseteq Nat

Kinds == {"spot", "option", "candles", "chain"}
Ttl == [spot |-> QuoteTtl, option |-> QuoteTtl, candles |-> CandleTtl, chain |-> ChainTtl]
Longest(a, b) == IF a > b THEN a ELSE b
\* how old a value can be when it is stored: a chain's spot may wait for a worker
\* and for its quotes
Slack == [spot |-> CallTime, option |-> CallTime, candles |-> CallTime,
          chain |-> Longest(FeedFresh, QuoteTtl + CallTime) + 2 * CallTime]
Ancient == ChainTtl + CandleTtl + Slack["chain"] + 1   \* where ages saturate
Nothing == -1                                         \* None

VARIABLES
  rest,     \* whether the REST service of the broker works
  tick,     \* age of the spot in the push cache
  entries,  \* _cache
  fails,    \* _shoonya_fails, up to one past the limit
  closed,   \* _shoonya_down_until: what is left of the hold, 0 when shoonya_up
  thread,
  asked,    \* what the engine asks for
  troubles

dataVars == <<rest, tick, entries, fails, closed, thread, asked, troubles>>

AtRest == [job |-> "none", asks |-> "spot", at |-> "idle", got |-> "none",
         value |-> Nothing, spot |-> Nothing, took |-> 0]

DataInit ==
  /\ rest = "up" /\ tick = Ancient
  /\ entries = [k \in Kinds |-> [at |-> Ttl[k], value |-> Nothing]]
  /\ fails = 0 /\ closed = 0
  /\ asked \in {"nothing", "option", "candles", "chain"}
  /\ thread = [t \in Threads |-> AtRest] /\ troubles = 0

-----------------------------------------------------------------------------
\* The caches and the breaker

\* shoonya_up
UpOnceCounted == closed = 0 /\ fails < BreakerFails  \* mutant: waits for a success
ShoonyaUp == closed = 0
\* _cached: an entry counts for its lifetime, a None too
Hit(k) == entries[k].at < Ttl[k]
AnyTick(limit) == tick <= Ancient  \* mutant: whatever its age
TickFresh(limit) == tick <= limit

With(c, k, v) == [c EXCEPT ![k] = [at |-> 0, value |-> v]]
Keeps(k, v) == entries' = With(entries, k, v)

Becomes(t, r) == thread' = [thread EXCEPT ![t] = r]
Calls(t, job, k) ==
  Becomes(t, [thread[t] EXCEPT !.job = job, !.asks = k, !.at = "call", !.took = 0])

\* chain_snapshot goes on with a spot or with the quote of its options, given
\* the entries c; without one the chain is None, and is kept like a chain
GoesOn(t, c, v) ==
  IF v # Nothing /\ thread[t].asks = "spot"
  THEN entries' = c /\ Becomes(t, [thread[t] EXCEPT !.at = "options", !.asks = "option",
                                   !.spot = v, !.got = "none"])
  ELSE /\ Becomes(t, AtRest)
       /\ entries' = With(c, "chain",
            IF v = Nothing THEN Nothing ELSE Longest(thread[t].spot, v))

-----------------------------------------------------------------------------
\* Requests

\* _quote_raw of an option outside a chain: the breaker, the cache, the broker.
\* What the cache serves counts as an answer of the broker
AskQuote(t) ==
  /\ thread[t].at = "idle" /\ ShoonyaUp /\ asked = "option"
  /\ \/ Hit("option") /\ fails # 0 /\ fails' = 0 /\ UNCHANGED thread
     \/ ~Hit("option") /\ Calls(t, "quote", "option") /\ UNCHANGED fails
  /\ UNCHANGED <<rest, tick, entries, closed, troubles, asked>>

\* candles_5m and _fetch_candles: with the breaker open the answer is None, and
\* is kept
AskCandles(t) ==
  /\ thread[t].at = "idle" /\ ~Hit("candles") /\ asked = "candles"
  /\ IF ShoonyaUp THEN Calls(t, "candles", "candles") /\ UNCHANGED entries
     ELSE Keeps("candles", Nothing) /\ UNCHANGED thread
  /\ UNCHANGED <<rest, tick, fails, closed, troubles, asked>>
\* prefetch_candles: a worker for a series that is not cached
Prefetch(t) ==
  /\ thread[t].at = "idle" /\ ~Hit("candles") /\ ShoonyaUp /\ asked = "candles"
  /\ Calls(t, "prefetch", "candles")
  /\ UNCHANGED <<rest, tick, entries, fails, closed, troubles, asked>>

\* chain_snapshot begins with cash_quote: the push cache first
AskChain(t) ==
  /\ thread[t].at = "idle" /\ ShoonyaUp /\ ~Hit("chain") /\ asked = "chain"
  /\ Becomes(t, IF TickFresh(FeedFresh)
                THEN [AtRest EXCEPT !.job = "chain", !.asks = "option", !.at = "options", !.spot = tick]
                ELSE [AtRest EXCEPT !.job = "chain", !.asks = "spot", !.at = "options"])
  /\ UNCHANGED <<rest, tick, entries, fails, closed, troubles, asked>>
\* then _quote of the spot and a worker's _quote_raw of the options: the breaker
\* may be open by now
ChainAsks(t) ==
  LET k == thread[t].asks
      pushed == k = "spot" /\ TickFresh(QuoteTtl)
  IN
  /\ thread[t].at = "options"
  /\ CASE ~ShoonyaUp -> GoesOn(t, entries, Nothing) /\ UNCHANGED fails
       [] ShoonyaUp /\ pushed -> GoesOn(t, entries, tick) /\ UNCHANGED fails
       [] ShoonyaUp /\ ~pushed /\ Hit(k) -> GoesOn(t, entries, entries[k].value) /\ fails' = 0
       [] OTHER -> Calls(t, "chain", k) /\ UNCHANGED <<entries, fails>>
  /\ UNCHANGED <<rest, tick, closed, troubles, asked>>

\* The broker answers: with data, with none, with a refusal of the instrument,
\* or, in an outage, not at all
BrokerAnswers(t, got) ==
  /\ thread[t].at = "call" /\ thread[t].got = "none"
  /\ IF rest = "down" THEN got = "failed" ELSE got \in {"data", "none", "refused"}
  /\ IF got \in {"none", "refused"} THEN troubles < MaxTroubles /\ troubles' = troubles + 1
     ELSE UNCHANGED troubles
  /\ Becomes(t, [thread[t] EXCEPT !.at = "answered", !.got = got,
                    !.value = IF got = "data" THEN 0 ELSE Nothing])
  /\ UNCHANGED <<rest, tick, entries, fails, closed, asked>>

\* _shoonya_result(False): the count, then, in Trips, the test of it
Counts(t) ==
  fails' = (IF fails > BreakerFails THEN fails ELSE fails + 1)
  /\ Becomes(t, [thread[t] EXCEPT !.at = "counted"])
IsQuote(t) == thread[t].asks # "candles"
\* _quote_raw and _fetch_candles: an answer closes the count and is kept, an
\* empty one too, but not by a prefetch; a refused quote does not count, refused
\* candles do
Returns(t) ==
  LET r == thread[t] IN
  /\ r.at = "answered"
  /\ CASE r.got \in {"data", "none"} /\ r.job = "chain" ->
            GoesOn(t, With(entries, r.asks, r.value), r.value) /\ fails' = 0
       [] r.got \in {"data", "none"} /\ r.job # "chain" ->
            /\ fails' = 0 /\ Becomes(t, AtRest)
            /\ IF r.job = "prefetch" /\ r.value = Nothing THEN UNCHANGED entries
               ELSE Keeps(r.asks, r.value)
       [] r.got = "refused" /\ IsQuote(t) /\ r.job = "chain" ->
            GoesOn(t, entries, Nothing) /\ UNCHANGED fails
       [] r.got = "refused" /\ IsQuote(t) /\ r.job # "chain" ->
            Becomes(t, AtRest) /\ UNCHANGED <<entries, fails>>
       [] OTHER -> Counts(t) /\ UNCHANGED entries
  /\ UNCHANGED <<rest, tick, closed, troubles, asked>>
\* the failure that makes the limit opens the breaker; the caller gets None
Trips(t) ==
  LET r == thread[t] IN
  /\ r.at = "counted"
  /\ closed' = IF fails = BreakerFails /\ ShoonyaUp THEN BreakerHold ELSE closed
  /\ CASE r.job = "chain" -> GoesOn(t, entries, Nothing)
       [] r.job = "candles" -> Keeps("candles", Nothing) /\ Becomes(t, AtRest)
       [] OTHER -> Becomes(t, AtRest) /\ UNCHANGED entries
  /\ UNCHANGED <<rest, tick, fails, troubles, asked>>

-----------------------------------------------------------------------------
\* The world

SpotTick ==
  /\ tick # 0 /\ tick' = 0
  /\ UNCHANGED <<rest, entries, fails, closed, thread, troubles, asked>>
GoesDown ==
  /\ rest = "up" /\ troubles < MaxTroubles /\ rest' = "down" /\ troubles' = troubles + 1
  /\ UNCHANGED <<tick, entries, fails, closed, thread, asked>>
ComesBack ==
  /\ rest = "down" /\ rest' = "up"
  /\ UNCHANGED <<tick, entries, fails, closed, thread, troubles, asked>>

Aged(age) == IF age \in {Nothing, Ancient} THEN age ELSE age + 1
HoldPasses ==
  /\ \A t \in Threads : thread[t].at # "idle" => thread[t].took < CallTime
  /\ tick' = (IF tick > Longest(FeedFresh, QuoteTtl) THEN Ancient ELSE Aged(tick))
  /\ entries' = [k \in Kinds |-> IF entries[k].at + 1 >= Ttl[k] THEN [at |-> Ttl[k], value |-> Nothing]
                               ELSE [at |-> entries[k].at + 1, value |-> Aged(entries[k].value)]]
  /\ closed' = IF closed = 0 THEN 0 ELSE closed - 1
  /\ thread' = [t \in Threads |-> IF thread[t].at = "idle" THEN AtRest ELSE
       [thread[t] EXCEPT !.took = @ + 1, !.value = Aged(@), !.spot = Aged(@)]]
  /\ UNCHANGED <<rest, fails, troubles, asked>>

Asks(t) == AskQuote(t) \/ AskCandles(t) \/ Prefetch(t) \/ AskChain(t)
Fetches(t) ==
  ChainAsks(t) \/ Returns(t) \/ Trips(t) \/ \E got \in {"data", "none", "refused", "failed"} : BrokerAnswers(t, got)
DataNext == SpotTick \/ GoesDown \/ ComesBack \/ HoldPasses \/ \E t \in Threads : Asks(t) \/ Fetches(t)

\* Calls end, outages end, time passes, and the engine keeps asking.
DataFairness ==
  /\ WF_dataVars(HoldPasses) /\ WF_dataVars(ComesBack)
  /\ WF_dataVars(\E t \in Threads : Fetches(t))
  /\ WF_dataVars(\E t \in Threads : Asks(t))
DataSpec == DataInit /\ [][DataNext]_dataVars /\ DataFairness

-----------------------------------------------------------------------------
DataTypeOK ==
  /\ rest \in {"up", "down"} /\ tick \in 0..Ancient /\ fails \in 0..(BreakerFails + 1)
  /\ closed \in 0..BreakerHold /\ entries \in [Kinds -> [at : Nat, value : Nothing..Ancient]]

\* What the caches serve was the market's not longer ago than the lifetime of the
\* entry and what it may have taken to fetch: a chain is as old as the oldest of
\* its quotes, which may come from the push cache or from the cache of quotes,
\* and answers may come late and overtake one another.
ServedIsRecent ==
  \A k \in Kinds : Hit(k) => entries[k].value <= entries[k].at + Slack[k]

\* However the broker failed and whatever the breaker did, once the failures are
\* over there are, again and again, a quote, candles and a chain to serve.
DataReturns ==
  \A k \in Kinds : asked = k ~> Hit(k) /\ entries[k].value # Nothing
=============================================================================
