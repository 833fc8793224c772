------------------------------- MODULE Egress -------------------------------
(***************************************************************************)
(* How an order leaves the gateway for the broker                          *)
(* (src/gateway/brokers/shoonya/netproxy.py): directly, or through one of  *)
(* several proxies when the broker refuses the address of this host; what  *)
(* the adapter makes of the answer, and what the order route makes of      *)
(* that.  Each order is posted by a thread of its own.                     *)
(***************************************************************************)
EXTENDS Integers, Sequences

CONSTANTS
  Orders,          \* placements
  ProxyCount,      \* how many proxies SHOONYA_PROXY lists
  Mode,            \* SHOONYA_PROXY_MODE
  Sticky,          \* _STICKY_SECONDS
  LostAnswers,     \* whether the answer of a proxy can be lost after the order arrived
  MaxMoves         \* bound on changes of registered addresses

ASSUME EgressAssumption ==
  /\ ProxyCount \in Nat \ {0} /\ Mode \in {"auto", "on"}
  /\ Sticky \in Nat \ {0} /\ MaxMoves \in Nat /\ LostAnswers \in BOOLEAN

VARIABLES
  registered,      \* the paths whose address the broker accepts
  refusedFor,      \* what is left of the time since _ip_failed_at, 0 when over
  lastGood,        \* _last_good_proxy
  post,            \* the call of post() for each order
  accepted,        \* how many orders the broker has taken for each
  lot,             \* the row of the order route
  moves

egressVars == <<registered, refusedFor, lastGood, post, accepted, lot, moves>>

\* a path is a position in the list of proxies, 0 is this host itself
Proxies == 1..ProxyCount
Urls == [p \in Proxies |-> p]
Direct == 0
NoProxy == 0
Paths == Proxies \cup {Direct}
Unposted == [at |-> "idle", left |-> <<>>, resp |-> "none", tried |-> {}]

EgressInit ==
  /\ registered \in SUBSET Paths /\ refusedFor = 0 /\ lastGood = NoProxy
  /\ post = [o \in Orders |-> Unposted]
  /\ accepted = [o \in Orders |-> 0] /\ lot = [o \in Orders |-> "PENDING"] /\ moves = 0

-----------------------------------------------------------------------------
\* _ordered_proxies: the proxy that last carried a call first, the others in
\* their order
OrderedProxies ==
  IF lastGood = NoProxy THEN Urls
  ELSE [n \in Proxies |-> IF n = 1 THEN lastGood ELSE IF n <= lastGood THEN n - 1 ELSE n]
\* prefer_proxy
PreferProxy == Mode = "on" \/ refusedFor > 0

Becomes(o, r) == post' = [post EXCEPT ![o] = r]
\* What place_order makes of the outcome of post(): an order number, a refusal
\* that quotes the broker (`raw`), or an error without a verdict
ComesTo(o, outcome) ==
  /\ Becomes(o, [post[o] EXCEPT !.at = outcome])
  /\ lot' = [lot EXCEPT ![o] = CASE outcome = "ok" -> "SENT"
                                 [] outcome \in {"refused", "ip refused"} -> "CANCELLED"
                                 [] outcome = "unknown" -> "UNRESOLVED"]

Posts(o) ==
  /\ post[o].at = "idle"
  /\ Becomes(o, IF PreferProxy THEN [post[o] EXCEPT !.at = "proxy", !.left = OrderedProxies]
                ELSE [post[o] EXCEPT !.at = "direct"])
  /\ UNCHANGED <<registered, refusedFor, lastGood, accepted, lot, moves>>

\* What the broker does with an order that arrives by a path: one from an address
\* it does not know is refused, another is taken or refused for its contents
Receives(o, path, taken) ==
  /\ taken => path \in registered
  /\ accepted' = IF taken THEN [accepted EXCEPT ![o] = @ + 1] ELSE accepted
Says(path, taken) == IF path \notin registered THEN "ip refused" ELSE IF taken THEN "ok" ELSE "refused"

\* The rest of the attempt from this host: any exception is the caller's
Tried(o, path) == [post[o] EXCEPT !.tried = @ \cup {path}]
FallsBack(o) == [Tried(o, Direct) EXCEPT !.at = "proxy", !.left = OrderedProxies]
DirectAnswers(o, taken) ==
  /\ post[o].at = "direct" /\ Receives(o, Direct, taken)
  /\ IF Says(Direct, taken) = "ip refused"
     THEN /\ refusedFor' = Sticky
          /\ Becomes(o, [FallsBack(o) EXCEPT !.resp = "ip refused"]) /\ UNCHANGED lot
     ELSE refusedFor' = 0 /\ ComesTo(o, Says(Direct, taken))
  /\ UNCHANGED <<registered, lastGood, moves>>
DirectRetried(o, taken) ==  \* mutant: an exception falls back too
  /\ post[o].at = "direct" /\ Receives(o, Direct, taken) /\ Becomes(o, FallsBack(o))
  /\ UNCHANGED <<registered, refusedFor, lastGood, lot, moves>>
\* no answer, or one that cannot be read
DirectFails(o, taken) ==
  /\ post[o].at = "direct" /\ Receives(o, Direct, taken) /\ ComesTo(o, "unknown")
  /\ UNCHANGED <<registered, refusedFor, lastGood, moves>>

\* The loop over the proxies
ToTry(o) == Head(post[o].left)
Advances(o, r) == Becomes(o, [r EXCEPT !.left = Tail(@), !.tried = @ \cup {ToTry(o)}])
ProxyAnswers(o, taken) ==
  /\ post[o].at = "proxy" /\ post[o].left # <<>> /\ Receives(o, ToTry(o), taken)
  /\ LET says == Says(ToTry(o), taken) IN
     IF says = "ip refused"
     THEN Advances(o, [post[o] EXCEPT !.resp = says]) /\ UNCHANGED <<lastGood, lot>>
     ELSE lastGood' = ToTry(o) /\ ComesTo(o, says)
  /\ UNCHANGED <<registered, refusedFor, moves>>
\* a body that cannot be read: the proxy carried the call, the adapter fails on it
ProxyGarbled(o, taken) ==
  /\ post[o].at = "proxy" /\ post[o].left # <<>> /\ Receives(o, ToTry(o), taken)
  /\ lastGood' = ToTry(o) /\ ComesTo(o, "unknown")
  /\ UNCHANGED <<registered, refusedFor, moves>>
\* an exception counts as an unreachable proxy, also when the order went through
ProxyFails(o, taken) ==
  /\ post[o].at = "proxy" /\ post[o].left # <<>> /\ (taken => LostAnswers)
  /\ Receives(o, ToTry(o), taken) /\ Advances(o, post[o])
  /\ UNCHANGED <<registered, refusedFor, lastGood, lot, moves>>
\* all have failed: the last refusal, if there is one, else the exception
Exhausted(o) ==
  /\ post[o].at = "proxy" /\ post[o].left = <<>>
  /\ ComesTo(o, IF post[o].resp = "none" THEN "unknown" ELSE post[o].resp)
  /\ UNCHANGED <<registered, refusedFor, lastGood, accepted, moves>>

\* The world: addresses come and go from the list of the broker, time passes
Moves ==
  /\ moves < MaxMoves /\ moves' = moves + 1
  /\ \E p \in Paths : registered' = (registered \ {p}) \cup ({p} \ registered)
  /\ UNCHANGED <<refusedFor, lastGood, post, accepted, lot>>
StickyPasses ==
  /\ refusedFor > 0 /\ refusedFor' = refusedFor - 1
  /\ UNCHANGED <<registered, lastGood, post, accepted, lot, moves>>

EgressNext ==
  \/ Moves \/ StickyPasses
  \/ \E o \in Orders : Posts(o) \/ Exhausted(o)
  \/ \E o \in Orders, taken \in BOOLEAN :
       DirectAnswers(o, taken) \/ DirectFails(o, taken)
       \/ ProxyAnswers(o, taken) \/ ProxyGarbled(o, taken) \/ ProxyFails(o, taken)
EgressSpec == EgressInit /\ [][EgressNext]_egressVars

-----------------------------------------------------------------------------
EgressTypeOK ==
  /\ registered \subseteq Paths /\ refusedFor \in 0..Sticky /\ lastGood \in Proxies \cup {NoProxy}
  /\ accepted \in [Orders -> Nat]
  /\ lot \in [Orders -> {"PENDING", "SENT", "CANCELLED", "UNRESOLVED"}]

\* Where no answer of a proxy is lost, whatever the addresses, the fallbacks of
\* other orders and the time of the last refusal: an order is at the broker at
\* most once, its row says so, and one refused for its address has tried every
\* proxy there is.
PlacedOnce ==
  \A o \in Orders :
    /\ accepted[o] <= 1
    /\ lot[o] = "SENT" => accepted[o] = 1
    /\ lot[o] = "CANCELLED" => accepted[o] = 0
    /\ post[o].at = "ip refused" => Proxies \subseteq post[o].tried

\* "The broker answered, and said no, so no order exists"
\* (src/gateway/app/routers/orders.py:310): a row that was written off has no
\* order at the broker.
RefusedHasNoOrder == \A o \in Orders : lot[o] = "CANCELLED" => accepted[o] = 0
=============================================================================
