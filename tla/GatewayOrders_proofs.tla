------------------------ MODULE GatewayOrders_proofs ------------------------
(***************************************************************************)
(* Proofs about the order side of the gateway: the ways an order leaves    *)
(* for the broker (Egress), the orders that are placed again every day     *)
(* until they are filled (PersistentOrders), and the lots and exits that   *)
(* the reconciliation keeps equal to the account (LotLedger).              *)
(***************************************************************************)
EXTENDS Egress, PersistentOrders, LotLedger, SequenceTheorems, FiniteSetTheorems, Totals_proofs, TLAPS

Outcomes == {"ok", "refused", "ip refused", "unknown"}
PostSet ==
  [at : {"idle", "direct", "proxy"} \cup Outcomes, left : Seq(Proxies),
   resp : {"none", "ip refused"}, tried : SUBSET Paths]

\* What has been tried and what is left to try are all the proxies there are.
Covers(r) ==
  \A p \in Proxies : p \in r.tried \/ \E n \in 1..Len(r.left) : r.left[n] = p

\* Where the call of post() is says what has become of the order: as long as it
\* may still try another path, no path has taken the order.
Consistent(r, taken, row) ==
  /\ r.at \in {"idle", "direct", "proxy"} => taken = 0 /\ row = "PENDING"
  /\ r.at \in {"direct", "idle"} => r.resp = "none"
  /\ r.at = "proxy" => Covers(r)
  /\ r.at = "ok" => taken = 1 /\ row = "SENT"
  /\ r.at \in {"refused", "ip refused"} => taken = 0 /\ row = "CANCELLED"
  /\ r.at = "ip refused" => Proxies \subseteq r.tried
  /\ r.at = "unknown" => taken \in {0, 1} /\ row = "UNRESOLVED"
Accounted(o) == Consistent(post[o], accepted[o], lot[o])

EgressInv ==
  /\ EgressTypeOK
  /\ post \in [Orders -> PostSet]
  /\ \A o \in Orders : Accounted(o)

\* The list post() walks through holds every proxy.
LEMMA OrderedHoldsAll ==
  ASSUME lastGood \in Proxies \cup {NoProxy}
  PROVE  /\ OrderedProxies \in Seq(Proxies)
         /\ \A p \in Proxies : \E n \in 1..Len(OrderedProxies) : OrderedProxies[n] = p
<1> USE EgressAssumption DEF Proxies, NoProxy
<1>1. CASE lastGood = NoProxy
  BY <1>1 DEF OrderedProxies, Urls
<1>2. CASE lastGood # NoProxy
  <2> DEFINE L == [n \in Proxies |-> IF n = 1 THEN lastGood ELSE IF n <= lastGood THEN n - 1 ELSE n]
  <2>1. OrderedProxies = L
    BY <1>2 DEF OrderedProxies
  <2>2. L \in Seq(Proxies) /\ Len(L) = ProxyCount
    BY <1>2
  <2>3. ASSUME NEW p \in Proxies
        PROVE  \E n \in 1..ProxyCount : L[n] = p
    <3>1. CASE p = lastGood
      <4>1. 1 \in 1..ProxyCount /\ L[1] = p
        BY <3>1
      <4> QED BY <4>1
    <3>2. CASE p < lastGood
      <4>1. p + 1 \in 1..ProxyCount /\ L[p + 1] = p
        BY <3>2, <1>2
      <4> QED BY <4>1
    <3>3. CASE p > lastGood
      <4>1. p \in 1..ProxyCount /\ L[p] = p
        BY <3>3, <1>2
      <4> QED BY <4>1
    <3> QED BY <3>1, <3>2, <3>3, <1>2
  <2> QED BY <2>1, <2>2, <2>3
<1> QED BY <1>1, <1>2

\* What is not at the head of a sequence is in its tail.
LEMMA TailKeeps ==
  ASSUME NEW S, NEW s \in Seq(S), s # <<>>, NEW n \in 1..Len(s), s[n] # Head(s)
  PROVE  \E m \in 1..Len(Tail(s)) : Tail(s)[m] = s[n]
<1>1. /\ Head(s) = s[1] /\ Len(Tail(s)) = Len(s) - 1 /\ Len(s) \in Nat
      /\ \A m \in 1..Len(Tail(s)) : Tail(s)[m] = s[m + 1]
  BY HeadTailProperties, LenProperties
<1>2. n # 1
  BY <1>1
<1>3. n - 1 \in 1..Len(Tail(s)) /\ (n - 1) + 1 = n
  BY <1>1, <1>2
<1> QED BY <1>1, <1>3

\* A step about one order leaves the others accounted for.
LEMMA OthersAccounted ==
  ASSUME EgressInv, NEW o \in Orders, NEW r \in PostSet, Becomes(o, r),
         accepted' \in [Orders -> Nat], lot' \in [Orders -> {"PENDING", "SENT", "CANCELLED", "UNRESOLVED"}],
         \A q \in Orders \ {o} : accepted'[q] = accepted[q] /\ lot'[q] = lot[q],
         Accounted(o)'
  PROVE  post' \in [Orders -> PostSet] /\ \A q \in Orders : Accounted(q)'
<1>1. post' \in [Orders -> PostSet] /\ \A q \in Orders \ {o} : post'[q] = post[q]
  BY DEF Becomes, EgressInv
<1>2. ASSUME NEW q \in Orders \ {o} PROVE Accounted(q)'
  BY <1>1, <1>2 DEF Accounted, EgressInv
<1> QED BY <1>1, <1>2

\* What post() has come to is what the order route writes, for an order that is
\* as often at the broker as that outcome says.
LEMMA ComesToAccounted ==
  ASSUME EgressInv, NEW o \in Orders, NEW outcome \in Outcomes, ComesTo(o, outcome),
         accepted' \in [Orders -> Nat], \A q \in Orders \ {o} : accepted'[q] = accepted[q],
         outcome = "ok" => accepted'[o] = 1,
         outcome \in {"refused", "ip refused"} => accepted'[o] = 0,
         outcome = "unknown" => accepted'[o] \in {0, 1},
         outcome = "ip refused" => Proxies \subseteq post[o].tried
  PROVE  /\ post' \in [Orders -> PostSet] /\ \A q \in Orders : Accounted(q)'
         /\ lot' \in [Orders -> {"PENDING", "SENT", "CANCELLED", "UNRESOLVED"}]
<1> DEFINE r == [post[o] EXCEPT !.at = outcome]
<1>1. Becomes(o, r) /\ r \in PostSet
  BY ZenonT(40) DEF ComesTo, EgressInv, PostSet, Outcomes
<1>2. /\ lot' \in [Orders -> {"PENDING", "SENT", "CANCELLED", "UNRESOLVED"}]
      /\ \A q \in Orders \ {o} : lot'[q] = lot[q]
      /\ outcome = "ok" => lot'[o] = "SENT"
      /\ outcome \in {"refused", "ip refused"} => lot'[o] = "CANCELLED"
      /\ outcome = "unknown" => lot'[o] = "UNRESOLVED"
  BY DEF ComesTo, EgressInv, EgressTypeOK, Outcomes
<1>3. post'[o] = r /\ r.at = outcome /\ r.tried = post[o].tried
  BY <1>1 DEF Becomes, EgressInv, PostSet
<1>4. Accounted(o)'
  BY <1>2, <1>3 DEF Accounted, Consistent, Outcomes
<1> QED BY <1>1, <1>2, <1>4, OthersAccounted

THEOREM EgressInitOK == EgressInit => EgressInv
<1> SUFFICES ASSUME EgressInit PROVE EgressInv
  OBVIOUS
<1> USE EgressAssumption
<1>1. post \in [Orders -> PostSet]
  BY DEF EgressInit, Unposted, PostSet
<1>2. \A o \in Orders : Accounted(o)
  BY DEF EgressInit, Unposted, Accounted, Consistent
<1>3. EgressTypeOK
  BY DEF EgressInit, EgressTypeOK
<1> QED BY <1>1, <1>2, <1>3 DEF EgressInv

\* The invariant of Egress, where the answer of no proxy is lost.
LEMMA EgressStep ==
  ASSUME LostAnswers = FALSE, EgressInv, [EgressNext]_egressVars
  PROVE  EgressInv'
<1> USE EgressAssumption
<1>0. CASE UNCHANGED egressVars
  BY <1>0 DEF egressVars, EgressInv, EgressTypeOK, Accounted
<1>1. CASE Moves
  <2>1. registered' \subseteq Paths
    BY <1>1 DEF Moves, EgressInv, EgressTypeOK
  <2> QED BY <1>1, <2>1 DEF Moves, EgressInv, EgressTypeOK, Accounted
<1>2. CASE StickyPasses
  BY <1>2 DEF StickyPasses, EgressInv, EgressTypeOK, Accounted
<1>3. ASSUME NEW o \in Orders, Posts(o) PROVE EgressInv'
  <2> DEFINE r == IF PreferProxy THEN [post[o] EXCEPT !.at = "proxy", !.left = OrderedProxies]
                  ELSE [post[o] EXCEPT !.at = "direct"]
  <2>0. post[o] \in PostSet /\ post[o].at = "idle" /\ Accounted(o)
    BY <1>3 DEF Posts, EgressInv
  <2>1. /\ OrderedProxies \in Seq(Proxies)
        /\ \A p \in Proxies : \E n \in 1..Len(OrderedProxies) : OrderedProxies[n] = p
    BY OrderedHoldsAll DEF EgressInv, EgressTypeOK
  <2>2. r \in PostSet /\ Becomes(o, r)
    BY <1>3, <2>0, <2>1 DEF Posts, PostSet
  <2>3. post'[o] = r
    BY <1>3, <2>2 DEF Becomes, EgressInv
  <2>4. r.at = "proxy" => r.left = OrderedProxies
    BY <2>0 DEF PostSet
  <2>5. r.at \in {"proxy", "direct"} /\ (r.at = "direct" => r.resp = "none")
    BY <2>0 DEF PostSet, Accounted, Consistent
  <2>6. Accounted(o)'
    BY <1>3, <2>0, <2>1, <2>3, <2>4, <2>5 DEF Accounted, Consistent, Covers, Posts
  <2>7. post' \in [Orders -> PostSet] /\ \A q \in Orders : Accounted(q)'
    BY <1>3, <2>2, <2>6, OthersAccounted DEF Posts, EgressInv, EgressTypeOK
  <2> QED BY <1>3, <2>7 DEF Posts, EgressInv, EgressTypeOK
<1>4. ASSUME NEW o \in Orders, Exhausted(o) PROVE EgressInv'
  <2> DEFINE out == IF post[o].resp = "none" THEN "unknown" ELSE post[o].resp
  <2>1. post[o] \in PostSet /\ post[o].at = "proxy" /\ Accounted(o) /\ Covers(post[o])
    BY <1>4 DEF Exhausted, EgressInv, Accounted, Consistent
  <2>2. accepted[o] = 0 /\ Proxies \subseteq post[o].tried
    BY <1>4, <2>1 DEF Exhausted, Accounted, Consistent, Covers
  <2>3. out \in {"unknown", "ip refused"} /\ ComesTo(o, out)
    BY <1>4, <2>1 DEF Exhausted, PostSet
  <2>4. /\ post' \in [Orders -> PostSet] /\ \A q \in Orders : Accounted(q)'
        /\ lot' \in [Orders -> {"PENDING", "SENT", "CANCELLED", "UNRESOLVED"}]
    <3>1. /\ out \in Outcomes /\ out # "ok" /\ out # "refused" /\ ComesTo(o, out)
          /\ accepted' \in [Orders -> Nat] /\ accepted' = accepted /\ accepted'[o] = 0
      BY <1>4, <2>2, <2>3 DEF Exhausted, Outcomes, EgressInv, EgressTypeOK
    <3> HIDE DEF out
    <3>2. accepted'[o] \in {0, 1}
      BY <3>1
    <3> QED BY <2>2, <3>1, <3>2, ComesToAccounted
  <2> QED BY <1>4, <2>4 DEF Exhausted, EgressInv, EgressTypeOK
<1>5. ASSUME NEW o \in Orders, NEW taken \in BOOLEAN,
             \/ DirectAnswers(o, taken) \/ DirectFails(o, taken)
             \/ ProxyAnswers(o, taken) \/ ProxyGarbled(o, taken) \/ ProxyFails(o, taken)
      PROVE  EgressInv'
  <2>0. /\ post[o] \in PostSet /\ Accounted(o) /\ post[o].at \in {"direct", "proxy"}
        /\ accepted[o] = 0 /\ lot[o] = "PENDING"
    BY <1>5 DEF DirectAnswers, DirectFails, ProxyAnswers, ProxyGarbled, ProxyFails, EgressInv, Accounted, Consistent
  <2>1. ASSUME NEW path, Receives(o, path, taken)
        PROVE  /\ accepted' \in [Orders -> Nat] /\ \A q \in Orders \ {o} : accepted'[q] = accepted[q]
               /\ accepted'[o] = IF taken THEN 1 ELSE 0
               /\ taken => path \in registered
    BY <2>0, <2>1 DEF Receives, EgressInv, EgressTypeOK
  <2>2. ASSUME NEW path
        PROVE  /\ Says(path, taken) \in Outcomes
               /\ Says(path, taken) = "ok" => taken
               /\ Says(path, taken) = "refused" => ~taken
               /\ Says(path, taken) = "ip refused" <=> path \notin registered
               /\ Says(path, taken) # "unknown"
    BY DEF Says, Outcomes
  <2>3. CASE DirectAnswers(o, taken) /\ Says(Direct, taken) = "ip refused"
    <3> DEFINE r == [FallsBack(o) EXCEPT !.resp = "ip refused"]
    <3>1. /\ Becomes(o, r) /\ refusedFor' = Sticky /\ UNCHANGED <<lot, registered, lastGood, moves>>
          /\ Receives(o, Direct, taken) /\ Direct \notin registered
      BY <2>2, <2>3 DEF DirectAnswers
    <3>2. /\ OrderedProxies \in Seq(Proxies)
          /\ \A p \in Proxies : \E n \in 1..Len(OrderedProxies) : OrderedProxies[n] = p
      BY OrderedHoldsAll DEF EgressInv, EgressTypeOK
    <3>3. r \in PostSet /\ r.at = "proxy" /\ r.left = OrderedProxies
      BY <2>0, <3>2 DEF FallsBack, Tried, PostSet, Paths
    <3>4. accepted' \in [Orders -> Nat] /\ accepted'[o] = 0 /\ \A q \in Orders \ {o} : accepted'[q] = accepted[q]
      BY <2>1, <3>1
    <3>5. post'[o] = r
      BY <3>1 DEF Becomes, EgressInv
    <3>6. Accounted(o)'
      <4>1. Covers(r)
        BY <3>2, <3>3 DEF Covers
      <4> HIDE DEF r
      <4> QED BY <2>0, <3>1, <3>3, <3>4, <3>5, <4>1 DEF Accounted, Consistent
    <3>7. post' \in [Orders -> PostSet] /\ \A q \in Orders : Accounted(q)'
      <4> HIDE DEF r
      <4> QED BY <3>1, <3>3, <3>4, <3>6, OthersAccounted DEF EgressInv, EgressTypeOK
    <3>8. EgressTypeOK'
      <4>1. /\ refusedFor' = Sticky /\ lot' = lot /\ registered' = registered
            /\ lastGood' = lastGood /\ Sticky \in 0..Sticky
        <5> HIDE DEF r
        <5> QED BY <3>1
      <4> QED BY <3>4, <4>1 DEF EgressInv, EgressTypeOK
    <3> QED BY <3>7, <3>8 DEF EgressInv
  <2>4. CASE DirectAnswers(o, taken) /\ Says(Direct, taken) # "ip refused"
    <3> DEFINE out == Says(Direct, taken)
    <3>1. /\ ComesTo(o, out) /\ refusedFor' = 0 /\ UNCHANGED <<registered, lastGood, moves>>
          /\ Receives(o, Direct, taken)
      BY <2>4 DEF DirectAnswers
    <3>2. out \in Outcomes /\ (out = "ok" => taken) /\ (out = "refused" => ~taken)
          /\ out \notin {"ip refused", "unknown"}
      BY <2>2, <2>4
    <3> HIDE DEF out
    <3>3. /\ post' \in [Orders -> PostSet] /\ \A q \in Orders : Accounted(q)'
          /\ lot' \in [Orders -> {"PENDING", "SENT", "CANCELLED", "UNRESOLVED"}]
      BY <2>1, <3>1, <3>2, ComesToAccounted
    <3> QED BY <2>1, <3>1, <3>3 DEF EgressInv, EgressTypeOK
  <2>5. CASE DirectFails(o, taken)
    <3>1. ComesTo(o, "unknown") /\ Receives(o, Direct, taken) /\ UNCHANGED <<registered, refusedFor, lastGood, moves>>
      BY <2>5 DEF DirectFails
    <3>2. /\ post' \in [Orders -> PostSet] /\ \A q \in Orders : Accounted(q)'
          /\ lot' \in [Orders -> {"PENDING", "SENT", "CANCELLED", "UNRESOLVED"}]
      <4>1. accepted' \in [Orders -> Nat] /\ accepted'[o] \in {0, 1} /\ \A q \in Orders \ {o} : accepted'[q] = accepted[q]
        BY <2>1, <3>1
      <4>2. "unknown" \in Outcomes
        BY DEF Outcomes
      <4> QED BY <3>1, <4>1, <4>2, ComesToAccounted
    <3> QED BY <2>1, <3>1, <3>2 DEF EgressInv, EgressTypeOK
  <2>6. CASE ProxyAnswers(o, taken) \/ ProxyGarbled(o, taken) \/ ProxyFails(o, taken)
    <3>0. /\ post[o].at = "proxy" /\ post[o].left # <<>> /\ post[o].left \in Seq(Proxies)
          /\ ToTry(o) \in Proxies /\ Covers(post[o]) /\ Receives(o, ToTry(o), taken)
      <4>1. post[o].at = "proxy" /\ post[o].left # <<>> /\ Receives(o, ToTry(o), taken)
        BY <2>6 DEF ProxyAnswers, ProxyGarbled, ProxyFails
      <4>2. post[o].left \in Seq(Proxies)
        BY <2>0 DEF PostSet
      <4>3. ToTry(o) \in Proxies
        BY <4>1, <4>2 DEF ToTry
      <4>4. Covers(post[o])
        BY <2>0, <4>1 DEF Accounted, Consistent
      <4> QED BY <4>1, <4>2, <4>3, <4>4
    <3>1. ASSUME NEW s \in {"none", "ip refused"}, Advances(o, [post[o] EXCEPT !.resp = s]),
                 ~taken, UNCHANGED lot
          PROVE  post' \in [Orders -> PostSet] /\ \A q \in Orders : Accounted(q)'
      <4> DEFINE r == [post[o] EXCEPT !.resp = s, !.left = Tail(@), !.tried = @ \cup {ToTry(o)}]
      <4>1. Becomes(o, r)
        BY <2>0, <3>1 DEF Advances, PostSet
      <4>2. r \in PostSet /\ r.at = "proxy" /\ r.left = Tail(post[o].left) /\ r.tried = post[o].tried \cup {Head(post[o].left)}
        <5>1. Tail(post[o].left) \in Seq(Proxies)
          BY <3>0, HeadTailProperties
        <5>2. post[o].tried \cup {ToTry(o)} \in SUBSET Paths
          BY <2>0, <3>0 DEF PostSet, Paths
        <5>3. /\ r.left = Tail(post[o].left) /\ r.tried = post[o].tried \cup {ToTry(o)}
              /\ r.at = post[o].at /\ r.resp = s
          BY <2>0 DEF PostSet
        <5>5. r \in PostSet
          <6>1. \A c \in PostSet, l \in Seq(Proxies), t \in SUBSET Paths :
                  [c EXCEPT !.resp = s, !.left = l, !.tried = t] \in PostSet
            BY DEF PostSet
          <6> QED BY <2>0, <5>1, <5>2, <6>1
        <5> QED BY <3>0, <5>3, <5>5 DEF ToTry
      <4>3. accepted' \in [Orders -> Nat] /\ accepted'[o] = 0 /\ \A q \in Orders \ {o} : accepted'[q] = accepted[q]
        BY <2>1, <3>0, <3>1
      <4>4. post'[o] = r
        BY <4>1 DEF Becomes, EgressInv
      <4> HIDE DEF r
      <4>5. Covers(r)
        <5> SUFFICES ASSUME NEW p \in Proxies, p \notin r.tried
                     PROVE  \E n \in 1..Len(r.left) : r.left[n] = p
          BY DEF Covers
        <5>1. PICK n \in 1..Len(post[o].left) : post[o].left[n] = p
          BY <3>0, <4>2 DEF Covers
        <5>2. p # Head(post[o].left)
          BY <4>2
        <5>3. \E m \in 1..Len(Tail(post[o].left)) : Tail(post[o].left)[m] = p
          BY <3>0, <5>1, <5>2, TailKeeps
        <5> QED BY <5>3, <4>2
      <4>6. Accounted(o)'
        BY <2>0, <3>1, <4>2, <4>3, <4>4, <4>5 DEF Accounted, Consistent
      <4> QED BY <3>1, <4>1, <4>2, <4>3, <4>6, OthersAccounted DEF EgressInv, EgressTypeOK
    <3>2. CASE ProxyAnswers(o, taken) /\ Says(ToTry(o), taken) = "ip refused"
      <4>1. /\ Advances(o, [post[o] EXCEPT !.resp = "ip refused"]) /\ ~taken
            /\ UNCHANGED <<lot, lastGood, registered, refusedFor, moves>>
        BY <2>1, <2>2, <3>0, <3>2 DEF ProxyAnswers
      <4>2. post' \in [Orders -> PostSet] /\ \A q \in Orders : Accounted(q)'
        BY <3>1, <4>1
      <4> QED BY <2>1, <3>0, <4>1, <4>2 DEF EgressInv, EgressTypeOK
    <3>3. CASE ProxyAnswers(o, taken) /\ Says(ToTry(o), taken) # "ip refused"
      <4> DEFINE out == Says(ToTry(o), taken)
      <4>1. ComesTo(o, out) /\ lastGood' = ToTry(o) /\ UNCHANGED <<registered, refusedFor, moves>>
        BY <3>3 DEF ProxyAnswers
      <4>2. out \in Outcomes /\ (out = "ok" => taken) /\ (out = "refused" => ~taken)
            /\ out \notin {"ip refused", "unknown"}
        BY <2>2, <3>3
      <4> HIDE DEF out
      <4>3. /\ post' \in [Orders -> PostSet] /\ \A q \in Orders : Accounted(q)'
            /\ lot' \in [Orders -> {"PENDING", "SENT", "CANCELLED", "UNRESOLVED"}]
        BY <2>1, <3>0, <4>1, <4>2, ComesToAccounted
      <4> QED BY <2>1, <3>0, <4>1, <4>3 DEF EgressInv, EgressTypeOK
    <3>4. CASE ProxyGarbled(o, taken)
      <4>1. ComesTo(o, "unknown") /\ lastGood' = ToTry(o) /\ UNCHANGED <<registered, refusedFor, moves>>
        BY <3>4 DEF ProxyGarbled
      <4>2. /\ post' \in [Orders -> PostSet] /\ \A q \in Orders : Accounted(q)'
            /\ lot' \in [Orders -> {"PENDING", "SENT", "CANCELLED", "UNRESOLVED"}]
        <5>1. accepted' \in [Orders -> Nat] /\ accepted'[o] \in {0, 1} /\ \A q \in Orders \ {o} : accepted'[q] = accepted[q]
          BY <2>1, <3>0
        <5>2. "unknown" \in Outcomes
          BY DEF Outcomes
        <5> QED BY <4>1, <5>1, <5>2, ComesToAccounted
      <4> QED BY <2>1, <3>0, <4>1, <4>2 DEF EgressInv, EgressTypeOK
    <3>5. CASE ProxyFails(o, taken)
      <4>1. post[o] = [post[o] EXCEPT !.resp = post[o].resp] /\ post[o].resp \in {"none", "ip refused"}
        BY <2>0 DEF PostSet
      <4>2. Advances(o, [post[o] EXCEPT !.resp = post[o].resp]) /\ ~taken
            /\ UNCHANGED <<lot, registered, refusedFor, lastGood, moves>>
        BY <3>5, <4>1 DEF ProxyFails
      <4>3. post' \in [Orders -> PostSet] /\ \A q \in Orders : Accounted(q)'
        BY <3>1, <4>1, <4>2
      <4> QED BY <2>1, <3>0, <4>2, <4>3 DEF EgressInv, EgressTypeOK
    <3> QED BY <2>6, <3>2, <3>3, <3>4, <3>5
  <2> QED BY <1>5, <2>3, <2>4, <2>5, <2>6
<1> QED BY <1>0, <1>1, <1>2, <1>3, <1>4, <1>5 DEF EgressNext

\* Where the answer of no proxy is lost, an order is at the broker at most once
\* and its row says so, for any number of proxies and orders, in both modes.
THEOREM OrdersPlacedOnce == LostAnswers = FALSE /\ EgressSpec => []PlacedOnce
<1>1. EgressInv => PlacedOnce
  <2> SUFFICES ASSUME EgressInv, NEW o \in Orders
               PROVE  /\ accepted[o] <= 1
                      /\ lot[o] = "SENT" => accepted[o] = 1
                      /\ lot[o] = "CANCELLED" => accepted[o] = 0
                      /\ post[o].at = "ip refused" => Proxies \subseteq post[o].tried
    BY DEF PlacedOnce
  <2>1. Accounted(o) /\ post[o] \in PostSet /\ accepted[o] \in Nat
    BY DEF EgressInv, EgressTypeOK
  <2>2. post[o].at \in {"idle", "direct", "proxy", "ok", "refused", "ip refused", "unknown"}
    BY <2>1 DEF PostSet, Outcomes
  <2>3. /\ post[o].at \in {"idle", "direct", "proxy"} => accepted[o] = 0 /\ lot[o] = "PENDING"
        /\ post[o].at = "ok" => accepted[o] = 1 /\ lot[o] = "SENT"
        /\ post[o].at \in {"refused", "ip refused"} => accepted[o] = 0 /\ lot[o] = "CANCELLED"
        /\ post[o].at = "unknown" => accepted[o] \in {0, 1} /\ lot[o] = "UNRESOLVED"
        /\ post[o].at = "ip refused" => Proxies \subseteq post[o].tried
    BY <2>1 DEF Accounted, Consistent
  <2>4. accepted[o] \in {0, 1}
    BY <2>2, <2>3
  <2>5. /\ lot[o] = "SENT" => accepted[o] = 1
        /\ lot[o] = "CANCELLED" => accepted[o] = 0
    BY <2>2, <2>3
  <2>6. accepted[o] <= 1
    BY <2>4
  <2> QED BY <2>3, <2>5, <2>6
<1>2. SUFFICES ASSUME LostAnswers = FALSE PROVE EgressSpec => []PlacedOnce
  OBVIOUS
<1>3. EgressInv /\ [EgressNext]_egressVars => EgressInv'
  BY <1>2, EgressStep
<1> QED BY <1>1, <1>3, EgressInitOK, PTL DEF EgressSpec

-----------------------------------------------------------------------------
(* Persistent orders                                                       *)

\* What was known when a row was read is no younger than the row's own stamp.
SeenBefore(r) ==
  r.last <= day /\ r.seen \subseteq Attempt /\ \A a \in r.seen : attempts[a].day <= r.last

\* An attempt is of a day that has come, has seen attempts only, and has stamped
\* its row when its acceptance is known.
Dated(a) ==
  /\ attempts[a].day <= day /\ attempts[a].seen \subseteq Attempt
  /\ attempts[a].known => attempts[a].day <= po[attempts[a].po].last

PersistDated ==
  /\ \A p \in PO : po[p].last <= day
  /\ \A a \in Attempt : Dated(a)
  /\ \A n \in 1..Len(sweep) : SeenBefore(sweep[n])
  /\ OncePerDay
PersistInv == PersistTypeOK /\ PersistDated

SweepRow == [po : PO, qty : Nat, last : Nat, seen : SUBSET Nat]

\* A sequence that is built element by element from another one.
LEMMA SeqOfSameLength ==
  ASSUME NEW S, NEW s \in Seq(S), NEW R, NEW t, DOMAIN t = 1..Len(s), t = [n \in 1..Len(s) |-> t[n]],
         \A n \in 1..Len(s) : t[n] \in R
  PROVE  t \in Seq(R) /\ Len(t) = Len(s)
<1>1. Len(s) \in Nat
  BY LenProperties
<1>2. t \in [1..Len(s) -> R]
  OBVIOUS
<1> QED BY <1>1, <1>2

\* An action that changes one attempt, or all in place, leaves their sequence typed.
LEMMA OneChanged ==
  ASSUME PersistTypeOK, NEW a \in Attempt, NEW x \in AttemptSet,
         attempts' = [attempts EXCEPT ![a] = x]
  PROVE  /\ attempts' \in Seq(AttemptSet) /\ Len(attempts') = Len(attempts)
         /\ attempts'[a] = x /\ \A b \in Attempt \ {a} : attempts'[b] = attempts[b]
BY DEF PersistTypeOK, Attempt

\* Same attempts, of the same day and knowing the same.
Steady ==
  /\ Len(attempts') = Len(attempts)
  /\ \A a \in Attempt : /\ attempts'[a].day = attempts[a].day /\ attempts'[a].seen = attempts[a].seen
                        /\ attempts'[a].po = attempts[a].po /\ attempts'[a].known = attempts[a].known

\* A step that leaves the attempts steady and takes no stamp back keeps the dates.
LEMMA SteadyKeepsDates ==
  ASSUME PersistInv, PersistTypeOK', Steady, day' >= day,
         \A p \in PO : po'[p].last = po[p].last,
         \A n \in 1..Len(sweep') : \E m \in 1..Len(sweep) : sweep'[n] = sweep[m]
  PROVE  PersistDated'
<1>1. Attempt' = Attempt
  BY DEF Steady, Attempt
<1>2. \A a \in Attempt : /\ attempts[a].po \in PO /\ attempts[a].day \in Nat /\ attempts[a].day <= day
                         /\ attempts[a].seen \subseteq Attempt
  <2>1. \A a \in Attempt : attempts[a] \in AttemptSet
    BY DEF PersistInv, PersistTypeOK, Attempt
  <2>2. \A a \in Attempt : attempts[a].po \in PO /\ attempts[a].day \in Nat
    BY <2>1 DEF AttemptSet
  <2> QED BY <2>2 DEF PersistInv, PersistDated, Dated
<1>3. day \in Nat /\ day' \in Nat /\ \A p \in PO : po[p].last \in Nat
  BY DEF PersistInv, PersistTypeOK, Row
<1>4. \A p \in PO : po'[p].last <= day'
  BY <1>3 DEF PersistInv, PersistDated
<1>5. ASSUME NEW a \in Attempt PROVE Dated(a)'
  BY <1>1, <1>2, <1>3, SMTT(30) DEF Steady, Dated, PersistInv, PersistDated
<1>6. ASSUME NEW n \in 1..Len(sweep') PROVE SeenBefore(sweep[n])'
  <2>1. PICK m \in 1..Len(sweep) : sweep'[n] = sweep[m]
    OBVIOUS
  <2>2. SeenBefore(sweep[m]) /\ sweep[m] \in SweepRow
    <3>1. SeenBefore(sweep[m])
      BY DEF PersistInv, PersistDated
    <3>2. sweep \in Seq(SweepRow)
      BY DEF PersistInv, PersistTypeOK, SweepRow
    <3> QED BY <3>1, <3>2, ElementOfSeq
  <2>3. sweep[m].last \in Nat
    BY <2>2 DEF SweepRow
  <2> QED BY <1>1, <1>3, <2>1, <2>2, <2>3 DEF SeenBefore, Steady
<1>7. OncePerDay'
  BY <1>1, <1>2 DEF Steady, OncePerDay, PersistInv, PersistDated
<1> QED BY <1>1, <1>4, <1>5, <1>6, <1>7 DEF PersistDated

\* A new attempt from a row whose stamp is older than today has seen no attempt
\* of today.
LEMMA SubmitKeeps ==
  ASSUME PersistInv, NEW p \in PO, NEW who \in {"create", "sweep"}, NEW qty \in Nat, NEW seen \in SUBSET Attempt,
         Submit(p, who, qty, seen), \A a \in seen : attempts[a].day < day
  PROVE  /\ attempts' \in Seq(AttemptSet) /\ Len(attempts') = Len(attempts) + 1
         /\ \A a \in Attempt : attempts'[a] = attempts[a]
         /\ LET n == Len(attempts) + 1
            IN attempts'[n].day = day /\ attempts'[n].seen = seen /\ ~attempts'[n].known
<1> DEFINE x == [po |-> p, by |-> who, qty |-> qty, st |-> "PENDING", known |-> FALSE,
                 awaits |-> TRUE, order |-> "sent", done |-> 0, ended |-> "no",
                 day |-> day, seen |-> seen]
<1>1. attempts' = Append(attempts, x)
  BY DEF Submit
<1>2. attempts \in Seq(AttemptSet) /\ Len(attempts) \in Nat
  BY LenProperties DEF PersistInv, PersistTypeOK
<1>3. x \in AttemptSet
  BY DEF AttemptSet, PersistInv, PersistTypeOK, Attempt
<1>4. x.day = day /\ x.seen = seen /\ ~x.known
  OBVIOUS
<1> HIDE DEF x
<1>5. /\ attempts' \in Seq(AttemptSet) /\ Len(attempts') = Len(attempts) + 1
      /\ attempts'[Len(attempts) + 1] = x
      /\ \A a \in 1..Len(attempts) : attempts'[a] = attempts[a]
  BY <1>1, <1>2, <1>3, AppendProperties
<1> QED BY <1>4, <1>5 DEF Attempt

\* With it every date is kept.
LEMMA SubmitKeepsDates ==
  ASSUME PersistInv, NEW p \in PO, NEW who \in {"create", "sweep"}, NEW qty \in Nat, NEW seen \in SUBSET Attempt,
         Submit(p, who, qty, seen), \A a \in seen : attempts[a].day < day,
         PersistTypeOK', UNCHANGED day,
         \A q \in PO : po'[q].last = po[q].last,
         \A n \in 1..Len(sweep') : \E m \in 1..Len(sweep) : sweep'[n] = sweep[m]
  PROVE  PersistDated'
<1> DEFINE new == Len(attempts) + 1
<1>1. /\ Len(attempts') = Len(attempts) + 1 /\ \A a \in Attempt : attempts'[a] = attempts[a]
      /\ attempts'[new].day = day /\ attempts'[new].seen = seen /\ ~attempts'[new].known
  BY SubmitKeeps
<1>2. Len(attempts) \in Nat /\ Attempt' = Attempt \cup {new} /\ new \notin Attempt
  BY <1>1, LenProperties DEF PersistInv, PersistTypeOK, Attempt
<1>3. \A a \in Attempt : attempts[a] \in AttemptSet /\ attempts[a].po \in PO /\ Dated(a)
  <2>1. \A a \in Attempt : attempts[a] \in AttemptSet
    BY DEF PersistInv, PersistTypeOK, Attempt
  <2> QED BY <2>1 DEF AttemptSet, PersistInv, PersistDated
<1>4. day \in Nat
  BY DEF PersistInv, PersistTypeOK
<1> HIDE DEF new
<1>5. \A q \in PO : po'[q].last <= day'
  BY DEF PersistInv, PersistDated
<1>6. ASSUME NEW a \in Attempt' PROVE Dated(a)'
  <2>1. CASE a = new
    BY <1>1, <1>2, <1>4, <2>1 DEF Dated
  <2>2. CASE a \in Attempt
    BY <1>1, <1>2, <1>3, <2>2 DEF Dated
  <2> QED BY <1>2, <2>1, <2>2
<1>7. ASSUME NEW n \in 1..Len(sweep') PROVE SeenBefore(sweep[n])'
  <2>1. PICK m \in 1..Len(sweep) : sweep'[n] = sweep[m]
    OBVIOUS
  <2>2. SeenBefore(sweep[m])
    BY DEF PersistInv, PersistDated
  <2> QED BY <1>1, <1>2, <2>1, <2>2 DEF SeenBefore
<1>8. OncePerDay'
  <2> SUFFICES ASSUME NEW b \in Attempt', NEW a \in attempts'[b].seen
               PROVE  attempts'[a].day # attempts'[b].day
    BY DEF OncePerDay
  <2>1. CASE b = new
    <3>1. a \in Attempt /\ attempts'[b].day = day /\ attempts[a].day < day /\ attempts'[a] = attempts[a]
      BY <1>1, <2>1
    <3>2. attempts[a].day \in Nat
      BY <1>3, <3>1 DEF AttemptSet
    <3> QED BY <1>4, <3>1, <3>2
  <2>2. CASE b \in Attempt
    <3>1. a \in Attempt
      BY <1>1, <1>3, <2>2 DEF Dated
    <3> QED BY <1>1, <2>2, <3>1 DEF OncePerDay, PersistInv, PersistDated
  <2> QED BY <1>2, <2>1, <2>2
<1> QED BY <1>5, <1>6, <1>7, <1>8 DEF PersistDated

\* A step that writes fields of one attempt, none of them its day, its row or what
\* it has seen or is known of it, is typed and steady.
LEMMA AttemptUpdated ==
  ASSUME PersistInv, NEW a \in Attempt, NEW x \in AttemptSet,
         attempts' = [attempts EXCEPT ![a] = x],
         x.day = attempts[a].day, x.seen = attempts[a].seen, x.po = attempts[a].po,
         x.known = attempts[a].known
  PROVE  attempts' \in Seq(AttemptSet) /\ Steady
<1>1. /\ attempts' \in Seq(AttemptSet) /\ Len(attempts') = Len(attempts)
      /\ attempts'[a] = x /\ \A b \in Attempt \ {a} : attempts'[b] = attempts[b]
  BY OneChanged DEF PersistInv
<1> QED BY <1>1 DEF Steady

\* A row whose state or quantity is written keeps its stamp.
LEMMA RowUpdated ==
  ASSUME PersistInv, NEW p \in PO, NEW r \in Row, r.last = po[p].last,
         po' = [po EXCEPT ![p] = r]
  PROVE  po' \in [PO -> Row] /\ \A q \in PO : po'[q].last = po[q].last
BY DEF PersistInv, PersistTypeOK

LEMMA RowOps ==
  ASSUME NEW r \in Row, NEW f \in Nat, NEW how \in {"FILLED", "FAILED"}
  PROVE  /\ Retired(r, how) \in Row /\ Retired(r, how).last = r.last
         /\ Reduced(r, f) \in Row /\ Reduced(r, f).last = r.last
<1>1. Retired(r, how) \in Row /\ Retired(r, how).last = r.last
  BY DEF Retired, Row
<1>2. Reduced(r, f) \in Row /\ Reduced(r, f).last = r.last
  <2> DEFINE left == IF r.qty > f THEN r.qty - f ELSE 0
  <2>1. left \in Nat
    BY DEF Row
  <2>2. Reduced(r, f) = IF r.st # "ACTIVE" THEN r
                        ELSE [r EXCEPT !.qty = left, !.st = IF left = 0 THEN "FILLED" ELSE @]
    BY DEF Reduced
  <2> HIDE DEF left
  <2> QED BY <2>1, <2>2 DEF Row
<1> QED BY <1>1, <1>2

LEMMA PersistInitOK == PersistInit => PersistInv
<1> SUFFICES ASSUME PersistInit PROVE PersistInv
  OBVIOUS
<1> USE PersistentAssumption
<1>1. Len(attempts) = 0 /\ Len(sweep) = 0 /\ Attempt = {} /\ attempts \in Seq(AttemptSet) /\ sweep \in Seq(SweepRow)
  BY DEF PersistInit, Attempt
<1>2. po \in [PO -> Row] /\ \A p \in PO : po[p].last = 0
  BY DEF PersistInit, Row
<1>3. PersistTypeOK
  BY <1>1, <1>2 DEF PersistInit, PersistTypeOK, SweepRow
<1>4. PersistDated
  BY <1>1, <1>2 DEF PersistInit, PersistDated, OncePerDay
<1> QED BY <1>3, <1>4 DEF PersistInv

\* The sweep and the two routes.
LEMMA PersistCreate ==
  ASSUME PersistInv, NEW p \in PO, Create(p)
  PROVE  PersistInv'
<1> USE PersistentAssumption
<1>1. po[p] \in Row /\ Want[p] \in Nat /\ po[p].st = "none"
  BY DEF PersistInv, PersistTypeOK, Create
<1> DEFINE r == [po[p] EXCEPT !.st = "ACTIVE"]
<1>2. r \in Row /\ r.last = po[p].last /\ po' = [po EXCEPT ![p] = r]
  BY <1>1 DEF Row, Create
<1> HIDE DEF r
<1>3. po' \in [PO -> Row] /\ \A q \in PO : po'[q].last = po[q].last
  BY <1>2, RowUpdated
<1>4. CASE open
  <2>1. Submit(p, "create", Want[p], {})
    BY <1>4 DEF Create
  <2>2. attempts' \in Seq(AttemptSet) /\ Len(attempts') = Len(attempts) + 1
    BY <1>1, <2>1, SubmitKeeps
  <2>3. Attempt \subseteq Attempt'
    BY <2>2, LenProperties DEF Attempt, PersistInv, PersistTypeOK
  <2>4. PersistTypeOK'
    BY <1>3, <2>2, <2>3 DEF Create, PersistInv, PersistTypeOK
  <2>5. PersistDated'
    BY <1>1, <1>3, <2>1, <2>4, SubmitKeepsDates DEF Create
  <2> QED BY <2>4, <2>5 DEF PersistInv
<1>5. CASE ~open
  <2>1. attempts' = attempts
    BY <1>5 DEF Create
  <2>2. PersistTypeOK'
    BY <1>3, <2>1 DEF Create, PersistInv, PersistTypeOK, Attempt
  <2>3. Steady
    BY <2>1 DEF Steady
  <2>4. day' >= day
    BY DEF Create, PersistInv, PersistTypeOK
  <2>5. PersistDated'
    BY <1>3, <2>2, <2>3, <2>4, SteadyKeepsDates DEF Create
  <2> QED BY <2>2, <2>5 DEF PersistInv
<1> QED BY <1>4, <1>5

LEMMA PersistSweepVisit ==
  ASSUME PersistInv, SweepVisit
  PROVE  PersistInv'
<1> DEFINE r == Head(sweep)
<1>1. sweep \in Seq(SweepRow) /\ sweep # <<>>
  BY DEF SweepVisit, PersistInv, PersistTypeOK, SweepRow
<1>2. /\ sweep' = Tail(sweep) /\ sweep' \in Seq(SweepRow) /\ r = sweep[1] /\ r \in SweepRow /\ 1 \in 1..Len(sweep)
      /\ \A n \in 1..Len(sweep') : sweep'[n] = sweep[n + 1] /\ n + 1 \in 1..Len(sweep)
  <2>1. /\ r = sweep[1] /\ r \in SweepRow /\ Tail(sweep) \in Seq(SweepRow) /\ Len(Tail(sweep)) = Len(sweep) - 1
        /\ \A i \in 1 .. Len(Tail(sweep)) : Tail(sweep)[i] = sweep[i + 1] /\ Len(sweep) \in Nat
    BY <1>1, HeadTailProperties, LenProperties
  <2>2. Len(sweep) \in Nat \ {0}
    BY <1>1, EmptySeq
  <2>3. sweep' = Tail(sweep)
    BY DEF SweepVisit
  <2> QED BY <2>1, <2>2, <2>3
<1>3. SeenBefore(r)
  BY <1>2 DEF PersistInv, PersistDated
<1>4. \A n \in 1..Len(sweep') : \E m \in 1..Len(sweep) : sweep'[n] = sweep[m]
  BY <1>2
<1>5. r.po \in PO /\ r.qty \in Nat /\ r.last \in Nat /\ r.seen \in SUBSET Attempt
  BY <1>2, <1>3 DEF SweepRow, SeenBefore
<1>6. UNCHANGED <<day, open, po, cancelling, deaths, lost>> /\ day \in Nat
  BY DEF SweepVisit, PersistInv, PersistTypeOK
<1>7. CASE open /\ ~SubmittedToday(r)
  <2>1. Submit(r.po, "sweep", r.qty, r.seen)
    BY <1>7 DEF SweepVisit
  <2>2. \A a \in r.seen : attempts[a].day < day
    <3>1. \A a \in Attempt : attempts[a] \in AttemptSet
      BY DEF PersistInv, PersistTypeOK, Attempt
    <3>2. \A a \in r.seen : attempts[a].day \in Nat
      BY <1>5, <3>1 DEF AttemptSet
    <3>3. r.last < day
      BY <1>3, <1>5, <1>6, <1>7 DEF SeenBefore, SubmittedToday
    <3> QED BY <1>3, <1>5, <1>6, <3>2, <3>3 DEF SeenBefore
  <2> HIDE DEF r
  <2>3. attempts' \in Seq(AttemptSet) /\ Len(attempts') = Len(attempts) + 1
    BY <1>5, <2>1, <2>2, SubmitKeeps
  <2>4. Attempt \subseteq Attempt'
    BY <2>3, LenProperties DEF Attempt, PersistInv, PersistTypeOK
  <2>5. PersistTypeOK'
    BY <1>2, <1>6, <2>3, <2>4 DEF PersistInv, PersistTypeOK, SweepRow
  <2>6. PersistDated'
    BY <1>4, <1>5, <1>6, <2>1, <2>2, <2>5, SubmitKeepsDates
  <2> QED BY <2>5, <2>6 DEF PersistInv
<1>8. CASE ~open \/ SubmittedToday(r)
  <2>1. attempts' = attempts
    BY <1>8 DEF SweepVisit
  <2> HIDE DEF r
  <2>2. PersistTypeOK'
    BY <1>2, <1>6, <2>1 DEF PersistInv, PersistTypeOK, SweepRow, Attempt
  <2>3. Steady /\ day' >= day
    BY <1>6, <2>1 DEF Steady
  <2>4. PersistDated'
    BY <1>4, <1>6, <2>2, <2>3, SteadyKeepsDates
  <2> QED BY <2>2, <2>4 DEF PersistInv
<1> QED BY <1>7, <1>8

LEMMA PersistSweepRead ==
  ASSUME PersistInv, SweepRead
  PROVE  PersistInv'
<1> USE PersistentAssumption
<1> DEFINE Active == {p \in PO : po[p].st = "ACTIVE"}
<1> DEFINE k == Cardinality(Active)
<1>1. k \in Nat
  BY FS_Subset, FS_CardinalityType
<1>2. PICK order \in [1..k -> PO] :
        sweep' = [n \in DOMAIN order |->
            [po |-> order[n], qty |-> po[order[n]].qty, last |-> po[order[n]].last,
             seen |-> Heard(order[n])]]
  BY DEF SweepRead
<1> HIDE DEF k
<1>3. \A n \in 1..k : order[n] \in PO /\ po[order[n]] \in Row
  BY DEF PersistInv, PersistTypeOK
<1>4. \A p \in PO : Heard(p) \subseteq Attempt /\ Attempt \subseteq Nat
  BY DEF Heard, OfPO, Attempt
<1>5. \A n \in 1..k : /\ sweep'[n] \in SweepRow /\ sweep'[n].last = po[order[n]].last
                      /\ sweep'[n].seen = Heard(order[n])
  BY <1>2, <1>3, <1>4 DEF SweepRow, Row
<1>6. sweep' \in [1..k -> SweepRow]
  BY <1>2, <1>5
<1>7. sweep' \in Seq(SweepRow) /\ Len(sweep') = k
  BY <1>1, <1>6
<1>8. UNCHANGED <<day, open, po, attempts, cancelling, deaths, lost>>
  BY DEF SweepRead
<1>9. PersistTypeOK'
  BY <1>7, <1>8 DEF PersistInv, PersistTypeOK, SweepRow, Attempt
<1>10. ASSUME NEW n \in 1..k PROVE SeenBefore(sweep[n])'
  <2>1. po[order[n]].last <= day
    BY <1>3 DEF PersistInv, PersistDated
  <2>2. \A a \in Heard(order[n]) : attempts[a].day <= po[order[n]].last
    BY <1>3, <1>4 DEF Heard, OfPO, PersistInv, PersistDated, Dated
  <2> QED BY <1>3, <1>4, <1>5, <1>8, <2>1, <2>2 DEF SeenBefore, Attempt
<1>11. PersistDated'
  BY <1>7, <1>8, <1>10 DEF PersistInv, PersistDated, Dated, OncePerDay, Attempt
<1> QED BY <1>9, <1>11 DEF PersistInv

\* Acceptance stamps the row with today, on which no attempt is later.
LEMMA PersistAnswerOk ==
  ASSUME PersistInv, NEW a \in Attempt, AnswerOk(a)
  PROVE  PersistInv'
<1> DEFINE x == [attempts[a] EXCEPT !.awaits = FALSE, !.known = TRUE]
<1>0. \A b \in Attempt : attempts[b] \in AttemptSet /\ Dated(b)
  BY DEF PersistInv, PersistTypeOK, PersistDated, Attempt
<1>1. /\ x \in AttemptSet /\ x.day = attempts[a].day /\ x.seen = attempts[a].seen /\ x.po = attempts[a].po
      /\ attempts' = [attempts EXCEPT ![a] = x]
  BY <1>0 DEF AttemptSet, AnswerOk
<1> HIDE DEF x
<1>2. /\ attempts' \in Seq(AttemptSet) /\ Len(attempts') = Len(attempts)
      /\ attempts'[a] = x /\ \A b \in Attempt \ {a} : attempts'[b] = attempts[b]
  BY <1>1, OneChanged DEF PersistInv
<1>3. Attempt' = Attempt /\ \A b \in Attempt :
        attempts'[b].day = attempts[b].day /\ attempts'[b].seen = attempts[b].seen /\ attempts'[b].po = attempts[b].po
  BY <1>1, <1>2 DEF Attempt
<1> DEFINE p == attempts[a].po
<1>4. p \in PO
  BY <1>0 DEF AttemptSet
<1>5. day \in Nat /\ UNCHANGED <<day, open, sweep, cancelling, sweeps, deaths, lost>>
      /\ po' = [po EXCEPT ![p].last = day]
  BY DEF PersistInv, PersistTypeOK, AnswerOk, Stamp
<1> HIDE DEF p
<1>6. /\ po' \in [PO -> Row] /\ po'[p].last = day /\ \A q \in PO \ {p} : po'[q] = po[q]
  BY <1>4, <1>5 DEF PersistInv, PersistTypeOK, Row
<1>7. \A q \in PO : po[q].last <= day /\ po[q].last \in Nat
  BY DEF PersistInv, PersistDated, PersistTypeOK, Row
<1>8. PersistTypeOK'
  BY <1>2, <1>3, <1>5, <1>6 DEF PersistInv, PersistTypeOK
<1>9. \A q \in PO : po'[q].last <= day' /\ po'[q].last >= po[q].last
  BY <1>5, <1>6, <1>7
<1>10. ASSUME NEW b \in Attempt PROVE Dated(b)'
  <2>1. attempts[b].day \in Nat /\ attempts[b].po \in PO /\ attempts[b].day <= day
    BY <1>0 DEF AttemptSet, Dated
  <2>2. CASE b = a
    BY <1>0, <1>1, <1>2, <1>3, <1>5, <1>6, <2>1, <2>2 DEF Dated, p
  <2>3. CASE b # a
    <3>1. attempts'[b] = attempts[b]
      BY <1>2, <2>3
    <3>2. /\ attempts[b].seen \subseteq Attempt
          /\ attempts[b].known => attempts[b].day <= po[attempts[b].po].last
      BY <1>0 DEF Dated
    <3>3. attempts[b].known => attempts[b].day <= po'[attempts[b].po].last
      BY <2>1, <3>2, <1>5, <1>6
    <3> QED BY <1>3, <1>5, <2>1, <3>1, <3>2, <3>3 DEF Dated
  <2> QED BY <2>2, <2>3
<1>11. ASSUME NEW n \in 1..Len(sweep') PROVE SeenBefore(sweep[n])'
  BY <1>3, <1>5 DEF PersistInv, PersistDated, SeenBefore
<1>12. OncePerDay'
  BY <1>0, <1>3 DEF PersistInv, PersistDated, OncePerDay, Dated
<1>13. PersistDated'
  BY <1>3, <1>5, <1>9, <1>10, <1>11, <1>12 DEF PersistDated
<1> QED BY <1>8, <1>13 DEF PersistInv

\* The other steps about one attempt.
LEMMA PersistOneAttempt ==
  ASSUME PersistInv, NEW a \in Attempt,
         \/ Taken(a) \/ AnswerBad(a) \/ ReconcileAttempt(a) \/ WriteOffAttempt(a)
         \/ \E f \in 0..attempts[a].qty, how \in {"COMPLETE", "CANCELED", "REJECTED"} :
              AttemptEnds(a, f, how)
  PROVE  PersistInv'
<1>0. attempts[a] \in AttemptSet /\ attempts[a].po \in PO /\ attempts[a].qty \in Nat /\ attempts[a].done \in Nat
  <2>1. attempts[a] \in AttemptSet
    BY DEF PersistInv, PersistTypeOK, Attempt
  <2> QED BY <2>1 DEF AttemptSet
<1>1. UNCHANGED <<day, open, sweep, cancelling, sweeps, deaths>> /\ day \in Nat
  BY DEF Taken, AnswerBad, ReconcileAttempt, WriteOffAttempt, AttemptEnds, PersistInv, PersistTypeOK
<1>2. \E x \in AttemptSet :
        /\ attempts' = [attempts EXCEPT ![a] = x]
        /\ x.day = attempts[a].day /\ x.seen = attempts[a].seen /\ x.po = attempts[a].po
        /\ x.known = attempts[a].known
  <2> USE <1>0 DEF AttemptSet
  <2>1. CASE Taken(a)
    <3> WITNESS [attempts[a] EXCEPT !.order = "working"] \in AttemptSet
    <3> QED BY <1>0, <2>1 DEF Taken, AttemptSet
  <2>2. CASE AnswerBad(a) /\ attempts[a].order = "sent"
    <3> WITNESS [attempts[a] EXCEPT !.awaits = FALSE, !.st = "CANCELLED", !.order = "gone"] \in AttemptSet
    <3> QED BY <1>0, <2>2 DEF AnswerBad, AttemptSet
  <2>3. CASE AnswerBad(a) /\ attempts[a].order # "sent"
    <3> WITNESS [attempts[a] EXCEPT !.awaits = FALSE, !.st = "CANCELLED"] \in AttemptSet
    <3> QED BY <1>0, <2>3 DEF AnswerBad, AttemptSet
  <2>4. CASE WriteOffAttempt(a)
    <3> WITNESS [attempts[a] EXCEPT !.st = "CANCELLED"] \in AttemptSet
    <3> QED BY <1>0, <2>4 DEF WriteOffAttempt, AttemptSet
  <2>5. ASSUME NEW f \in 0..attempts[a].qty, NEW how \in {"COMPLETE", "CANCELED", "REJECTED"},
               AttemptEnds(a, f, how)
        PROVE  \E x \in AttemptSet :
                 /\ attempts' = [attempts EXCEPT ![a] = x]
                 /\ x.day = attempts[a].day /\ x.seen = attempts[a].seen /\ x.po = attempts[a].po
                 /\ x.known = attempts[a].known
    <3>1. f \in Nat
      OBVIOUS
    <3> USE <3>1
    <3> WITNESS [attempts[a] EXCEPT !.order = "gone", !.done = f, !.ended = how] \in AttemptSet
    <3> QED BY <1>0, <2>5, <3>1, ZenonT(40) DEF AttemptEnds, AttemptSet
  <2>6. CASE ReconcileAttempt(a)
    <3>1. PICK st \in {"PENDING", "OPEN", "CANCELLED"} : attempts' = [attempts EXCEPT ![a].st = st]
      BY <1>0, <2>6 DEF ReconcileAttempt, AttemptSet
    <3> WITNESS [attempts[a] EXCEPT !.st = st] \in AttemptSet
    <3> QED BY <1>0, <3>1 DEF AttemptSet
  <2> QED BY <2>1, <2>2, <2>3, <2>4, <2>5, <2>6
<1>3. attempts' \in Seq(AttemptSet) /\ Steady
  BY <1>2, AttemptUpdated
<1>4. po' \in [PO -> Row] /\ \A q \in PO : po'[q].last = po[q].last
  <2>1. CASE ReconcileAttempt(a)
    <3> DEFINE p == attempts[a].po
    <3> DEFINE f == attempts[a].done
    <3>0. p \in PO /\ f \in Nat /\ po[p] \in Row
      BY <1>0 DEF PersistInv, PersistTypeOK
    <3>1. \E r \in Row : r.last = po[p].last /\ po' = [po EXCEPT ![p] = r]
      <4>1. \/ po' = [po EXCEPT ![p] = Retired(po[p], "FILLED")]
            \/ po' = [po EXCEPT ![p] = Reduced(po[p], f)]
            \/ po' = [po EXCEPT ![p] = Retired(Reduced(po[p], f), "FAILED")]
            \/ po' = [po EXCEPT ![p] = po[p]]
            \/ po' = [po EXCEPT ![p] = Retired(po[p], "FAILED")]
        BY <2>1 DEF ReconcileAttempt
      <4> HIDE DEF p, f
      <4>2. /\ Retired(po[p], "FILLED") \in Row /\ Retired(po[p], "FILLED").last = po[p].last
            /\ Retired(po[p], "FAILED") \in Row /\ Retired(po[p], "FAILED").last = po[p].last
            /\ Reduced(po[p], f) \in Row /\ Reduced(po[p], f).last = po[p].last
        BY <3>0, RowOps
      <4>3. Retired(Reduced(po[p], f), "FAILED") \in Row /\ Retired(Reduced(po[p], f), "FAILED").last = po[p].last
        BY <3>0, <4>2, RowOps
      <4> QED BY <3>0, <4>1, <4>2, <4>3
    <3> HIDE DEF p, f
    <3> QED BY <3>0, <3>1, RowUpdated
  <2>2. CASE ~ReconcileAttempt(a)
    <3>1. po' = po
      BY <2>2 DEF Taken, AnswerBad, WriteOffAttempt, AttemptEnds
    <3> QED BY <3>1 DEF PersistInv, PersistTypeOK
  <2> QED BY <2>1, <2>2
<1>5. lost' \subseteq Attempt
  BY DEF Taken, AnswerBad, ReconcileAttempt, WriteOffAttempt, AttemptEnds, PersistInv, PersistTypeOK
<1>6. PersistTypeOK'
  BY <1>1, <1>3, <1>4, <1>5 DEF PersistInv, PersistTypeOK, Steady, Attempt
<1>7. PersistDated'
  BY <1>1, <1>3, <1>4, <1>6, SteadyKeepsDates
<1> QED BY <1>6, <1>7 DEF PersistInv

\* The other steps.
LEMMA PersistOther ==
  ASSUME PersistInv,
         SessionOpens \/ SessionCloses \/ Death \/ \E p \in PO : CancelRead(p) \/ CancelWrite(p)
  PROVE  PersistInv'
<1>0. /\ day \in Nat /\ Len(attempts) \in Nat /\ attempts \in Seq(AttemptSet)
      /\ \A a \in Attempt : attempts[a] \in AttemptSet
  BY LenProperties DEF PersistInv, PersistTypeOK, Attempt
<1>1. CASE SessionOpens
  <2>1. PersistTypeOK' /\ Steady /\ day' >= day
    BY <1>0, <1>1 DEF SessionOpens, PersistInv, PersistTypeOK, Steady, Attempt
  <2>2. PersistDated'
    BY <1>1, <2>1, SteadyKeepsDates DEF SessionOpens
  <2> QED BY <2>1, <2>2 DEF PersistInv
<1>2. CASE SessionCloses
  <2>1. /\ DOMAIN attempts' = 1..Len(attempts)
        /\ \A a \in Attempt : /\ attempts'[a] \in AttemptSet
                              /\ attempts'[a].day = attempts[a].day /\ attempts'[a].seen = attempts[a].seen
                              /\ attempts'[a].po = attempts[a].po /\ attempts'[a].known = attempts[a].known
    <3>1. DOMAIN attempts' = Attempt
      BY <1>2 DEF SessionCloses
    <3>2. ASSUME NEW a \in Attempt
          PROVE  attempts'[a] \in {attempts[a], [attempts[a] EXCEPT !.order = "gone", !.ended = "CANCELED"]}
      BY <1>2 DEF SessionCloses
    <3>3. ASSUME NEW x \in AttemptSet, NEW y, y \in {x, [x EXCEPT !.order = "gone", !.ended = "CANCELED"]}
          PROVE  y \in AttemptSet /\ y.day = x.day /\ y.seen = x.seen /\ y.po = x.po /\ y.known = x.known
      BY <3>3 DEF AttemptSet
    <3>4. ASSUME NEW a \in Attempt
          PROVE  /\ attempts'[a] \in AttemptSet
                 /\ attempts'[a].day = attempts[a].day /\ attempts'[a].seen = attempts[a].seen
                 /\ attempts'[a].po = attempts[a].po /\ attempts'[a].known = attempts[a].known
      <4>1. attempts[a] \in AttemptSet
        BY <1>0
      <4> QED BY <4>1, <3>2, <3>3, ZenonT(40)
    <3> QED BY <3>1, <3>4 DEF Attempt
  <2>2. attempts' \in [1..Len(attempts) -> AttemptSet]
    BY <1>2, <2>1 DEF SessionCloses, Attempt
  <2>3. attempts' \in Seq(AttemptSet) /\ Len(attempts') = Len(attempts)
    BY <1>0, <2>2
  <2>4. Steady /\ day' = day + 1 /\ day' >= day
    <3>1. day' = day + 1
      BY <1>2 DEF SessionCloses
    <3> QED BY <1>0, <2>1, <2>3, <3>1 DEF Steady
  <2>5. PersistTypeOK'
    <3>1. day' \in Nat
      BY <1>0, <2>4
    <3>2. open' = FALSE /\ UNCHANGED <<po, sweep, cancelling, sweeps, deaths, lost>>
      BY <1>2 DEF SessionCloses
    <3> QED BY <2>3, <3>1, <3>2 DEF PersistInv, PersistTypeOK, Attempt
  <2>6. PersistDated'
    BY <1>2, <2>4, <2>5, SteadyKeepsDates DEF SessionCloses
  <2> QED BY <2>5, <2>6 DEF PersistInv
<1>3. CASE Death
  <2> DEFINE Fate(taken) == [a \in Attempt |-> [attempts[a] EXCEPT !.awaits = FALSE,
         !.order = IF @ = "sent" THEN IF a \in taken THEN "working" ELSE "gone" ELSE @]]
  <2>1. PICK taken \in SUBSET {a \in Attempt : attempts[a].order = "sent"} : attempts' = Fate(taken)
    BY <1>3 DEF Death
  <2>2. sweep' = <<>> /\ cancelling' = {} /\ UNCHANGED <<day, open, po, sweeps, lost>>
    BY <1>3 DEF Death
  <2>3. \A a \in Attempt : /\ attempts'[a] \in AttemptSet
                           /\ attempts'[a].day = attempts[a].day /\ attempts'[a].seen = attempts[a].seen
                           /\ attempts'[a].po = attempts[a].po /\ attempts'[a].known = attempts[a].known
    <3> SUFFICES ASSUME NEW a \in Attempt
                 PROVE  /\ attempts'[a] \in AttemptSet
                        /\ attempts'[a].day = attempts[a].day /\ attempts'[a].seen = attempts[a].seen
                        /\ attempts'[a].po = attempts[a].po /\ attempts'[a].known = attempts[a].known
      OBVIOUS
    <3>1. PICK o \in {"sent", "working", "gone"} :
            attempts'[a] = [attempts[a] EXCEPT !.awaits = FALSE, !.order = o]
      BY <1>0, <2>1 DEF AttemptSet
    <3>2. PICK x \in AttemptSet : x = attempts[a]
      BY <1>0
    <3>3. ASSUME NEW y, y = [x EXCEPT !.awaits = FALSE, !.order = o]
          PROVE  y \in AttemptSet /\ y.day = x.day /\ y.seen = x.seen /\ y.po = x.po /\ y.known = x.known
      BY <3>3 DEF AttemptSet
    <3> QED BY <3>1, <3>2, <3>3, Zenon
  <2>4. attempts' \in [1..Len(attempts) -> AttemptSet]
    BY <2>1, <2>3 DEF Attempt
  <2>5. attempts' \in Seq(AttemptSet) /\ Len(attempts') = Len(attempts)
    BY <1>0, <2>4
  <2>6. Steady /\ day' >= day
    BY <1>0, <2>2, <2>3, <2>5 DEF Steady
  <2>7. Len(sweep') = 0 /\ sweep' \in Seq(SweepRow)
    BY <2>2
  <2>8. PersistTypeOK'
    BY <2>2, <2>5, <2>7 DEF PersistInv, PersistTypeOK, Attempt, SweepRow
  <2>9. PersistDated'
    BY <2>2, <2>6, <2>7, <2>8, SteadyKeepsDates
  <2> QED BY <2>8, <2>9 DEF PersistInv
<1>4. ASSUME NEW p \in PO, CancelRead(p) PROVE PersistInv'
  <2>1. attempts' \in Seq(AttemptSet) /\ Steady
    <3>1. CASE attempts' = attempts
      BY <1>0, <3>1 DEF Steady
    <3>2. CASE attempts' # attempts
      <4>1. PICK a \in Heard(p) : attempts' = [attempts EXCEPT ![a].order = "gone", ![a].ended = "CANCELED"]
        BY <1>4, <3>2 DEF CancelRead
      <4>2. a \in Attempt
        BY DEF Heard, OfPO
      <4> DEFINE x == [attempts[a] EXCEPT !.order = "gone", !.ended = "CANCELED"]
      <4>3. /\ x \in AttemptSet /\ x.day = attempts[a].day /\ x.seen = attempts[a].seen
            /\ x.po = attempts[a].po /\ x.known = attempts[a].known
            /\ attempts' = [attempts EXCEPT ![a] = x]
        BY <1>0, <4>1, <4>2 DEF AttemptSet
      <4> HIDE DEF x
      <4> QED BY <4>2, <4>3, AttemptUpdated
    <3> QED BY <3>1, <3>2
  <2>2. PersistTypeOK' /\ day' >= day
    BY <1>0, <1>4, <2>1 DEF CancelRead, PersistInv, PersistTypeOK, Steady, Attempt
  <2>3. PersistDated'
    BY <1>4, <2>1, <2>2, SteadyKeepsDates DEF CancelRead
  <2> QED BY <2>2, <2>3 DEF PersistInv
<1>5. ASSUME NEW p \in PO, CancelWrite(p) PROVE PersistInv'
  <2> DEFINE r == [po[p] EXCEPT !.st = "USER_CANCELLED"]
  <2>1. po[p] \in Row
    BY DEF PersistInv, PersistTypeOK
  <2>2. r \in Row /\ r.last = po[p].last /\ po' = [po EXCEPT ![p] = r]
    BY <1>5, <2>1 DEF CancelWrite, Row
  <2> HIDE DEF r
  <2>3. po' \in [PO -> Row] /\ \A q \in PO : po'[q].last = po[q].last
    BY <2>2, RowUpdated
  <2>4. PersistTypeOK' /\ Steady /\ day' >= day
    BY <1>0, <1>5, <2>3 DEF CancelWrite, PersistInv, PersistTypeOK, Steady, Attempt
  <2>5. PersistDated'
    BY <1>5, <2>3, <2>4, SteadyKeepsDates DEF CancelWrite
  <2> QED BY <2>4, <2>5 DEF PersistInv
<1> QED BY <1>1, <1>2, <1>3, <1>4, <1>5

LEMMA PersistStep == PersistInv /\ [PersistNext]_poVars => PersistInv'
<1> SUFFICES ASSUME PersistInv, [PersistNext]_poVars PROVE PersistInv'
  OBVIOUS
<1>1. CASE UNCHANGED poVars
  BY <1>1 DEF poVars, PersistInv, PersistTypeOK, PersistDated, Dated, SeenBefore, OncePerDay, Attempt
<1>2. CASE PersistNext
  BY <1>2, PersistCreate, PersistSweepRead, PersistSweepVisit, PersistAnswerOk, PersistOneAttempt, PersistOther
     DEF PersistNext
<1> QED BY <1>1, <1>2

\* Types of the rows, the attempts and the running sweep.
THEOREM PersistTyped == PersistSpec => []PersistTypeOK
<1>1. PersistInv => PersistTypeOK
  BY DEF PersistInv
<1> QED BY <1>1, PersistInitOK, PersistStep, PTL DEF PersistSpec

\* For any number of orders, days, sweeps and deaths: no attempt is made from a
\* row read after an attempt of the same day had been accepted.
THEOREM SubmittedOncePerDay == PersistSpec => []OncePerDay
<1>1. PersistInv => OncePerDay
  BY DEF PersistInv, PersistDated
<1> QED BY <1>1, PersistInitOK, PersistStep, PTL DEF PersistSpec

-----------------------------------------------------------------------------
\* What an attempt says of itself.
Sound(x) ==
  /\ x.order # "gone" => x.ended = "no"
  /\ x.ended = "no" => x.done = 0 /\ x.st # "OPEN"
  /\ x.ended = "COMPLETE" => x.done = x.qty
  /\ x.qty > 0
\* An attempt is for no less than what its row has left, and once its complete
\* fill is booked the row is not ACTIVE any more.
Follows(x, r) ==
  /\ x.qty >= r.qty /\ r.st # "none"
  /\ x.st = "OPEN" /\ x.ended = "COMPLETE" => r.st # "ACTIVE"
SweepLeft(r) == r.qty > 0 /\ r.qty >= po[r.po].qty /\ po[r.po].st # "none"
RowsLeft ==
  /\ \A n \in 1..Len(sweep) : SweepLeft(sweep[n])
  /\ \A p \in PO : /\ po[p].st = "none" => po[p].qty = Want[p]
                   /\ po[p].st \in {"none", "ACTIVE"} => po[p].qty > 0
RemainderInv ==
  /\ \A a \in Attempt : Sound(attempts[a]) /\ Follows(attempts[a], po[attempts[a].po])
  /\ RowsLeft
  /\ RemainderExact

\* What the types say of the attempts and their sums.
AttemptFacts ==
  /\ Len(attempts) \in Nat /\ IsFiniteSet(Attempt)
  /\ \A a \in Attempt : /\ attempts[a] \in AttemptSet /\ attempts[a].po \in PO
                        /\ attempts[a].qty \in Nat /\ attempts[a].done \in Nat
                        /\ Fill[a] \in Int /\ Fill[a] = attempts[a].done /\ BookedFill[a] \in Int
                        /\ BookedFill[a] <= Fill[a] /\ 0 <= BookedFill[a]
  /\ \A p \in PO : po[p] \in Row /\ po[p].qty \in Nat
SumFacts ==
  \A p \in PO : /\ OfPO(p) \subseteq Attempt /\ IsFiniteSet(OfPO(p))
                /\ Filled(p) \in Int /\ BookedPart(p) \in Int /\ BookedPart(p) <= Filled(p)

LEMMA AttemptsTyped == PersistTypeOK => AttemptFacts
<1> SUFFICES ASSUME PersistTypeOK PROVE AttemptFacts
  OBVIOUS
<1>1. Len(attempts) \in Nat /\ \A a \in Attempt : attempts[a] \in AttemptSet
  BY LenProperties DEF PersistTypeOK, Attempt
<1>2. \A a \in Attempt : attempts[a].po \in PO /\ attempts[a].qty \in Nat /\ attempts[a].done \in Nat
  BY <1>1 DEF AttemptSet
<1>3. \A a \in Attempt : /\ Fill[a] \in Int /\ Fill[a] = attempts[a].done /\ BookedFill[a] \in Int
                         /\ BookedFill[a] <= Fill[a] /\ 0 <= BookedFill[a]
  BY <1>2 DEF Fill, BookedFill
<1>4. \A p \in PO : po[p] \in Row /\ po[p].qty \in Nat
  BY DEF PersistTypeOK, Row
<1>5. IsFiniteSet(Attempt)
  BY <1>1, FS_Interval DEF Attempt
<1> QED BY <1>1, <1>2, <1>3, <1>4, <1>5 DEF AttemptFacts

LEMMA SumsTyped == PersistTypeOK => SumFacts
<1> SUFFICES ASSUME PersistTypeOK, NEW p \in PO
             PROVE  /\ OfPO(p) \subseteq Attempt /\ IsFiniteSet(OfPO(p))
                    /\ Filled(p) \in Int /\ BookedPart(p) \in Int /\ BookedPart(p) <= Filled(p)
  BY DEF SumFacts
<1>0. AttemptFacts
  BY AttemptsTyped
<1>1. OfPO(p) \subseteq Attempt /\ IsFiniteSet(OfPO(p))
  BY <1>0, FS_Subset DEF AttemptFacts, OfPO
<1>2. \A a \in OfPO(p) : Fill[a] \in Int /\ BookedFill[a] \in Int /\ BookedFill[a] <= Fill[a]
  BY <1>0, <1>1 DEF AttemptFacts
<1> QED BY <1>1, <1>2, SumIsInt, SumMonotone DEF Filled, BookedPart

\* A step in which no fill of a row is booked and no remainder is written: what is
\* booked of the rows stays what it was, what was filled is not taken back.
LEMMA NothingBooked ==
  ASSUME PersistTypeOK, PersistTypeOK', Attempt' = Attempt, NEW p \in PO,
         \A a \in Attempt : attempts'[a].po = attempts[a].po /\ attempts'[a].done >= attempts[a].done,
         \A a \in OfPO(p) : BookedFill'[a] = BookedFill[a]
  PROVE  BookedPart(p)' = BookedPart(p) /\ Filled(p)' >= Filled(p) /\ OfPO(p)' = OfPO(p)
<1>0. AttemptFacts /\ SumFacts /\ AttemptFacts' /\ SumFacts'
  BY AttemptsTyped, SumsTyped, PTL
<1>1. OfPO(p)' = OfPO(p)
  BY DEF OfPO
<1>2. IsFiniteSet(OfPO(p)) /\ OfPO(p) \subseteq Attempt
  BY <1>0 DEF SumFacts
<1>3. BookedPart(p)' = BookedPart(p)
  BY <1>1, <1>2, SumSame DEF BookedPart
<1>4. \A a \in OfPO(p) : Fill[a] \in Int /\ Fill'[a] \in Int /\ Fill[a] <= Fill'[a]
  <2>1. \A a \in Attempt : /\ Fill[a] = attempts[a].done /\ attempts[a].done \in Nat
                           /\ Fill'[a] = attempts'[a].done /\ attempts'[a].done \in Nat
    <3>1. \A a \in Attempt : Fill[a] = attempts[a].done /\ attempts[a].done \in Nat
      BY <1>0 DEF AttemptFacts
    <3>2. \A a \in Attempt' : Fill'[a] = attempts'[a].done /\ attempts'[a].done \in Nat
      BY <1>0 DEF AttemptFacts
    <3> QED BY <3>1, <3>2
  <2> QED BY <1>2, <2>1
<1>5. Filled(p) <= Filled(p)'
  BY <1>1, <1>2, <1>4, SumMonotone DEF Filled
<1>6. Filled(p) \in Int /\ Filled(p)' \in Int
  BY <1>0 DEF SumFacts
<1> QED BY <1>1, <1>3, <1>5, <1>6
\* With it the remainders stay exact.
LEMMA QuietKeeps ==
  ASSUME RemainderInv, PersistTypeOK, PersistTypeOK', Attempt' = Attempt, lost \subseteq lost',
         \A a \in Attempt :
           /\ attempts'[a].po = attempts[a].po /\ attempts'[a].qty = attempts[a].qty
           /\ attempts'[a].done >= attempts[a].done /\ Sound(attempts'[a])
           /\ attempts'[a].st = "OPEN" => attempts[a].st = "OPEN" /\ attempts'[a].ended = attempts[a].ended
           /\ a \in lost' \/ BookedFill'[a] = BookedFill[a],
         \A p \in PO : /\ po'[p].qty = po[p].qty
                       /\ po'[p].st \in {po[p].st, "USER_CANCELLED", "FAILED"},
         \A n \in 1..Len(sweep') : SweepLeft(sweep'[n]) /\ sweep'[n].po \in PO
  PROVE  RemainderInv'
<1>0. AttemptFacts /\ SumFacts /\ AttemptFacts' /\ SumFacts'
  BY AttemptsTyped, SumsTyped, PTL
<1>1. ASSUME NEW a \in Attempt'
      PROVE  Sound(attempts[a])' /\ Follows(attempts[a], po[attempts[a].po])'
  <2>1. a \in Attempt /\ attempts[a].po \in PO /\ Follows(attempts[a], po[attempts[a].po])
    BY <1>0 DEF AttemptFacts, RemainderInv
  <2> QED BY <2>1 DEF Follows
<1>2. RowsLeft'
  BY DEF RowsLeft, SweepLeft, RemainderInv
<1>3. ASSUME NEW p \in PO, Lossless(p)'
      PROVE  /\ po'[p].st = "ACTIVE" => po'[p].qty = Want[p] - BookedPart(p)'
             /\ po'[p].st = "FILLED" => Filled(p)' >= Want[p]
  <2>1. OfPO(p)' = OfPO(p)
    BY DEF OfPO
  <2>2. OfPO(p) \subseteq Attempt /\ Filled(p) \in Int /\ Filled(p)' \in Int
    BY <1>0 DEF SumFacts
  <2>3. Lossless(p) /\ \A a \in OfPO(p) : BookedFill'[a] = BookedFill[a]
    BY <1>3, <2>1, <2>2 DEF Lossless
  <2>4. BookedPart(p)' = BookedPart(p) /\ Filled(p)' >= Filled(p)
    BY <2>3, NothingBooked
  <2>5. /\ po[p].st = "ACTIVE" => po[p].qty = Want[p] - BookedPart(p)
        /\ po[p].st = "FILLED" => Filled(p) >= Want[p]
    BY <2>3 DEF RemainderInv, RemainderExact
  <2>6. Want[p] \in Nat
    BY PersistentAssumption
  <2>7. po'[p].qty = po[p].qty /\ po'[p].st \in {po[p].st, "USER_CANCELLED", "FAILED"}
    OBVIOUS
  <2> QED BY <2>2, <2>4, <2>5, <2>6, <2>7
<1>4. RemainderExact'
  BY <1>3 DEF RemainderExact
<1> QED BY <1>1, <1>2, <1>4 DEF RemainderInv

\* A new attempt has filled nothing, and is for what the row it was made from
\* had left.
LEMMA SubmitKeepsLeft ==
  ASSUME RemainderInv, PersistTypeOK, PersistTypeOK',
         NEW p \in PO, NEW who, NEW qty \in Nat \ {0}, NEW seen, Submit(p, who, qty, seen),
         UNCHANGED lost, po'[p].st # "none", po'[p].qty <= qty,
         \A q \in PO : /\ po'[q].qty = po[q].qty
                       /\ po'[q].st = po[q].st \/ (po[q].st = "none" /\ po'[q].st = "ACTIVE"),
         \A n \in 1..Len(sweep') : SweepLeft(sweep'[n]) /\ sweep'[n].po \in PO
  PROVE  RemainderInv'
<1>0. AttemptFacts /\ SumFacts /\ AttemptFacts' /\ SumFacts'
  BY AttemptsTyped, SumsTyped, PTL
<1> DEFINE x == [po |-> p, by |-> who, qty |-> qty, st |-> "PENDING", known |-> FALSE,
                 awaits |-> TRUE, order |-> "sent", done |-> 0, ended |-> "no",
                 day |-> day, seen |-> seen]
<1> DEFINE new == Len(attempts) + 1
<1>1. x.po = p /\ x.qty = qty /\ x.done = 0 /\ x.st = "PENDING" /\ x.ended = "no" /\ x.order = "sent"
  OBVIOUS
<1>2. attempts' = Append(attempts, x)
  BY DEF Submit
<1> HIDE DEF x
<1>3. /\ Len(attempts') = new /\ attempts'[new] = x
      /\ \A a \in Attempt : attempts'[a] = attempts[a]
  BY <1>2, AppendProperties DEF Attempt, PersistTypeOK
<1>4. Attempt' = Attempt \cup {new} /\ new \notin Attempt
  BY <1>0, <1>3 DEF Attempt, AttemptFacts
<1> HIDE DEF new
<1>5. ASSUME NEW a \in Attempt'
      PROVE  Sound(attempts[a])' /\ Follows(attempts[a], po[attempts[a].po])'
  <2>1. CASE a = new
    BY <1>1, <1>3, <2>1 DEF Sound, Follows
  <2>2. CASE a \in Attempt
    <3>1. attempts[a].po \in PO /\ Sound(attempts[a]) /\ Follows(attempts[a], po[attempts[a].po])
      BY <1>0, <2>2 DEF AttemptFacts, RemainderInv
    <3>2. po'[attempts[a].po].st = po[attempts[a].po].st /\ po'[attempts[a].po].qty = po[attempts[a].po].qty
      BY <3>1 DEF Follows
    <3> QED BY <1>3, <2>2, <3>1, <3>2 DEF Follows
  <2> QED BY <1>4, <2>1, <2>2
<1>6. RowsLeft'
  BY DEF RowsLeft, SweepLeft, RemainderInv
<1>7. ASSUME NEW q \in PO
      PROVE  /\ BookedPart(q)' = BookedPart(q) /\ Filled(q)' = Filled(q)
             /\ po[q].st = "none" => BookedPart(q) = 0
             /\ OfPO(q) \subseteq OfPO(q)'
  <2>1. OfPO(q) \subseteq Attempt /\ IsFiniteSet(OfPO(q)) /\ BookedPart(q) \in Int /\ Filled(q) \in Int
    BY <1>0 DEF SumFacts
  <2>2. Fill'[new] = 0 /\ BookedFill'[new] = 0 /\ new \notin OfPO(q)
    BY <1>1, <1>3, <1>4, <2>1 DEF Fill, BookedFill
  <2>3. \A a \in OfPO(q) : Fill'[a] = Fill[a] /\ BookedFill'[a] = BookedFill[a]
    BY <1>3, <1>4, <2>1 DEF Fill, BookedFill
  <2>4. \A a \in OfPO(q) : Fill[a] \in Int /\ BookedFill[a] \in Int
    BY <1>0, <2>1 DEF AttemptFacts
  <2>5. /\ SumFunctionOnSet(Fill', OfPO(q)) = Filled(q)
        /\ SumFunctionOnSet(BookedFill', OfPO(q)) = BookedPart(q)
    BY <2>1, <2>3, SumSame DEF Filled, BookedPart
  <2>6. OfPO(q)' = OfPO(q) \/ OfPO(q)' = OfPO(q) \cup {new}
    BY <1>3, <1>4 DEF OfPO
  <2>9. po[q].st = "none" => BookedPart(q) = 0
    <3>1. po[q].st = "none" => OfPO(q) = {}
      BY DEF RemainderInv, Follows, OfPO
    <3> QED BY <3>1, SumEmpty DEF BookedPart
  <2>7. CASE OfPO(q)' = OfPO(q)
    BY <2>5, <2>7, <2>9 DEF Filled, BookedPart
  <2>8. CASE OfPO(q)' = OfPO(q) \cup {new}
    <3>1. \A a \in OfPO(q) \cup {new} : Fill'[a] \in Int /\ BookedFill'[a] \in Int
      BY <2>2, <2>3, <2>4
    <3>2. /\ SumFunctionOnSet(Fill', OfPO(q) \cup {new}) = Fill'[new] + SumFunctionOnSet(Fill', OfPO(q))
          /\ SumFunctionOnSet(BookedFill', OfPO(q) \cup {new})
               = BookedFill'[new] + SumFunctionOnSet(BookedFill', OfPO(q))
      BY <2>1, <2>2, <3>1, SumAdd
    <3> QED BY <2>1, <2>2, <2>5, <2>8, <2>9, <3>2 DEF Filled, BookedPart
  <2> QED BY <2>6, <2>7, <2>8
<1>8. ASSUME NEW q \in PO, Lossless(q)'
      PROVE  /\ po'[q].st = "ACTIVE" => po'[q].qty = Want[q] - BookedPart(q)'
             /\ po'[q].st = "FILLED" => Filled(q)' >= Want[q]
  <2>1. Lossless(q)
    BY <1>7, <1>8 DEF Lossless
  <2>2. /\ po[q].st = "ACTIVE" => po[q].qty = Want[q] - BookedPart(q)
        /\ po[q].st = "FILLED" => Filled(q) >= Want[q]
        /\ po[q].st = "none" => po[q].qty = Want[q]
    BY <2>1 DEF RemainderInv, RemainderExact, RowsLeft
  <2>3. Want[q] \in Nat
    BY PersistentAssumption
  <2> QED BY <1>7, <2>2, <2>3
<1>9. RemainderExact'
  BY <1>8 DEF RemainderExact
<1> QED BY <1>5, <1>6, <1>9 DEF RemainderInv

\* A pass that books an attempt takes as much from what the row has left.
LEMMA BookingKeepsLeft ==
  ASSUME RemainderInv, PersistTypeOK, PersistTypeOK', NEW a \in Attempt, NEW st,
         attempts[a].ended # "no", attempts[a].st # "OPEN", st = "OPEN",
         attempts' = [attempts EXCEPT ![a].st = st], UNCHANGED <<lost, sweep>>,
         NEW r \in Row, po' = [po EXCEPT ![attempts[a].po] = r],
         LET old == po[attempts[a].po]
             f == attempts[a].done
         IN /\ r.qty <= old.qty /\ r.st # "none"
            /\ r.st = "ACTIVE" => /\ old.st = "ACTIVE" /\ r.qty = old.qty - f /\ r.qty > 0
                                  /\ attempts[a].ended # "COMPLETE"
            /\ r.st = "FILLED" => old.st = "FILLED" \/ (old.st = "ACTIVE" /\ f >= old.qty)
  PROVE  RemainderInv'
<1> DEFINE p == attempts[a].po
<1> DEFINE f == attempts[a].done
<1>0. AttemptFacts /\ SumFacts /\ AttemptFacts' /\ SumFacts'
  BY AttemptsTyped, SumsTyped, PTL
<1>1. /\ Attempt' = Attempt /\ p \in PO /\ f \in Nat
      /\ attempts'[a].po = p /\ attempts'[a].qty = attempts[a].qty /\ attempts'[a].done = f
      /\ attempts'[a].ended = attempts[a].ended /\ attempts'[a].order = attempts[a].order
      /\ attempts'[a].st = "OPEN"
      /\ \A b \in Attempt \ {a} : attempts'[b] = attempts[b]
  <2>1. Len(attempts') = Len(attempts) /\ a \in 1..Len(attempts)
    BY DEF PersistTypeOK, Attempt
  <2>2. attempts[a] \in AttemptSet
    BY <1>0 DEF AttemptFacts
  <2>3. attempts'[a] = [attempts[a] EXCEPT !.st = st]
    BY <2>1 DEF PersistTypeOK
  <2>4. \A b \in Attempt \ {a} : attempts'[b] = attempts[b]
    BY DEF PersistTypeOK, Attempt
  <2> QED BY <1>0, <2>1, <2>2, <2>3, <2>4 DEF AttemptSet, AttemptFacts, Attempt
<1>2. Sound(attempts[a]) /\ Follows(attempts[a], po[p])
  BY DEF RemainderInv
<1>3. po'[p] = r /\ \A q \in PO \ {p} : po'[q] = po[q]
  BY <1>1 DEF PersistTypeOK
<1>4. /\ r.qty \in Nat /\ r.qty <= po[p].qty /\ r.st # "none"
      /\ r.st = "ACTIVE" => /\ po[p].st = "ACTIVE" /\ r.qty = po[p].qty - f /\ r.qty > 0
                            /\ attempts[a].ended # "COMPLETE"
      /\ r.st = "FILLED" => po[p].st = "FILLED" \/ (po[p].st = "ACTIVE" /\ f >= po[p].qty)
  BY DEF Row
<1> HIDE DEF p, f
<1>5. \A q \in PO : po'[q].qty <= po[q].qty /\ (po[q].st # "none" => po'[q].st # "none")
                   /\ (po'[q].st = "ACTIVE" => po[q].st = "ACTIVE")
  BY <1>0, <1>3, <1>4 DEF AttemptFacts
<1>6. ASSUME NEW b \in Attempt'
      PROVE  Sound(attempts[b])' /\ Follows(attempts[b], po[attempts[b].po])'
  <2>1. CASE b = a
    BY <1>0, <1>1, <1>2, <1>3, <1>4, <2>1 DEF Sound, Follows, AttemptFacts
  <2>2. CASE b # a
    <3>1. /\ b \in Attempt /\ attempts'[b] = attempts[b] /\ attempts[b].po \in PO /\ attempts[b].qty \in Nat
          /\ Sound(attempts[b]) /\ Follows(attempts[b], po[attempts[b].po])
      BY <1>0, <1>1, <2>2 DEF AttemptFacts, RemainderInv
    <3> DEFINE q == attempts[b].po
    <3>2. po[q].qty \in Nat /\ po'[q].qty \in Nat
      BY <1>0, <3>1 DEF AttemptFacts
    <3>3. /\ po'[q].qty <= po[q].qty /\ (po[q].st # "none" => po'[q].st # "none")
          /\ (po'[q].st = "ACTIVE" => po[q].st = "ACTIVE")
      BY <1>5, <3>1
    <3>4. attempts'[b].po = q
      BY <3>1
    <3> HIDE DEF q
    <3>5. /\ attempts[b].qty >= po[q].qty /\ po[q].st # "none" /\ attempts[b].qty \in Nat
          /\ attempts[b].st = "OPEN" /\ attempts[b].ended = "COMPLETE" => po[q].st # "ACTIVE"
      BY <3>1 DEF Follows, q
    <3>6. attempts[b].qty >= po'[q].qty
      BY <3>2, <3>3, <3>5
    <3> QED BY <3>1, <3>3, <3>4, <3>5, <3>6 DEF Follows
  <2> QED BY <2>1, <2>2
<1>7. RowsLeft'
  <2>1. ASSUME NEW n \in 1..Len(sweep') PROVE SweepLeft(sweep[n])'
    <3>1. sweep[n].po \in PO /\ sweep[n].qty \in Nat /\ SweepLeft(sweep[n])
      <4>1. sweep \in Seq(SweepRow) /\ n \in 1..Len(sweep) /\ SweepLeft(sweep[n])
        BY DEF PersistTypeOK, SweepRow, RemainderInv, RowsLeft
      <4>2. sweep[n] \in SweepRow
        BY <4>1, ElementOfSeq
      <4> QED BY <4>1, <4>2 DEF SweepRow
    <3> DEFINE q == sweep[n].po
    <3>2. po[q].qty \in Nat /\ po'[q].qty \in Nat
      BY <1>0, <3>1 DEF AttemptFacts
    <3>3. po'[q].qty <= po[q].qty /\ (po[q].st # "none" => po'[q].st # "none")
      BY <1>5, <3>1
    <3>4. sweep[n].qty > 0 /\ sweep[n].qty >= po[q].qty /\ po[q].st # "none"
      BY <3>1 DEF SweepLeft
    <3>5. sweep[n].qty >= po'[q].qty
      BY <3>1, <3>2, <3>3, <3>4
    <3> QED BY <3>3, <3>4, <3>5 DEF SweepLeft
  <2>2. ASSUME NEW q \in PO
        PROVE  /\ po'[q].st = "none" => po'[q].qty = Want[q]
               /\ po'[q].st \in {"none", "ACTIVE"} => po'[q].qty > 0
    <3>1. CASE q = p
      BY <1>3, <1>4, <3>1
    <3>2. CASE q # p
      BY <1>3, <3>2 DEF RemainderInv, RowsLeft
    <3> QED BY <3>1, <3>2
  <2> QED BY <2>1, <2>2 DEF RowsLeft
<1>8. /\ BookedFill'[a] = f /\ BookedFill[a] = 0
      /\ \A b \in Attempt \ {a} : BookedFill'[b] = BookedFill[b]
      /\ \A b \in Attempt : Fill'[b] = Fill[b] /\ Fill[b] \in Int /\ BookedFill[b] \in Int /\ BookedFill'[b] \in Int
  BY <1>0, <1>1 DEF Fill, BookedFill, AttemptFacts
<1>9. ASSUME NEW q \in PO
      PROVE  /\ OfPO(q)' = OfPO(q) /\ Filled(q)' = Filled(q)
             /\ BookedPart(q)' = IF q = p THEN BookedPart(q) + f ELSE BookedPart(q)
  <2>1. OfPO(q)' = OfPO(q)
    <3>1. \A b \in Attempt : attempts'[b].po = attempts[b].po
      BY <1>1 DEF p
    <3> QED BY <1>1, <3>1 DEF OfPO
  <2>2. OfPO(q) \subseteq Attempt /\ IsFiniteSet(OfPO(q)) /\ BookedPart(q) \in Int
    BY <1>0 DEF SumFacts
  <2>3. Filled(q)' = Filled(q)
    BY <1>8, <2>1, <2>2, SumSame DEF Filled
  <2>4. CASE q = p
    <3>1. a \in OfPO(q)
      BY <2>4 DEF OfPO, p
    <3>2. SumFunctionOnSet(BookedFill', OfPO(q))
            = SumFunctionOnSet(BookedFill, OfPO(q)) - BookedFill[a] + BookedFill'[a]
      <4>1. \A b \in OfPO(q) : BookedFill[b] \in Int /\ BookedFill'[b] \in Int
        BY <1>8, <2>2
      <4>2. \A b \in OfPO(q) \ {a} : BookedFill[b] = BookedFill'[b]
        BY <1>8, <2>2
      <4> QED BY <2>2, <3>1, <4>1, <4>2, SumChange
    <3>3. BookedPart(q)' = BookedPart(q) + f
      BY <1>1, <1>8, <2>1, <2>2, <3>2 DEF BookedPart
    <3> QED BY <2>1, <2>3, <2>4, <3>3
  <2>5. CASE q # p
    <3>1. \A b \in OfPO(q) : BookedFill'[b] = BookedFill[b]
      <4>1. a \notin OfPO(q)
        BY <2>5 DEF OfPO, p
      <4> QED BY <1>8, <2>2, <4>1
    <3>2. BookedPart(q)' = BookedPart(q)
      BY <2>1, <2>2, <3>1, SumSame DEF BookedPart
    <3> QED BY <2>1, <2>3, <2>5, <3>2
  <2> QED BY <2>4, <2>5
<1>10. ASSUME NEW q \in PO, Lossless(q)'
       PROVE  /\ po'[q].st = "ACTIVE" => po'[q].qty = Want[q] - BookedPart(q)'
              /\ po'[q].st = "FILLED" => Filled(q)' >= Want[q]
  <2>1. Lossless(q)
    BY <1>9, <1>10 DEF Lossless
  <2>2. /\ po[q].st = "ACTIVE" => po[q].qty = Want[q] - BookedPart(q)
        /\ po[q].st = "FILLED" => Filled(q) >= Want[q]
    BY <2>1 DEF RemainderInv, RemainderExact
  <2>3. Want[q] \in Nat /\ BookedPart(q) \in Int /\ Filled(q) \in Int /\ po[q].qty \in Nat
    BY <1>0, PersistentAssumption DEF SumFacts, AttemptFacts
  <2>4. CASE q # p
    BY <1>3, <1>9, <2>2, <2>4
  <2>5. CASE q = p
    <3>1. BookedPart(q)' = BookedPart(q) + f /\ Filled(q)' = Filled(q) /\ po'[q] = r
      BY <1>3, <1>9, <2>5
    <3>2. BookedPart(q)' <= Filled(q)'
      BY <1>0 DEF SumFacts
    <3> QED BY <1>1, <1>4, <2>2, <2>3, <2>5, <3>1, <3>2
  <2> QED BY <2>4, <2>5
<1>11. RemainderExact'
  BY <1>10 DEF RemainderExact
<1> QED BY <1>6, <1>7, <1>11 DEF RemainderInv

LEMMA RemainderInit == PersistInit => RemainderInv
<1> SUFFICES ASSUME PersistInit PROVE RemainderInv
  OBVIOUS
<1> USE PersistentAssumption
<1>1. Attempt = {} /\ Len(sweep) = 0 /\ \A p \in PO : po[p].st = "none" /\ po[p].qty = Want[p] /\ Want[p] \in Nat \ {0}
  BY DEF PersistInit, Attempt
<1>2. RemainderExact /\ RowsLeft
  BY <1>1 DEF RemainderExact, RowsLeft
<1> QED BY <1>1, <1>2 DEF RemainderInv

\* The sweep and the create route.
LEMMA CreateLeft ==
  ASSUME RemainderInv, PersistTypeOK, PersistTypeOK', NEW p \in PO, Create(p)
  PROVE  RemainderInv'
<1>0. AttemptFacts
  BY AttemptsTyped
<1>1. /\ po[p].st = "none" /\ po' = [po EXCEPT ![p].st = "ACTIVE"] /\ UNCHANGED <<lost, sweep>>
      /\ po[p].qty = Want[p] /\ Want[p] \in Nat \ {0}
  BY PersistentAssumption DEF Create, RemainderInv, RowsLeft
<1>2. /\ po'[p].st = "ACTIVE" /\ \A q \in PO : po'[q].qty = po[q].qty
      /\ \A q \in PO \ {p} : po'[q].st = po[q].st
  BY <1>0, <1>1 DEF AttemptFacts, PersistTypeOK, Row
<1>3. ASSUME NEW n \in 1..Len(sweep) PROVE SweepLeft(sweep[n]) /\ sweep[n].po \in PO
  <2>1. sweep \in Seq(SweepRow) /\ SweepLeft(sweep[n])
    BY DEF PersistTypeOK, SweepRow, RemainderInv, RowsLeft
  <2>2. sweep[n] \in SweepRow
    BY <2>1, ElementOfSeq
  <2> QED BY <2>1, <2>2 DEF SweepRow
<1>4. CASE open
  <2>1. Submit(p, "create", Want[p], {})
    BY <1>4 DEF Create
  <2>2. po'[p].st # "none" /\ po'[p].qty <= Want[p]
    BY <1>1, <1>2
  <2> QED BY <1>1, <1>2, <1>3, <2>1, <2>2, SubmitKeepsLeft
<1>5. CASE ~open
  <2>1. attempts' = attempts
    BY <1>5 DEF Create
  <2>2. ASSUME NEW a \in Attempt PROVE Sound(attempts[a]) /\ Follows(attempts[a], po[attempts[a].po])'
    <3>1. attempts[a].po \in PO /\ Sound(attempts[a]) /\ Follows(attempts[a], po[attempts[a].po])
      BY <1>0 DEF AttemptFacts, RemainderInv
    <3>2. attempts[a].po # p
      BY <1>1, <3>1 DEF Follows
    <3> QED BY <1>2, <2>1, <3>1, <3>2 DEF Follows
  <2>3. ASSUME NEW q \in PO
        PROVE  OfPO(q)' = OfPO(q) /\ BookedPart(q)' = BookedPart(q) /\ Filled(q)' = Filled(q)
    <3>1. Fill' = Fill /\ BookedFill' = BookedFill /\ OfPO(q)' = OfPO(q)
      BY <2>1 DEF Fill, BookedFill, OfPO, Attempt
    <3> QED BY <3>1 DEF Filled, BookedPart
  <2>4. BookedPart(p) = 0
    <3>1. OfPO(p) = {}
      BY <1>1 DEF RemainderInv, Follows, OfPO
    <3> QED BY <3>1, SumEmpty DEF BookedPart
  <2>5. RemainderExact'
    <3> SUFFICES ASSUME NEW q \in PO, Lossless(q)'
                 PROVE  /\ po'[q].st = "ACTIVE" => po'[q].qty = Want[q] - BookedPart(q)'
                        /\ po'[q].st = "FILLED" => Filled(q)' >= Want[q]
      BY DEF RemainderExact
    <3>1. Lossless(q)
      BY <1>1, <2>3 DEF Lossless
    <3>2. /\ po[q].st = "ACTIVE" => po[q].qty = Want[q] - BookedPart(q)
          /\ po[q].st = "FILLED" => Filled(q) >= Want[q]
      BY <3>1 DEF RemainderInv, RemainderExact
    <3> QED BY <1>1, <1>2, <2>3, <2>4, <3>2
  <2>6. RowsLeft'
    BY <1>1, <1>2, <1>3 DEF RowsLeft, SweepLeft, RemainderInv
  <2> QED BY <2>1, <2>2, <2>5, <2>6 DEF RemainderInv, Attempt
<1> QED BY <1>4, <1>5

\* What the sweep has in hand was read from ACTIVE rows.
LEMMA SweepTyped ==
  ASSUME RemainderInv, PersistTypeOK
  PROVE  \A n \in 1..Len(sweep) : SweepLeft(sweep[n]) /\ sweep[n].po \in PO /\ sweep[n].qty \in Nat
<1>1. sweep \in Seq(SweepRow) /\ \A n \in 1..Len(sweep) : SweepLeft(sweep[n])
  BY DEF PersistTypeOK, SweepRow, RemainderInv, RowsLeft
<1>2. \A n \in 1..Len(sweep) : sweep[n] \in SweepRow
  BY <1>1, ElementOfSeq
<1> QED BY <1>1, <1>2 DEF SweepRow

\* A step that leaves the attempts and the rows alone.
LEMMA StillKeeps ==
  ASSUME RemainderInv, PersistTypeOK, PersistTypeOK', UNCHANGED <<attempts, po, lost>>,
         \A n \in 1..Len(sweep') : SweepLeft(sweep'[n])
  PROVE  RemainderInv'
<1>1. Fill' = Fill /\ BookedFill' = BookedFill /\ \A q \in PO : OfPO(q)' = OfPO(q)
  BY DEF Fill, BookedFill, OfPO, Attempt
<1>2. RemainderExact'
  BY <1>1 DEF RemainderInv, RemainderExact, Lossless, Filled, BookedPart
<1>3. RowsLeft'
  BY DEF RowsLeft, SweepLeft, RemainderInv
<1> QED BY <1>2, <1>3 DEF RemainderInv, Attempt

LEMMA SweepReadLeft ==
  ASSUME RemainderInv, PersistTypeOK, PersistTypeOK', SweepRead
  PROVE  RemainderInv'
<1> DEFINE Active == {p \in PO : po[p].st = "ACTIVE"}
<1> DEFINE k == Cardinality(Active)
<1>1. k \in Nat
  BY PersistentAssumption, FS_Subset, FS_CardinalityType
<1>2. PICK order \in [1..k -> PO] :
        /\ {order[n] : n \in DOMAIN order} = Active
        /\ sweep' = [n \in DOMAIN order |->
            [po |-> order[n], qty |-> po[order[n]].qty, last |-> po[order[n]].last,
             seen |-> Heard(order[n])]]
  BY DEF SweepRead
<1> HIDE DEF k
<1>3. Len(sweep') = k
  BY <1>1, <1>2
<1>4. ASSUME NEW n \in 1..Len(sweep') PROVE SweepLeft(sweep'[n])
  <2>1. order[n] \in Active /\ sweep'[n].po = order[n] /\ sweep'[n].qty = po[order[n]].qty
    BY <1>2, <1>3
  <2>2. po[order[n]].qty > 0 /\ po[order[n]].qty \in Nat
    BY <2>1 DEF RemainderInv, RowsLeft, PersistTypeOK, Row
  <2> QED BY <2>1, <2>2 DEF SweepLeft
<1> QED BY <1>4, StillKeeps DEF SweepRead

LEMMA SweepVisitLeft ==
  ASSUME RemainderInv, PersistTypeOK, PersistTypeOK', SweepVisit
  PROVE  RemainderInv'
<1> DEFINE r == Head(sweep)
<1>1. /\ r = sweep[1] /\ 1 \in 1..Len(sweep)
      /\ \A n \in 1..Len(sweep') : sweep'[n] = sweep[n + 1] /\ n + 1 \in 1..Len(sweep)
  <2>1. sweep \in Seq(SweepRow) /\ sweep # <<>> /\ sweep' = Tail(sweep)
    BY DEF SweepVisit, PersistTypeOK, SweepRow
  <2>2. /\ r = sweep[1] /\ Len(Tail(sweep)) = Len(sweep) - 1
        /\ \A i \in 1 .. Len(Tail(sweep)) : Tail(sweep)[i] = sweep[i + 1]
    BY <2>1, HeadTailProperties
  <2>3. Len(sweep) \in Nat \ {0}
    BY <2>1, EmptySeq, LenProperties
  <2> QED BY <2>1, <2>2, <2>3
<1>2. SweepLeft(r) /\ r.po \in PO /\ r.qty \in Nat
  BY <1>1, SweepTyped
<1>3. \A n \in 1..Len(sweep') : SweepLeft(sweep'[n]) /\ sweep'[n].po \in PO
  BY <1>1, SweepTyped
<1>4. UNCHANGED <<po, lost>>
  BY DEF SweepVisit
<1>5. CASE open /\ ~SubmittedToday(r)
  <2>1. Submit(r.po, "sweep", r.qty, r.seen)
    BY <1>5 DEF SweepVisit
  <2> HIDE DEF r
  <2>2. r.qty \in Nat \ {0} /\ po'[r.po].st # "none" /\ po'[r.po].qty <= r.qty
    <3>1. po[r.po].qty \in Nat
      BY <1>2 DEF PersistTypeOK, Row
    <3> QED BY <1>2, <1>4, <3>1 DEF SweepLeft
  <2> QED BY <1>2, <1>3, <1>4, <2>1, <2>2, SubmitKeepsLeft
<1>6. CASE ~open \/ SubmittedToday(r)
  <2>1. attempts' = attempts
    BY <1>6 DEF SweepVisit
  <2> HIDE DEF r
  <2> QED BY <1>3, <1>4, <2>1, StillKeeps
<1> QED BY <1>5, <1>6

\* One attempt is written, and nothing of it is booked.
LEMMA OneQuiet ==
  ASSUME RemainderInv, PersistTypeOK, PersistTypeOK', NEW a \in Attempt, NEW x,
         attempts' = [attempts EXCEPT ![a] = x], Sound(x),
         x.po = attempts[a].po, x.qty = attempts[a].qty,
         x.done = attempts[a].done \/ (attempts[a].done = 0 /\ x.done \in Nat),
         x.st = "OPEN" => attempts[a].st = "OPEN" /\ x.ended = attempts[a].ended,
         a \in lost' \/ (x.st = "OPEN" /\ x.done = attempts[a].done) \/ attempts[a].st # "OPEN",
         lost \subseteq lost', UNCHANGED sweep,
         \A p \in PO : /\ po'[p].qty = po[p].qty
                       /\ po'[p].st \in {po[p].st, "USER_CANCELLED", "FAILED"}
  PROVE  RemainderInv'
<1>0. AttemptFacts
  BY AttemptsTyped
<1>1. /\ Attempt' = Attempt /\ attempts'[a] = x /\ \A b \in Attempt \ {a} : attempts'[b] = attempts[b]
  BY DEF PersistTypeOK, Attempt
<1>2. ASSUME NEW b \in Attempt
      PROVE  /\ attempts'[b].po = attempts[b].po /\ attempts'[b].qty = attempts[b].qty
             /\ attempts'[b].done >= attempts[b].done /\ Sound(attempts'[b])
             /\ attempts'[b].st = "OPEN" => attempts[b].st = "OPEN" /\ attempts'[b].ended = attempts[b].ended
             /\ b \in lost' \/ BookedFill'[b] = BookedFill[b]
  <2>1. CASE b = a
    BY <1>0, <1>1, <2>1 DEF AttemptFacts, BookedFill
  <2>2. CASE b # a
    BY <1>0, <1>1, <2>2 DEF AttemptFacts, BookedFill, RemainderInv
  <2> QED BY <2>1, <2>2
<1>3. \A n \in 1..Len(sweep') : SweepLeft(sweep'[n]) /\ sweep'[n].po \in PO
  BY SweepTyped
<1> QED BY <1>1, <1>2, <1>3, QuietKeeps

\* The broker, its answers, and the write-off.
LEMMA OneAttemptLeft ==
  ASSUME RemainderInv, PersistTypeOK, PersistTypeOK', NEW a \in Attempt,
         \/ Taken(a) \/ AnswerOk(a) \/ AnswerBad(a) \/ WriteOffAttempt(a)
         \/ \E f \in 0..attempts[a].qty, how \in {"COMPLETE", "CANCELED", "REJECTED"} :
              AttemptEnds(a, f, how)
  PROVE  RemainderInv'
<1>0. attempts[a] \in AttemptSet /\ Sound(attempts[a])
  BY AttemptsTyped DEF AttemptFacts, RemainderInv
<1>1. UNCHANGED sweep /\ lost \subseteq lost'
  BY DEF Taken, AnswerOk, AnswerBad, WriteOffAttempt, AttemptEnds
<1>2. \A p \in PO : po'[p].qty = po[p].qty /\ po'[p].st \in {po[p].st, "USER_CANCELLED", "FAILED"}
  <2>1. CASE AnswerOk(a)
    <3>1. po' = [po EXCEPT ![attempts[a].po].last = day] /\ po \in [PO -> Row]
      BY <2>1 DEF AnswerOk, Stamp, PersistTypeOK
    <3> QED BY <3>1 DEF Row
  <2>2. CASE ~AnswerOk(a)
    <3>1. po' = po
      BY <2>2 DEF Taken, AnswerBad, WriteOffAttempt, AttemptEnds
    <3> QED BY <3>1
  <2> QED BY <2>1, <2>2
<1> DEFINE Written(x) ==
             /\ attempts' = [attempts EXCEPT ![a] = x] /\ Sound(x)
             /\ x.po = attempts[a].po /\ x.qty = attempts[a].qty
             /\ x.done = attempts[a].done \/ (attempts[a].done = 0 /\ x.done \in Nat)
             /\ x.st = "OPEN" => attempts[a].st = "OPEN" /\ x.ended = attempts[a].ended
             /\ a \in lost' \/ (x.st = "OPEN" /\ x.done = attempts[a].done) \/ attempts[a].st # "OPEN"
<1>3. \E x : Written(x)
  <2>1. CASE Taken(a)
    <3> WITNESS [attempts[a] EXCEPT !.order = "working"]
    <3> QED BY <1>0, <2>1 DEF Taken, AttemptSet, Sound
  <2>2. CASE AnswerOk(a)
    <3> WITNESS [attempts[a] EXCEPT !.awaits = FALSE, !.known = TRUE]
    <3> QED BY <1>0, <2>2 DEF AnswerOk, AttemptSet, Sound
  <2>3. CASE AnswerBad(a) /\ attempts[a].order = "sent"
    <3> WITNESS [attempts[a] EXCEPT !.awaits = FALSE, !.st = "CANCELLED", !.order = "gone"]
    <3> QED BY <1>0, <2>3 DEF AnswerBad, AttemptSet, Sound
  <2>4. CASE AnswerBad(a) /\ attempts[a].order # "sent"
    <3> WITNESS [attempts[a] EXCEPT !.awaits = FALSE, !.st = "CANCELLED"]
    <3> QED BY <1>0, <2>4 DEF AnswerBad, AttemptSet, Sound
  <2>5. CASE WriteOffAttempt(a)
    <3> WITNESS [attempts[a] EXCEPT !.st = "CANCELLED"]
    <3> QED BY <1>0, <2>5 DEF WriteOffAttempt, AttemptSet, Sound
  <2>6. ASSUME NEW f \in 0..attempts[a].qty, NEW how \in {"COMPLETE", "CANCELED", "REJECTED"},
               AttemptEnds(a, f, how)
        PROVE  \E x : Written(x)
    <3>1. f \in Nat
      OBVIOUS
    <3> DEFINE x == [attempts[a] EXCEPT !.order = "gone", !.done = f, !.ended = how]
    <3>2. /\ x.po = attempts[a].po /\ x.qty = attempts[a].qty /\ x.st = attempts[a].st
          /\ x.done = f /\ x.ended = how /\ x.order = "gone"
      BY <1>0 DEF AttemptSet
    <3>3. /\ attempts' = [attempts EXCEPT ![a] = x] /\ attempts[a].order = "working"
          /\ (how = "COMPLETE") = (f = attempts[a].qty)
      BY <2>6 DEF AttemptEnds
    <3>4. attempts[a].done = 0 /\ attempts[a].st # "OPEN" /\ attempts[a].qty > 0
      BY <1>0, <3>3 DEF Sound
    <3> HIDE DEF x
    <3>5. Sound(x)
      BY <3>2, <3>3, <3>4 DEF Sound
    <3> WITNESS x
    <3> QED BY <3>1, <3>2, <3>3, <3>4, <3>5
  <2> HIDE DEF Written
  <2> QED BY <2>1, <2>2, <2>3, <2>4, <2>5, <2>6
<1> QED BY <1>1, <1>2, <1>3, OneQuiet

\* The order-book pass.
LEMMA ReconcileLeft ==
  ASSUME RemainderInv, PersistTypeOK, PersistTypeOK', NEW a \in Attempt, ReconcileAttempt(a)
  PROVE  RemainderInv'
<1> DEFINE x == attempts[a]
<1> DEFINE p == x.po
<1>0. /\ x \in AttemptSet /\ Sound(x) /\ Follows(x, po[p]) /\ p \in PO /\ po[p] \in Row
      /\ po[p].qty \in Nat /\ x.qty \in Nat /\ x.done \in Nat /\ x.ended # "no"
  BY AttemptsTyped DEF AttemptFacts, RemainderInv, ReconcileAttempt
<1>1. UNCHANGED <<lost, sweep>>
  BY DEF ReconcileAttempt
<1> DEFINE revives == x.done > 0 /\ x.st \in {"PENDING", "CANCELLED"}
<1>2. CASE x.ended = "COMPLETE" /\ ~revives
  <2>1. x.done > 0 /\ x.st = "OPEN" /\ po[p].st # "ACTIVE"
    BY <1>0, <1>2 DEF Sound, Follows, AttemptSet
  <2>2. po' = [po EXCEPT ![p] = po[p]] /\ attempts' = [attempts EXCEPT ![a].st = "OPEN"]
    BY <1>2, <2>1 DEF ReconcileAttempt, Retired
  <2>3. po' = po /\ attempts' = attempts
    <3>1. [x EXCEPT !.st = "OPEN"] = x
      BY <1>0, <2>1 DEF AttemptSet
    <3>2. a \in DOMAIN attempts
      BY DEF Attempt, PersistTypeOK
    <3> HIDE DEF x
    <3>3. attempts' = [attempts EXCEPT ![a] = x]
      BY <2>2, <3>1 DEF x
    <3> QED BY <1>0, <2>2, <3>2, <3>3 DEF PersistTypeOK, x
  <2> QED BY <1>1, <2>3, StillKeeps, SweepTyped
<1>3. CASE revives
  <2> DEFINE r == po'[p]
  <2>1. attempts' = [attempts EXCEPT ![a].st = "OPEN"]
    BY <1>0, <1>3 DEF ReconcileAttempt
  <2>2. po' = [po EXCEPT ![p] = r]
    BY <1>0 DEF ReconcileAttempt, PersistTypeOK
  <2>3. \/ x.ended = "COMPLETE" /\ r = Retired(po[p], "FILLED")
        \/ x.ended # "COMPLETE" /\ r = Reduced(po[p], x.done)
        \/ x.ended # "COMPLETE" /\ r = Retired(Reduced(po[p], x.done), "FAILED")
    BY <1>0, <1>3 DEF ReconcileAttempt, PersistTypeOK
  <2>4. r \in Row
    BY <1>0 DEF PersistTypeOK
  <2>5. /\ r.qty <= po[p].qty /\ r.st # "none"
        /\ r.st = "ACTIVE" => /\ po[p].st = "ACTIVE" /\ r.qty = po[p].qty - x.done /\ r.qty > 0
                              /\ x.ended # "COMPLETE"
        /\ r.st = "FILLED" => po[p].st = "FILLED" \/ (po[p].st = "ACTIVE" /\ x.done >= po[p].qty)
    <3>1. po[p].st # "none" /\ (x.ended = "COMPLETE" => x.done >= po[p].qty)
      BY <1>0 DEF Follows, Sound
    <3>2. CASE x.ended = "COMPLETE"
      BY <1>0, <2>3, <3>1, <3>2 DEF Retired, Row
    <3>3. CASE x.ended # "COMPLETE"
      <4> DEFINE left == IF po[p].qty > x.done THEN po[p].qty - x.done ELSE 0
      <4> DEFINE q == Reduced(po[p], x.done)
      <4>1. left \in Nat /\ left <= po[p].qty
        BY <1>0
      <4>2. /\ q.qty <= po[p].qty /\ q.st # "none"
            /\ q.st = "ACTIVE" => po[p].st = "ACTIVE" /\ q.qty = po[p].qty - x.done /\ q.qty > 0
            /\ q.st = "FILLED" => po[p].st = "FILLED" \/ (po[p].st = "ACTIVE" /\ x.done >= po[p].qty)
            /\ q \in Row
        <5>1. CASE po[p].st # "ACTIVE"
          <6>1. q = po[p]
            BY <5>1 DEF Reduced
          <6> HIDE DEF q
          <6> QED BY <1>0, <3>1, <5>1, <6>1
        <5>2. CASE po[p].st = "ACTIVE"
          <6>1. q = [po[p] EXCEPT !.qty = left, !.st = IF left = 0 THEN "FILLED" ELSE @]
            BY <5>2 DEF Reduced
          <6>2. /\ q.qty = left /\ q.st = (IF left = 0 THEN "FILLED" ELSE "ACTIVE") /\ q \in Row
            BY <1>0, <4>1, <5>2, <6>1 DEF Row
          <6>3. /\ left = 0 => x.done >= po[p].qty
                /\ left # 0 => left = po[p].qty - x.done /\ left > 0
            BY <1>0
          <6> HIDE DEF left, q
          <6> QED BY <4>1, <5>2, <6>2, <6>3
        <5> QED BY <5>1, <5>2
      <4> HIDE DEF q
      <4>3. r = q \/ r = Retired(q, "FAILED")
        BY <2>3, <3>3 DEF q
      <4> QED BY <3>3, <4>2, <4>3 DEF Retired, Row
    <3> QED BY <3>2, <3>3
  <2>6. x.st # "OPEN"
    BY <1>3
  <2> HIDE DEF r
  <2> QED BY <1>0, <1>1, <2>1, <2>2, <2>4, <2>5, <2>6, BookingKeepsLeft
<1>4. CASE x.ended # "COMPLETE" /\ ~revives
  <2>1. attempts' = [attempts EXCEPT ![a].st = "CANCELLED"] /\ x.st = "PENDING"
    BY <1>4 DEF ReconcileAttempt
  <2> DEFINE y == [x EXCEPT !.st = "CANCELLED"]
  <2>2. /\ attempts' = [attempts EXCEPT ![a] = y] /\ Sound(y) /\ y.po = x.po /\ y.qty = x.qty
        /\ y.done = x.done /\ y.st = "CANCELLED"
    BY <1>0, <2>1 DEF AttemptSet, Sound
  <2>3. \A q \in PO : po'[q].qty = po[q].qty /\ po'[q].st \in {po[q].st, "USER_CANCELLED", "FAILED"}
    <3>1. po' = [po EXCEPT ![p] = po[p]] \/ po' = [po EXCEPT ![p] = Retired(po[p], "FAILED")]
      BY <1>4 DEF ReconcileAttempt
    <3>2. Retired(po[p], "FAILED").qty = po[p].qty /\ Retired(po[p], "FAILED").st \in {po[p].st, "FAILED"}
      BY <1>0 DEF Retired, Row
    <3> QED BY <1>0, <3>1, <3>2 DEF PersistTypeOK
  <2> HIDE DEF y
  <2> QED BY <1>1, <2>1, <2>2, <2>3, OneQuiet
<1> QED BY <1>2, <1>3, <1>4

\* The steps about many attempts, or about none.
LEMMA ManyLeft ==
  ASSUME RemainderInv, PersistTypeOK, PersistTypeOK',
         SessionOpens \/ SessionCloses \/ Death \/ \E p \in PO : CancelRead(p) \/ CancelWrite(p)
  PROVE  RemainderInv'
<1>0. AttemptFacts /\ \A a \in Attempt : Sound(attempts[a])
  BY AttemptsTyped DEF RemainderInv
<1>1. CASE SessionOpens
  BY <1>1, StillKeeps, SweepTyped DEF SessionOpens
<1>2. CASE SessionCloses
  <2>1. UNCHANGED <<po, sweep, lost>>
    BY <1>2 DEF SessionCloses
  <2>2. /\ DOMAIN attempts' = Attempt
        /\ \A a \in Attempt :
             /\ attempts'[a].po = attempts[a].po /\ attempts'[a].qty = attempts[a].qty
             /\ attempts'[a].done = attempts[a].done /\ attempts'[a].st = attempts[a].st /\ Sound(attempts'[a])
             /\ attempts'[a].st = "OPEN" => attempts'[a].ended = attempts[a].ended
    <3>1. DOMAIN attempts' = Attempt
      BY <1>2 DEF SessionCloses
    <3>2. ASSUME NEW a \in Attempt
          PROVE  \/ attempts'[a] = attempts[a]
                 \/ /\ attempts[a].order = "working"
                    /\ attempts'[a] = [attempts[a] EXCEPT !.order = "gone", !.ended = "CANCELED"]
      BY <1>2 DEF SessionCloses
    <3>3. ASSUME NEW x \in AttemptSet, NEW y, Sound(x),
                 y = x \/ (x.order = "working" /\ y = [x EXCEPT !.order = "gone", !.ended = "CANCELED"])
          PROVE  /\ y.po = x.po /\ y.qty = x.qty /\ y.done = x.done /\ y.st = x.st /\ Sound(y)
                 /\ y.st = "OPEN" => y.ended = x.ended
      BY <3>3 DEF AttemptSet, Sound
    <3>4. ASSUME NEW a \in Attempt
          PROVE  /\ attempts'[a].po = attempts[a].po /\ attempts'[a].qty = attempts[a].qty
                 /\ attempts'[a].done = attempts[a].done /\ attempts'[a].st = attempts[a].st
                 /\ Sound(attempts'[a])
                 /\ attempts'[a].st = "OPEN" => attempts'[a].ended = attempts[a].ended
      <4>1. attempts[a] \in AttemptSet /\ Sound(attempts[a])
        BY <1>0 DEF AttemptFacts
      <4> QED BY <4>1, <3>2, <3>3, Zenon
    <3> QED BY <3>1, <3>4
  <2>3. Attempt' = Attempt
    BY <1>0, <2>2, LenProperties DEF Attempt, PersistTypeOK, AttemptFacts
  <2>4. \A a \in Attempt : BookedFill'[a] = BookedFill[a] /\ attempts'[a].done >= attempts[a].done
    BY <1>0, <2>2, <2>3 DEF BookedFill, AttemptFacts
  <2> QED BY <2>1, <2>2, <2>3, <2>4, SweepTyped, QuietKeeps
<1>3. CASE Death
  <2>1. PICK taken \in SUBSET {a \in Attempt : attempts[a].order = "sent"} :
          attempts' = [a \in Attempt |-> [attempts[a] EXCEPT !.awaits = FALSE,
            !.order = IF @ = "sent" THEN IF a \in taken THEN "working" ELSE "gone" ELSE @]]
    BY <1>3 DEF Death
  <2>2. sweep' = <<>> /\ UNCHANGED <<po, lost>>
    BY <1>3 DEF Death
  <2>3. ASSUME NEW a \in Attempt
        PROVE  /\ attempts'[a].po = attempts[a].po /\ attempts'[a].qty = attempts[a].qty
               /\ attempts'[a].done = attempts[a].done /\ attempts'[a].st = attempts[a].st /\ Sound(attempts'[a])
               /\ attempts'[a].st = "OPEN" => attempts'[a].ended = attempts[a].ended
    <3>1. PICK o \in {"sent", "working", "gone"} :
            /\ attempts'[a] = [attempts[a] EXCEPT !.awaits = FALSE, !.order = o]
            /\ attempts[a].order = "gone" => o = "gone"
      BY <1>0, <2>1 DEF AttemptFacts, AttemptSet
    <3>2. attempts[a] \in AttemptSet
      BY <1>0 DEF AttemptFacts
    <3>3. /\ attempts'[a].po = attempts[a].po /\ attempts'[a].qty = attempts[a].qty
          /\ attempts'[a].done = attempts[a].done /\ attempts'[a].st = attempts[a].st
          /\ attempts'[a].ended = attempts[a].ended /\ attempts'[a].order = o
      BY <3>1, <3>2 DEF AttemptSet
    <3>4. attempts'[a].order # "gone" => attempts[a].ended = "no"
      BY <1>0, <3>1, <3>3 DEF Sound
    <3> QED BY <1>0, <3>3, <3>4 DEF Sound
  <2>4. Attempt' = Attempt
    <3>1. DOMAIN attempts' = 1..Len(attempts)
      BY <2>1 DEF Attempt
    <3> QED BY <1>0, <3>1, LenProperties DEF Attempt, PersistTypeOK, AttemptFacts
  <2>5. \A a \in Attempt : BookedFill'[a] = BookedFill[a] /\ attempts'[a].done >= attempts[a].done
    BY <1>0, <2>3, <2>4 DEF BookedFill, AttemptFacts
  <2>6. Len(sweep') = 0
    BY <2>2
  <2> QED BY <2>2, <2>3, <2>4, <2>5, <2>6, QuietKeeps
<1>4. ASSUME NEW p \in PO, CancelRead(p) PROVE RemainderInv'
  <2>1. UNCHANGED <<po, sweep, lost>>
    BY <1>4 DEF CancelRead
  <2>2. CASE attempts' = attempts
    BY <2>1, <2>2, StillKeeps, SweepTyped
  <2>3. CASE attempts' # attempts
    <3>1. PICK a \in Heard(p) : /\ attempts' = [attempts EXCEPT ![a].order = "gone", ![a].ended = "CANCELED"]
                               /\ attempts[a].order = "working"
      BY <1>4, <2>3 DEF CancelRead
    <3>2. a \in Attempt
      BY DEF Heard, OfPO
    <3> DEFINE x == [attempts[a] EXCEPT !.order = "gone", !.ended = "CANCELED"]
    <3>3. /\ attempts' = [attempts EXCEPT ![a] = x] /\ x.po = attempts[a].po /\ x.qty = attempts[a].qty
          /\ x.done = attempts[a].done /\ x.st = attempts[a].st /\ x.order = "gone" /\ x.ended = "CANCELED"
      BY <1>0, <3>1, <3>2, ZenonT(40) DEF AttemptFacts, AttemptSet
    <3> HIDE DEF x
    <3>4. Sound(x) /\ x.st # "OPEN"
      BY <1>0, <3>1, <3>2, <3>3 DEF Sound
    <3> QED BY <2>1, <3>2, <3>3, <3>4, OneQuiet
  <2> QED BY <2>2, <2>3
<1>5. ASSUME NEW p \in PO, CancelWrite(p) PROVE RemainderInv'
  <2>1. UNCHANGED <<attempts, sweep, lost>> /\ po' = [po EXCEPT ![p].st = "USER_CANCELLED"]
    BY <1>5 DEF CancelWrite
  <2>2. Attempt' = Attempt /\ \A a \in Attempt : BookedFill'[a] = BookedFill[a]
    BY <2>1 DEF Attempt, BookedFill
  <2>3. \A q \in PO : po'[q].qty = po[q].qty /\ po'[q].st \in {po[q].st, "USER_CANCELLED", "FAILED"}
    BY <2>1 DEF PersistTypeOK, Row
  <2>4. \A a \in Attempt : attempts'[a].done >= attempts[a].done
    BY <1>0, <2>1 DEF AttemptFacts
  <2> QED BY <1>0, <2>1, <2>2, <2>3, <2>4, SweepTyped, QuietKeeps
<1> QED BY <1>1, <1>2, <1>3, <1>4, <1>5

LEMMA RemainderStep == RemainderInv /\ PersistTypeOK /\ PersistTypeOK' /\ [PersistNext]_poVars => RemainderInv'
<1> SUFFICES ASSUME RemainderInv, PersistTypeOK, PersistTypeOK', [PersistNext]_poVars PROVE RemainderInv'
  OBVIOUS
<1>1. CASE UNCHANGED poVars
  BY <1>1, StillKeeps, SweepTyped DEF poVars
<1>2. CASE PersistNext
  BY <1>2, CreateLeft, SweepReadLeft, SweepVisitLeft, OneAttemptLeft, ReconcileLeft, ManyLeft DEF PersistNext
<1> QED BY <1>1, <1>2

\* For any number of orders, days, attempts and deaths: an ACTIVE order has left
\* what it was created for less what its attempts are booked to have bought, and
\* one that says FILLED has bought it all (persistent_orders.py, and the part of
\* reconciliation.py that reduces and retires the rows).
THEOREM RemaindersStayExact == PersistSpec => []RemainderExact
<1>1. PersistInv => PersistTypeOK
  BY DEF PersistInv
<1>2. RemainderInv => RemainderExact
  BY DEF RemainderInv
<1> QED BY <1>1, <1>2, PersistInitOK, PersistStep, RemainderInit, RemainderStep, PTL DEF PersistSpec

-----------------------------------------------------------------------------
(* The lot ledger                                                          *)

\* A lot is CLOSED exactly when nothing is open, and untouched until it is filled.
LotRows == {l \in LotSet : /\ l.open <= l.entry /\ (l.st = "CLOSED" <=> l.open = 0)
                           /\ (l.st \in Unfilled => l.open = l.entry)}
OrderStates == {"sent", "OPEN", "COMPLETE", "CANCELLED", "REFUSED"}
OrderRows == [side : {1, -1}, qty : Nat \ {0}, done : Nat, ref : {"lot", "exit", "card", "none"},
              st : OrderStates, waits : BOOLEAN, was : Seq(LotRows)]
OrdersOK ==
  /\ orders \in Seq(OrderRows)
  /\ \A o \in DOMAIN orders : /\ orders[o].st = "sent" => orders[o].waits
                              /\ orders[o].st = "REFUSED" => ~orders[o].waits
\* The row an order re-entered had ended, and comes back if the broker refuses.
OnItsWay(l) == l.tag # 0 /\ orders[l.tag].st = "sent"
WasOK ==
  \A o \in DOMAIN orders : \A i \in DOMAIN orders[o].was : LET l == orders[o].was[i] IN
    (l.tag # 0 => l.tag \in DOMAIN orders) /\ ~OnItsWay(l)

\* What a call read of the orders it lists, which the broker had taken by then.
BookRows == [ord : Nat, st : {"OPEN", "COMPLETE", "CANCELLED"}, tagged : BOOLEAN, done : Nat]
AtBroker(o) == o \in DOMAIN orders /\ orders[o].st \notin {"sent", "REFUSED"}
ReadOK(rows) == rows \in Seq(BookRows) /\ \A i \in DOMAIN rows : AtBroker(rows[i].ord)
ReadsOK == ReadOK(late) /\ sync \in [on : BOOLEAN, rows : Seq(BookRows), net : Seq(Int)] /\ ReadOK(sync.rows)

\* The ledger while a pass works on it: d.
DbRows == [lots : Seq(LotRows), exits : Seq(ExitSet), doomed : SUBSET Nat]
Refers(d) ==
  /\ \A n \in DOMAIN d.lots : d.lots[n].tag # 0 => d.lots[n].tag \in DOMAIN orders
  /\ \A e \in DOMAIN d.exits : d.exits[e].lot \in DOMAIN d.lots
                               /\ (d.exits[e].ord # 0 => AtBroker(d.exits[e].ord))
  /\ \A e \in d.doomed : e \in DOMAIN d.exits /\ d.exits[e].ord # 0
\* The lot of an entry whose order the broker has not taken waits for it, and has no exits.
Waiting(d) ==
  \A n \in DOMAIN d.lots : OnItsWay(d.lots[n]) =>
    /\ d.lots[n].st = "PENDING" /\ d.lots[n].ord = 0
    /\ \A e \in DOMAIN d.exits : d.exits[e].lot = n => d.exits[e].st = "deleted"
Resting(x) == x.st = "PENDING" /\ x.ord # 0 /\ orders[x.ord].st = "OPEN"
Rests(d, e) == Resting(d.exits[e]) /\ d.lots[d.exits[e].lot].st = "CLOSED"
Swept(d) == \A e \in DOMAIN d.exits : Rests(d, e) => e \in d.doomed \cup stray
DbOK(d) == d \in DbRows /\ Refers(d) /\ Waiting(d) /\ Swept(d)

LedgerInv == OrdersOK /\ WasOK /\ ReadsOK /\ DbOK(Ledger)

\* The lots of c and d are the same rows, for the same orders of ours.
SameTags(c, d) == DOMAIN d.lots = DOMAIN c.lots /\ \A n \in DOMAIN c.lots : d.lots[n].tag = c.lots[n].tag

\* The tables of a sound ledger are sequences of rows.
LEMMA LedgerRows ==
  ASSUME NEW d, DbOK(d)
  PROVE  /\ d = [lots |-> d.lots, exits |-> d.exits, doomed |-> d.doomed]
         /\ d.lots \in Seq(LotRows) /\ d.exits \in Seq(ExitSet) /\ d.doomed \in SUBSET Nat
         /\ DOMAIN d.lots = 1..Len(d.lots) /\ Len(d.lots) \in Nat /\ IsFiniteSet(DOMAIN d.lots)
         /\ DOMAIN d.exits = 1..Len(d.exits) /\ Len(d.exits) \in Nat /\ IsFiniteSet(DOMAIN d.exits)
         /\ \A n \in DOMAIN d.lots : d.lots[n] \in LotRows
         /\ \A e \in DOMAIN d.exits : d.exits[e] \in ExitSet
<1>1. /\ d = [lots |-> d.lots, exits |-> d.exits, doomed |-> d.doomed]
      /\ d.lots \in Seq(LotRows) /\ d.exits \in Seq(ExitSet) /\ d.doomed \in SUBSET Nat
  BY DEF DbOK, DbRows
<1>2. /\ DOMAIN d.lots = 1..Len(d.lots) /\ Len(d.lots) \in Nat /\ \A n \in DOMAIN d.lots : d.lots[n] \in LotRows
      /\ DOMAIN d.exits = 1..Len(d.exits) /\ Len(d.exits) \in Nat /\ \A e \in DOMAIN d.exits : d.exits[e] \in ExitSet
  BY <1>1
<1>3. IsFiniteSet(1..Len(d.lots)) /\ IsFiniteSet(1..Len(d.exits))
  <2>1. \A k \in Nat : IsFiniteSet(1..k)
    BY FS_Interval
  <2> QED BY <1>2, <2>1
<1> QED BY <1>1, <1>2, <1>3

\* One lot that no order is on its way for changes, and if it closes its exits are doomed.
LEMMA LotChanges ==
  ASSUME NEW d, DbOK(d), NEW n \in DOMAIN d.lots, ~OnItsWay(d.lots[n]),
         NEW l \in LotRows, l.tag = d.lots[n].tag, NEW m \in SUBSET Nat, d.doomed \subseteq m,
         \A e \in m : e \in DOMAIN d.exits /\ d.exits[e].ord # 0,
         \A e \in DOMAIN d.exits :
           d.exits[e].lot = n /\ l.st = "CLOSED" /\ Resting(d.exits[e]) => e \in m \/ Rests(d, e)
  PROVE  DbOK([lots |-> [d.lots EXCEPT ![n] = l], exits |-> d.exits, doomed |-> m])
<1> DEFINE L == [d.lots EXCEPT ![n] = l]
<1> DEFINE x == [lots |-> L, exits |-> d.exits, doomed |-> m]
<1>1. L \in Seq(LotRows) /\ DOMAIN L = DOMAIN d.lots /\ L[n] = l /\ \A k \in DOMAIN d.lots : k # n => L[k] = d.lots[k]
  BY LedgerRows
<1>2. x.lots = L /\ x.exits = d.exits /\ x.doomed = m /\ x \in DbRows
  BY <1>1, LedgerRows DEF DbRows
<1> HIDE DEF L, x
<1>3. Refers(x)
  BY <1>1, <1>2 DEF Refers, DbOK
<1>4. \A k \in DOMAIN d.lots : OnItsWay(L[k]) => k # n
  BY <1>1 DEF OnItsWay
<1>5. Waiting(x)
  BY <1>1, <1>2, <1>4 DEF Waiting, DbOK
<1>6. Swept(x)
  <2> SUFFICES ASSUME NEW e \in DOMAIN d.exits, Rests(x, e) PROVE e \in m \cup stray
    BY <1>2 DEF Swept
  <2>1. d.exits[e].lot \in DOMAIN d.lots
    BY DEF DbOK, Refers
  <2>2. CASE d.exits[e].lot # n
    BY <1>1, <1>2, <2>1, <2>2 DEF Rests, Resting, Swept, DbOK
  <2>3. CASE d.exits[e].lot = n
    BY <1>1, <1>2, <2>3 DEF Rests, Resting, Swept, DbOK
  <2> QED BY <2>2, <2>3
<1> QED BY <1>2, <1>3, <1>5, <1>6 DEF DbOK, x, L

\* One exit that is not deleted changes, and does not come to rest.
LEMMA ExitChanges ==
  ASSUME NEW d, DbOK(d), NEW e \in DOMAIN d.exits, d.exits[e].st # "deleted",
         NEW x \in ExitSet, x.lot = d.exits[e].lot, x.ord = d.exits[e].ord,
         x.st = "PENDING" => d.exits[e].st = "PENDING"
  PROVE  DbOK([lots |-> d.lots, exits |-> [d.exits EXCEPT ![e] = x], doomed |-> d.doomed])
<1> DEFINE X == [d.exits EXCEPT ![e] = x]
<1> DEFINE y == [lots |-> d.lots, exits |-> X, doomed |-> d.doomed]
<1>1. X \in Seq(ExitSet) /\ DOMAIN X = DOMAIN d.exits /\ X[e] = x /\ \A k \in DOMAIN d.exits : k # e => X[k] = d.exits[k]
  BY LedgerRows
<1>2. y.lots = d.lots /\ y.exits = X /\ y.doomed = d.doomed /\ y \in DbRows
  BY <1>1, LedgerRows DEF DbRows
<1> HIDE DEF X, y
<1>3. Refers(y)
  BY <1>1, <1>2 DEF Refers, DbOK
<1>5. Waiting(y)
  BY <1>1, <1>2 DEF Waiting, DbOK
<1>6. Swept(y)
  <2> SUFFICES ASSUME NEW k \in DOMAIN d.exits, Rests(y, k) PROVE k \in d.doomed \cup stray
    BY <1>1, <1>2 DEF Swept
  <2>1. Rests(d, k)
    BY <1>1, <1>2 DEF Rests, Resting
  <2> QED BY <2>1 DEF Swept, DbOK
<1> QED BY <1>2, <1>3, <1>5, <1>6 DEF DbOK, y, X

\* A lot is added that is not closed, and no order of ours is on its way for.
LEMMA LotAdded ==
  ASSUME NEW d, DbOK(d), NEW l \in LotRows, l.tag = 0, l.st # "CLOSED"
  PROVE  DbOK([lots |-> Append(d.lots, l), exits |-> d.exits, doomed |-> d.doomed])
<1> DEFINE L == Append(d.lots, l)
<1> DEFINE x == [lots |-> L, exits |-> d.exits, doomed |-> d.doomed]
<1>1. /\ L \in Seq(LotRows) /\ DOMAIN L = 1..(Len(d.lots) + 1) /\ L[Len(d.lots) + 1] = l
      /\ \A k \in DOMAIN d.lots : k \in DOMAIN L /\ L[k] = d.lots[k]
      /\ \A k \in DOMAIN L : k \in DOMAIN d.lots \/ L[k] = l
  BY LedgerRows
<1>2. x.lots = L /\ x.exits = d.exits /\ x.doomed = d.doomed /\ x \in DbRows
  BY <1>1, LedgerRows DEF DbRows
<1> HIDE DEF L, x
<1>3. Refers(x)
  BY <1>1, <1>2 DEF Refers, DbOK
<1>5. Waiting(x)
  BY <1>1, <1>2 DEF Waiting, DbOK, OnItsWay
<1>6. Swept(x)
  BY <1>1, <1>2 DEF Swept, Rests, Resting, DbOK, Refers
<1> QED BY <1>2, <1>3, <1>5, <1>6 DEF DbOK, x, L

\* An exit is added that rests nowhere, of a lot that no order is on its way for.
LEMMA ExitAdded ==
  ASSUME NEW d, DbOK(d), NEW x \in ExitSet, x.lot \in DOMAIN d.lots, ~OnItsWay(d.lots[x.lot]),
         x.ord # 0 => AtBroker(x.ord), x.st # "PENDING" \/ x.ord = 0
  PROVE  DbOK([lots |-> d.lots, exits |-> Append(d.exits, x), doomed |-> d.doomed])
<1> DEFINE X == Append(d.exits, x)
<1> DEFINE y == [lots |-> d.lots, exits |-> X, doomed |-> d.doomed]
<1>1. /\ X \in Seq(ExitSet) /\ DOMAIN X = 1..(Len(d.exits) + 1)
      /\ \A k \in DOMAIN d.exits : k \in DOMAIN X /\ X[k] = d.exits[k]
      /\ \A k \in DOMAIN X : k \in DOMAIN d.exits \/ X[k] = x
  BY LedgerRows
<1>2. y.lots = d.lots /\ y.exits = X /\ y.doomed = d.doomed /\ y \in DbRows
  BY <1>1, LedgerRows DEF DbRows
<1> HIDE DEF X, y
<1>3. Refers(y)
  BY <1>1, <1>2 DEF Refers, DbOK
<1>5. Waiting(y)
  BY <1>1, <1>2 DEF Waiting, DbOK
<1>6. Swept(y)
  BY <1>1, <1>2 DEF Swept, Rests, Resting, DbOK
<1> QED BY <1>2, <1>3, <1>5, <1>6 DEF DbOK, y, X

\* What a lot loses, it no longer has open; nothing else of the row changes.
LEMMA ReduceIs ==
  ASSUME NEW d, DbOK(d), NEW n \in DOMAIN d.lots,
         NEW q \in Nat, q <= d.lots[n].open, q # 0 \/ d.lots[n].st \notin Unfilled
  PROVE  \E l \in LotRows : \E m :
           /\ Reduce(d, n, q) = [lots |-> [d.lots EXCEPT ![n] = l], exits |-> d.exits, doomed |-> m]
           /\ l.tag = d.lots[n].tag /\ l.ord = d.lots[n].ord /\ l.side = d.lots[n].side /\ l.ext = d.lots[n].ext
           /\ l.entry = d.lots[n].entry /\ l.open = d.lots[n].open - q
           /\ l.st = IF l.open = 0 THEN "CLOSED" ELSE "OPEN"
           /\ m = IF l.open = 0 THEN d.doomed \cup Collect(d, n) ELSE d.doomed
<1> DEFINE left == d.lots[n].open - q
<1> DEFINE st == IF left = 0 THEN "CLOSED" ELSE "OPEN"
<1> DEFINE m == IF left = 0 THEN d.doomed \cup Collect(d, n) ELSE d.doomed
<1>0. d.lots[n] \in LotRows /\ d.lots[n] \in LotSet
  BY LedgerRows DEF LotRows
<1>1. PICK l : l = [d.lots[n] EXCEPT !.open = left, !.st = st]
  OBVIOUS
<1>2. left \in Nat /\ left <= d.lots[n].entry /\ st \in {"CLOSED", "OPEN"}
  <2>1. d.lots[n].open \in Nat /\ d.lots[n].entry \in Nat /\ d.lots[n].open <= d.lots[n].entry
    BY <1>0 DEF LotRows, LotSet
  <2> QED BY <2>1
<1>3. /\ l \in LotSet /\ l.tag = d.lots[n].tag /\ l.ord = d.lots[n].ord /\ l.side = d.lots[n].side /\ l.ext = d.lots[n].ext
      /\ l.st = st /\ l.open = left /\ l.entry = d.lots[n].entry
  <2> HIDE DEF left, st
  <2>1. PICK k \in LotSet : k = d.lots[n]
    BY <1>0
  <2>2. l = [k EXCEPT !.open = left, !.st = st]
    BY <1>1, <2>1
  <2>3. /\ l \in LotSet /\ l.tag = k.tag /\ l.ord = k.ord /\ l.side = k.side /\ l.ext = k.ext
        /\ l.st = st /\ l.open = left /\ l.entry = k.entry
    BY <1>2, <2>2 DEF LotSet
  <2> QED BY <2>1, <2>3
<1>4. l \in LotRows
  BY <1>0, <1>3 DEF LotRows, LotSet, Unfilled
<1>5. Reduce(d, n, q) = [lots |-> [d.lots EXCEPT ![n] = l], exits |-> d.exits, doomed |-> m]
  <2>1. d = [lots |-> d.lots, exits |-> d.exits, doomed |-> d.doomed]
    BY LedgerRows
  <2>2. Reduce(d, n, q) = [d EXCEPT !.lots[n].open = left, !.lots[n].st = st, !.doomed = m]
    BY DEF Reduce
  <2>3. [d.lots EXCEPT ![n] = l] = [d.lots EXCEPT ![n].open = left, ![n].st = st]
    BY <1>1, LedgerRows
  <2>4. [d EXCEPT !.lots[n].open = left, !.lots[n].st = st, !.doomed = m]
           = [lots |-> [d.lots EXCEPT ![n].open = left, ![n].st = st], exits |-> d.exits, doomed |-> m]
    <3> HIDE DEF left, st, m
    <3>1. PICK L, X, M : L = d.lots /\ X = d.exits /\ M = d.doomed
      OBVIOUS
    <3>2. d = [lots |-> L, exits |-> X, doomed |-> M]
      BY <2>1, <3>1
    <3>3. PICK A, L1 : A = [d EXCEPT !.lots[n].open = left] /\ L1 = [L EXCEPT ![n].open = left]
      OBVIOUS
    <3>4. A = [lots |-> L1, exits |-> X, doomed |-> M]
      BY <3>2, <3>3
    <3>5. PICK B, L2 : B = [A EXCEPT !.lots[n].st = st] /\ L2 = [L1 EXCEPT ![n].st = st]
      OBVIOUS
    <3>6. B = [lots |-> L2, exits |-> X, doomed |-> M]
      BY <3>4, <3>5
    <3>7. [B EXCEPT !.doomed = m] = [lots |-> L2, exits |-> X, doomed |-> m]
      BY <3>6
    <3>8. [d EXCEPT !.lots[n].open = left, !.lots[n].st = st, !.doomed = m] = [B EXCEPT !.doomed = m]
      BY <3>3, <3>5, Zenon
    <3>9. L2 = [d.lots EXCEPT ![n].open = left, ![n].st = st]
      BY <3>1, <3>3, <3>5, Zenon
    <3> QED BY <3>1, <3>7, <3>8, <3>9, Zenon
  <2> QED BY <2>2, <2>3, <2>4
<1> QED BY <1>3, <1>4, <1>5

\* When a lot closes its resting exits are doomed, so the ledger stays sound.
LEMMA ReduceKeeps ==
  ASSUME NEW d, DbOK(d), NEW n \in DOMAIN d.lots, ~OnItsWay(d.lots[n]),
         NEW q \in Nat, q <= d.lots[n].open, q # 0 \/ d.lots[n].st \notin Unfilled
  PROVE  /\ DbOK(Reduce(d, n, q))
         /\ Reduce(d, n, q).exits = d.exits /\ SameTags(d, Reduce(d, n, q))
         /\ \A k \in DOMAIN d.lots : k # n => Reduce(d, n, q).lots[k] = d.lots[k]
         /\ Reduce(d, n, q).lots[n].open = d.lots[n].open - q
<1>1. PICK l, m :
        /\ l \in LotRows
        /\ Reduce(d, n, q) = [lots |-> [d.lots EXCEPT ![n] = l], exits |-> d.exits, doomed |-> m]
        /\ l.tag = d.lots[n].tag /\ l.open = d.lots[n].open - q
        /\ l.st = IF l.open = 0 THEN "CLOSED" ELSE "OPEN"
        /\ m = IF l.open = 0 THEN d.doomed \cup Collect(d, n) ELSE d.doomed
  BY ReduceIs
<1>2. Collect(d, n) \subseteq DOMAIN d.exits /\ \A e \in Collect(d, n) : d.exits[e].ord # 0
  BY DEF Collect, PendingExits, Resting
<1>3. m \in SUBSET Nat /\ d.doomed \subseteq m /\ \A e \in m : e \in DOMAIN d.exits /\ d.exits[e].ord # 0
  BY <1>1, <1>2, LedgerRows DEF DbOK, Refers
<1>4. \A e \in DOMAIN d.exits :
           d.exits[e].lot = n /\ l.st = "CLOSED" /\ Resting(d.exits[e]) => e \in m \/ Rests(d, e)
  BY <1>1 DEF Collect, PendingExits, Resting
<1>5. DbOK([lots |-> [d.lots EXCEPT ![n] = l], exits |-> d.exits, doomed |-> m])
  BY <1>1, <1>3, <1>4, LotChanges
<1> QED BY <1>1, <1>5, LedgerRows DEF SameTags

\* A row of the book is about an order the broker has taken.
LEMMA TakenRow ==
  ASSUME OrdersOK, NEW r \in BookRows, AtBroker(r.ord)
  PROVE  /\ r.ord \in Nat \ {0} /\ r.done \in Nat /\ SideOf(r) \in {1, -1} /\ orders[r.ord].qty \in Nat \ {0}
         /\ r.ord \in DOMAIN orders /\ orders[r.ord].st # "sent"
<1>1. r.ord \in Nat /\ r.done \in Nat
  BY DEF BookRows
<1>2. DOMAIN orders = 1..Len(orders) /\ Len(orders) \in Nat /\ r.ord \in DOMAIN orders /\ orders[r.ord] \in OrderRows
  BY DEF OrdersOK, AtBroker
<1> QED BY <1>1, <1>2 DEF SideOf, OrderRows, AtBroker

\* A lot that is settled is a lot, of the same order of ours, and does not close.
LEMMA SettledLot ==
  ASSUME NEW l \in LotRows, NEW r \in BookRows
  PROVE  /\ SettleLot(l, r) \in LotRows /\ SettleLot(l, r).tag = l.tag
         /\ SettleLot(l, r).st = "CLOSED" => l.st = "CLOSED"
<1>0. l \in LotSet /\ r.done \in Nat
  BY DEF LotRows, BookRows
<1>1. CASE r.st \in Final /\ r.done > 0 /\ l.st \in Unfilled
  <2>1. PICK k : k = [l EXCEPT !.entry = r.done, !.open = r.done, !.st = "OPEN"]
    OBVIOUS
  <2>2. k \in LotSet /\ k.tag = l.tag /\ k.st = "OPEN" /\ k.open = r.done /\ k.entry = r.done
    BY <1>0, <2>1 DEF LotSet
  <2>3. SettleLot(l, r) = k
    BY <1>1, <2>1 DEF SettleLot
  <2> QED BY <1>0, <1>1, <2>2, <2>3 DEF LotRows, Unfilled
<1>2. CASE ~(r.st \in Final /\ r.done > 0 /\ l.st \in Unfilled) /\ r.st = "CANCELLED" /\ l.st = "PENDING"
  <2>1. PICK k : k = [l EXCEPT !.st = "CANCELLED"]
    OBVIOUS
  <2>2. k \in LotSet /\ k.tag = l.tag /\ k.st = "CANCELLED" /\ k.open = l.open /\ k.entry = l.entry
    BY <1>0, <2>1 DEF LotSet
  <2>3. SettleLot(l, r) = k
    BY <1>2, <2>1 DEF SettleLot
  <2> QED BY <1>2, <2>2, <2>3 DEF LotRows, Unfilled
<1>3. CASE ~(r.st \in Final /\ r.done > 0 /\ l.st \in Unfilled) /\ ~(r.st = "CANCELLED" /\ l.st = "PENDING")
  BY <1>3 DEF SettleLot
<1> QED BY <1>1, <1>2, <1>3

\* One lot replaced in a ledger, as the EXCEPT of the model.
LEMMA LotPut ==
  ASSUME NEW d, DbOK(d), NEW n, NEW l
  PROVE  [d EXCEPT !.lots[n] = l] = [lots |-> [d.lots EXCEPT ![n] = l], exits |-> d.exits, doomed |-> d.doomed]
<1>1. PICK L, X, M : L = d.lots /\ X = d.exits /\ M = d.doomed
  OBVIOUS
<1>2. d = [lots |-> L, exits |-> X, doomed |-> M]
  BY <1>1, LedgerRows
<1>3. [d EXCEPT !.lots[n] = l] = [lots |-> [L EXCEPT ![n] = l], exits |-> X, doomed |-> M]
  BY <1>2
<1> QED BY <1>1, <1>3, Zenon

\* A row of the book settles the lot it is about.
LEMMA SettleKeeps ==
  ASSUME OrdersOK, NEW r \in BookRows, AtBroker(r.ord), NEW d, DbOK(d), NEW n \in DOMAIN d.lots,
         ~OnItsWay(d.lots[n])
  PROVE  /\ DbOK([d EXCEPT !.lots[n] = SettleLot(@, r)])
         /\ SameTags(d, [d EXCEPT !.lots[n] = SettleLot(@, r)])
<1>3. PICK l : l = SettleLot(d.lots[n], r)
  OBVIOUS
<1>4. l \in LotRows /\ l.tag = d.lots[n].tag /\ (l.st = "CLOSED" => d.lots[n].st = "CLOSED")
  BY <1>3, LedgerRows, SettledLot
<1>5. \A e \in d.doomed : e \in DOMAIN d.exits /\ d.exits[e].ord # 0
  BY DEF DbOK, Refers
<1>6. \A e \in DOMAIN d.exits :
           d.exits[e].lot = n /\ l.st = "CLOSED" /\ Resting(d.exits[e]) => e \in d.doomed \/ Rests(d, e)
  BY <1>4 DEF Rests, Resting
<1>8. DbOK([lots |-> [d.lots EXCEPT ![n] = l], exits |-> d.exits, doomed |-> d.doomed])
  BY <1>4, <1>5, <1>6, LedgerRows, LotChanges
<1>9. [d EXCEPT !.lots[n] = l] = [lots |-> [d.lots EXCEPT ![n] = l], exits |-> d.exits, doomed |-> d.doomed]
  BY LotPut
<1>10. [d EXCEPT !.lots[n] = SettleLot(@, r)] = [d EXCEPT !.lots[n] = l]
  BY <1>3, Zenon
<1>11. SameTags(d, [lots |-> [d.lots EXCEPT ![n] = l], exits |-> d.exits, doomed |-> d.doomed])
  BY <1>4, LedgerRows DEF SameTags
<1> QED BY <1>8, <1>9, <1>10, <1>11, Zenon

\* A row of the book books the fill of an exit, and takes it from the lot, or
\* writes the exit off.
Booked(d, e, y) == [lots |-> d.lots, exits |-> [d.exits EXCEPT ![e] = y], doomed |-> d.doomed]
LEMMA SettleExitIs ==
  ASSUME OrdersOK, NEW r \in BookRows, AtBroker(r.ord), NEW d, DbOK(d), NEW e \in DOMAIN d.exits
  PROVE  \/ /\ Fills(d.exits[e], r)
            /\ \E y \in ExitSet :
                 /\ y.lot = d.exits[e].lot /\ y.ord = d.exits[e].ord /\ y.tag = d.exits[e].tag /\ y.st = "FILLED"
                 /\ y.filled = r.done /\ y.took = Took(d.lots[y.lot], r.done) /\ y.took <= d.lots[y.lot].open
                 /\ y.took # 0 \/ d.lots[y.lot].st \notin Unfilled
                 /\ SettleExit(d, e, r) = Reduce(Booked(d, e, y), y.lot, y.took)
         \/ /\ ~Fills(d.exits[e], r)
            /\ \E y \in ExitSet :
                 /\ y.lot = d.exits[e].lot /\ y.ord = d.exits[e].ord /\ y.tag = d.exits[e].tag /\ y.st = "CANCELLED"
                 /\ y.filled = d.exits[e].filled /\ y.took = d.exits[e].took
                 /\ SettleExit(d, e, r) = Booked(d, e, y)
         \/ ~Fills(d.exits[e], r) /\ SettleExit(d, e, r) = d
<1> DEFINE x == d.exits[e]
<1> DEFINE n == x.lot
<1> DEFINE took == Took(d.lots[n], r.done)
<1>1. x \in ExitSet /\ n \in DOMAIN d.lots /\ d.lots[n] \in LotRows /\ r.done \in Nat
  BY LedgerRows, TakenRow DEF DbOK, Refers
<1>2. PICK L, X, M : L = d.lots /\ X = d.exits /\ M = d.doomed
  OBVIOUS
<1>3. d = [lots |-> L, exits |-> X, doomed |-> M]
  BY <1>2, LedgerRows
<1>4. CASE Fills(x, r)
  <2>1. /\ took \in Nat /\ took <= d.lots[n].open /\ r.done > 0
        /\ took # 0 \/ d.lots[n].st \notin Unfilled
    BY <1>1, <1>4 DEF Took, Fills, LotRows, LotSet, Unfilled
  <2> HIDE DEF took
  <2>2. PICK y : y = [x EXCEPT !.st = "FILLED", !.filled = r.done, !.took = took]
    OBVIOUS
  <2>3. y \in ExitSet /\ y.lot = x.lot /\ y.ord = x.ord /\ y.tag = x.tag /\ y.st = "FILLED" /\ y.filled = r.done /\ y.took = took
    <3>1. PICK z \in ExitSet : z = x
      BY <1>1
    <3>2. y = [z EXCEPT !.st = "FILLED", !.filled = r.done, !.took = took]
      BY <2>2, <3>1
    <3>3. y \in ExitSet /\ y.lot = z.lot /\ y.ord = z.ord /\ y.tag = z.tag /\ y.st = "FILLED" /\ y.filled = r.done /\ y.took = took
      BY <1>1, <2>1, <3>2 DEF ExitSet
    <3> QED BY <3>1, <3>3
  <2>4. PICK c : c = Booked(d, e, y)
    OBVIOUS
  <2>7. [d EXCEPT !.exits[e].st = "FILLED", !.exits[e].filled = r.done, !.exits[e].took = took] = c
    <3>1. PICK X1, d1 : X1 = [X EXCEPT ![e].st = "FILLED"] /\ d1 = [d EXCEPT !.exits[e].st = "FILLED"]
      OBVIOUS
    <3>2. d1 = [lots |-> L, exits |-> X1, doomed |-> M]
      BY <1>3, <3>1
    <3>3. PICK X2, d2 : X2 = [X1 EXCEPT ![e].filled = r.done] /\ d2 = [d1 EXCEPT !.exits[e].filled = r.done]
      OBVIOUS
    <3>4. d2 = [lots |-> L, exits |-> X2, doomed |-> M]
      BY <3>2, <3>3
    <3>11. PICK X3, d3 : X3 = [X2 EXCEPT ![e].took = took] /\ d3 = [d2 EXCEPT !.exits[e].took = took]
      OBVIOUS
    <3>5. d3 = [lots |-> L, exits |-> X3, doomed |-> M]
      BY <3>4, <3>11
    <3>6. X3 = [X EXCEPT ![e] = y]
      <4>1. X \in Seq(ExitSet) /\ e \in DOMAIN X /\ X[e] = x
        BY <1>2, LedgerRows
      <4>2. X3 = [X EXCEPT ![e].st = "FILLED", ![e].filled = r.done, ![e].took = took]
        BY <3>1, <3>3, <3>11, Zenon
      <4>3. y = [X[e] EXCEPT !.st = "FILLED", !.filled = r.done, !.took = took]
        BY <2>2, <4>1
      <4> QED BY <4>1, <4>2, <4>3
    <3>7. d3 = [d EXCEPT !.exits[e].st = "FILLED", !.exits[e].filled = r.done, !.exits[e].took = took]
      BY <3>1, <3>3, <3>11, Zenon
    <3>8. c = [lots |-> L, exits |-> [X EXCEPT ![e] = y], doomed |-> M]
      BY <1>2, <2>4, Zenon DEF Booked
    <3> QED BY <3>5, <3>6, <3>7, <3>8, Zenon
  <2>8. SettleExit(d, e, r) = Reduce(c, n, took)
    <3>1. SettleExit(d, e, r)
            = Reduce([d EXCEPT !.exits[e].st = "FILLED", !.exits[e].filled = r.done, !.exits[e].took = took], n, took)
      BY <1>4 DEF SettleExit, took
    <3> QED BY <2>7, <3>1
  <2> QED BY <1>4, <2>1, <2>3, <2>4, <2>8 DEF took
<1>5. CASE ~Fills(x, r) /\ r.st = "CANCELLED" /\ x.st = "PENDING"
  <2>2. PICK y : y = [x EXCEPT !.st = "CANCELLED"]
    OBVIOUS
  <2>3. /\ y \in ExitSet /\ y.lot = x.lot /\ y.ord = x.ord /\ y.tag = x.tag /\ y.st = "CANCELLED"
        /\ y.filled = x.filled /\ y.took = x.took
    BY <1>1, <2>2 DEF ExitSet
  <2>5. SettleExit(d, e, r) = [d EXCEPT !.exits[e].st = "CANCELLED"]
    BY <1>5 DEF SettleExit
  <2>6. [d EXCEPT !.exits[e].st = "CANCELLED"] = [lots |-> L, exits |-> [X EXCEPT ![e].st = "CANCELLED"], doomed |-> M]
    BY <1>3
  <2>7. [X EXCEPT ![e].st = "CANCELLED"] = [X EXCEPT ![e] = y]
    BY <1>2, <2>2, LedgerRows
  <2>8. SettleExit(d, e, r) = Booked(d, e, y)
    BY <1>2, <2>5, <2>6, <2>7 DEF Booked
  <2> QED BY <1>5, <2>3, <2>8
<1>6. CASE ~Fills(x, r) /\ ~(r.st = "CANCELLED" /\ x.st = "PENDING")
  BY <1>6 DEF SettleExit
<1> QED BY <1>4, <1>5, <1>6

LEMMA SettleExitKeeps ==
  ASSUME OrdersOK, NEW r \in BookRows, AtBroker(r.ord), NEW d, DbOK(d), NEW e \in DOMAIN d.exits,
         d.exits[e].st # "deleted"
  PROVE  DbOK(SettleExit(d, e, r)) /\ SameTags(d, SettleExit(d, e, r))
<1>1. d.exits[e].lot \in DOMAIN d.lots /\ ~OnItsWay(d.lots[d.exits[e].lot])
  BY DEF DbOK, Refers, Waiting
<1>2. ASSUME NEW y \in ExitSet, y.lot = d.exits[e].lot, y.ord = d.exits[e].ord, y.st \in {"FILLED", "CANCELLED"}
      PROVE  DbOK(Booked(d, e, y)) /\ Booked(d, e, y).lots = d.lots /\ SameTags(d, Booked(d, e, y))
  BY <1>2, ExitChanges DEF Booked, SameTags
<1>3. ASSUME Fills(d.exits[e], r),
             NEW y \in ExitSet, y.lot = d.exits[e].lot, y.ord = d.exits[e].ord, y.st = "FILLED",
             y.took <= d.lots[y.lot].open, y.took # 0 \/ d.lots[y.lot].st \notin Unfilled
      PROVE  DbOK(Reduce(Booked(d, e, y), y.lot, y.took)) /\ SameTags(d, Reduce(Booked(d, e, y), y.lot, y.took))
  <2>1. y.took \in Nat
    BY DEF ExitSet
  <2>2. PICK c : c = Booked(d, e, y)
    OBVIOUS
  <2>3. DbOK(c) /\ c.lots = d.lots
    BY <1>2, <1>3, <2>2
  <2>4. DbOK(Reduce(c, y.lot, y.took)) /\ SameTags(c, Reduce(c, y.lot, y.took))
    BY <1>1, <1>3, <2>1, <2>3, ReduceKeeps
  <2> QED BY <2>2, <2>3, <2>4 DEF SameTags
<1> QED BY <1>2, <1>3, SettleExitIs DEF SameTags

-----------------------------------------------------------------------------
(* A pass                                                                  *)

\* What holds of the first value, and of each set of places once its last step
\* is taken, holds of them all.
LEMMA FoldGoes ==
  ASSUME NEW S, IsFiniteSet(S), NEW G, NEW g, g[{}] \in G[{}], NEW pick,
         \A s \in SUBSET S : s # {} => pick[s] \in s /\ (g[s \ {pick[s]}] \in G[s \ {pick[s]}] => g[s] \in G[s])
  PROVE  g[S] \in G[S]
<1>1. PICK k : k = [s \in SUBSET S |-> IF g[s] \in G[s] THEN 1 ELSE 0]
  OBVIOUS
<1>2. PICK Good : Good = {1}
  OBVIOUS
<1>3. k[{}] \in Good
  BY <1>1, <1>2
<1>4. \A s \in SUBSET S : s # {} => pick[s] \in s /\ (k[s \ {pick[s]}] \in Good => k[s] \in Good)
  <2> SUFFICES ASSUME NEW s \in SUBSET S, s # {}, k[s \ {pick[s]}] = 1 PROVE k[s] = 1
    BY <1>2
  <2>1. s \ {pick[s]} \in SUBSET S
    OBVIOUS
  <2> QED BY <1>1, <2>1
<1>5. \A s \in SUBSET S : k[s] \in Good
  BY <1>3, <1>4, FoldStays
<1>6. S \in SUBSET S /\ k[S] = 1
  BY <1>2, <1>5
<1> QED BY <1>1, <1>6

\* The largest of some numbers up to k is one of them.
LEMMA MaxIsIn ==
  ASSUME NEW S, S # {}, NEW k \in Nat, S \subseteq 1..k
  PROVE  Max(S) \in S
<1>1. IsFiniteSet(S)
  <2>1. IsFiniteSet(1..k)
    BY FS_Interval
  <2> QED BY <2>1, FS_Subset
<1>2. \E x \in S : \A y \in S : x >= y
  <2>1. \A x \in S : x \in Int
    OBVIOUS
  <2> QED BY <1>1, <2>1, MaxIsThere
<1> QED BY <1>2 DEF Max

\* Steps that keep the rows keep them together.
LEMMA TagsChain == ASSUME NEW b, NEW c, NEW d, SameTags(b, c), SameTags(c, d) PROVE SameTags(b, d)
BY DEF SameTags

\* The first loop of a pass, for one row of the book.
LEMMA MatchedKeeps ==
  ASSUME OrdersOK, NEW r \in BookRows, AtBroker(r.ord), NEW d0, DbOK(d0), NEW d, DbOK(d), SameTags(d0, d)
  PROVE  DbOK(Matched(d0, d, r)) /\ SameTags(d0, Matched(d0, d, r))
<1> DEFINE external == {n \in WithOrder(d0.lots, r.ord) : d0.lots[n].ext /\ d0.lots[n].st \in Unfilled}
<1> DEFINE tagged == WithTag(d.lots, r)
<1> DEFINE mine == {n \in WithOrder(d.lots, r.ord) : ~d.lots[n].ext}
<1> DEFINE leg == WithTag(d.exits, r)
<1> DEFINE legs == {e \in WithOrder(d.exits, r.ord) : d.exits[e].st # "deleted"}
<1>0. r.ord # 0 /\ orders[r.ord].st # "sent"
  BY TakenRow
<1>1. ASSUME NEW n \in DOMAIN d.lots, ~OnItsWay(d.lots[n])
      PROVE  /\ DbOK([d EXCEPT !.lots[n] = SettleLot(@, r)])
             /\ SameTags(d0, [d EXCEPT !.lots[n] = SettleLot(@, r)])
  BY <1>1, SettleKeeps, TagsChain
<1>2. ASSUME NEW e \in DOMAIN d.exits, d.exits[e].st # "deleted"
      PROVE  DbOK(SettleExit(d, e, r)) /\ SameTags(d0, SettleExit(d, e, r))
  BY <1>2, SettleExitKeeps, TagsChain
<1>3. CASE external # {}
  <2>1. Max(external) \in external
    <3>1. external \subseteq 1..Len(d0.lots) /\ Len(d0.lots) \in Nat
      BY LedgerRows DEF WithOrder
    <3> QED BY <1>3, <3>1, MaxIsIn
  <2>2. /\ Max(external) \in DOMAIN d.lots /\ ~OnItsWay(d0.lots[Max(external)])
        /\ d0.lots[Max(external)].tag = d.lots[Max(external)].tag
    BY <1>0, <2>1 DEF WithOrder, SameTags, DbOK, Waiting
  <2>3. Matched(d0, d, r) = [d EXCEPT !.lots[Max(external)] = SettleLot(@, r)]
    BY <1>3 DEF Matched
  <2> HIDE DEF external
  <2> QED BY <1>1, <2>2, <2>3 DEF OnItsWay
<1>4. CASE external = {} /\ tagged # {}
  <2>1. Max(tagged) \in tagged
    <3>1. tagged \subseteq 1..Len(d.lots) /\ Len(d.lots) \in Nat
      BY LedgerRows DEF WithTag
    <3> QED BY <1>4, <3>1, MaxIsIn
  <2>2. Max(tagged) \in DOMAIN d.lots /\ ~OnItsWay(d.lots[Max(tagged)])
    BY <1>0, <2>1 DEF WithTag, OnItsWay
  <2>3. Matched(d0, d, r) = [d EXCEPT !.lots[Max(tagged)] = SettleLot(@, r)]
    BY <1>4 DEF Matched
  <2> HIDE DEF tagged
  <2> QED BY <1>1, <2>2, <2>3
<1>5. CASE external = {} /\ tagged = {} /\ mine # {}
  <2>1. Max(mine) \in mine
    <3>1. mine \subseteq 1..Len(d.lots) /\ Len(d.lots) \in Nat
      BY LedgerRows DEF WithOrder
    <3> QED BY <1>5, <3>1, MaxIsIn
  <2>2. Max(mine) \in DOMAIN d.lots /\ ~OnItsWay(d.lots[Max(mine)])
    BY <1>0, <2>1 DEF WithOrder, DbOK, Waiting
  <2>3. Matched(d0, d, r) = [d EXCEPT !.lots[Max(mine)] = SettleLot(@, r)]
    BY <1>5 DEF Matched
  <2> HIDE DEF mine
  <2> QED BY <1>1, <2>2, <2>3
<1>6. CASE external = {} /\ tagged = {} /\ mine = {} /\ leg # {}
  <2>1. Max(leg) \in leg
    <3>1. leg \subseteq 1..Len(d.exits) /\ Len(d.exits) \in Nat
      BY LedgerRows DEF WithTag
    <3> QED BY <1>6, <3>1, MaxIsIn
  <2>2. Max(leg) \in DOMAIN d.exits /\ d.exits[Max(leg)].st # "deleted"
    BY <2>1 DEF WithTag
  <2>3. Matched(d0, d, r) = SettleExit(d, Max(leg), r)
    BY <1>6 DEF Matched
  <2> HIDE DEF leg
  <2> QED BY <1>2, <2>2, <2>3
<1>7. CASE external = {} /\ tagged = {} /\ mine = {} /\ leg = {} /\ legs # {}
  <2>1. Max(legs) \in legs
    <3>1. legs \subseteq 1..Len(d.exits) /\ Len(d.exits) \in Nat
      BY LedgerRows DEF WithOrder
    <3> QED BY <1>7, <3>1, MaxIsIn
  <2>2. Max(legs) \in DOMAIN d.exits /\ d.exits[Max(legs)].st # "deleted"
    BY <2>1 DEF WithOrder
  <2>3. Matched(d0, d, r) = SettleExit(d, Max(legs), r)
    BY <1>7 DEF Matched
  <2> HIDE DEF legs
  <2> QED BY <1>2, <2>2, <2>3
<1>8. CASE external = {} /\ tagged = {} /\ mine = {} /\ leg = {} /\ legs = {}
  BY <1>8 DEF Matched
<1> QED BY <1>3, <1>4, <1>5, <1>6, <1>7, <1>8

\* A lot that a pass adds is open or rests, and belongs to no order of ours.
LEMMA FreshLot ==
  ASSUME OrdersOK, NEW r \in BookRows, AtBroker(r.ord), NEW q \in Nat \ {0}, NEW st \in {"PENDING", "OPEN"}
  PROVE  /\ NewLot(SideOf(r), q, st, r.ord, TRUE, 2 * r.ord) \in LotRows
         /\ NewLot(SideOf(r), q, st, r.ord, TRUE, 2 * r.ord).tag = 0
         /\ NewLot(SideOf(r), q, st, r.ord, TRUE, 2 * r.ord).st = st
<1>1. SideOf(r) \in {1, -1} /\ r.ord \in Nat /\ 2 * r.ord \in Nat
  BY TakenRow
<1> QED BY <1>1 DEF NewLot, LotRows, LotSet, Unfilled

\* A row appended to a ledger, as the EXCEPT of the model.
LEMMA LotPutLast ==
  ASSUME NEW d, DbOK(d), NEW l
  PROVE  [d EXCEPT !.lots = Append(@, l)] = [lots |-> Append(d.lots, l), exits |-> d.exits, doomed |-> d.doomed]
<1>1. PICK L, X, M : L = d.lots /\ X = d.exits /\ M = d.doomed
  OBVIOUS
<1>2. d = [lots |-> L, exits |-> X, doomed |-> M]
  BY <1>1, LedgerRows
<1>3. [d EXCEPT !.lots = Append(@, l)] = [lots |-> Append(L, l), exits |-> X, doomed |-> M]
  BY <1>2
<1> QED BY <1>1, <1>3, Zenon

LEMMA ExitPutLast ==
  ASSUME NEW d, DbOK(d), NEW x
  PROVE  [d EXCEPT !.exits = Append(@, x)] = [lots |-> d.lots, exits |-> Append(d.exits, x), doomed |-> d.doomed]
<1>1. PICK L, X, M : L = d.lots /\ X = d.exits /\ M = d.doomed
  OBVIOUS
<1>2. d = [lots |-> L, exits |-> X, doomed |-> M]
  BY <1>1, LedgerRows
<1>3. [d EXCEPT !.exits = Append(@, x)] = [lots |-> L, exits |-> Append(X, x), doomed |-> M]
  BY <1>2
<1> QED BY <1>1, <1>3, Zenon

LEMMA AppendLotKeeps ==
  ASSUME NEW d, DbOK(d), NEW l \in LotRows, l.tag = 0, l.st # "CLOSED"
  PROVE  DbOK([d EXCEPT !.lots = Append(@, l)])
<1>1. DbOK([lots |-> Append(d.lots, l), exits |-> d.exits, doomed |-> d.doomed])
  BY LotAdded
<1> QED BY <1>1, LotPutLast

\* The second loop, for one row.
LEMMA ImportedKeeps ==
  ASSUME OrdersOK, NEW r \in BookRows, AtBroker(r.ord), NEW d0, NEW d, DbOK(d)
  PROVE  DbOK(Imported(d0, d, r))
<1>1. orders[r.ord].qty \in Nat \ {0}
  BY TakenRow
<1>2. PICK l : l = NewLot(SideOf(r), orders[r.ord].qty, "PENDING", r.ord, TRUE, 2 * r.ord)
  OBVIOUS
<1>3. l \in LotRows /\ l.tag = 0 /\ l.st = "PENDING"
  BY <1>1, <1>2, FreshLot
<1>4. Imported(d0, d, r) \in {d, [d EXCEPT !.lots = Append(@, l)]}
  BY <1>2 DEF Imported
<1> QED BY <1>3, <1>4, AppendLotKeeps

\* Lots have an order of age, and the youngest of some is there.
LEMMA YoungestIsThere ==
  ASSUME NEW d, DbOK(d), NEW known \in Nat, NEW T, T \subseteq DOMAIN d.lots, T # {}
  PROVE  (CHOOSE n \in T : \A m \in T \ {n} : Older(d, known, m, n)) \in T
<1> DEFINE age == [n \in T |-> Age(d, known, n)]
<1>1. IsFiniteSet(T) /\ T \subseteq Nat
  BY LedgerRows, FS_Subset
<1>2. \A n \in T : age[n] \in Int
  <2> SUFFICES ASSUME NEW n \in T PROVE Age(d, known, n) \in Int
    OBVIOUS
  <2>1. d.lots[n].at \in Nat /\ n \in Nat /\ MaxOrders \in Nat
    <3>1. d.lots[n] \in LotRows
      BY LedgerRows
    <3> QED BY <1>1, <3>1, LedgerAssumption DEF LotRows, LotSet
  <2> QED BY <2>1 DEF Age
<1>3. PICK x \in T : \A y \in T : age[x] >= age[y]
  <2> HIDE DEF age
  <2> QED BY <1>1, <1>2, LargestIsThere
<1> DEFINE E == {y \in T : age[y] = age[x]}
<1>4. PICK n \in E : \A m \in E : n >= m
  <2>1. x \in E /\ E \subseteq T /\ \A y \in E : y \in Int
    BY <1>1
  <2>2. IsFiniteSet(E)
    BY <1>1, <2>1, FS_Subset
  <2> HIDE DEF E
  <2> QED BY <2>1, <2>2, MaxIsThere
<1>5. \A m \in T \ {n} : Older(d, known, m, n)
  <2> SUFFICES ASSUME NEW m \in T \ {n} PROVE Older(d, known, m, n)
    OBVIOUS
  <2>1. age[n] = age[x] /\ age[m] \in Int /\ age[n] \in Int /\ age[n] >= age[m] /\ m \in Nat /\ n \in Nat
    BY <1>1, <1>2, <1>3
  <2>2. age[m] = age[n] => n >= m
    BY <1>4, <2>1
  <2>3. age[m] = Age(d, known, m) /\ age[n] = Age(d, known, n)
    OBVIOUS
  <2> HIDE DEF age
  <2> QED BY <2>1, <2>2, <2>3 DEF Older
<1> QED BY <1>4, <1>5

\* One lot is closed by a fill that no row is about, and gets an exit for it.
Filling(d0) == {a \in [left : Nat, d : DbRows] : DbOK(a.d) /\ SameTags(d0, a.d)}
FillExit(r, n, q) == [lot |-> n, ord |-> r.ord, tag |-> 0, qty |-> q, filled |-> q, took |-> q, st |-> "FILLED"]
Takes(r, n, a, q, c) ==
  /\ q \in Nat /\ q = IF a.d.lots[n].open < a.left THEN a.d.lots[n].open ELSE a.left
  /\ q <= a.d.lots[n].open /\ q <= a.left /\ (q # 0 \/ a.d.lots[n].st \notin Unfilled)
  /\ c = Reduce(a.d, n, q) /\ DbOK(c) /\ SameTags(a.d, c) /\ FillExit(r, n, q) \in ExitSet
  /\ DbOK([lots |-> c.lots, exits |-> Append(c.exits, FillExit(r, n, q)), doomed |-> c.doomed])
  /\ ByFill(r, n, a) = [left |-> a.left - q,
       d |-> [lots |-> c.lots, exits |-> Append(c.exits, FillExit(r, n, q)), doomed |-> c.doomed]]
LEMMA ByFillIs ==
  ASSUME OrdersOK, NEW r \in BookRows, AtBroker(r.ord), NEW d0, DbOK(d0), NEW n \in OpenLots(d0), NEW a \in Filling(d0)
  PROVE  \/ (a.left = 0 \/ a.d.lots[n].side = SideOf(r)) /\ ByFill(r, n, a) = a
         \/ a.left # 0 /\ a.d.lots[n].side # SideOf(r) /\ \E q, c : Takes(r, n, a, q, c)
<1> DEFINE q == IF a.d.lots[n].open < a.left THEN a.d.lots[n].open ELSE a.left
<1>1. /\ DbOK(a.d) /\ SameTags(d0, a.d) /\ a.left \in Nat /\ n \in DOMAIN a.d.lots /\ n \in DOMAIN d0.lots
      /\ a.d.lots[n] \in LotRows /\ n \in Nat /\ a.d \in DbRows
  <2>1. DbOK(a.d) /\ SameTags(d0, a.d) /\ a.left \in Nat /\ n \in DOMAIN d0.lots /\ a.d \in DbRows
    BY DEF Filling, OpenLots
  <2> QED BY <2>1, LedgerRows DEF SameTags
<1>2. ~OnItsWay(a.d.lots[n])
  <2>1. d0.lots[n].st = "OPEN"
    BY DEF OpenLots
  <2> QED BY <1>1, <2>1 DEF DbOK, Waiting, OnItsWay, SameTags
<1>3. CASE a.left = 0 \/ a.d.lots[n].side = SideOf(r)
  BY <1>3 DEF ByFill
<1>4. CASE ~(a.left = 0 \/ a.d.lots[n].side = SideOf(r))
  <2>1. q \in Nat /\ q <= a.d.lots[n].open /\ q <= a.left /\ (q # 0 \/ a.d.lots[n].st \notin Unfilled)
    BY <1>1, <1>4 DEF LotRows, LotSet, Unfilled
  <2> HIDE DEF q
  <2>2. PICK c : c = Reduce(a.d, n, q)
    OBVIOUS
  <2>3. DbOK(c) /\ SameTags(a.d, c)
    BY <1>1, <1>2, <2>1, <2>2, ReduceKeeps
  <2>4. PICK x : x = FillExit(r, n, q)
    OBVIOUS
  <2>5. /\ x \in ExitSet /\ x.lot \in DOMAIN c.lots /\ ~OnItsWay(c.lots[x.lot]) /\ AtBroker(x.ord)
        /\ x.st # "PENDING"
    BY <1>1, <1>2, <2>1, <2>3, <2>4, TakenRow DEF ExitSet, SameTags, OnItsWay, FillExit
  <2>6. DbOK([lots |-> c.lots, exits |-> Append(c.exits, x), doomed |-> c.doomed])
    BY <2>3, <2>5, ExitAdded
  <2>7. PICK e : e = [c EXCEPT !.exits = Append(@, x)]
    OBVIOUS
  <2>8. e = [lots |-> c.lots, exits |-> Append(c.exits, x), doomed |-> c.doomed]
    BY <2>3, <2>7, ExitPutLast
  <2>9. ByFill(r, n, a) = [left |-> a.left - q, d |-> e]
    BY <1>4, <2>2, <2>4, <2>7 DEF ByFill, q, FillExit
  <2>10. a.left # 0 /\ a.d.lots[n].side # SideOf(r)
    BY <1>4
  <2>11. q = IF a.d.lots[n].open < a.left THEN a.d.lots[n].open ELSE a.left
    BY DEF q
  <2>12. Takes(r, n, a, q, c)
    BY <2>1, <2>2, <2>3, <2>4, <2>5, <2>6, <2>8, <2>9, <2>11 DEF Takes
  <2> QED BY <2>10, <2>12
<1> QED BY <1>3, <1>4

LEMMA ByFillKeeps ==
  ASSUME OrdersOK, NEW r \in BookRows, AtBroker(r.ord), NEW d0, DbOK(d0), NEW n \in OpenLots(d0), NEW a \in Filling(d0)
  PROVE  ByFill(r, n, a) \in Filling(d0)
<1>1. DbOK(a.d) /\ SameTags(d0, a.d) /\ a.left \in Nat
  BY DEF Filling
<1>2. CASE ByFill(r, n, a) = a
  BY <1>2
<1>3. CASE ByFill(r, n, a) # a
  <2>0. PICK q, c : Takes(r, n, a, q, c)
    BY <1>3, ByFillIs
  <2>1. /\ q \in Nat /\ q <= a.left /\ SameTags(a.d, c)
        /\ DbOK([lots |-> c.lots, exits |-> Append(c.exits, FillExit(r, n, q)), doomed |-> c.doomed])
        /\ ByFill(r, n, a) = [left |-> a.left - q,
             d |-> [lots |-> c.lots, exits |-> Append(c.exits, FillExit(r, n, q)), doomed |-> c.doomed]]
    BY <2>0 DEF Takes
  <2>2. PICK e : e = [lots |-> c.lots, exits |-> Append(c.exits, FillExit(r, n, q)), doomed |-> c.doomed]
    OBVIOUS
  <2>3. DbOK(e) /\ e \in DbRows /\ SameTags(d0, e)
    BY <1>1, <2>1, <2>2 DEF SameTags, DbOK
  <2>4. a.left - q \in Nat /\ ByFill(r, n, a) = [left |-> a.left - q, d |-> e]
    BY <1>1, <2>1, <2>2
  <2> QED BY <2>3, <2>4 DEF Filling
<1> QED BY <1>2, <1>3

\* The fill of an order that no row is about closes lots, oldest first.
LEMMA ClosedByFill ==
  ASSUME OrdersOK, NEW r \in BookRows, AtBroker(r.ord), NEW d, DbOK(d), NEW known \in Nat
  PROVE  /\ OldestFirst(LAMBDA n, acc : ByFill(r, n, acc), [left |-> r.done, d |-> d], OpenLots(d), d, known)
              \in Filling(d)
         /\ \A G : ( /\ [left |-> r.done, d |-> d] \in G[{}]
                    /\ \A s \in SUBSET OpenLots(d) : \A x \in OpenLots(d) \ s, v \in Filling(d) :
                       v \in G[s] => ByFill(r, x, v) \in G[s \cup {x}] )
                  => OldestFirst(LAMBDA n, acc : ByFill(r, n, acc), [left |-> r.done, d |-> d], OpenLots(d), d, known)
                       \in G[OpenLots(d)]
<1> DEFINE S == OpenLots(d)
<1> DEFINE base == [left |-> r.done, d |-> d]
<1> DEFINE c(T) == CHOOSE n \in T : \A m \in T \ {n} : Older(d, known, m, n)
<1> DEFINE Is(h) == h = [s \in SUBSET S |-> IF s = {} THEN base ELSE ByFill(r, c(s), h[s \ {c(s)}])]
<1> DEFINE iter == CHOOSE h : Is(h)
<1> DEFINE pick == [s \in SUBSET S |-> c(s)]
<1> DEFINE step == [xv \in S \X Filling(d) |-> ByFill(r, xv[1], xv[2])]
<1>1. OldestFirst(LAMBDA n, acc : ByFill(r, n, acc), base, S, d, known) = iter[S]
  BY DEF OldestFirst, MapThenFoldSet
<1>2. IsFiniteSet(S) /\ S \subseteq DOMAIN d.lots
  BY LedgerRows, FS_Subset DEF OpenLots
<1>3. base \in Filling(d)
  BY TakenRow DEF Filling, SameTags, DbOK
<1>4. \A s \in SUBSET S : s # {} => c(s) \in s /\ pick[s] = c(s)
  <2> SUFFICES ASSUME NEW s \in SUBSET S, s # {} PROVE c(s) \in s
    OBVIOUS
  <2>1. s \subseteq DOMAIN d.lots
    BY <1>2
  <2> QED BY <2>1, YoungestIsThere
<1>5. \A x \in S, v \in Filling(d) : step[<<x, v>>] = ByFill(r, x, v) /\ step[<<x, v>>] \in Filling(d)
  BY ByFillKeeps
<1> HIDE DEF S, base, c, pick, step
<1>6. PICK h : FoldsUp(h, pick, step, base, S) /\ \A s \in SUBSET S : h[s] \in Filling(d)
  <2>1. PICK G : G = Filling(d)
    OBVIOUS
  <2>2. base \in G /\ (\A s \in SUBSET S : s # {} => pick[s] \in s) /\ \A x \in S, v \in G : step[<<x, v>>] \in G
    BY <1>3, <1>4, <1>5, <2>1
  <2>3. \E h : FoldsUp(h, pick, step, base, S) /\ \A s \in SUBSET S : h[s] \in G
    BY <1>2, <2>2, GoodFold
  <2> QED BY <2>1, <2>3
<1>7. Is(h)
  <2>1. \A s \in SUBSET S : h[s] = IF s = {} THEN base ELSE ByFill(r, c(s), h[s \ {c(s)}])
    <3> SUFFICES ASSUME NEW s \in SUBSET S, s # {} PROVE h[s] = ByFill(r, c(s), h[s \ {c(s)}])
      BY <1>6 DEF FoldsUp
    <3>1. h[s] = step[<<pick[s], h[s \ {pick[s]}]>>]
      BY <1>6 DEF FoldsUp
    <3>2. c(s) \in S /\ s \ {c(s)} \in SUBSET S /\ pick[s] = c(s)
      BY <1>4
    <3> QED BY <1>5, <1>6, <3>1, <3>2
  <2>2. h = [s \in SUBSET S |-> h[s]]
    BY <1>6 DEF FoldsUp
  <2> QED BY <2>1, <2>2
<1>8. Is(iter)
  BY <1>7
<1>9. iter[{}] = base /\ \A s \in SUBSET S : s # {} => iter[s] = ByFill(r, c(s), iter[s \ {c(s)}])
  BY <1>8
<1> HIDE DEF iter
<1>10. \A s \in SUBSET S : iter[s] \in Filling(d)
  <2>1. \A s \in SUBSET S : s # {} => pick[s] \in s /\ (iter[s \ {pick[s]}] \in Filling(d) => iter[s] \in Filling(d))
    <3> SUFFICES ASSUME NEW s \in SUBSET S, s # {}, iter[s \ {c(s)}] \in Filling(d) PROVE iter[s] \in Filling(d)
      BY <1>4
    <3>1. c(s) \in S /\ iter[s] = ByFill(r, c(s), iter[s \ {c(s)}])
      BY <1>4, <1>9
    <3> QED BY <1>5, <3>1
  <2> QED BY <1>2, <1>3, <1>9, <2>1, FoldStays
<1>11. ASSUME NEW G, base \in G[{}],
              \A s \in SUBSET S : \A x \in S \ s, v \in Filling(d) : v \in G[s] => ByFill(r, x, v) \in G[s \cup {x}]
       PROVE  iter[S] \in G[S]
  <2>1. \A s \in SUBSET S : s # {} => pick[s] \in s /\ (iter[s \ {pick[s]}] \in G[s \ {pick[s]}] => iter[s] \in G[s])
    <3> SUFFICES ASSUME NEW s \in SUBSET S, s # {}, iter[s \ {c(s)}] \in G[s \ {c(s)}] PROVE iter[s] \in G[s]
      BY <1>4
    <3>1. PICK x, t : x = c(s) /\ t = s \ {x}
      OBVIOUS
    <3>2. x \in S \ t /\ t \in SUBSET S /\ t \cup {x} = s
      BY <1>4, <3>1
    <3>3. iter[s] = ByFill(r, x, iter[t]) /\ iter[t] \in Filling(d) /\ iter[t] \in G[t]
      BY <1>9, <1>10, <3>1, <3>2
    <3> QED BY <1>11, <3>2, <3>3
  <2> QED BY <1>2, <1>9, <1>11, <2>1, FoldGoes
<1> QED BY <1>1, <1>10, <1>11 DEF S, base

\* The third loop, for one row.
LEMMA UntaggedKeeps ==
  ASSUME OrdersOK, NEW r \in BookRows, AtBroker(r.ord), NEW d0, DbOK(d0), NEW d, DbOK(d)
  PROVE  DbOK(Untagged(d0, d, r))
<1>1. PICK a : a = OldestFirst(LAMBDA n, acc : ByFill(r, n, acc), [left |-> r.done, d |-> d], OpenLots(d), d, Len(d0.lots))
  OBVIOUS
<1>2. a \in Filling(d)
  <2>1. Len(d0.lots) \in Nat
    BY LedgerRows
  <2> QED BY <1>1, <2>1, ClosedByFill
<1>3. DbOK(a.d) /\ a.left \in Nat
  BY <1>2 DEF Filling
<1>4. PICK l : l = NewLot(SideOf(r), a.left, "OPEN", r.ord, TRUE, 2 * r.ord)
  OBVIOUS
<1>5. a.left # 0 => l \in LotRows /\ l.tag = 0 /\ l.st = "OPEN"
  BY <1>3, <1>4, FreshLot
<1>6. \/ Untagged(d0, d, r) \in {d, a.d}
      \/ a.left # 0 /\ Untagged(d0, d, r) = [a.d EXCEPT !.lots = Append(@, l)]
  BY <1>1, <1>4 DEF Untagged
<1> QED BY <1>3, <1>5, <1>6, AppendLotKeeps

\* Two lots on opposite sides net out.
Netting(d0) == {d \in DbRows : DbOK(d) /\ SameTags(d0, d)}
LEMMA NetOutKeeps ==
  ASSUME NEW d0, DbOK(d0), NEW a \in OpenLots(d0), NEW b \in OpenLots(d0), NEW d \in Netting(d0)
  PROVE  NetOut(a, b, d) \in Netting(d0)
<1> DEFINE q == IF d.lots[a].open < d.lots[b].open THEN d.lots[a].open ELSE d.lots[b].open
<1>1. /\ DbOK(d) /\ SameTags(d0, d) /\ a \in DOMAIN d.lots /\ b \in DOMAIN d.lots /\ a \in DOMAIN d0.lots /\ b \in DOMAIN d0.lots
      /\ d.lots[a] \in LotRows /\ d.lots[b] \in LotRows
  <2>1. DbOK(d) /\ SameTags(d0, d) /\ a \in DOMAIN d0.lots /\ b \in DOMAIN d0.lots
    BY DEF Netting, OpenLots
  <2> QED BY <2>1, LedgerRows DEF SameTags
<1>2. ~OnItsWay(d.lots[a]) /\ ~OnItsWay(d.lots[b])
  <2>1. d0.lots[a].st = "OPEN" /\ d0.lots[b].st = "OPEN"
    BY DEF OpenLots
  <2> QED BY <1>1, <2>1 DEF DbOK, Waiting, OnItsWay, SameTags
<1>3. CASE d.lots[a].side = d.lots[b].side \/ q = 0
  BY <1>3 DEF NetOut
<1>4. CASE ~(d.lots[a].side = d.lots[b].side \/ q = 0)
  <2>1. q \in Nat /\ q # 0 /\ q <= d.lots[a].open /\ q <= d.lots[b].open /\ a # b
    BY <1>1, <1>4 DEF LotRows, LotSet
  <2>2. NetOut(a, b, d) = Reduce(Reduce(d, a, q), b, q)
    BY <1>4 DEF NetOut
  <2> HIDE DEF q
  <2>3. PICK c : c = Reduce(d, a, q)
    OBVIOUS
  <2>4. DbOK(c) /\ SameTags(d, c) /\ c.lots[b] = d.lots[b]
    BY <1>1, <1>2, <2>1, <2>3, ReduceKeeps
  <2>5. b \in DOMAIN c.lots /\ ~OnItsWay(c.lots[b])
    BY <1>1, <1>2, <2>4 DEF SameTags
  <2>6. DbOK(Reduce(c, b, q)) /\ SameTags(c, Reduce(c, b, q))
    BY <2>1, <2>4, <2>5, ReduceKeeps
  <2>7. SameTags(d0, Reduce(c, b, q))
    BY <1>1, <2>4, <2>6, TagsChain
  <2> QED BY <2>2, <2>3, <2>6, <2>7 DEF Netting, DbOK
<1> QED BY <1>3, <1>4

\* One lot is netted against those younger than it, oldest first.
LEMMA AgainstKeeps ==
  ASSUME NEW d0, DbOK(d0), NEW a \in OpenLots(d0), NEW d \in Netting(d0)
  PROVE  /\ Against(d0, a, d) \in Netting(d0)
         /\ \A G : d \in G /\ (\A x \in OpenLots(d0), v \in Netting(d0) : v \in G => NetOut(a, x, v) \in G)
                  => Against(d0, a, d) \in G
<1> DEFINE S == {b \in OpenLots(d0) : Older(d0, Len(d0.lots), a, b)}
<1> DEFINE base == d
<1> DEFINE c(T) == CHOOSE n \in T : \A m \in T \ {n} : Older(d0, Len(d0.lots), m, n)
<1> DEFINE Is(h) == h = [s \in SUBSET S |-> IF s = {} THEN base ELSE NetOut(a, c(s), h[s \ {c(s)}])]
<1> DEFINE iter == CHOOSE h : Is(h)
<1> DEFINE pick == [s \in SUBSET S |-> c(s)]
<1> DEFINE step == [xv \in S \X Netting(d0) |-> NetOut(a, xv[1], xv[2])]
<1>1. Against(d0, a, d) = iter[S]
  BY DEF Against, OldestFirst, MapThenFoldSet
<1>2. IsFiniteSet(S) /\ S \subseteq DOMAIN d0.lots
  <2>1. S \subseteq DOMAIN d0.lots
    BY DEF OpenLots
  <2> QED BY <2>1, LedgerRows, FS_Subset
<1>3. base \in Netting(d0)
  BY Zenon
<1>4. \A s \in SUBSET S : s # {} => c(s) \in s /\ pick[s] = c(s)
  <2> SUFFICES ASSUME NEW s \in SUBSET S, s # {} PROVE c(s) \in s
    OBVIOUS
  <2>1. s \subseteq DOMAIN d0.lots /\ Len(d0.lots) \in Nat
    BY <1>2, LedgerRows
  <2> QED BY <2>1, YoungestIsThere
<1>5. \A x \in S, v \in Netting(d0) : step[<<x, v>>] = NetOut(a, x, v) /\ step[<<x, v>>] \in Netting(d0)
  BY NetOutKeeps
<1> HIDE DEF S, base, c, pick, step
<1>6. PICK h : FoldsUp(h, pick, step, base, S) /\ \A s \in SUBSET S : h[s] \in Netting(d0)
  <2>1. PICK G : G = Netting(d0)
    OBVIOUS
  <2>2. base \in G /\ (\A s \in SUBSET S : s # {} => pick[s] \in s) /\ \A x \in S, v \in G : step[<<x, v>>] \in G
    BY <1>3, <1>4, <1>5, <2>1
  <2>3. \E h : FoldsUp(h, pick, step, base, S) /\ \A s \in SUBSET S : h[s] \in G
    <3>1. IsFiniteSet(S)
      BY <1>2
    <3> QED BY <2>2, <3>1, GoodFold
  <2> QED BY <2>1, <2>3
<1>7. Is(h)
  <2>1. \A s \in SUBSET S : h[s] = IF s = {} THEN base ELSE NetOut(a, c(s), h[s \ {c(s)}])
    <3> SUFFICES ASSUME NEW s \in SUBSET S, s # {} PROVE h[s] = NetOut(a, c(s), h[s \ {c(s)}])
      BY <1>6 DEF FoldsUp
    <3>1. h[s] = step[<<pick[s], h[s \ {pick[s]}]>>]
      BY <1>6 DEF FoldsUp
    <3>2. c(s) \in S /\ s \ {c(s)} \in SUBSET S /\ pick[s] = c(s)
      BY <1>4
    <3> QED BY <1>5, <1>6, <3>1, <3>2
  <2>2. h = [s \in SUBSET S |-> h[s]]
    BY <1>6 DEF FoldsUp
  <2> QED BY <2>1, <2>2
<1>8. Is(iter)
  BY <1>7
<1>9. iter[{}] = base /\ \A s \in SUBSET S : s # {} => iter[s] = NetOut(a, c(s), iter[s \ {c(s)}])
  BY <1>8
<1> HIDE DEF iter
<1>10. \A s \in SUBSET S : iter[s] \in Netting(d0)
  <2>1. \A s \in SUBSET S : s # {} => pick[s] \in s /\ (iter[s \ {pick[s]}] \in Netting(d0) => iter[s] \in Netting(d0))
    <3> SUFFICES ASSUME NEW s \in SUBSET S, s # {}, iter[s \ {c(s)}] \in Netting(d0) PROVE iter[s] \in Netting(d0)
      BY <1>4
    <3>1. c(s) \in S /\ iter[s] = NetOut(a, c(s), iter[s \ {c(s)}])
      BY <1>4, <1>9
    <3> QED BY <1>5, <3>1
  <2>2. PICK G : G = Netting(d0)
    OBVIOUS
  <2>3. \A s \in SUBSET S : iter[s] \in G
    BY <1>2, <1>3, <1>9, <2>1, <2>2, FoldStays
  <2> QED BY <2>2, <2>3
<1>11. ASSUME NEW G, base \in G, \A x \in S, v \in Netting(d0) : v \in G => NetOut(a, x, v) \in G
       PROVE  iter[S] \in G
  <2>1. \A s \in SUBSET S : s # {} => pick[s] \in s /\ (iter[s \ {pick[s]}] \in G => iter[s] \in G)
    <3> SUFFICES ASSUME NEW s \in SUBSET S, s # {}, iter[s \ {c(s)}] \in G PROVE iter[s] \in G
      BY <1>4
    <3>1. PICK x, t : x = c(s) /\ t = s \ {x}
      OBVIOUS
    <3>2. x \in S /\ t \in SUBSET S
      BY <1>4, <3>1
    <3>3. iter[s] = NetOut(a, x, iter[t]) /\ iter[t] \in Netting(d0) /\ iter[t] \in G
      BY <1>9, <1>10, <3>1, <3>2
    <3> QED BY <1>11, <3>2, <3>3
  <2> QED BY <1>2, <1>9, <1>11, <2>1, FoldStays
<1> QED BY <1>1, <1>10, <1>11 DEF S, base

\* Every open lot, oldest first.
LEMMA OffsetKeeps ==
  ASSUME NEW d0, DbOK(d0)
  PROVE  /\ Offset(d0) \in Netting(d0)
         /\ \A G : d0 \in G /\ (\A x \in OpenLots(d0), v \in Netting(d0) : v \in G => Against(d0, x, v) \in G)
                  => Offset(d0) \in G
<1> DEFINE S == OpenLots(d0)
<1> DEFINE base == d0
<1> DEFINE c(T) == CHOOSE n \in T : \A m \in T \ {n} : Older(d0, Len(d0.lots), m, n)
<1> DEFINE Is(h) == h = [s \in SUBSET S |-> IF s = {} THEN base ELSE Against(d0, c(s), h[s \ {c(s)}])]
<1> DEFINE iter == CHOOSE h : Is(h)
<1> DEFINE pick == [s \in SUBSET S |-> c(s)]
<1> DEFINE step == [xv \in S \X Netting(d0) |-> Against(d0, xv[1], xv[2])]
<1>1. Offset(d0) = iter[S]
  BY DEF Offset, OldestFirst, MapThenFoldSet
<1>2. IsFiniteSet(S) /\ S \subseteq DOMAIN d0.lots
  <2>1. S \subseteq DOMAIN d0.lots
    BY DEF OpenLots
  <2> QED BY <2>1, LedgerRows, FS_Subset
<1>3. base \in Netting(d0)
  BY DEF Netting, SameTags, DbOK
<1>4. \A s \in SUBSET S : s # {} => c(s) \in s /\ pick[s] = c(s)
  <2> SUFFICES ASSUME NEW s \in SUBSET S, s # {} PROVE c(s) \in s
    OBVIOUS
  <2>1. s \subseteq DOMAIN d0.lots /\ Len(d0.lots) \in Nat
    BY <1>2, LedgerRows
  <2> QED BY <2>1, YoungestIsThere
<1>5. \A x \in S, v \in Netting(d0) : step[<<x, v>>] = Against(d0, x, v) /\ step[<<x, v>>] \in Netting(d0)
  BY AgainstKeeps
<1> HIDE DEF S, base, c, pick, step
<1>6. PICK h : FoldsUp(h, pick, step, base, S) /\ \A s \in SUBSET S : h[s] \in Netting(d0)
  <2>1. PICK G : G = Netting(d0)
    OBVIOUS
  <2>2. base \in G /\ (\A s \in SUBSET S : s # {} => pick[s] \in s) /\ \A x \in S, v \in G : step[<<x, v>>] \in G
    BY <1>3, <1>4, <1>5, <2>1
  <2>3. \E h : FoldsUp(h, pick, step, base, S) /\ \A s \in SUBSET S : h[s] \in G
    <3>1. IsFiniteSet(S)
      BY <1>2
    <3> QED BY <2>2, <3>1, GoodFold
  <2> QED BY <2>1, <2>3
<1>7. Is(h)
  <2>1. \A s \in SUBSET S : h[s] = IF s = {} THEN base ELSE Against(d0, c(s), h[s \ {c(s)}])
    <3> SUFFICES ASSUME NEW s \in SUBSET S, s # {} PROVE h[s] = Against(d0, c(s), h[s \ {c(s)}])
      BY <1>6 DEF FoldsUp
    <3>1. h[s] = step[<<pick[s], h[s \ {pick[s]}]>>]
      BY <1>6 DEF FoldsUp
    <3>2. c(s) \in S /\ s \ {c(s)} \in SUBSET S /\ pick[s] = c(s)
      BY <1>4
    <3> QED BY <1>5, <1>6, <3>1, <3>2
  <2>2. h = [s \in SUBSET S |-> h[s]]
    BY <1>6 DEF FoldsUp
  <2> QED BY <2>1, <2>2
<1>8. Is(iter)
  BY <1>7
<1>9. iter[{}] = base /\ \A s \in SUBSET S : s # {} => iter[s] = Against(d0, c(s), iter[s \ {c(s)}])
  BY <1>8
<1> HIDE DEF iter
<1>10. \A s \in SUBSET S : iter[s] \in Netting(d0)
  <2>1. \A s \in SUBSET S : s # {} => pick[s] \in s /\ (iter[s \ {pick[s]}] \in Netting(d0) => iter[s] \in Netting(d0))
    <3> SUFFICES ASSUME NEW s \in SUBSET S, s # {}, iter[s \ {c(s)}] \in Netting(d0) PROVE iter[s] \in Netting(d0)
      BY <1>4
    <3>1. c(s) \in S /\ iter[s] = Against(d0, c(s), iter[s \ {c(s)}])
      BY <1>4, <1>9
    <3> QED BY <1>5, <3>1
  <2>2. PICK G : G = Netting(d0)
    OBVIOUS
  <2>3. \A s \in SUBSET S : iter[s] \in G
    BY <1>2, <1>3, <1>9, <2>1, <2>2, FoldStays
  <2> QED BY <2>2, <2>3
<1>11. ASSUME NEW G, base \in G, \A x \in S, v \in Netting(d0) : v \in G => Against(d0, x, v) \in G
       PROVE  iter[S] \in G
  <2>1. \A s \in SUBSET S : s # {} => pick[s] \in s /\ (iter[s \ {pick[s]}] \in G => iter[s] \in G)
    <3> SUFFICES ASSUME NEW s \in SUBSET S, s # {}, iter[s \ {c(s)}] \in G PROVE iter[s] \in G
      BY <1>4
    <3>1. PICK x, t : x = c(s) /\ t = s \ {x}
      OBVIOUS
    <3>2. x \in S /\ t \in SUBSET S
      BY <1>4, <3>1
    <3>3. iter[s] = Against(d0, x, iter[t]) /\ iter[t] \in Netting(d0) /\ iter[t] \in G
      BY <1>9, <1>10, <3>1, <3>2
    <3> QED BY <1>11, <3>2, <3>3
  <2>2. IsFiniteSet(S) /\ iter[{}] \in G
    BY <1>2, <1>9, <1>11
  <2>3. \A s \in SUBSET S : iter[s] \in G
    BY <2>1, <2>2, FoldStays
  <2> QED BY <2>3
<1> QED BY <1>1, <1>10, <1>11 DEF S, base

\* The ledgers a pass goes through.
SoundLedgers == {d \in DbRows : DbOK(d)}

\* The loops of a pass over the rows of the book: orders that are known,
LEMMA MatchedAll ==
  ASSUME OrdersOK, NEW rows, ReadOK(rows), NEW d0, DbOK(d0)
  PROVE  /\ MatchAll(d0, rows) \in Netting(d0)
         /\ \A G : ( /\ d0 \in G[{}]
                    /\ \A s \in SUBSET DOMAIN rows : \A x \in DOMAIN rows \ s, v \in Netting(d0) :
                       v \in G[s] => Matched(d0, v, rows[x]) \in G[s \cup {x}] )
                  => MatchAll(d0, rows) \in G[DOMAIN rows]
<1> DEFINE S == DOMAIN rows
<1> DEFINE base == d0
<1> DEFINE c(T) == Max(T)
<1> DEFINE Is(h) == h = [s \in SUBSET S |-> IF s = {} THEN base ELSE Matched(d0, h[s \ {c(s)}], rows[c(s)])]
<1> DEFINE iter == CHOOSE h : Is(h)
<1> DEFINE pick == [s \in SUBSET S |-> c(s)]
<1> DEFINE step == [xv \in S \X Netting(d0) |-> Matched(d0, xv[2], rows[xv[1]])]
<1>1. MatchAll(d0, rows) = iter[S]
  BY DEF MatchAll, ImportAll, BookAll, FoldLeft, MapThenFoldSet
<1>2. IsFiniteSet(S) /\ S = 1..Len(rows) /\ Len(rows) \in Nat /\ \A i \in S : rows[i] \in BookRows /\ AtBroker(rows[i].ord)
  <2>1. rows \in Seq(BookRows) /\ \A i \in DOMAIN rows : AtBroker(rows[i].ord)
    BY DEF ReadOK
  <2>2. S = 1..Len(rows) /\ Len(rows) \in Nat /\ \A i \in S : rows[i] \in BookRows
    BY <2>1
  <2> QED BY <2>1, <2>2, FS_Interval
<1>3. base \in Netting(d0)
  BY DEF Netting, DbOK, SameTags
<1>4. \A s \in SUBSET S : s # {} => c(s) \in s /\ pick[s] = c(s)
  <2> SUFFICES ASSUME NEW s \in SUBSET S, s # {} PROVE c(s) \in s
    OBVIOUS
  <2>1. s \subseteq 1..Len(rows) /\ Len(rows) \in Nat
    BY <1>2
  <2> QED BY <2>1, MaxIsIn
<1>5. \A x \in S, v \in Netting(d0) : step[<<x, v>>] = Matched(d0, v, rows[x]) /\ step[<<x, v>>] \in Netting(d0)
  <2> SUFFICES ASSUME NEW x \in S, NEW v \in Netting(d0) PROVE Matched(d0, v, rows[x]) \in Netting(d0)
    OBVIOUS
  <2>1. rows[x] \in BookRows /\ AtBroker(rows[x].ord)
    BY <1>2
  <2> QED BY <2>1, MatchedKeeps DEF Netting, DbOK
<1> HIDE DEF S, base, c, pick, step
<1>6. PICK h : FoldsUp(h, pick, step, base, S) /\ \A s \in SUBSET S : h[s] \in Netting(d0)
  <2>1. PICK G : G = Netting(d0)
    OBVIOUS
  <2>2. base \in G /\ (\A s \in SUBSET S : s # {} => pick[s] \in s) /\ \A x \in S, v \in G : step[<<x, v>>] \in G
    BY <1>3, <1>4, <1>5, <2>1
  <2>3. \E h : FoldsUp(h, pick, step, base, S) /\ \A s \in SUBSET S : h[s] \in G
    <3>1. IsFiniteSet(S)
      BY <1>2
    <3> QED BY <2>2, <3>1, GoodFold
  <2> QED BY <2>1, <2>3
<1>7. Is(h)
  <2>1. \A s \in SUBSET S : h[s] = IF s = {} THEN base ELSE Matched(d0, h[s \ {c(s)}], rows[c(s)])
    <3> SUFFICES ASSUME NEW s \in SUBSET S, s # {} PROVE h[s] = Matched(d0, h[s \ {c(s)}], rows[c(s)])
      BY <1>6 DEF FoldsUp
    <3>1. h[s] = step[<<pick[s], h[s \ {pick[s]}]>>]
      BY <1>6 DEF FoldsUp
    <3>2. c(s) \in S /\ s \ {c(s)} \in SUBSET S /\ pick[s] = c(s)
      BY <1>4
    <3> QED BY <1>5, <1>6, <3>1, <3>2
  <2>2. h = [s \in SUBSET S |-> h[s]]
    BY <1>6 DEF FoldsUp
  <2> QED BY <2>1, <2>2
<1>8. Is(iter)
  BY <1>7
<1>9. iter[{}] = base /\ \A s \in SUBSET S : s # {} => iter[s] = Matched(d0, iter[s \ {c(s)}], rows[c(s)])
  BY <1>8
<1> HIDE DEF iter
<1>10. \A s \in SUBSET S : iter[s] \in Netting(d0)
  <2>1. \A s \in SUBSET S : s # {} => pick[s] \in s /\ (iter[s \ {pick[s]}] \in Netting(d0) => iter[s] \in Netting(d0))
    <3> SUFFICES ASSUME NEW s \in SUBSET S, s # {}, iter[s \ {c(s)}] \in Netting(d0) PROVE iter[s] \in Netting(d0)
      BY <1>4
    <3>1. c(s) \in S /\ iter[s] = Matched(d0, iter[s \ {c(s)}], rows[c(s)])
      BY <1>4, <1>9
    <3> QED BY <1>5, <3>1
  <2>2. PICK G : G = Netting(d0)
    OBVIOUS
  <2>3. \A s \in SUBSET S : iter[s] \in G
    BY <1>2, <1>3, <1>9, <2>1, <2>2, FoldStays
  <2> QED BY <2>2, <2>3
<1>11. ASSUME NEW G, base \in G[{}],
              \A s \in SUBSET S : \A x \in S \ s, v \in Netting(d0) : v \in G[s] => Matched(d0, v, rows[x]) \in G[s \cup {x}]
       PROVE  iter[S] \in G[S]
  <2>1. \A s \in SUBSET S : s # {} => pick[s] \in s /\ (iter[s \ {pick[s]}] \in G[s \ {pick[s]}] => iter[s] \in G[s])
    <3> SUFFICES ASSUME NEW s \in SUBSET S, s # {}, iter[s \ {c(s)}] \in G[s \ {c(s)}] PROVE iter[s] \in G[s]
      BY <1>4
    <3>1. PICK x, t : x = c(s) /\ t = s \ {x}
      OBVIOUS
    <3>2. x \in S \ t /\ t \in SUBSET S /\ t \cup {x} = s
      BY <1>4, <3>1
    <3>3. iter[s] = Matched(d0, iter[t], rows[x]) /\ iter[t] \in Netting(d0) /\ iter[t] \in G[t]
      BY <1>9, <1>10, <3>1, <3>2
    <3> QED BY <1>11, <3>2, <3>3
  <2> QED BY <1>2, <1>9, <1>11, <2>1, FoldGoes
<1> QED BY <1>1, <1>10, <1>11 DEF S, base

\* resting orders that are not,
LEMMA ImportedAll ==
  ASSUME OrdersOK, NEW rows, ReadOK(rows), NEW d0, DbOK(d0)
  PROVE  /\ ImportAll(d0, rows) \in SoundLedgers
         /\ \A G : ( /\ d0 \in G[{}]
                    /\ \A s \in SUBSET DOMAIN rows : \A x \in DOMAIN rows \ s, v \in SoundLedgers :
                       v \in G[s] => Imported(d0, v, rows[x]) \in G[s \cup {x}] )
                  => ImportAll(d0, rows) \in G[DOMAIN rows]
<1> DEFINE S == DOMAIN rows
<1> DEFINE base == d0
<1> DEFINE c(T) == Max(T)
<1> DEFINE Is(h) == h = [s \in SUBSET S |-> IF s = {} THEN base ELSE Imported(d0, h[s \ {c(s)}], rows[c(s)])]
<1> DEFINE iter == CHOOSE h : Is(h)
<1> DEFINE pick == [s \in SUBSET S |-> c(s)]
<1> DEFINE step == [xv \in S \X SoundLedgers |-> Imported(d0, xv[2], rows[xv[1]])]
<1>1. ImportAll(d0, rows) = iter[S]
  BY DEF MatchAll, ImportAll, BookAll, FoldLeft, MapThenFoldSet
<1>2. IsFiniteSet(S) /\ S = 1..Len(rows) /\ Len(rows) \in Nat /\ \A i \in S : rows[i] \in BookRows /\ AtBroker(rows[i].ord)
  <2>1. rows \in Seq(BookRows) /\ \A i \in DOMAIN rows : AtBroker(rows[i].ord)
    BY DEF ReadOK
  <2>2. S = 1..Len(rows) /\ Len(rows) \in Nat /\ \A i \in S : rows[i] \in BookRows
    BY <2>1
  <2> QED BY <2>1, <2>2, FS_Interval
<1>3. base \in SoundLedgers
  BY DEF SoundLedgers, DbOK
<1>4. \A s \in SUBSET S : s # {} => c(s) \in s /\ pick[s] = c(s)
  <2> SUFFICES ASSUME NEW s \in SUBSET S, s # {} PROVE c(s) \in s
    OBVIOUS
  <2>1. s \subseteq 1..Len(rows) /\ Len(rows) \in Nat
    BY <1>2
  <2> QED BY <2>1, MaxIsIn
<1>5. \A x \in S, v \in SoundLedgers : step[<<x, v>>] = Imported(d0, v, rows[x]) /\ step[<<x, v>>] \in SoundLedgers
  <2> SUFFICES ASSUME NEW x \in S, NEW v \in SoundLedgers PROVE Imported(d0, v, rows[x]) \in SoundLedgers
    OBVIOUS
  <2>1. rows[x] \in BookRows /\ AtBroker(rows[x].ord)
    BY <1>2
  <2> QED BY <2>1, ImportedKeeps DEF SoundLedgers, DbOK
<1> HIDE DEF S, base, c, pick, step
<1>6. PICK h : FoldsUp(h, pick, step, base, S) /\ \A s \in SUBSET S : h[s] \in SoundLedgers
  <2>1. PICK G : G = SoundLedgers
    OBVIOUS
  <2>2. base \in G /\ (\A s \in SUBSET S : s # {} => pick[s] \in s) /\ \A x \in S, v \in G : step[<<x, v>>] \in G
    BY <1>3, <1>4, <1>5, <2>1
  <2>3. \E h : FoldsUp(h, pick, step, base, S) /\ \A s \in SUBSET S : h[s] \in G
    <3>1. IsFiniteSet(S)
      BY <1>2
    <3> QED BY <2>2, <3>1, GoodFold
  <2> QED BY <2>1, <2>3
<1>7. Is(h)
  <2>1. \A s \in SUBSET S : h[s] = IF s = {} THEN base ELSE Imported(d0, h[s \ {c(s)}], rows[c(s)])
    <3> SUFFICES ASSUME NEW s \in SUBSET S, s # {} PROVE h[s] = Imported(d0, h[s \ {c(s)}], rows[c(s)])
      BY <1>6 DEF FoldsUp
    <3>1. h[s] = step[<<pick[s], h[s \ {pick[s]}]>>]
      BY <1>6 DEF FoldsUp
    <3>2. c(s) \in S /\ s \ {c(s)} \in SUBSET S /\ pick[s] = c(s)
      BY <1>4
    <3> QED BY <1>5, <1>6, <3>1, <3>2
  <2>2. h = [s \in SUBSET S |-> h[s]]
    BY <1>6 DEF FoldsUp
  <2> QED BY <2>1, <2>2
<1>8. Is(iter)
  BY <1>7
<1>9. iter[{}] = base /\ \A s \in SUBSET S : s # {} => iter[s] = Imported(d0, iter[s \ {c(s)}], rows[c(s)])
  BY <1>8
<1> HIDE DEF iter
<1>10. \A s \in SUBSET S : iter[s] \in SoundLedgers
  <2>1. \A s \in SUBSET S : s # {} => pick[s] \in s /\ (iter[s \ {pick[s]}] \in SoundLedgers => iter[s] \in SoundLedgers)
    <3> SUFFICES ASSUME NEW s \in SUBSET S, s # {}, iter[s \ {c(s)}] \in SoundLedgers PROVE iter[s] \in SoundLedgers
      BY <1>4
    <3>1. c(s) \in S /\ iter[s] = Imported(d0, iter[s \ {c(s)}], rows[c(s)])
      BY <1>4, <1>9
    <3> QED BY <1>5, <3>1
  <2>2. PICK G : G = SoundLedgers
    OBVIOUS
  <2>3. \A s \in SUBSET S : iter[s] \in G
    BY <1>2, <1>3, <1>9, <2>1, <2>2, FoldStays
  <2> QED BY <2>2, <2>3
<1>11. ASSUME NEW G, base \in G[{}],
              \A s \in SUBSET S : \A x \in S \ s, v \in SoundLedgers : v \in G[s] => Imported(d0, v, rows[x]) \in G[s \cup {x}]
       PROVE  iter[S] \in G[S]
  <2>1. \A s \in SUBSET S : s # {} => pick[s] \in s /\ (iter[s \ {pick[s]}] \in G[s \ {pick[s]}] => iter[s] \in G[s])
    <3> SUFFICES ASSUME NEW s \in SUBSET S, s # {}, iter[s \ {c(s)}] \in G[s \ {c(s)}] PROVE iter[s] \in G[s]
      BY <1>4
    <3>1. PICK x, t : x = c(s) /\ t = s \ {x}
      OBVIOUS
    <3>2. x \in S \ t /\ t \in SUBSET S /\ t \cup {x} = s
      BY <1>4, <3>1
    <3>3. iter[s] = Imported(d0, iter[t], rows[x]) /\ iter[t] \in SoundLedgers /\ iter[t] \in G[t]
      BY <1>9, <1>10, <3>1, <3>2
    <3> QED BY <1>11, <3>2, <3>3
  <2> QED BY <1>2, <1>9, <1>11, <2>1, FoldGoes
<1> QED BY <1>1, <1>10, <1>11 DEF S, base

\* and fills that no row is about.
LEMMA UntaggedAll ==
  ASSUME OrdersOK, NEW rows, ReadOK(rows), NEW d0, DbOK(d0)
  PROVE  /\ BookAll(d0, rows) \in SoundLedgers
         /\ \A G : ( /\ d0 \in G[{}]
                    /\ \A s \in SUBSET DOMAIN rows : \A x \in DOMAIN rows \ s, v \in SoundLedgers :
                       v \in G[s] => Untagged(d0, v, rows[x]) \in G[s \cup {x}] )
                  => BookAll(d0, rows) \in G[DOMAIN rows]
<1> DEFINE S == DOMAIN rows
<1> DEFINE base == d0
<1> DEFINE c(T) == Max(T)
<1> DEFINE Is(h) == h = [s \in SUBSET S |-> IF s = {} THEN base ELSE Untagged(d0, h[s \ {c(s)}], rows[c(s)])]
<1> DEFINE iter == CHOOSE h : Is(h)
<1> DEFINE pick == [s \in SUBSET S |-> c(s)]
<1> DEFINE step == [xv \in S \X SoundLedgers |-> Untagged(d0, xv[2], rows[xv[1]])]
<1>1. BookAll(d0, rows) = iter[S]
  BY DEF MatchAll, ImportAll, BookAll, FoldLeft, MapThenFoldSet
<1>2. IsFiniteSet(S) /\ S = 1..Len(rows) /\ Len(rows) \in Nat /\ \A i \in S : rows[i] \in BookRows /\ AtBroker(rows[i].ord)
  <2>1. rows \in Seq(BookRows) /\ \A i \in DOMAIN rows : AtBroker(rows[i].ord)
    BY DEF ReadOK
  <2>2. S = 1..Len(rows) /\ Len(rows) \in Nat /\ \A i \in S : rows[i] \in BookRows
    BY <2>1
  <2> QED BY <2>1, <2>2, FS_Interval
<1>3. base \in SoundLedgers
  BY DEF SoundLedgers, DbOK
<1>4. \A s \in SUBSET S : s # {} => c(s) \in s /\ pick[s] = c(s)
  <2> SUFFICES ASSUME NEW s \in SUBSET S, s # {} PROVE c(s) \in s
    OBVIOUS
  <2>1. s \subseteq 1..Len(rows) /\ Len(rows) \in Nat
    BY <1>2
  <2> QED BY <2>1, MaxIsIn
<1>5. \A x \in S, v \in SoundLedgers : step[<<x, v>>] = Untagged(d0, v, rows[x]) /\ step[<<x, v>>] \in SoundLedgers
  <2> SUFFICES ASSUME NEW x \in S, NEW v \in SoundLedgers PROVE Untagged(d0, v, rows[x]) \in SoundLedgers
    OBVIOUS
  <2>1. rows[x] \in BookRows /\ AtBroker(rows[x].ord)
    BY <1>2
  <2> QED BY <2>1, UntaggedKeeps DEF SoundLedgers, DbOK
<1> HIDE DEF S, base, c, pick, step
<1>6. PICK h : FoldsUp(h, pick, step, base, S) /\ \A s \in SUBSET S : h[s] \in SoundLedgers
  <2>1. PICK G : G = SoundLedgers
    OBVIOUS
  <2>2. base \in G /\ (\A s \in SUBSET S : s # {} => pick[s] \in s) /\ \A x \in S, v \in G : step[<<x, v>>] \in G
    BY <1>3, <1>4, <1>5, <2>1
  <2>3. \E h : FoldsUp(h, pick, step, base, S) /\ \A s \in SUBSET S : h[s] \in G
    <3>1. IsFiniteSet(S)
      BY <1>2
    <3> QED BY <2>2, <3>1, GoodFold
  <2> QED BY <2>1, <2>3
<1>7. Is(h)
  <2>1. \A s \in SUBSET S : h[s] = IF s = {} THEN base ELSE Untagged(d0, h[s \ {c(s)}], rows[c(s)])
    <3> SUFFICES ASSUME NEW s \in SUBSET S, s # {} PROVE h[s] = Untagged(d0, h[s \ {c(s)}], rows[c(s)])
      BY <1>6 DEF FoldsUp
    <3>1. h[s] = step[<<pick[s], h[s \ {pick[s]}]>>]
      BY <1>6 DEF FoldsUp
    <3>2. c(s) \in S /\ s \ {c(s)} \in SUBSET S /\ pick[s] = c(s)
      BY <1>4
    <3> QED BY <1>5, <1>6, <3>1, <3>2
  <2>2. h = [s \in SUBSET S |-> h[s]]
    BY <1>6 DEF FoldsUp
  <2> QED BY <2>1, <2>2
<1>8. Is(iter)
  BY <1>7
<1>9. iter[{}] = base /\ \A s \in SUBSET S : s # {} => iter[s] = Untagged(d0, iter[s \ {c(s)}], rows[c(s)])
  BY <1>8
<1> HIDE DEF iter
<1>10. \A s \in SUBSET S : iter[s] \in SoundLedgers
  <2>1. \A s \in SUBSET S : s # {} => pick[s] \in s /\ (iter[s \ {pick[s]}] \in SoundLedgers => iter[s] \in SoundLedgers)
    <3> SUFFICES ASSUME NEW s \in SUBSET S, s # {}, iter[s \ {c(s)}] \in SoundLedgers PROVE iter[s] \in SoundLedgers
      BY <1>4
    <3>1. c(s) \in S /\ iter[s] = Untagged(d0, iter[s \ {c(s)}], rows[c(s)])
      BY <1>4, <1>9
    <3> QED BY <1>5, <3>1
  <2>2. PICK G : G = SoundLedgers
    OBVIOUS
  <2>3. \A s \in SUBSET S : iter[s] \in G
    BY <1>2, <1>3, <1>9, <2>1, <2>2, FoldStays
  <2> QED BY <2>2, <2>3
<1>11. ASSUME NEW G, base \in G[{}],
              \A s \in SUBSET S : \A x \in S \ s, v \in SoundLedgers : v \in G[s] => Untagged(d0, v, rows[x]) \in G[s \cup {x}]
       PROVE  iter[S] \in G[S]
  <2>1. \A s \in SUBSET S : s # {} => pick[s] \in s /\ (iter[s \ {pick[s]}] \in G[s \ {pick[s]}] => iter[s] \in G[s])
    <3> SUFFICES ASSUME NEW s \in SUBSET S, s # {}, iter[s \ {c(s)}] \in G[s \ {c(s)}] PROVE iter[s] \in G[s]
      BY <1>4
    <3>1. PICK x, t : x = c(s) /\ t = s \ {x}
      OBVIOUS
    <3>2. x \in S \ t /\ t \in SUBSET S /\ t \cup {x} = s
      BY <1>4, <3>1
    <3>3. iter[s] = Untagged(d0, iter[t], rows[x]) /\ iter[t] \in SoundLedgers /\ iter[t] \in G[t]
      BY <1>9, <1>10, <3>1, <3>2
    <3> QED BY <1>11, <3>2, <3>3
  <2> QED BY <1>2, <1>9, <1>11, <2>1, FoldGoes
<1> QED BY <1>1, <1>10, <1>11 DEF S, base

\* Lots that no order is on its way for change, and none of them closes.
LEMMA LotsChange ==
  ASSUME NEW d, DbOK(d), NEW L \in Seq(LotRows), DOMAIN L = DOMAIN d.lots,
         \A n \in DOMAIN d.lots :
           L[n] = d.lots[n] \/ (~OnItsWay(d.lots[n]) /\ L[n].st # "CLOSED" /\ L[n].tag = d.lots[n].tag)
  PROVE  DbOK([lots |-> L, exits |-> d.exits, doomed |-> d.doomed])
<1> DEFINE x == [lots |-> L, exits |-> d.exits, doomed |-> d.doomed]
<1>2. x.lots = L /\ x.exits = d.exits /\ x.doomed = d.doomed /\ x \in DbRows
  BY LedgerRows DEF DbRows
<1> HIDE DEF x
<1>3. Refers(x)
  BY <1>2 DEF Refers, DbOK
<1>5. Waiting(x)
  BY <1>2 DEF Waiting, DbOK, OnItsWay
<1>6. Swept(x)
  BY <1>2 DEF Swept, Rests, Resting, DbOK, Refers
<1> QED BY <1>2, <1>3, <1>5, <1>6 DEF DbOK, x

\* Only a lot without a waiting order is written off, and nothing else of it changes.
LEMMA WriteOffIs ==
  ASSUME OrdersOK, NEW d, DbOK(d), NEW aged \in BOOLEAN
  PROVE  \E L \in Seq(LotRows) :
           /\ WriteOff(d, aged) = [lots |-> L, exits |-> d.exits, doomed |-> d.doomed]
           /\ DOMAIN L = DOMAIN d.lots
           /\ \A n \in DOMAIN d.lots :
                \/ L[n] = d.lots[n]
                \/ /\ d.lots[n].st = "PENDING" /\ ~OnItsWay(d.lots[n])
                   /\ L[n].st = "CANCELLED" /\ L[n].tag = d.lots[n].tag /\ L[n].ord = d.lots[n].ord
                   /\ L[n].ext = d.lots[n].ext /\ L[n].side = d.lots[n].side
<1> DEFINE L == [n \in DOMAIN d.lots |-> IF aged /\ n \in Stale(d) THEN [d.lots[n] EXCEPT !.st = "CANCELLED"] ELSE d.lots[n]]
<1>1. WriteOff(d, aged) = [lots |-> L, exits |-> d.exits, doomed |-> d.doomed]
  <2>1. PICK K : K = L
    OBVIOUS
  <2>2. WriteOff(d, aged) = [d EXCEPT !.lots = K]
    BY <2>1 DEF WriteOff
  <2>3. [d EXCEPT !.lots = K] = [lots |-> K, exits |-> d.exits, doomed |-> d.doomed]
    <3>1. PICK X, M : X = d.exits /\ M = d.doomed
      OBVIOUS
    <3>2. PICK N : d = [lots |-> N, exits |-> X, doomed |-> M]
      BY <3>1, LedgerRows
    <3>3. [d EXCEPT !.lots = K] = [lots |-> K, exits |-> X, doomed |-> M]
      BY <3>2
    <3> QED BY <3>1, <3>3, Zenon
  <2> QED BY <2>1, <2>2, <2>3, Zenon
<1>2. ASSUME NEW n \in DOMAIN d.lots
      PROVE  /\ L[n] \in LotRows
             /\ \/ L[n] = d.lots[n]
                \/ /\ d.lots[n].st = "PENDING" /\ ~OnItsWay(d.lots[n])
                   /\ L[n].st = "CANCELLED" /\ L[n].tag = d.lots[n].tag /\ L[n].ord = d.lots[n].ord
                   /\ L[n].ext = d.lots[n].ext /\ L[n].side = d.lots[n].side
  <2>1. d.lots[n] \in LotRows
    BY LedgerRows
  <2>2. CASE aged /\ n \in Stale(d)
    <3>1. L[n] = [d.lots[n] EXCEPT !.st = "CANCELLED"] /\ d.lots[n].st = "PENDING" /\ ~orders[d.lots[n].tag].waits
      BY <2>2 DEF Stale
    <3>2. PICK l \in LotRows : l = d.lots[n] /\ L[n] = [l EXCEPT !.st = "CANCELLED"]
      BY <2>1, <3>1
    <3>3. L[n] \in LotRows /\ L[n].st = "CANCELLED" /\ L[n].tag = l.tag /\ L[n].ord = l.ord /\ L[n].ext = l.ext /\ L[n].side = l.side
      <4>1. PICK k : k = [l EXCEPT !.st = "CANCELLED"]
        OBVIOUS
      <4>2. l \in LotSet /\ l.st = "PENDING"
        BY <3>1, <3>2 DEF LotRows
      <4>3. k \in LotSet /\ k.st = "CANCELLED" /\ k.tag = l.tag /\ k.open = l.open /\ k.entry = l.entry
            /\ k.ord = l.ord /\ k.ext = l.ext /\ k.side = l.side
        BY <4>1, <4>2 DEF LotSet
      <4>4. k \in LotRows
        BY <4>2, <4>3 DEF LotRows, Unfilled
      <4> QED BY <3>2, <4>1, <4>3, <4>4, Zenon
    <3>4. ~OnItsWay(d.lots[n])
      BY <3>1 DEF OnItsWay, OrdersOK, DbOK, Refers
    <3> QED BY <3>1, <3>2, <3>3, <3>4
  <2>3. CASE ~(aged /\ n \in Stale(d))
    <3>1. L[n] = d.lots[n]
      BY <2>3
    <3> HIDE DEF L
    <3> QED BY <2>1, <3>1
  <2> QED BY <2>2, <2>3
<1>3. L \in Seq(LotRows) /\ DOMAIN L = DOMAIN d.lots
  <2>1. Len(d.lots) \in Nat /\ DOMAIN L = 1..Len(d.lots) /\ DOMAIN L = DOMAIN d.lots
    BY LedgerRows
  <2>2. L \in [1..Len(d.lots) -> LotRows]
    BY <1>2, <2>1
  <2> HIDE DEF L
  <2> QED BY <2>1, <2>2
<1> HIDE DEF L
<1> QED BY <1>1, <1>2, <1>3

LEMMA WriteOffKeeps ==
  ASSUME OrdersOK, NEW d, DbOK(d), NEW aged \in BOOLEAN
  PROVE  DbOK(WriteOff(d, aged))
<1>1. PICK L \in Seq(LotRows) :
        /\ WriteOff(d, aged) = [lots |-> L, exits |-> d.exits, doomed |-> d.doomed] /\ DOMAIN L = DOMAIN d.lots
        /\ \A n \in DOMAIN d.lots :
             L[n] = d.lots[n] \/ (~OnItsWay(d.lots[n]) /\ L[n].st # "CLOSED" /\ L[n].tag = d.lots[n].tag)
  BY WriteOffIs
<1> QED BY <1>1, LotsChange

\* A pass keeps the ledger sound.
LEMMA PassKeeps ==
  ASSUME OrdersOK, NEW rows, ReadOK(rows), DbOK(Ledger), NEW aged \in BOOLEAN
  PROVE  DbOK(Pass(rows, aged))
<1>1. PICK d1 : d1 = MatchAll(Ledger, rows)
  OBVIOUS
<1>2. PICK d2 : d2 = ImportAll(d1, rows)
  OBVIOUS
<1>3. PICK d3 : d3 = BookAll(d2, rows)
  OBVIOUS
<1>4. Pass(rows, aged) = IF rows = <<>> THEN Ledger ELSE WriteOff(Offset(d3), aged)
  BY <1>1, <1>2, <1>3 DEF Pass, Ledger
<1>5. DbOK(d1)
  BY <1>1, MatchedAll DEF Netting
<1>6. DbOK(d2)
  BY <1>2, <1>5, ImportedAll DEF SoundLedgers
<1>7. DbOK(d3)
  BY <1>3, <1>6, UntaggedAll DEF SoundLedgers
<1>8. DbOK(Offset(d3))
  BY <1>7, OffsetKeeps DEF Netting
<1>9. DbOK(WriteOff(Offset(d3), aged))
  BY <1>8, WriteOffKeeps
<1> QED BY <1>4, <1>9

-----------------------------------------------------------------------------
(* The steps of the ledger                                                 *)

\* Orders are only added; none goes back to the broker's door, or rests again.
OrdersGoOn ==
  /\ DOMAIN orders \subseteq DOMAIN orders'
  /\ \A o \in DOMAIN orders :
       /\ orders'[o].st = "sent" => orders[o].st = "sent"
       /\ AtBroker(o) => orders'[o].st \notin {"sent", "REFUSED"}
       /\ AtBroker(o) /\ orders'[o].st = "OPEN" => orders[o].st = "OPEN"

\* One order changes, and forward only.
LEMMA OrderChanges ==
  ASSUME OrdersOK, WasOK, NEW o \in DOMAIN orders, NEW x \in OrderRows, orders' = [orders EXCEPT ![o] = x],
         x.was = orders[o].was, x.st = "sent" => orders[o].st = "sent" /\ x.waits, x.st = "REFUSED" => ~x.waits,
         AtBroker(o) => x.st \notin {"sent", "REFUSED"} /\ (x.st = "OPEN" => orders[o].st = "OPEN")
  PROVE  OrdersOK' /\ WasOK' /\ OrdersGoOn /\ DOMAIN orders' = DOMAIN orders
<1>1. /\ orders \in Seq(OrderRows) /\ orders' \in Seq(OrderRows) /\ DOMAIN orders' = DOMAIN orders /\ orders'[o] = x
      /\ \A t \in DOMAIN orders : t # o => orders'[t] = orders[t]
  BY DEF OrdersOK
<1>2. OrdersOK'
  BY <1>1 DEF OrdersOK
<1>3. OrdersGoOn
  BY <1>1 DEF OrdersGoOn, AtBroker
<1>4. WasOK'
  <2>1. \A t \in DOMAIN orders : orders'[t].was = orders[t].was /\ (orders'[t].st = "sent" => orders[t].st = "sent")
    BY <1>1
  <2> QED BY <1>1, <2>1 DEF WasOK, OnItsWay
<1> QED BY <1>1, <1>2, <1>3, <1>4

\* An order is placed.
LEMMA OrderAdded ==
  ASSUME OrdersOK, WasOK, NEW x \in OrderRows, orders' = Append(orders, x), x.st = "sent" => x.waits,
         x.st # "REFUSED",
         \A i \in DOMAIN x.was : (x.was[i].tag # 0 => x.was[i].tag \in DOMAIN orders) /\ ~OnItsWay(x.was[i])
  PROVE  /\ OrdersOK' /\ WasOK' /\ OrdersGoOn
         /\ Upcoming \notin DOMAIN orders /\ Upcoming \in Nat \ {0} /\ orders'[Upcoming] = x
         /\ DOMAIN orders' = DOMAIN orders \cup {Upcoming}
         /\ \A t \in DOMAIN orders : orders'[t] = orders[t]
<1>1. /\ orders \in Seq(OrderRows) /\ orders' \in Seq(OrderRows) /\ Len(orders) \in Nat
      /\ DOMAIN orders = 1..Len(orders) /\ DOMAIN orders' = 1..(Len(orders) + 1) /\ orders'[Upcoming] = x
      /\ \A t \in DOMAIN orders : orders'[t] = orders[t]
  BY DEF OrdersOK, Upcoming
<1>2. Upcoming \notin DOMAIN orders /\ Upcoming \in Nat \ {0} /\ DOMAIN orders' = DOMAIN orders \cup {Upcoming}
  BY <1>1 DEF Upcoming
<1>3. OrdersOK'
  BY <1>1, <1>2 DEF OrdersOK
<1>4. OrdersGoOn
  BY <1>1, <1>2 DEF OrdersGoOn, AtBroker
<1>5. WasOK'
  <2> SUFFICES ASSUME NEW t \in DOMAIN orders', NEW i \in DOMAIN orders'[t].was
               PROVE  /\ orders'[t].was[i].tag # 0 => orders'[t].was[i].tag \in DOMAIN orders'
                      /\ ~(orders'[t].was[i].tag # 0 /\ orders'[orders'[t].was[i].tag].st = "sent")
    BY DEF WasOK, OnItsWay
  <2> DEFINE l == orders'[t].was[i]
  <2>1. (l.tag # 0 => l.tag \in DOMAIN orders) /\ ~OnItsWay(l)
    <3>1. CASE t = Upcoming
      BY <1>1, <3>1
    <3>2. CASE t \in DOMAIN orders
      BY <1>1, <3>2 DEF WasOK
    <3> QED BY <1>2, <3>1, <3>2
  <2> QED BY <1>1, <1>2, <2>1 DEF OnItsWay
<1> QED BY <1>1, <1>2, <1>3, <1>4, <1>5

\* What was read stays about orders the broker has taken.
LEMMA ReadsGoOn ==
  ASSUME OrdersGoOn, NEW rows, ReadOK(rows)
  PROVE  ReadOK(rows)'
BY DEF OrdersGoOn, ReadOK, AtBroker

\* A ledger stays sound while the orders go on.
LEMMA LedgerGoesOn ==
  ASSUME OrdersOK, OrdersGoOn, stray \subseteq stray', NEW d, DbOK(d)
  PROVE  DbOK(d)'
<1>1. d \in DbRows /\ Refers(d)'
  BY DEF OrdersGoOn, DbOK, Refers, AtBroker
<1>2. \A n \in DOMAIN d.lots : OnItsWay(d.lots[n])' => OnItsWay(d.lots[n])
  BY DEF OrdersGoOn, DbOK, Refers, OnItsWay
<1>3. Waiting(d)'
  BY <1>2 DEF Waiting, DbOK
<1>4. \A e \in DOMAIN d.exits : Rests(d, e)' => Rests(d, e)
  BY DEF OrdersGoOn, DbOK, Refers, Rests, Resting, AtBroker
<1>5. Swept(d)'
  BY <1>4 DEF Swept, DbOK
<1> QED BY <1>1, <1>3, <1>5 DEF DbOK

\* The same ledger, named.
LEMMA LedgerIs ==
  ASSUME NEW d, DbOK(d)', d = Ledger'
  PROVE  DbOK(Ledger)'
BY DEF DbOK, Refers, Waiting, Swept, Rests

\* What a function of the rows of a table gives is a table.
LEMMA TableOf ==
  ASSUME NEW S, NEW s \in Seq(S), NEW T, NEW f, f = [n \in DOMAIN s |-> f[n]], \A n \in DOMAIN s : f[n] \in T
  PROVE  f \in Seq(T)
<1>1. DOMAIN s = 1..Len(s) /\ Len(s) \in Nat
  OBVIOUS
<1>2. f \in [1..Len(s) -> T]
  BY <1>1
<1> QED BY <1>1, <1>2

\* What the invariant says of the tables before a step.
LEMMA LedgerNow ==
  ASSUME LedgerInv
  PROVE  /\ OrdersOK /\ WasOK /\ ReadsOK /\ DbOK(Ledger)
         /\ Ledger.lots = lots /\ Ledger.exits = exits /\ Ledger.doomed = doomed
         /\ lots \in Seq(LotRows) /\ exits \in Seq(ExitSet) /\ doomed \in SUBSET Nat
         /\ DOMAIN lots = 1..Len(lots) /\ Len(lots) \in Nat
         /\ DOMAIN exits = 1..Len(exits) /\ Len(exits) \in Nat
         /\ \A n \in DOMAIN lots : lots[n] \in LotRows /\ lots[n] \in LotSet
         /\ \A e \in DOMAIN exits : exits[e] \in ExitSet /\ exits[e].lot \in DOMAIN lots
         /\ \A o \in DOMAIN orders : orders[o] \in OrderRows
         /\ DOMAIN orders = 1..Len(orders) /\ Len(orders) \in Nat
<1>1. DbOK(Ledger) /\ OrdersOK /\ WasOK /\ ReadsOK
  BY DEF LedgerInv
<1>2. Ledger.lots = lots /\ Ledger.exits = exits /\ Ledger.doomed = doomed
  BY DEF Ledger
<1>3. /\ lots \in Seq(LotRows) /\ exits \in Seq(ExitSet) /\ doomed \in SUBSET Nat
      /\ DOMAIN lots = 1..Len(lots) /\ Len(lots) \in Nat
      /\ DOMAIN exits = 1..Len(exits) /\ Len(exits) \in Nat
      /\ \A n \in DOMAIN lots : lots[n] \in LotRows
      /\ \A e \in DOMAIN exits : exits[e] \in ExitSet
  BY <1>1, <1>2, LedgerRows
<1>4. \A e \in DOMAIN exits : exits[e].lot \in DOMAIN lots
  BY <1>1, <1>2 DEF DbOK, Refers
<1>5. DOMAIN orders = 1..Len(orders) /\ Len(orders) \in Nat /\ \A o \in DOMAIN orders : orders[o] \in OrderRows
  BY <1>1 DEF OrdersOK
<1>6. \A n \in DOMAIN lots : lots[n] \in LotSet
  BY <1>3 DEF LotRows
<1> QED BY <1>1, <1>2, <1>3, <1>4, <1>5, <1>6

\* Nothing is read while the orders go on.
LEMMA ReadsStay ==
  ASSUME ReadsOK, OrdersGoOn, UNCHANGED reads
  PROVE  ReadsOK'
<1>1. PICK a, b : a = late /\ b = sync
  OBVIOUS
<1>2. late' = a /\ sync' = b
  BY <1>1 DEF reads
<1>3. ReadOK(a) /\ ReadOK(b.rows) /\ b \in [on : BOOLEAN, rows : Seq(BookRows), net : Seq(Int)]
  BY <1>1 DEF ReadsOK
<1>4. ReadOK(a)' /\ ReadOK(b.rows)'
  <2>1. PICK c : c = b.rows
    OBVIOUS
  <2>2. ReadOK(a)' /\ ReadOK(c)'
    BY <1>3, <2>1, ReadsGoOn
  <2> QED BY <2>1, <2>2
<1> QED BY <1>2, <1>3, <1>4 DEF ReadsOK, ReadOK

\* Orders are added or change, and nothing else does.
LEMMA OnlyOrders ==
  ASSUME LedgerInv, OrdersOK', WasOK', OrdersGoOn, UNCHANGED <<db, reads, doomed, stray>>
  PROVE  LedgerInv'
<1>1. PICK d : d = Ledger
  OBVIOUS
<1>2. Ledger' = d /\ stray \subseteq stray'
  BY <1>1 DEF Ledger, db
<1>3. DbOK(d)'
  BY <1>1, <1>2, LedgerNow, LedgerGoesOn
<1>4. DbOK(Ledger)'
  BY <1>2, <1>3, LedgerIs
<1>5. ReadsOK'
  BY LedgerNow, ReadsStay
<1> QED BY <1>4, <1>5 DEF LedgerInv

\* An order that is placed without a row: from the position card or the terminal.
LEMMA PlaceNoRowKeeps ==
  ASSUME LedgerInv, NEW side \in {1, -1}, NEW q \in Nat \ {0}, PlaceCard(side, q) \/ PlaceOutside(side, q)
  PROVE  LedgerInv'
<1>1. PICK ref \in {"card", "none"} : NewOrder(side, q, ref) /\ UNCHANGED <<db, reads, doomed, stray>>
  BY DEF PlaceCard, PlaceOutside, marks
<1>2. PICK x : /\ x = [side |-> side, qty |-> q, done |-> 0, ref |-> ref, waits |-> ref # "none", was |-> <<>>,
                       st |-> IF ref = "none" THEN "OPEN" ELSE "sent"]
               /\ orders' = Append(orders, x)
  BY <1>1 DEF NewOrder
<1>3. x \in OrderRows /\ x.was = <<>> /\ (x.st = "sent" => x.waits) /\ x.st # "REFUSED"
  <2>1. <<>> \in Seq(LotRows)
    OBVIOUS
  <2> HIDE DEF LotRows
  <2> QED BY <1>2, <2>1 DEF OrderRows, OrderStates
<1>4. OrdersOK' /\ WasOK' /\ OrdersGoOn
  BY <1>2, <1>3, LedgerNow, OrderAdded, SMTT(30)
<1> QED BY <1>1, <1>4, OnlyOrders

\* What becomes of an order at the broker.
LEMMA BrokerKeeps ==
  ASSUME LedgerInv, NEW o \in DOMAIN orders, NEW f \in Nat, Accept(o) \/ Ends(o, f) \/ Trades(o, f)
  PROVE  LedgerInv'
<1>0. orders[o] \in OrderRows /\ UNCHANGED <<db, reads, doomed, stray>> /\ OrdersOK /\ WasOK
  BY LedgerNow DEF Accept, Ends, Trades, marks
<1>1. PICK x, y : /\ y = orders[o] /\ orders' = [orders EXCEPT ![o] = x]
                  /\ x \in OrderRows /\ x.was = y.was /\ x.waits = y.waits
                  /\ x.st \in {"OPEN", "COMPLETE", "CANCELLED"} /\ (y.st = "sent" \/ y.st = "OPEN")
  <2>0. PICK y : y = orders[o]
    OBVIOUS
  <2>1. CASE Accept(o)
    <3>1. PICK x : x = [y EXCEPT !.st = "OPEN"]
      OBVIOUS
    <3>2. orders' = [orders EXCEPT ![o] = x] /\ y.st = "sent"
      BY <1>0, <2>0, <2>1, <3>1 DEF Accept
    <3>3. x \in OrderRows /\ x.was = y.was /\ x.waits = y.waits /\ x.st = "OPEN"
      BY <1>0, <2>0, <3>1 DEF OrderRows, OrderStates
    <3> QED BY <2>0, <3>2, <3>3
  <2>2. CASE Ends(o, f)
    <3>1. PICK st : st = IF f = orders[o].qty THEN "COMPLETE" ELSE "CANCELLED"
      OBVIOUS
    <3>2. PICK x : x = [y EXCEPT !.done = f, !.st = st]
      OBVIOUS
    <3>3. orders' = [orders EXCEPT ![o] = x] /\ y.st = "OPEN"
      BY <1>0, <2>0, <2>2, <3>1, <3>2 DEF Ends
    <3>4. x \in OrderRows /\ x.was = y.was /\ x.waits = y.waits /\ x.st = st
      BY <1>0, <2>0, <3>1, <3>2 DEF OrderRows, OrderStates
    <3> QED BY <2>0, <3>1, <3>3, <3>4
  <2>3. CASE Trades(o, f)
    <3>2. PICK x : x = [y EXCEPT !.done = f]
      OBVIOUS
    <3>3. orders' = [orders EXCEPT ![o] = x] /\ y.st = "OPEN"
      BY <1>0, <2>0, <2>3, <3>2 DEF Trades
    <3>4. x \in OrderRows /\ x.was = y.was /\ x.waits = y.waits /\ x.st = y.st
      BY <1>0, <2>0, <3>2 DEF OrderRows, OrderStates
    <3> QED BY <2>0, <3>3, <3>4
  <2> QED BY <2>1, <2>2, <2>3
<1>2. OrdersOK' /\ WasOK' /\ OrdersGoOn
  <2>1. x.was = orders[o].was /\ x.st \notin {"sent", "REFUSED"}
    BY <1>1
  <2>2. AtBroker(o) => x.st \notin {"sent", "REFUSED"} /\ (x.st = "OPEN" => orders[o].st = "OPEN")
    BY <1>1 DEF AtBroker
  <2> QED BY <1>0, <1>1, <2>1, <2>2, OrderChanges
<1> QED BY <1>0, <1>2, OnlyOrders

\* An entry: its lot waits for it.
LEMMA PlaceEntryKeeps ==
  ASSUME LedgerInv, NEW side \in {1, -1}, NEW q \in Nat \ {0}, PlaceEntry(side, q)
  PROVE  LedgerInv'
<1>1. PICK x : /\ x = [side |-> side, qty |-> q, done |-> 0, ref |-> "lot", st |-> "sent", waits |-> TRUE, was |-> <<>>]
               /\ orders' = Append(orders, x)
  BY DEF PlaceEntry, NewOrder
<1>2. x \in OrderRows /\ x.was = <<>> /\ x.st = "sent" /\ x.waits
  <2>1. <<>> \in Seq(LotRows)
    OBVIOUS
  <2> HIDE DEF LotRows
  <2> QED BY <1>1, <2>1 DEF OrderRows, OrderStates
<1>3. /\ OrdersOK' /\ WasOK' /\ OrdersGoOn /\ Upcoming \notin DOMAIN orders /\ Upcoming \in Nat \ {0}
      /\ DOMAIN orders' = DOMAIN orders \cup {Upcoming}
  BY <1>1, <1>2, LedgerNow, OrderAdded
<1>4. PICK l : /\ l = [NewLot(side, q, "PENDING", 0, FALSE, 2 * Upcoming) EXCEPT !.tag = Upcoming]
               /\ lots' = Append(lots, l)
  BY DEF PlaceEntry
<1>5. l \in LotRows /\ l.st = "PENDING" /\ l.ord = 0 /\ l.tag = Upcoming
  <2>1. PICK u \in Nat \ {0} : u = Upcoming
    BY <1>3
  <2>2. PICK m : m = NewLot(side, q, "PENDING", 0, FALSE, 2 * u)
    OBVIOUS
  <2>3. m \in LotSet /\ m.st = "PENDING" /\ m.ord = 0 /\ m.open = q /\ m.entry = q
    BY <2>2 DEF NewLot, LotSet
  <2>4. l = [m EXCEPT !.tag = u]
    BY <1>4, <2>1, <2>2
  <2>5. l \in LotSet /\ l.st = "PENDING" /\ l.ord = 0 /\ l.open = q /\ l.entry = q /\ l.tag = u
    BY <2>3, <2>4 DEF LotSet
  <2> QED BY <2>1, <2>5 DEF LotRows
<1>6. UNCHANGED <<exits, doomed, stray>> /\ UNCHANGED reads
  BY DEF PlaceEntry, marks
<1>7. PICK c, d : c = Ledger /\ d = Ledger'
  OBVIOUS
<1>8. c.lots = lots /\ c.exits = exits /\ c.doomed = doomed /\ DbOK(c) /\ DbOK(c)'
  BY <1>3, <1>6, <1>7, LedgerNow, LedgerGoesOn
<1>9. d = [lots |-> Append(c.lots, l), exits |-> c.exits, doomed |-> c.doomed]
  BY <1>4, <1>6, <1>7, <1>8 DEF Ledger
<1>10. /\ d.exits = c.exits /\ d.doomed = c.doomed /\ d.lots \in Seq(LotRows) /\ d \in DbRows
       /\ \A k \in DOMAIN c.lots : k \in DOMAIN d.lots /\ d.lots[k] = c.lots[k]
       /\ \A k \in DOMAIN d.lots : k \in DOMAIN c.lots \/ (k \notin DOMAIN c.lots /\ d.lots[k] = l)
  <2>1. c.lots \in Seq(LotRows) /\ c.exits \in Seq(ExitSet) /\ c.doomed \in SUBSET Nat
    BY <1>8, LedgerRows
  <2> HIDE DEF LotRows, ExitSet
  <2>2. /\ Append(c.lots, l) \in Seq(LotRows)
        /\ \A k \in DOMAIN c.lots : k \in DOMAIN Append(c.lots, l) /\ Append(c.lots, l)[k] = c.lots[k]
        /\ \A k \in DOMAIN Append(c.lots, l) :
             k \in DOMAIN c.lots \/ (k \notin DOMAIN c.lots /\ Append(c.lots, l)[k] = l)
    BY <1>5, <2>1
  <2> QED BY <1>9, <2>1, <2>2 DEF DbRows
<1>11. Refers(d)'
  BY <1>3, <1>5, <1>8, <1>10 DEF DbOK, Refers
<1>12. Waiting(d)'
  <2>1. \A e \in DOMAIN c.exits : c.exits[e].lot \in DOMAIN c.lots
    BY <1>8 DEF DbOK, Refers
  <2> QED BY <1>5, <1>8, <1>10, <2>1 DEF DbOK, Waiting
<1>13. Swept(d)'
  <2>1. \A e \in DOMAIN c.exits : c.exits[e].lot \in DOMAIN c.lots
    BY <1>8 DEF DbOK, Refers
  <2>2. \A e \in DOMAIN d.exits : Rests(d, e)' => Rests(c, e)'
    BY <1>10, <2>1 DEF Rests
  <2> QED BY <1>8, <1>10, <2>2 DEF DbOK, Swept
<1>14. DbOK(Ledger)'
  <2>1. DbOK(d)'
    BY <1>10, <1>11, <1>12, <1>13 DEF DbOK
  <2> QED BY <1>7, <2>1, LedgerIs
<1> QED BY <1>3, <1>6, <1>14, LedgerNow, ReadsStay DEF LedgerInv

\* An exit: its lot is open, and it has no number yet.
LEMMA PlaceExitKeeps ==
  ASSUME LedgerInv, NEW n \in Lots, NEW q \in Nat \ {0}, PlaceExit(n, q)
  PROVE  LedgerInv'
<1>0. n \in DOMAIN lots /\ lots[n] \in LotSet /\ lots[n].st = "OPEN" /\ n \in Nat
  BY LedgerNow DEF PlaceExit, Lots
<1>1. PICK x : /\ x = [side |-> -lots[n].side, qty |-> q, done |-> 0, ref |-> "exit", st |-> "sent", waits |-> TRUE, was |-> <<>>]
               /\ orders' = Append(orders, x)
  BY DEF PlaceExit, NewOrder
<1>2. x \in OrderRows /\ x.was = <<>> /\ x.st = "sent" /\ x.waits
  <2>1. <<>> \in Seq(LotRows) /\ -lots[n].side \in {1, -1}
    BY <1>0 DEF LotSet
  <2> HIDE DEF LotRows
  <2> QED BY <1>1, <2>1 DEF OrderRows, OrderStates
<1>3. OrdersOK' /\ WasOK' /\ OrdersGoOn /\ Upcoming \in Nat
  BY <1>1, <1>2, LedgerNow, OrderAdded
<1>4. PICK y : /\ y = [lot |-> n, ord |-> 0, tag |-> Upcoming, qty |-> q, filled |-> 0, took |-> 0, st |-> "PENDING"]
               /\ exits' = Append(exits, y)
  BY DEF PlaceExit
<1>5. y \in ExitSet /\ y.lot = n /\ y.ord = 0
  BY <1>0, <1>3, <1>4 DEF ExitSet
<1>6. UNCHANGED <<lots, doomed, stray>> /\ UNCHANGED reads
  BY DEF PlaceExit, marks
<1>7. PICK c, d : c = Ledger /\ d = Ledger'
  OBVIOUS
<1>8. c.lots = lots /\ c.exits = exits /\ c.doomed = doomed /\ DbOK(c)
  BY <1>7, LedgerNow
<1>9. ~OnItsWay(lots[n])
  BY <1>0, <1>8 DEF DbOK, Waiting
<1>10. d = [lots |-> c.lots, exits |-> Append(c.exits, y), doomed |-> c.doomed]
  BY <1>4, <1>6, <1>7, <1>8 DEF Ledger
<1>11. DbOK(d)
  BY <1>0, <1>5, <1>8, <1>9, <1>10, ExitAdded
<1>12. DbOK(Ledger)'
  BY <1>3, <1>6, <1>7, <1>11, LedgerNow, LedgerGoesOn, LedgerIs
<1> QED BY <1>3, <1>6, <1>12, LedgerNow, ReadsStay DEF LedgerInv

\* The answer to an order is known: st, and no caller waits any more.
LEMMA AnsweredOrder ==
  ASSUME OrdersOK, WasOK, NEW o \in DOMAIN orders, NEW st \in OrderStates \ {"sent"}, Answered(o, st),
         AtBroker(o) => st = orders[o].st
  PROVE  /\ OrdersOK' /\ WasOK' /\ OrdersGoOn /\ DOMAIN orders' = DOMAIN orders /\ orders'[o].st = st
         /\ \A t \in DOMAIN orders : t # o => orders'[t] = orders[t]
<1>1. PICK y \in OrderRows : y = orders[o]
  BY DEF OrdersOK
<1>2. PICK x : x = [y EXCEPT !.waits = FALSE, !.st = st]
  OBVIOUS
<1>3. x \in OrderRows /\ x.was = y.was /\ x.st = st /\ x.waits = FALSE
  BY <1>2 DEF OrderRows
<1>4. orders' = [orders EXCEPT ![o] = x]
  BY <1>1, <1>2 DEF Answered
<1>5. AtBroker(o) => x.st \notin {"sent", "REFUSED"} /\ (x.st = "OPEN" => orders[o].st = "OPEN")
  BY <1>3 DEF AtBroker
<1>6. OrdersOK' /\ WasOK' /\ OrdersGoOn /\ DOMAIN orders' = DOMAIN orders
  BY <1>1, <1>3, <1>4, <1>5, OrderChanges
<1>7. orders'[o] = x /\ \A t \in DOMAIN orders : t # o => orders'[t] = orders[t]
  BY <1>4
<1> QED BY <1>3, <1>6, <1>7

\* Exits of an order that are not deleted are written off.
WrittenOff(X, S) == [e \in DOMAIN X |-> IF e \in S THEN [X[e] EXCEPT !.st = "CANCELLED"] ELSE X[e]]

\* What that leaves as it was.
LEMMA WrittenOffRows ==
  ASSUME NEW X \in Seq(ExitSet), NEW S
  PROVE  /\ WrittenOff(X, S) \in Seq(ExitSet) /\ DOMAIN WrittenOff(X, S) = DOMAIN X
         /\ \A e \in DOMAIN X : /\ WrittenOff(X, S)[e].lot = X[e].lot /\ WrittenOff(X, S)[e].ord = X[e].ord
                                /\ e \in S => WrittenOff(X, S)[e].st = "CANCELLED"
                                /\ e \notin S => WrittenOff(X, S)[e] = X[e]
<1>1. PICK W : W = WrittenOff(X, S)
  OBVIOUS
<1>2. /\ DOMAIN W = DOMAIN X /\ W = [e \in DOMAIN X |-> W[e]]
      /\ \A e \in DOMAIN X : W[e] = IF e \in S THEN [X[e] EXCEPT !.st = "CANCELLED"] ELSE X[e]
  BY <1>1 DEF WrittenOff
<1>3. ASSUME NEW e \in DOMAIN X
      PROVE  W[e] \in ExitSet /\ W[e].lot = X[e].lot /\ W[e].ord = X[e].ord /\ (e \in S => W[e].st = "CANCELLED")
  <2>1. PICK x \in ExitSet : x = X[e]
    OBVIOUS
  <2>2. PICK y : y = [x EXCEPT !.st = "CANCELLED"]
    OBVIOUS
  <2>3. y \in ExitSet /\ y.lot = x.lot /\ y.ord = x.ord /\ y.st = "CANCELLED"
    BY <2>2 DEF ExitSet
  <2>4. W[e] = IF e \in S THEN y ELSE x
    BY <1>2, <2>1, <2>2
  <2> QED BY <2>1, <2>3, <2>4
<1>4. W \in Seq(ExitSet)
  BY <1>2, <1>3, TableOf
<1> QED BY <1>1, <1>2, <1>3, <1>4

\* The ledger with those written off is sound.
LEMMA WrittenOffKeeps ==
  ASSUME NEW d, DbOK(d), NEW S, \A e \in S : e \in DOMAIN d.exits => d.exits[e].st # "deleted"
  PROVE  DbOK([lots |-> d.lots, exits |-> WrittenOff(d.exits, S), doomed |-> d.doomed])
<1>1. PICK X, y : X = WrittenOff(d.exits, S) /\ y = [lots |-> d.lots, exits |-> X, doomed |-> d.doomed]
  OBVIOUS
<1>2. /\ X \in Seq(ExitSet) /\ DOMAIN X = DOMAIN d.exits
      /\ \A e \in DOMAIN d.exits : /\ X[e].lot = d.exits[e].lot /\ X[e].ord = d.exits[e].ord
                                   /\ X[e] = d.exits[e] \/ (X[e].st = "CANCELLED" /\ d.exits[e].st # "deleted")
  BY <1>1, LedgerRows, WrittenOffRows
<1>3. y.lots = d.lots /\ y.exits = X /\ y.doomed = d.doomed /\ y \in DbRows
  BY <1>1, <1>2, LedgerRows DEF DbRows
<1>4. Refers(y)
  BY <1>2, <1>3 DEF Refers, DbOK
<1>5. Waiting(y)
  BY <1>2, <1>3 DEF Waiting, DbOK
<1>6. \A e \in DOMAIN X : Rests(y, e) => Rests(d, e)
  BY <1>2, <1>3 DEF Rests, Resting
<1>7. Swept(y)
  BY <1>2, <1>3, <1>6 DEF Swept, DbOK
<1> QED BY <1>1, <1>3, <1>4, <1>5, <1>7 DEF DbOK

\* The answer is lost: the lot stays PENDING, the exit is written off.
LEMMA AnswerLostKeeps ==
  ASSUME LedgerInv, NEW o \in DOMAIN orders, AnswerLost(o)
  PROVE  LedgerInv'
<1>1. PICK st : st = IF orders[o].st = "sent" THEN "REFUSED" ELSE orders[o].st
  OBVIOUS
<1>2. st \in OrderStates \ {"sent"} /\ Answered(o, st) /\ (AtBroker(o) => st = orders[o].st)
  BY <1>1, LedgerNow DEF AnswerLost, OrderRows, OrderStates, AtBroker
<1>3. OrdersOK' /\ WasOK' /\ OrdersGoOn
  BY <1>2, LedgerNow, AnsweredOrder
<1>4. UNCHANGED <<lots, doomed, stray>> /\ UNCHANGED reads
  BY DEF AnswerLost, marks
<1>5. exits' = WrittenOff(exits, ExitOf(o))
  BY DEF AnswerLost, WrittenOff
<1>6. PICK c, d : c = Ledger /\ d = Ledger'
  OBVIOUS
<1>7. c.lots = lots /\ c.exits = exits /\ c.doomed = doomed /\ DbOK(c)
  BY <1>6, LedgerNow
<1>8. d = [lots |-> c.lots, exits |-> WrittenOff(c.exits, ExitOf(o)), doomed |-> c.doomed]
  BY <1>4, <1>5, <1>6, <1>7 DEF Ledger
<1>9. DbOK(d)
  <2>1. \A e \in ExitOf(o) : e \in DOMAIN c.exits => c.exits[e].st # "deleted"
    BY <1>7 DEF ExitOf
  <2> QED BY <1>7, <1>8, <2>1, WrittenOffKeeps
<1>10. DbOK(Ledger)'
  BY <1>3, <1>4, <1>6, <1>9, LedgerNow, LedgerGoesOn, LedgerIs
<1> QED BY <1>3, <1>4, <1>10, LedgerNow, ReadsStay DEF LedgerInv

\* The broker refused: an entry's lot is cancelled or is again what it was.
LEMMA FailedLotRow ==
  ASSUME LedgerInv, NEW o \in DOMAIN orders, orders[o].st = "sent", NEW n \in LotOf(o)
  PROVE  /\ FailedLot(o, lots[n]) \in LotRows
         /\ FailedLot(o, lots[n]).tag # 0 => FailedLot(o, lots[n]).tag \in DOMAIN orders
         /\ FailedLot(o, lots[n]).tag = o \/ ~OnItsWay(FailedLot(o, lots[n]))
<1>1. n \in DOMAIN lots /\ lots[n].tag = o /\ o # 0 /\ lots[n] \in LotRows /\ lots[n] \in LotSet
  BY LedgerNow DEF LotOf, Lots
<1>2. CASE orders[o].was # <<>>
  <2>1. PICK w : w = orders[o].was
    OBVIOUS
  <2>2. w \in Seq(LotRows) /\ w # <<>>
    BY <1>2, <2>1, LedgerNow DEF OrderRows
  <2>3. 1 \in DOMAIN w /\ w[1] \in LotRows
    <3> HIDE DEF LotRows
    <3> QED BY <2>2
  <2>4. (w[1].tag # 0 => w[1].tag \in DOMAIN orders) /\ ~OnItsWay(w[1])
    BY <2>1, <2>3, LedgerNow DEF WasOK
  <2>5. FailedLot(o, lots[n]) = w[1]
    BY <1>2, <2>1 DEF FailedLot
  <2> QED BY <2>3, <2>4, <2>5
<1>3. CASE orders[o].was = <<>>
  <2>1. DbOK(Ledger) /\ lots = Ledger.lots
    BY LedgerNow
  <2>2. lots[n].st = "PENDING"
    BY <1>1, <2>1 DEF DbOK, Waiting, OnItsWay
  <2>3. PICK y \in LotRows : y = lots[n]
    BY <1>1
  <2>4. PICK x : x = [y EXCEPT !.st = "CANCELLED"]
    OBVIOUS
  <2>5. y \in LotSet /\ y.st = "PENDING" /\ y.open = y.entry
    BY <2>2, <2>3 DEF LotRows, Unfilled
  <2>6. x \in LotSet /\ x.st = "CANCELLED" /\ x.tag = y.tag /\ x.open = y.open /\ x.entry = y.entry
    BY <2>4, <2>5 DEF LotSet
  <2>7. x \in LotRows
    BY <2>3, <2>5, <2>6 DEF LotRows
  <2>8. FailedLot(o, lots[n]) = x
    BY <1>3, <2>3, <2>4 DEF FailedLot
  <2> QED BY <1>1, <2>3, <2>6, <2>7, <2>8
<1> QED BY <1>2, <1>3

\* An exit is written off, and no exit of the lot can rest.
LEMMA AnswerRefusedKeeps ==
  ASSUME LedgerInv, NEW o \in DOMAIN orders, AnswerRefused(o)
  PROVE  LedgerInv'
<1>1. orders[o].st = "sent" /\ Answered(o, "REFUSED")
  BY DEF AnswerRefused
<1>2. /\ OrdersOK' /\ WasOK' /\ OrdersGoOn /\ DOMAIN orders' = DOMAIN orders /\ orders'[o].st = "REFUSED"
      /\ \A t \in DOMAIN orders : t # o => orders'[t] = orders[t]
  BY <1>1, LedgerNow, AnsweredOrder DEF AtBroker, OrderStates
<1>3. UNCHANGED <<doomed, stray>> /\ UNCHANGED reads
  BY DEF AnswerRefused, marks
<1>4. exits' = WrittenOff(exits, ExitOf(o))
  BY DEF AnswerRefused, WrittenOff
<1>5. PICK c, L, X, d : c = Ledger /\ L = lots' /\ X = exits' /\ d = Ledger'
  OBVIOUS
<1>6. /\ c.lots = lots /\ c.exits = exits /\ c.doomed = doomed /\ DbOK(c) /\ DbOK(c)'
      /\ d = [lots |-> L, exits |-> X, doomed |-> c.doomed]
  BY <1>2, <1>3, <1>5, LedgerNow, LedgerGoesOn DEF Ledger
<1>7. \A k \in DOMAIN lots : k \in LotOf(o) =>
        lots[k].tag = o /\ o # 0 /\ \A e \in DOMAIN exits : exits[e].lot = k => exits[e].st = "deleted"
  BY <1>1, <1>6 DEF LotOf, DbOK, Waiting, OnItsWay
<1>8. /\ DOMAIN L = DOMAIN lots /\ L = [k \in DOMAIN lots |-> L[k]]
      /\ \A k \in DOMAIN lots : L[k] = IF k \in LotOf(o) THEN FailedLot(o, lots[k]) ELSE lots[k]
  BY <1>5 DEF AnswerRefused, Lots
<1>9. \A k \in DOMAIN lots : /\ L[k] \in LotRows
                             /\ L[k].tag # 0 => L[k].tag \in DOMAIN orders
                             /\ k \in LotOf(o) => ~OnItsWay(L[k])'
  <2> SUFFICES ASSUME NEW k \in DOMAIN lots
               PROVE  /\ L[k] \in LotRows
                      /\ L[k].tag # 0 => L[k].tag \in DOMAIN orders
                      /\ k \in LotOf(o) => ~OnItsWay(L[k])'
    OBVIOUS
  <2>1. CASE k \notin LotOf(o)
    BY <1>6, <1>8, <2>1, LedgerNow DEF DbOK, Refers
  <2>2. CASE k \in LotOf(o)
    <3>1. PICK l : l = FailedLot(o, lots[k])
      OBVIOUS
    <3>2. l \in LotRows /\ (l.tag # 0 => l.tag \in DOMAIN orders) /\ (l.tag = o \/ ~OnItsWay(l))
      BY <1>1, <2>2, <3>1, FailedLotRow
    <3>3. ~OnItsWay(l)'
      BY <1>2, <3>2 DEF OnItsWay
    <3>4. L[k] = l
      BY <1>8, <2>2, <3>1
    <3> QED BY <3>2, <3>3, <3>4
  <2> QED BY <2>1, <2>2
<1>10. L \in Seq(LotRows)
  BY <1>8, <1>9, LedgerNow, TableOf
<1>11. /\ X \in Seq(ExitSet) /\ DOMAIN X = DOMAIN exits
       /\ \A e \in DOMAIN exits : /\ X[e].lot = exits[e].lot /\ X[e].ord = exits[e].ord
                                  /\ X[e] = exits[e] \/ (X[e].st = "CANCELLED" /\ exits[e].st # "deleted")
  <2>1. \A e \in ExitOf(o) : exits[e].st # "deleted"
    BY DEF ExitOf
  <2> QED BY <1>4, <1>5, <2>1, LedgerNow, WrittenOffRows
<1>12. d.lots = L /\ d.exits = X /\ d.doomed = c.doomed /\ d \in DbRows
  BY <1>6, <1>10, <1>11, LedgerRows DEF DbRows
<1>13. Refers(d)'
  BY <1>2, <1>6, <1>8, <1>9, <1>11, <1>12 DEF DbOK, Refers
<1>14. Waiting(d)'
  BY <1>6, <1>8, <1>9, <1>11, <1>12 DEF DbOK, Waiting
<1>15. Swept(d)'
  <2>1. \A e \in DOMAIN X : Rests(d, e)' => Rests(c, e)'
    <3> SUFFICES ASSUME NEW e \in DOMAIN X, Rests(d, e)' PROVE Rests(c, e)'
      OBVIOUS
    <3>1. /\ X[e].st = "PENDING" /\ X[e].ord # 0 /\ orders'[X[e].ord].st = "OPEN" /\ L[X[e].lot].st = "CLOSED"
      BY <1>12 DEF Rests, Resting
    <3>2. X[e] = exits[e] /\ e \in DOMAIN exits
      BY <1>11, <3>1
    <3>3. PICK k : k = exits[e].lot
      OBVIOUS
    <3>4. k \in DOMAIN lots /\ exits[e].st # "deleted"
      BY <3>1, <3>2, <3>3, LedgerNow
    <3>5. k \notin LotOf(o)
      BY <1>7, <3>2, <3>3, <3>4
    <3>6. lots[k].st = "CLOSED"
      BY <1>8, <3>1, <3>2, <3>3, <3>4, <3>5
    <3> QED BY <1>6, <3>1, <3>2, <3>3, <3>6 DEF Rests, Resting
  <2> QED BY <1>6, <1>11, <1>12, <2>1 DEF DbOK, Swept
<1>16. DbOK(Ledger)'
  <2>1. DbOK(d)'
    BY <1>12, <1>13, <1>14, <1>15 DEF DbOK
  <2> QED BY <1>5, <2>1, LedgerIs
<1> QED BY <1>2, <1>3, <1>16, LedgerNow, ReadsStay DEF LedgerInv

\* The broker took the order: the row gets its number.
LEMMA AnswerTakenKeeps ==
  ASSUME LedgerInv, NEW o \in DOMAIN orders, AnswerTaken(o)
  PROVE  LedgerInv'
<1>0. orders[o] \in OrderRows /\ o \in Nat /\ OrdersOK
  BY LedgerNow
<1>1. Answered(o, orders[o].st) /\ AtBroker(o) /\ orders[o].st \in OrderStates \ {"sent"}
  <2>1. Answered(o, orders[o].st) /\ orders[o].st # "sent" /\ orders[o].waits
    BY DEF AnswerTaken
  <2> QED BY <1>0, <2>1 DEF AtBroker, OrderRows, OrdersOK
<1>2. /\ OrdersOK' /\ WasOK' /\ OrdersGoOn /\ DOMAIN orders' = DOMAIN orders /\ orders'[o].st = orders[o].st
      /\ \A t \in DOMAIN orders : t # o => orders'[t] = orders[t]
  BY <1>1, LedgerNow, AnsweredOrder
<1>3. doomed' = doomed /\ stray' = stray \cup {e \in ExitOf(o) : lots[exits[e].lot].st = "CLOSED"} /\ UNCHANGED reads
  BY DEF AnswerTaken
<1>4. PICK c, L, X, d : c = Ledger /\ L = lots' /\ X = exits' /\ d = Ledger'
  OBVIOUS
<1>5. /\ c.lots = lots /\ c.exits = exits /\ c.doomed = doomed /\ DbOK(c) /\ DbOK(c)'
      /\ d = [lots |-> L, exits |-> X, doomed |-> c.doomed]
  BY <1>2, <1>3, <1>4, LedgerNow, LedgerGoesOn DEF Ledger
<1>6. /\ DOMAIN L = DOMAIN lots /\ L = [k \in DOMAIN lots |-> L[k]]
      /\ \A k \in DOMAIN lots : L[k] = IF k \in LotOf(o) THEN [lots[k] EXCEPT !.ord = o] ELSE lots[k]
  BY <1>4 DEF AnswerTaken, Lots
<1>7. \A k \in DOMAIN lots : /\ L[k] \in LotRows /\ L[k].tag = lots[k].tag /\ L[k].st = lots[k].st
                             /\ k \in LotOf(o) => lots[k].tag = o
                             /\ k \notin LotOf(o) => L[k] = lots[k]
  <2> SUFFICES ASSUME NEW k \in DOMAIN lots
               PROVE  /\ L[k] \in LotRows /\ L[k].tag = lots[k].tag /\ L[k].st = lots[k].st
                      /\ k \in LotOf(o) => lots[k].tag = o
                      /\ k \notin LotOf(o) => L[k] = lots[k]
    OBVIOUS
  <2>1. PICK y \in LotRows : y = lots[k]
    BY LedgerNow
  <2>2. PICK x : x = [y EXCEPT !.ord = o]
    OBVIOUS
  <2>3. /\ x \in LotSet /\ x.tag = y.tag /\ x.st = y.st /\ x.open = y.open /\ x.entry = y.entry
        /\ y.open <= y.entry /\ (y.st = "CLOSED" <=> y.open = 0) /\ (y.st \in Unfilled => y.open = y.entry)
    BY <1>0, <2>2 DEF LotRows, LotSet
  <2>4. x \in LotRows
    BY <2>3 DEF LotRows
  <2>5. L[k] = IF k \in LotOf(o) THEN x ELSE y
    BY <1>6, <2>1, <2>2
  <2> QED BY <2>1, <2>3, <2>4, <2>5 DEF LotOf
<1>8. L \in Seq(LotRows)
  BY <1>6, <1>7, LedgerNow, TableOf
<1>9. /\ DOMAIN X = DOMAIN exits /\ X = [e \in DOMAIN exits |-> X[e]]
      /\ \A e \in DOMAIN exits : X[e] = IF e \in ExitOf(o) THEN [exits[e] EXCEPT !.ord = o] ELSE exits[e]
  BY <1>4 DEF AnswerTaken
<1>10. \A e \in DOMAIN exits : /\ X[e] \in ExitSet /\ X[e].lot = exits[e].lot /\ X[e].st = exits[e].st
                               /\ X[e].ord = o \/ X[e].ord = exits[e].ord
                               /\ e \notin ExitOf(o) => X[e] = exits[e]
  <2> SUFFICES ASSUME NEW e \in DOMAIN exits
               PROVE  /\ X[e] \in ExitSet /\ X[e].lot = exits[e].lot /\ X[e].st = exits[e].st
                      /\ X[e].ord = o \/ X[e].ord = exits[e].ord
                      /\ e \notin ExitOf(o) => X[e] = exits[e]
    OBVIOUS
  <2>1. PICK y \in ExitSet : y = exits[e]
    BY LedgerNow
  <2>2. PICK x : x = [y EXCEPT !.ord = o]
    OBVIOUS
  <2>3. x \in ExitSet /\ x.lot = y.lot /\ x.st = y.st /\ x.ord = o
    BY <1>0, <2>2 DEF ExitSet
  <2>4. X[e] = IF e \in ExitOf(o) THEN x ELSE y
    BY <1>9, <2>1, <2>2
  <2> QED BY <2>1, <2>3, <2>4
<1>11. X \in Seq(ExitSet)
  BY <1>9, <1>10, LedgerNow, TableOf
<1>12. d.lots = L /\ d.exits = X /\ d.doomed = c.doomed /\ d \in DbRows
  BY <1>5, <1>8, <1>11, LedgerRows DEF DbRows
<1>13. o # 0 /\ AtBroker(o)'
  <2>1. o # 0
    BY LedgerNow
  <2> QED BY <1>1, <1>2, <2>1 DEF AtBroker
<1>14. Refers(d)'
  <2>1. \A k \in DOMAIN L : L[k].tag # 0 => L[k].tag \in DOMAIN orders'
    BY <1>2, <1>5, <1>6, <1>7 DEF DbOK, Refers
  <2>2. \A e \in DOMAIN X : X[e].lot \in DOMAIN L /\ (X[e].ord # 0 => AtBroker(X[e].ord)')
    BY <1>5, <1>6, <1>9, <1>10, <1>13 DEF DbOK, Refers
  <2>3. \A e \in c.doomed : e \in DOMAIN X /\ X[e].ord # 0
    BY <1>5, <1>9, <1>10, <1>13 DEF DbOK, Refers
  <2> QED BY <1>12, <2>1, <2>2, <2>3 DEF Refers
<1>15. Waiting(d)'
  <2>1. \A k \in DOMAIN L : OnItsWay(L[k])' => L[k] = lots[k]
    BY <1>1, <1>2, <1>6, <1>7 DEF OnItsWay, AtBroker
  <2> QED BY <1>5, <1>6, <1>9, <1>10, <1>12, <2>1 DEF DbOK, Waiting
<1>16. Swept(d)'
  <2> SUFFICES ASSUME NEW e \in DOMAIN X, Rests(d, e)' PROVE e \in c.doomed \cup stray'
    BY <1>12 DEF Swept
  <2>1. /\ X[e].st = "PENDING" /\ X[e].ord # 0 /\ orders'[X[e].ord].st = "OPEN" /\ L[X[e].lot].st = "CLOSED"
        /\ e \in DOMAIN exits /\ X[e].lot = exits[e].lot /\ exits[e].lot \in DOMAIN lots
    BY <1>9, <1>10, <1>12, LedgerNow DEF Rests, Resting
  <2>2. lots[exits[e].lot].st = "CLOSED"
    BY <1>7, <2>1
  <2>3. CASE e \in ExitOf(o)
    BY <1>3, <2>2, <2>3
  <2>4. CASE e \notin ExitOf(o)
    <3>1. X[e] = exits[e]
      BY <1>10, <2>1, <2>4
    <3>2. Rests(c, e)'
      BY <1>5, <2>1, <2>2, <3>1 DEF Rests, Resting
    <3> QED BY <1>5, <2>1, <3>2 DEF DbOK, Swept
  <2> QED BY <2>3, <2>4
<1>17. DbOK(Ledger)'
  <2>1. DbOK(d)'
    BY <1>12, <1>14, <1>15, <1>16 DEF DbOK
  <2> QED BY <1>4, <2>1, LedgerIs
<1> QED BY <1>2, <1>3, <1>17, LedgerNow, ReadsStay DEF LedgerInv

\* A sibling exit is cancelled at the broker, or stays there and is counted.
LEMMA CancelSiblingKeeps ==
  ASSUME LedgerInv, NEW e \in doomed, CancelSibling(e)
  PROVE  LedgerInv'
<1>1. PICK o : o = exits[e].ord
  OBVIOUS
<1>2. e \in DOMAIN exits /\ o # 0 /\ AtBroker(o) /\ o \in DOMAIN orders /\ orders[o] \in OrderRows
  BY <1>1, LedgerNow DEF DbOK, Refers, AtBroker
<1>3. lots' = lots /\ doomed' = doomed \ {e} /\ UNCHANGED reads
  BY DEF CancelSibling
<1>4. PICK c, X, d : c = Ledger /\ X = exits' /\ d = Ledger'
  OBVIOUS
<1>5. /\ c.lots = lots /\ c.exits = exits /\ c.doomed = doomed /\ DbOK(c)
      /\ d = [lots |-> c.lots, exits |-> X, doomed |-> c.doomed \ {e}]
  BY <1>3, <1>4, LedgerNow DEF Ledger
<1>6. CASE orders[o].st = "OPEN" /\ orders' = [orders EXCEPT ![o].st = "CANCELLED"] /\ stray' = stray
            /\ exits' = [exits EXCEPT ![e].st = IF @ = "PENDING" THEN "CANCELLED" ELSE @]
  <2>1. PICK y \in OrderRows : y = orders[o]
    BY <1>2
  <2>2. PICK x : x = [y EXCEPT !.st = "CANCELLED"]
    OBVIOUS
  <2>3. x \in OrderRows /\ x.was = y.was /\ x.st = "CANCELLED" /\ orders' = [orders EXCEPT ![o] = x]
    BY <1>6, <2>1, <2>2 DEF OrderRows, OrderStates
  <2>4. OrdersOK' /\ WasOK' /\ OrdersGoOn
    <3>1. x.st \notin {"sent", "REFUSED", "OPEN"} /\ x.was = orders[o].was
      BY <2>1, <2>3
    <3> QED BY <1>2, <2>3, <3>1, LedgerNow, OrderChanges
  <2>5. DbOK(c)' /\ orders'[o].st = "CANCELLED"
    <3>1. orders'[o].st = "CANCELLED"
      BY <1>2, <2>3, LedgerNow
    <3>2. OrdersOK /\ stray \subseteq stray' /\ DbOK(c)
      BY <1>5, <1>6, LedgerNow
    <3> QED BY <2>4, <3>1, <3>2, LedgerGoesOn
  <2>6. PICK r \in ExitSet : r = exits[e]
    BY <1>2, LedgerNow
  <2>7. PICK s : s = [r EXCEPT !.st = IF r.st = "PENDING" THEN "CANCELLED" ELSE r.st]
    OBVIOUS
  <2>8. s \in ExitSet /\ s.lot = r.lot /\ s.ord = r.ord /\ s.st # "PENDING" /\ (r.st = "deleted" => s.st = "deleted")
    BY <2>7 DEF ExitSet
  <2>9. X = [exits EXCEPT ![e] = s]
    BY <1>4, <1>6, <2>6, <2>7
  <2>10. /\ X \in Seq(ExitSet) /\ DOMAIN X = DOMAIN exits /\ X[e] = s
         /\ \A k \in DOMAIN exits : k # e => X[k] = exits[k]
    BY <1>2, <2>8, <2>9, LedgerNow
  <2>11. d.lots = c.lots /\ d.exits = X /\ d.doomed = c.doomed \ {e} /\ d \in DbRows
    BY <1>5, <2>10, LedgerRows DEF DbRows
  <2>12. Refers(d)'
    BY <1>5, <2>5, <2>6, <2>8, <2>10, <2>11 DEF DbOK, Refers
  <2>13. Waiting(d)'
    BY <1>5, <2>5, <2>6, <2>8, <2>10, <2>11 DEF DbOK, Waiting
  <2>14. Swept(d)'
    <3>1. \A k \in DOMAIN X : Rests(d, k)' => k # e /\ Rests(c, k)'
      BY <1>5, <2>8, <2>10, <2>11 DEF Rests, Resting
    <3> QED BY <1>5, <2>5, <2>10, <2>11, <3>1 DEF DbOK, Swept
  <2>15. DbOK(d)'
    BY <2>11, <2>12, <2>13, <2>14 DEF DbOK
  <2>16. DbOK(Ledger)'
    BY <1>4, <2>15, LedgerIs
  <2> QED BY <1>3, <2>4, <2>16, LedgerNow, ReadsStay DEF LedgerInv
<1>7. CASE stray' = stray \cup {e} /\ orders' = orders /\ exits' = exits
  <2>1. OrdersOK' /\ WasOK' /\ OrdersGoOn /\ stray \subseteq stray'
    BY <1>7, LedgerNow DEF OrdersOK, WasOK, OnItsWay, OrdersGoOn, AtBroker
  <2>2. DbOK(c)'
    BY <1>5, <2>1, LedgerNow, LedgerGoesOn
  <2>3. d.lots = c.lots /\ d.exits = c.exits /\ d.doomed = c.doomed \ {e} /\ d \in DbRows
    BY <1>4, <1>5, <1>7, LedgerRows DEF DbRows
  <2>4. Refers(d)' /\ Waiting(d)'
    BY <2>2, <2>3 DEF DbOK, Refers, Waiting
  <2>5. Swept(d)'
    <3>1. \A k \in DOMAIN d.exits : Rests(d, k)' => Rests(c, k)'
      BY <2>3 DEF Rests, Resting
    <3> QED BY <1>7, <2>2, <2>3, <3>1 DEF DbOK, Swept
  <2>6. DbOK(d)'
    BY <2>3, <2>4, <2>5 DEF DbOK
  <2>7. DbOK(Ledger)'
    BY <1>4, <2>6, LedgerIs
  <2> QED BY <1>3, <2>1, <2>7, LedgerNow, ReadsStay DEF LedgerInv
<1> QED BY <1>1, <1>6, <1>7 DEF CancelSibling

\* A closed lot is entered again: its exits are deleted, and it waits.
LEMMA ReenterKeeps ==
  ASSUME LedgerInv, NEW n \in Lots, NEW q \in Nat \ {0}, Reenter(n, q)
  PROVE  LedgerInv'
<1>0. n \in DOMAIN lots /\ lots[n].st = "CLOSED" /\ n \in Nat
  BY LedgerNow DEF Reenter, Lots
<1>1. PICK r \in LotRows : r = lots[n]
  BY <1>0, LedgerNow
<1>2. PICK x : /\ x = [side |-> r.side, qty |-> q, done |-> 0, ref |-> "lot", st |-> "sent", waits |-> TRUE, was |-> <<r>>]
               /\ orders' = Append(orders, x)
  BY <1>1 DEF Reenter
<1>3. x \in OrderRows /\ x.was = <<r>> /\ x.st = "sent" /\ x.waits
  <2>1. <<r>> \in Seq(LotRows) /\ r.side \in {1, -1}
    <3>1. r.side \in {1, -1}
      BY DEF LotRows, LotSet
    <3> HIDE DEF LotRows
    <3> QED BY <3>1
  <2> HIDE DEF LotRows
  <2> QED BY <1>2, <2>1 DEF OrderRows, OrderStates
<1>4. /\ OrdersOK' /\ WasOK' /\ OrdersGoOn /\ Upcoming \notin DOMAIN orders /\ Upcoming \in Nat \ {0}
      /\ DOMAIN orders' = DOMAIN orders \cup {Upcoming}
  <2>1. (r.tag # 0 => r.tag \in DOMAIN orders) /\ ~OnItsWay(r)
    BY <1>0, <1>1, LedgerNow DEF DbOK, Refers, Waiting
  <2>2. \A i \in DOMAIN x.was : (x.was[i].tag # 0 => x.was[i].tag \in DOMAIN orders) /\ ~OnItsWay(x.was[i])
    BY <1>3, <2>1
  <2> QED BY <1>2, <1>3, <2>2, LedgerNow, OrderAdded
<1>5. PICK u \in Nat \ {0} : u = Upcoming
  BY <1>4
<1>6. PICK l : /\ l = [r EXCEPT !.entry = q, !.open = q, !.st = "PENDING", !.ord = 0, !.tag = u, !.at = 2 * u]
               /\ lots' = [lots EXCEPT ![n] = l]
  BY <1>1, <1>5 DEF Reenter
<1>7. l \in LotRows /\ l.st = "PENDING" /\ l.ord = 0 /\ l.tag = u
  <2>1. r \in LotSet
    BY DEF LotRows
  <2>2. l \in LotSet /\ l.st = "PENDING" /\ l.ord = 0 /\ l.tag = u /\ l.open = q /\ l.entry = q
    <3>1. PICK v \in Nat : v = 2 * u
      OBVIOUS
    <3>2. l = [r EXCEPT !.entry = q, !.open = q, !.st = "PENDING", !.ord = 0, !.tag = u, !.at = v]
      BY <1>6, <3>1
    <3> QED BY <2>1, <3>2 DEF LotSet
  <2> QED BY <2>2 DEF LotRows
<1>8. stray' = stray /\ UNCHANGED reads
  BY DEF Reenter, marks
<1>9. PICK c, L, X, M, d : c = Ledger /\ L = lots' /\ X = exits' /\ M = doomed' /\ d = Ledger'
  OBVIOUS
<1>10. /\ c.lots = lots /\ c.exits = exits /\ c.doomed = doomed /\ DbOK(c) /\ DbOK(c)'
       /\ d = [lots |-> L, exits |-> X, doomed |-> M]
  BY <1>4, <1>8, <1>9, LedgerNow, LedgerGoesOn DEF Ledger
<1>11. /\ L \in Seq(LotRows) /\ DOMAIN L = DOMAIN lots /\ L[n] = l
       /\ \A k \in DOMAIN lots : k # n => L[k] = lots[k]
  <2> HIDE DEF LotRows
  <2> QED BY <1>0, <1>6, <1>7, <1>9, LedgerNow
<1>12. /\ DOMAIN X = DOMAIN exits /\ X = [e \in DOMAIN exits |-> X[e]]
       /\ \A e \in DOMAIN exits : X[e] = IF exits[e].lot = n THEN [exits[e] EXCEPT !.st = "deleted"] ELSE exits[e]
  BY <1>9 DEF Reenter
<1>13. \A e \in DOMAIN exits : /\ X[e] \in ExitSet /\ X[e].lot = exits[e].lot /\ X[e].ord = exits[e].ord
                               /\ exits[e].lot = n => X[e].st = "deleted"
                               /\ exits[e].lot # n => X[e] = exits[e]
  <2> SUFFICES ASSUME NEW e \in DOMAIN exits
               PROVE  /\ X[e] \in ExitSet /\ X[e].lot = exits[e].lot /\ X[e].ord = exits[e].ord
                      /\ exits[e].lot = n => X[e].st = "deleted"
                      /\ exits[e].lot # n => X[e] = exits[e]
    OBVIOUS
  <2>1. PICK y \in ExitSet : y = exits[e]
    BY LedgerNow
  <2>2. PICK z : z = [y EXCEPT !.st = "deleted"]
    OBVIOUS
  <2>3. z \in ExitSet /\ z.lot = y.lot /\ z.ord = y.ord /\ z.st = "deleted"
    BY <2>2 DEF ExitSet
  <2>4. X[e] = IF y.lot = n THEN z ELSE y
    BY <1>12, <2>1, <2>2
  <2> QED BY <2>1, <2>3, <2>4
<1>14. X \in Seq(ExitSet)
  BY <1>12, <1>13, LedgerNow, TableOf
<1>15. M = {e \in doomed : exits[e].lot # n}
  BY <1>9 DEF Reenter
<1>16. M \in SUBSET Nat /\ d.lots = L /\ d.exits = X /\ d.doomed = M /\ d \in DbRows
  <2>1. M \in SUBSET Nat
    BY <1>15, LedgerNow
  <2> QED BY <1>10, <1>11, <1>14, <2>1 DEF DbRows
<1>17. Refers(d)'
  <2>1. \A k \in DOMAIN L : L[k].tag # 0 => L[k].tag \in DOMAIN orders'
    BY <1>4, <1>5, <1>7, <1>10, <1>11 DEF DbOK, Refers
  <2>2. \A e \in DOMAIN X : X[e].lot \in DOMAIN L /\ (X[e].ord # 0 => AtBroker(X[e].ord)')
    BY <1>10, <1>11, <1>12, <1>13 DEF DbOK, Refers
  <2>3. \A e \in M : e \in DOMAIN X /\ X[e].ord # 0
    BY <1>10, <1>12, <1>13, <1>15 DEF DbOK, Refers
  <2> QED BY <1>16, <2>1, <2>2, <2>3 DEF Refers
<1>18. Waiting(d)'
  <2> SUFFICES ASSUME NEW k \in DOMAIN L, OnItsWay(L[k])'
               PROVE  /\ L[k].st = "PENDING" /\ L[k].ord = 0
                      /\ \A e \in DOMAIN X : X[e].lot = k => X[e].st = "deleted"
    BY <1>16 DEF Waiting
  <2>1. CASE k = n
    BY <1>7, <1>11, <1>12, <1>13, <2>1
  <2>2. CASE k # n
    <3>1. L[k] = c.lots[k] /\ k \in DOMAIN c.lots /\ OnItsWay(c.lots[k])'
      BY <1>10, <1>11, <2>2
    <3>2. /\ L[k].st = "PENDING" /\ L[k].ord = 0
          /\ \A e \in DOMAIN exits : exits[e].lot = k => exits[e].st = "deleted"
      BY <1>10, <3>1 DEF DbOK, Waiting
    <3> QED BY <1>12, <1>13, <2>2, <3>2
  <2> QED BY <2>1, <2>2
<1>19. Swept(d)'
  <2> SUFFICES ASSUME NEW e \in DOMAIN X, Rests(d, e)' PROVE e \in M \cup stray'
    BY <1>16 DEF Swept
  <2>1. /\ X[e].st = "PENDING" /\ X[e].ord # 0 /\ orders'[X[e].ord].st = "OPEN" /\ L[X[e].lot].st = "CLOSED"
        /\ e \in DOMAIN exits /\ X[e].lot = exits[e].lot /\ exits[e].lot \in DOMAIN lots
    BY <1>12, <1>13, <1>16, LedgerNow DEF Rests, Resting
  <2>2. exits[e].lot # n /\ X[e] = exits[e]
    BY <1>13, <2>1
  <2>3. Rests(c, e)'
    BY <1>10, <1>11, <2>1, <2>2 DEF Rests, Resting
  <2>4. e \in doomed \cup stray'
    BY <1>10, <2>1, <2>3 DEF DbOK, Swept
  <2> QED BY <1>15, <2>2, <2>4
<1>20. DbOK(Ledger)'
  <2>1. DbOK(d)'
    BY <1>16, <1>17, <1>18, <1>19 DEF DbOK
  <2> QED BY <1>9, <2>1, LedgerIs
<1> QED BY <1>4, <1>8, <1>20, LedgerNow, ReadsStay DEF LedgerInv

\* A table of one row, and a row that is added to one.
LEMMA OneRow == ASSUME NEW S, NEW x \in S PROVE <<x>> \in Seq(S) /\ DOMAIN <<x>> = {1} /\ <<x>>[1] = x
<1>1. <<x>> \in Seq(S) /\ Len(<<x>>) = 1 /\ <<x>>[1] = x
  OBVIOUS
<1>2. DOMAIN <<x>> = 1..1
  BY <1>1
<1>3. 1..1 = {1}
  OBVIOUS
<1> QED BY <1>1, <1>2, <1>3

LEMMA RowAdded ==
  ASSUME NEW S, NEW s \in Seq(S), NEW x \in S
  PROVE  /\ Append(s, x) \in Seq(S)
         /\ \A i \in DOMAIN Append(s, x) : (i \in DOMAIN s /\ Append(s, x)[i] = s[i]) \/ Append(s, x)[i] = x
OBVIOUS

\* What a call reads: orders the broker has taken, as they are.
AsItIs(r) == r = RowOf(r.ord, FALSE)
RowsRead == {rows \in Seq(BookRows) : ReadOK(rows) /\ \A i \in DOMAIN rows : AsItIs(rows[i])}
With(rows, o) == IF Seen(o) THEN Append(rows, RowOf(o, FALSE)) ELSE rows
\* A row that is read is about an order the broker has taken,
LEMMA RowRead ==
  ASSUME OrdersOK, NEW o \in DOMAIN orders, Seen(o), NEW tagged \in BOOLEAN
  PROVE  RowOf(o, tagged) \in BookRows /\ RowOf(o, tagged).ord = o /\ AtBroker(o)
<1>1. orders[o] \in OrderRows /\ o \in Nat /\ orders[o].st \in OrderStates \ {"sent", "REFUSED"}
  <2>1. orders[o] \in OrderRows /\ o \in Nat
    BY DEF OrdersOK
  <2>2. orders[o].st \in OrderStates
    BY <2>1 DEF OrderRows
  <2> QED BY <2>1, <2>2 DEF Seen
<1>2. orders[o].done \in Nat /\ orders[o].st \in {"OPEN", "COMPLETE", "CANCELLED"}
  BY <1>1 DEF OrderRows, OrderStates
<1>3. PICK f \in Nat : f = IF orders[o].st = "OPEN" THEN 0 ELSE orders[o].done
  BY <1>2
<1>4. RowOf(o, tagged) = [ord |-> o, st |-> orders[o].st, tagged |-> tagged, done |-> f]
  BY <1>3 DEF RowOf
<1> QED BY <1>1, <1>2, <1>4 DEF BookRows, Seen, AtBroker

\* and so is a book with one more row.
LEMMA WithKeeps ==
  ASSUME OrdersOK, NEW o \in DOMAIN orders, NEW rows \in RowsRead
  PROVE  With(rows, o) \in RowsRead
<1>1. CASE ~Seen(o)
  BY <1>1 DEF With
<1>2. CASE Seen(o)
  <2>1. PICK r \in BookRows : r = RowOf(o, FALSE) /\ r.ord = o /\ AtBroker(o)
    BY <1>2, RowRead
  <2>2. rows \in Seq(BookRows) /\ \A i \in DOMAIN rows : AtBroker(rows[i].ord) /\ AsItIs(rows[i])
    BY DEF RowsRead, ReadOK
  <2>3. PICK a : a = Append(rows, r)
    OBVIOUS
  <2>4. a \in Seq(BookRows) /\ \A i \in DOMAIN a : (i \in DOMAIN rows /\ a[i] = rows[i]) \/ a[i] = r
    <3>1. PICK B : B = BookRows
      OBVIOUS
    <3>2. rows \in Seq(B) /\ r \in B
      BY <2>1, <2>2, <3>1
    <3>3. /\ Append(rows, r) \in Seq(B)
          /\ \A i \in DOMAIN Append(rows, r) :
               (i \in DOMAIN rows /\ Append(rows, r)[i] = rows[i]) \/ Append(rows, r)[i] = r
      BY <3>2, RowAdded
    <3> QED BY <2>3, <3>1, <3>3
  <2>5. \A i \in DOMAIN a : AtBroker(a[i].ord) /\ AsItIs(a[i])
    <3>1. AsItIs(r)
      BY <2>1 DEF AsItIs
    <3> QED BY <2>1, <2>2, <2>4, <3>1
  <2>6. With(rows, o) = a
    BY <1>2, <2>1, <2>3 DEF With
  <2> QED BY <2>4, <2>5, <2>6 DEF RowsRead, ReadOK
<1> QED BY <1>1, <1>2

\* The book lists orders that the broker has taken.
LEMMA BookIsRead ==
  ASSUME OrdersOK
  PROVE  BookNow \in RowsRead
<1> DEFINE S == DOMAIN Ids(orders)
<1> DEFINE base == <<>>
<1> DEFINE c(T) == Max(T)
<1> DEFINE Is(h) == h = [s \in SUBSET S |-> IF s = {} THEN base ELSE With(h[s \ {c(s)}], Ids(orders)[c(s)])]
<1> DEFINE iter == CHOOSE h : Is(h)
<1> DEFINE pick == [s \in SUBSET S |-> c(s)]
<1> DEFINE step == [xv \in S \X RowsRead |-> With(xv[2], Ids(orders)[xv[1]])]
<1>1. BookNow = iter[S]
  BY DEF BookNow, FoldLeft, MapThenFoldSet, With
<1>2. IsFiniteSet(S) /\ S = DOMAIN orders /\ S = 1..Len(orders) /\ Len(orders) \in Nat /\ \A o \in S : Ids(orders)[o] = o
  <2>1. S = 1..Len(orders) /\ Len(orders) \in Nat /\ S = DOMAIN orders /\ \A o \in S : Ids(orders)[o] = o
    BY DEF OrdersOK, Ids
  <2> QED BY <2>1, FS_Interval
<1>3. base \in RowsRead
  BY DEF RowsRead, ReadOK
<1>4. \A s \in SUBSET S : s # {} => c(s) \in s /\ pick[s] = c(s)
  <2> SUFFICES ASSUME NEW s \in SUBSET S, s # {} PROVE c(s) \in s
    OBVIOUS
  <2>1. s \subseteq 1..Len(orders) /\ Len(orders) \in Nat
    BY <1>2
  <2> QED BY <2>1, MaxIsIn
<1>5. \A x \in S, v \in RowsRead : step[<<x, v>>] = With(v, Ids(orders)[x]) /\ step[<<x, v>>] \in RowsRead
  <2> SUFFICES ASSUME NEW o \in S, NEW v \in RowsRead PROVE With(v, Ids(orders)[o]) \in RowsRead
    OBVIOUS
  <2> QED BY <1>2, WithKeeps
<1> HIDE DEF S, base, c, pick, step
<1>6. PICK h : FoldsUp(h, pick, step, base, S) /\ \A s \in SUBSET S : h[s] \in RowsRead
  <2>1. PICK G : G = RowsRead
    OBVIOUS
  <2>2. base \in G /\ (\A s \in SUBSET S : s # {} => pick[s] \in s) /\ \A x \in S, v \in G : step[<<x, v>>] \in G
    BY <1>3, <1>4, <1>5, <2>1
  <2>3. \E h : FoldsUp(h, pick, step, base, S) /\ \A s \in SUBSET S : h[s] \in G
    <3>1. IsFiniteSet(S)
      BY <1>2
    <3> QED BY <2>2, <3>1, GoodFold
  <2> QED BY <2>1, <2>3
<1>7. Is(h)
  <2>1. \A s \in SUBSET S : h[s] = IF s = {} THEN base ELSE With(h[s \ {c(s)}], Ids(orders)[c(s)])
    <3> SUFFICES ASSUME NEW s \in SUBSET S, s # {} PROVE h[s] = With(h[s \ {c(s)}], Ids(orders)[c(s)])
      BY <1>6 DEF FoldsUp
    <3>1. h[s] = step[<<pick[s], h[s \ {pick[s]}]>>]
      BY <1>6 DEF FoldsUp
    <3>2. c(s) \in S /\ s \ {c(s)} \in SUBSET S /\ pick[s] = c(s)
      BY <1>4
    <3> QED BY <1>5, <1>6, <3>1, <3>2
  <2>2. h = [s \in SUBSET S |-> h[s]]
    BY <1>6 DEF FoldsUp
  <2> QED BY <2>1, <2>2
<1>8. Is(iter)
  BY <1>7
<1>9. iter[{}] = base /\ \A s \in SUBSET S : s # {} => iter[s] = With(iter[s \ {c(s)}], Ids(orders)[c(s)])
  BY <1>8
<1> HIDE DEF iter
<1>10. iter[S] \in RowsRead
  <2>1. \A s \in SUBSET S : s # {} => pick[s] \in s /\ (iter[s \ {pick[s]}] \in RowsRead => iter[s] \in RowsRead)
    <3> SUFFICES ASSUME NEW s \in SUBSET S, s # {}, iter[s \ {c(s)}] \in RowsRead PROVE iter[s] \in RowsRead
      BY <1>4
    <3>1. c(s) \in S /\ iter[s] = With(iter[s \ {c(s)}], Ids(orders)[c(s)])
      BY <1>4, <1>9
    <3> QED BY <1>5, <3>1
  <2>2. PICK G : G = RowsRead
    OBVIOUS
  <2>3. \A s \in SUBSET S : iter[s] \in G
    BY <1>2, <1>3, <1>9, <2>1, <2>2, FoldStays
  <2> QED BY <2>2, <2>3
<1> QED BY <1>1, <1>10 DEF S, base

\* The book of a poll and a pushed update alike.
LEMMA ReadingsAreRead ==
  ASSUME OrdersOK, NEW rows \in Readings
  PROVE  ReadOK(rows)
<1>1. CASE rows = BookNow
  BY <1>1, BookIsRead DEF RowsRead
<1>2. CASE rows # BookNow
  <2>1. PICK o \in DOMAIN orders : Seen(o) /\ rows = <<RowOf(o, TRUE)>>
    BY <1>2 DEF Readings
  <2>2. PICK r \in BookRows : r = RowOf(o, TRUE) /\ AtBroker(r.ord)
    BY <2>1, RowRead
  <2>3. rows = <<r>> /\ rows \in Seq(BookRows) /\ \A i \in DOMAIN rows : rows[i] = r
    BY <2>1, <2>2, OneRow
  <2> QED BY <2>2, <2>3 DEF ReadOK
<1> QED BY <1>1, <1>2

\* A pass commits a sound ledger; the orders stay as they are.
LEMMA CommitKeeps ==
  ASSUME LedgerInv, NEW d, DbOK(d), Commit(d), orders' = orders, stray' = stray, ReadsOK'
  PROVE  LedgerInv'
<1>1. OrdersOK' /\ WasOK' /\ OrdersGoOn
  BY LedgerNow DEF OrdersOK, WasOK, OnItsWay, OrdersGoOn, AtBroker
<1>2. DbOK(d)'
  BY <1>1, LedgerNow, LedgerGoesOn
<1>3. d = Ledger'
  <2>1. d = [lots |-> d.lots, exits |-> d.exits, doomed |-> d.doomed]
    BY LedgerRows
  <2> QED BY <2>1 DEF Ledger, Commit
<1>4. DbOK(Ledger)'
  BY <1>2, <1>3, LedgerIs
<1> QED BY <1>1, <1>4 DEF LedgerInv

\* Nothing read.
LEMMA EmptyRead == ReadOK(<<>>) /\ <<>> \in Seq(BookRows) /\ <<>> \in Seq(Int)
BY DEF ReadOK

\* A pass on what is read now,
LEMMA ReconcileKeeps ==
  ASSUME LedgerInv, NEW aged \in BOOLEAN, Reconcile(aged)
  PROVE  LedgerInv'
<1>1. PICK rows \in Readings : Commit(Pass(rows, aged)) /\ UNCHANGED <<orders, stray>> /\ UNCHANGED reads
  BY DEF Reconcile
<1>2. PICK d : d = Pass(rows, aged)
  OBVIOUS
<1>3. DbOK(d)
  BY <1>2, LedgerNow, ReadingsAreRead, PassKeeps
<1>4. ReadsOK'
  BY <1>1, LedgerNow DEF ReadsOK, ReadOK, AtBroker, reads
<1> QED BY <1>1, <1>2, <1>3, <1>4, CommitKeeps

\* and one on what was read earlier.
LEMMA PassLateKeeps ==
  ASSUME LedgerInv, PassLate
  PROVE  LedgerInv'
<1>1. Commit(Pass(late, FALSE)) /\ UNCHANGED <<orders, stray, sync>> /\ late' = <<>>
  BY DEF PassLate
<1>2. PICK d, rows : rows = late /\ d = Pass(rows, FALSE)
  OBVIOUS
<1>3. DbOK(d)
  BY <1>2, LedgerNow, PassKeeps DEF ReadsOK
<1>4. ReadsOK'
  BY <1>1, LedgerNow, EmptyRead DEF ReadsOK, ReadOK, AtBroker
<1> QED BY <1>1, <1>2, <1>3, <1>4, CommitKeeps

\* Nothing changes but what has been read.
LEMMA OnlyReads ==
  ASSUME LedgerInv, UNCHANGED <<orders, db, doomed, stray>>, ReadsOK'
  PROVE  LedgerInv'
<1>1. Commit(Ledger) \/ UNCHANGED <<lots, exits, doomed>>
  BY DEF db
<1>2. PICK d : d = Ledger
  OBVIOUS
<1>3. OrdersOK' /\ WasOK' /\ OrdersGoOn /\ d = Ledger' /\ stray \subseteq stray'
  BY <1>2, LedgerNow DEF OrdersOK, WasOK, OnItsWay, OrdersGoOn, AtBroker, Ledger, db
<1>4. DbOK(Ledger)'
  BY <1>2, <1>3, LedgerNow, LedgerGoesOn, LedgerIs
<1> QED BY <1>3, <1>4 DEF LedgerInv

\* A call reads, and its pass comes later.
LEMMA ReadAheadKeeps ==
  ASSUME LedgerInv, ReadAhead
  PROVE  LedgerInv'
<1>1. late' \in Readings /\ UNCHANGED <<orders, db, doomed, stray>> /\ sync' = sync
  BY DEF ReadAhead, marks
<1>2. PICK rows : rows = late'
  OBVIOUS
<1>3. ReadOK(rows)
  BY <1>1, <1>2, LedgerNow, ReadingsAreRead
<1>4. ReadsOK'
  BY <1>1, <1>2, <1>3, LedgerNow DEF ReadsOK, ReadOK, AtBroker
<1> QED BY <1>1, <1>4, OnlyReads

\* Sums of shares are numbers.
LEMMA NetIsInt ==
  ASSUME NEW ls \in Seq(LotRows)
  PROVE  Net(ls) \in Int
<1>1. PICK f, S : /\ f = [n \in DOMAIN ls |-> ls[n].side * ls[n].open] /\ S = {n \in DOMAIN ls : ls[n].st = "OPEN"}
                  /\ Net(ls) = SumFunctionOnSet(f, S)
  BY DEF Net
<1>2. DOMAIN ls = 1..Len(ls) /\ Len(ls) \in Nat /\ \A n \in DOMAIN ls : ls[n] \in LotRows
  <2> HIDE DEF LotRows
  <2> QED OBVIOUS
<1>3. IsFiniteSet(S) /\ S \subseteq DOMAIN ls
  <2>1. IsFiniteSet(1..Len(ls))
    BY <1>2, FS_Interval
  <2> QED BY <1>1, <1>2, <2>1, FS_Subset
<1>4. \A n \in S : f[n] \in Int
  <2> SUFFICES ASSUME NEW n \in S PROVE ls[n].side * ls[n].open \in Int
    BY <1>1, <1>3
  <2>1. ls[n].side \in {1, -1} /\ ls[n].open \in Nat
    BY <1>2, <1>3 DEF LotRows, LotSet
  <2> QED BY <2>1
<1> QED BY <1>1, <1>3, <1>4, SumIsInt

\* The same for the account.
LEMMA AccountNetIsInt ==
  ASSUME OrdersOK
  PROVE  AccountNet \in Int
<1>1. PICK f : f = [o \in DOMAIN orders |-> orders[o].side * orders[o].done]
  OBVIOUS
<1>2. DOMAIN orders = 1..Len(orders) /\ Len(orders) \in Nat /\ \A o \in DOMAIN orders : orders[o] \in OrderRows
  BY DEF OrdersOK
<1>3. IsFiniteSet(DOMAIN orders)
  BY <1>2, FS_Interval
<1>4. \A o \in DOMAIN orders : f[o] \in Int
  <2> SUFFICES ASSUME NEW o \in DOMAIN orders PROVE orders[o].side * orders[o].done \in Int
    BY <1>1
  <2>1. orders[o].side \in {1, -1} /\ orders[o].done \in Nat
    BY <1>2 DEF OrderRows
  <2> QED BY <2>1
<1>5. SumFunctionOnSet(f, DOMAIN orders) \in Int
  BY <1>3, <1>4, SumIsInt
<1> QED BY <1>1, <1>5, LedgerAssumption DEF AccountNet

\* A position sync reads the book, then the positions, or gives up.
LEMMA SyncReadsKeep ==
  ASSUME LedgerInv, SyncBook \/ SyncPositions \/ SyncBlind
  PROVE  LedgerInv'
<1>0. PICK s, a : s = sync /\ a = late
  OBVIOUS
<1>1. UNCHANGED <<orders, db, doomed, stray>> /\ late' = a
  BY <1>0 DEF SyncBook, SyncPositions, SyncBlind, marks
<1>2. /\ s \in [on : BOOLEAN, rows : Seq(BookRows), net : Seq(Int)] /\ ReadOK(s.rows) /\ ReadOK(a)
  BY <1>0, LedgerNow DEF ReadsOK
<1>3. PICK t : t = sync'
  OBVIOUS
<1>4. t \in [on : BOOLEAN, rows : Seq(BookRows), net : Seq(Int)] /\ ReadOK(t.rows)
  <2>1. CASE SyncBook
    <3>1. PICK b \in Seq(BookRows) : b = BookNow /\ ReadOK(b)
      BY LedgerNow, BookIsRead DEF RowsRead
    <3>2. t = [on |-> TRUE, rows |-> b, net |-> <<>>]
      BY <1>3, <2>1, <3>1 DEF SyncBook
    <3> HIDE DEF BookRows
    <3> QED BY <3>1, <3>2, EmptyRead
  <2>2. CASE SyncPositions
    <3>1. PICK n \in Seq(Int) : n = <<AccountNet>>
      BY LedgerNow, AccountNetIsInt, OneRow
    <3>2. t = [s EXCEPT !.net = n]
      BY <1>0, <1>3, <2>2, <3>1 DEF SyncPositions
    <3> HIDE DEF BookRows
    <3> QED BY <1>2, <3>2
  <2>3. CASE SyncBlind
    <3>1. t = [on |-> FALSE, rows |-> <<>>, net |-> <<>>]
      BY <1>3, <2>3 DEF SyncBlind, NoSync
    <3> HIDE DEF BookRows
    <3> QED BY <3>1, EmptyRead
  <2> QED BY <2>1, <2>2, <2>3 DEF SyncBook, SyncPositions, SyncBlind
<1>5. ReadsOK'
  BY <1>1, <1>2, <1>3, <1>4 DEF ReadsOK, ReadOK, AtBroker
<1> QED BY <1>1, <1>5, OnlyReads

\* What the positions show and the lots do not becomes a lot.
LEMMA WithDeltaKeeps ==
  ASSUME OrdersOK, NEW d, DbOK(d), NEW q \in Int
  PROVE  DbOK(WithDelta(d, q))
<1>1. CASE q = 0
  BY <1>1 DEF WithDelta
<1>2. CASE q # 0
  <2>1. PICK side \in {1, -1}, k \in Nat \ {0} : side = (IF q > 0 THEN 1 ELSE -1) /\ k = IF q > 0 THEN q ELSE -q
    BY <1>2
  <2>2. PICK at \in Nat : at = 2 * Len(orders) + 1
    <3>1. Len(orders) \in Nat
      BY DEF OrdersOK
    <3> QED BY <3>1
  <2>3. PICK l : l = NewLot(side, k, "OPEN", 0, TRUE, at)
    OBVIOUS
  <2>4. l \in LotRows /\ l.tag = 0 /\ l.st = "OPEN"
    BY <2>3 DEF NewLot, LotRows, LotSet, Unfilled
  <2>5. WithDelta(d, q) = [d EXCEPT !.lots = Append(@, l)]
    BY <1>2, <2>1, <2>2, <2>3 DEF WithDelta
  <2> QED BY <2>4, <2>5, AppendLotKeeps
<1> QED BY <1>1, <1>2

\* A position sync: its pass, and the lot it adds.
LEMMA SyncPassKeeps ==
  ASSUME LedgerInv, SyncPass
  PROVE  LedgerInv'
<1>1. PICK rows, net : rows = sync.rows /\ net = sync.net[1]
  OBVIOUS
<1>2. ReadOK(rows) /\ net \in Int
  <2>1. sync \in [on : BOOLEAN, rows : Seq(BookRows), net : Seq(Int)] /\ ReadOK(sync.rows)
    BY LedgerNow DEF ReadsOK
  <2>2. PICK n \in Seq(Int) : n = sync.net
    BY <2>1
  <2>3. n # <<>>
    BY <2>2 DEF SyncPass
  <2>4. n[1] \in Int
    BY <2>3
  <2> QED BY <1>1, <2>1, <2>2, <2>4
<1>3. PICK d : d = Pass(rows, FALSE)
  OBVIOUS
<1>4. DbOK(d)
  BY <1>2, <1>3, LedgerNow, PassKeeps
<1>5. PICK q \in Int : q = Delta(d, net)
  <2>1. Net(d.lots) \in Int
    BY <1>4, LedgerRows, NetIsInt
  <2> QED BY <1>2, <2>1 DEF Delta
<1>6. DbOK(WithDelta(d, q))
  BY <1>4, LedgerNow, WithDeltaKeeps
<1>7. /\ UNCHANGED <<orders, stray, late>> /\ sync' = NoSync
      /\ Commit(d) \/ Commit(WithDelta(d, q))
  BY <1>1, <1>3, <1>5 DEF SyncPass
<1>8. ReadsOK'
  <2>1. sync' = [on |-> FALSE, rows |-> <<>>, net |-> <<>>]
    BY <1>7 DEF NoSync
  <2>2. ReadOK(late) /\ late' = late
    BY <1>7, LedgerNow DEF ReadsOK
  <2>3. ReadOK(late)'
    BY <1>7, <2>2 DEF ReadOK, AtBroker
  <2>4. sync' \in [on : BOOLEAN, rows : Seq(BookRows), net : Seq(Int)] /\ sync'.rows = <<>>
    <3> HIDE DEF BookRows
    <3> QED BY <2>1, EmptyRead
  <2>5. ReadOK(sync.rows)'
    BY <2>4, EmptyRead DEF ReadOK
  <2> QED BY <2>3, <2>4, <2>5 DEF ReadsOK
<1> QED BY <1>4, <1>6, <1>7, <1>8, CommitKeeps

\* At the start there is at most one lot, from the day before.
LEMMA LedgerBegins == LedgerInit => LedgerInv
<1> SUFFICES ASSUME LedgerInit PROVE LedgerInv
  OBVIOUS
<1>1. /\ orders = <<>> /\ exits = <<>> /\ late = <<>> /\ sync = [on |-> FALSE, rows |-> <<>>, net |-> <<>>]
      /\ doomed = {} /\ Held \in Nat
  BY LedgerAssumption DEF LedgerInit, NoSync
<1>2. OrdersOK /\ WasOK
  <2>1. orders \in Seq(OrderRows) /\ DOMAIN orders = {}
    BY <1>1
  <2> QED BY <2>1 DEF OrdersOK, WasOK
<1>3. ReadsOK
  <2>1. sync \in [on : BOOLEAN, rows : Seq(BookRows), net : Seq(Int)] /\ sync.rows = <<>>
    <3> HIDE DEF BookRows
    <3> QED BY <1>1, EmptyRead
  <2> QED BY <1>1, <2>1, EmptyRead DEF ReadsOK
<1>4. lots \in Seq(LotRows) /\ \A n \in DOMAIN lots : lots[n].tag = 0
  <2>1. CASE lots = <<>>
    BY <2>1
  <2>2. CASE lots = <<NewLot(1, Held, "OPEN", 0, FALSE, 0)>> /\ Held > 0
    <3>1. PICK l : l = NewLot(1, Held, "OPEN", 0, FALSE, 0)
      OBVIOUS
    <3>2. l \in LotRows /\ l.tag = 0
      BY <1>1, <2>2, <3>1 DEF NewLot, LotRows, LotSet, Unfilled
    <3> QED BY <2>2, <3>1, <3>2, OneRow
  <2> QED BY <2>1, <2>2 DEF LedgerInit
<1>5. PICK d : d = Ledger
  OBVIOUS
<1>6. /\ d.lots = lots /\ d.exits = <<>> /\ d.doomed = {} /\ d \in DbRows /\ DOMAIN d.exits = {}
  <2>1. <<>> \in Seq(ExitSet)
    OBVIOUS
  <2> QED BY <1>1, <1>4, <1>5, <2>1 DEF Ledger, DbRows
<1>7. Refers(d) /\ Waiting(d) /\ Swept(d)
  BY <1>4, <1>6 DEF Refers, Waiting, Swept, OnItsWay
<1>8. DbOK(Ledger)
  BY <1>5, <1>6, <1>7 DEF DbOK
<1> QED BY <1>2, <1>3, <1>8 DEF LedgerInv

\* Every request, answer, read and pass keeps the invariant.
LEMMA LedgerSteps == LedgerInv /\ [LedgerNext]_ledgerVars => LedgerInv'
<1> SUFFICES ASSUME LedgerInv, [LedgerNext]_ledgerVars PROVE LedgerInv'
  OBVIOUS
<1>0. \A q \in 1..MaxQty : q \in Nat \ {0}
  BY LedgerAssumption
<1>1. CASE PlaceNext
  BY <1>0, <1>1, PlaceEntryKeeps, PlaceNoRowKeeps, PlaceExitKeeps DEF PlaceNext
<1>2. CASE CardNext
  BY <1>0, <1>2, PlaceNoRowKeeps DEF CardNext
<1>3. CASE ReenterNext
  BY <1>0, <1>3, ReenterKeeps DEF ReenterNext
<1>4. CASE BrokerNext
  <2>1. PICK o \in DOMAIN orders : Accept(o) \/ (\E f \in 0..MaxQty : Ends(o, f)) \/ AnswerTaken(o) \/ AnswerRefused(o)
    BY <1>4 DEF BrokerNext
  <2>2. CASE \E f \in 0..MaxQty : Ends(o, f)
    <3>1. PICK f \in Nat : Ends(o, f)
      BY <2>2
    <3> QED BY <3>1, BrokerKeeps
  <2>3. CASE Accept(o)
    <3>1. 0 \in Nat
      OBVIOUS
    <3> QED BY <2>3, <3>1, BrokerKeeps
  <2> QED BY <2>1, <2>2, <2>3, AnswerTakenKeeps, AnswerRefusedKeeps
<1>5. CASE PassNext
  BY <1>5, ReconcileKeeps, ReadAheadKeeps, PassLateKeeps, CancelSiblingKeeps DEF PassNext
<1>6. CASE LossNext
  <2>1. CASE \E o \in DOMAIN orders : AnswerLost(o) \/ \E f \in 1..MaxQty : Trades(o, f)
    <3>1. PICK o \in DOMAIN orders : AnswerLost(o) \/ \E f \in 1..MaxQty : Trades(o, f)
      BY <2>1
    <3>2. CASE \E f \in 1..MaxQty : Trades(o, f)
      <4>1. PICK f \in Nat : Trades(o, f)
        BY <3>2
      <4> QED BY <4>1, BrokerKeeps
    <3> QED BY <3>1, <3>2, AnswerLostKeeps
  <2>2. CASE SyncBook \/ SyncPositions \/ SyncBlind
    BY <2>2, SyncReadsKeep
  <2>3. CASE SyncPass
    BY <2>3, SyncPassKeeps
  <2> QED BY <1>6, <2>1, <2>2, <2>3 DEF LossNext
<1>7. CASE UNCHANGED ledgerVars
  <2>1. UNCHANGED <<orders, db, doomed, stray>> /\ UNCHANGED reads
    BY <1>7 DEF ledgerVars, marks
  <2>2. ReadsOK'
    BY <2>1, LedgerNow DEF ReadsOK, ReadOK, AtBroker, reads
  <2> QED BY <2>1, <2>2, OnlyReads
<1> QED BY <1>1, <1>2, <1>3, <1>4, <1>5, <1>6, <1>7 DEF LedgerNext

\* So it always holds,
LEMMA LedgerHolds == LedgerSpec => []LedgerInv
BY LedgerBegins, LedgerSteps, PTL DEF LedgerSpec

\* and says what the rows are
LEMMA LedgerTyped == LedgerInv => LedgerTypeOK
<1> SUFFICES ASSUME LedgerInv PROVE LedgerTypeOK
  OBVIOUS
<1>1. lots \in Seq(LotSet)
  <2>1. \A n \in DOMAIN lots : lots[n] \in LotSet
    BY LedgerNow
  <2>2. lots \in Seq(LotRows)
    BY LedgerNow
  <2>3. lots = [n \in DOMAIN lots |-> lots[n]]
    <3> HIDE DEF LotRows
    <3> QED BY <2>2
  <2> QED BY <2>1, <2>2, <2>3, TableOf
<1>2. \A n \in DOMAIN lots : /\ lots[n].open <= lots[n].entry /\ (lots[n].st = "CLOSED" <=> lots[n].open = 0)
                             /\ lots[n].st \in Unfilled => lots[n].open = lots[n].entry
  BY LedgerNow DEF LotRows
<1> QED BY <1>1, <1>2, LedgerNow DEF LedgerTypeOK, Lots

\* and which exits rest.
LEMMA LedgerIsSwept == LedgerInv => ClosedIsSwept
BY LedgerNow DEF DbOK, Swept, Rests, Resting, ClosedIsSwept

\* Whatever the routes, the broker and the passes do, in any order and on books
\* read at any time, order_lots and lot_exits keep well-formed rows: a lot has
\* never more open than it was entered for, is CLOSED exactly when nothing is
\* open, and loses nothing before it is filled.
THEOREM LedgerWellTyped == LedgerSpec => []LedgerTypeOK
BY LedgerHolds, LedgerTyped, PTL

\* And an exit that still rests at the broker for a CLOSED lot is one that
\* _cancel_sibling_exits is about to cancel, or that it could not: its number
\* was stored after the lot had closed, or the broker refused the cancel.
THEOREM ClosedLotsAreSwept == LedgerSpec => []ClosedIsSwept
BY LedgerHolds, LedgerIsSwept, PTL

-----------------------------------------------------------------------------
(* What the ledger adds up to                                              *)

HasFilled(l) == l.st \in {"OPEN", "CLOSED"}
OpenPart(l) == IF l.st = "OPEN" THEN l.side * l.open ELSE 0
OpenSum(L) == SumFunctionOnSet([n \in DOMAIN L |-> OpenPart(L[n])], DOMAIN L)
LotSum(L, o) == SumFunctionOnSet([n \in DOMAIN L |-> LotShare(L[n], o)], DOMAIN L)
ExitSum(X, o) == SumFunctionOnSet([e \in DOMAIN X |-> ExitShare(X[e], o)], DOMAIN X)
LotTable(L) == L \in Seq(LotRows)
ExitTable(X) == X \in Seq(ExitSet)
Tables(d) == LotTable(d.lots) /\ ExitTable(d.exits)

\* What a row adds is a number.
LEMMA RowShares ==
  /\ \A l \in LotRows : OpenPart(l) \in Int /\ \A o : LotShare(l, o) \in Nat
  /\ \A x \in ExitSet : \A o : ExitShare(x, o) \in Nat
<1>1. ASSUME NEW l \in LotRows PROVE OpenPart(l) \in Int /\ \A o : LotShare(l, o) \in Nat
  <2>1. l.entry \in Nat /\ l.open \in Nat /\ l.side \in {1, -1}
    BY DEF LotRows, LotSet
  <2>2. l.side * l.open \in Int
    BY <2>1
  <2> QED BY <2>1, <2>2 DEF OpenPart, LotShare
<1>2. ASSUME NEW x \in ExitSet PROVE \A o : ExitShare(x, o) \in Nat
  BY DEF ExitShare, ExitSet
<1> QED BY <1>1, <1>2

\* The open lots are the lots, each with what it has open.
LEMMA NetIsOpen ==
  ASSUME NEW L, LotTable(L)
  PROVE  Net(L) = OpenSum(L) /\ Net(L) \in Int
<1> DEFINE S == {n \in DOMAIN L : L[n].st = "OPEN"}
<1> DEFINE f == [n \in DOMAIN L |-> OpenPart(L[n])]
<1> DEFINE g == [n \in DOMAIN L |-> L[n].side * L[n].open]
<1>1. DOMAIN L = 1..Len(L) /\ Len(L) \in Nat /\ \A n \in DOMAIN L : L[n] \in LotRows
  BY DEF LotTable
<1>2. IsFiniteSet(DOMAIN L) /\ S \subseteq DOMAIN L
  BY <1>1, FS_Interval
<1>3. \A n \in DOMAIN L : f[n] \in Int
  BY <1>1, RowShares
<1>4. (\A n \in DOMAIN L \ S : f[n] = 0) /\ \A n \in S : g[n] = f[n]
  BY DEF OpenPart
<1>5. IsFiniteSet(S)
  BY <1>2, FS_Subset
<1>6. Net(L) = SumFunctionOnSet(g, S) /\ OpenSum(L) = SumFunctionOnSet(f, DOMAIN L)
  BY DEF Net, OpenSum
<1> HIDE DEF f, g, S
<1>7. SumFunctionOnSet(f, DOMAIN L) = SumFunctionOnSet(f, S)
  BY <1>2, <1>3, <1>4, SumPart
<1>8. SumFunctionOnSet(g, S) = SumFunctionOnSet(f, S)
  BY <1>4, <1>5, SumSame
<1>9. SumFunctionOnSet(f, DOMAIN L) \in Int
  BY <1>2, <1>3, SumIsInt
<1> QED BY <1>6, <1>7, <1>8, <1>9

\* What the rows of an order stand for is a number.
LEMMA BookedIs ==
  ASSUME NEW d, Tables(d), NEW o
  PROVE  /\ BookedIn(d, o) = LotSum(d.lots, o) + ExitSum(d.exits, o)
         /\ LotSum(d.lots, o) \in Nat /\ ExitSum(d.exits, o) \in Nat /\ BookedIn(d, o) \in Nat
<1> DEFINE f == [n \in DOMAIN d.lots |-> LotShare(d.lots[n], o)]
<1> DEFINE g == [e \in DOMAIN d.exits |-> ExitShare(d.exits[e], o)]
<1>1. /\ DOMAIN d.lots = 1..Len(d.lots) /\ Len(d.lots) \in Nat /\ \A n \in DOMAIN d.lots : d.lots[n] \in LotRows
      /\ DOMAIN d.exits = 1..Len(d.exits) /\ Len(d.exits) \in Nat /\ \A e \in DOMAIN d.exits : d.exits[e] \in ExitSet
  BY DEF Tables, LotTable, ExitTable
<1>2. IsFiniteSet(DOMAIN d.lots) /\ IsFiniteSet(DOMAIN d.exits)
  <2>1. IsFiniteSet(1..Len(d.lots)) /\ IsFiniteSet(1..Len(d.exits))
    BY <1>1, FS_Interval
  <2> QED BY <1>1, <2>1
<1>3. (\A n \in DOMAIN d.lots : f[n] \in Nat) /\ \A e \in DOMAIN d.exits : g[e] \in Nat
  BY <1>1, RowShares
<1>4. LotSum(d.lots, o) = SumFunctionOnSet(f, DOMAIN d.lots) /\ ExitSum(d.exits, o) = SumFunctionOnSet(g, DOMAIN d.exits)
  BY DEF LotSum, ExitSum
<1> HIDE DEF f, g
<1>5. LotSum(d.lots, o) \in Nat /\ ExitSum(d.exits, o) \in Nat
  BY <1>2, <1>3, <1>4, SumNonNegative
<1> QED BY <1>5 DEF BookedIn, LotSum, ExitSum

\* Two functions on S into the integers that differ at x only.
DifferAt(f, g, S, x) ==
  /\ IsFiniteSet(S) /\ x \in S
  /\ \A y \in S : f[y] \in Int /\ g[y] \in Int
  /\ \A y \in S \ {x} : f[y] = g[y]
\* Their sums differ by what they differ by there.
LEMMA SumsDiffer ==
  ASSUME NEW f, NEW g, NEW S, NEW x, DifferAt(f, g, S, x)
  PROVE  SumFunctionOnSet(g, S) = SumFunctionOnSet(f, S) - f[x] + g[x]
<1>1. /\ IsFiniteSet(S) /\ x \in S
      /\ \A y \in S : f[y] \in Int /\ g[y] \in Int
      /\ \A y \in S \ {x} : f[y] = g[y]
  BY DEF DifferAt
<1> QED BY <1>1, SumChange

\* One lot changes.
LEMMA LotChanged ==
  ASSUME NEW L, LotTable(L), NEW n \in DOMAIN L, NEW l \in LotRows
  PROVE  /\ OpenSum([L EXCEPT ![n] = l]) = OpenSum(L) - OpenPart(L[n]) + OpenPart(l)
         /\ \A o : LotSum([L EXCEPT ![n] = l], o) = LotSum(L, o) - LotShare(L[n], o) + LotShare(l, o)
<1> DEFINE K == [L EXCEPT ![n] = l]
<1>1. /\ DOMAIN K = DOMAIN L /\ IsFiniteSet(DOMAIN L) /\ K[n] = l /\ \A k \in DOMAIN L : k # n => K[k] = L[k]
      /\ \A k \in DOMAIN L : L[k] \in LotRows
  <2>1. DOMAIN L = 1..Len(L) /\ Len(L) \in Nat
    BY DEF LotTable
  <2>2. IsFiniteSet(1..Len(L))
    BY <2>1, FS_Interval
  <2> QED BY <2>1, <2>2 DEF LotTable
<1> HIDE DEF K
<1>2. OpenSum(K) = OpenSum(L) - OpenPart(L[n]) + OpenPart(l)
  <2> DEFINE f == [k \in DOMAIN L |-> OpenPart(L[k])]
  <2> DEFINE g == [k \in DOMAIN L |-> OpenPart(K[k])]
  <2>1. /\ \A k \in DOMAIN L : f[k] \in Int /\ g[k] \in Int
        /\ \A k \in DOMAIN L \ {n} : f[k] = g[k]
        /\ f[n] = OpenPart(L[n]) /\ g[n] = OpenPart(l)
    BY <1>1, RowShares
  <2>2. OpenSum(K) = SumFunctionOnSet(g, DOMAIN L) /\ OpenSum(L) = SumFunctionOnSet(f, DOMAIN L)
    BY <1>1 DEF OpenSum
  <2> HIDE DEF f, g
  <2>3. SumFunctionOnSet(g, DOMAIN L) = SumFunctionOnSet(f, DOMAIN L) - f[n] + g[n]
    <3>1. DifferAt(f, g, DOMAIN L, n)
      BY <1>1, <2>1 DEF DifferAt
    <3> QED BY <3>1, SumsDiffer
  <2> QED BY <2>1, <2>2, <2>3
<1>3. ASSUME NEW o PROVE LotSum(K, o) = LotSum(L, o) - LotShare(L[n], o) + LotShare(l, o)
  <2> DEFINE f == [k \in DOMAIN L |-> LotShare(L[k], o)]
  <2> DEFINE g == [k \in DOMAIN L |-> LotShare(K[k], o)]
  <2>1. /\ \A k \in DOMAIN L : f[k] \in Int /\ g[k] \in Int
        /\ \A k \in DOMAIN L \ {n} : f[k] = g[k]
        /\ f[n] = LotShare(L[n], o) /\ g[n] = LotShare(l, o)
    BY <1>1, RowShares
  <2>2. LotSum(K, o) = SumFunctionOnSet(g, DOMAIN L) /\ LotSum(L, o) = SumFunctionOnSet(f, DOMAIN L)
    BY <1>1 DEF LotSum
  <2> HIDE DEF f, g
  <2>3. SumFunctionOnSet(g, DOMAIN L) = SumFunctionOnSet(f, DOMAIN L) - f[n] + g[n]
    <3>1. DifferAt(f, g, DOMAIN L, n)
      BY <1>1, <2>1 DEF DifferAt
    <3> QED BY <3>1, SumsDiffer
  <2> QED BY <2>1, <2>2, <2>3
<1> QED BY <1>2, <1>3 DEF K

\* One exit changes.
LEMMA ExitChanged ==
  ASSUME NEW X, ExitTable(X), NEW e \in DOMAIN X, NEW x \in ExitSet, NEW o
  PROVE  ExitSum([X EXCEPT ![e] = x], o) = ExitSum(X, o) - ExitShare(X[e], o) + ExitShare(x, o)
<1> DEFINE K == [X EXCEPT ![e] = x]
<1>1. /\ DOMAIN K = DOMAIN X /\ IsFiniteSet(DOMAIN X) /\ K[e] = x /\ \A k \in DOMAIN X : k # e => K[k] = X[k]
      /\ \A k \in DOMAIN X : X[k] \in ExitSet
  <2>1. DOMAIN X = 1..Len(X) /\ Len(X) \in Nat
    BY DEF ExitTable
  <2>2. IsFiniteSet(1..Len(X))
    BY <2>1, FS_Interval
  <2> QED BY <2>1, <2>2 DEF ExitTable
<1> HIDE DEF K
<1> DEFINE f == [k \in DOMAIN X |-> ExitShare(X[k], o)]
<1> DEFINE g == [k \in DOMAIN X |-> ExitShare(K[k], o)]
<1>2. /\ \A k \in DOMAIN X : f[k] \in Int /\ g[k] \in Int
      /\ \A k \in DOMAIN X \ {e} : f[k] = g[k]
      /\ f[e] = ExitShare(X[e], o) /\ g[e] = ExitShare(x, o)
  BY <1>1, RowShares
<1>3. ExitSum(K, o) = SumFunctionOnSet(g, DOMAIN X) /\ ExitSum(X, o) = SumFunctionOnSet(f, DOMAIN X)
  BY <1>1 DEF ExitSum
<1> HIDE DEF f, g
<1>4. SumFunctionOnSet(g, DOMAIN X) = SumFunctionOnSet(f, DOMAIN X) - f[e] + g[e]
  <2>1. DifferAt(f, g, DOMAIN X, e)
    BY <1>1, <1>2 DEF DifferAt
  <2> QED BY <2>1, SumsDiffer
<1> QED BY <1>2, <1>3, <1>4 DEF K

\* A lot is added.
LEMMA LotAppended ==
  ASSUME NEW L, LotTable(L), NEW l \in LotRows
  PROVE  /\ OpenSum(Append(L, l)) = OpenSum(L) + OpenPart(l)
         /\ \A o : LotSum(Append(L, l), o) = LotSum(L, o) + LotShare(l, o)
<1> DEFINE K == Append(L, l)
<1> DEFINE S == DOMAIN L
<1> DEFINE z == Len(L) + 1
<1>1. /\ DOMAIN K = S \cup {z} /\ z \notin S /\ IsFiniteSet(S) /\ K[z] = l /\ \A k \in S : K[k] = L[k]
      /\ \A k \in S \cup {z} : K[k] \in LotRows
  <2>1. DOMAIN L = 1..Len(L) /\ Len(L) \in Nat
    BY DEF LotTable
  <2>2. IsFiniteSet(1..Len(L))
    BY <2>1, FS_Interval
  <2> QED BY <2>1, <2>2 DEF LotTable
<1> HIDE DEF K, S, z
<1>2. OpenSum(K) = OpenSum(L) + OpenPart(l)
  <2> DEFINE f == [k \in S |-> OpenPart(L[k])]
  <2> DEFINE g == [k \in S \cup {z} |-> OpenPart(K[k])]
  <2>1. (\A k \in S \cup {z} : g[k] \in Int) /\ (\A k \in S : g[k] = f[k]) /\ g[z] = OpenPart(l)
    BY <1>1, RowShares
  <2>2. OpenSum(K) = SumFunctionOnSet(g, S \cup {z}) /\ OpenSum(L) = SumFunctionOnSet(f, S)
    BY <1>1 DEF OpenSum, S
  <2> HIDE DEF f, g
  <2>3. SumFunctionOnSet(g, S \cup {z}) = g[z] + SumFunctionOnSet(g, S)
    BY <1>1, <2>1, SumAdd
  <2>4. SumFunctionOnSet(g, S) = SumFunctionOnSet(f, S) /\ SumFunctionOnSet(g, S) \in Int
    BY <1>1, <2>1, SumSame, SumIsInt
  <2> QED BY <1>1, <2>1, <2>2, <2>3, <2>4, RowShares
<1>3. ASSUME NEW o PROVE LotSum(K, o) = LotSum(L, o) + LotShare(l, o)
  <2> DEFINE f == [k \in S |-> LotShare(L[k], o)]
  <2> DEFINE g == [k \in S \cup {z} |-> LotShare(K[k], o)]
  <2>1. (\A k \in S \cup {z} : g[k] \in Int) /\ (\A k \in S : g[k] = f[k]) /\ g[z] = LotShare(l, o)
    BY <1>1, RowShares
  <2>2. LotSum(K, o) = SumFunctionOnSet(g, S \cup {z}) /\ LotSum(L, o) = SumFunctionOnSet(f, S)
    BY <1>1 DEF LotSum, S
  <2> HIDE DEF f, g
  <2>3. SumFunctionOnSet(g, S \cup {z}) = g[z] + SumFunctionOnSet(g, S)
    BY <1>1, <2>1, SumAdd
  <2>4. SumFunctionOnSet(g, S) = SumFunctionOnSet(f, S) /\ SumFunctionOnSet(g, S) \in Int
    BY <1>1, <2>1, SumSame, SumIsInt
  <2> QED BY <1>1, <2>1, <2>2, <2>3, <2>4, RowShares
<1> QED BY <1>2, <1>3 DEF K

\* An exit is added.
LEMMA ExitAppended ==
  ASSUME NEW X, ExitTable(X), NEW x \in ExitSet, NEW o
  PROVE  ExitSum(Append(X, x), o) = ExitSum(X, o) + ExitShare(x, o)
<1> DEFINE K == Append(X, x)
<1> DEFINE S == DOMAIN X
<1> DEFINE z == Len(X) + 1
<1>1. /\ DOMAIN K = S \cup {z} /\ z \notin S /\ IsFiniteSet(S) /\ K[z] = x /\ \A k \in S : K[k] = X[k]
      /\ \A k \in S \cup {z} : K[k] \in ExitSet
  <2>1. DOMAIN X = 1..Len(X) /\ Len(X) \in Nat
    BY DEF ExitTable
  <2>2. IsFiniteSet(1..Len(X))
    BY <2>1, FS_Interval
  <2> QED BY <2>1, <2>2 DEF ExitTable
<1> HIDE DEF K, S, z
<1> DEFINE f == [k \in S |-> ExitShare(X[k], o)]
<1> DEFINE g == [k \in S \cup {z} |-> ExitShare(K[k], o)]
<1>2. (\A k \in S \cup {z} : g[k] \in Int) /\ (\A k \in S : g[k] = f[k]) /\ g[z] = ExitShare(x, o)
  BY <1>1, RowShares
<1>3. ExitSum(K, o) = SumFunctionOnSet(g, S \cup {z}) /\ ExitSum(X, o) = SumFunctionOnSet(f, S)
  BY <1>1 DEF ExitSum, S
<1> HIDE DEF f, g
<1>4. SumFunctionOnSet(g, S \cup {z}) = g[z] + SumFunctionOnSet(g, S)
  BY <1>1, <1>2, SumAdd
<1>5. SumFunctionOnSet(g, S) = SumFunctionOnSet(f, S) /\ SumFunctionOnSet(g, S) \in Int
  BY <1>1, <1>2, SumSame, SumIsInt
<1> QED BY <1>1, <1>2, <1>3, <1>4, <1>5, RowShares DEF K

OrderTable(O) == O \in Seq(OrderRows)
LotOrder(l) == IF l.tag = 0 THEN l.ord ELSE l.tag
ExitOrder(x) == IF x.tag = 0 THEN x.ord ELSE x.tag
Over(O, o) == O[o].st \in {"COMPLETE", "CANCELLED"}

\* A lot is of an order of its side: an entry of ours, or one that was imported.
LotFits(O, l) == LET o == LotOrder(l) IN
  /\ l.ord \in {0, o}
  /\ o # 0 => /\ o \in DOMAIN O /\ l.side = O[o].side
              /\ l.ext = (l.tag = 0) /\ l.ext = (O[o].ref # "lot")
\* An exit is of an order on the other side of a lot that was filled: an exit of
\* ours, or one of the terminal or the card that a pass of M has booked.
ExitFits(O, L, x, M) == LET o == ExitOrder(x) IN
  /\ x.st # "deleted" /\ x.took <= x.filled
  /\ x.lot \in DOMAIN L /\ HasFilled(L[x.lot]) /\ o \in DOMAIN O /\ L[x.lot].side = -O[o].side
  /\ x.ord \in {0, o}
  /\ \/ x.tag # 0 /\ O[o].ref = "exit"
     \/ x.tag = 0 /\ O[o].ref \in {"none", "card"} /\ o \in M /\ x.filled # 0
OneLot(d) == \A m, n \in DOMAIN d.lots :
  LotOrder(d.lots[m]) # 0 /\ LotOrder(d.lots[m]) = LotOrder(d.lots[n]) => m = n
OneExit(d) == \A e, f \in DOMAIN d.exits : d.exits[e].tag # 0 /\ d.exits[e].tag = d.exits[f].tag => e = f
\* A lot that waits for its fill shares its order with an exit of ours at most.
Alone(d) == \A n \in DOMAIN d.lots, e \in DOMAIN d.exits :
  d.lots[n].st \in Unfilled /\ LotOrder(d.lots[n]) = ExitOrder(d.exits[e]) => d.exits[e].tag # 0
HasRow(O, d) == \A o \in DOMAIN O :
  /\ O[o].ref = "lot" => \E n \in DOMAIN d.lots : d.lots[n].tag = o
  /\ O[o].ref = "exit" => \E e \in DOMAIN d.exits : d.exits[e].tag = o
AllFit(O, d, M) == /\ \A n \in DOMAIN d.lots : LotFits(O, d.lots[n])
                   /\ \A e \in DOMAIN d.exits : ExitFits(O, d.lots, d.exits[e], M)
RowsOne(d) == OneLot(d) /\ OneExit(d) /\ Alone(d)
RowsFitted(O, d, M) == AllFit(O, d, M) /\ RowsOne(d)

\* A fill of order o was booked.
Touched(d, o) == \/ \E n \in DOMAIN d.lots : HasFilled(d.lots[n]) /\ LotOrder(d.lots[n]) = o
                 \/ \E e \in DOMAIN d.exits : d.exits[e].filled # 0 /\ ExitOrder(d.exits[e]) = o
\* LeftOutIn, for the orders O.
LeftOut(O, d, o) ==
  \/ O[o].ref \in {"none", "card"} /\ O[o].st = "CANCELLED" /\ BookedIn(d, o) = 0
  \/ O[o].ref = "card" /\ O[o].st = "COMPLETE"
  \/ \E e \in DOMAIN d.exits : /\ d.exits[e].tag = o
                               /\ \/ d.exits[e].took < d.exits[e].filled
                                  \/ \E n \in DOMAIN d.lots : d.lots[n].ext /\ d.lots[n].ord = o
Right(O, d, o) == BookedIn(d, o) = O[o].done \/ LeftOut(O, d, o)
\* What was booked is over, and right.
AllRight(O, d) == \A o \in DOMAIN O : Touched(d, o) => Over(O, o) /\ Right(O, d, o)
Gap(O, d) == Net(d.lots) - SumFunctionOnSet([o \in DOMAIN O |-> O[o].side * BookedIn(d, o)], DOMAIN O)

-----------------------------------------------------------------------------
(* How the ledger may go on                                                *)

\* Rows stay, of the same orders, and keep what was booked of them.
SameLot(k, l) == /\ l.side = k.side /\ l.tag = k.tag /\ l.ord = k.ord /\ l.ext = k.ext
                 /\ HasFilled(k) => HasFilled(l) /\ l.entry = k.entry
SameExit(x, y) == /\ y.lot = x.lot /\ y.tag = x.tag /\ y.ord = x.ord
                  /\ x.filled # 0 => y.filled = x.filled /\ y.took = x.took
Continues(c, d) ==
  /\ DOMAIN c.lots \subseteq DOMAIN d.lots /\ DOMAIN c.exits \subseteq DOMAIN d.exits
  /\ \A n \in DOMAIN c.lots : SameLot(c.lots[n], d.lots[n])
  /\ \A e \in DOMAIN c.exits : SameExit(c.exits[e], d.exits[e])

\* A ledger continues itself, and what continues it is continued on.
LEMMA ContinuesSame == ASSUME NEW d PROVE Continues(d, d)
BY DEF Continues, SameLot, SameExit

\* Two stretches of a ledger make one.
LEMMA ContinuesChain ==
  ASSUME NEW b, NEW c, NEW d, Continues(b, c), Continues(c, d)
  PROVE  Continues(b, d)
<1>1. \A n \in DOMAIN b.lots : SameLot(b.lots[n], d.lots[n])
  BY DEF Continues, SameLot
<1>2. \A e \in DOMAIN b.exits : SameExit(b.exits[e], d.exits[e])
  BY DEF Continues, SameExit
<1> QED BY <1>1, <1>2 DEF Continues

\* What was booked stays booked.
LEMMA TouchedStays ==
  ASSUME NEW c, NEW d, Continues(c, d), NEW o, Touched(c, o)
  PROVE  Touched(d, o)
<1>1. CASE \E n \in DOMAIN c.lots : HasFilled(c.lots[n]) /\ LotOrder(c.lots[n]) = o
  BY <1>1 DEF Continues, SameLot, LotOrder, Touched
<1>2. CASE \E e \in DOMAIN c.exits : c.exits[e].filled # 0 /\ ExitOrder(c.exits[e]) = o
  BY <1>2 DEF Continues, SameExit, ExitOrder, Touched
<1> QED BY <1>1, <1>2 DEF Touched

\* The rows of the tables.
LEMMA TableRows ==
  ASSUME NEW d, Tables(d)
  PROVE  /\ DOMAIN d.lots = 1..Len(d.lots) /\ Len(d.lots) \in Nat /\ IsFiniteSet(DOMAIN d.lots)
         /\ DOMAIN d.exits = 1..Len(d.exits) /\ Len(d.exits) \in Nat /\ IsFiniteSet(DOMAIN d.exits)
         /\ \A n \in DOMAIN d.lots : d.lots[n] \in LotRows /\ d.lots[n] \in LotSet
         /\ \A e \in DOMAIN d.exits : d.exits[e] \in ExitSet
<1>1. /\ DOMAIN d.lots = 1..Len(d.lots) /\ Len(d.lots) \in Nat /\ \A n \in DOMAIN d.lots : d.lots[n] \in LotRows
      /\ DOMAIN d.exits = 1..Len(d.exits) /\ Len(d.exits) \in Nat /\ \A e \in DOMAIN d.exits : d.exits[e] \in ExitSet
  BY DEF Tables, LotTable, ExitTable
<1>2. IsFiniteSet(1..Len(d.lots)) /\ IsFiniteSet(1..Len(d.exits))
  BY <1>1, FS_Interval
<1> QED BY <1>1, <1>2 DEF LotRows

\* What a row stands for, said by the order it is of.
LEMMA SharesAre ==
  ASSUME NEW O, NEW o, o # 0
  PROVE  /\ \A l : LotFits(O, l) => LotShare(l, o) = IF HasFilled(l) /\ LotOrder(l) = o THEN l.entry ELSE 0
         /\ \A x : (x.st # "deleted" /\ x.ord \in {0, ExitOrder(x)}) =>
              ExitShare(x, o) = IF ExitOrder(x) = o THEN x.took ELSE 0
<1>1. ASSUME NEW l, LotFits(O, l)
      PROVE  LotShare(l, o) = IF HasFilled(l) /\ LotOrder(l) = o THEN l.entry ELSE 0
  <2>1. l.ord \in {0, LotOrder(l)}
    BY <1>1 DEF LotFits
  <2>2. o \in {l.ord, l.tag} <=> LotOrder(l) = o
    BY <2>1 DEF LotOrder
  <2> QED BY <2>2 DEF LotShare, HasFilled
<1>2. ASSUME NEW x, x.st # "deleted" /\ x.ord \in {0, ExitOrder(x)}
      PROVE  ExitShare(x, o) = IF ExitOrder(x) = o THEN x.took ELSE 0
  BY <1>2 DEF ExitShare, ExitOrder
<1> QED BY <1>1, <1>2

\* An order nothing was booked of stands for nothing.
LEMMA UntouchedIsNothing ==
  ASSUME NEW O, NEW M, NEW d, Tables(d), AllFit(O, d, M), NEW o, o # 0, ~Touched(d, o)
  PROVE  BookedIn(d, o) = 0
<1> DEFINE f == [n \in DOMAIN d.lots |-> LotShare(d.lots[n], o)]
<1> DEFINE g == [e \in DOMAIN d.exits |-> ExitShare(d.exits[e], o)]
<1>1. IsFiniteSet(DOMAIN d.lots) /\ IsFiniteSet(DOMAIN d.exits) /\ \A e \in DOMAIN d.exits : d.exits[e] \in ExitSet
  BY TableRows
<1>2. \A n \in DOMAIN d.lots : f[n] = 0
  BY SharesAre DEF AllFit, Touched
<1>3. \A e \in DOMAIN d.exits : g[e] = 0
  <2> SUFFICES ASSUME NEW e \in DOMAIN d.exits PROVE ExitShare(d.exits[e], o) = 0
    OBVIOUS
  <2>1. d.exits[e].st # "deleted" /\ d.exits[e].ord \in {0, ExitOrder(d.exits[e])} /\ d.exits[e].took <= d.exits[e].filled
    BY DEF AllFit, ExitFits
  <2>2. d.exits[e].took \in Nat /\ d.exits[e].filled \in Nat
    BY <1>1 DEF ExitSet
  <2>3. ExitOrder(d.exits[e]) = o => d.exits[e].took = 0
    BY <2>1, <2>2 DEF Touched
  <2> QED BY <2>1, <2>3, SharesAre
<1>4. BookedIn(d, o) = SumFunctionOnSet(f, DOMAIN d.lots) + SumFunctionOnSet(g, DOMAIN d.exits)
  BY DEF BookedIn
<1> HIDE DEF f, g
<1>5. SumFunctionOnSet(f, DOMAIN d.lots) = 0 /\ SumFunctionOnSet(g, DOMAIN d.exits) = 0
  BY <1>1, <1>2, <1>3, SumZeros
<1> QED BY <1>4, <1>5

-----------------------------------------------------------------------------
(* What is booked, and how far the books are off the account               *)

\* What the books of d say of the orders O, beside those of c: q shares more of order o.
Carries(O, c, d, o, q) ==
  /\ Net(d.lots) = Net(c.lots) + O[o].side * q
  /\ \A p \in DOMAIN O : BookedIn(d, p) = BookedIn(c, p) + (IF p = o THEN q ELSE 0)
\* Nothing more.
Calm(O, c, d) ==
  /\ Net(d.lots) = Net(c.lots) /\ \A p \in DOMAIN O : BookedIn(d, p) = BookedIn(c, p)
  /\ \A p \in DOMAIN O : Touched(d, p) => Touched(c, p)

\* The books are short of the account by as much as before.
LEMMA GapCarried ==
  ASSUME NEW O, OrderTable(O), NEW c, Tables(c), NEW d, Tables(d), NEW o \in DOMAIN O, NEW q \in Nat,
         Carries(O, c, d, o, q)
  PROVE  Gap(O, d) = Gap(O, c)
<1> DEFINE f == [p \in DOMAIN O |-> O[p].side * BookedIn(c, p)]
<1> DEFINE g == [p \in DOMAIN O |-> O[p].side * BookedIn(d, p)]
<1>1. IsFiniteSet(DOMAIN O) /\ \A p \in DOMAIN O : O[p].side \in {1, -1}
  <2>1. DOMAIN O = 1..Len(O) /\ Len(O) \in Nat /\ \A p \in DOMAIN O : O[p] \in OrderRows
    BY DEF OrderTable
  <2>2. IsFiniteSet(1..Len(O))
    BY <2>1, FS_Interval
  <2> QED BY <2>1, <2>2 DEF OrderRows
<1>2. \A p \in DOMAIN O : BookedIn(c, p) \in Nat /\ BookedIn(d, p) \in Nat
  BY BookedIs
<1>3. \A p \in DOMAIN O : f[p] \in Int /\ g[p] \in Int /\ (p # o => f[p] = g[p])
  <2> SUFFICES ASSUME NEW p \in DOMAIN O PROVE f[p] \in Int /\ g[p] \in Int /\ (p # o => f[p] = g[p])
    OBVIOUS
  <2>1. O[p].side \in Int /\ BookedIn(c, p) \in Nat /\ BookedIn(d, p) \in Nat
    BY <1>1, <1>2
  <2>2. p # o => BookedIn(d, p) = BookedIn(c, p)
    BY <2>1 DEF Carries
  <2> QED BY <2>1, <2>2
<1>4. g[o] = f[o] + O[o].side * q
  <2>1. BookedIn(d, o) = BookedIn(c, o) + q /\ O[o].side \in {1, -1} /\ BookedIn(c, o) \in Nat
    BY <1>1, <1>2 DEF Carries
  <2> QED BY <2>1
<1>5. /\ Gap(O, c) = Net(c.lots) - SumFunctionOnSet(f, DOMAIN O)
      /\ Gap(O, d) = Net(d.lots) - SumFunctionOnSet(g, DOMAIN O)
  BY DEF Gap
<1>6. Net(d.lots) = Net(c.lots) + O[o].side * q /\ Net(c.lots) \in Int /\ O[o].side * q \in Int
  <2>1. O[o].side \in Int
    BY <1>1
  <2> QED BY <2>1, NetIsOpen DEF Carries, Tables
<1> HIDE DEF f, g
<1>7. DifferAt(f, g, DOMAIN O, o)
  BY <1>1, <1>3 DEF DifferAt
<1>8. SumFunctionOnSet(g, DOMAIN O) = SumFunctionOnSet(f, DOMAIN O) - f[o] + g[o]
  BY <1>7, SumsDiffer
<1>9. SumFunctionOnSet(f, DOMAIN O) \in Int
  BY <1>1, <1>3, SumIsInt
<1> QED BY <1>3, <1>4, <1>5, <1>6, <1>8, <1>9

\* If nothing more is booked the books stay as far off the account.
LEMMA GapCalm ==
  ASSUME NEW O, NEW c, NEW d, Calm(O, c, d)
  PROVE  Gap(O, d) = Gap(O, c)
BY DEF Gap, Calm

\* What was right stays right when nothing more is booked of it,
LEMMA RightStays ==
  ASSUME NEW O, NEW M, NEW c, NEW d, Tables(c), AllFit(O, c, M), Continues(c, d), NEW o,
         BookedIn(d, o) = BookedIn(c, o), Right(O, c, o)
  PROVE  Right(O, d, o)
<1>1. CASE \E e \in DOMAIN c.exits : c.exits[e].tag = o /\ c.exits[e].took < c.exits[e].filled
  <2>1. PICK e \in DOMAIN c.exits : c.exits[e].tag = o /\ c.exits[e].took < c.exits[e].filled
    BY <1>1
  <2>2. c.exits[e].took \in Nat /\ c.exits[e].filled \in Nat
    BY TableRows DEF ExitSet
  <2>3. e \in DOMAIN d.exits /\ d.exits[e].tag = o /\ d.exits[e].took < d.exits[e].filled
    BY <2>1, <2>2 DEF Continues, SameExit
  <2> QED BY <2>3 DEF Right, LeftOut
<1>2. CASE \E e \in DOMAIN c.exits, n \in DOMAIN c.lots : c.exits[e].tag = o /\ c.lots[n].ext /\ c.lots[n].ord = o
  BY <1>2 DEF Right, LeftOut, Continues, SameExit, SameLot
<1> QED BY <1>1, <1>2 DEF Right, LeftOut

\* and all of it does if the order that more is booked of is over and right.
LEMMA CalmIsRight ==
  ASSUME NEW O, NEW M, NEW c, NEW d, Tables(c), AllFit(O, c, M), Continues(c, d), Calm(O, c, d), AllRight(O, c)
  PROVE  AllRight(O, d)
<1> SUFFICES ASSUME NEW o \in DOMAIN O, Touched(d, o) PROVE Over(O, o) /\ Right(O, d, o)
  BY DEF AllRight
<1>1. Touched(c, o) /\ BookedIn(d, o) = BookedIn(c, o)
  BY DEF Calm
<1>2. Over(O, o) /\ Right(O, c, o)
  BY <1>1 DEF AllRight
<1> QED BY <1>1, <1>2, RightStays

\* What is booked of an order that is over, and right, leaves the rest right.
LEMMA CarriedIsRight ==
  ASSUME NEW O, NEW M, NEW c, NEW d, Tables(c), AllFit(O, c, M), Continues(c, d), AllRight(O, c),
         NEW o \in DOMAIN O, Over(O, o), Right(O, d, o),
         \A p \in DOMAIN O \ {o} : BookedIn(d, p) = BookedIn(c, p) /\ (Touched(d, p) => Touched(c, p))
  PROVE  AllRight(O, d)
<1> SUFFICES ASSUME NEW p \in DOMAIN O, Touched(d, p), p # o PROVE Over(O, p) /\ Right(O, d, p)
  BY DEF AllRight
<1>1. Touched(c, p) /\ BookedIn(d, p) = BookedIn(c, p)
  OBVIOUS
<1>2. Over(O, p) /\ Right(O, c, p)
  BY <1>1 DEF AllRight
<1> QED BY <1>1, <1>2, RightStays

\* The orders of ours keep their rows.
LEMMA HasRowStays ==
  ASSUME NEW O, NEW c, NEW d, Continues(c, d), HasRow(O, c)
  PROVE  HasRow(O, d)
<1>1. \A n \in DOMAIN c.lots : n \in DOMAIN d.lots /\ d.lots[n].tag = c.lots[n].tag
  BY DEF Continues, SameLot
<1>2. \A e \in DOMAIN c.exits : e \in DOMAIN d.exits /\ d.exits[e].tag = c.exits[e].tag
  BY DEF Continues, SameExit
<1> QED BY <1>1, <1>2 DEF HasRow

\* The rows stay sound when they continue, none is added and the exits fit.
LEMMA RowsContinue ==
  ASSUME NEW O, NEW M, NEW c, Tables(c), RowsFitted(O, c, M), NEW d, Continues(c, d),
         DOMAIN d.lots = DOMAIN c.lots, DOMAIN d.exits = DOMAIN c.exits, Tables(d),
         \A e \in DOMAIN d.exits : d.exits[e] = c.exits[e] \/ ExitFits(O, d.lots, d.exits[e], M)
  PROVE  RowsFitted(O, d, M)
<1>1. \A n \in DOMAIN c.lots : /\ SameLot(c.lots[n], d.lots[n]) /\ LotOrder(d.lots[n]) = LotOrder(c.lots[n])
  BY DEF Continues, SameLot, LotOrder
<1>2. \A e \in DOMAIN c.exits : /\ d.exits[e].tag = c.exits[e].tag /\ ExitOrder(d.exits[e]) = ExitOrder(c.exits[e])
  BY DEF Continues, SameExit, ExitOrder
<1>3. \A n \in DOMAIN d.lots : LotFits(O, d.lots[n])
  <2> SUFFICES ASSUME NEW n \in DOMAIN d.lots PROVE LotFits(O, d.lots[n])
    OBVIOUS
  <2>1. LotFits(O, c.lots[n])
    BY DEF RowsFitted, AllFit
  <2> QED BY <1>1, <2>1 DEF LotFits, SameLot
<1>4. \A e \in DOMAIN d.exits : ExitFits(O, d.lots, d.exits[e], M)
  <2> SUFFICES ASSUME NEW e \in DOMAIN d.exits, d.exits[e] = c.exits[e] PROVE ExitFits(O, d.lots, d.exits[e], M)
    OBVIOUS
  <2>1. ExitFits(O, c.lots, c.exits[e], M)
    BY DEF RowsFitted, AllFit
  <2> QED BY <1>1, <2>1 DEF ExitFits, SameLot
<1>5. OneLot(d)
  BY <1>1 DEF OneLot, RowsFitted, RowsOne
<1>6. OneExit(d)
  BY <1>2 DEF OneExit, RowsFitted, RowsOne
<1>7. Alone(d)
  <2>1. \A n \in DOMAIN d.lots : d.lots[n].st \in Unfilled => c.lots[n].st \in Unfilled
    <3> SUFFICES ASSUME NEW n \in DOMAIN d.lots, d.lots[n].st \in Unfilled PROVE c.lots[n].st \in Unfilled
      OBVIOUS
    <3>1. ~HasFilled(c.lots[n])
      BY <1>1 DEF SameLot, HasFilled, Unfilled
    <3>2. c.lots[n].st \in {"PENDING", "OPEN", "CLOSED", "CANCELLED"}
      BY TableRows DEF LotSet
    <3> QED BY <3>1, <3>2 DEF HasFilled, Unfilled
  <2> QED BY <1>1, <1>2, <2>1 DEF Alone, RowsFitted, RowsOne
<1> QED BY <1>3, <1>4, <1>5, <1>6, <1>7 DEF RowsFitted, AllFit, RowsOne

\* A lot changes: what that does to a ledger, from d to e.
Fresh(k, l) == HasFilled(l) /\ ~HasFilled(k)
LotGoes(O, M, d, n, l, e) ==
  /\ Tables(e) /\ Continues(d, e) /\ RowsFitted(O, e, M)
  /\ DOMAIN e.lots = DOMAIN d.lots /\ e.lots[n] = l /\ (\A k \in DOMAIN d.lots : k # n => e.lots[k] = d.lots[k])
  /\ e.exits = d.exits
  /\ Net(e.lots) = Net(d.lots) - OpenPart(d.lots[n]) + OpenPart(l)
  /\ \A p \in DOMAIN O :
       /\ BookedIn(e, p) = BookedIn(d, p) + (IF LotOrder(l) = p /\ Fresh(d.lots[n], l) THEN l.entry ELSE 0)
       /\ Touched(e, p) => Touched(d, p) \/ (LotOrder(l) = p /\ Fresh(d.lots[n], l))
\* Writing a lot again does that to a ledger.
LEMMA LotReplaced ==
  ASSUME NEW O, OrderTable(O), NEW M, NEW d, Tables(d), RowsFitted(O, d, M), NEW n \in DOMAIN d.lots,
         NEW l \in LotRows, SameLot(d.lots[n], l), NEW e, e.lots = [d.lots EXCEPT ![n] = l], e.exits = d.exits
  PROVE  LotGoes(O, M, d, n, l, e)
<1>0. e.lots = [d.lots EXCEPT ![n] = l] /\ e.exits = d.exits
  OBVIOUS
<1>1. /\ DOMAIN e.lots = DOMAIN d.lots /\ e.lots[n] = l /\ (\A k \in DOMAIN d.lots : k # n => e.lots[k] = d.lots[k])
  BY <1>0
<1>2. Tables(e)
  <2>1. e.lots \in Seq(LotRows)
    BY <1>0 DEF Tables, LotTable
  <2> QED BY <1>0, <2>1 DEF Tables, LotTable, ExitTable
<1>3. Continues(d, e)
  BY <1>0, <1>1 DEF Continues, SameLot, SameExit
<1>4. RowsFitted(O, e, M)
  BY <1>0, <1>1, <1>2, <1>3, RowsContinue
<1>5. Net(e.lots) = Net(d.lots) - OpenPart(d.lots[n]) + OpenPart(l)
  <2>1. OpenSum(e.lots) = OpenSum(d.lots) - OpenPart(d.lots[n]) + OpenPart(l)
    BY <1>0, LotChanged DEF Tables
  <2> QED BY <1>2, <2>1, NetIsOpen DEF Tables
<1>6. LotFits(O, d.lots[n]) /\ LotFits(O, l)
  BY <1>1, <1>4 DEF RowsFitted, AllFit
<1>7. LotOrder(l) = LotOrder(d.lots[n])
  BY DEF SameLot, LotOrder
<1>8. ASSUME NEW p \in DOMAIN O
      PROVE  /\ BookedIn(e, p) = BookedIn(d, p) + (IF LotOrder(l) = p /\ Fresh(d.lots[n], l) THEN l.entry ELSE 0)
             /\ Touched(e, p) => Touched(d, p) \/ (LotOrder(l) = p /\ Fresh(d.lots[n], l))
  <2>1. p # 0
    BY DEF OrderTable
  <2>2. LotShare(l, p) = IF HasFilled(l) /\ LotOrder(l) = p THEN l.entry ELSE 0
    BY <1>6, <2>1, SharesAre
  <2>3. LotShare(d.lots[n], p) = IF HasFilled(d.lots[n]) /\ LotOrder(l) = p THEN d.lots[n].entry ELSE 0
    BY <1>6, <1>7, <2>1, SharesAre
  <2>4. LotShare(l, p) = LotShare(d.lots[n], p) + (IF LotOrder(l) = p /\ Fresh(d.lots[n], l) THEN l.entry ELSE 0)
    <3>1. d.lots[n].entry \in Nat /\ l.entry \in Nat
      BY TableRows DEF LotRows, LotSet
    <3> QED BY <2>2, <2>3, <3>1 DEF SameLot, Fresh
  <2>5. /\ BookedIn(e, p) = LotSum(e.lots, p) + ExitSum(d.exits, p)
        /\ BookedIn(d, p) = LotSum(d.lots, p) + ExitSum(d.exits, p)
        /\ LotSum(d.lots, p) \in Nat /\ ExitSum(d.exits, p) \in Nat
    BY <1>0, <1>2, BookedIs
  <2>6. LotSum(e.lots, p) = LotSum(d.lots, p) - LotShare(d.lots[n], p) + LotShare(l, p)
    BY <1>0, LotChanged DEF Tables
  <2>7. LotShare(d.lots[n], p) \in Nat /\ LotShare(l, p) \in Nat /\ l.entry \in Nat
    BY TableRows, RowShares DEF LotRows, LotSet
  <2>8. BookedIn(e, p) = BookedIn(d, p) + (IF LotOrder(l) = p /\ Fresh(d.lots[n], l) THEN l.entry ELSE 0)
    BY <2>4, <2>5, <2>6, <2>7
  <2>9. Touched(e, p) => Touched(d, p) \/ (LotOrder(l) = p /\ Fresh(d.lots[n], l))
    BY <1>0, <1>1, <1>7 DEF Touched, Fresh
  <2> QED BY <2>8, <2>9
<1> QED BY <1>0, <1>1, <1>2, <1>3, <1>4, <1>5, <1>8 DEF LotGoes

\* An exit changes.
ExitGoes(O, M, d, k, y, e) ==
  /\ Tables(e) /\ Continues(d, e) /\ RowsFitted(O, e, M) /\ e.lots = d.lots
  /\ DOMAIN e.exits = DOMAIN d.exits /\ e.exits[k] = y
  /\ \A p \in DOMAIN O :
       /\ BookedIn(e, p) = BookedIn(d, p) + (IF ExitOrder(y) = p /\ d.exits[k].filled = 0 THEN y.took ELSE 0)
       /\ Touched(e, p) => Touched(d, p) \/ (ExitOrder(y) = p /\ d.exits[k].filled = 0 /\ y.filled # 0)
\* So does writing an exit again, for exits,
LEMMA ExitReplaced ==
  ASSUME NEW O, OrderTable(O), NEW M, NEW d, Tables(d), RowsFitted(O, d, M), NEW k \in DOMAIN d.exits,
         NEW y \in ExitSet, SameExit(d.exits[k], y), ExitFits(O, d.lots, y, M),
         NEW e, e.exits = [d.exits EXCEPT ![k] = y], e.lots = d.lots
  PROVE  ExitGoes(O, M, d, k, y, e)
<1>0. e.exits = [d.exits EXCEPT ![k] = y] /\ e.lots = d.lots
  OBVIOUS
<1>1. DOMAIN e.exits = DOMAIN d.exits /\ e.exits[k] = y /\ (\A j \in DOMAIN d.exits : j # k => e.exits[j] = d.exits[j])
  BY <1>0
<1>2. Tables(e)
  <2>1. e.exits \in Seq(ExitSet)
    BY <1>0 DEF Tables, ExitTable
  <2> QED BY <1>0, <2>1 DEF Tables, LotTable, ExitTable
<1>3. Continues(d, e)
  BY <1>0, <1>1 DEF Continues, SameLot, SameExit
<1>4. RowsFitted(O, e, M)
  BY <1>0, <1>1, <1>2, <1>3, RowsContinue
<1>5. ExitFits(O, d.lots, d.exits[k], M)
  BY DEF RowsFitted, AllFit
<1>6. ExitOrder(y) = ExitOrder(d.exits[k])
  BY DEF SameExit, ExitOrder
<1>7. ASSUME NEW p \in DOMAIN O
      PROVE  /\ BookedIn(e, p) = BookedIn(d, p) + (IF ExitOrder(y) = p /\ d.exits[k].filled = 0 THEN y.took ELSE 0)
             /\ Touched(e, p) => Touched(d, p) \/ (ExitOrder(y) = p /\ d.exits[k].filled = 0 /\ y.filled # 0)
  <2>1. p # 0
    BY DEF OrderTable
  <2>2. ExitShare(y, p) = IF ExitOrder(y) = p THEN y.took ELSE 0
    BY <2>1, SharesAre DEF ExitFits
  <2>3. ExitShare(d.exits[k], p) = IF ExitOrder(y) = p THEN d.exits[k].took ELSE 0
    <3>1. d.exits[k].st # "deleted" /\ d.exits[k].ord \in {0, ExitOrder(d.exits[k])}
      BY <1>5 DEF ExitFits
    <3> QED BY <1>6, <2>1, <3>1, SharesAre
  <2>4. /\ d.exits[k].took \in Nat /\ d.exits[k].filled \in Nat /\ y.took \in Nat
        /\ d.exits[k].took <= d.exits[k].filled
    BY <1>5, TableRows DEF ExitFits, ExitSet
  <2>5. ExitShare(y, p) = ExitShare(d.exits[k], p) + (IF ExitOrder(y) = p /\ d.exits[k].filled = 0 THEN y.took ELSE 0)
    BY <2>2, <2>3, <2>4 DEF SameExit
  <2>6. /\ BookedIn(e, p) = LotSum(d.lots, p) + ExitSum(e.exits, p)
        /\ BookedIn(d, p) = LotSum(d.lots, p) + ExitSum(d.exits, p)
        /\ LotSum(d.lots, p) \in Nat /\ ExitSum(d.exits, p) \in Nat
    BY <1>0, <1>2, BookedIs
  <2>7. ExitSum(e.exits, p) = ExitSum(d.exits, p) - ExitShare(d.exits[k], p) + ExitShare(y, p)
    BY <1>0, ExitChanged DEF Tables
  <2>8. ExitShare(d.exits[k], p) \in Nat /\ ExitShare(y, p) \in Nat
    BY TableRows, RowShares
  <2>9. BookedIn(e, p) = BookedIn(d, p) + (IF ExitOrder(y) = p /\ d.exits[k].filled = 0 THEN y.took ELSE 0)
    BY <2>4, <2>5, <2>6, <2>7, <2>8
  <2>10. Touched(e, p) => Touched(d, p) \/ (ExitOrder(y) = p /\ d.exits[k].filled = 0 /\ y.filled # 0)
    BY <1>0, <1>1, <1>6 DEF Touched, SameExit
  <2> QED BY <2>9, <2>10
<1> QED BY <1>0, <1>1, <1>2, <1>3, <1>4, <1>7 DEF ExitGoes

\* A lot is added, the only one of its order.
LotComes(O, M, d, l, e) ==
  /\ Tables(e) /\ Continues(d, e) /\ RowsFitted(O, e, M)
  /\ e.exits = d.exits /\ DOMAIN e.lots = DOMAIN d.lots \cup {Len(d.lots) + 1} /\ e.lots[Len(d.lots) + 1] = l
  /\ \A n \in DOMAIN d.lots : e.lots[n] = d.lots[n]
  /\ Net(e.lots) = Net(d.lots) + OpenPart(l)
  /\ \A p \in DOMAIN O :
       /\ BookedIn(e, p) = BookedIn(d, p) + (IF LotOrder(l) = p /\ HasFilled(l) THEN l.entry ELSE 0)
       /\ Touched(e, p) => Touched(d, p) \/ (LotOrder(l) = p /\ HasFilled(l))
\* appending a lot,
LEMMA LotPutOn ==
  ASSUME NEW O, OrderTable(O), NEW M, NEW d, Tables(d), RowsFitted(O, d, M), NEW l \in LotRows, LotFits(O, l),
         \A n \in DOMAIN d.lots : LotOrder(l) # 0 => LotOrder(d.lots[n]) # LotOrder(l),
         l.st \in Unfilled => \A k \in DOMAIN d.exits : ExitOrder(d.exits[k]) = LotOrder(l) => d.exits[k].tag # 0,
         NEW e, e.lots = Append(d.lots, l), e.exits = d.exits
  PROVE  LotComes(O, M, d, l, e)
<1>0. e.lots = Append(d.lots, l) /\ e.exits = d.exits
  OBVIOUS
<1> DEFINE z == Len(d.lots) + 1
<1>1. /\ DOMAIN e.lots = DOMAIN d.lots \cup {z} /\ e.lots[z] = l /\ (\A k \in DOMAIN d.lots : e.lots[k] = d.lots[k])
      /\ z \notin DOMAIN d.lots
  BY <1>0, TableRows
<1>2. Tables(e)
  <2>1. e.lots \in Seq(LotRows)
    BY <1>0 DEF Tables, LotTable
  <2> QED BY <1>0, <2>1 DEF Tables, LotTable, ExitTable
<1>3. Continues(d, e)
  BY <1>0, <1>1 DEF Continues, SameLot, SameExit
<1> HIDE DEF z
<1>4. RowsFitted(O, e, M)
  <2>1. \A n \in DOMAIN e.lots : LotFits(O, e.lots[n])
    BY <1>1 DEF RowsFitted, AllFit
  <2>2. \A k \in DOMAIN e.exits : ExitFits(O, e.lots, e.exits[k], M)
    <3> SUFFICES ASSUME NEW k \in DOMAIN d.exits PROVE ExitFits(O, e.lots, d.exits[k], M)
      BY <1>0
    <3>1. ExitFits(O, d.lots, d.exits[k], M)
      BY DEF RowsFitted, AllFit
    <3> QED BY <1>1, <3>1 DEF ExitFits
  <2>3. OneLot(e)
    BY <1>1 DEF RowsFitted, RowsOne, OneLot
  <2>4. OneExit(e)
    BY <1>0 DEF RowsFitted, RowsOne, OneExit
  <2>5. Alone(e)
    BY <1>0, <1>1 DEF RowsFitted, RowsOne, Alone
  <2> QED BY <2>1, <2>2, <2>3, <2>4, <2>5 DEF RowsFitted, AllFit, RowsOne
<1>5. Net(e.lots) = Net(d.lots) + OpenPart(l)
  <2>1. OpenSum(e.lots) = OpenSum(d.lots) + OpenPart(l)
    BY <1>0, LotAppended DEF Tables
  <2> QED BY <1>2, <2>1, NetIsOpen DEF Tables
<1>6. ASSUME NEW p \in DOMAIN O
      PROVE  /\ BookedIn(e, p) = BookedIn(d, p) + (IF LotOrder(l) = p /\ HasFilled(l) THEN l.entry ELSE 0)
             /\ Touched(e, p) => Touched(d, p) \/ (LotOrder(l) = p /\ HasFilled(l))
  <2>1. p # 0
    BY DEF OrderTable
  <2>2. LotShare(l, p) = IF HasFilled(l) /\ LotOrder(l) = p THEN l.entry ELSE 0
    BY <2>1, SharesAre
  <2>3. /\ BookedIn(e, p) = LotSum(e.lots, p) + ExitSum(d.exits, p)
        /\ BookedIn(d, p) = LotSum(d.lots, p) + ExitSum(d.exits, p)
        /\ LotSum(d.lots, p) \in Nat /\ ExitSum(d.exits, p) \in Nat
    BY <1>0, <1>2, BookedIs
  <2>4. LotSum(e.lots, p) = LotSum(d.lots, p) + LotShare(l, p)
    BY <1>0, LotAppended DEF Tables
  <2>5. LotShare(l, p) \in Nat
    BY RowShares
  <2>6. BookedIn(e, p) = BookedIn(d, p) + (IF LotOrder(l) = p /\ HasFilled(l) THEN l.entry ELSE 0)
    BY <2>2, <2>3, <2>4, <2>5
  <2>7. Touched(e, p) => Touched(d, p) \/ (LotOrder(l) = p /\ HasFilled(l))
    BY <1>0, <1>1 DEF Touched
  <2> QED BY <2>6, <2>7
<1> QED BY <1>0, <1>1, <1>2, <1>3, <1>4, <1>5, <1>6 DEF LotComes, z

\* An exit is added, of an order of ours that has no other, or of one that waits for no fill.
ExitComes(O, M, d, x, e) ==
  /\ Tables(e) /\ Continues(d, e) /\ RowsFitted(O, e, M) /\ e.lots = d.lots
  /\ DOMAIN e.exits = DOMAIN d.exits \cup {Len(d.exits) + 1} /\ e.exits[Len(d.exits) + 1] = x
  /\ \A k \in DOMAIN d.exits : e.exits[k] = d.exits[k]
  /\ \A p \in DOMAIN O :
       /\ BookedIn(e, p) = BookedIn(d, p) + (IF ExitOrder(x) = p THEN x.took ELSE 0)
       /\ Touched(e, p) => Touched(d, p) \/ (ExitOrder(x) = p /\ x.filled # 0)
\* and appending an exit.
LEMMA ExitPutOn ==
  ASSUME NEW O, OrderTable(O), NEW M, NEW d, Tables(d), RowsFitted(O, d, M), NEW x \in ExitSet, ExitFits(O, d.lots, x, M),
         x.tag # 0 => \A k \in DOMAIN d.exits : d.exits[k].tag # x.tag,
         x.tag = 0 => \A n \in DOMAIN d.lots : d.lots[n].st \in Unfilled => LotOrder(d.lots[n]) # ExitOrder(x),
         NEW e, e.exits = Append(d.exits, x), e.lots = d.lots
  PROVE  ExitComes(O, M, d, x, e)
<1>0. e.exits = Append(d.exits, x) /\ e.lots = d.lots
  OBVIOUS
<1> DEFINE z == Len(d.exits) + 1
<1>1. /\ DOMAIN e.exits = DOMAIN d.exits \cup {z} /\ e.exits[z] = x /\ (\A k \in DOMAIN d.exits : e.exits[k] = d.exits[k])
      /\ z \notin DOMAIN d.exits
  BY <1>0, TableRows
<1>2. Tables(e)
  <2>1. e.exits \in Seq(ExitSet)
    BY <1>0 DEF Tables, ExitTable
  <2> QED BY <1>0, <2>1 DEF Tables, LotTable, ExitTable
<1>3. Continues(d, e)
  BY <1>0, <1>1 DEF Continues, SameLot, SameExit
<1> HIDE DEF z
<1>4. RowsFitted(O, e, M)
  <2>1. \A n \in DOMAIN e.lots : LotFits(O, e.lots[n])
    BY <1>0 DEF RowsFitted, AllFit
  <2>2. \A k \in DOMAIN e.exits : ExitFits(O, e.lots, e.exits[k], M)
    BY <1>0, <1>1 DEF RowsFitted, AllFit
  <2>3. OneLot(e)
    BY <1>0 DEF RowsFitted, RowsOne, OneLot
  <2>4. OneExit(e)
    BY <1>1 DEF RowsFitted, RowsOne, OneExit
  <2>5. Alone(e)
    BY <1>0, <1>1 DEF RowsFitted, RowsOne, Alone
  <2> QED BY <2>1, <2>2, <2>3, <2>4, <2>5 DEF RowsFitted, AllFit, RowsOne
<1>6. ASSUME NEW p \in DOMAIN O
      PROVE  /\ BookedIn(e, p) = BookedIn(d, p) + (IF ExitOrder(x) = p THEN x.took ELSE 0)
             /\ Touched(e, p) => Touched(d, p) \/ (ExitOrder(x) = p /\ x.filled # 0)
  <2>1. p # 0
    BY DEF OrderTable
  <2>2. ExitShare(x, p) = IF ExitOrder(x) = p THEN x.took ELSE 0
    BY <2>1, SharesAre DEF ExitFits
  <2>3. /\ BookedIn(e, p) = LotSum(d.lots, p) + ExitSum(e.exits, p)
        /\ BookedIn(d, p) = LotSum(d.lots, p) + ExitSum(d.exits, p)
        /\ LotSum(d.lots, p) \in Nat /\ ExitSum(d.exits, p) \in Nat
    BY <1>0, <1>2, BookedIs
  <2>4. ExitSum(e.exits, p) = ExitSum(d.exits, p) + ExitShare(x, p)
    BY <1>0, ExitAppended DEF Tables
  <2>5. ExitShare(x, p) \in Nat
    BY RowShares
  <2>6. BookedIn(e, p) = BookedIn(d, p) + (IF ExitOrder(x) = p THEN x.took ELSE 0)
    BY <2>2, <2>3, <2>4, <2>5
  <2>7. Touched(e, p) => Touched(d, p) \/ (ExitOrder(x) = p /\ x.filled # 0)
    BY <1>0, <1>1 DEF Touched
  <2> QED BY <2>6, <2>7
<1> QED BY <1>0, <1>1, <1>2, <1>3, <1>4, <1>6 DEF ExitComes, z

\* A ledger that fits the orders O, and one that comes of it and is short of the account by as much.
Stands(O, M, d) == Tables(d) /\ RowsFitted(O, d, M) /\ AllRight(O, d)
Shifts(O, M, c, d) == Continues(c, d) /\ Stands(O, M, d) /\ Gap(O, d) = Gap(O, c)

\* A ledger that fits the orders moves to itself,
LEMMA MovesSame ==
  ASSUME NEW O, NEW M, NEW d, Stands(O, M, d)
  PROVE  Shifts(O, M, d, d)
BY ContinuesSame DEF Shifts

\* and by two moves in a row,
LEMMA MovesChain ==
  ASSUME NEW O, NEW M, NEW b, NEW c, NEW d, Shifts(O, M, b, c), Shifts(O, M, c, d)
  PROVE  Shifts(O, M, b, d)
BY ContinuesChain DEF Shifts

\* and when its rows continue while nothing is booked,
LEMMA CalmMoves ==
  ASSUME NEW O, NEW M, NEW c, Stands(O, M, c), NEW d, Tables(d), Continues(c, d), RowsFitted(O, d, M), Calm(O, c, d)
  PROVE  Shifts(O, M, c, d)
<1>1. AllRight(O, d)
  BY CalmIsRight DEF Stands, RowsFitted
<1>2. Gap(O, d) = Gap(O, c)
  BY GapCalm
<1> QED BY <1>1, <1>2 DEF Shifts, Stands

\* and when a fill is booked of an order that is over, right.
LEMMA CarriedMoves ==
  ASSUME NEW O, OrderTable(O), NEW M, NEW c, Stands(O, M, c), NEW d, Tables(d), Continues(c, d), RowsFitted(O, d, M),
         NEW o \in DOMAIN O, Over(O, o), Right(O, d, o), NEW q \in Nat, Carries(O, c, d, o, q),
         \A p \in DOMAIN O \ {o} : Touched(d, p) => Touched(c, p)
  PROVE  Shifts(O, M, c, d)
<1>1. Gap(O, d) = Gap(O, c)
  BY GapCarried DEF Stands
<1>2. \A p \in DOMAIN O \ {o} : BookedIn(d, p) = BookedIn(c, p)
  BY BookedIs DEF Carries, Stands
<1>3. AllRight(O, d)
  BY <1>2, CarriedIsRight DEF Stands, RowsFitted
<1> QED BY <1>1, <1>3 DEF Shifts, Stands

-----------------------------------------------------------------------------
(* Booking what a pass has read                                            *)

\* A row of a reading says what the order is, once it has ended.
RowFits(O, r) ==
  /\ r.ord \in DOMAIN O
  /\ r.st # "OPEN" => r.st = O[r.ord].st /\ r.done = O[r.ord].done
  /\ r.st = "OPEN" => r.done = 0
Told(r) == r \in BookRows /\ AtBroker(r.ord) /\ RowFits(orders, r)
HasEnded(r) == r.st \in Final /\ r.done # 0

\* What a row of a reading tells.
LEMMA ToldIs ==
  ASSUME OrdersOK, NEW r, Told(r)
  PROVE  /\ OrderTable(orders) /\ r.ord \in DOMAIN orders /\ r.ord # 0 /\ r.ord \in Nat /\ r.done \in Nat
         /\ r.st \in {"OPEN", "COMPLETE", "CANCELLED"} /\ SideOf(r) = orders[r.ord].side /\ SideOf(r) \in {1, -1}
         /\ r.st \in Final => Over(orders, r.ord) /\ r.done = orders[r.ord].done
<1>1. /\ r.ord \in Nat \ {0} /\ r.done \in Nat /\ SideOf(r) \in {1, -1} /\ r.ord \in DOMAIN orders
  BY TakenRow DEF Told
<1>2. r.st \in {"OPEN", "COMPLETE", "CANCELLED"}
  BY DEF Told, BookRows
<1>3. r.st \in Final => r.st # "OPEN"
  BY DEF Final
<1> QED BY <1>1, <1>2, <1>3 DEF Told, RowFits, Over, OrdersOK, OrderTable, SideOf

\* A lot of order o is not filled yet: nothing was booked of o, or an exit of ours has a lot beside it.
LEMMA LotIsFirst ==
  ASSUME NEW O, NEW M, NEW d, Tables(d), RowsFitted(O, d, M), NEW n \in DOMAIN d.lots, d.lots[n].st \in Unfilled,
         NEW o, o # 0, LotOrder(d.lots[n]) = o
  PROVE  \/ ~Touched(d, o)
         \/ \E e \in DOMAIN d.exits : d.exits[e].tag = o /\ d.lots[n].ext /\ d.lots[n].ord = o
<1> SUFFICES ASSUME Touched(d, o)
             PROVE  \E e \in DOMAIN d.exits : d.exits[e].tag = o /\ d.lots[n].ext /\ d.lots[n].ord = o
  OBVIOUS
<1>1. ~\E m \in DOMAIN d.lots : HasFilled(d.lots[m]) /\ LotOrder(d.lots[m]) = o
  <2> SUFFICES ASSUME NEW m \in DOMAIN d.lots, HasFilled(d.lots[m]), LotOrder(d.lots[m]) = o PROVE FALSE
    OBVIOUS
  <2>1. m = n
    BY DEF RowsFitted, RowsOne, OneLot
  <2> QED BY <2>1 DEF HasFilled, Unfilled
<1>2. PICK e \in DOMAIN d.exits : ExitOrder(d.exits[e]) = o
  BY <1>1 DEF Touched
<1>3. d.exits[e].tag # 0
  BY <1>2 DEF RowsFitted, RowsOne, Alone
<1>4. d.exits[e].tag = o /\ O[o].ref = "exit"
  BY <1>2, <1>3 DEF RowsFitted, AllFit, ExitFits, ExitOrder
<1>5. LotFits(O, d.lots[n])
  BY DEF RowsFitted, AllFit
<1>6. d.lots[n].ext /\ d.lots[n].tag = 0
  BY <1>4, <1>5 DEF LotFits
<1> QED BY <1>4, <1>6 DEF LotOrder

\* The fill of an order is booked on its lot, or the lot is as it was.
LEMMA LotBooked ==
  ASSUME OrdersOK, NEW M, NEW r, Told(r), NEW d, DbOK(d), Stands(orders, M, d),
         NEW n \in DOMAIN d.lots, LotOrder(d.lots[n]) = r.ord, NEW e, e = [d EXCEPT !.lots[n] = SettleLot(@, r)]
  PROVE  /\ Shifts(orders, M, d, e)
         /\ n \in DOMAIN e.lots /\ (HasEnded(r) => HasFilled(e.lots[n]))
<1> DEFINE k == d.lots[n]
<1> DEFINE l == SettleLot(k, r)
<1>1. /\ OrderTable(orders) /\ r.ord \in DOMAIN orders /\ r.ord # 0 /\ r.done \in Nat
      /\ r.st \in {"OPEN", "COMPLETE", "CANCELLED"}
      /\ r.st \in Final => Over(orders, r.ord) /\ r.done = orders[r.ord].done
  BY ToldIs
<1>2. k \in LotRows /\ k \in LotSet
  BY TableRows DEF Stands
<1>3. l \in LotRows
  BY <1>2, SettledLot DEF Told
<1>4. e = [lots |-> [d.lots EXCEPT ![n] = l], exits |-> d.exits, doomed |-> d.doomed]
  BY LotPut
<1>5. SettleLot(k, r) = l
  OBVIOUS
<1>6. \/ /\ HasEnded(r) /\ k.st \in Unfilled
         /\ l.side = k.side /\ l.tag = k.tag /\ l.ord = k.ord /\ l.ext = k.ext /\ l.st = "OPEN" /\ l.entry = r.done /\ l.open = r.done
      \/ /\ HasEnded(r) => k.st \notin Unfilled
         /\ k.st = "PENDING" /\ l.side = k.side /\ l.tag = k.tag /\ l.ord = k.ord /\ l.ext = k.ext /\ l.st = "CANCELLED"
      \/ /\ HasEnded(r) => k.st \notin Unfilled
         /\ l = k
  BY <1>1, <1>2 DEF SettleLot, HasEnded, LotSet
<1> HIDE DEF k, l
<1>7. SameLot(k, l)
  BY <1>6 DEF SameLot, HasFilled, Unfilled
<1>8. RowsFitted(orders, d, M) /\ Tables(d)
  BY DEF Stands
<1>9. LotGoes(orders, M, d, n, l, e)
  <2>1. SameLot(d.lots[n], l)
    BY <1>7 DEF k
  <2>2. e.lots = [d.lots EXCEPT ![n] = l] /\ e.exits = d.exits
    BY <1>4
  <2> QED BY <1>1, <1>3, <1>8, <2>1, <2>2, LotReplaced
<1>14. /\ Tables(e) /\ Continues(d, e) /\ RowsFitted(orders, e, M)
      /\ DOMAIN e.lots = DOMAIN d.lots /\ e.lots[n] = l /\ e.exits = d.exits
      /\ Net(e.lots) = Net(d.lots) - OpenPart(k) + OpenPart(l)
      /\ \A p \in DOMAIN orders :
              /\ BookedIn(e, p) = BookedIn(d, p) + (IF LotOrder(l) = p /\ Fresh(k, l) THEN l.entry ELSE 0)
              /\ Touched(e, p) => Touched(d, p) \/ (LotOrder(l) = p /\ Fresh(k, l))
  BY <1>9 DEF LotGoes, k
<1>10. LotOrder(l) = r.ord /\ LotOrder(k) = r.ord
  BY <1>7 DEF SameLot, LotOrder, k
<1>11. Net(d.lots) \in Int /\ \A p : BookedIn(d, p) \in Nat
  BY <1>8, NetIsOpen, BookedIs DEF Tables
<1>12. CASE HasEnded(r) /\ k.st \in Unfilled /\ l.side = k.side /\ l.st = "OPEN" /\ l.entry = r.done /\ l.open = r.done
  <2>1. Fresh(k, l) /\ OpenPart(k) = 0 /\ OpenPart(l) = l.side * r.done
    BY <1>12 DEF Fresh, HasFilled, Unfilled, OpenPart
  <2>2. l.side = orders[r.ord].side
    <3>1. LotFits(orders, l)
      BY <1>14 DEF RowsFitted, AllFit
    <3> QED BY <1>1, <1>10, <3>1 DEF LotFits
  <2>3. l.side * r.done \in Int
    BY <1>1, <1>3 DEF LotRows, LotSet
  <2>4. Carries(orders, d, e, r.ord, r.done)
    BY <1>14, <1>10, <1>11, <1>12, <2>1, <2>2, <2>3 DEF Carries
  <2>5. Over(orders, r.ord) /\ r.done = orders[r.ord].done
    BY <1>1, <1>12 DEF HasEnded
  <2>6. \A p \in DOMAIN orders \ {r.ord} : Touched(e, p) => Touched(d, p)
    BY <1>14, <1>10
  <2>7. Right(orders, e, r.ord)
    <3>1. CASE ~Touched(d, r.ord)
      <4>1. BookedIn(d, r.ord) = 0
        BY <1>1, <1>8, <3>1, UntouchedIsNothing DEF RowsFitted
      <4> QED BY <1>1, <2>4, <2>5, <4>1 DEF Carries, Right
    <3>2. CASE \E x \in DOMAIN d.exits : d.exits[x].tag = r.ord /\ k.ext /\ k.ord = r.ord
      BY <1>7, <1>14, <3>2 DEF Right, LeftOut, SameLot
    <3> QED BY <1>1, <1>8, <1>10, <1>12, <3>1, <3>2, LotIsFirst DEF k
  <2>8. Shifts(orders, M, d, e)
    BY <1>1, <1>14, <2>4, <2>5, <2>6, <2>7, CarriedMoves
  <2> QED BY <1>14, <1>12, <2>8 DEF HasFilled
<1>13. CASE (HasEnded(r) => k.st \notin Unfilled) /\ (l = k \/ (k.st = "PENDING" /\ l.st = "CANCELLED"))
  <2>1. ~Fresh(k, l) /\ OpenPart(k) = OpenPart(l)
    BY <1>13 DEF Fresh, HasFilled, OpenPart
  <2>2. OpenPart(l) \in Int
    BY <1>3, RowShares
  <2>3. Calm(orders, d, e)
    BY <1>14, <1>11, <2>1, <2>2 DEF Calm
  <2>4. Shifts(orders, M, d, e)
    BY <1>14, <2>3, CalmMoves
  <2>5. HasEnded(r) => HasFilled(e.lots[n])
    BY <1>2, <1>14, <1>13 DEF HasFilled, LotSet, Unfilled
  <2> QED BY <1>14, <2>4, <2>5
<1> QED BY <1>6, <1>12, <1>13

\* A lot that was filled gives up q shares: nothing of its order is booked by that.
ReducedTo(O, M, d, n, q, e) ==
  /\ Tables(e) /\ Continues(d, e) /\ RowsFitted(O, e, M) /\ e.exits = d.exits
  /\ DOMAIN e.lots = DOMAIN d.lots /\ \A k \in DOMAIN d.lots : k # n => e.lots[k] = d.lots[k]
  /\ Net(e.lots) = Net(d.lots) - d.lots[n].side * q
  /\ \A p \in DOMAIN O : BookedIn(e, p) = BookedIn(d, p) /\ (Touched(e, p) => Touched(d, p))
\* Reducing a lot that was filled does no more than that.
LEMMA ReducedMoves ==
  ASSUME NEW O, OrderTable(O), NEW M, NEW d, DbOK(d), RowsFitted(O, d, M), NEW n \in DOMAIN d.lots, HasFilled(d.lots[n]),
         NEW q \in Nat, q <= d.lots[n].open, NEW e, e = Reduce(d, n, q)
  PROVE  ReducedTo(O, M, d, n, q, e)
<1> DEFINE k == d.lots[n]
<1>0. k = d.lots[n]
  OBVIOUS
<1> HIDE DEF k
<1>1. Tables(d)
  BY LedgerRows DEF Tables, LotTable, ExitTable
<1>2. k \in LotRows /\ k.side \in {1, -1} /\ k.open \in Nat /\ HasFilled(k)
  BY <1>0, <1>1, TableRows DEF LotRows, LotSet
<1>3. PICK l \in LotRows : \E m :
           /\ Reduce(d, n, q) = [lots |-> [d.lots EXCEPT ![n] = l], exits |-> d.exits, doomed |-> m]
           /\ l.tag = k.tag /\ l.ord = k.ord /\ l.side = k.side /\ l.ext = k.ext
           /\ l.entry = k.entry /\ l.open = k.open - q
           /\ l.st = IF l.open = 0 THEN "CLOSED" ELSE "OPEN"
  <2>1. k.st \notin Unfilled
    BY <1>2 DEF HasFilled, Unfilled
  <2> QED BY <1>0, <2>1, ReduceIs
<1>4. e.lots = [d.lots EXCEPT ![n] = l] /\ e.exits = d.exits
  BY <1>3
<1>5. SameLot(d.lots[n], l)
  BY <1>0, <1>3 DEF SameLot, HasFilled
<1>6. LotGoes(O, M, d, n, l, e)
  BY <1>1, <1>4, <1>5, LotReplaced
<1>7. /\ Tables(e) /\ Continues(d, e) /\ RowsFitted(O, e, M)
      /\ DOMAIN e.lots = DOMAIN d.lots /\ \A j \in DOMAIN d.lots : j # n => e.lots[j] = d.lots[j]
      /\ Net(e.lots) = Net(d.lots) - OpenPart(k) + OpenPart(l)
      /\ \A p \in DOMAIN O :
           /\ BookedIn(e, p) = BookedIn(d, p) + (IF LotOrder(l) = p /\ Fresh(k, l) THEN l.entry ELSE 0)
           /\ Touched(e, p) => Touched(d, p) \/ (LotOrder(l) = p /\ Fresh(k, l))
  BY <1>0, <1>6 DEF LotGoes
<1>8. ~Fresh(k, l)
  BY <1>2 DEF Fresh
<1>9. OpenPart(k) = k.side * k.open
  <2>1. k.st = "CLOSED" => k.open = 0
    BY <1>2 DEF LotRows
  <2> QED BY <1>2, <2>1 DEF OpenPart, HasFilled
<1>10. OpenPart(l) = k.side * (k.open - q)
  <2>1. CASE l.open = 0
    BY <1>2, <1>3, <2>1 DEF OpenPart
  <2>2. CASE l.open # 0
    BY <1>3, <2>2 DEF OpenPart
  <2> QED BY <2>1, <2>2
<1>11. Net(d.lots) \in Int /\ \A p : BookedIn(d, p) \in Nat
  BY <1>1, NetIsOpen, BookedIs DEF Tables
<1>12. Net(e.lots) = Net(d.lots) - k.side * q
  <2>1. k.side * (k.open - q) = k.side * k.open - k.side * q
    BY <1>2
  <2>2. k.side * k.open \in Int /\ k.side * q \in Int
    BY <1>2
  <2> QED BY <1>7, <1>9, <1>10, <1>11, <2>1, <2>2
<1>13. \A p \in DOMAIN O : BookedIn(e, p) = BookedIn(d, p) /\ (Touched(e, p) => Touched(d, p))
  BY <1>7, <1>8, <1>11
<1> QED BY <1>0, <1>4, <1>7, <1>12, <1>13 DEF ReducedTo

\* What is known of the exit of an order that is filled now.
LEMMA ExitIsFirst ==
  ASSUME NEW O, NEW M, NEW d, Tables(d), RowsFitted(O, d, M), NEW e \in DOMAIN d.exits, d.exits[e].filled = 0,
         NEW o, o # 0, ExitOrder(d.exits[e]) = o
  PROVE  /\ d.exits[e].tag = o
         /\ \/ ~Touched(d, o)
            \/ \E n \in DOMAIN d.lots : d.lots[n].ext /\ d.lots[n].ord = o
<1>1. ExitFits(O, d.lots, d.exits[e], M)
  BY DEF RowsFitted, AllFit
<1>2. d.exits[e].tag = o /\ O[o].ref = "exit"
  BY <1>1 DEF ExitFits, ExitOrder
<1> SUFFICES ASSUME Touched(d, o) PROVE \E n \in DOMAIN d.lots : d.lots[n].ext /\ d.lots[n].ord = o
  BY <1>2
<1>3. ~\E x \in DOMAIN d.exits : d.exits[x].filled # 0 /\ ExitOrder(d.exits[x]) = o
  <2> SUFFICES ASSUME NEW x \in DOMAIN d.exits, d.exits[x].filled # 0, ExitOrder(d.exits[x]) = o PROVE FALSE
    OBVIOUS
  <2>1. ExitFits(O, d.lots, d.exits[x], M)
    BY DEF RowsFitted, AllFit
  <2>2. d.exits[x].tag = o
    BY <1>2, <2>1 DEF ExitFits, ExitOrder
  <2>3. x = e
    BY <1>2, <2>2 DEF RowsFitted, RowsOne, OneExit
  <2> QED BY <2>3
<1>4. PICK n \in DOMAIN d.lots : LotOrder(d.lots[n]) = o
  BY <1>3 DEF Touched
<1>5. LotFits(O, d.lots[n])
  BY DEF RowsFitted, AllFit
<1>6. d.lots[n].ext /\ d.lots[n].tag = 0
  BY <1>2, <1>4, <1>5 DEF LotFits
<1> QED BY <1>4, <1>6 DEF LotOrder

\* The fill of an order is booked on its exit and its lot, or nothing is booked.
LEMMA ExitBooked ==
  ASSUME OrdersOK, NEW M, NEW r, Told(r), NEW d, DbOK(d), Stands(orders, M, d),
         NEW x \in DOMAIN d.exits, ExitOrder(d.exits[x]) = r.ord, NEW e, e = SettleExit(d, x, r)
  PROVE  /\ Shifts(orders, M, d, e)
         /\ x \in DOMAIN e.exits /\ (HasEnded(r) => e.exits[x].filled # 0)
<1>1. /\ OrderTable(orders) /\ r.ord \in DOMAIN orders /\ r.ord # 0 /\ r.done \in Nat
      /\ r.st \in {"OPEN", "COMPLETE", "CANCELLED"}
      /\ r.st \in Final => Over(orders, r.ord) /\ r.done = orders[r.ord].done
  BY ToldIs
<1>2. Tables(d) /\ RowsFitted(orders, d, M)
  BY DEF Stands
<1>3. /\ ExitFits(orders, d.lots, d.exits[x], M) /\ d.exits[x] \in ExitSet
  BY <1>2, TableRows DEF RowsFitted, AllFit
<1>4. Net(d.lots) \in Int /\ \A p : BookedIn(d, p) \in Nat
  BY <1>2, NetIsOpen, BookedIs DEF Tables
<1>5. CASE Fills(d.exits[x], r)
  <2>1. PICK y \in ExitSet :
          /\ y.lot = d.exits[x].lot /\ y.ord = d.exits[x].ord /\ y.tag = d.exits[x].tag /\ y.st = "FILLED"
          /\ y.filled = r.done /\ y.took = Took(d.lots[y.lot], r.done) /\ y.took <= d.lots[y.lot].open
          /\ e = Reduce(Booked(d, x, y), y.lot, y.took)
    BY <1>5, SettleExitIs DEF Told
  <2>2. d.exits[x].filled = 0 /\ r.done # 0 /\ r.st \in Final
    BY <1>1, <1>5 DEF Fills
  <2>3. /\ Over(orders, r.ord) /\ r.done = orders[r.ord].done
    BY <1>1, <2>2
  <2>4. PICK c : c = Booked(d, x, y)
    OBVIOUS
  <2>5. c.exits = [d.exits EXCEPT ![x] = y] /\ c.lots = d.lots
    BY <2>4 DEF Booked
  <2>6. y.lot \in DOMAIN d.lots /\ HasFilled(d.lots[y.lot]) /\ d.lots[y.lot].side = -orders[r.ord].side
    BY <1>3, <2>1 DEF ExitFits
  <2>7. y.took \in Nat /\ y.took <= y.filled
    <3>1. d.lots[y.lot].open \in Nat
      BY <1>2, <2>6, TableRows DEF LotSet
    <3>2. y.took = Took(d.lots[y.lot], r.done) /\ y.filled = r.done
      BY <2>1
    <3>3. Took(d.lots[y.lot], r.done) <= r.done /\ Took(d.lots[y.lot], r.done) \in Nat
      BY <1>1, <3>1 DEF Took
    <3> QED BY <3>2, <3>3
  <2>8. SameExit(d.exits[x], y) /\ ExitOrder(y) = r.ord
    BY <2>1, <2>2 DEF SameExit, ExitOrder
  <2>9. ExitFits(orders, d.lots, y, M)
    BY <1>3, <2>1, <2>2, <2>7, <2>8 DEF ExitFits
  <2>10. ExitGoes(orders, M, d, x, y, c)
    BY <1>1, <1>2, <2>5, <2>8, <2>9, ExitReplaced
  <2>11. /\ Tables(c) /\ Continues(d, c) /\ RowsFitted(orders, c, M) /\ x \in DOMAIN c.exits /\ c.exits[x] = y
         /\ \A p \in DOMAIN orders : /\ BookedIn(c, p) = BookedIn(d, p) + (IF r.ord = p THEN y.took ELSE 0)
                                     /\ Touched(c, p) => Touched(d, p) \/ r.ord = p
    BY <2>2, <2>8, <2>10 DEF ExitGoes
  <2>12. DbOK(c)
    <3>1. y.st = "PENDING" => d.exits[x].st = "PENDING"
      BY <2>1
    <3>2. d.exits[x].st # "deleted"
      BY <1>3 DEF ExitFits
    <3> QED BY <2>1, <2>4, <3>1, <3>2, ExitChanges DEF Booked
  <2>13. ReducedTo(orders, M, c, y.lot, y.took, e)
    BY <1>1, <2>1, <2>4, <2>5, <2>6, <2>7, <2>11, <2>12, ReducedMoves
  <2>14. /\ Tables(e) /\ Continues(c, e) /\ RowsFitted(orders, e, M) /\ e.exits = c.exits
         /\ Net(e.lots) = Net(d.lots) - d.lots[y.lot].side * y.took
         /\ \A p \in DOMAIN orders : BookedIn(e, p) = BookedIn(c, p) /\ (Touched(e, p) => Touched(c, p))
    BY <2>5, <2>13 DEF ReducedTo
  <2>15. Continues(d, e)
    BY <2>11, <2>14, ContinuesChain
  <2>16. Carries(orders, d, e, r.ord, y.took)
    <3>1. orders[r.ord].side \in {1, -1}
      BY ToldIs
    <3>2. Net(e.lots) = Net(d.lots) + orders[r.ord].side * y.took
      BY <1>4, <2>6, <2>7, <2>14, <3>1
    <3> QED BY <2>11, <2>14, <3>2 DEF Carries
  <2>17. \A p \in DOMAIN orders \ {r.ord} : Touched(e, p) => Touched(d, p)
    BY <2>11, <2>14
  <2>18. /\ d.exits[x].tag = r.ord
         /\ \/ ~Touched(d, r.ord)
            \/ \E n \in DOMAIN d.lots : d.lots[n].ext /\ d.lots[n].ord = r.ord
    BY <1>1, <1>2, <2>2, ExitIsFirst
  <2>19. Right(orders, e, r.ord)
    <3>1. e.exits[x] = y /\ x \in DOMAIN e.exits /\ y.tag = r.ord
      BY <2>1, <2>11, <2>14, <2>18
    <3>2. CASE \E n \in DOMAIN d.lots : d.lots[n].ext /\ d.lots[n].ord = r.ord
      BY <2>15, <3>1, <3>2 DEF Continues, SameLot, Right, LeftOut
    <3>3. CASE y.took < y.filled
      BY <3>1, <3>3 DEF Right, LeftOut
    <3>4. CASE ~Touched(d, r.ord) /\ ~(y.took < y.filled)
      <4>1. BookedIn(d, r.ord) = 0
        BY <1>1, <1>2, <3>4, UntouchedIsNothing DEF RowsFitted
      <4>2. y.took = r.done
        BY <1>1, <2>1, <2>7, <3>4
      <4> QED BY <1>1, <2>3, <2>7, <2>16, <4>1, <4>2 DEF Carries, Right
    <3> QED BY <2>18, <3>2, <3>3, <3>4
  <2>20. Shifts(orders, M, d, e)
    BY <1>1, <2>3, <2>7, <2>14, <2>15, <2>16, <2>17, <2>19, CarriedMoves
  <2> QED BY <2>1, <2>2, <2>11, <2>14, <2>20
<1>6. CASE ~Fills(d.exits[x], r)
  <2>0. HasEnded(r) => d.exits[x].filled # 0
    BY <1>1, <1>6 DEF HasEnded, Fills
  <2>1. CASE e = d
    BY <2>0, <2>1, MovesSame
  <2>2. CASE e # d
    <3>1. PICK y \in ExitSet :
            /\ y.lot = d.exits[x].lot /\ y.ord = d.exits[x].ord /\ y.tag = d.exits[x].tag /\ y.st = "CANCELLED"
            /\ y.filled = d.exits[x].filled /\ y.took = d.exits[x].took
            /\ e = Booked(d, x, y)
      BY <1>6, <2>2, SettleExitIs DEF Told
    <3>2. e.exits = [d.exits EXCEPT ![x] = y] /\ e.lots = d.lots
      BY <3>1 DEF Booked
    <3>3. SameExit(d.exits[x], y) /\ ExitOrder(y) = r.ord
      BY <3>1 DEF SameExit, ExitOrder
    <3>4. ExitFits(orders, d.lots, y, M)
      BY <1>3, <3>1, <3>3 DEF ExitFits
    <3>5. ExitGoes(orders, M, d, x, y, e)
      BY <1>1, <1>2, <3>2, <3>3, <3>4, ExitReplaced
    <3>6. y.took \in Nat /\ (d.exits[x].filled = 0 => y.took = 0)
      BY <1>3, <3>1 DEF ExitFits, ExitSet
    <3>7. Calm(orders, d, e)
      BY <1>4, <3>1, <3>2, <3>5, <3>6 DEF ExitGoes, Calm
    <3>8. Shifts(orders, M, d, e)
      BY <3>5, <3>7, CalmMoves DEF ExitGoes
    <3> QED BY <2>0, <3>1, <3>5, <3>8 DEF ExitGoes
  <2> QED BY <2>1, <2>2
<1> QED BY <1>5, <1>6

\* A row without remarks is of an order whose row has its number, or of none of ours.
Numbered(d, r) ==
  \/ r.tagged \/ orders[r.ord].ref \notin {"lot", "exit"}
  \/ WithOrder(d.lots, r.ord) # {} \/ WithOrder(d.exits, r.ord) # {}
\* What the rows of an order that has ended say once it was matched.
IsBooked(d, r) ==
  HasEnded(r) =>
    /\ \A n \in DOMAIN d.lots : d.lots[n].ext /\ d.lots[n].ord = r.ord => HasFilled(d.lots[n])
    /\ orders[r.ord].ref \in {"lot", "exit"} => Touched(d, r.ord)

\* The rows of an order, by what they are of.
LEMMA RowsOf ==
  ASSUME NEW M, NEW d, Tables(d), RowsFitted(orders, d, M), HasRow(orders, d), NEW o \in DOMAIN orders, o # 0
  PROVE  /\ \A n \in DOMAIN d.lots : d.lots[n].ord = o \/ d.lots[n].tag = o => LotOrder(d.lots[n]) = o
         /\ \A e \in DOMAIN d.exits : d.exits[e].ord = o \/ d.exits[e].tag = o =>
              ExitOrder(d.exits[e]) = o /\ d.exits[e].st # "deleted" /\ orders[o].ref # "lot"
         /\ \A n \in DOMAIN d.lots : LotOrder(d.lots[n]) = o => (d.lots[n].ext <=> orders[o].ref # "lot")
                                                            /\ (d.lots[n].ext <=> d.lots[n].tag = 0)
         /\ orders[o].ref = "lot" => \E n \in DOMAIN d.lots : d.lots[n].tag = o
         /\ orders[o].ref = "exit" => \E e \in DOMAIN d.exits : d.exits[e].tag = o
<1>1. ASSUME NEW n \in DOMAIN d.lots
      PROVE  /\ d.lots[n].ord = o \/ d.lots[n].tag = o => LotOrder(d.lots[n]) = o
             /\ LotOrder(d.lots[n]) = o => (d.lots[n].ext <=> orders[o].ref # "lot") /\ (d.lots[n].ext <=> d.lots[n].tag = 0)
  <2>1. LotFits(orders, d.lots[n]) /\ d.lots[n].ext \in BOOLEAN
    BY TableRows DEF RowsFitted, AllFit, LotSet
  <2>2. d.lots[n].ord = o \/ d.lots[n].tag = o => LotOrder(d.lots[n]) = o
    BY <2>1 DEF LotFits, LotOrder
  <2>3. LotOrder(d.lots[n]) = o => d.lots[n].ext = (d.lots[n].tag = 0) /\ d.lots[n].ext = (orders[o].ref # "lot")
    BY <2>1 DEF LotFits
  <2> QED BY <2>1, <2>2, <2>3
<1>2. ASSUME NEW e \in DOMAIN d.exits, d.exits[e].ord = o \/ d.exits[e].tag = o
      PROVE  ExitOrder(d.exits[e]) = o /\ d.exits[e].st # "deleted" /\ orders[o].ref # "lot"
  <2>1. ExitFits(orders, d.lots, d.exits[e], M)
    BY DEF RowsFitted, AllFit
  <2> QED BY <1>2, <2>1 DEF ExitFits, ExitOrder
<1> QED BY <1>1, <1>2 DEF HasRow

\* What was matched stays matched while no row is added.
LEMMA StaysBooked ==
  ASSUME NEW d, NEW e, Continues(d, e), DOMAIN e.lots = DOMAIN d.lots, NEW r, IsBooked(d, r)
  PROVE  IsBooked(e, r)
<1>1. Touched(d, r.ord) => Touched(e, r.ord)
  BY TouchedStays
<1> QED BY <1>1 DEF IsBooked, Continues, SameLot

\* One row of a reading, for an order that is known.
LEMMA MatchedMoves ==
  ASSUME OrdersOK, NEW M, NEW r, Told(r), NEW d0, DbOK(d0), Tables(d0),
         NEW d, DbOK(d), SameTags(d0, d), Continues(d0, d), Stands(orders, M, d), HasRow(orders, d), Numbered(d, r),
         NEW e, e = Matched(d0, d, r)
  PROVE  Shifts(orders, M, d, e) /\ IsBooked(e, r)
<1> DEFINE o == r.ord
<1> DEFINE external == {n \in WithOrder(d0.lots, r.ord) : d0.lots[n].ext /\ d0.lots[n].st \in Unfilled}
<1> DEFINE tagged == WithTag(d.lots, r)
<1> DEFINE mine == {n \in WithOrder(d.lots, r.ord) : ~d.lots[n].ext}
<1> DEFINE leg == WithTag(d.exits, r)
<1> DEFINE legs == {x \in WithOrder(d.exits, r.ord) : d.exits[x].st # "deleted"}
<1>1. o \in DOMAIN orders /\ o # 0
  BY ToldIs
<1>2. Tables(d) /\ RowsFitted(orders, d, M)
  BY DEF Stands
<1>3. /\ \A n \in DOMAIN d.lots : d.lots[n].ord = o \/ d.lots[n].tag = o => LotOrder(d.lots[n]) = o
      /\ \A x \in DOMAIN d.exits : d.exits[x].ord = o \/ d.exits[x].tag = o =>
              ExitOrder(d.exits[x]) = o /\ d.exits[x].st # "deleted" /\ orders[o].ref # "lot"
      /\ \A n \in DOMAIN d.lots : LotOrder(d.lots[n]) = o => (d.lots[n].ext <=> orders[o].ref # "lot")
                                                            /\ (d.lots[n].ext <=> d.lots[n].tag = 0)
      /\ orders[o].ref = "lot" => \E n \in DOMAIN d.lots : d.lots[n].tag = o
      /\ orders[o].ref = "exit" => \E x \in DOMAIN d.exits : d.exits[x].tag = o
  BY <1>1, <1>2, RowsOf
<1>4. \A n \in DOMAIN d.lots : d.lots[n].st # "deleted"
  BY <1>2, TableRows DEF LotSet
<1>5. \A m, n \in DOMAIN d.lots : LotOrder(d.lots[m]) = o /\ LotOrder(d.lots[n]) = o => m = n
  BY <1>1, <1>2 DEF RowsFitted, RowsOne, OneLot
<1>6. DOMAIN d.lots = DOMAIN d0.lots /\ (\A n \in DOMAIN d.lots : SameLot(d0.lots[n], d.lots[n]))
  BY DEF SameTags, Continues
<1>7. ASSUME NEW n \in DOMAIN d.lots, LotOrder(d.lots[n]) = o, e = [d EXCEPT !.lots[n] = SettleLot(@, r)]
      PROVE  Shifts(orders, M, d, e) /\ IsBooked(e, r)
  <2>1. /\ Shifts(orders, M, d, e)
        /\ n \in DOMAIN e.lots /\ (HasEnded(r) => HasFilled(e.lots[n]))
    BY <1>7, LotBooked
  <2>2. Continues(d, e) /\ DOMAIN e.lots = DOMAIN d.lots
    <3>1. DOMAIN e.lots = DOMAIN d.lots
      BY <1>7, LotPut
    <3> QED BY <2>1, <3>1 DEF Shifts
  <2>3. LotOrder(e.lots[n]) = o
    BY <1>7, <2>2 DEF Continues, SameLot, LotOrder
  <2>4. ASSUME NEW k \in DOMAIN e.lots, e.lots[k].ord = o PROVE k = n
    <3>1. d.lots[k].ord = o
      BY <2>2, <2>4 DEF Continues, SameLot
    <3> QED BY <1>3, <1>5, <1>7, <2>2, <3>1
  <2>5. IsBooked(e, r)
    BY <2>1, <2>3, <2>4 DEF IsBooked, Touched
  <2> QED BY <2>1, <2>5
<1>8. CASE external # {}
  <2>1. Max(external) \in external
    <3>1. external \subseteq 1..Len(d0.lots) /\ Len(d0.lots) \in Nat
      BY LedgerRows DEF WithOrder
    <3> QED BY <1>8, <3>1, MaxIsIn
  <2>2. Max(external) \in DOMAIN d.lots /\ LotOrder(d.lots[Max(external)]) = o
    BY <1>3, <1>6, <2>1 DEF WithOrder, SameLot
  <2>3. Matched(d0, d, r) = [d EXCEPT !.lots[Max(external)] = SettleLot(@, r)]
    BY <1>8 DEF Matched
  <2> HIDE DEF external
  <2> QED BY <1>7, <2>2, <2>3
<1>9. external = {} => (\A n \in DOMAIN d.lots : d.lots[n].ext /\ d.lots[n].ord = o => HasFilled(d.lots[n]))
  <2> SUFFICES ASSUME external = {}, NEW n \in DOMAIN d.lots, d.lots[n].ext, d.lots[n].ord = o PROVE HasFilled(d.lots[n])
    OBVIOUS
  <2>1. d0.lots[n].ext /\ d0.lots[n].ord = o /\ n \in DOMAIN d0.lots
    BY <1>6 DEF SameLot
  <2>2. d0.lots[n].st \notin Unfilled /\ d0.lots[n].st \in {"PENDING", "OPEN", "CLOSED", "CANCELLED"}
    BY <2>1, TableRows DEF WithOrder, LotSet
  <2>3. HasFilled(d0.lots[n])
    BY <2>2 DEF HasFilled, Unfilled
  <2> QED BY <1>6, <2>3 DEF SameLot
<1>10. CASE external = {} /\ tagged # {}
  <2>1. Max(tagged) \in tagged
    <3>1. tagged \subseteq 1..Len(d.lots) /\ Len(d.lots) \in Nat
      BY LedgerRows DEF WithTag
    <3> QED BY <1>10, <3>1, MaxIsIn
  <2>2. Max(tagged) \in DOMAIN d.lots /\ LotOrder(d.lots[Max(tagged)]) = o
    BY <1>3, <2>1 DEF WithTag
  <2>3. Matched(d0, d, r) = [d EXCEPT !.lots[Max(tagged)] = SettleLot(@, r)]
    BY <1>10 DEF Matched
  <2> HIDE DEF tagged
  <2> QED BY <1>7, <2>2, <2>3
<1>11. CASE external = {} /\ tagged = {} /\ mine # {}
  <2>1. Max(mine) \in mine
    <3>1. mine \subseteq 1..Len(d.lots) /\ Len(d.lots) \in Nat
      BY LedgerRows DEF WithOrder
    <3> QED BY <1>11, <3>1, MaxIsIn
  <2>2. Max(mine) \in DOMAIN d.lots /\ LotOrder(d.lots[Max(mine)]) = o
    BY <1>3, <2>1 DEF WithOrder
  <2>3. Matched(d0, d, r) = [d EXCEPT !.lots[Max(mine)] = SettleLot(@, r)]
    BY <1>11 DEF Matched
  <2> HIDE DEF mine
  <2> QED BY <1>7, <2>2, <2>3
<1>12. ASSUME external = {}, NEW x \in DOMAIN d.exits, ExitOrder(d.exits[x]) = o, e = SettleExit(d, x, r)
       PROVE  Shifts(orders, M, d, e) /\ IsBooked(e, r)
  <2>1. /\ Shifts(orders, M, d, e)
        /\ x \in DOMAIN e.exits /\ (HasEnded(r) => e.exits[x].filled # 0)
    BY <1>12, ExitBooked
  <2>2. Continues(d, e) /\ DOMAIN e.lots = DOMAIN d.lots
    <3>1. SameTags(d, e)
      BY <1>3, <1>12, SettleExitKeeps DEF Told, RowsFitted, AllFit, ExitFits, Stands
    <3> QED BY <2>1, <3>1 DEF Shifts, SameTags
  <2>3. ExitOrder(e.exits[x]) = o
    BY <1>12, <2>2 DEF Continues, SameExit, ExitOrder
  <2>4. \A n \in DOMAIN e.lots : e.lots[n].ext /\ e.lots[n].ord = o => HasFilled(e.lots[n])
    BY <1>9, <1>12, <2>2 DEF Continues, SameLot
  <2>5. IsBooked(e, r)
    BY <2>1, <2>3, <2>4 DEF IsBooked, Touched
  <2> QED BY <2>1, <2>5
<1>13. CASE external = {} /\ tagged = {} /\ mine = {} /\ leg # {}
  <2>1. Max(leg) \in leg
    <3>1. leg \subseteq 1..Len(d.exits) /\ Len(d.exits) \in Nat
      BY LedgerRows DEF WithTag
    <3> QED BY <1>13, <3>1, MaxIsIn
  <2>2. Max(leg) \in DOMAIN d.exits /\ ExitOrder(d.exits[Max(leg)]) = o
    BY <1>3, <2>1 DEF WithTag
  <2>3. Matched(d0, d, r) = SettleExit(d, Max(leg), r)
    BY <1>13 DEF Matched
  <2> HIDE DEF leg
  <2> QED BY <1>12, <1>13, <2>2, <2>3
<1>14. CASE external = {} /\ tagged = {} /\ mine = {} /\ leg = {} /\ legs # {}
  <2>1. Max(legs) \in legs
    <3>1. legs \subseteq 1..Len(d.exits) /\ Len(d.exits) \in Nat
      BY LedgerRows DEF WithOrder
    <3> QED BY <1>14, <3>1, MaxIsIn
  <2>2. Max(legs) \in DOMAIN d.exits /\ ExitOrder(d.exits[Max(legs)]) = o
    BY <1>3, <2>1 DEF WithOrder
  <2>3. Matched(d0, d, r) = SettleExit(d, Max(legs), r)
    BY <1>14 DEF Matched
  <2> HIDE DEF legs
  <2> QED BY <1>12, <1>14, <2>2, <2>3
<1>15. CASE external = {} /\ tagged = {} /\ mine = {} /\ leg = {} /\ legs = {}
  <2>1. e = d
    BY <1>15 DEF Matched
  <2>2. WithOrder(d.exits, o) = {} /\ \A n \in WithOrder(d.lots, o) : d.lots[n].ext /\ HasFilled(d.lots[n])
    BY <1>3, <1>9, <1>15 DEF WithOrder
  <2>3. orders[o].ref = "lot" => FALSE
    <3> SUFFICES ASSUME orders[o].ref = "lot" PROVE FALSE
      OBVIOUS
    <3>1. PICK n \in DOMAIN d.lots : d.lots[n].tag = o
      BY <1>3
    <3>2. ~r.tagged
      BY <1>4, <1>15, <3>1 DEF WithTag
    <3>3. PICK k \in WithOrder(d.lots, o) : TRUE
      BY <2>2, <3>2 DEF Numbered
    <3> QED BY <1>3, <2>2, <3>3 DEF WithOrder
  <2>4. orders[o].ref = "exit" => Touched(d, o)
    <3> SUFFICES ASSUME orders[o].ref = "exit" PROVE Touched(d, o)
      OBVIOUS
    <3>1. PICK x \in DOMAIN d.exits : d.exits[x].tag = o
      BY <1>3
    <3>2. ~r.tagged
      BY <1>3, <1>15, <3>1 DEF WithTag
    <3>3. PICK k \in WithOrder(d.lots, o) : TRUE
      BY <2>2, <3>2 DEF Numbered
    <3> QED BY <1>3, <2>2, <3>3 DEF WithOrder, Touched
  <2>5. IsBooked(d, r)
    BY <1>9, <1>15, <2>3, <2>4 DEF IsBooked
  <2> QED BY <2>1, <2>5, MovesSame
<1> QED BY <1>8, <1>10, <1>11, <1>13, <1>14, <1>15

\* What was booked stays booked, of the order of row r too if r is its only row.
KeepsBooked(d, e, r) == \A s : IsBooked(d, s) /\ (s.ord = r.ord => s = r) => IsBooked(e, s)

\* A resting order that no row is of is imported: nothing is booked by that.
LEMMA ImportedMoves ==
  ASSUME OrdersOK, NEW M, NEW r, Told(r), r.st = "OPEN" => r.ord \notin M, NEW d0,
         NEW d, DbOK(d), Stands(orders, M, d), HasRow(orders, d), Numbered(d, r), NEW e, e = Imported(d0, d, r)
  PROVE  /\ Shifts(orders, M, d, e)
         /\ KeepsBooked(d, e, r)
<1> DEFINE o == r.ord
<1>1. o \in DOMAIN orders /\ o # 0 /\ o \in Nat /\ SideOf(r) = orders[o].side /\ OrderTable(orders)
  BY ToldIs
<1>2. Tables(d) /\ RowsFitted(orders, d, M)
  BY DEF Stands
<1>3. /\ \A n \in DOMAIN d.lots : d.lots[n].ord = o \/ d.lots[n].tag = o => LotOrder(d.lots[n]) = o
      /\ \A x \in DOMAIN d.exits : d.exits[x].ord = o \/ d.exits[x].tag = o =>
              ExitOrder(d.exits[x]) = o /\ d.exits[x].st # "deleted" /\ orders[o].ref # "lot"
      /\ \A n \in DOMAIN d.lots : LotOrder(d.lots[n]) = o => (d.lots[n].ext <=> orders[o].ref # "lot")
                                                            /\ (d.lots[n].ext <=> d.lots[n].tag = 0)
      /\ orders[o].ref = "lot" => \E n \in DOMAIN d.lots : d.lots[n].tag = o
  BY <1>1, <1>2, RowsOf
<1>4. orders[o].qty \in Nat \ {0}
  BY TakenRow DEF Told
<1>5. PICK l : l = NewLot(SideOf(r), orders[o].qty, "PENDING", o, TRUE, 2 * o)
  OBVIOUS
<1>6. l \in LotRows
  BY <1>4, <1>5, FreshLot DEF Told
<1>7. l.tag = 0 /\ l.st = "PENDING" /\ l.ord = o /\ l.side = orders[o].side /\ l.ext = TRUE
  BY <1>1, <1>5 DEF NewLot
<1>8. CASE e = d
  BY <1>8, MovesSame DEF KeepsBooked
<1>9. CASE /\ r.st = "OPEN" /\ WithOrder(d.lots, o) = {} /\ ~Known(d, r)
           /\ e = [d EXCEPT !.lots = Append(@, l)]
  <2>1. e.lots = Append(d.lots, l) /\ e.exits = d.exits
    BY <1>9, LotPutLast
  <2>2. orders[o].ref # "lot"
    <3> SUFFICES ASSUME orders[o].ref = "lot" PROVE FALSE
      OBVIOUS
    <3>1. PICK n \in DOMAIN d.lots : d.lots[n].tag = o
      BY <1>3
    <3>2. d.lots[n].st # "deleted"
      BY <1>2, TableRows DEF LotSet
    <3>3. ~r.tagged
      BY <1>9, <3>1, <3>2 DEF Known, WithTag
    <3>4. WithOrder(d.exits, o) # {}
      BY <1>9, <3>3 DEF Numbered
    <3> QED BY <1>3, <3>4 DEF WithOrder
  <2>3. LotOrder(l) = o /\ LotFits(orders, l)
    BY <1>1, <1>7, <2>2 DEF LotOrder, LotFits
  <2>4. \A n \in DOMAIN d.lots : LotOrder(d.lots[n]) # o
    <3> SUFFICES ASSUME NEW n \in DOMAIN d.lots, LotOrder(d.lots[n]) = o PROVE FALSE
      OBVIOUS
    <3>1. d.lots[n].tag = 0
      BY <1>3, <2>2
    <3> QED BY <1>9, <3>1 DEF LotOrder, WithOrder
  <2>5. \A k \in DOMAIN d.exits : ExitOrder(d.exits[k]) = o => d.exits[k].tag # 0
    <3> SUFFICES ASSUME NEW k \in DOMAIN d.exits, ExitOrder(d.exits[k]) = o, d.exits[k].tag = 0 PROVE FALSE
      OBVIOUS
    <3>1. ExitFits(orders, d.lots, d.exits[k], M)
      BY <1>2 DEF RowsFitted, AllFit
    <3> QED BY <1>9, <3>1 DEF ExitFits
  <2>6. LotComes(orders, M, d, l, e)
    BY <1>1, <1>2, <1>6, <2>1, <2>3, <2>4, <2>5, LotPutOn
  <2>7. ~HasFilled(l) /\ OpenPart(l) = 0
    BY <1>7 DEF HasFilled, OpenPart
  <2>8. Net(d.lots) \in Int /\ \A p : BookedIn(d, p) \in Nat
    BY <1>2, NetIsOpen, BookedIs DEF Tables
  <2>9. Calm(orders, d, e)
    BY <2>6, <2>7, <2>8 DEF LotComes, Calm
  <2>10. Shifts(orders, M, d, e)
    BY <2>6, <2>9, CalmMoves DEF LotComes
  <2>11. ASSUME NEW s, IsBooked(d, s), s.ord = r.ord => s = r PROVE IsBooked(e, s)
    <3>1. CASE s.ord = r.ord
      BY <1>9, <2>11, <3>1 DEF IsBooked, HasEnded, Final
    <3>2. CASE s.ord # r.ord
      <4>1. \A n \in DOMAIN e.lots : e.lots[n].ord = s.ord => n \in DOMAIN d.lots /\ e.lots[n] = d.lots[n]
        BY <1>7, <2>6, <3>2 DEF LotComes
      <4>2. Touched(d, s.ord) => Touched(e, s.ord)
        BY <2>6, TouchedStays DEF LotComes
      <4> QED BY <2>11, <4>1, <4>2 DEF IsBooked
    <3> QED BY <3>1, <3>2
  <2> QED BY <2>10, <2>11 DEF KeepsBooked
<1>10. e = d \/ (/\ r.st = "OPEN" /\ WithOrder(d.lots, o) = {} /\ ~Known(d, r)
                 /\ e = [d EXCEPT !.lots = Append(@, l)])
  BY <1>5 DEF Imported
<1> QED BY <1>8, <1>9, <1>10

-----------------------------------------------------------------------------
(* A fill of the terminal closes the open lots                             *)

\* An order of the terminal or of the card that no row is of.
Unbooked(M, r, d) ==
  /\ DbOK(d) /\ RowsFitted(orders, d, M) /\ r.ord \in M /\ r.st = "COMPLETE" /\ orders[r.ord].ref \in {"none", "card"}
  /\ \A n \in DOMAIN d.lots : LotOrder(d.lots[n]) # r.ord
  /\ BookedIn(d, r.ord) = 0
\* Its fill while it closes the lots: those not in s are to come.
Closing(M, r, d, s) == {a \in Filling(d) :
  /\ a.left <= r.done /\ Continues(d, a.d) /\ RowsFitted(orders, a.d, M) /\ Gap(orders, a.d) = Gap(orders, d)
  /\ BookedIn(a.d, r.ord) = r.done - a.left
  /\ \A p \in DOMAIN orders \ {r.ord} : BookedIn(a.d, p) = BookedIn(d, p) /\ (Touched(a.d, p) => Touched(d, p))
  /\ \A n \in OpenLots(d) \ s : a.d.lots[n] = d.lots[n]}

\* Each open lot that the fill meets takes its part of it.
LEMMA FillTakes ==
  ASSUME OrdersOK, NEW M, NEW r, Told(r), NEW d, Unbooked(M, r, d), NEW s \in SUBSET OpenLots(d),
         NEW x \in OpenLots(d) \ s, NEW a \in Closing(M, r, d, s), NEW q, NEW c, Takes(r, x, a, q, c),
         a.left # 0, a.d.lots[x].side # SideOf(r)
  PROVE  ByFill(r, x, a) \in Closing(M, r, d, s \cup {x})
<1> DEFINE o == r.ord
<1>1. o \in DOMAIN orders /\ o # 0 /\ o \in Nat /\ r.done \in Nat /\ OrderTable(orders)
      /\ SideOf(r) = orders[o].side /\ orders[o].side \in {1, -1}
  BY ToldIs
<1>2. /\ a.left \in Nat /\ a.left <= r.done /\ DbOK(a.d) /\ SameTags(d, a.d) /\ Continues(d, a.d)
      /\ RowsFitted(orders, a.d, M) /\ Gap(orders, a.d) = Gap(orders, d)
      /\ BookedIn(a.d, o) = r.done - a.left
      /\ \A p \in DOMAIN orders \ {o} : BookedIn(a.d, p) = BookedIn(d, p) /\ (Touched(a.d, p) => Touched(d, p))
      /\ \A n \in OpenLots(d) \ s : a.d.lots[n] = d.lots[n]
  BY DEF Closing, Filling
<1>3. Tables(a.d)
  BY <1>2, LedgerRows DEF Tables, LotTable, ExitTable
<1>4. /\ x \in DOMAIN a.d.lots /\ a.d.lots[x].st = "OPEN" /\ a.d.lots[x].open \in Nat \ {0}
      /\ a.d.lots[x].side \in {1, -1}
  <2>1. x \in DOMAIN a.d.lots /\ a.d.lots[x].st = "OPEN"
    BY <1>2 DEF OpenLots, SameTags
  <2> QED BY <1>3, <2>1, TableRows DEF LotRows, LotSet
<1>5. /\ q \in Nat \ {0} /\ q <= a.d.lots[x].open /\ q <= a.left /\ c = Reduce(a.d, x, q)
      /\ FillExit(r, x, q) \in ExitSet
  BY <1>2, <1>4 DEF Takes
<1>6. HasFilled(a.d.lots[x])
  BY <1>4 DEF HasFilled
<1>7. ReducedTo(orders, M, a.d, x, q, c)
  BY <1>1, <1>2, <1>4, <1>5, <1>6, ReducedMoves
<1>8. /\ Tables(c) /\ Continues(a.d, c) /\ RowsFitted(orders, c, M) /\ c.exits = a.d.exits
      /\ DOMAIN c.lots = DOMAIN a.d.lots
      /\ \A k \in DOMAIN a.d.lots : k # x => c.lots[k] = a.d.lots[k]
      /\ Net(c.lots) = Net(a.d.lots) - a.d.lots[x].side * q
      /\ \A p \in DOMAIN orders : BookedIn(c, p) = BookedIn(a.d, p) /\ (Touched(c, p) => Touched(a.d, p))
  BY <1>7 DEF ReducedTo
<1>9. PICK y : y = FillExit(r, x, q)
  OBVIOUS
<1>10. y \in ExitSet /\ y.lot = x /\ y.ord = o /\ y.tag = 0 /\ y.filled = q /\ y.took = q /\ y.st = "FILLED" /\ ExitOrder(y) = o
  BY <1>5, <1>9 DEF FillExit, ExitOrder
<1>11. PICK f : f = [lots |-> c.lots, exits |-> Append(c.exits, y), doomed |-> c.doomed]
  OBVIOUS
<1>12. ExitFits(orders, c.lots, y, M)
  <2>1. x \in DOMAIN c.lots /\ HasFilled(c.lots[x]) /\ c.lots[x].side = a.d.lots[x].side
    BY <1>4, <1>6, <1>8 DEF Continues, SameLot
  <2>2. c.lots[x].side = -orders[o].side
    BY <1>1, <1>4, <2>1
  <2> QED BY <1>1, <1>5, <1>10, <2>1, <2>2 DEF ExitFits, Unbooked
<1>13. \A n \in DOMAIN c.lots : LotOrder(c.lots[n]) # o
  <2> SUFFICES ASSUME NEW n \in DOMAIN c.lots PROVE LotOrder(c.lots[n]) # o
    OBVIOUS
  <2>1. n \in DOMAIN d.lots
    BY <1>2, <1>8 DEF SameTags
  <2>2. Continues(d, c)
    BY <1>2, <1>8, ContinuesChain
  <2>3. LotOrder(c.lots[n]) = LotOrder(d.lots[n])
    BY <2>1, <2>2 DEF Continues, SameLot, LotOrder
  <2> QED BY <2>1, <2>3 DEF Unbooked
<1>14. ExitComes(orders, M, c, y, f)
  BY <1>1, <1>8, <1>10, <1>11, <1>12, <1>13, ExitPutOn
<1>15. /\ Tables(f) /\ Continues(c, f) /\ RowsFitted(orders, f, M) /\ f.lots = c.lots
       /\ \A p \in DOMAIN orders : /\ BookedIn(f, p) = BookedIn(c, p) + (IF o = p THEN q ELSE 0)
                                   /\ Touched(f, p) => Touched(c, p) \/ o = p
  BY <1>10, <1>14 DEF ExitComes
<1>16. Continues(d, f) /\ Continues(a.d, f)
  BY <1>2, <1>8, <1>15, ContinuesChain
<1>17. Net(a.d.lots) \in Int /\ \A p : BookedIn(a.d, p) \in Nat
  BY <1>3, NetIsOpen, BookedIs DEF Tables
<1>18. Carries(orders, a.d, f, o, q)
  <2>1. Net(f.lots) = Net(a.d.lots) + orders[o].side * q
    <3>1. a.d.lots[x].side = -orders[o].side
      BY <1>1, <1>4
    <3>2. -(orders[o].side * q) = (-orders[o].side) * q /\ orders[o].side * q \in Int
      BY <1>1, <1>5
    <3> QED BY <1>8, <1>15, <1>17, <3>1, <3>2
  <2> QED BY <1>8, <1>15, <2>1 DEF Carries
<1>19. Gap(orders, f) = Gap(orders, d)
  BY <1>1, <1>2, <1>3, <1>5, <1>15, <1>18, GapCarried
<1>20. ByFill(r, x, a) = [left |-> a.left - q, d |-> f] /\ ByFill(r, x, a) \in Filling(d)
  <2>1. a \in Filling(d) /\ DbOK(d)
    BY DEF Closing, Unbooked
  <2>2. ByFill(r, x, a) \in Filling(d)
    BY <2>1, ByFillKeeps DEF Told
  <2> QED BY <1>9, <1>11, <2>2 DEF Takes
<1>21. a.left - q \in Nat /\ a.left - q <= r.done /\ BookedIn(f, o) = r.done - (a.left - q)
  BY <1>1, <1>2, <1>5, <1>17, <1>18 DEF Carries
<1>22. \A p \in DOMAIN orders \ {o} : BookedIn(f, p) = BookedIn(d, p) /\ (Touched(f, p) => Touched(d, p))
  BY <1>2, <1>8, <1>15, <1>17
<1>23. \A n \in OpenLots(d) \ (s \cup {x}) : f.lots[n] = d.lots[n]
  BY <1>2, <1>8, <1>15 DEF OpenLots, SameTags
<1> QED BY <1>15, <1>16, <1>19, <1>20, <1>21, <1>22, <1>23 DEF Closing

\* The fill closes the open lots of the other side, the oldest first.
LEMMA FillCloses ==
  ASSUME OrdersOK, NEW M, NEW r, Told(r), NEW d, Unbooked(M, r, d), NEW known \in Nat
  PROVE  OldestFirst(LAMBDA n, acc : ByFill(r, n, acc), [left |-> r.done, d |-> d], OpenLots(d), d, known)
           \in Closing(M, r, d, OpenLots(d))
<1> DEFINE G == [s \in SUBSET OpenLots(d) |-> Closing(M, r, d, s)]
<1>1. PICK b : b = [left |-> r.done, d |-> d]
  OBVIOUS
<1>2. DbOK(d) /\ r.done \in Nat /\ r \in BookRows /\ AtBroker(r.ord)
  BY ToldIs DEF Unbooked, Told
<1>3. b \in Closing(M, r, d, {})
  <2>1. b \in Filling(d) /\ b.left = r.done /\ b.d = d
    BY <1>1, <1>2 DEF Filling, SameTags, DbOK
  <2>2. Continues(d, d) /\ BookedIn(d, r.ord) = r.done - r.done
    BY <1>2, ContinuesSame DEF Unbooked
  <2> QED BY <1>2, <2>1, <2>2 DEF Closing, Unbooked
<1>4. ASSUME NEW s \in SUBSET OpenLots(d), NEW x \in OpenLots(d) \ s, NEW v \in Closing(M, r, d, s)
      PROVE  ByFill(r, x, v) \in Closing(M, r, d, s \cup {x})
  <2>1. v \in Filling(d)
    BY DEF Closing
  <2>2. CASE ByFill(r, x, v) = v
    BY <2>2 DEF Closing
  <2>3. CASE v.left # 0 /\ v.d.lots[x].side # SideOf(r) /\ \E q, c : Takes(r, x, v, q, c)
    BY <2>3, FillTakes
  <2> QED BY <1>2, <2>1, <2>2, <2>3, ByFillIs
<1>5. /\ b \in G[{}]
      /\ \A s \in SUBSET OpenLots(d) : \A x \in OpenLots(d) \ s, v \in Filling(d) :
           v \in G[s] => ByFill(r, x, v) \in G[s \cup {x}]
  BY <1>3, <1>4
<1>6. G[OpenLots(d)] = Closing(M, r, d, OpenLots(d))
  OBVIOUS
<1> HIDE DEF G
<1> QED BY <1>1, <1>2, <1>5, <1>6, ClosedByFill

\* An order of nobody's rows that has ended is of the terminal or of the card.
LEMMA NobodysOrder ==
  ASSUME OrdersOK, NEW M, NEW r, Told(r), r.ord \in M, r.st = "COMPLETE",
         NEW d, DbOK(d), Stands(orders, M, d), HasRow(orders, d), Numbered(d, r), NotBooked(d, r), ~Known(d, r)
  PROVE  Unbooked(M, r, d) /\ ~Touched(d, r.ord)
<1> DEFINE o == r.ord
<1>1. o \in DOMAIN orders /\ o # 0
  BY ToldIs
<1>2. Tables(d) /\ RowsFitted(orders, d, M)
  BY DEF Stands
<1>3. /\ \A n \in DOMAIN d.lots : d.lots[n].ord = o \/ d.lots[n].tag = o => LotOrder(d.lots[n]) = o
      /\ \A x \in DOMAIN d.exits : d.exits[x].ord = o \/ d.exits[x].tag = o =>
              ExitOrder(d.exits[x]) = o /\ d.exits[x].st # "deleted" /\ orders[o].ref # "lot"
      /\ \A n \in DOMAIN d.lots : LotOrder(d.lots[n]) = o => (d.lots[n].ext <=> orders[o].ref # "lot")
                                                            /\ (d.lots[n].ext <=> d.lots[n].tag = 0)
      /\ orders[o].ref = "lot" => \E n \in DOMAIN d.lots : d.lots[n].tag = o
      /\ orders[o].ref = "exit" => \E e \in DOMAIN d.exits : d.exits[e].tag = o
  BY <1>1, <1>2, RowsOf
<1>4. WithOrder(d.lots, o) = {} /\ WithOrder(d.exits, o) = {}
  BY <1>3 DEF NotBooked, WithOrder
<1>5. ~(r.tagged /\ \E n \in DOMAIN d.lots : d.lots[n].tag = o) /\ ~(r.tagged /\ \E x \in DOMAIN d.exits : d.exits[x].tag = o)
  <2>1. \A n \in DOMAIN d.lots : d.lots[n].st # "deleted"
    BY <1>2, TableRows DEF LotSet
  <2> QED BY <1>3, <2>1 DEF Known, WithTag
<1>6. orders[o].ref \in {"none", "card"}
  <2>1. orders[o].ref \notin {"lot", "exit"}
    BY <1>3, <1>4, <1>5 DEF Numbered
  <2>2. orders[o].ref \in {"lot", "exit", "card", "none"}
    <3>1. orders[o] \in OrderRows
      BY <1>1 DEF OrdersOK
    <3> QED BY <3>1 DEF OrderRows
  <2> QED BY <2>1, <2>2
<1>7. \A n \in DOMAIN d.lots : LotOrder(d.lots[n]) # o
  <2> SUFFICES ASSUME NEW n \in DOMAIN d.lots, LotOrder(d.lots[n]) = o PROVE FALSE
    OBVIOUS
  <2>1. d.lots[n].tag = 0
    BY <1>3, <1>6
  <2> QED BY <1>4, <2>1 DEF LotOrder, WithOrder
<1>8. \A x \in DOMAIN d.exits : ExitOrder(d.exits[x]) # o
  <2> SUFFICES ASSUME NEW x \in DOMAIN d.exits, ExitOrder(d.exits[x]) = o PROVE FALSE
    OBVIOUS
  <2>1. ExitFits(orders, d.lots, d.exits[x], M)
    BY <1>2 DEF RowsFitted, AllFit
  <2>2. d.exits[x].tag = 0
    BY <1>6, <2>1 DEF ExitFits
  <2> QED BY <1>4, <2>2 DEF ExitOrder, WithOrder
<1>9. ~Touched(d, o)
  BY <1>7, <1>8 DEF Touched
<1>10. BookedIn(d, o) = 0
  BY <1>1, <1>2, <1>9, UntouchedIsNothing DEF RowsFitted
<1> QED BY <1>2, <1>6, <1>7, <1>9, <1>10 DEF Unbooked

\* A fill of the terminal was booked.
IsTaken(d, r) == orders[r.ord].ref = "none" /\ r.st = "COMPLETE" => Touched(d, r.ord)

\* One row of a reading, for an order that nobody knows.
LEMMA UntaggedMoves ==
  ASSUME OrdersOK, NEW M, NEW r, Told(r), r.st \in Final => r.ord \in M, r.st = "COMPLETE" => r.done # 0,
         NEW d0, DbOK(d0), NEW d, DbOK(d), Stands(orders, M, d), HasRow(orders, d), Numbered(d, r), IsBooked(d, r),
         NEW e, e = Untagged(d0, d, r)
  PROVE  Shifts(orders, M, d, e) /\ IsTaken(e, r) /\ KeepsBooked(d, e, r)
<1> DEFINE o == r.ord
<1>1. /\ o \in DOMAIN orders /\ o # 0 /\ o \in Nat /\ r.done \in Nat /\ OrderTable(orders)
      /\ SideOf(r) = orders[o].side /\ orders[o].side \in {1, -1}
      /\ r.st \in Final => Over(orders, o) /\ r.done = orders[o].done
  BY ToldIs
<1>2. Tables(d) /\ RowsFitted(orders, d, M)
  BY DEF Stands
<1>3. CASE r.st # "COMPLETE"
  <2>1. e = d
    BY <1>3 DEF Untagged
  <2> QED BY <1>3, <2>1, MovesSame DEF IsTaken, KeepsBooked
<1>4. CASE r.st = "COMPLETE" /\ (~NotBooked(d, r) \/ Known(d, r))
  <2>1. e = d
    BY <1>4 DEF Untagged
  <2>2. HasEnded(r)
    BY <1>4 DEF HasEnded, Final
  <2>3. ASSUME orders[o].ref = "none" PROVE Touched(d, o)
    <3>1. CASE \E n \in DOMAIN d.lots : d.lots[n].ord = o \/ d.lots[n].tag = o
      <4>1. PICK n \in DOMAIN d.lots : d.lots[n].ord = o \/ d.lots[n].tag = o
        BY <3>1
      <4>2. LotFits(orders, d.lots[n])
        BY <1>2 DEF RowsFitted, AllFit
      <4>3. LotOrder(d.lots[n]) = o
        BY <1>1, <4>1, <4>2 DEF LotFits, LotOrder
      <4>4. d.lots[n].ext /\ d.lots[n].tag = 0
        BY <1>1, <2>3, <4>2, <4>3 DEF LotFits
      <4>5. d.lots[n].ord = o
        BY <4>3, <4>4 DEF LotOrder
      <4>6. HasFilled(d.lots[n])
        BY <2>2, <4>4, <4>5 DEF IsBooked
      <4> QED BY <4>3, <4>6 DEF Touched
    <3>2. CASE \E x \in DOMAIN d.exits : d.exits[x].ord = o \/ d.exits[x].tag = o
      <4>1. PICK x \in DOMAIN d.exits : d.exits[x].ord = o \/ d.exits[x].tag = o
        BY <3>2
      <4>2. ExitFits(orders, d.lots, d.exits[x], M)
        BY <1>2 DEF RowsFitted, AllFit
      <4>3. ExitOrder(d.exits[x]) = o
        BY <1>1, <4>1, <4>2 DEF ExitFits, ExitOrder
      <4>4. d.exits[x].filled # 0
        BY <2>3, <4>2, <4>3 DEF ExitFits
      <4> QED BY <4>3, <4>4 DEF Touched
    <3> QED BY <1>4, <3>1, <3>2 DEF NotBooked, Known, WithOrder, WithTag
  <2> QED BY <2>1, <2>3, MovesSame DEF IsTaken, KeepsBooked
<1>5. CASE r.st = "COMPLETE" /\ NotBooked(d, r) /\ ~Known(d, r)
  <2>1. r.ord \in M /\ r.done # 0 /\ Over(orders, o) /\ r.done = orders[o].done
    BY <1>1, <1>5 DEF Final
  <2>2. Unbooked(M, r, d) /\ ~Touched(d, o)
    BY <1>5, <2>1, NobodysOrder
  <2>3. PICK a : a = OldestFirst(LAMBDA n, acc : ByFill(r, n, acc), [left |-> r.done, d |-> d], OpenLots(d), d, Len(d0.lots))
    OBVIOUS
  <2>4. a \in Closing(M, r, d, OpenLots(d))
    <3>1. Len(d0.lots) \in Nat
      BY LedgerRows
    <3> QED BY <2>2, <2>3, <3>1, FillCloses
  <2>5. /\ a.left \in Nat /\ a.left <= r.done /\ DbOK(a.d) /\ SameTags(d, a.d) /\ Continues(d, a.d)
        /\ RowsFitted(orders, a.d, M) /\ Gap(orders, a.d) = Gap(orders, d)
        /\ BookedIn(a.d, o) = r.done - a.left
        /\ \A p \in DOMAIN orders \ {o} : BookedIn(a.d, p) = BookedIn(d, p) /\ (Touched(a.d, p) => Touched(d, p))
    BY <2>4 DEF Closing, Filling
  <2>6. Tables(a.d)
    BY <2>5, LedgerRows DEF Tables, LotTable, ExitTable
  <2>7. CASE a.left = 0 \/ IsExitRemarks(r)
    <3>1. e = a.d
      BY <1>5, <2>3, <2>7 DEF Untagged
    <3>2. Right(orders, e, o)
      <4>1. CASE a.left = 0
        BY <1>1, <2>1, <2>5, <3>1, <4>1 DEF Right
      <4>2. CASE IsExitRemarks(r)
        <5>1. orders[o].ref = "card"
          BY <2>2, <4>2 DEF Unbooked, IsExitRemarks
        <5>2. orders[o].st = "COMPLETE"
          BY <1>5 DEF Told, RowFits
        <5> QED BY <5>1, <5>2 DEF Right, LeftOut
      <4> QED BY <2>7, <4>1, <4>2
    <3>3. AllRight(orders, e)
      BY <1>1, <1>2, <2>1, <2>5, <3>1, <3>2, CarriedIsRight DEF RowsFitted, Stands
    <3>4. Shifts(orders, M, d, e)
      BY <2>5, <2>6, <3>1, <3>3 DEF Shifts, Stands
    <3>5. orders[o].ref = "none" => Touched(e, o)
      <4> SUFFICES ASSUME orders[o].ref = "none", ~Touched(e, o) PROVE FALSE
        OBVIOUS
      <4>1. a.left = 0
        BY <2>7 DEF IsExitRemarks
      <4>2. BookedIn(e, o) = 0
        BY <1>1, <2>5, <2>6, <3>1, UntouchedIsNothing DEF RowsFitted
      <4> QED BY <1>1, <2>1, <2>5, <3>1, <4>1, <4>2
    <3>6. \A s : IsBooked(d, s) => IsBooked(e, s)
      BY <2>5, <3>1, StaysBooked DEF SameTags
    <3> QED BY <3>4, <3>5, <3>6 DEF IsTaken, KeepsBooked
  <2>8. CASE a.left # 0 /\ ~IsExitRemarks(r)
    <3>1. PICK l : l = NewLot(SideOf(r), a.left, "OPEN", o, TRUE, 2 * o)
      OBVIOUS
    <3>2. l \in LotRows
      BY <2>5, <2>8, <3>1, FreshLot DEF Told
    <3>3. l.tag = 0 /\ l.st = "OPEN" /\ l.ord = o /\ l.side = orders[o].side /\ l.ext = TRUE /\ l.entry = a.left /\ l.open = a.left
      BY <1>1, <3>1 DEF NewLot
    <3>4. e = [a.d EXCEPT !.lots = Append(@, l)]
      BY <1>5, <2>3, <2>8, <3>1 DEF Untagged
    <3>5. e.lots = Append(a.d.lots, l) /\ e.exits = a.d.exits
      BY <2>5, <3>4, LotPutLast
    <3>6. LotOrder(l) = o /\ LotFits(orders, l) /\ l.st \notin Unfilled
      BY <1>1, <2>2, <3>3 DEF LotOrder, LotFits, Unbooked, Unfilled
    <3>7. \A n \in DOMAIN a.d.lots : LotOrder(a.d.lots[n]) # o
      BY <2>2, <2>5 DEF Unbooked, SameTags, Continues, SameLot, LotOrder
    <3>8. LotComes(orders, M, a.d, l, e)
      BY <1>1, <2>5, <2>6, <3>2, <3>5, <3>6, <3>7, LotPutOn
    <3>9. HasFilled(l) /\ OpenPart(l) = orders[o].side * a.left
      BY <3>3 DEF HasFilled, OpenPart
    <3>10. /\ Tables(e) /\ Continues(a.d, e) /\ RowsFitted(orders, e, M)
           /\ Net(e.lots) = Net(a.d.lots) + orders[o].side * a.left
           /\ e.lots[Len(a.d.lots) + 1] = l /\ Len(a.d.lots) + 1 \in DOMAIN e.lots
           /\ \A p \in DOMAIN orders : /\ BookedIn(e, p) = BookedIn(a.d, p) + (IF o = p THEN a.left ELSE 0)
                                       /\ Touched(e, p) => Touched(a.d, p) \/ o = p
      BY <3>3, <3>6, <3>8, <3>9 DEF LotComes
    <3>11. Carries(orders, a.d, e, o, a.left)
      BY <3>10 DEF Carries
    <3>12. Gap(orders, e) = Gap(orders, d)
      BY <1>1, <2>5, <2>6, <3>10, <3>11, GapCarried
    <3>13. \A p : BookedIn(a.d, p) \in Nat
      BY <2>6, BookedIs
    <3>14. Right(orders, e, o)
      BY <1>1, <2>1, <2>5, <3>10, <3>13 DEF Right
    <3>15. Continues(d, e)
      BY <2>5, <3>10, ContinuesChain
    <3>16. \A p \in DOMAIN orders \ {o} : BookedIn(e, p) = BookedIn(d, p) /\ (Touched(e, p) => Touched(d, p))
      BY <2>5, <3>10, <3>13
    <3>17. AllRight(orders, e)
      BY <1>1, <1>2, <2>1, <3>14, <3>15, <3>16, CarriedIsRight DEF RowsFitted, Stands
    <3>18. Shifts(orders, M, d, e)
      BY <3>10, <3>12, <3>15, <3>17 DEF Shifts, Stands
    <3>19. Touched(e, o)
      BY <3>6, <3>9, <3>10 DEF Touched
    <3>20. ASSUME NEW s, IsBooked(d, s) PROVE IsBooked(e, s)
      <4>1. IsBooked(a.d, s)
        BY <2>5, <3>20, StaysBooked DEF SameTags
      <4>2. \A n \in DOMAIN e.lots : (n \in DOMAIN a.d.lots /\ e.lots[n] = a.d.lots[n]) \/ HasFilled(e.lots[n])
        BY <3>8, <3>9 DEF LotComes
      <4>3. Touched(a.d, s.ord) => Touched(e, s.ord)
        BY <3>10, TouchedStays
      <4> QED BY <4>1, <4>2, <4>3 DEF IsBooked
    <3> QED BY <3>18, <3>19, <3>20 DEF IsTaken, KeepsBooked
  <2> QED BY <2>7, <2>8
<1> QED BY <1>3, <1>4, <1>5

\* A ledger with lots netted out says the same of every order.
Netted(M, d0) == {v \in Netting(d0) : Continues(d0, v) /\ RowsFitted(orders, v, M) /\ Calm(orders, d0, v)}

\* Two open lots of opposite sides are netted out.
LEMMA NetOutCalm ==
  ASSUME OrdersOK, NEW M, NEW d0, DbOK(d0), NEW a \in OpenLots(d0), NEW b \in OpenLots(d0), NEW v \in Netted(M, d0)
  PROVE  NetOut(a, b, v) \in Netted(M, d0)
<1> DEFINE q == IF v.lots[a].open < v.lots[b].open THEN v.lots[a].open ELSE v.lots[b].open
<1>1. v \in Netting(d0) /\ DbOK(v) /\ SameTags(d0, v) /\ Continues(d0, v) /\ RowsFitted(orders, v, M) /\ Calm(orders, d0, v)
  BY DEF Netted, Netting
<1>2. Tables(v) /\ OrderTable(orders)
  BY <1>1, LedgerRows DEF Tables, LotTable, ExitTable, OrdersOK, OrderTable
<1>3. /\ a \in DOMAIN v.lots /\ b \in DOMAIN v.lots /\ HasFilled(v.lots[a]) /\ HasFilled(v.lots[b])
      /\ ~OnItsWay(v.lots[a])
  <2>1. a \in DOMAIN d0.lots /\ b \in DOMAIN d0.lots /\ HasFilled(d0.lots[a]) /\ HasFilled(d0.lots[b])
    BY DEF OpenLots, HasFilled
  <2>2. a \in DOMAIN v.lots /\ b \in DOMAIN v.lots /\ HasFilled(v.lots[a]) /\ HasFilled(v.lots[b])
    BY <1>1, <2>1 DEF Continues, SameLot
  <2> QED BY <1>1, <2>2 DEF DbOK, Waiting, HasFilled
<1>4. /\ v.lots[a].side \in {1, -1} /\ v.lots[b].side \in {1, -1} /\ v.lots[a].open \in Nat /\ v.lots[b].open \in Nat
  BY <1>2, <1>3, TableRows DEF LotSet
<1>5. CASE v.lots[a].side = v.lots[b].side \/ q = 0
  BY <1>5 DEF NetOut
<1>6. CASE ~(v.lots[a].side = v.lots[b].side \/ q = 0)
  <2>1. q \in Nat /\ q # 0 /\ q <= v.lots[a].open /\ q <= v.lots[b].open /\ a # b
    BY <1>4, <1>6
  <2>2. NetOut(a, b, v) = Reduce(Reduce(v, a, q), b, q)
    BY <1>6 DEF NetOut
  <2>3. v.lots[b].side = -v.lots[a].side
    BY <1>4, <1>6
  <2> HIDE DEF q
  <2>4. PICK c : c = Reduce(v, a, q)
    OBVIOUS
  <2>5. DbOK(c)
    BY <1>1, <1>3, <2>1, <2>4, ReduceKeeps
  <2>6. ReducedTo(orders, M, v, a, q, c)
    BY <1>1, <1>2, <1>3, <2>1, <2>4, ReducedMoves
  <2>7. /\ Tables(c) /\ Continues(v, c) /\ RowsFitted(orders, c, M) /\ b \in DOMAIN c.lots /\ c.lots[b] = v.lots[b]
        /\ Net(c.lots) = Net(v.lots) - v.lots[a].side * q
        /\ \A p \in DOMAIN orders : BookedIn(c, p) = BookedIn(v, p) /\ (Touched(c, p) => Touched(v, p))
    BY <1>3, <2>1, <2>6 DEF ReducedTo
  <2>8. PICK e : e = Reduce(c, b, q)
    OBVIOUS
  <2>9. ReducedTo(orders, M, c, b, q, e)
    BY <1>2, <1>3, <2>1, <2>5, <2>7, <2>8, ReducedMoves
  <2>10. /\ Tables(e) /\ Continues(c, e) /\ RowsFitted(orders, e, M)
         /\ Net(e.lots) = Net(c.lots) - c.lots[b].side * q
         /\ \A p \in DOMAIN orders : BookedIn(e, p) = BookedIn(c, p) /\ (Touched(e, p) => Touched(c, p))
    BY <2>9 DEF ReducedTo
  <2>11. Net(e.lots) = Net(v.lots)
    <3>1. Net(v.lots) \in Int
      BY <1>2, NetIsOpen DEF Tables
    <3>2. c.lots[b].side * q = -(v.lots[a].side * q) /\ v.lots[a].side * q \in Int
      BY <1>4, <2>1, <2>3, <2>7
    <3> QED BY <2>7, <2>10, <3>1, <3>2
  <2>12. Calm(orders, d0, e)
    BY <1>1, <2>7, <2>10, <2>11 DEF Calm
  <2>13. Continues(d0, e)
    BY <1>1, <2>7, <2>10, ContinuesChain
  <2>14. e \in Netting(d0)
    BY <1>1, <2>2, <2>4, <2>8, NetOutKeeps
  <2> QED BY <2>2, <2>4, <2>8, <2>10, <2>12, <2>13, <2>14 DEF Netted
<1> QED BY <1>1, <1>5, <1>6

\* Netting the open lots out books nothing.
LEMMA OffsetMoves ==
  ASSUME OrdersOK, NEW M, NEW d, DbOK(d), Stands(orders, M, d)
  PROVE  Shifts(orders, M, d, Offset(d))
<1>1. DbOK(d) /\ RowsFitted(orders, d, M)
  BY DEF Stands
<1>2. PICK G : G = Netted(M, d)
  OBVIOUS
<1>3. d \in G
  BY <1>1, <1>2, ContinuesSame DEF Netted, Netting, SameTags, Calm, DbOK
<1>4. \A x \in OpenLots(d), v \in Netting(d) : v \in G => Against(d, x, v) \in G
  <2> SUFFICES ASSUME NEW x \in OpenLots(d), NEW v \in Netting(d), v \in G PROVE Against(d, x, v) \in G
    OBVIOUS
  <2>1. \A y \in OpenLots(d), w \in Netting(d) : w \in G => NetOut(x, y, w) \in G
    BY <1>2, NetOutCalm
  <2> QED BY <2>1, AgainstKeeps
<1>5. Offset(d) \in G
  BY <1>3, <1>4, OffsetKeeps
<1>6. DbOK(Offset(d)) /\ Continues(d, Offset(d)) /\ RowsFitted(orders, Offset(d), M) /\ Calm(orders, d, Offset(d))
  BY <1>2, <1>5 DEF Netted, Netting
<1>7. Tables(Offset(d))
  BY <1>6, LedgerRows DEF Tables, LotTable, ExitTable
<1> QED BY <1>6, <1>7, CalmMoves

\* Writing off the exits that the broker does not know books nothing.
LEMMA WriteOffMoves ==
  ASSUME OrdersOK, NEW M, NEW d, DbOK(d), Stands(orders, M, d), NEW aged \in BOOLEAN, NEW e, e = WriteOff(d, aged)
  PROVE  Shifts(orders, M, d, e)
<1>1. PICK L \in Seq(LotRows) :
           /\ WriteOff(d, aged) = [lots |-> L, exits |-> d.exits, doomed |-> d.doomed]
           /\ DOMAIN L = DOMAIN d.lots
           /\ \A n \in DOMAIN d.lots :
                \/ L[n] = d.lots[n]
                \/ /\ d.lots[n].st = "PENDING" /\ ~OnItsWay(d.lots[n])
                   /\ L[n].st = "CANCELLED" /\ L[n].tag = d.lots[n].tag /\ L[n].ord = d.lots[n].ord
                   /\ L[n].ext = d.lots[n].ext /\ L[n].side = d.lots[n].side
  BY WriteOffIs
<1>2. e.lots = L /\ e.exits = d.exits
  BY <1>1
<1>3. Tables(d) /\ RowsFitted(orders, d, M)
  BY DEF Stands
<1>4. Tables(e)
  BY <1>2, <1>3 DEF Tables, LotTable, ExitTable
<1>5. Continues(d, e)
  BY <1>1, <1>2 DEF Continues, SameLot, SameExit, HasFilled
<1>6. RowsFitted(orders, e, M)
  BY <1>1, <1>2, <1>3, <1>4, <1>5, RowsContinue
<1>7. \A n \in DOMAIN d.lots : /\ OpenPart(L[n]) = OpenPart(d.lots[n])
                               /\ \A p : LotShare(L[n], p) = LotShare(d.lots[n], p)
                               /\ HasFilled(L[n]) => HasFilled(d.lots[n]) /\ L[n] = d.lots[n]
  BY <1>1 DEF OpenPart, LotShare, HasFilled
<1>8. IsFiniteSet(DOMAIN d.lots)
  BY <1>3, TableRows
<1>9. Net(e.lots) = Net(d.lots)
  <2> DEFINE f == [n \in DOMAIN d.lots |-> OpenPart(d.lots[n])]
  <2> DEFINE g == [n \in DOMAIN d.lots |-> OpenPart(L[n])]
  <2>1. \A n \in DOMAIN d.lots : f[n] = g[n]
    BY <1>7
  <2>2. OpenSum(d.lots) = SumFunctionOnSet(f, DOMAIN d.lots) /\ OpenSum(e.lots) = SumFunctionOnSet(g, DOMAIN d.lots)
    BY <1>1, <1>2 DEF OpenSum
  <2> HIDE DEF f, g
  <2>3. SumFunctionOnSet(f, DOMAIN d.lots) = SumFunctionOnSet(g, DOMAIN d.lots)
    BY <1>8, <2>1, SumSame
  <2> QED BY <1>3, <1>4, <2>2, <2>3, NetIsOpen DEF Tables
<1>10. ASSUME NEW p \in DOMAIN orders PROVE BookedIn(e, p) = BookedIn(d, p)
  <2> DEFINE f == [n \in DOMAIN d.lots |-> LotShare(d.lots[n], p)]
  <2> DEFINE g == [n \in DOMAIN d.lots |-> LotShare(L[n], p)]
  <2>1. \A n \in DOMAIN d.lots : f[n] = g[n]
    BY <1>7
  <2>2. LotSum(d.lots, p) = SumFunctionOnSet(f, DOMAIN d.lots) /\ LotSum(e.lots, p) = SumFunctionOnSet(g, DOMAIN d.lots)
    BY <1>1, <1>2 DEF LotSum
  <2> HIDE DEF f, g
  <2>3. SumFunctionOnSet(f, DOMAIN d.lots) = SumFunctionOnSet(g, DOMAIN d.lots)
    BY <1>8, <2>1, SumSame
  <2> QED BY <1>2, <1>3, <1>4, <2>2, <2>3, BookedIs
<1>11. ASSUME NEW p \in DOMAIN orders, Touched(e, p) PROVE Touched(d, p)
  BY <1>1, <1>2, <1>7, <1>11 DEF Touched
<1>12. Calm(orders, d, e)
  BY <1>9, <1>10, <1>11 DEF Calm
<1> QED BY <1>4, <1>5, <1>6, <1>12, CalmMoves

\* A reading that can be passed: its rows say what has ended, M knows those and
\* none that rest, and our orders are known by their numbers.
Readable(rows, M) ==
  /\ \A i \in DOMAIN rows : /\ Told(rows[i]) /\ Numbered(Ledger, rows[i])
                            /\ rows[i].st = "OPEN" <=> rows[i].ord \notin M
                            /\ rows[i].st = "COMPLETE" => rows[i].done # 0
  /\ \A i, j \in DOMAIN rows : rows[i].ord = rows[j].ord => rows[i] = rows[j]

\* A row that has its number keeps it.
LEMMA StaysNumbered ==
  ASSUME NEW c, NEW d, Continues(c, d), NEW r, Numbered(c, r)
  PROVE  Numbered(d, r)
<1>1. WithOrder(c.lots, r.ord) \subseteq WithOrder(d.lots, r.ord) /\ WithOrder(c.exits, r.ord) \subseteq WithOrder(d.exits, r.ord)
  BY DEF Continues, SameLot, SameExit, WithOrder
<1> QED BY <1>1 DEF Numbered

\* The first loop of a pass books every row of an order that is known,
LEMMA AllMatched ==
  ASSUME OrdersOK, NEW M, NEW rows, ReadOK(rows), Readable(rows, M), DbOK(Ledger), Stands(orders, M, Ledger), HasRow(orders, Ledger),
         NEW e, e = MatchAll(Ledger, rows)
  PROVE  /\ DbOK(e) /\ Shifts(orders, M, Ledger, e)
         /\ \A i \in DOMAIN rows : IsBooked(e, rows[i])
<1> DEFINE Part(s) == {v \in Netting(Ledger) : Shifts(orders, M, Ledger, v) /\ \A i \in s : IsBooked(v, rows[i])}
<1> DEFINE G == [s \in SUBSET DOMAIN rows |-> Part(s)]
<1>1. Ledger \in Part({})
  BY MovesSame DEF Netting, SameTags, DbOK
<1>2. ASSUME NEW s \in SUBSET DOMAIN rows, NEW x \in DOMAIN rows \ s, NEW v \in Part(s)
      PROVE  Matched(Ledger, v, rows[x]) \in Part(s \cup {x})
  <2>1. /\ DbOK(v) /\ SameTags(Ledger, v) /\ Shifts(orders, M, Ledger, v) /\ \A i \in s : IsBooked(v, rows[i])
    BY DEF Netting
  <2>2. Continues(Ledger, v) /\ Stands(orders, M, v)
    BY <2>1 DEF Shifts
  <2>3. HasRow(orders, v) /\ Told(rows[x]) /\ Numbered(v, rows[x]) /\ Tables(Ledger)
    BY <2>2, HasRowStays, StaysNumbered DEF Readable, Stands
  <2>4. PICK f : f = Matched(Ledger, v, rows[x])
    OBVIOUS
  <2>5. Shifts(orders, M, v, f) /\ IsBooked(f, rows[x])
    BY <2>1, <2>2, <2>3, <2>4, MatchedMoves
  <2>6. DbOK(f) /\ SameTags(Ledger, f)
    BY <2>1, <2>3, <2>4, MatchedKeeps DEF Told
  <2>7. Shifts(orders, M, Ledger, f)
    BY <2>1, <2>5, MovesChain
  <2>8. \A i \in s : IsBooked(f, rows[i])
    <3>1. Continues(v, f) /\ DOMAIN f.lots = DOMAIN v.lots
      BY <2>1, <2>5, <2>6 DEF Shifts, SameTags
    <3> QED BY <2>1, <3>1, StaysBooked
  <2> QED BY <2>4, <2>5, <2>6, <2>7, <2>8 DEF Netting, DbOK
<1>3. /\ Ledger \in G[{}]
      /\ \A s \in SUBSET DOMAIN rows : \A x \in DOMAIN rows \ s, v \in Netting(Ledger) :
           v \in G[s] => Matched(Ledger, v, rows[x]) \in G[s \cup {x}]
  BY <1>1, <1>2
<1>4. G[DOMAIN rows] = Part(DOMAIN rows)
  OBVIOUS
<1> HIDE DEF G
<1>5. e \in Part(DOMAIN rows)
  BY <1>3, <1>4, MatchedAll
<1> QED BY <1>5 DEF Netting

\* the second imports the resting orders,
LEMMA AllImported ==
  ASSUME OrdersOK, NEW M, NEW rows, ReadOK(rows), Readable(rows, M), HasRow(orders, Ledger),
         NEW d, DbOK(d), Shifts(orders, M, Ledger, d), \A i \in DOMAIN rows : IsBooked(d, rows[i]),
         NEW e, e = ImportAll(d, rows)
  PROVE  /\ DbOK(e) /\ Shifts(orders, M, Ledger, e)
         /\ \A i \in DOMAIN rows : IsBooked(e, rows[i])
<1> DEFINE Part == {v \in SoundLedgers : Shifts(orders, M, Ledger, v) /\ \A i \in DOMAIN rows : IsBooked(v, rows[i])}
<1> DEFINE G == [s \in SUBSET DOMAIN rows |-> Part]
<1>1. d \in Part
  BY DEF SoundLedgers, DbOK
<1>2. ASSUME NEW x \in DOMAIN rows, NEW v \in Part
      PROVE  Imported(d, v, rows[x]) \in Part
  <2>1. /\ DbOK(v) /\ Shifts(orders, M, Ledger, v) /\ \A i \in DOMAIN rows : IsBooked(v, rows[i])
    BY DEF SoundLedgers
  <2>2. Continues(Ledger, v) /\ Stands(orders, M, v)
    BY <2>1 DEF Shifts
  <2>3. HasRow(orders, v) /\ Told(rows[x]) /\ Numbered(v, rows[x]) /\ (rows[x].st = "OPEN" => rows[x].ord \notin M)
    BY <2>2, HasRowStays, StaysNumbered DEF Readable
  <2>4. PICK f : f = Imported(d, v, rows[x])
    OBVIOUS
  <2>5. Shifts(orders, M, v, f) /\ KeepsBooked(v, f, rows[x])
    BY <2>1, <2>2, <2>3, <2>4, ImportedMoves
  <2>6. DbOK(f)
    BY <2>1, <2>3, <2>4, ImportedKeeps DEF Told
  <2>7. Shifts(orders, M, Ledger, f)
    BY <2>1, <2>5, MovesChain
  <2>8. \A i \in DOMAIN rows : IsBooked(f, rows[i])
    BY <2>1, <2>5 DEF Readable, KeepsBooked
  <2> QED BY <2>4, <2>6, <2>7, <2>8 DEF SoundLedgers, DbOK
<1>3. /\ d \in G[{}]
      /\ \A s \in SUBSET DOMAIN rows : \A x \in DOMAIN rows \ s, v \in SoundLedgers :
           v \in G[s] => Imported(d, v, rows[x]) \in G[s \cup {x}]
  BY <1>1, <1>2
<1>4. G[DOMAIN rows] = Part
  OBVIOUS
<1> HIDE DEF G
<1>5. e \in Part
  BY <1>3, <1>4, ImportedAll
<1> QED BY <1>5 DEF SoundLedgers

\* and the third books the fills of the orders that nobody knows.
LEMMA AllUntagged ==
  ASSUME OrdersOK, NEW M, NEW rows, ReadOK(rows), Readable(rows, M), HasRow(orders, Ledger),
         NEW d, DbOK(d), Shifts(orders, M, Ledger, d), \A i \in DOMAIN rows : IsBooked(d, rows[i]),
         NEW e, e = BookAll(d, rows)
  PROVE  /\ DbOK(e) /\ Shifts(orders, M, Ledger, e)
         /\ \A i \in DOMAIN rows :
              /\ IsBooked(e, rows[i])
              /\ IsTaken(e, rows[i])
<1> DEFINE Part(s) == {v \in SoundLedgers : /\ Shifts(orders, M, Ledger, v)
                                            /\ \A i \in DOMAIN rows : IsBooked(v, rows[i])
                                            /\ \A i \in s : IsTaken(v, rows[i])}
<1> DEFINE G == [s \in SUBSET DOMAIN rows |-> Part(s)]
<1>1. d \in Part({})
  BY DEF SoundLedgers, DbOK
<1>2. ASSUME NEW s \in SUBSET DOMAIN rows, NEW x \in DOMAIN rows \ s, NEW v \in Part(s)
      PROVE  Untagged(d, v, rows[x]) \in Part(s \cup {x})
  <2>1. /\ DbOK(v) /\ Shifts(orders, M, Ledger, v) /\ (\A i \in DOMAIN rows : IsBooked(v, rows[i]))
        /\ \A i \in s : IsTaken(v, rows[i])
    BY DEF SoundLedgers
  <2>2. Continues(Ledger, v) /\ Stands(orders, M, v)
    BY <2>1 DEF Shifts
  <2>3. /\ HasRow(orders, v) /\ Told(rows[x]) /\ Numbered(v, rows[x])
        /\ rows[x].st \in Final => rows[x].ord \in M
        /\ rows[x].st = "COMPLETE" => rows[x].done # 0
    BY <2>2, HasRowStays, StaysNumbered DEF Readable, Final
  <2>4. PICK f : f = Untagged(d, v, rows[x])
    OBVIOUS
  <2>5. Shifts(orders, M, v, f) /\ IsTaken(f, rows[x]) /\ KeepsBooked(v, f, rows[x])
    BY <2>1, <2>2, <2>3, <2>4, UntaggedMoves
  <2>6. DbOK(f)
    BY <2>1, <2>3, <2>4, UntaggedKeeps DEF Told
  <2>7. Shifts(orders, M, Ledger, f)
    BY <2>1, <2>5, MovesChain
  <2>8. \A i \in s : IsTaken(f, rows[i])
    <3>1. \A o : Touched(v, o) => Touched(f, o)
      BY <2>5, TouchedStays DEF Shifts
    <3> QED BY <2>1, <3>1 DEF IsTaken
  <2>10. \A i \in DOMAIN rows : IsBooked(f, rows[i])
    BY <2>1, <2>5 DEF Readable, KeepsBooked
  <2>9. f \in SoundLedgers
    BY <2>6 DEF SoundLedgers, DbOK
  <2> QED BY <2>4, <2>5, <2>7, <2>8, <2>9, <2>10
<1>3. /\ d \in G[{}]
      /\ \A s \in SUBSET DOMAIN rows : \A x \in DOMAIN rows \ s, v \in SoundLedgers :
           v \in G[s] => Untagged(d, v, rows[x]) \in G[s \cup {x}]
  BY <1>1, <1>2
<1>4. G[DOMAIN rows] = Part(DOMAIN rows)
  OBVIOUS
<1> HIDE DEF G
<1>5. e \in Part(DOMAIN rows)
  BY <1>3, <1>4, UntaggedAll
<1> QED BY <1>5 DEF SoundLedgers

-----------------------------------------------------------------------------
(* The pass                                                                *)

\* An order that was met in its final state has ended, and its fill was booked.
Ended(O, d, o) ==
  /\ Over(O, o)
  /\ (O[o].ref \in {"lot", "exit"} /\ O[o].done # 0) \/ (O[o].ref = "none" /\ O[o].st = "COMPLETE") => Touched(d, o)

\* A whole pass: the ledger moves, and each order it read as final has ended in it.
LEMMA PassMoves ==
  ASSUME OrdersOK, NEW M, NEW rows, ReadOK(rows), Readable(rows, M), DbOK(Ledger), Stands(orders, M, Ledger), HasRow(orders, Ledger),
         NEW aged \in BOOLEAN, NEW e, e = Pass(rows, aged)
  PROVE  /\ Shifts(orders, M, Ledger, e)
         /\ \A i \in DOMAIN rows : rows[i].st \in Final => Ended(orders, e, rows[i].ord)
<1>1. CASE rows = <<>>
  <2>1. e = Ledger
    BY <1>1 DEF Pass, Ledger
  <2> QED BY <1>1, <2>1, MovesSame
<1>2. CASE rows # <<>>
  <2>1. PICK d1 : d1 = MatchAll(Ledger, rows)
    OBVIOUS
  <2>2. /\ DbOK(d1) /\ Shifts(orders, M, Ledger, d1)
        /\ \A i \in DOMAIN rows : IsBooked(d1, rows[i])
    BY <2>1, AllMatched
  <2>3. PICK d2 : d2 = ImportAll(d1, rows)
    OBVIOUS
  <2>4. /\ DbOK(d2) /\ Shifts(orders, M, Ledger, d2)
        /\ \A i \in DOMAIN rows : IsBooked(d2, rows[i])
    BY <2>2, <2>3, AllImported
  <2>5. PICK d3 : d3 = BookAll(d2, rows)
    OBVIOUS
  <2>6. /\ DbOK(d3) /\ Shifts(orders, M, Ledger, d3)
        /\ \A i \in DOMAIN rows :
              /\ IsBooked(d3, rows[i])
              /\ IsTaken(d3, rows[i])
    BY <2>4, <2>5, AllUntagged
  <2>7. PICK d4 : d4 = Offset(d3)
    OBVIOUS
  <2>8. DbOK(d4) /\ Shifts(orders, M, d3, d4)
    BY <2>6, <2>7, OffsetMoves, OffsetKeeps DEF Shifts, Netting
  <2>9. e = WriteOff(d4, aged)
    BY <1>2, <2>1, <2>3, <2>5, <2>7 DEF Pass, Ledger
  <2>10. Shifts(orders, M, d4, e)
    BY <2>8, <2>9, WriteOffMoves DEF Shifts
  <2>11. Shifts(orders, M, d3, e) /\ Shifts(orders, M, Ledger, e)
    BY <2>6, <2>8, <2>10, MovesChain
  <2>12. ASSUME NEW i \in DOMAIN rows, rows[i].st \in Final PROVE Ended(orders, e, rows[i].ord)
    <3>1. Over(orders, rows[i].ord) /\ rows[i].done = orders[rows[i].ord].done
      BY <2>12, ToldIs DEF Readable
    <3>2. Touched(d3, rows[i].ord) => Touched(e, rows[i].ord)
      BY <2>11, TouchedStays DEF Shifts
    <3>3. orders[rows[i].ord].st = "COMPLETE" => rows[i].st = "COMPLETE"
      BY <2>12 DEF Readable, Told, RowFits, Final
    <3> QED BY <2>6, <2>12, <3>1, <3>2, <3>3 DEF Ended, IsBooked, IsTaken, HasEnded
  <2> QED BY <2>11, <2>12
<1> QED BY <1>1, <1>2

\* What ends was not there before, traded no more than it was for, and all of it if it is COMPLETE.
OrderFits(x) == /\ x.st \in {"sent", "REFUSED"} => x.done = 0
                /\ x.done <= x.qty
                /\ x.st = "COMPLETE" => x.done # 0
OrdersFit(O) == \A o \in DOMAIN O : OrderFits(O[o])
RowsTold(O, rows) ==
  \A i \in DOMAIN rows : /\ RowFits(O, rows[i])
                         /\ \A j \in DOMAIN rows : rows[i].ord = rows[j].ord => rows[i] = rows[j]
AllEnded(O, d, M) == \A o \in M : o \in DOMAIN O /\ Ended(O, d, o)
Whole(O, M, d) == Stands(O, M, d) /\ HasRow(O, d) /\ AllEnded(O, d, M)
Clean == misread = {} /\ ~Recycled
AddsInv ==
  /\ OrdersFit(orders) /\ RowsTold(orders, late) /\ RowsTold(orders, sync.rows) /\ missed \in Nat
  /\ Clean => Whole(orders, met, Ledger)
  /\ Clean /\ ~blunt => Gap(orders, Ledger) + missed = Held

-----------------------------------------------------------------------------
(* The orders go on                                                        *)

\* Orders are added or go forward; one that has ended stays as it is.
Forward(O, P) ==
  /\ DOMAIN O \subseteq DOMAIN P
  /\ \A o \in DOMAIN O : /\ P[o].side = O[o].side /\ P[o].ref = O[o].ref /\ P[o].was = O[o].was
                         /\ Over(O, o) => P[o].st = O[o].st /\ P[o].done = O[o].done
\* None of those that are added has a row.
NoRows(O, P) == \A o \in DOMAIN P \ DOMAIN O : P[o].ref \in {"none", "card"}

\* What was booked is about orders that were there.
LEMMA TouchedIsThere ==
  ASSUME NEW O, NEW M, NEW d, AllFit(O, d, M), NEW o, o # 0, Touched(d, o)
  PROVE  o \in DOMAIN O
<1>1. CASE \E n \in DOMAIN d.lots : HasFilled(d.lots[n]) /\ LotOrder(d.lots[n]) = o
  BY <1>1 DEF AllFit, LotFits
<1>2. CASE \E e \in DOMAIN d.exits : d.exits[e].filled # 0 /\ ExitOrder(d.exits[e]) = o
  BY <1>2 DEF AllFit, ExitFits
<1> QED BY <1>1, <1>2 DEF Touched

\* Rows that fit the orders fit them as they go on,
LEMMA ForwardFits ==
  ASSUME NEW O, NEW P, Forward(O, P), NEW M, NEW d, AllFit(O, d, M)
  PROVE  AllFit(P, d, M)
<1>1. \A n \in DOMAIN d.lots : LotFits(P, d.lots[n])
  BY DEF AllFit, LotFits, Forward
<1>2. \A e \in DOMAIN d.exits : ExitFits(P, d.lots, d.exits[e], M)
  BY DEF AllFit, ExitFits, Forward
<1> QED BY <1>1, <1>2 DEF AllFit

\* what was right of them stays right,
LEMMA ForwardRight ==
  ASSUME NEW O, NEW P, OrderTable(P), Forward(O, P), NEW M, NEW d, AllFit(O, d, M), AllRight(O, d)
  PROVE  AllRight(P, d)
<1> SUFFICES ASSUME NEW o \in DOMAIN P, Touched(d, o) PROVE Over(P, o) /\ Right(P, d, o)
  BY DEF AllRight
<1>1. o # 0
  BY DEF OrderTable
<1>2. o \in DOMAIN O
  BY <1>1, TouchedIsThere
<1>3. Over(O, o) /\ Right(O, d, o)
  BY <1>2 DEF AllRight
<1>4. P[o].ref = O[o].ref /\ P[o].st = O[o].st /\ P[o].done = O[o].done
  BY <1>2, <1>3 DEF Forward
<1> QED BY <1>3, <1>4 DEF Over, Right, LeftOut

\* The books are short of the account by as much as before.
LEMMA ForwardGap ==
  ASSUME NEW O, OrderTable(O), NEW P, OrderTable(P), Forward(O, P), NEW M, NEW d, Tables(d), AllFit(O, d, M)
  PROVE  Gap(P, d) = Gap(O, d)
<1> DEFINE S == DOMAIN O
<1> DEFINE T == DOMAIN P
<1> DEFINE f == [o \in S |-> O[o].side * BookedIn(d, o)]
<1> DEFINE g == [o \in T |-> P[o].side * BookedIn(d, o)]
<1>1. /\ IsFiniteSet(S) /\ IsFiniteSet(T) /\ S \subseteq T
      /\ \A o \in T : P[o].side \in {1, -1} /\ BookedIn(d, o) \in Nat /\ o # 0
  <2>1. /\ S = 1..Len(O) /\ Len(O) \in Nat /\ T = 1..Len(P) /\ Len(P) \in Nat
        /\ \A o \in T : P[o] \in OrderRows
    BY DEF OrderTable
  <2>2. IsFiniteSet(1..Len(O)) /\ IsFiniteSet(1..Len(P))
    BY <2>1, FS_Interval
  <2>3. \A o \in T : P[o].side \in {1, -1} /\ o # 0
    BY <2>1 DEF OrderRows
  <2> QED BY <2>1, <2>2, <2>3, BookedIs DEF Forward
<1>2. \A o \in T : g[o] \in Int
  <2> SUFFICES ASSUME NEW o \in T PROVE P[o].side * BookedIn(d, o) \in Int
    OBVIOUS
  <2>1. P[o].side \in Int /\ BookedIn(d, o) \in Int
    BY <1>1
  <2> QED BY <2>1
<1>3. \A o \in S : g[o] = f[o]
  BY <1>1 DEF Forward
<1>4. \A o \in T \ S : g[o] = 0
  <2> SUFFICES ASSUME NEW o \in T \ S PROVE P[o].side * BookedIn(d, o) = 0
    OBVIOUS
  <2>1. ~Touched(d, o) /\ o # 0
    BY <1>1, TouchedIsThere
  <2>2. BookedIn(d, o) = 0
    BY <2>1, UntouchedIsNothing
  <2>3. P[o].side \in Int
    BY <1>1
  <2> QED BY <2>2, <2>3
<1>5. /\ Gap(O, d) = Net(d.lots) - SumFunctionOnSet(f, S)
      /\ Gap(P, d) = Net(d.lots) - SumFunctionOnSet(g, T)
  BY DEF Gap
<1> HIDE DEF f, g, S, T
<1>6. SumFunctionOnSet(g, T) = SumFunctionOnSet(g, S)
  BY <1>1, <1>2, <1>4, SumPart
<1>7. SumFunctionOnSet(g, S) = SumFunctionOnSet(f, S)
  BY <1>1, <1>3, SumSame
<1> QED BY <1>5, <1>6, <1>7

\* what has ended stays so,
LEMMA ForwardEnded ==
  ASSUME NEW O, NEW P, Forward(O, P), NEW M, NEW d, AllEnded(O, d, M)
  PROVE  AllEnded(P, d, M)
BY DEF AllEnded, Ended, Over, Forward

\* and what was read stays true.
LEMMA ForwardTold ==
  ASSUME NEW O, NEW P, Forward(O, P), NEW rows \in Seq(BookRows), RowsTold(O, rows)
  PROVE  RowsTold(P, rows)
<1> SUFFICES ASSUME NEW i \in DOMAIN rows PROVE RowFits(P, rows[i])
  BY DEF RowsTold
<1>1. RowFits(O, rows[i]) /\ rows[i].st \in {"OPEN", "COMPLETE", "CANCELLED"}
  <2>1. rows[i] \in BookRows
    OBVIOUS
  <2> QED BY <2>1 DEF RowsTold, BookRows
<1> QED BY <1>1 DEF RowFits, Forward, Over

\* A ledger that fits the orders fits them as they go on.
GoesOn(O, P, M, d) == Stands(P, M, d) /\ AllEnded(P, d, M) /\ Gap(P, d) = Gap(O, d) /\ (NoRows(O, P) => HasRow(P, d))
\* A ledger that is whole stays whole when no order with a row is added.
LEMMA ForwardGoesOn ==
  ASSUME NEW O, OrderTable(O), NEW P, OrderTable(P), Forward(O, P), NEW M, NEW d, Whole(O, M, d)
  PROVE  GoesOn(O, P, M, d)
<1>1. Tables(d) /\ AllFit(O, d, M) /\ RowsOne(d) /\ AllRight(O, d) /\ HasRow(O, d) /\ AllEnded(O, d, M)
  BY DEF Whole, Stands, RowsFitted
<1>2. AllFit(P, d, M) /\ AllRight(P, d) /\ Gap(P, d) = Gap(O, d) /\ AllEnded(P, d, M)
  BY <1>1, ForwardFits, ForwardRight, ForwardGap, ForwardEnded
<1>3. NoRows(O, P) => HasRow(P, d)
  BY <1>1 DEF HasRow, NoRows, Forward
<1> QED BY <1>1, <1>2, <1>3 DEF GoesOn, Stands, RowsFitted

\* Rows get their number or are written off; nothing is booked by that.
SameBooking(k, l) == /\ l.side = k.side /\ l.tag = k.tag /\ l.ext = k.ext /\ l.entry = k.entry /\ l.open = k.open
                     /\ l.ord = k.ord \/ (l.tag # 0 /\ l.ord = l.tag)
                     /\ l.st = k.st \/ {k.st, l.st} \subseteq Unfilled
SameFill(x, y) == /\ y.lot = x.lot /\ y.tag = x.tag /\ y.filled = x.filled /\ y.took = x.took
                  /\ y.ord = x.ord \/ (y.tag # 0 /\ y.ord = y.tag)
                  /\ x.st # "deleted" => y.st # "deleted"
Rewritten(c, d) ==
  /\ Tables(c) /\ Tables(d) /\ DOMAIN d.lots = DOMAIN c.lots /\ DOMAIN d.exits = DOMAIN c.exits
  /\ \A n \in DOMAIN c.lots : SameBooking(c.lots[n], d.lots[n])
  /\ \A e \in DOMAIN c.exits : SameFill(c.exits[e], d.exits[e])

\* Such a lot says the same of its order,
LEMMA SameBookingIs ==
  ASSUME NEW k, NEW l, SameBooking(k, l)
  PROVE  /\ LotOrder(l) = LotOrder(k) /\ HasFilled(l) = HasFilled(k) /\ OpenPart(l) = OpenPart(k)
         /\ l.st \in Unfilled <=> k.st \in Unfilled
         /\ \A O : LotFits(O, k) => LotFits(O, l)
<1>1. LotOrder(l) = LotOrder(k)
  BY DEF SameBooking, LotOrder
<1>2. HasFilled(l) = HasFilled(k) /\ OpenPart(l) = OpenPart(k) /\ (l.st \in Unfilled <=> k.st \in Unfilled)
  BY DEF SameBooking, HasFilled, OpenPart, Unfilled
<1>3. \A O : LotFits(O, k) => LotFits(O, l)
  BY <1>1 DEF SameBooking, LotFits, LotOrder
<1> QED BY <1>1, <1>2, <1>3

\* and such an exit too.
LEMMA SameFillIs ==
  ASSUME NEW x, NEW y, SameFill(x, y)
  PROVE  /\ ExitOrder(y) = ExitOrder(x)
         /\ \A O, L, M : ExitFits(O, L, x, M) => ExitFits(O, L, y, M)
<1>1. ExitOrder(y) = ExitOrder(x)
  BY DEF SameFill, ExitOrder
<1>2. \A O, L, M : ExitFits(O, L, x, M) => ExitFits(O, L, y, M)
  BY <1>1 DEF SameFill, ExitFits, ExitOrder
<1> QED BY <1>1, <1>2

\* The rows of d are sound,
LEMMA RewrittenRows ==
  ASSUME NEW c, NEW d, Rewritten(c, d), NEW O, NEW M, RowsFitted(O, c, M)
  PROVE  RowsFitted(O, d, M)
<1>1. /\ \A n \in DOMAIN d.lots : /\ n \in DOMAIN c.lots /\ LotOrder(d.lots[n]) = LotOrder(c.lots[n])
                                  /\ HasFilled(d.lots[n]) = HasFilled(c.lots[n]) /\ d.lots[n].side = c.lots[n].side
                                  /\ d.lots[n].st \in Unfilled <=> c.lots[n].st \in Unfilled
                                  /\ LotFits(O, d.lots[n])
      /\ \A e \in DOMAIN d.exits : /\ e \in DOMAIN c.exits /\ ExitOrder(d.exits[e]) = ExitOrder(c.exits[e])
                                   /\ d.exits[e].tag = c.exits[e].tag
                                   /\ ExitFits(O, c.lots, d.exits[e], M)
  <2>1. ASSUME NEW n \in DOMAIN d.lots
        PROVE  /\ n \in DOMAIN c.lots /\ LotOrder(d.lots[n]) = LotOrder(c.lots[n])
               /\ HasFilled(d.lots[n]) = HasFilled(c.lots[n]) /\ d.lots[n].side = c.lots[n].side
               /\ d.lots[n].st \in Unfilled <=> c.lots[n].st \in Unfilled
               /\ LotFits(O, d.lots[n])
    <3>1. n \in DOMAIN c.lots /\ SameBooking(c.lots[n], d.lots[n]) /\ LotFits(O, c.lots[n])
      BY DEF Rewritten, RowsFitted, AllFit
    <3> QED BY <3>1, SameBookingIs DEF SameBooking
  <2>2. ASSUME NEW e \in DOMAIN d.exits
        PROVE  /\ e \in DOMAIN c.exits /\ ExitOrder(d.exits[e]) = ExitOrder(c.exits[e])
               /\ d.exits[e].tag = c.exits[e].tag
               /\ ExitFits(O, c.lots, d.exits[e], M)
    <3>1. e \in DOMAIN c.exits /\ SameFill(c.exits[e], d.exits[e]) /\ ExitFits(O, c.lots, c.exits[e], M)
      BY DEF Rewritten, RowsFitted, AllFit
    <3> QED BY <3>1, SameFillIs DEF SameFill
  <2> QED BY <2>1, <2>2
<1>2. \A e \in DOMAIN d.exits : ExitFits(O, d.lots, d.exits[e], M)
  BY <1>1 DEF ExitFits, Rewritten
<1>3. OneLot(d) /\ OneExit(d) /\ Alone(d)
  <2>1. OneLot(c) /\ OneExit(c) /\ Alone(c)
    BY DEF RowsFitted, RowsOne
  <2>2. OneLot(d)
    BY <1>1, <2>1 DEF OneLot
  <2>3. OneExit(d)
    BY <1>1, <2>1 DEF OneExit
  <2>4. Alone(d)
    BY <1>1, <2>1 DEF Alone
  <2> QED BY <2>2, <2>3, <2>4
<1> QED BY <1>1, <1>2, <1>3 DEF RowsFitted, RowsOne, AllFit

\* and say the same of every order.
LEMMA RewrittenSame ==
  ASSUME NEW c, NEW d, Rewritten(c, d), NEW O, NEW M, AllFit(O, c, M), AllFit(O, d, M)
  PROVE  /\ Net(d.lots) = Net(c.lots)
         /\ \A o : o # 0 => BookedIn(d, o) = BookedIn(c, o)
         /\ \A o : Touched(d, o) <=> Touched(c, o)
<1>1. /\ IsFiniteSet(DOMAIN c.lots) /\ IsFiniteSet(DOMAIN c.exits)
      /\ DOMAIN d.lots = DOMAIN c.lots /\ DOMAIN d.exits = DOMAIN c.exits /\ Tables(c) /\ Tables(d)
  BY TableRows DEF Rewritten
<1>2. \A n \in DOMAIN c.lots : /\ LotOrder(d.lots[n]) = LotOrder(c.lots[n]) /\ HasFilled(d.lots[n]) = HasFilled(c.lots[n])
                               /\ OpenPart(d.lots[n]) = OpenPart(c.lots[n]) /\ d.lots[n].entry = c.lots[n].entry
  BY SameBookingIs DEF Rewritten, SameBooking
<1>3. \A e \in DOMAIN c.exits : /\ ExitOrder(d.exits[e]) = ExitOrder(c.exits[e])
                                /\ d.exits[e].filled = c.exits[e].filled /\ d.exits[e].took = c.exits[e].took
  BY SameFillIs DEF Rewritten, SameFill
<1>4. Net(d.lots) = Net(c.lots)
  <2>1. Net(d.lots) = OpenSum(d.lots) /\ Net(c.lots) = OpenSum(c.lots)
    BY <1>1, NetIsOpen DEF Tables
  <2> DEFINE f == [n \in DOMAIN c.lots |-> OpenPart(c.lots[n])]
  <2> DEFINE g == [n \in DOMAIN c.lots |-> OpenPart(d.lots[n])]
  <2>2. /\ OpenSum(c.lots) = SumFunctionOnSet(f, DOMAIN c.lots) /\ OpenSum(d.lots) = SumFunctionOnSet(g, DOMAIN c.lots)
        /\ \A n \in DOMAIN c.lots : f[n] = g[n]
    BY <1>1, <1>2 DEF OpenSum
  <2> HIDE DEF f, g
  <2> QED BY <1>1, <2>1, <2>2, SumSame
<1>5. ASSUME NEW o, o # 0 PROVE BookedIn(d, o) = BookedIn(c, o)
  <2> DEFINE f == [n \in DOMAIN c.lots |-> LotShare(c.lots[n], o)]
  <2> DEFINE g == [n \in DOMAIN c.lots |-> LotShare(d.lots[n], o)]
  <2> DEFINE u == [e \in DOMAIN c.exits |-> ExitShare(c.exits[e], o)]
  <2> DEFINE v == [e \in DOMAIN c.exits |-> ExitShare(d.exits[e], o)]
  <2>1. \A n \in DOMAIN c.lots : f[n] = g[n]
    <3> SUFFICES ASSUME NEW n \in DOMAIN c.lots PROVE LotShare(c.lots[n], o) = LotShare(d.lots[n], o)
      OBVIOUS
    <3>1. LotFits(O, c.lots[n]) /\ LotFits(O, d.lots[n])
      BY <1>1 DEF AllFit
    <3>2. /\ LotShare(c.lots[n], o) = IF HasFilled(c.lots[n]) /\ LotOrder(c.lots[n]) = o THEN c.lots[n].entry ELSE 0
          /\ LotShare(d.lots[n], o) = IF HasFilled(d.lots[n]) /\ LotOrder(d.lots[n]) = o THEN d.lots[n].entry ELSE 0
      BY <1>5, <3>1, SharesAre
    <3> QED BY <1>2, <3>2
  <2>2. \A e \in DOMAIN c.exits : u[e] = v[e]
    <3> SUFFICES ASSUME NEW e \in DOMAIN c.exits PROVE ExitShare(c.exits[e], o) = ExitShare(d.exits[e], o)
      OBVIOUS
    <3>1. /\ c.exits[e].st # "deleted" /\ c.exits[e].ord \in {0, ExitOrder(c.exits[e])}
          /\ d.exits[e].st # "deleted" /\ d.exits[e].ord \in {0, ExitOrder(d.exits[e])}
      BY <1>1 DEF AllFit, ExitFits
    <3>2. /\ ExitShare(c.exits[e], o) = IF ExitOrder(c.exits[e]) = o THEN c.exits[e].took ELSE 0
          /\ ExitShare(d.exits[e], o) = IF ExitOrder(d.exits[e]) = o THEN d.exits[e].took ELSE 0
      BY <1>5, <3>1, SharesAre
    <3> QED BY <1>3, <3>2
  <2>3. /\ BookedIn(c, o) = SumFunctionOnSet(f, DOMAIN c.lots) + SumFunctionOnSet(u, DOMAIN c.exits)
        /\ BookedIn(d, o) = SumFunctionOnSet(g, DOMAIN c.lots) + SumFunctionOnSet(v, DOMAIN c.exits)
    BY <1>1 DEF BookedIn
  <2> HIDE DEF f, g, u, v
  <2>4. /\ SumFunctionOnSet(f, DOMAIN c.lots) = SumFunctionOnSet(g, DOMAIN c.lots)
        /\ SumFunctionOnSet(u, DOMAIN c.exits) = SumFunctionOnSet(v, DOMAIN c.exits)
    BY <1>1, <2>1, <2>2, SumSame
  <2> QED BY <2>3, <2>4
<1>6. \A o : Touched(d, o) <=> Touched(c, o)
  BY <1>1, <1>2, <1>3 DEF Touched
<1> QED BY <1>4, <1>5, <1>6

\* A ledger that is only rewritten stays whole, and as far off the account.
LEMMA RewrittenStays ==
  ASSUME NEW O, OrderTable(O), NEW M, NEW c, Whole(O, M, c), NEW d, Rewritten(c, d)
  PROVE  Whole(O, M, d) /\ Gap(O, d) = Gap(O, c)
<1>1. Tables(c) /\ Tables(d) /\ RowsFitted(O, c, M) /\ AllRight(O, c) /\ HasRow(O, c) /\ AllEnded(O, c, M)
  BY DEF Whole, Stands, Rewritten
<1>2. RowsFitted(O, d, M) /\ AllFit(O, c, M) /\ AllFit(O, d, M)
  BY <1>1, RewrittenRows DEF RowsFitted
<1>3. /\ Net(d.lots) = Net(c.lots)
      /\ \A o : o # 0 => BookedIn(d, o) = BookedIn(c, o)
      /\ \A o : Touched(d, o) <=> Touched(c, o)
  BY <1>2, RewrittenSame
<1>4. \A o \in DOMAIN O : o # 0
  BY DEF OrderTable
<1>5. AllRight(O, d)
  <2> SUFFICES ASSUME NEW o \in DOMAIN O, Touched(d, o) PROVE Over(O, o) /\ Right(O, d, o)
    BY DEF AllRight
  <2>1. Over(O, o) /\ Right(O, c, o) /\ BookedIn(d, o) = BookedIn(c, o) /\ o # 0
    BY <1>1, <1>3, <1>4 DEF AllRight
  <2>2. CASE \E e \in DOMAIN c.exits : c.exits[e].tag = o /\ c.exits[e].took < c.exits[e].filled
    BY <2>1, <2>2 DEF Right, LeftOut, Rewritten, SameFill
  <2>3. CASE \E e \in DOMAIN c.exits, n \in DOMAIN c.lots : c.exits[e].tag = o /\ c.lots[n].ext /\ c.lots[n].ord = o
    <3>1. PICK e \in DOMAIN c.exits, n \in DOMAIN c.lots : c.exits[e].tag = o /\ c.lots[n].ext /\ c.lots[n].ord = o
      BY <2>3
    <3>2. LotFits(O, c.lots[n])
      BY <1>2 DEF AllFit
    <3>3. c.lots[n].tag = 0
      BY <2>1, <3>1, <3>2 DEF LotFits, LotOrder
    <3>4. d.lots[n].ext /\ d.lots[n].ord = o /\ n \in DOMAIN d.lots /\ e \in DOMAIN d.exits /\ d.exits[e].tag = o
      BY <3>1, <3>3 DEF Rewritten, SameBooking, SameFill
    <3> QED BY <2>1, <3>4 DEF Right, LeftOut
  <2> QED BY <2>1, <2>2, <2>3 DEF Right, LeftOut
<1>6. HasRow(O, d)
  BY <1>1 DEF HasRow, Rewritten, SameBooking, SameFill
<1>7. AllEnded(O, d, M)
  BY <1>1, <1>3 DEF AllEnded, Ended
<1>8. Gap(O, d) = Gap(O, c)
  <2>1. Calm(O, c, d)
    BY <1>3, <1>4 DEF Calm
  <2> QED BY <2>1, GapCalm
<1> QED BY <1>1, <1>2, <1>5, <1>6, <1>7, <1>8 DEF Whole, Stands

\* The marks that the passes leave stay.
MarksStay == missed' = missed /\ misread' = misread /\ blunt' = blunt /\ met' = met

\* If the marks are clear after a step they were before it.
LEMMA CleanWas ==
  ASSUME Forward(orders, orders'), misread \subseteq misread', Clean'
  PROVE  Clean
BY DEF Clean, Recycled, Forward

\* What was read stays true while the orders go on.
LEMMA ReadsStayTold ==
  ASSUME LedgerInv, AddsInv, Forward(orders, orders'), UNCHANGED reads
  PROVE  RowsTold(orders, late)' /\ RowsTold(orders, sync.rows)'
<1>1. PICK P, a, b : P = orders' /\ a = late /\ b = sync.rows
  OBVIOUS
<1>2. a \in Seq(BookRows) /\ b \in Seq(BookRows) /\ RowsTold(orders, a) /\ RowsTold(orders, b)
  BY <1>1, LedgerNow DEF ReadsOK, ReadOK, AddsInv
<1>3. RowsTold(P, a) /\ RowsTold(P, b)
  BY <1>1, <1>2, ForwardTold
<1>4. late' = a /\ sync'.rows = b
  BY <1>1 DEF reads
<1> QED BY <1>1, <1>3, <1>4

\* Orders go on, and the ledger is rewritten at most.
LEMMA OrdersStep ==
  ASSUME LedgerInv, AddsInv, OrdersOK', Forward(orders, orders'), NoRows(orders, orders'), OrdersFit(orders)',
         UNCHANGED reads, MarksStay, NEW c, c = Ledger, NEW d, d = Ledger', Clean => d = c \/ Rewritten(c, d)
  PROVE  AddsInv'
<1>1. PICK O, P, M : O = orders /\ P = orders' /\ M = met
  OBVIOUS
<1>2. OrderTable(O) /\ OrderTable(P) /\ Forward(O, P) /\ NoRows(O, P)
  BY <1>1, LedgerNow DEF OrderTable, OrdersOK
<1>3. Clean' => Clean
  BY CleanWas DEF MarksStay
<1>4. ASSUME Clean' PROVE Whole(P, M, d) /\ Gap(P, d) = Gap(O, c)
  <2>1. Whole(O, M, c) /\ (d = c \/ Rewritten(c, d))
    BY <1>1, <1>3, <1>4 DEF AddsInv
  <2>2. GoesOn(O, P, M, c)
    BY <1>2, <2>1, ForwardGoesOn
  <2>3. Whole(P, M, c) /\ Gap(P, c) = Gap(O, c)
    BY <1>2, <2>2 DEF GoesOn, Whole
  <2> QED BY <1>2, <2>1, <2>3, RewrittenStays
<1>5. Clean' => Whole(orders, met, Ledger)'
  BY <1>1, <1>4 DEF MarksStay
<1>6. Clean' /\ ~blunt' => Gap(orders, Ledger)' + missed' = Held
  BY <1>1, <1>3, <1>4 DEF MarksStay, AddsInv
<1>7. missed' \in Nat
  BY DEF MarksStay, AddsInv
<1> QED BY <1>5, <1>6, <1>7, ReadsStayTold DEF AddsInv

\* One order goes on.
Ahead(y, x) == /\ x.side = y.side /\ x.ref = y.ref /\ x.was = y.was
               /\ y.st \in {"COMPLETE", "CANCELLED"} => x.st = y.st /\ x.done = y.done
\* The others stay as they are.
LEMMA OneAhead ==
  ASSUME LedgerInv, OrdersFit(orders), NEW o \in DOMAIN orders, NEW x, Ahead(orders[o], x), OrderFits(x),
         orders' = [orders EXCEPT ![o] = x]
  PROVE  Forward(orders, orders') /\ NoRows(orders, orders') /\ OrdersFit(orders)'
<1>1. /\ DOMAIN orders' = DOMAIN orders /\ orders'[o] = x
      /\ \A p \in DOMAIN orders : p # o => orders'[p] = orders[p]
  BY LedgerNow
<1>2. Forward(orders, orders')
  BY <1>1 DEF Forward, Ahead, Over
<1>3. OrdersFit(orders)'
  BY <1>1 DEF OrdersFit
<1> QED BY <1>1, <1>2, <1>3 DEF NoRows

\* What becomes of an order at the broker.
LEMMA BrokerAdds ==
  ASSUME LedgerInv, LedgerInv', AddsInv, NEW o \in DOMAIN orders, NEW f \in Nat, Accept(o) \/ Ends(o, f) \/ Trades(o, f)
  PROVE  AddsInv'
<1>0. /\ orders[o] \in OrderRows /\ UNCHANGED reads /\ UNCHANGED db /\ doomed' = doomed /\ MarksStay /\ OrdersFit(orders)
      /\ OrderFits(orders[o])
  BY LedgerNow DEF Accept, Ends, Trades, marks, MarksStay, AddsInv, OrdersFit
<1>1. PICK y \in OrderRows : y = orders[o]
  BY <1>0
<1>2. PICK x : /\ orders' = [orders EXCEPT ![o] = x]
               /\ Ahead(y, x) /\ OrderFits(x)
  <2>0. y.qty \in Nat \ {0} /\ y.done \in Nat
    BY DEF OrderRows
  <2>1. CASE Accept(o)
    <3>1. PICK x : x = [y EXCEPT !.st = "OPEN"]
      OBVIOUS
    <3>2. orders' = [orders EXCEPT ![o] = x] /\ y.st = "sent"
      BY <1>1, <2>1, <3>1 DEF Accept
    <3>3. Ahead(y, x) /\ x.st = "OPEN" /\ x.done = y.done /\ x.qty = y.qty
      BY <3>1, <3>2 DEF OrderRows, Ahead
    <3> QED BY <1>0, <1>1, <3>2, <3>3 DEF OrderFits
  <2>2. CASE Ends(o, f)
    <3>1. PICK st : st = IF f = orders[o].qty THEN "COMPLETE" ELSE "CANCELLED"
      OBVIOUS
    <3>2. PICK x : x = [y EXCEPT !.done = f, !.st = st]
      OBVIOUS
    <3>3. orders' = [orders EXCEPT ![o] = x] /\ y.st = "OPEN" /\ f \in y.done..y.qty
      BY <1>1, <2>2, <3>1, <3>2 DEF Ends
    <3>4. Ahead(y, x) /\ x.st = st /\ x.done = f /\ x.qty = y.qty
      BY <3>2, <3>3 DEF OrderRows, Ahead
    <3>5. f <= y.qty /\ (st = "COMPLETE" => f # 0) /\ st \in {"COMPLETE", "CANCELLED"}
      BY <1>1, <2>0, <3>1, <3>3
    <3> QED BY <3>3, <3>4, <3>5 DEF OrderFits
  <2>3. CASE Trades(o, f)
    <3>2. PICK x : x = [y EXCEPT !.done = f]
      OBVIOUS
    <3>3. orders' = [orders EXCEPT ![o] = x] /\ y.st = "OPEN" /\ f \in (y.done + 1)..(y.qty - 1)
      BY <1>1, <2>3, <3>2 DEF Trades
    <3>4. Ahead(y, x) /\ x.st = "OPEN" /\ x.done = f /\ x.qty = y.qty
      BY <3>2, <3>3 DEF OrderRows, Ahead
    <3>5. f <= y.qty
      BY <2>0, <3>3
    <3> QED BY <3>3, <3>4, <3>5 DEF OrderFits
  <2> QED BY <2>1, <2>2, <2>3
<1>3. Forward(orders, orders') /\ NoRows(orders, orders') /\ OrdersFit(orders)'
  BY <1>0, <1>1, <1>2, OneAhead
<1>4. Ledger' = Ledger
  BY <1>0 DEF Ledger, db
<1> QED BY <1>0, <1>3, <1>4, OrdersStep DEF LedgerInv

\* An order is placed.
LEMMA OneMore ==
  ASSUME LedgerInv, OrdersFit(orders), NEW x \in OrderRows, x.done = 0, x.st # "COMPLETE", orders' = Append(orders, x)
  PROVE  /\ Forward(orders, orders') /\ OrdersFit(orders)'
         /\ x.ref \in {"none", "card"} => NoRows(orders, orders')
<1>1. /\ DOMAIN orders' = DOMAIN orders \cup {Upcoming} /\ orders'[Upcoming] = x
      /\ \A p \in DOMAIN orders : orders'[p] = orders[p]
  <2>1. /\ orders \in Seq(OrderRows) /\ Len(orders) \in Nat
        /\ DOMAIN orders = 1..Len(orders) /\ DOMAIN orders' = 1..(Len(orders) + 1) /\ orders'[Len(orders) + 1] = x
        /\ \A t \in DOMAIN orders : orders'[t] = orders[t]
    <3> HIDE DEF OrderRows
    <3>1. orders \in Seq(OrderRows)
      BY LedgerNow DEF OrdersOK
    <3> QED BY <3>1
  <2> QED BY <2>1 DEF Upcoming
<1>2. Forward(orders, orders')
  BY <1>1 DEF Forward
<1>3. OrderFits(x)
  BY DEF OrderFits, OrderRows
<1>4. OrdersFit(orders)'
  BY <1>1, <1>3 DEF OrdersFit
<1> QED BY <1>1, <1>2, <1>4 DEF NoRows

\* The card and the broker's terminal place an order that gets no row.
LEMMA PlaceNoRowAdds ==
  ASSUME LedgerInv, LedgerInv', AddsInv, NEW side \in {1, -1}, NEW q \in Nat \ {0}, PlaceCard(side, q) \/ PlaceOutside(side, q)
  PROVE  AddsInv'
<1>1. PICK ref \in {"card", "none"} : NewOrder(side, q, ref) /\ UNCHANGED reads /\ UNCHANGED db /\ doomed' = doomed /\ MarksStay
  BY DEF PlaceCard, PlaceOutside, marks, MarksStay
<1>2. PICK x : /\ x = [side |-> side, qty |-> q, done |-> 0, ref |-> ref, waits |-> ref # "none", was |-> <<>>,
                       st |-> IF ref = "none" THEN "OPEN" ELSE "sent"]
               /\ orders' = Append(orders, x)
  BY <1>1 DEF NewOrder
<1>3. x \in OrderRows /\ x.done = 0 /\ x.st # "COMPLETE" /\ x.ref \in {"none", "card"}
  <2>1. <<>> \in Seq(LotRows)
    OBVIOUS
  <2> HIDE DEF LotRows
  <2> QED BY <1>2, <2>1 DEF OrderRows, OrderStates
<1>4. Forward(orders, orders') /\ OrdersFit(orders)' /\ NoRows(orders, orders')
  BY <1>2, <1>3, OneMore DEF AddsInv
<1>5. Ledger' = Ledger
  BY <1>1 DEF Ledger, db
<1> QED BY <1>1, <1>4, <1>5, OrdersStep DEF LedgerInv

\* The tables of the ledger, before a step and after it.
LEMMA LedgerTables ==
  ASSUME LedgerInv, LedgerInv', NEW c, c = Ledger, NEW d, d = Ledger'
  PROVE  /\ Tables(c) /\ c.lots = lots /\ c.exits = exits
         /\ Tables(d) /\ d.lots = lots' /\ d.exits = exits'
<1>1. c \in DbRows /\ d \in DbRows
  BY DEF LedgerInv, DbOK
<1>2. Tables(c) /\ Tables(d)
  BY <1>1 DEF DbRows, Tables, LotTable, ExitTable
<1> QED BY <1>2 DEF Ledger

\* Exits are written off.
LEMMA WrittenOffSame ==
  ASSUME NEW X \in Seq(ExitSet), NEW S
  PROVE  \A e \in DOMAIN X : SameFill(X[e], WrittenOff(X, S)[e])
<1> SUFFICES ASSUME NEW e \in DOMAIN X PROVE SameFill(X[e], WrittenOff(X, S)[e])
  OBVIOUS
<1>1. PICK x \in ExitSet : x = X[e]
  OBVIOUS
<1>2. PICK y : y = [x EXCEPT !.st = "CANCELLED"]
  OBVIOUS
<1>3. SameFill(x, y) /\ SameFill(x, x)
  BY <1>2 DEF ExitSet, SameFill
<1>4. WrittenOff(X, S)[e] = IF e \in S THEN y ELSE x
  BY <1>1, <1>2 DEF WrittenOff
<1> QED BY <1>1, <1>3, <1>4

\* The answer to an order is known.
LEMMA AnsweredAhead ==
  ASSUME LedgerInv, OrdersFit(orders), NEW o \in DOMAIN orders, NEW st, Answered(o, st),
         st = orders[o].st \/ (orders[o].st = "sent" /\ st = "REFUSED")
  PROVE  Forward(orders, orders') /\ NoRows(orders, orders') /\ OrdersFit(orders)'
<1>1. PICK y \in OrderRows : y = orders[o]
  BY LedgerNow
<1>2. PICK x : x = [y EXCEPT !.waits = FALSE, !.st = st]
  OBVIOUS
<1>3. Ahead(y, x) /\ x.done = y.done /\ x.qty = y.qty /\ x.st = st
  BY <1>1, <1>2 DEF OrderRows, Ahead
<1>4. OrderFits(x)
  BY <1>1, <1>3 DEF OrdersFit, OrderFits
<1>5. orders' = [orders EXCEPT ![o] = x]
  BY <1>1, <1>2 DEF Answered
<1> QED BY <1>1, <1>3, <1>4, <1>5, OneAhead

\* A lot that is not written says the same of its order.
LEMMA SameBookingSelf == ASSUME NEW l PROVE SameBooking(l, l)
BY DEF SameBooking

\* The answer is lost: the row keeps its tag and gets no number.
LEMMA AnswerLostAdds ==
  ASSUME LedgerInv, LedgerInv', AddsInv, NEW o \in DOMAIN orders, AnswerLost(o)
  PROVE  AddsInv'
<1>1. PICK st : st = IF orders[o].st = "sent" THEN "REFUSED" ELSE orders[o].st
  OBVIOUS
<1>2. Answered(o, st) /\ UNCHANGED reads /\ lots' = lots /\ MarksStay
  BY <1>1 DEF AnswerLost, marks, MarksStay
<1>3. exits' = WrittenOff(exits, ExitOf(o))
  BY DEF AnswerLost, WrittenOff
<1>4. Forward(orders, orders') /\ NoRows(orders, orders') /\ OrdersFit(orders)'
  BY <1>1, <1>2, AnsweredAhead DEF AddsInv
<1>5. PICK c, d : c = Ledger /\ d = Ledger'
  OBVIOUS
<1>6. Rewritten(c, d)
  <2>1. /\ Tables(c) /\ c.lots = lots /\ c.exits = exits
        /\ Tables(d) /\ d.lots = lots' /\ d.exits = exits'
    BY <1>5, LedgerTables
  <2>2. exits \in Seq(ExitSet) /\ DOMAIN exits' = DOMAIN exits
    BY <1>3, LedgerNow DEF WrittenOff
  <2>3. \A e \in DOMAIN exits : SameFill(exits[e], exits'[e])
    BY <1>3, <2>2, WrittenOffSame
  <2> QED BY <1>2, <2>1, <2>2, <2>3, SameBookingSelf DEF Rewritten
<1> QED BY <1>2, <1>4, <1>5, <1>6, OrdersStep DEF LedgerInv

\* The broker refuses: the row is cancelled.
LEMMA AnswerRefusedAdds ==
  ASSUME LedgerInv, LedgerInv', AddsInv, NEW o \in DOMAIN orders, AnswerRefused(o)
  PROVE  AddsInv'
<1>1. Answered(o, "REFUSED") /\ orders[o].st = "sent" /\ UNCHANGED reads /\ MarksStay
  BY DEF AnswerRefused, marks, MarksStay
<1>2. exits' = WrittenOff(exits, ExitOf(o))
  BY DEF AnswerRefused, WrittenOff
<1>3. Forward(orders, orders') /\ NoRows(orders, orders') /\ OrdersFit(orders)'
  BY <1>1, AnsweredAhead DEF AddsInv
<1>4. PICK c, d : c = Ledger /\ d = Ledger'
  OBVIOUS
<1>5. ASSUME Clean PROVE Rewritten(c, d)
  <2>1. /\ Tables(c) /\ c.lots = lots /\ c.exits = exits
        /\ Tables(d) /\ d.lots = lots' /\ d.exits = exits'
    BY <1>4, LedgerTables
  <2>2. exits \in Seq(ExitSet) /\ DOMAIN exits' = DOMAIN exits
    BY <1>2, LedgerNow DEF WrittenOff
  <2>3. \A e \in DOMAIN exits : SameFill(exits[e], exits'[e])
    BY <1>2, <2>2, WrittenOffSame
  <2>4. orders[o].was = <<>>
    BY <1>5 DEF Clean, Recycled
  <2>5. DOMAIN lots' = DOMAIN lots
    BY DEF AnswerRefused, Lots
  <2>6. ASSUME NEW n \in DOMAIN lots PROVE SameBooking(lots[n], lots'[n])
    <3>1. PICK k \in LotSet : k = lots[n]
      BY LedgerNow
    <3>2. PICK l : l = [k EXCEPT !.st = "CANCELLED"]
      OBVIOUS
    <3>3. lots'[n] = IF n \in LotOf(o) THEN l ELSE k
      BY <2>4, <3>1, <3>2 DEF AnswerRefused, Lots, FailedLot
    <3>4. n \in LotOf(o) => k.st = "PENDING"
      BY <1>1, <3>1, LedgerNow DEF LotOf, DbOK, Waiting, OnItsWay
    <3>5. k.st = "PENDING" => SameBooking(k, l)
      BY <3>2 DEF LotSet, SameBooking, Unfilled
    <3> QED BY <3>1, <3>3, <3>4, <3>5, SameBookingSelf
  <2> QED BY <2>1, <2>2, <2>3, <2>5, <2>6 DEF Rewritten
<1> QED BY <1>1, <1>3, <1>4, <1>5, OrdersStep DEF LedgerInv

\* The broker accepts: the row gets its number.
LEMMA AnswerTakenAdds ==
  ASSUME LedgerInv, LedgerInv', AddsInv, NEW o \in DOMAIN orders, AnswerTaken(o)
  PROVE  AddsInv'
<1>1. Answered(o, orders[o].st) /\ UNCHANGED reads /\ MarksStay
  BY DEF AnswerTaken, marks, MarksStay
<1>3. Forward(orders, orders') /\ NoRows(orders, orders') /\ OrdersFit(orders)'
  BY <1>1, AnsweredAhead DEF AddsInv
<1>4. PICK c, d : c = Ledger /\ d = Ledger'
  OBVIOUS
<1>5. Rewritten(c, d)
  <2>1. /\ Tables(c) /\ c.lots = lots /\ c.exits = exits
        /\ Tables(d) /\ d.lots = lots' /\ d.exits = exits'
    BY <1>4, LedgerTables
  <2>2. DOMAIN exits' = DOMAIN exits /\ DOMAIN lots' = DOMAIN lots
    BY DEF AnswerTaken, Lots
  <2>3. ASSUME NEW e \in DOMAIN exits PROVE SameFill(exits[e], exits'[e])
    <3>1. PICK x \in ExitSet : x = exits[e]
      BY LedgerNow
    <3>2. PICK y : y = [x EXCEPT !.ord = o]
      OBVIOUS
    <3>3. exits'[e] = IF e \in ExitOf(o) THEN y ELSE x
      BY <3>1, <3>2 DEF AnswerTaken
    <3>4. x.tag = o /\ o # 0 => SameFill(x, y)
      BY <3>2 DEF ExitSet, SameFill
    <3>5. SameFill(x, x) /\ (e \in ExitOf(o) => x.tag = o /\ o # 0)
      BY <3>1 DEF SameFill, ExitOf
    <3> QED BY <3>1, <3>3, <3>4, <3>5
  <2>6. ASSUME NEW n \in DOMAIN lots PROVE SameBooking(lots[n], lots'[n])
    <3>1. PICK k \in LotSet : k = lots[n]
      BY LedgerNow
    <3>2. PICK l : l = [k EXCEPT !.ord = o]
      OBVIOUS
    <3>3. lots'[n] = IF n \in LotOf(o) THEN l ELSE k
      BY <3>1, <3>2 DEF AnswerTaken, Lots
    <3>4. k.tag = o /\ o # 0 => SameBooking(k, l)
      BY <3>2 DEF LotSet, SameBooking
    <3>5. n \in LotOf(o) => k.tag = o /\ o # 0
      BY <3>1 DEF LotOf
    <3> QED BY <3>1, <3>3, <3>4, <3>5, SameBookingSelf
  <2> QED BY <2>1, <2>2, <2>3, <2>6 DEF Rewritten
<1> QED BY <1>1, <1>3, <1>4, <1>5, OrdersStep DEF LedgerInv

\* The sibling of an exit that filled is cancelled.
LEMMA CancelSiblingAdds ==
  ASSUME LedgerInv, LedgerInv', AddsInv, NEW e \in doomed, CancelSibling(e)
  PROVE  AddsInv'
<1>1. PICK o : o = exits[e].ord
  OBVIOUS
<1>2. e \in DOMAIN exits /\ o \in DOMAIN orders
  BY <1>1, LedgerNow DEF DbOK, Refers, AtBroker
<1>3. lots' = lots /\ MarksStay /\ UNCHANGED reads
  BY DEF CancelSibling, MarksStay
<1>4. PICK c, d : c = Ledger /\ d = Ledger'
  OBVIOUS
<1>5. /\ Tables(c) /\ c.lots = lots /\ c.exits = exits
      /\ Tables(d) /\ d.lots = lots' /\ d.exits = exits'
  BY <1>4, LedgerTables
<1>6. CASE orders[o].st = "OPEN" /\ orders' = [orders EXCEPT ![o].st = "CANCELLED"]
            /\ exits' = [exits EXCEPT ![e].st = IF @ = "PENDING" THEN "CANCELLED" ELSE @]
  <2>1. PICK y \in OrderRows : y = orders[o]
    BY <1>2, LedgerNow
  <2>2. PICK x : x = [y EXCEPT !.st = "CANCELLED"]
    OBVIOUS
  <2>3. Ahead(y, x) /\ x.st = "CANCELLED" /\ x.done = y.done /\ x.qty = y.qty /\ orders' = [orders EXCEPT ![o] = x]
    BY <1>6, <2>1, <2>2 DEF OrderRows, Ahead
  <2>4. OrderFits(x)
    BY <1>2, <2>1, <2>3 DEF OrderFits, OrdersFit, AddsInv
  <2>5. Forward(orders, orders') /\ NoRows(orders, orders') /\ OrdersFit(orders)'
    BY <1>2, <2>1, <2>3, <2>4, OneAhead DEF AddsInv
  <2>6. PICK r \in ExitSet : r = exits[e]
    BY <1>2, LedgerNow
  <2>7. PICK s : s = [r EXCEPT !.st = IF r.st = "PENDING" THEN "CANCELLED" ELSE r.st]
    OBVIOUS
  <2>8. SameFill(r, s) /\ \A z : SameFill(z, z)
    BY <2>7 DEF ExitSet, SameFill
  <2>9. exits' = [exits EXCEPT ![e] = s]
    BY <1>6, <2>6, <2>7
  <2>10. DOMAIN exits' = DOMAIN exits /\ exits'[e] = s /\ \A k \in DOMAIN exits : k # e => exits'[k] = exits[k]
    BY <1>2, <2>9, LedgerNow
  <2>11. Rewritten(c, d)
    BY <1>3, <1>5, <2>6, <2>8, <2>10, SameBookingSelf DEF Rewritten
  <2> QED BY <1>3, <1>4, <2>5, <2>11, OrdersStep DEF LedgerInv
<1>7. CASE orders' = orders /\ exits' = exits
  <2>1. Forward(orders, orders') /\ NoRows(orders, orders') /\ OrdersFit(orders)'
    BY <1>7 DEF Forward, NoRows, AddsInv, OrdersFit
  <2>2. Rewritten(c, d)
    BY <1>3, <1>5, <1>7, SameBookingSelf DEF Rewritten, SameFill
  <2> QED BY <1>3, <1>4, <2>1, <2>2, OrdersStep DEF LedgerInv
<1> QED BY <1>1, <1>6, <1>7 DEF CancelSibling

\* An order is placed, and its row with it.
LEMMA PlacedStep ==
  ASSUME LedgerInv, AddsInv, Forward(orders, orders'), OrdersFit(orders)', UNCHANGED reads, MarksStay,
         NEW O, O = orders, NEW P, P = orders', NEW c, c = Ledger, NEW d, d = Ledger',
         Clean => Whole(P, met, d) /\ Gap(P, d) = Gap(O, c)
  PROVE  AddsInv'
<1>1. Clean' => Clean
  BY CleanWas DEF MarksStay
<1>2. Clean' => Whole(orders, met, Ledger)'
  BY <1>1 DEF MarksStay
<1>3. Clean' /\ ~blunt' => Gap(orders, Ledger)' + missed' = Held
  BY <1>1 DEF MarksStay, AddsInv
<1>4. missed' \in Nat
  BY DEF MarksStay, AddsInv
<1> QED BY <1>2, <1>3, <1>4, ReadsStayTold DEF AddsInv

\* The ledger of orders that went on, with one more row that nothing is booked by.
LEMMA WholeMoves ==
  ASSUME NEW O, NEW P, NEW M, NEW c, GoesOn(O, P, M, c), NEW d, Shifts(P, M, c, d), HasRow(P, d)
  PROVE  Whole(P, M, d) /\ Gap(P, d) = Gap(O, c)
<1>1. Stands(P, M, d) /\ Gap(P, d) = Gap(O, c) /\ Continues(c, d) /\ AllEnded(P, c, M)
  BY DEF GoesOn, Shifts
<1>2. AllEnded(P, d, M)
  BY <1>1, TouchedStays DEF AllEnded, Ended
<1> QED BY <1>1, <1>2 DEF Whole

\* An order nobody had placed has no row.
LEMMA NothingOf ==
  ASSUME NEW O, NEW M, NEW d, AllFit(O, d, M), NEW u, u # 0, u \notin DOMAIN O
  PROVE  /\ \A n \in DOMAIN d.lots : LotOrder(d.lots[n]) # u
         /\ \A e \in DOMAIN d.exits : ExitOrder(d.exits[e]) # u /\ d.exits[e].tag # u
<1>1. \A n \in DOMAIN d.lots : LotOrder(d.lots[n]) # u
  BY DEF AllFit, LotFits
<1>2. \A e \in DOMAIN d.exits : ExitOrder(d.exits[e]) # u /\ d.exits[e].tag # u
  BY DEF AllFit, ExitFits, ExitOrder
<1> QED BY <1>1, <1>2

\* An entry is placed with a lot of its own,
LEMMA PlaceEntryAdds ==
  ASSUME LedgerInv, LedgerInv', AddsInv, NEW side \in {1, -1}, NEW q \in Nat \ {0}, PlaceEntry(side, q)
  PROVE  AddsInv'
<1>1. PICK x : /\ x = [side |-> side, qty |-> q, done |-> 0, ref |-> "lot", st |-> "sent", waits |-> TRUE, was |-> <<>>]
               /\ orders' = Append(orders, x)
  BY DEF PlaceEntry, NewOrder
<1>2. x \in OrderRows /\ x.was = <<>> /\ x.st = "sent" /\ x.waits /\ x.done = 0 /\ x.ref = "lot" /\ x.side = side
  <2>1. <<>> \in Seq(LotRows)
    OBVIOUS
  <2> HIDE DEF LotRows
  <2> QED BY <1>1, <2>1 DEF OrderRows, OrderStates
<1>3. PICK u : u = Upcoming
  OBVIOUS
<1>4. /\ u \notin DOMAIN orders /\ u \in Nat \ {0} /\ orders'[u] = x /\ DOMAIN orders' = DOMAIN orders \cup {u}
      /\ \A t \in DOMAIN orders : orders'[t] = orders[t]
  BY <1>1, <1>2, <1>3, LedgerNow, OrderAdded
<1>5. Forward(orders, orders') /\ OrdersFit(orders)'
  BY <1>1, <1>2, OneMore DEF AddsInv
<1>6. PICK l : /\ l = [NewLot(side, q, "PENDING", 0, FALSE, 2 * u) EXCEPT !.tag = u]
               /\ lots' = Append(lots, l)
  BY <1>3 DEF PlaceEntry
<1>7. l \in LotRows /\ l.st = "PENDING" /\ l.ord = 0 /\ l.tag = u /\ l.ext = FALSE /\ l.side = side
  <2>2. PICK m : m = NewLot(side, q, "PENDING", 0, FALSE, 2 * u)
    OBVIOUS
  <2>3. m \in LotSet /\ m.st = "PENDING" /\ m.ord = 0 /\ m.open = q /\ m.entry = q /\ m.ext = FALSE /\ m.side = side
    BY <1>4, <2>2 DEF NewLot, LotSet
  <2>4. l = [m EXCEPT !.tag = u]
    BY <1>6, <2>2
  <2>5. /\ l \in LotSet /\ l.st = "PENDING" /\ l.ord = 0 /\ l.open = q /\ l.entry = q /\ l.tag = u
        /\ l.ext = FALSE /\ l.side = side
    BY <1>4, <2>3, <2>4 DEF LotSet
  <2> QED BY <2>5 DEF LotRows
<1>8. PICK O, P, M, c, d : O = orders /\ P = orders' /\ M = met /\ c = Ledger /\ d = Ledger'
  OBVIOUS
<1>9. /\ Tables(c) /\ c.lots = lots /\ c.exits = exits /\ Tables(d) /\ d.lots = Append(c.lots, l) /\ d.exits = c.exits
  BY <1>6, <1>8, LedgerTables DEF PlaceEntry
<1>10. OrderTable(O) /\ OrderTable(P) /\ Forward(O, P)
  BY <1>5, <1>8 DEF OrderTable, OrdersOK, LedgerInv
<1>11. ASSUME Clean PROVE Whole(P, M, d) /\ Gap(P, d) = Gap(O, c)
  <2>1. Whole(O, M, c)
    BY <1>8, <1>11 DEF AddsInv
  <2>2. GoesOn(O, P, M, c)
    BY <1>10, <2>1, ForwardGoesOn
  <2>3. Stands(P, M, c) /\ RowsFitted(P, c, M) /\ AllFit(O, c, M) /\ HasRow(O, c)
    BY <2>1, <2>2 DEF GoesOn, Stands, Whole, RowsFitted
  <2>4. LotFits(P, l) /\ LotOrder(l) = u
    BY <1>2, <1>4, <1>7, <1>8 DEF LotFits, LotOrder
  <2>5. /\ \A n \in DOMAIN c.lots : LotOrder(c.lots[n]) # u
        /\ \A e \in DOMAIN c.exits : ExitOrder(c.exits[e]) # u
    BY <1>4, <1>8, <2>3, NothingOf
  <2>6. LotComes(P, M, c, l, d)
    BY <1>7, <1>9, <1>10, <2>3, <2>4, <2>5, LotPutOn
  <2>7. Calm(P, c, d)
    <3>1. ~HasFilled(l) /\ OpenPart(l) = 0
      BY <1>7 DEF HasFilled, OpenPart
    <3>2. Net(c.lots) \in Int /\ \A p \in DOMAIN P : BookedIn(c, p) \in Nat
      BY <1>9, NetIsOpen, BookedIs DEF Tables
    <3> QED BY <2>6, <3>1, <3>2 DEF LotComes, Calm
  <2>8. Shifts(P, M, c, d)
    BY <2>3, <2>6, <2>7, CalmMoves DEF LotComes
  <2>9. HasRow(P, d)
    <3>1. HasRow(O, d)
      BY <2>3, <2>8, HasRowStays DEF Shifts
    <3>2. d.lots[Len(c.lots) + 1] = l /\ Len(c.lots) + 1 \in DOMAIN d.lots
      BY <2>6 DEF LotComes
    <3> QED BY <1>2, <1>4, <1>7, <1>8, <3>1, <3>2 DEF HasRow
  <2> QED BY <2>2, <2>8, <2>9, WholeMoves
<1>12. UNCHANGED reads /\ MarksStay
  BY DEF PlaceEntry, marks, MarksStay
<1> QED BY <1>5, <1>8, <1>11, <1>12, PlacedStep

\* and an exit with a row of its own.
LEMMA PlaceExitAdds ==
  ASSUME LedgerInv, LedgerInv', AddsInv, NEW n \in Lots, NEW q \in Nat \ {0}, PlaceExit(n, q)
  PROVE  AddsInv'
<1>0. n \in DOMAIN lots /\ lots[n] \in LotSet /\ lots[n].st = "OPEN" /\ n \in Nat /\ lots[n].side \in {1, -1}
  <2>1. n \in DOMAIN lots /\ lots[n] \in LotSet /\ lots[n].st = "OPEN" /\ n \in Nat
    BY LedgerNow DEF PlaceExit, Lots
  <2> QED BY <2>1 DEF LotSet
<1>1. PICK x : /\ x = [side |-> -lots[n].side, qty |-> q, done |-> 0, ref |-> "exit", st |-> "sent", waits |-> TRUE, was |-> <<>>]
               /\ orders' = Append(orders, x)
  BY DEF PlaceExit, NewOrder
<1>2. /\ x \in OrderRows /\ x.was = <<>> /\ x.st = "sent" /\ x.waits /\ x.done = 0 /\ x.ref = "exit"
      /\ lots[n].side = -x.side
  <2>1. <<>> \in Seq(LotRows) /\ -lots[n].side \in {1, -1} /\ lots[n].side = -(-lots[n].side)
    BY <1>0
  <2> HIDE DEF LotRows
  <2> QED BY <1>1, <2>1 DEF OrderRows, OrderStates
<1>3. PICK u : u = Upcoming
  OBVIOUS
<1>4. /\ u \notin DOMAIN orders /\ u \in Nat \ {0} /\ orders'[u] = x /\ DOMAIN orders' = DOMAIN orders \cup {u}
      /\ \A t \in DOMAIN orders : orders'[t] = orders[t]
  BY <1>1, <1>2, <1>3, LedgerNow, OrderAdded
<1>5. Forward(orders, orders') /\ OrdersFit(orders)'
  BY <1>1, <1>2, OneMore DEF AddsInv
<1>6. PICK y : /\ y = [lot |-> n, ord |-> 0, tag |-> u, qty |-> q, filled |-> 0, took |-> 0, st |-> "PENDING"]
               /\ exits' = Append(exits, y)
  BY <1>3 DEF PlaceExit
<1>7. y \in ExitSet /\ y.lot = n /\ y.ord = 0 /\ y.tag = u /\ y.filled = 0 /\ y.took = 0 /\ y.st = "PENDING"
  BY <1>0, <1>4, <1>6 DEF ExitSet
<1>8. PICK O, P, M, c, d : O = orders /\ P = orders' /\ M = met /\ c = Ledger /\ d = Ledger'
  OBVIOUS
<1>9. /\ Tables(c) /\ c.lots = lots /\ c.exits = exits /\ Tables(d) /\ d.lots = c.lots /\ d.exits = Append(c.exits, y)
  BY <1>6, <1>8, LedgerTables DEF PlaceExit
<1>10. OrderTable(O) /\ OrderTable(P) /\ Forward(O, P)
  BY <1>5, <1>8 DEF OrderTable, OrdersOK, LedgerInv
<1>11. ASSUME Clean PROVE Whole(P, M, d) /\ Gap(P, d) = Gap(O, c)
  <2>1. Whole(O, M, c)
    BY <1>8, <1>11 DEF AddsInv
  <2>2. GoesOn(O, P, M, c)
    BY <1>10, <2>1, ForwardGoesOn
  <2>3. Stands(P, M, c) /\ RowsFitted(P, c, M) /\ AllFit(O, c, M) /\ HasRow(O, c)
    BY <2>1, <2>2 DEF GoesOn, Stands, Whole, RowsFitted
  <2>4. ExitFits(P, c.lots, y, M) /\ ExitOrder(y) = u
    <3>1. HasFilled(c.lots[n]) /\ c.lots[n].side = -P[u].side /\ n \in DOMAIN c.lots
      BY <1>0, <1>2, <1>4, <1>8, <1>9 DEF HasFilled
    <3> QED BY <1>2, <1>4, <1>7, <1>8, <3>1 DEF ExitFits, ExitOrder
  <2>5. \A e \in DOMAIN c.exits : c.exits[e].tag # u
    BY <1>4, <1>8, <2>3, NothingOf
  <2>6. ExitComes(P, M, c, y, d)
    BY <1>4, <1>7, <1>9, <1>10, <2>3, <2>4, <2>5, ExitPutOn
  <2>7. Calm(P, c, d)
    <3>1. \A p \in DOMAIN P : BookedIn(c, p) \in Nat
      BY <1>9, BookedIs
    <3> QED BY <1>7, <2>6, <3>1 DEF ExitComes, Calm
  <2>8. Shifts(P, M, c, d)
    BY <2>3, <2>6, <2>7, CalmMoves DEF ExitComes
  <2>9. HasRow(P, d)
    <3>1. HasRow(O, d)
      BY <2>3, <2>8, HasRowStays DEF Shifts
    <3>2. d.exits[Len(c.exits) + 1] = y /\ Len(c.exits) + 1 \in DOMAIN d.exits
      BY <2>6 DEF ExitComes
    <3> QED BY <1>2, <1>4, <1>7, <1>8, <3>1, <3>2 DEF HasRow
  <2> QED BY <2>2, <2>8, <2>9, WholeMoves
<1>12. UNCHANGED reads /\ MarksStay
  BY DEF PlaceExit, marks, MarksStay
<1> QED BY <1>5, <1>8, <1>11, <1>12, PlacedStep

\* A closed lot is entered again: from then on the rows of two round trips share it.
LEMMA ReenterAdds ==
  ASSUME LedgerInv, LedgerInv', AddsInv, NEW n \in Lots, NEW q \in Nat \ {0}, Reenter(n, q)
  PROVE  AddsInv'
<1>1. PICK r \in LotRows : r = lots[n]
  BY LedgerNow DEF Lots
<1>2. PICK x : /\ x = [side |-> r.side, qty |-> q, done |-> 0, ref |-> "lot", st |-> "sent", waits |-> TRUE, was |-> <<r>>]
               /\ orders' = Append(orders, x)
  BY <1>1 DEF Reenter
<1>3. x \in OrderRows /\ x.was # <<>> /\ x.st = "sent" /\ x.waits /\ x.done = 0 /\ x.was = <<r>>
  <2>1. <<r>> \in Seq(LotRows) /\ r.side \in {1, -1} /\ <<r>> # <<>>
    <3>1. r.side \in {1, -1}
      BY DEF LotRows, LotSet
    <3> HIDE DEF LotRows
    <3> QED BY <3>1
  <2> HIDE DEF LotRows
  <2> QED BY <1>2, <2>1 DEF OrderRows, OrderStates
<1>4. Forward(orders, orders') /\ OrdersFit(orders)'
  BY <1>2, <1>3, OneMore DEF AddsInv
<1>5. Recycled'
  <2>1. orders'[Upcoming] = x /\ Upcoming \in DOMAIN orders'
    <3>1. orders \in Seq(OrderRows)
      BY LedgerNow DEF OrdersOK
    <3> HIDE DEF OrderRows
    <3> QED BY <1>2, <1>3, <3>1 DEF Upcoming
  <2> QED BY <1>3, <2>1 DEF Recycled
<1>6. UNCHANGED reads /\ missed' \in Nat
  BY DEF Reenter, marks, AddsInv
<1> QED BY <1>4, <1>5, <1>6, ReadsStayTold DEF AddsInv, Clean

\* A row of an order as it is tells what the order is.
LEMMA AsItIsFits ==
  ASSUME NEW o \in DOMAIN orders, NEW tagged
  PROVE  RowFits(orders, RowOf(o, tagged)) /\ RowOf(o, tagged).ord = o
BY DEF RowFits, RowOf

\* The order book as it is, and each reading of it, tells what the orders are.
LEMMA ReadingsAreTold ==
  ASSUME OrdersOK
  PROVE  /\ RowsTold(orders, BookNow)
         /\ \A rows \in Readings : RowsTold(orders, rows)
<1>1. RowsTold(orders, BookNow)
  <2>1. PICK rows \in RowsRead : rows = BookNow
    BY BookIsRead
  <2>2. \A i \in DOMAIN rows : rows[i] = RowOf(rows[i].ord, FALSE) /\ rows[i].ord \in DOMAIN orders
    BY DEF RowsRead, ReadOK, AtBroker, AsItIs
  <2>3. \A i \in DOMAIN rows : RowFits(orders, rows[i])
    BY <2>2, AsItIsFits
  <2>4. \A i, j \in DOMAIN rows : rows[i].ord = rows[j].ord => rows[i] = rows[j]
    BY <2>2
  <2> QED BY <2>1, <2>3, <2>4 DEF RowsTold
<1>2. ASSUME NEW o \in DOMAIN orders PROVE RowsTold(orders, <<RowOf(o, TRUE)>>)
  <2>1. PICK r : r = RowOf(o, TRUE) /\ RowFits(orders, r)
    BY AsItIsFits
  <2>2. PICK rows : rows = <<r>>
    OBVIOUS
  <2>3. \A i \in DOMAIN rows : rows[i] = r
    BY <2>2
  <2> QED BY <2>1, <2>2, <2>3 DEF RowsTold
<1> QED BY <1>1, <1>2 DEF Readings

\* An empty reading tells nothing false.
LEMMA NothingTold == \A O : RowsTold(O, <<>>)
BY DEF RowsTold

\* Nothing changes but what has been read.
LEMMA ReadsStep ==
  ASSUME AddsInv, orders' = orders, Ledger' = Ledger, MarksStay,
         NEW a, a = late', NEW b, b = sync'.rows, RowsTold(orders, a), RowsTold(orders, b)
  PROVE  AddsInv'
<1>1. PICK O, M, d : O = orders /\ M = met /\ d = Ledger
  OBVIOUS
<1>2. O = orders' /\ M = met' /\ d = Ledger' /\ (Clean' <=> Clean) /\ missed' = missed /\ blunt' = blunt
  BY <1>1 DEF MarksStay, Clean, Recycled
<1>3. RowsTold(O, a) /\ RowsTold(O, b) /\ OrdersFit(O) /\ missed \in Nat
  BY <1>1 DEF AddsInv
<1>4. Clean => Whole(O, M, d)
  BY <1>1 DEF AddsInv
<1>5. Clean /\ ~blunt => Gap(O, d) + missed = Held
  BY <1>1 DEF AddsInv
<1>6. RowsTold(orders, late)' /\ RowsTold(orders, sync.rows)' /\ OrdersFit(orders)'
  BY <1>2, <1>3
<1>7. (Clean => Whole(orders, met, Ledger))'
  BY <1>2, <1>4
<1>8. (Clean /\ ~blunt => Gap(orders, Ledger) + missed = Held)'
  BY <1>2, <1>5
<1> QED BY <1>2, <1>3, <1>6, <1>7, <1>8 DEF AddsInv

\* A read keeps the books.
LEMMA ReadsAdd ==
  ASSUME LedgerInv, AddsInv, ReadAhead \/ SyncBook \/ SyncPositions \/ SyncBlind \/ UNCHANGED ledgerVars
  PROVE  AddsInv'
<1>1. orders' = orders /\ Ledger' = Ledger /\ MarksStay
  BY DEF ReadAhead, SyncBook, SyncPositions, SyncBlind, ledgerVars, marks, MarksStay, Ledger, db
<1>2. PICK a, b : a = late' /\ b = sync'.rows
  OBVIOUS
<1>3. RowsTold(orders, a)
  <2>1. late' = late \/ late' \in Readings
    BY DEF ReadAhead, SyncBook, SyncPositions, SyncBlind, ledgerVars, reads
  <2> QED BY <1>2, <2>1, LedgerNow, ReadingsAreTold DEF AddsInv
<1>4. RowsTold(orders, b)
  <2>1. CASE SyncBook
    <3>1. b = BookNow
      BY <1>2, <2>1 DEF SyncBook
    <3> QED BY <3>1, LedgerNow, ReadingsAreTold
  <2>2. CASE SyncPositions
    <3>1. PICK s \in [on : BOOLEAN, rows : Seq(BookRows), net : Seq(Int)] : s = sync
      BY LedgerNow DEF ReadsOK
    <3>2. PICK n : n = <<AccountNet>>
      OBVIOUS
    <3>3. b = [s EXCEPT !.net = n].rows
      BY <1>2, <2>2, <3>1, <3>2 DEF SyncPositions
    <3>4. b = s.rows
      <4> HIDE DEF BookRows
      <4> QED BY <3>3
    <3> QED BY <3>1, <3>4 DEF AddsInv
  <2>3. CASE SyncBlind
    <3>1. b = <<>>
      BY <1>2, <2>3 DEF SyncBlind, NoSync
    <3> QED BY <3>1, NothingTold
  <2>4. CASE sync' = sync
    BY <1>2, <2>4 DEF AddsInv
  <2> QED BY <2>1, <2>2, <2>3, <2>4 DEF ReadAhead, ledgerVars, reads
<1> QED BY <1>1, <1>2, <1>3, <1>4, ReadsStep

-----------------------------------------------------------------------------
(* The passes of the ledger                                                *)

\* A ledger that fits the orders fits them when more of them were met.
LEMMA MeetsMore ==
  ASSUME NEW O, NEW M, NEW N, M \subseteq N, NEW d, Stands(O, M, d)
  PROVE  Stands(O, N, d)
<1>1. \A e \in DOMAIN d.exits : ExitFits(O, d.lots, d.exits[e], N)
  BY DEF Stands, RowsFitted, AllFit, ExitFits
<1> QED BY <1>1 DEF Stands, RowsFitted, AllFit

\* What a pass that misreads nothing has read.
LEMMA PassedRows ==
  ASSUME LedgerInv, NEW rows, ReadOK(rows), RowsTold(orders, rows), OrdersFit(orders), Observe(rows), misread' = {}
  PROVE  Readable(rows, met')
<1>1. \A i \in DOMAIN rows : /\ rows[i] \in BookRows /\ rows[i].st \in {"OPEN", "COMPLETE", "CANCELLED"} /\ Told(rows[i])
  <2>1. \A i \in DOMAIN rows : rows[i] \in BookRows
    BY DEF ReadOK
  <2>2. \A i \in DOMAIN rows : rows[i].st \in {"OPEN", "COMPLETE", "CANCELLED"}
    BY <2>1 DEF BookRows
  <2> QED BY <2>1, <2>2 DEF ReadOK, RowsTold, Told
<1>2. met' = met \cup {rows[n].ord : n \in {k \in DOMAIN rows : rows[k].st \in Final}}
  BY DEF Observe
<1>3. /\ Unnumbered(rows) = {}
      /\ {rows[n].ord : n \in {k \in DOMAIN rows : rows[k].st = "OPEN" /\ rows[k].ord \in met}} = {}
  BY DEF Observe
<1>4. ASSUME NEW i \in DOMAIN rows PROVE Numbered(Ledger, rows[i])
  <2>1. rows[i].ord \notin Unnumbered(rows)
    BY <1>3
  <2> QED BY <2>1 DEF Unnumbered, Numbered, Ledger
<1>5. ASSUME NEW i \in DOMAIN rows PROVE rows[i].st = "OPEN" <=> rows[i].ord \notin met'
  <2>1. ASSUME rows[i].st = "OPEN", rows[i].ord \in met' PROVE FALSE
    <3>1. rows[i].ord \notin met
      BY <1>3, <2>1
    <3>2. PICK k \in DOMAIN rows : rows[k].st \in Final /\ rows[k].ord = rows[i].ord
      BY <1>2, <2>1, <3>1
    <3>3. rows[k] = rows[i]
      BY <3>2 DEF RowsTold
    <3> QED BY <2>1, <3>2, <3>3 DEF Final
  <2>2. ASSUME rows[i].st # "OPEN", rows[i].ord \notin met' PROVE FALSE
    <3>1. rows[i].st \in Final
      BY <1>1, <2>2 DEF Final
    <3> QED BY <1>2, <2>2, <3>1
  <2> QED BY <2>1, <2>2
<1>6. ASSUME NEW i \in DOMAIN rows, rows[i].st = "COMPLETE" PROVE rows[i].done # 0
  <2>1. rows[i].ord \in DOMAIN orders /\ orders[rows[i].ord].st = "COMPLETE" /\ rows[i].done = orders[rows[i].ord].done
    BY <1>6 DEF RowsTold, RowFits
  <2> QED BY <2>1 DEF OrdersFit, OrderFits
<1>7. \A i, j \in DOMAIN rows : rows[i].ord = rows[j].ord => rows[i] = rows[j]
  BY DEF RowsTold
<1> QED BY <1>1, <1>4, <1>5, <1>6, <1>7 DEF Readable

\* What a pass makes of a ledger that fits the orders.
LEMMA PassMakes ==
  ASSUME LedgerInv, AddsInv, NEW rows, ReadOK(rows), RowsTold(orders, rows), Observe(rows), Clean, misread' = {},
         NEW aged \in BOOLEAN, NEW M, M = met', NEW c, c = Ledger, NEW d, d = Pass(rows, aged)
  PROVE  Whole(orders, M, d) /\ Gap(orders, d) = Gap(orders, c)
<1>1. Readable(rows, M) /\ met \subseteq M
  BY PassedRows DEF AddsInv, Observe
<1>2. Whole(orders, met, c)
  BY DEF AddsInv
<1>3. Stands(orders, M, c) /\ HasRow(orders, c) /\ AllEnded(orders, c, met)
  BY <1>1, <1>2, MeetsMore DEF Whole
<1>4. /\ Shifts(orders, M, c, d)
      /\ \A i \in DOMAIN rows : rows[i].st \in Final => Ended(orders, d, rows[i].ord)
  BY <1>1, <1>3, LedgerNow, PassMoves
<1>5. Continues(c, d) /\ Stands(orders, M, d) /\ Gap(orders, d) = Gap(orders, c)
  BY <1>4 DEF Shifts
<1>6. HasRow(orders, d)
  BY <1>3, <1>5, HasRowStays
<1>7. AllEnded(orders, d, M)
  <2> SUFFICES ASSUME NEW o \in M PROVE o \in DOMAIN orders /\ Ended(orders, d, o)
    BY DEF AllEnded
  <2>1. CASE o \in met
    BY <1>3, <1>5, <2>1, TouchedStays DEF AllEnded, Ended
  <2>2. CASE o \notin met
    <3>1. PICK i \in DOMAIN rows : rows[i].ord = o /\ rows[i].st \in Final
      BY <2>2 DEF Observe
    <3> QED BY <1>4, <3>1 DEF RowsTold, RowFits
  <2> QED BY <2>1, <2>2
<1> QED BY <1>5, <1>6, <1>7 DEF Whole

\* A pass commits what it made.
LEMMA PassStep ==
  ASSUME LedgerInv, LedgerInv', AddsInv, NEW rows, ReadOK(rows), RowsTold(orders, rows), Observe(rows), NEW aged \in BOOLEAN,
         Commit(Pass(rows, aged)), orders' = orders, missed' = missed, blunt' = blunt,
         NEW a, a = late', NEW b, b = sync'.rows, RowsTold(orders, a), RowsTold(orders, b)
  PROVE  AddsInv'
<1>1. PICK O, M, c, d : O = orders /\ M = met' /\ c = Ledger /\ d = Pass(rows, aged)
  OBVIOUS
<1>2. misread \subseteq misread' /\ (Clean' => Clean /\ misread' = {})
  BY DEF Observe, Clean, Recycled
<1>3. DbOK(d)
  BY <1>1, LedgerNow, PassKeeps
<1>4. d = Ledger'
  <2>1. d = [lots |-> d.lots, exits |-> d.exits, doomed |-> d.doomed]
    BY <1>3, LedgerRows
  <2> QED BY <1>1, <2>1 DEF Ledger, Commit
<1>5. Clean' => Whole(O, M, d) /\ Gap(O, d) = Gap(O, c)
  BY <1>1, <1>2, PassMakes
<1>6. RowsTold(O, a) /\ RowsTold(O, b) /\ OrdersFit(O) /\ missed \in Nat /\ O = orders'
  BY <1>1 DEF AddsInv
<1>7. RowsTold(orders, late)' /\ RowsTold(orders, sync.rows)' /\ OrdersFit(orders)'
  BY <1>6
<1>8. (Clean => Whole(orders, met, Ledger))'
  BY <1>1, <1>4, <1>5, <1>6
<1>9. (Clean /\ ~blunt => Gap(orders, Ledger) + missed = Held)'
  <2>1. Clean /\ ~blunt => Gap(O, c) + missed = Held
    BY <1>1 DEF AddsInv
  <2> QED BY <1>2, <1>4, <1>5, <1>6, <2>1
<1> QED BY <1>6, <1>7, <1>8, <1>9 DEF AddsInv

\* A pass over the book as it was read keeps the books,
LEMMA ReconcileAdds ==
  ASSUME LedgerInv, LedgerInv', AddsInv, NEW aged \in BOOLEAN, Reconcile(aged)
  PROVE  AddsInv'
<1>1. PICK rows \in Readings : Commit(Pass(rows, aged)) /\ Observe(rows) /\ UNCHANGED <<orders, missed, blunt>> /\ UNCHANGED reads
  BY DEF Reconcile
<1>2. ReadOK(rows) /\ RowsTold(orders, rows)
  BY LedgerNow, ReadingsAreRead, ReadingsAreTold
<1>3. PICK a, b : a = late' /\ b = sync'.rows
  OBVIOUS
<1>4. RowsTold(orders, a) /\ RowsTold(orders, b)
  BY <1>1, <1>3 DEF AddsInv, reads
<1> QED BY <1>1, <1>2, <1>3, <1>4, PassStep

\* and so does a pass over a reading that is late.
LEMMA PassLateAdds ==
  ASSUME LedgerInv, LedgerInv', AddsInv, PassLate
  PROVE  AddsInv'
<1>1. PICK rows : rows = late
  OBVIOUS
<1>2. ReadOK(rows) /\ RowsTold(orders, rows)
  BY <1>1, LedgerNow DEF ReadsOK, AddsInv
<1>3. /\ Commit(Pass(rows, FALSE)) /\ Observe(rows) /\ UNCHANGED <<orders, missed, blunt>>
      /\ late' = <<>> /\ sync' = sync
  BY <1>1 DEF PassLate
<1>4. PICK a, b : a = late' /\ b = sync'.rows
  OBVIOUS
<1>5. RowsTold(orders, a) /\ RowsTold(orders, b)
  BY <1>3, <1>4, NothingTold DEF AddsInv
<1> QED BY <1>2, <1>3, <1>4, <1>5, PassStep

\* What the orders have traded by their rows is a number.
LEMMA GapIsInt ==
  ASSUME NEW O, OrderTable(O), NEW d, Tables(d)
  PROVE  /\ Gap(O, d) \in Int /\ Net(d.lots) \in Int
         /\ SumFunctionOnSet([o \in DOMAIN O |-> O[o].side * BookedIn(d, o)], DOMAIN O) \in Int
<1> DEFINE f == [o \in DOMAIN O |-> O[o].side * BookedIn(d, o)]
<1>1. IsFiniteSet(DOMAIN O) /\ \A o \in DOMAIN O : O[o].side \in {1, -1}
  <2>1. DOMAIN O = 1..Len(O) /\ Len(O) \in Nat /\ \A o \in DOMAIN O : O[o] \in OrderRows
    BY DEF OrderTable
  <2>2. IsFiniteSet(1..Len(O))
    BY <2>1, FS_Interval
  <2> QED BY <2>1, <2>2 DEF OrderRows
<1>2. \A o \in DOMAIN O : f[o] \in Int
  <2> SUFFICES ASSUME NEW o \in DOMAIN O PROVE O[o].side * BookedIn(d, o) \in Int
    OBVIOUS
  <2>1. O[o].side \in Int /\ BookedIn(d, o) \in Nat
    BY <1>1, BookedIs
  <2> QED BY <2>1
<1>3. Net(d.lots) \in Int
  BY NetIsOpen DEF Tables
<1>4. Gap(O, d) = Net(d.lots) - SumFunctionOnSet(f, DOMAIN O)
  BY DEF Gap
<1> HIDE DEF f
<1>5. SumFunctionOnSet(f, DOMAIN O) \in Int
  BY <1>1, <1>2, SumIsInt
<1> QED BY <1>3, <1>4, <1>5 DEF f

\* A lot of no order is put on: q shares more, or fewer, that no order has traded.
LEMMA DeltaAdds ==
  ASSUME OrdersOK, NEW M, NEW d, DbOK(d), Whole(orders, M, d), NEW q \in Int, NEW e, e = WithDelta(d, q)
  PROVE  Whole(orders, M, e) /\ Gap(orders, e) = Gap(orders, d) + q
<1>0. Tables(d) /\ RowsFitted(orders, d, M) /\ AllFit(orders, d, M) /\ AllRight(orders, d) /\ OrderTable(orders)
  BY DEF Whole, Stands, RowsFitted, OrdersOK, OrderTable
<1>1. Gap(orders, d) \in Int /\ Net(d.lots) \in Int
  BY <1>0, GapIsInt
<1>2. CASE q = 0
  BY <1>1, <1>2 DEF WithDelta
<1>3. CASE q # 0
  <2>1. PICK side \in {1, -1}, k \in Nat \ {0} : side = (IF q > 0 THEN 1 ELSE -1) /\ k = IF q > 0 THEN q ELSE -q
    BY <1>3
  <2>2. PICK at \in Nat : at = 2 * Len(orders) + 1
    <3>1. Len(orders) \in Nat
      BY DEF OrdersOK
    <3> QED BY <3>1
  <2>3. PICK l : l = NewLot(side, k, "OPEN", 0, TRUE, at)
    OBVIOUS
  <2>4. l \in LotRows /\ l.tag = 0 /\ l.ord = 0 /\ l.st = "OPEN" /\ l.side = side /\ l.open = k
    BY <2>3 DEF NewLot, LotRows, LotSet, Unfilled
  <2>5. e = [d EXCEPT !.lots = Append(@, l)]
    BY <1>3, <2>1, <2>2, <2>3 DEF WithDelta
  <2>6. e.lots = Append(d.lots, l) /\ e.exits = d.exits
    BY <2>4, <2>5, LotPutLast
  <2>7. LotOrder(l) = 0 /\ LotFits(orders, l) /\ l.st \notin Unfilled
    BY <2>4 DEF LotOrder, LotFits, Unfilled
  <2>8. LotComes(orders, M, d, l, e)
    BY <1>0, <2>4, <2>6, <2>7, LotPutOn
  <2>9. OpenPart(l) = q
    <3>1. side * k = q
      BY <2>1
    <3> QED BY <2>4, <3>1 DEF OpenPart
  <2>10. \A p \in DOMAIN orders : p # 0 /\ BookedIn(d, p) \in Nat
    BY <1>0, BookedIs DEF OrderTable
  <2>11. /\ Tables(e) /\ Continues(d, e) /\ RowsFitted(orders, e, M) /\ Net(e.lots) = Net(d.lots) + q
         /\ \A p \in DOMAIN orders : BookedIn(e, p) = BookedIn(d, p) /\ (Touched(e, p) => Touched(d, p))
    BY <2>7, <2>8, <2>9, <2>10 DEF LotComes
  <2>12. AllRight(orders, e)
    <3> SUFFICES ASSUME NEW o \in DOMAIN orders, Touched(e, o) PROVE Over(orders, o) /\ Right(orders, e, o)
      BY DEF AllRight
    <3>1. Touched(d, o) /\ BookedIn(e, o) = BookedIn(d, o)
      BY <2>11
    <3>2. Over(orders, o) /\ Right(orders, d, o)
      BY <1>0, <3>1 DEF AllRight
    <3> QED BY <1>0, <2>11, <3>1, <3>2, RightStays
  <2>13. HasRow(orders, e) /\ AllEnded(orders, e, M)
    <3>1. \A o : Touched(d, o) => Touched(e, o)
      BY <2>11, TouchedStays
    <3> QED BY <2>11, <3>1, HasRowStays DEF Whole, AllEnded, Ended
  <2>14. Gap(orders, e) = Gap(orders, d) + q
    <3> DEFINE f == [o \in DOMAIN orders |-> orders[o].side * BookedIn(d, o)]
    <3> DEFINE g == [o \in DOMAIN orders |-> orders[o].side * BookedIn(e, o)]
    <3>1. f = g
      BY <2>11
    <3>2. /\ Gap(orders, d) = Net(d.lots) - SumFunctionOnSet(f, DOMAIN orders)
          /\ Gap(orders, e) = Net(e.lots) - SumFunctionOnSet(g, DOMAIN orders)
      BY DEF Gap
    <3>3. SumFunctionOnSet(f, DOMAIN orders) \in Int
      BY <1>0, GapIsInt
    <3> HIDE DEF f, g
    <3> QED BY <1>1, <2>11, <3>1, <3>2, <3>3
  <2> QED BY <2>11, <2>12, <2>13, <2>14 DEF Whole, Stands
<1> QED BY <1>2, <1>3

\* A sync passes its book, and imports what the positions show beyond the lots.
LEMMA SyncPassAdds ==
  ASSUME LedgerInv, LedgerInv', AddsInv, SyncPass
  PROVE  AddsInv'
<1>1. PICK rows, net : rows = sync.rows /\ net = sync.net[1]
  OBVIOUS
<1>2. ReadOK(rows) /\ RowsTold(orders, rows) /\ net \in Int
  <2>1. sync \in [on : BOOLEAN, rows : Seq(BookRows), net : Seq(Int)] /\ ReadOK(sync.rows)
    BY LedgerNow DEF ReadsOK
  <2>2. PICK n \in Seq(Int) : n = sync.net
    BY <2>1
  <2>3. n # <<>>
    BY <2>2 DEF SyncPass
  <2>4. n[1] \in Int
    BY <2>3
  <2> QED BY <1>1, <2>1, <2>2, <2>4 DEF AddsInv
<1>3. PICK O, M, c, d : O = orders /\ M = met' /\ c = Ledger /\ d = Pass(rows, FALSE)
  OBVIOUS
<1>4. DbOK(d)
  BY <1>2, <1>3, LedgerNow, PassKeeps
<1>5. PICK q \in Int : q = Delta(d, net)
  <2>1. Net(d.lots) \in Int
    BY <1>4, LedgerRows, NetIsInt
  <2> QED BY <1>2, <2>1 DEF Delta
<1>6. /\ Observe(rows) /\ orders' = orders /\ late' = late /\ sync' = NoSync
      /\ \/ Commit(d) /\ missed' = missed /\ blunt' = blunt
         \/ Commit(WithDelta(d, q)) /\ missed' = 0 /\ blunt' = (blunt \/ q # missed)
  BY <1>1, <1>3, <1>5 DEF SyncPass
<1>7. PICK a, b : a = late' /\ b = sync'.rows
  OBVIOUS
<1>8. RowsTold(O, a) /\ RowsTold(O, b) /\ OrdersFit(O) /\ O = orders'
  <2>1. b = <<>>
    BY <1>6, <1>7 DEF NoSync
  <2> QED BY <1>3, <1>6, <1>7, <2>1, NothingTold DEF AddsInv
<1>9. CASE Commit(d) /\ missed' = missed /\ blunt' = blunt
  BY <1>2, <1>3, <1>6, <1>7, <1>8, <1>9, PassStep
<1>10. CASE Commit(WithDelta(d, q)) /\ missed' = 0 /\ blunt' = (blunt \/ q # missed)
  <2>1. PICK e : e = WithDelta(d, q)
    OBVIOUS
  <2>2. DbOK(e)
    BY <1>4, <2>1, LedgerNow, WithDeltaKeeps
  <2>3. e = Ledger'
    <3>1. e = [lots |-> e.lots, exits |-> e.exits, doomed |-> e.doomed]
      BY <2>2, LedgerRows
    <3> QED BY <1>10, <2>1, <3>1 DEF Ledger, Commit
  <2>4. Clean' => Clean /\ misread' = {}
    BY <1>6 DEF Observe, Clean, Recycled
  <2>5. Clean' => Whole(O, M, d) /\ Gap(O, d) = Gap(O, c)
    BY <1>2, <1>3, <1>6, <2>4, PassMakes
  <2>6. ASSUME Clean' PROVE Whole(O, M, e) /\ Gap(O, e) = Gap(O, c) + q
    <3>1. Whole(orders, M, d) /\ Gap(O, d) = Gap(O, c) /\ OrdersOK
      BY <1>3, <2>5, <2>6, LedgerNow
    <3>2. Whole(orders, M, e) /\ Gap(orders, e) = Gap(orders, d) + q
      BY <1>4, <2>1, <3>1, DeltaAdds
    <3> QED BY <1>3, <3>1, <3>2
  <2>7. Clean' /\ ~blunt' => Gap(O, c) + q = Held
    BY <1>3, <1>10, <2>4 DEF AddsInv
  <2>8. Clean' => Gap(O, e) \in Int
    <3>1. Clean' => Tables(e) /\ OrderTable(O)
      BY <1>3, <2>6, LedgerNow DEF Whole, Stands, OrderTable, OrdersOK
    <3> QED BY <3>1, GapIsInt
  <2>9. (Clean => Whole(orders, met, Ledger))'
    BY <1>3, <1>8, <2>3, <2>6
  <2>10. (Clean /\ ~blunt => Gap(orders, Ledger) + missed = Held)'
    <3>1. Clean' /\ ~blunt' => Gap(O, e) + 0 = Held
      BY <2>6, <2>7, <2>8
    <3> QED BY <1>8, <1>10, <2>3, <3>1
  <2>11. RowsTold(orders, late)' /\ RowsTold(orders, sync.rows)' /\ OrdersFit(orders)' /\ missed' \in Nat
    BY <1>7, <1>8, <1>10
  <2> QED BY <2>9, <2>10, <2>11 DEF AddsInv
<1> QED BY <1>6, <1>9, <1>10

\* At the start the one lot, or what is missed, is what was held the day before.
LEMMA AddsBegin == LedgerInit => AddsInv
<1> SUFFICES ASSUME LedgerInit PROVE AddsInv
  OBVIOUS
<1>1. PICK d : d = Ledger
  OBVIOUS
<1>2. /\ orders = <<>> /\ d.exits = <<>> /\ d.lots = lots /\ late = <<>> /\ sync.rows = <<>> /\ met = {}
      /\ Held \in Nat /\ DOMAIN orders = {} /\ DOMAIN d.exits = {}
  BY <1>1, LedgerAssumption DEF LedgerInit, NoSync, Ledger
<1>3. Tables(d)
  <2>1. LedgerInv
    BY LedgerBegins
  <2> QED BY <1>1, <2>1, LedgerNow DEF Tables, LotTable, ExitTable
<1>4. /\ \A n \in DOMAIN lots : lots[n].tag = 0 /\ lots[n].ord = 0
      /\ OpenSum(lots) + missed = Held /\ missed \in Nat
  <2>1. OpenSum(<<>>) = 0
    <3>1. PICK f : f = [n \in DOMAIN <<>> |-> OpenPart(<<>>[n])]
      OBVIOUS
    <3>2. OpenSum(<<>>) = SumFunctionOnSet(f, {})
      BY <3>1 DEF OpenSum
    <3> QED BY <3>2, SumEmpty
  <2>2. CASE lots = <<>> /\ missed = Held
    BY <1>2, <2>1, <2>2
  <2>3. CASE lots = <<NewLot(1, Held, "OPEN", 0, FALSE, 0)>> /\ missed = 0 /\ Held > 0
    <3>1. PICK l : l = NewLot(1, Held, "OPEN", 0, FALSE, 0)
      OBVIOUS
    <3>2. l.tag = 0 /\ l.ord = 0 /\ l.st = "OPEN" /\ l.side = 1 /\ l.open = Held /\ l \in LotRows
      BY <1>2, <2>3, <3>1 DEF NewLot, LotRows, LotSet, Unfilled
    <3>3. OpenPart(l) = Held
      BY <1>2, <3>2 DEF OpenPart
    <3>4. lots = Append(<<>>, l) /\ DOMAIN lots = {1} /\ lots[1] = l
      BY <2>3, <3>1, <3>2, OneRow
    <3>5. OpenSum(lots) = OpenSum(<<>>) + OpenPart(l)
      <4>1. LotTable(<<>>)
        BY DEF LotTable
      <4> QED BY <3>2, <3>4, <4>1, LotAppended
    <3>6. \A n \in DOMAIN lots : lots[n].tag = 0 /\ lots[n].ord = 0
      BY <3>2, <3>4
    <3>7. OpenSum(lots) = Held
      <4>1. \A x : x = 0 + Held => x = Held
        BY <1>2
      <4> QED BY <2>1, <3>3, <3>5, <4>1
    <3>8. OpenSum(lots) + missed = Held /\ missed \in Nat
      <4>1. Held + 0 = Held /\ 0 \in Nat
        BY <1>2
      <4> QED BY <2>3, <3>7, <4>1
    <3> QED BY <3>6, <3>8
  <2> QED BY <2>2, <2>3 DEF LedgerInit
<1>5. RowsFitted(orders, d, met)
  <2>1. \A n \in DOMAIN d.lots : LotOrder(d.lots[n]) = 0 /\ LotFits(orders, d.lots[n])
    BY <1>2, <1>4 DEF LotOrder, LotFits
  <2>2. AllFit(orders, d, met)
    BY <1>2, <2>1 DEF AllFit
  <2>3. RowsOne(d)
    BY <1>2, <2>1 DEF RowsOne, OneLot, OneExit, Alone
  <2> QED BY <2>2, <2>3 DEF RowsFitted
<1>6. Whole(orders, met, Ledger)
  BY <1>1, <1>2, <1>3, <1>5 DEF Whole, Stands, AllRight, HasRow, AllEnded
<1>7. Gap(orders, Ledger) + missed = Held
  <2>1. Net(d.lots) = OpenSum(lots) /\ Net(d.lots) \in Int
    BY <1>2, <1>3, NetIsOpen DEF Tables
  <2>2. PICK f : f = [o \in DOMAIN orders |-> orders[o].side * BookedIn(d, o)]
    OBVIOUS
  <2>3. Gap(orders, d) = Net(d.lots) - SumFunctionOnSet(f, {})
    BY <1>2, <2>2 DEF Gap
  <2>4. SumFunctionOnSet(f, {}) = 0
    BY SumEmpty
  <2> QED BY <1>1, <1>4, <2>1, <2>3, <2>4
<1>8. OrdersFit(orders) /\ RowsTold(orders, late) /\ RowsTold(orders, sync.rows)
  BY <1>2, NothingTold DEF OrdersFit
<1> QED BY <1>4, <1>6, <1>7, <1>8 DEF AddsInv

\* Every request, answer, read and pass keeps the books.
LEMMA AddsSteps == LedgerInv /\ LedgerInv' /\ AddsInv /\ [LedgerNext]_ledgerVars => AddsInv'
<1> SUFFICES ASSUME LedgerInv, LedgerInv', AddsInv, [LedgerNext]_ledgerVars PROVE AddsInv'
  OBVIOUS
<1>0. \A q \in 1..MaxQty : q \in Nat \ {0}
  BY LedgerAssumption
<1>1. CASE PlaceNext
  BY <1>0, <1>1, PlaceEntryAdds, PlaceNoRowAdds, PlaceExitAdds DEF PlaceNext
<1>2. CASE CardNext
  BY <1>0, <1>2, PlaceNoRowAdds DEF CardNext
<1>3. CASE ReenterNext
  BY <1>0, <1>3, ReenterAdds DEF ReenterNext
<1>4. CASE BrokerNext
  <2>1. PICK o \in DOMAIN orders : Accept(o) \/ (\E f \in 0..MaxQty : Ends(o, f)) \/ AnswerTaken(o) \/ AnswerRefused(o)
    BY <1>4 DEF BrokerNext
  <2>2. CASE \E f \in 0..MaxQty : Ends(o, f)
    <3>1. PICK f \in Nat : Ends(o, f)
      BY <2>2
    <3> QED BY <3>1, BrokerAdds
  <2>3. CASE Accept(o)
    <3>1. 0 \in Nat
      OBVIOUS
    <3> QED BY <2>3, <3>1, BrokerAdds
  <2> QED BY <2>1, <2>2, <2>3, AnswerTakenAdds, AnswerRefusedAdds
<1>5. CASE PassNext
  BY <1>5, ReconcileAdds, ReadsAdd, PassLateAdds, CancelSiblingAdds DEF PassNext
<1>6. CASE LossNext
  <2>1. CASE \E o \in DOMAIN orders : AnswerLost(o) \/ \E f \in 1..MaxQty : Trades(o, f)
    <3>1. PICK o \in DOMAIN orders : AnswerLost(o) \/ \E f \in 1..MaxQty : Trades(o, f)
      BY <2>1
    <3>2. CASE \E f \in 1..MaxQty : Trades(o, f)
      <4>1. PICK f \in Nat : Trades(o, f)
        BY <3>2
      <4> QED BY <4>1, BrokerAdds
    <3> QED BY <3>1, <3>2, AnswerLostAdds
  <2>2. CASE SyncBook \/ SyncPositions \/ SyncBlind
    BY <2>2, ReadsAdd
  <2>3. CASE SyncPass
    BY <2>3, SyncPassAdds
  <2> QED BY <1>6, <2>1, <2>2, <2>3 DEF LossNext
<1>7. CASE UNCHANGED ledgerVars
  BY <1>7, ReadsAdd
<1> QED BY <1>1, <1>2, <1>3, <1>4, <1>5, <1>6, <1>7 DEF LedgerNext

\* The books hold in every state of the ledger.
LEMMA AddsHold == LedgerSpec => [](LedgerInv /\ AddsInv)
<1>1. LedgerInit => LedgerInv /\ AddsInv
  BY LedgerBegins, AddsBegin
<1>2. LedgerInv /\ AddsInv /\ [LedgerNext]_ledgerVars => LedgerInv' /\ AddsInv'
  BY LedgerSteps, AddsSteps
<1> QED BY <1>1, <1>2, PTL DEF LedgerSpec

\* What the rows of an order that has ended do not say is left out.
LEMMA SettledOrder ==
  ASSUME LedgerInv, AddsInv, Clean, Settled, NEW o \in DOMAIN orders, ~LeftOutIn(Ledger, o)
  PROVE  BookedIn(Ledger, o) = orders[o].done
<1>1. PICK d : d = Ledger
  OBVIOUS
<1>2. Tables(d) /\ AllFit(orders, d, met) /\ AllRight(orders, d) /\ AllEnded(orders, d, met) /\ OrdersFit(orders)
  BY <1>1 DEF AddsInv, Whole, Stands, RowsFitted
<1>3. o # 0 /\ orders[o] \in OrderRows
  BY LedgerNow
<1>4. LeftOutIn(Ledger, o) <=> LeftOut(orders, d, o)
  BY <1>1 DEF LeftOut, LeftOutIn
<1>5. CASE Touched(d, o)
  BY <1>1, <1>2, <1>4, <1>5 DEF AllRight, Right
<1>6. CASE ~Touched(d, o)
  <2>1. BookedIn(d, o) = 0
    BY <1>2, <1>3, <1>6, UntouchedIsNothing
  <2>2. CASE orders[o].st = "REFUSED"
    BY <1>1, <1>2, <2>1, <2>2 DEF OrdersFit, OrderFits
  <2>3. CASE o \in met
    <3>1. Ended(orders, d, o) /\ orders[o].ref \in {"lot", "exit", "card", "none"}
      BY <1>2, <1>3, <2>3 DEF AllEnded, OrderRows
    <3> QED BY <1>1, <1>4, <1>6, <2>1, <3>1 DEF Ended, Over, LeftOut
  <2> QED BY <2>2, <2>3 DEF Settled
<1> QED BY <1>5, <1>6

\* When every order has ended and was met, the books are the account.
LEMMA AddsMatch == LedgerInv /\ AddsInv => LedgerMatches
<1> SUFFICES ASSUME LedgerInv, AddsInv, Settled, Clean, ~blunt PROVE Explained
  BY DEF LedgerMatches, Clean
<1> DEFINE S == DOMAIN orders
<1> DEFINE R == {o \in S : LeftOutIn(Ledger, o)}
<1> DEFINE f == [o \in S |-> orders[o].side * orders[o].done]
<1> DEFINE g == [o \in S |-> orders[o].side * BookedIn(Ledger, o)]
<1> DEFINE h == [o \in S |-> orders[o].side * (orders[o].done - BookedIn(Ledger, o))]
<1>1. /\ IsFiniteSet(S) /\ OrderTable(orders) /\ Tables(Ledger)
      /\ \A o \in S : orders[o].side \in {1, -1} /\ orders[o].done \in Nat /\ BookedIn(Ledger, o) \in Nat
  <2>1. S = 1..Len(orders) /\ Len(orders) \in Nat /\ \A o \in S : orders[o] \in OrderRows
    BY LedgerNow
  <2>2. IsFiniteSet(1..Len(orders)) /\ \A o \in S : orders[o].side \in {1, -1} /\ orders[o].done \in Nat
    <3>1. \A r \in OrderRows : r.side \in {1, -1} /\ r.done \in Nat
      BY DEF OrderRows
    <3>2. IsFiniteSet(1..Len(orders))
      BY <2>1, FS_Interval
    <3> QED BY <2>1, <3>1, <3>2
  <2>3. OrderTable(orders) /\ Tables(Ledger)
    BY LedgerNow DEF OrderTable, OrdersOK, Tables, LotTable, ExitTable
  <2> QED BY <2>1, <2>2, <2>3, BookedIs
<1>2. \A o \in S : f[o] \in Int /\ g[o] \in Int /\ h[o] \in Int /\ f[o] = g[o] + h[o]
  <2> SUFFICES ASSUME NEW s \in {1, -1}, NEW a \in Nat, NEW b \in Nat
               PROVE  s * a \in Int /\ s * b \in Int /\ s * (a - b) \in Int /\ s * a = s * b + s * (a - b)
    BY <1>1
  <2> QED OBVIOUS
<1>3. \A o \in S \ R : h[o] = 0
  <2> SUFFICES ASSUME NEW o \in S \ R PROVE orders[o].side * (orders[o].done - BookedIn(Ledger, o)) = 0
    OBVIOUS
  <2>1. BookedIn(Ledger, o) = orders[o].done
    BY SettledOrder
  <2> QED BY <1>1, <2>1
<1>4. /\ AccountNet = Held + SumFunctionOnSet(f, S)
      /\ Gap(orders, Ledger) = Net(lots) - SumFunctionOnSet(g, S)
      /\ Unexplained = SumFunctionOnSet(h, R) /\ R \subseteq S
  BY DEF AccountNet, Gap, Unexplained, Ledger
<1>5. Gap(orders, Ledger) + missed = Held /\ missed \in Nat /\ Held \in Nat
  BY LedgerAssumption DEF AddsInv
<1>6. Net(lots) \in Int
  BY <1>1, NetIsOpen DEF Tables, Ledger
<1> HIDE DEF S, R, f, g, h
<1>7. SumFunctionOnSet(h, S) = SumFunctionOnSet(h, R)
  BY <1>1, <1>2, <1>3, <1>4, SumPart
<1>8. SumFunctionOnSet(f, S) = SumFunctionOnSet(g, S) + SumFunctionOnSet(h, S)
  BY <1>1, <1>2, SumPlus
<1>9. SumFunctionOnSet(g, S) \in Int /\ SumFunctionOnSet(h, S) \in Int
  BY <1>1, <1>2, SumIsInt
<1> QED BY <1>4, <1>5, <1>6, <1>7, <1>8, <1>9 DEF Explained

\* Once every order of the day has ended and been met, the open lots of the
\* gateway add up to the account but for what the rows leave out, whatever the
\* broker's terminal, lost answers, late readings and syncs did before: unless
\* an order was misread, a sync imported a fill early, or a lot was re-entered.
THEOREM LedgerAddsUp == LedgerSpec => []LedgerMatches
BY AddsHold, AddsMatch, PTL
=============================================================================
