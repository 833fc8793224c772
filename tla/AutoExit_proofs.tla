-------------------------- MODULE AutoExit_proofs --------------------------
(***************************************************************************)
(* Theorems about AutoExit, for any contracts, positions, lots, coroutines *)
(* and bounds.  With every fault of the model no fill is booked twice but   *)
(* the lot exits a pass met without their number, and none three times;    *)
(* symbol and exchange targets implement ExitDesk, and never oversell; so  *)
(* do the targets of single lots, and their ledger settles on the account. *)
(***************************************************************************)
EXTENDS AutoExit, SequenceTheorems, Totals_proofs, TLAPS

-----------------------------------------------------------------------------
(* Types                                                                   *)

LEMMA KindOfJob ==
  ASSUME NEW j \in Job
  PROVE  /\ j.at \in {"place", "answer"} => j \in PlaceJob
         /\ j.at = "lot" => j \in LotJob
         /\ j.at = "lotanswer" => j \in AnswerJob
  BY DEF Job, Resting, PlaceJob, LotJob, AnswerJob

LEMMA PlaceJobFields ==
  ASSUME NEW j \in PlaceJob
  PROVE  /\ \A a \in {"place", "answer"} : [j EXCEPT !.at = a] \in PlaceJob
         /\ \A q \in SUBSET Pos : [j EXCEPT !.queue = q] \in PlaceJob
         /\ \A b \in SUBSET Key : [j EXCEPT !.bad = b] \in PlaceJob
         /\ \A f \in [Pos -> Int] : [j EXCEPT !.pend = f] \in PlaceJob
         /\ \A n \in Nat : [j EXCEPT !.order = n] \in PlaceJob
         /\ \A p \in Pos : [j EXCEPT !.pos = p] \in PlaceJob
<1>1. ASSUME NEW a \in {"place", "answer"} PROVE [j EXCEPT !.at = a] \in PlaceJob
  BY DEF PlaceJob
<1>2. ASSUME NEW q \in SUBSET Pos PROVE [j EXCEPT !.queue = q] \in PlaceJob
  BY DEF PlaceJob
<1>3. ASSUME NEW b \in SUBSET Key PROVE [j EXCEPT !.bad = b] \in PlaceJob
  BY DEF PlaceJob
<1>4. ASSUME NEW f \in [Pos -> Int] PROVE [j EXCEPT !.pend = f] \in PlaceJob
  BY DEF PlaceJob
<1>5. ASSUME NEW n \in Nat PROVE [j EXCEPT !.order = n] \in PlaceJob
  BY DEF PlaceJob
<1>6. ASSUME NEW p \in Pos PROVE [j EXCEPT !.pos = p] \in PlaceJob
  BY DEF PlaceJob
<1> QED BY <1>1, <1>2, <1>3, <1>4, <1>5, <1>6, Zenon

LEMMA PlaceJobEdited ==
  ASSUME NEW j \in PlaceJob, NEW a \in {"place", "answer"}, NEW q \in SUBSET Pos,
         NEW p \in Pos, NEW x \in Int, NEW n \in Nat
  PROVE  /\ [j EXCEPT !.queue = q, !.pend[p] = x] \in PlaceJob
         /\ [j EXCEPT !.at = a, !.queue = q, !.pend[p] = x, !.pos = p, !.order = n] \in PlaceJob
<1>1. [j.pend EXCEPT ![p] = x] \in [Pos -> Int]
  BY DEF PlaceJob
<1>2. PICK r \in PlaceJob : r = [j EXCEPT !.queue = q]
  BY PlaceJobFields
<1>3. r.pend = j.pend
  BY <1>2 DEF PlaceJob
<1>4. [r EXCEPT !.pend = [j.pend EXCEPT ![p] = x]] \in PlaceJob
  BY <1>1, PlaceJobFields
<1>5. [j EXCEPT !.queue = q, !.pend[p] = x] \in PlaceJob
  BY <1>2, <1>3, <1>4
<1>6. PICK s \in PlaceJob : s = [j EXCEPT !.at = a]
  BY PlaceJobFields
<1>9. PICK u \in PlaceJob : u = [s EXCEPT !.queue = q]
  BY PlaceJobFields
<1>10. u.pend = j.pend
  BY <1>6, <1>9 DEF PlaceJob
<1>11. PICK v \in PlaceJob : v = [u EXCEPT !.pend = [j.pend EXCEPT ![p] = x]]
  BY <1>1, PlaceJobFields
<1>12. PICK w \in PlaceJob : w = [v EXCEPT !.pos = p]
  BY PlaceJobFields
<1>13. [w EXCEPT !.order = n] \in PlaceJob
  BY PlaceJobFields
<1>14. [j EXCEPT !.at = a, !.queue = q, !.pend[p] = x, !.pos = p, !.order = n] \in PlaceJob
  BY <1>6, <1>9, <1>10, <1>11, <1>12, <1>13
<1> QED BY <1>5, <1>14

LEMMA WithoutShrinks ==
  ASSUME NEW S, NEW s \in Seq(S), NEW i \in DOMAIN s
  PROVE  /\ Without(s, i) \in Seq(S) /\ Len(Without(s, i)) = Len(s) - 1
         /\ \A k \in 1..Len(s) - 1 : Without(s, i)[k] = IF k < i THEN s[k] ELSE s[k + 1]
<1> DEFINE a == SubSeq(s, 1, i - 1)
<1> DEFINE b == SubSeq(s, i + 1, Len(s))
<1>1. i \in 1..Len(s) /\ Len(s) \in Nat
  OBVIOUS
<1>2. a \in Seq(S) /\ Len(a) = i - 1 /\ \A k \in 1..i - 1 : a[k] = s[k]
  BY <1>1
<1>3. b \in Seq(S) /\ Len(b) = Len(s) - i /\ \A k \in 1..Len(s) - i : b[k] = s[i + k]
  BY <1>1
<1> HIDE DEF a, b
<1>4. a \o b \in Seq(S) /\ Len(a \o b) = Len(s) - 1
  <2>1. a \o b \in Seq(S) /\ Len(a \o b) = Len(a) + Len(b)
    BY <1>2, <1>3, ConcatProperties
  <2> QED BY <1>1, <1>2, <1>3, <2>1
<1>5. ASSUME NEW k \in 1..Len(s) - 1 PROVE (a \o b)[k] = IF k < i THEN s[k] ELSE s[k + 1]
  <2>1. k \in 1..Len(a) + Len(b)
    BY <1>1, <1>2, <1>3
  <2>2. (a \o b)[k] = IF k <= Len(a) THEN a[k] ELSE b[k - Len(a)]
    BY <1>2, <1>3, <2>1, ConcatProperties
  <2>3. CASE k < i
    <3>1. k \in 1..i - 1 /\ k <= Len(a)
      BY <1>1, <1>2, <2>3
    <3> QED BY <1>2, <2>2, <2>3, <3>1
  <2>4. CASE ~(k < i)
    <3>1. k - Len(a) \in 1..Len(s) - i /\ ~(k <= Len(a)) /\ i + (k - Len(a)) = k + 1
      BY <1>1, <1>2, <2>4
    <3> QED BY <1>3, <2>2, <2>4, <3>1
  <2> QED BY <2>3, <2>4
<1>6. Without(s, i) = a \o b
  BY DEF Without, a, b
<1> QED BY <1>4, <1>5, <1>6

LEMMA OneLess ==
  ASSUME NEW s \in Seq(Request), NEW i \in DOMAIN s, NEW w, w = Without(s, i)
  PROVE  /\ DOMAIN s = 1..Len(s) /\ Len(s) \in Nat /\ DOMAIN w = 1..Len(s) - 1
         /\ \A k \in 1..Len(s) - 1 : w[k] = IF k < i THEN s[k] ELSE s[k + 1]
<1>1. w \in Seq(Request) /\ Len(w) = Len(s) - 1
  BY WithoutShrinks
<1>2. \A k \in 1..Len(s) - 1 : w[k] = IF k < i THEN s[k] ELSE s[k + 1]
  BY WithoutShrinks
<1> QED BY <1>1, <1>2

USE AutoExitAssumption DEF AutoExitAssumption

\* An answer on its way is about an order that was placed, or about none.
Linked ==
  \A t \in Task :
    /\ task[t].at = "answer" => task[t].order \in Ids \cup {0}
    /\ task[t].at = "lotanswer" => task[t].order \in Ids

LEMMA IdsAreFinite ==
  ASSUME TypeOK
  PROVE  Ids = 1..Len(orders) /\ Len(orders) \in Nat /\ IsFiniteSet(Ids) /\ DOMAIN exits = Ids
<1>1. Ids = 1..Len(orders) /\ Len(orders) \in Nat /\ DOMAIN exits = Ids
  BY DEF TypeOK, Ids
<1> QED BY <1>1, FS_Interval

LEMMA OrderFields ==
  ASSUME TypeOK, NEW o \in Ids
  PROVE  /\ orders[o] \in ExitOrder /\ orders[o].pos \in Pos /\ orders[o].lot \in Lot \cup {NoLot}
         /\ orders[o].qty \in Nat \ {0} /\ orders[o].left \in Nat
         /\ orders[o].st \in OrderStatus /\ exits[o] \in RowStatus
<1>1. orders[o] \in ExitOrder /\ exits[o] \in RowStatus
  BY IdsAreFinite DEF TypeOK, Ids
<1> QED BY <1>1 DEF ExitOrder

LEMMA PendingIsTyped == ASSUME TypeOK PROVE PendingExits \in [Pos -> Int]
<1> SUFFICES ASSUME NEW p \in Pos PROVE SumFunctionOnSet(Ordered, PendingAt(p)) \in Int
  BY DEF PendingExits
<1>1. PendingAt(p) \subseteq Ids
  BY DEF PendingAt
<1>2. IsFiniteSet(PendingAt(p))
  BY <1>1, IdsAreFinite, FS_Subset
<1>3. \A o \in PendingAt(p) : Ordered[o] \in Int
  BY <1>1, OrderFields DEF Ordered
<1> QED BY <1>2, <1>3, SumIsInt

\* What a step does to the orders, the task that runs and the answers under way.
LEMMA NewOrderTyped ==
  ASSUME TypeOK, NEW x \in ExitOrder, NEW s \in RowStatus, orders' = Append(orders, x), exits' = Append(exits, s)
  PROVE  /\ orders' \in Seq(ExitOrder) /\ exits' \in Seq(RowStatus) /\ Len(exits') = Len(orders')
         /\ Ids' = Ids \cup {Len(orders) + 1} /\ Len(orders) + 1 \notin Ids
  BY DEF TypeOK, Ids

LEMMA PlacementKinds ==
  ASSUME NEW r \in Placements
  PROVE  /\ r[1] \in {"live", "rejected"} /\ r[2] \in BOOLEAN
         /\ r[2] => r[1] = "live"
         /\ ~r[2] /\ "placement_lost" \notin Faults => r[1] = "rejected"
<1>1. r = <<"live", TRUE>> \/ r = <<"rejected", FALSE>> \/ (r = <<"live", FALSE>> /\ "placement_lost" \in Faults)
  BY Zenon DEF Placements
<1>2. CASE r = <<"live", TRUE>>
  BY <1>2
<1>3. CASE r = <<"rejected", FALSE>>
  BY <1>3
<1>4. CASE r = <<"live", FALSE>> /\ "placement_lost" \in Faults
  BY <1>4
<1> QED BY <1>1, <1>2, <1>3, <1>4

\* What becomes of an order: its contract, lot and size never change.
Kept(os, o) ==
  /\ os \in Seq(ExitOrder) /\ Len(os) = Len(orders)
  /\ \A q \in Ids \ {o} : os[q] = orders[q]
  /\ os[o].pos = orders[o].pos /\ os[o].lot = orders[o].lot /\ os[o].qty = orders[o].qty

LEMMA OrderReplaced ==
  ASSUME TypeOK, NEW o \in Ids, NEW r \in ExitOrder,
         r.pos = orders[o].pos, r.lot = orders[o].lot, r.qty = orders[o].qty
  PROVE  Kept([orders EXCEPT ![o] = r], o) /\ [orders EXCEPT ![o] = r][o] = r
  BY DEF TypeOK, Ids, Kept

LEMMA OrderEnds ==
  ASSUME TypeOK, NEW o \in Ids, NEW st \in OrderStatus
  PROVE  Kept(Ended(o, st), o) /\ Ended(o, st)[o].st = st /\ Ended(o, st)[o].left = orders[o].left
<1>1. PICK x \in ExitOrder : x = orders[o]
  BY OrderFields
<1>2. PICK r \in ExitOrder : r = [x EXCEPT !.st = st]
  BY DEF ExitOrder
<1>3. r.pos = x.pos /\ r.lot = x.lot /\ r.qty = x.qty /\ r.left = x.left /\ r.st = st
  BY <1>2 DEF ExitOrder
<1>4. Ended(o, st) = [orders EXCEPT ![o] = r]
  BY <1>1, <1>2, Zenon DEF Ended
<1>5. r.pos = orders[o].pos /\ r.lot = orders[o].lot /\ r.qty = orders[o].qty /\ r.left = orders[o].left
  BY <1>1, <1>3
<1>6. Kept([orders EXCEPT ![o] = r], o) /\ [orders EXCEPT ![o] = r][o] = r
  BY <1>5, OrderReplaced, Zenon
<1>7. Kept(Ended(o, st), o) /\ Ended(o, st)[o] = r
  BY <1>4, <1>6, Zenon
<1> QED BY <1>3, <1>5, <1>7, Zenon

LEMMA OrderTrades ==
  ASSUME TypeOK, NEW o \in Ids, NEW n \in 1..orders[o].left
  PROVE  /\ Kept(Traded(o, n), o) /\ Traded(o, n)[o].left = orders[o].left - n
         /\ Traded(o, n)[o].st = IF n = orders[o].left THEN "done" ELSE "live"
<1>1. PICK x \in ExitOrder : x = orders[o]
  BY OrderFields
<1> DEFINE m == orders[o].left - n
<1> DEFINE st == IF n = orders[o].left THEN "done" ELSE "live"
<1>2. m \in Nat /\ st \in OrderStatus
  BY OrderFields DEF OrderStatus
<1>3. Traded(o, n) = [orders EXCEPT ![o] = [[x EXCEPT !.left = m] EXCEPT !.st = st]]
  BY <1>1, Zenon DEF Traded
<1> HIDE DEF m, st
<1>4. PICK s \in ExitOrder : s = [x EXCEPT !.left = m]
  BY <1>2 DEF ExitOrder
<1>5. PICK r \in ExitOrder : r = [s EXCEPT !.st = st]
  BY <1>2 DEF ExitOrder
<1>6. r.pos = x.pos /\ r.lot = x.lot /\ r.qty = x.qty /\ r.left = m /\ r.st = st
  BY <1>4, <1>5 DEF ExitOrder
<1>7. Traded(o, n) = [orders EXCEPT ![o] = r]
  BY <1>3, <1>4, <1>5, Zenon
<1>8. r.pos = orders[o].pos /\ r.lot = orders[o].lot /\ r.qty = orders[o].qty
  BY <1>1, <1>6
<1>9. Kept([orders EXCEPT ![o] = r], o) /\ [orders EXCEPT ![o] = r][o] = r
  BY <1>8, OrderReplaced, Zenon
<1>10. Kept(Traded(o, n), o) /\ Traded(o, n)[o] = r
  BY <1>7, <1>9, Zenon
<1> QED BY <1>6, <1>10, Zenon DEF m, st

LEMMA RequestTyped ==
  ASSUME TypeOK, NEW K \in SUBSET Key, NEW b \in BOOLEAN
  PROVE  Append(fetches, Fetch(K, b)) \in Seq(Request)
<1>1. Fetch(K, b) \in Request
  BY DEF Fetch, Request, TypeOK
<1> QED BY <1>1 DEF TypeOK

\* The job of a target that fires: nothing is placed yet.
JustFired(j, k, S) ==
  /\ j.at = "place" /\ j.queue = S /\ j.size = cache
  /\ j.pend = PendingExits /\ j.bad = {} /\ j.key = k

LEMMA FiringJob ==
  ASSUME TypeOK, NEW t \in Task, NEW k \in Key, NEW path \in {"symbol", "exchange"},
         NEW S \in SUBSET Pos, PlaceAll(t, k, path, S)
  PROVE  \E j \in PlaceJob : task' = [task EXCEPT ![t] = j] /\ JustFired(j, k, S)
<1> DEFINE c == CHOOSE p \in Pos : TRUE
<1> DEFINE f == PendingExits
<1>1. c \in Pos /\ f \in [Pos -> Int] /\ cache \in [Pos -> Int]
  BY PendingIsTyped DEF TypeOK
<1>2. task' = [task EXCEPT ![t] = [at |-> "place", path |-> path, key |-> k, queue |-> S, size |-> cache,
                                   pend |-> f, bad |-> {}, order |-> 0, pos |-> c]]
  BY DEF PlaceAll
<1> HIDE DEF c, f
<1> DEFINE j == [at |-> "place", path |-> path, key |-> k, queue |-> S, size |-> cache,
                 pend |-> f, bad |-> {}, order |-> 0, pos |-> c]
<1>3. j \in PlaceJob
  BY <1>1 DEF PlaceJob
<1>4. j.at = "place" /\ j.queue = S /\ j.size = cache /\ j.pend = f /\ j.bad = {} /\ j.key = k
  OBVIOUS
<1>5. task' = [task EXCEPT ![t] = j]
  BY <1>2
<1> HIDE DEF j
<1>6. JustFired(j, k, S)
  BY <1>4 DEF JustFired, f
<1> QED BY <1>3, <1>5, <1>6

LEMMA LotLoopJob ==
  ASSUME TypeOK, NEW t \in Task, NEW k \in Key, NEW L, LotLoop(t, k, L)
  PROVE  \E j \in LotJob : task' = [task EXCEPT ![t] = j] /\ j.at = "lot" /\ j.lots = LotQueue(k, L)
<1> DEFINE q == LotQueue(k, L)
<1> DEFINE j == [at |-> "lot", key |-> k, lots |-> q, order |-> 0]
<1>1. q \in SUBSET Lot
  BY DEF LotQueue, TypeOK
<1>2. task' = [task EXCEPT ![t] = j]
  BY DEF LotLoop
<1> HIDE DEF q
<1>3. j \in LotJob /\ j.at = "lot" /\ j.lots = q
  BY <1>1 DEF LotJob
<1> HIDE DEF j
<1> QED BY <1>2, <1>3 DEF q

\* A complete exit closes no more of a lot than is open.
LEMMA ClosesLittle ==
  ASSUME TypeOK, NEW o \in Ids, NEW l \in Lot
  PROVE  Closes(o, l) \in Nat /\ lotOpen[l] - Closes(o, l) \in Nat
<1> DEFINE rest == Filled(o) - SumFunctionOnSet(lotOpen, OlderAt(l))
<1>1. lotOpen[l] \in Nat
  BY DEF TypeOK
<1>2. IsFiniteSet(OlderAt(l)) /\ \A m \in OlderAt(l) : lotOpen[m] \in Int
  BY FS_Subset DEF OlderAt, TypeOK, AutoExitAssumption
<1>3. SumFunctionOnSet(lotOpen, OlderAt(l)) \in Int
  BY <1>2, SumIsInt
<1>4. rest \in Int
  BY <1>3, OrderFields DEF Filled
<1> HIDE DEF rest
<1>5. Closes(o, l) = IF PosOf[l] # orders[o].pos \/ rest <= 0 THEN 0 ELSE Lesser(lotOpen[l], rest)
  BY DEF Closes, rest
<1> QED BY <1>1, <1>4, <1>5 DEF Lesser

LEMMA Typed == TypeOK /\ Linked /\ [Next]_vars => TypeOK' /\ Linked'
<1> SUFFICES ASSUME TypeOK, Linked, [Next]_vars PROVE TypeOK' /\ Linked'
  OBVIOUS
<1>0. Ids = 1..Len(orders) /\ Len(orders) \in Nat /\ IsFiniteSet(Ids) /\ DOMAIN exits = Ids /\ Ids' = DOMAIN orders'
  BY IdsAreFinite DEF Ids
<1>1. ASSUME NEW t \in Task, NEW k \in Key, SymbolFires(t, k) \/ SymbolPasses(t, k) PROVE TypeOK' /\ Linked'
  <2>2. PICK j \in Job : task' = [task EXCEPT ![t] = j] /\ j.at \in {"place", "lot"}
    <3>1. CASE SymbolFires(t, k)
      BY <3>1, FiringJob DEF SymbolFires, Job, JustFired
    <3>2. CASE SymbolPasses(t, k)
      BY <3>2, LotLoopJob DEF SymbolPasses, Job
    <3> QED BY <1>1, <3>1, <3>2
  <2>3. /\ UNCHANGED <<broker, cache, exchLatch, lotTable, ledger, background>>
        /\ latched' \subseteq Key /\ turn' \in Task
    BY <1>1 DEF SymbolFires, SymbolPasses, latches, TypeOK
  <2> QED BY <1>0, <2>2, <2>3 DEF TypeOK, Linked, broker, lotTable, ledger, background
<1>2. ASSUME NEW t \in Task, NEW p \in Pos, PlaceCovered(t, p) PROVE TypeOK' /\ Linked'
  <2> DEFINE j == task[t]
  <2> DEFINE x == j.pend[p] - j.size[p]
  <2>1. j \in PlaceJob /\ j.at = "place"
    BY <1>2, KindOfJob DEF PlaceCovered, TypeOK
  <2>2. x \in Int /\ j.queue \ {p} \in SUBSET Pos /\ DOMAIN j = {"at", "path", "key", "queue", "size", "pend", "bad", "order", "pos"}
    BY <2>1 DEF PlaceJob
  <2>3. task' = [task EXCEPT ![t] = [j EXCEPT !.queue = j.queue \ {p}, !.pend[p] = x]]
    BY <1>2 DEF PlaceCovered
  <2>4. UNCHANGED <<broker, cache, latches, lotTable, ledger, turn, background>>
    BY <1>2 DEF PlaceCovered
  <2>5. [j EXCEPT !.queue = j.queue \ {p}, !.pend[p] = x].at = "place"
    BY <2>1, <2>2
  <2> HIDE DEF x
  <2> DEFINE r == [j EXCEPT !.queue = j.queue \ {p}, !.pend[p] = x]
  <2>6. r \in Job
    <3>1. \A y \in Int : [j EXCEPT !.queue = j.queue \ {p}, !.pend[p] = y] \in PlaceJob
      BY <2>1, <2>2, PlaceJobEdited, Zenon
    <3>2. [j EXCEPT !.queue = j.queue \ {p}, !.pend[p] = x] \in PlaceJob
      BY <2>2, <3>1
    <3> QED BY <3>2 DEF Job
  <2> HIDE DEF r, j
  <2>7. task' = [task EXCEPT ![t] = r] /\ r.at = "place"
    BY <2>3, <2>5 DEF r
  <2> QED BY <1>0, <2>4, <2>6, <2>7 DEF TypeOK, Linked, broker, latches, lotTable, ledger, background
<1>3. ASSUME NEW t \in Task, NEW p \in Pos, PlaceOne(t, p) PROVE TypeOK' /\ Linked'
  <2> DEFINE j == task[t]
  <2>1. j \in PlaceJob /\ j.at = "place" /\ j.size[p] - j.pend[p] \in Nat \ {0} /\ j.queue \ {p} \in SUBSET Pos
    <3>1. j \in PlaceJob /\ j.at = "place"
      BY <1>3, KindOfJob DEF PlaceOne, TypeOK
    <3>2. j.size[p] \in Int /\ j.pend[p] \in Int /\ j.queue \in SUBSET Pos
      BY <3>1 DEF PlaceJob
    <3> QED BY <1>3, <3>1, <3>2, SMTT(30) DEF PlaceOne
  <2>2. PICK r \in Placements :
          /\ orders' = Append(orders, Order(p, NoLot, j.size[p] - j.pend[p], r[1]))
          /\ task' = [task EXCEPT ![t] =
               [j EXCEPT !.at = "answer", !.queue = j.queue \ {p}, !.pend[p] = 0, !.pos = p,
                         !.order = IF r[2] THEN Len(orders) + 1 ELSE 0]]
    BY <1>3 DEF PlaceOne
  <2> DEFINE n == IF r[2] THEN Len(orders) + 1 ELSE 0
  <2> DEFINE u == [j EXCEPT !.at = "answer", !.queue = j.queue \ {p}, !.pend[p] = 0, !.pos = p, !.order = n]
  <2> DEFINE x == Order(p, NoLot, j.size[p] - j.pend[p], r[1])
  <2>3. n \in Nat /\ n \in {0, Len(orders) + 1}
    BY <1>0
  <2>4. u \in PlaceJob /\ u.at = "answer" /\ u.order = n
    <3>0. 0 \in Int /\ "answer" \in {"place", "answer"}
      OBVIOUS
    <3>1. u \in PlaceJob
      BY <2>1, <2>3, <3>0, PlaceJobEdited, Zenon
    <3>2. DOMAIN j = {"at", "path", "key", "queue", "size", "pend", "bad", "order", "pos"}
      BY <2>1 DEF PlaceJob
    <3> QED BY <3>1, <3>2
  <2>5. x \in ExitOrder
    <3>1. r[1] \in {"live", "rejected"}
      BY PlacementKinds
    <3> QED BY <2>1, <3>1 DEF Order, ExitOrder, OrderStatus
  <2>6. exits' = Append(exits, "none") /\ turn' = NoTask
        /\ UNCHANGED <<net, cache, latches, lotTable, lotOpen, booked, numbered, background>>
    BY <1>3 DEF PlaceOne
  <2> HIDE DEF x, u, n
  <2>7. orders' = Append(orders, x) /\ task' = [task EXCEPT ![t] = u]
    BY <2>2 DEF x, u, n
  <2>8. /\ orders' \in Seq(ExitOrder) /\ exits' \in Seq(RowStatus) /\ Len(exits') = Len(orders')
        /\ Ids' = Ids \cup {Len(orders) + 1}
    BY <2>5, <2>6, <2>7, NewOrderTyped DEF RowStatus
  <2> QED BY <1>0, <2>3, <2>4, <2>6, <2>7, <2>8 DEF TypeOK, Linked, latches, lotTable, background, Job
<1>4. ASSUME NEW t \in Task, Placed(t) PROVE TypeOK' /\ Linked'
  <2> DEFINE j == task[t]
  <2> DEFINE b == IF j.order # 0 THEN j.bad ELSE j.bad \cup {KeyOf[j.pos]}
  <2>1. j \in PlaceJob /\ j.at = "answer" /\ j.order \in Ids \cup {0}
    BY <1>4, KindOfJob DEF Placed, TypeOK, Linked
  <2>2. b \in SUBSET Key /\ DOMAIN j = {"at", "path", "key", "queue", "size", "pend", "bad", "order", "pos"}
    BY <2>1 DEF PlaceJob
  <2>3. task' = [task EXCEPT ![t] = [j EXCEPT !.at = "place", !.bad = b]]
    BY <1>4 DEF Placed
  <2>4. UNCHANGED <<broker, cache, latches, lotTable, ledger, fetches, owed, siblings, reenables>> /\ turn' = t
        /\ watching' = watching \cup WatchesFor(j)
    BY <1>4 DEF Placed
  <2> HIDE DEF b
  <2> DEFINE r == [j EXCEPT !.at = "place", !.bad = b]
  <2>5. r \in Job /\ r.at = "place"
    <3>1. PICK s \in PlaceJob : s = [j EXCEPT !.at = "place"]
      <4>1. "place" \in {"place", "answer"}
        OBVIOUS
      <4> QED BY <2>1, <4>1, PlaceJobFields, Zenon
    <3>2. [s EXCEPT !.bad = b] \in PlaceJob
      BY <2>2, PlaceJobFields, Zenon
    <3>3. r = [s EXCEPT !.bad = b]
      BY <3>1
    <3>4. r \in PlaceJob
      BY <3>2, <3>3, Zenon
    <3> QED BY <2>2, <3>4 DEF Job
  <2>6. watching' \subseteq Ids
    BY <1>0, <2>1, <2>4 DEF WatchesFor, TypeOK
  <2> HIDE DEF r, j
  <2>7. task' = [task EXCEPT ![t] = r]
    BY <2>3 DEF r
  <2> QED BY <1>0, <2>4, <2>5, <2>6, <2>7 DEF TypeOK, Linked, broker, latches, lotTable, ledger
<1>5. ASSUME NEW t \in Task, SymbolPlaced(t) PROVE TypeOK' /\ Linked'
  <2>1. task[t] \in PlaceJob /\ task[t].key \in Key
    <3>1. task[t] \in PlaceJob
      BY <1>5, KindOfJob DEF SymbolPlaced, TypeOK
    <3> QED BY <3>1 DEF PlaceJob
  <2>2. PICK j \in LotJob : task' = [task EXCEPT ![t] = j] /\ j.at = "lot"
    BY <1>5, <2>1, LotLoopJob DEF SymbolPlaced
  <2>3. /\ UNCHANGED <<broker, cache, exchLatch, lotTable, ledger, turn, background>>
        /\ latched' \subseteq Key
    BY <1>5 DEF SymbolPlaced, StillLatched, TypeOK
  <2> QED BY <1>0, <2>2, <2>3 DEF TypeOK, Linked, broker, lotTable, ledger, background, Job
<1>6. ASSUME NEW t \in Task, ExchangeFires(t) PROVE TypeOK' /\ Linked'
  <2>1. task[t].key \in Key
    <3>1. task[t] \in LotJob
      BY <1>6, KindOfJob DEF ExchangeFires, TypeOK
    <3> QED BY <3>1 DEF LotJob
  <2>2. PICK j \in PlaceJob : task' = [task EXCEPT ![t] = j] /\ j.at = "place"
    BY <1>6, <2>1, FiringJob DEF ExchangeFires, JustFired
  <2>3. /\ UNCHANGED <<broker, cache, lotTable, ledger, turn, background>>
        /\ latched' = Key /\ exchLatch' = TRUE
    BY <1>6 DEF ExchangeFires
  <2> QED BY <1>0, <2>2, <2>3 DEF TypeOK, Linked, broker, lotTable, ledger, background, Job
<1>7. ASSUME NEW t \in Task, ExchangePlaced(t) \/ TickEnds(t) PROVE TypeOK' /\ Linked'
  <2>1. /\ UNCHANGED <<broker, cache, lotTable, ledger, background>>
        /\ latched' \subseteq Key /\ exchLatch' \in BOOLEAN /\ turn' = NoTask /\ task' = [task EXCEPT ![t] = Resting]
    BY <1>7 DEF ExchangePlaced, TickEnds, StillLatched, TypeOK, latches
  <2> QED BY <1>0, <2>1 DEF TypeOK, Linked, broker, lotTable, ledger, background, Job, Resting
<1>8. ASSUME NEW t \in Task, NEW l \in Lot, LotFires(t, l) PROVE TypeOK' /\ Linked'
  <2> DEFINE j == task[t]
  <2>1. j \in LotJob /\ j.key \in Key /\ j.lots \ {l} \in SUBSET Lot /\ lotOpen[l] \in Nat \ {0}
    <3>1. j \in LotJob
      BY <1>8, KindOfJob DEF LotFires, TypeOK
    <3>2. l \in j.lots /\ lotOpen[l] > 0 /\ lotOpen[l] \in Nat
      BY <1>8 DEF LotFires, LotMayExit, TypeOK
    <3> HIDE DEF j
    <3> QED BY <3>1, <3>2 DEF LotJob
  <2>2. PICK r \in Placements :
          /\ orders' = Append(orders, Order(PosOf[l], l, LotExitSize(l), r[1]))
          /\ task' = [task EXCEPT ![t] =
               [at |-> "lotanswer", key |-> j.key, lots |-> j.lots \ {l},
                lot |-> l, ok |-> r[2], order |-> Len(orders) + 1]]
    BY <1>8 DEF LotFires
  <2> DEFINE x == Order(PosOf[l], l, LotExitSize(l), r[1])
  <2> DEFINE u == [at |-> "lotanswer", key |-> j.key, lots |-> j.lots \ {l},
                   lot |-> l, ok |-> r[2], order |-> Len(orders) + 1]
  <2>3. x \in ExitOrder /\ r[2] \in BOOLEAN
    <3>1. r[1] \in {"live", "rejected"} /\ r[2] \in BOOLEAN
      BY PlacementKinds
    <3> QED BY <2>1, <3>1 DEF Order, ExitOrder, OrderStatus, LotExitSize
  <2>4. u \in AnswerJob /\ u.at = "lotanswer" /\ u.order = Len(orders) + 1
    BY <1>0, <2>1, <2>3 DEF AnswerJob
  <2>5. exits' = Append(exits, "PENDING") /\ turn' = NoTask /\ lotLatch' = lotLatch \cup {l}
        /\ UNCHANGED <<net, cache, latches, lotCache, lotOpen, booked, numbered, background>>
    BY <1>8 DEF LotFires
  <2> HIDE DEF x, u
  <2>6. orders' = Append(orders, x) /\ task' = [task EXCEPT ![t] = u]
    BY <2>2 DEF x, u
  <2>7. /\ orders' \in Seq(ExitOrder) /\ exits' \in Seq(RowStatus) /\ Len(exits') = Len(orders')
        /\ Ids' = Ids \cup {Len(orders) + 1}
    BY <2>3, <2>5, <2>6, NewOrderTyped DEF RowStatus
  <2> QED BY <1>0, <2>4, <2>5, <2>6, <2>7 DEF TypeOK, Linked, latches, background, Job
<1>9. ASSUME NEW t \in Task, NEW l \in Lot, LotPasses(t, l) PROVE TypeOK' /\ Linked'
  <2>1. PICK j \in LotJob : task' = [task EXCEPT ![t] = j] /\ j.at = "lot"
    <3>1. task[t] \in LotJob
      BY <1>9, KindOfJob DEF LotPasses, TypeOK
    <3>2. [task[t] EXCEPT !.lots = task[t].lots \ {l}] \in LotJob
      BY <3>1 DEF LotJob
    <3>3. task' = [task EXCEPT ![t] = [task[t] EXCEPT !.lots = task[t].lots \ {l}]]
      BY <1>9 DEF LotPasses
    <3> QED BY <1>9, <3>2, <3>3 DEF LotJob
  <2>2. UNCHANGED <<broker, cache, latches, lotTable, ledger, turn, background>>
    BY <1>9 DEF LotPasses
  <2> QED BY <1>0, <2>1, <2>2, SMTT(30) DEF TypeOK, Linked, broker, latches, lotTable, ledger, background, Job
<1>10. ASSUME NEW t \in Task, LotPlaced(t) PROVE TypeOK' /\ Linked'
  <2> DEFINE j == task[t]
  <2>1. j \in AnswerJob /\ j.at = "lotanswer" /\ j.order \in Ids
    BY <1>10, KindOfJob DEF LotPlaced, TypeOK, Linked
  <2> DEFINE u == [at |-> "lot", key |-> j.key, lots |-> j.lots, order |-> 0]
  <2>2. u \in LotJob /\ u.at = "lot"
    BY <2>1 DEF LotJob, AnswerJob
  <2>3. exits' \in Seq(RowStatus) /\ Len(exits') = Len(exits) /\ lotLatch' \subseteq Lot
    <3>1. exits[j.order] \in RowStatus
      BY <2>1, OrderFields
    <3>2. CASE j.ok
      BY <1>10, <3>2 DEF LotPlaced, TypeOK
    <3>3. CASE ~j.ok
      <4>1. PICK x \in RowStatus : exits' = [exits EXCEPT ![j.order] = x]
        BY <1>10, <3>1, <3>3 DEF LotPlaced, RowStatus
      <4>2. exits \in Seq(RowStatus) /\ j.order \in DOMAIN exits
        BY <1>0, <2>1 DEF TypeOK
      <4>3. lotLatch' = lotLatch \ {j.lot}
        BY <1>10, <3>3 DEF LotPlaced
      <4> QED BY <4>1, <4>2, <4>3 DEF TypeOK
    <3> QED BY <3>2, <3>3
  <2>4. /\ task' = [task EXCEPT ![t] = u] /\ turn' = t
        /\ UNCHANGED <<broker, cache, latches, lotCache, lotOpen, booked, background>>
        /\ numbered' \subseteq numbered \cup {j.order}
    BY <1>10 DEF LotPlaced
  <2> HIDE DEF u
  <2> QED BY <1>0, <2>1, <2>2, <2>3, <2>4 DEF TypeOK, Linked, broker, latches, background, Job
<1>11. ASSUME NEW o \in Ids, Watcher(o) PROVE TypeOK' /\ Linked'
  <2>1. KeyOfOrder(o) \in Key
    BY OrderFields DEF KeyOfOrder
  <2>2. /\ UNCHANGED <<net, cache, lotTable, ledger, task, turn, owed, siblings, reenables>>
        /\ watching' = watching \ {o}
        /\ latched' \subseteq Key /\ exchLatch' \in BOOLEAN
        /\ orders' = orders \/ orders' = Ended(o, "cancelled")
    BY <1>11 DEF Watcher, WatcherSees, WatcherGivesUp, WatcherBlind, TypeOK, latches, broker
  <2>3. fetches' \in Seq(Request)
    <3>1. fetches' = fetches \/ fetches' = Append(fetches, Fetch({KeyOfOrder(o)}, FALSE))
      BY <1>11 DEF Watcher, WatcherSees, WatcherGivesUp, WatcherBlind
    <3>2. {KeyOfOrder(o)} \in SUBSET Key /\ FALSE \in BOOLEAN
      BY <2>1
    <3>3. Append(fetches, Fetch({KeyOfOrder(o)}, FALSE)) \in Seq(Request)
      BY <3>2, RequestTyped, Zenon
    <3> QED BY <3>1, <3>3 DEF TypeOK
  <2>4. orders' \in Seq(ExitOrder) /\ Len(orders') = Len(orders)
    <3>1. "cancelled" \in OrderStatus
      BY DEF OrderStatus
    <3>2. Kept(Ended(o, "cancelled"), o)
      BY <3>1, OrderEnds
    <3> QED BY <2>2, <3>2 DEF TypeOK, Kept
  <2>5. Ids' = Ids
    BY <1>0, <2>4
  <2> QED BY <1>0, <2>2, <2>3, <2>4, <2>5 DEF TypeOK, Linked, lotTable, ledger
<1>12. ASSUME NEW i \in DOMAIN fetches, FetchArrives(i) \/ FetchFails(i) PROVE TypeOK' /\ Linked'
  <2>1. fetches' = Without(fetches, i) /\ fetches' \in Seq(Request) /\ fetches[i] \in Request
    BY <1>12, WithoutShrinks DEF TypeOK, FetchArrives, FetchFails
  <2>2. fetches[i].snap \in [Pos -> Int] /\ fetches[i].rearm \subseteq Key /\ fetches[i].lots \in BOOLEAN
    BY <2>1 DEF Request
  <2>3. /\ UNCHANGED <<broker, ledger, task, turn, watching, owed, siblings, reenables>>
        /\ cache' \in [Pos -> Int] /\ latched' \subseteq Key /\ exchLatch' \in BOOLEAN
        /\ lotCache' \subseteq Lot /\ lotLatch' \subseteq Lot
    <3>1. CASE FetchArrives(i)
      <4>1. lotCache' \subseteq Lot /\ lotLatch' \subseteq Lot
        BY <3>1 DEF FetchArrives, TypeOK, lotTable
      <4>2. cache' = fetches[i].snap /\ latched' \subseteq latched
        BY <3>1 DEF FetchArrives
      <4>3. exchLatch' \in BOOLEAN
        BY <3>1, Zenon DEF FetchArrives
      <4>4. UNCHANGED <<broker, ledger, task, turn, watching, owed, siblings, reenables>>
        BY <3>1 DEF FetchArrives
      <4> QED BY <2>2, <4>1, <4>2, <4>3, <4>4 DEF TypeOK
    <3>2. CASE FetchFails(i)
      BY <3>2 DEF FetchFails, TypeOK, latches, lotTable
    <3> QED BY <1>12, <3>1, <3>2
  <2> QED BY <1>0, <2>1, <2>3 DEF TypeOK, Linked, broker, ledger
<1>13. ASSUME NEW k \in Key, Reenable(k) \/ Refresh PROVE TypeOK' /\ Linked'
  <2>1. fetches' \in Seq(Request)
    <3>1. fetches' = Append(fetches, Fetch({}, FALSE)) \/ fetches' = Append(fetches, Fetch({}, TRUE))
      BY <1>13 DEF Reenable, Refresh
    <3>2. {} \in SUBSET Key /\ TRUE \in BOOLEAN /\ FALSE \in BOOLEAN
      OBVIOUS
    <3>3. Append(fetches, Fetch({}, FALSE)) \in Seq(Request) /\ Append(fetches, Fetch({}, TRUE)) \in Seq(Request)
      BY <3>2, RequestTyped, Zenon
    <3> QED BY <3>1, <3>3, Zenon
  <2>2. /\ UNCHANGED <<broker, cache, exchLatch, lotTable, ledger, task, turn, watching, siblings>>
        /\ latched' \subseteq Key /\ owed' \in BOOLEAN /\ reenables' \in Nat
    <3>1. CASE Reenable(k)
      BY <3>1 DEF Reenable, TypeOK
    <3>2. CASE Refresh
      BY <3>2 DEF Refresh, TypeOK, latches
    <3> QED BY <1>13, <3>1, <3>2
  <2> QED BY <1>0, <2>1, <2>2 DEF TypeOK, Linked, broker, lotTable, ledger
<1>14. ASSUME NEW o \in Ids, BookLotExit(o) PROVE TypeOK' /\ Linked'
  <2> DEFINE l == orders[o].lot
  <2>1. l \in Lot /\ Filled(o) \in Int
    BY <1>14, OrderFields DEF BookLotExit, IsAuto, Filled
  <2>2. /\ UNCHANGED <<broker, cache, latches, lotTable, booked, numbered, task, turn, watching, fetches, reenables>>
        /\ owed' \in BOOLEAN
    BY <1>14 DEF BookLotExit, TypeOK
  <2>3. exits' \in Seq(RowStatus) /\ Len(exits') = Len(exits)
    <3>1. PICK x \in RowStatus : exits' = [exits EXCEPT ![o] = x]
      BY <1>14 DEF BookLotExit, RowStatus
    <3> QED BY <1>0, <3>1 DEF TypeOK
  <2>4. lotOpen' \in [Lot -> Nat]
    <3>1. lotOpen[l] \in Nat
      BY <2>1 DEF TypeOK
    <3>2. Filled(o) > 0 => lotOpen[l] - Lesser(lotOpen[l], Filled(o)) \in Nat
      BY <2>1, <3>1 DEF Lesser
    <3> QED BY <1>14, <3>2 DEF BookLotExit, TypeOK
  <2>5. siblings' \subseteq Ids
    <3>1. siblings' \subseteq siblings \cup SiblingsOf({l})
      BY <1>14 DEF BookLotExit
    <3> QED BY <3>1 DEF SiblingsOf, PendingOf, TypeOK
  <2>6. /\ UNCHANGED <<net, orders, cache, latched, exchLatch, lotCache, lotLatch>>
        /\ UNCHANGED <<booked, numbered, task, turn, watching, fetches, reenables>>
    BY <2>2 DEF broker, latches, lotTable
  <2>7. TypeOK'
    BY <2>2, <2>3, <2>4, <2>5, <2>6 DEF TypeOK, Ids
  <2>8. Linked'
    BY <1>0, <2>3, <2>6 DEF Linked, Ids
  <2> QED BY <2>7, <2>8
<1>15. ASSUME NEW o \in Ids, BookAutoExit(o) PROVE TypeOK' /\ Linked'
  <2>1. /\ UNCHANGED <<broker, cache, latches, lotTable, exits, numbered, task, turn, watching, fetches, reenables>>
        /\ owed' = TRUE /\ booked' = booked \cup {o}
    BY <1>15 DEF BookAutoExit
  <2>2. lotOpen' \in [Lot -> Nat]
    <3>1. ASSUME NEW l \in Lot PROVE lotOpen[l] - Closes(o, l) \in Nat
      BY ClosesLittle
    <3> QED BY <1>15, <3>1 DEF BookAutoExit
  <2>3. siblings' \subseteq Ids
    BY <1>15 DEF BookAutoExit, SiblingsOf, PendingOf, TypeOK
  <2> QED BY <1>0, <2>1, <2>2, <2>3 DEF TypeOK, Linked, broker, latches, lotTable
<1>16. ASSUME NEW o \in Ids, CancelSibling(o) PROVE TypeOK' /\ Linked'
  <2>1. /\ UNCHANGED <<net, cache, latches, lotTable, lotOpen, booked, numbered, task, turn, watching, fetches, owed, reenables>>
        /\ siblings' = siblings \ {o}
    BY <1>16 DEF CancelSibling
  <2>2. /\ orders' \in Seq(ExitOrder) /\ Len(orders') = Len(orders)
        /\ exits' \in Seq(RowStatus) /\ Len(exits') = Len(exits)
    <3>1. CASE o \in Live
      <4>1. PICK x \in RowStatus : exits' = [exits EXCEPT ![o] = x]
        BY <1>16, <3>1, OrderFields DEF CancelSibling, RowStatus
      <4>2. orders' = Ended(o, "cancelled") /\ "cancelled" \in OrderStatus
        BY <1>16, <3>1 DEF CancelSibling, OrderStatus
      <4>3. orders' \in Seq(ExitOrder) /\ Len(orders') = Len(orders)
        BY <4>2, OrderEnds DEF Kept
      <4> QED BY <1>0, <4>1, <4>3 DEF TypeOK
    <3>2. CASE o \notin Live
      BY <1>16, <3>2 DEF CancelSibling, TypeOK
    <3> QED BY <3>1, <3>2
  <2>3. Ids' = Ids
    BY <1>0, <2>2
  <2> QED BY <1>0, <2>1, <2>2, <2>3 DEF TypeOK, Linked, latches, lotTable
<1>17. ASSUME NEW o \in Ids, Fill(o) \/ BrokerKills(o) PROVE TypeOK' /\ Linked'
  <2>1. orders' \in Seq(ExitOrder) /\ Len(orders') = Len(orders) /\ net' \in [Pos -> Int]
    <3>1. CASE Fill(o)
      <4>1. PICK n \in 1..orders[o].left :
              net' = [net EXCEPT ![orders[o].pos] = @ - n] /\ orders' = Traded(o, n)
        BY <3>1 DEF Fill
      <4>2. orders[o].pos \in Pos /\ n \in Int
        BY OrderFields
      <4>3. orders' \in Seq(ExitOrder) /\ Len(orders') = Len(orders)
        BY <4>1, OrderTrades DEF Kept
      <4> QED BY <4>1, <4>2, <4>3 DEF TypeOK
    <3>2. CASE BrokerKills(o)
      <4>1. PICK st \in OrderStatus : orders' = Ended(o, st)
        BY <3>2 DEF BrokerKills, OrderStatus
      <4>2. net' = net
        BY <3>2 DEF BrokerKills
      <4> QED BY <4>1, <4>2, OrderEnds DEF TypeOK, Kept
    <3> QED BY <1>17, <3>1, <3>2
  <2>2. UNCHANGED <<cache, latches, lotTable, ledger, task, turn, background>>
    BY <1>17 DEF Fill, BrokerKills
  <2>3. Ids' = Ids
    BY <1>0, <2>1
  <2> QED BY <1>0, <2>1, <2>2, <2>3 DEF TypeOK, Linked, latches, lotTable, ledger, background
<1>18. CASE UNCHANGED vars
  BY <1>0, <1>18 DEF TypeOK, Linked, vars, broker, latches, lotTable, ledger, background
<1> QED
  <2>1. CASE \E t \in Task : NewTick(t) \/ TickStep(t)
    BY <1>1, <1>2, <1>3, <1>4, <1>5, <1>6, <1>7, <1>8, <1>9, <1>10, <2>1 DEF NewTick, TickStep
  <2>2. CASE \E o \in Ids : Watcher(o) \/ Reconcile(o) \/ Fill(o) \/ BrokerKills(o)
    BY <1>11, <1>14, <1>15, <1>16, <1>17, <2>2 DEF Reconcile
  <2>3. CASE (\E k \in Key : Reenable(k)) \/ Refresh
    <3>1. Key # {}
      BY DEF AutoExitAssumption
    <3> QED BY <1>13, <2>3, <3>1
  <2>4. CASE Fetching
    BY <1>12, <2>4 DEF Fetching
  <2> QED BY <1>18, <2>1, <2>2, <2>3, <2>4 DEF Next

LEMMA StartsTyped == Init => TypeOK /\ Linked
<1> SUFFICES ASSUME Init PROVE TypeOK /\ Linked
  OBVIOUS
<1>1. orders = <<>> /\ exits = <<>> /\ booked = {} /\ numbered = {} /\ Ids = {}
  BY DEF Init, Ids
<1>2. orders \in Seq(ExitOrder) /\ exits \in Seq(RowStatus) /\ Len(exits) = Len(orders) /\ fetches \in Seq(Request)
  BY DEF Init
<1>3. task \in [Task -> Job] /\ turn \in Task \cup {NoTask} /\ Linked
  BY DEF Init, Linked, Job, Resting
<1>4. net \in [Pos -> Int] /\ cache \in [Pos -> Int] /\ lotOpen \in [Lot -> Nat]
  <2>1. net = StartQty /\ cache = StartQty /\ lotOpen = LotQty
    BY DEF Init
  <2> QED BY <2>1
<1>5. /\ latched \subseteq Key /\ exchLatch \in BOOLEAN /\ lotCache \subseteq Lot /\ lotLatch \subseteq Lot
      /\ booked \subseteq Ids /\ numbered \subseteq Ids
      /\ watching \subseteq Ids /\ siblings \subseteq Ids
      /\ owed \in BOOLEAN /\ reenables \in Nat
  BY DEF Init
<1> QED BY <1>2, <1>3, <1>4, <1>5 DEF TypeOK

\* The dictionaries, the ledger and the coroutines keep their ranges, and whoever
\* waits for the answer to a placement waits for an order that was placed
\* (targets.py: _place_exit_orders, _auto_exit_lot).
THEOREM ExitsTyped == Spec => [](TypeOK /\ Linked)
  BY StartsTyped, Typed, PTL DEF Spec

-----------------------------------------------------------------------------
(* No fill is booked twice, save the misread ones                          *)

IsBooked(o) == exits[o] = "FILLED" \/ o \in booked

\* An order never trades more than its size; only automatic exits have no row;
\* an order that is booked has ended.
RowsOK ==
  \A o \in Ids :
    /\ orders[o].left <= orders[o].qty
    /\ IsAuto(o) <=> exits[o] = "none"
    /\ ~IsAuto(o) => orders[o].pos = PosOf[orders[o].lot]
    /\ IsBooked(o) => orders[o].st # "live"

\* What is filled and not booked yet is what the ledger shows beyond the account, what
\* is booked twice is what it lacks; what it shows beyond that is the excess.
Unbooked(p) ==
  [o \in Ids |-> IF orders[o].pos # p THEN 0
                ELSE IF ~IsBooked(o) THEN Filled(o)
                ELSE IF exits[o] = "FILLED" /\ o \in booked THEN -Filled(o) ELSE 0]
Excess(p) == LotsTotal(p) - (net[p] + SumFunctionOnSet(Unbooked(p), Ids))

\* Steps that keep the excess, and steps that may let it grow.
Level == \A p \in Pos : Excess(p)' = Excess(p)
Rises == \A p \in Pos : Excess(p)' \in Int /\ Excess(p)' >= Excess(p)
FillsCovered == \A p \in Pos : Excess(p) >= 0

LEMMA UnbookedTyped ==
  ASSUME TypeOK, RowsOK, NEW p \in Pos
  PROVE  \A o \in Ids : Filled(o) \in Nat /\ Unbooked(p)[o] \in Int
<1> SUFFICES ASSUME NEW o \in Ids PROVE Filled(o) \in Nat
  BY DEF Unbooked
<1>1. orders[o].qty \in Nat /\ orders[o].left \in Nat /\ orders[o].left <= orders[o].qty
  BY OrderFields DEF RowsOK
<1> QED BY <1>1 DEF Filled

LEMMA LotsTotalTyped == ASSUME TypeOK, NEW p \in Pos PROVE LotsTotal(p) \in Int /\ IsFiniteSet(LotsOf(p))
<1>1. IsFiniteSet(LotsOf(p)) /\ \A l \in LotsOf(p) : lotOpen[l] \in Int
  BY FS_Subset DEF LotsOf, TypeOK
<1> QED BY <1>1, SumIsInt DEF LotsTotal

LEMMA ExcessTyped == ASSUME TypeOK, RowsOK, NEW p \in Pos
                     PROVE  /\ Excess(p) \in Int /\ LotsTotal(p) \in Int /\ net[p] \in Int
                            /\ SumFunctionOnSet(Unbooked(p), Ids) \in Int
<1>1. SumFunctionOnSet(Unbooked(p), Ids) \in Int
  BY UnbookedTyped, IdsAreFinite, SumIsInt
<1>2. LotsTotal(p) \in Int /\ net[p] \in Int
  BY LotsTotalTyped DEF TypeOK
<1> QED BY <1>1, <1>2 DEF Excess

\* Steps that neither trade nor book.
LEMMA NothingBooked ==
  ASSUME TypeOK, RowsOK, Ids' = Ids, booked' = booked, net' = net, lotOpen' = lotOpen,
         \A o \in Ids :
           /\ orders'[o].pos = orders[o].pos /\ orders'[o].lot = orders[o].lot
           /\ orders'[o].qty = orders[o].qty /\ orders'[o].left = orders[o].left
           /\ orders'[o].st = "live" => orders[o].st = "live"
           /\ exits'[o] = "FILLED" <=> exits[o] = "FILLED"
           /\ exits'[o] = "none" <=> exits[o] = "none"
  PROVE  RowsOK' /\ Level
<1>1. RowsOK'
  BY DEF RowsOK, IsAuto, IsBooked
<1>2. ASSUME NEW p \in Pos PROVE LotsTotal(p)' = LotsTotal(p) /\ Unbooked(p)' = Unbooked(p)
  <2>1. LotsTotal(p)' = LotsTotal(p)
    BY DEF LotsTotal
  <2>2. \A o \in Ids : IsBooked(o)' = IsBooked(o) /\ Filled(o)' = Filled(o)
    BY DEF IsBooked, Filled
  <2> QED BY <2>1, <2>2 DEF Unbooked
<1>3. Level
  BY <1>2 DEF Level, Excess
<1> QED BY <1>1, <1>3

\* An order that has filled nothing adds nothing to what is unbooked.
LEMMA OneMoreUnfilled ==
  ASSUME NEW p \in Pos, NEW n, IsFiniteSet(Ids), n \notin Ids, Ids' = Ids \cup {n},
         \A o \in Ids : Unbooked(p)'[o] = Unbooked(p)[o] /\ Unbooked(p)[o] \in Int, Unbooked(p)'[n] = 0
  PROVE  SumFunctionOnSet(Unbooked(p)', Ids') = SumFunctionOnSet(Unbooked(p), Ids)
<1> DEFINE f == Unbooked(p)
<1> DEFINE g == Unbooked(p)'
<1>1. (\A o \in Ids : g[o] = f[o] /\ f[o] \in Int) /\ g[n] = 0
  OBVIOUS
<1> HIDE DEF f, g
<1>2. SumFunctionOnSet(g, Ids') = SumFunctionOnSet(f, Ids)
  BY <1>1, SumWithZero
<1> QED BY <1>2 DEF f, g

\* A new order has filled nothing.
LEMMA NothingFilled ==
  ASSUME TypeOK, TypeOK', RowsOK, net' = net, lotOpen' = lotOpen, booked' = booked,
         NEW x \in ExitOrder, x.left = x.qty, NEW s \in {"none", "PENDING"},
         x.lot = NoLot <=> s = "none", x.lot # NoLot => x.pos = PosOf[x.lot],
         orders' = Append(orders, x), exits' = Append(exits, s)
  PROVE  RowsOK' /\ Level
<1>1. Ids = 1..Len(orders) /\ Len(orders) \in Nat /\ IsFiniteSet(Ids) /\ Len(exits) = Len(orders)
  BY IdsAreFinite DEF TypeOK
<1>0. PICK n \in Nat : n = Len(orders) + 1
  BY <1>1
<1>2. Ids' = Ids \cup {n} /\ n \notin Ids
  BY <1>0, NewOrderTyped DEF RowStatus
<1>3. \A o \in Ids : orders'[o] = orders[o] /\ exits'[o] = exits[o]
  BY <1>1 DEF TypeOK
<1>4. orders'[n] = x /\ exits'[n] = s
  BY <1>0, <1>1 DEF TypeOK
<1>5. n \notin booked
  BY <1>2 DEF TypeOK
<1>6. RowsOK'
  <2>1. ASSUME NEW o \in Ids PROVE
          /\ orders'[o].left <= orders'[o].qty
          /\ IsAuto(o)' <=> exits'[o] = "none"
          /\ ~IsAuto(o)' => orders'[o].pos = PosOf[orders'[o].lot]
          /\ IsBooked(o)' => orders'[o].st # "live"
    BY <1>3, ZenonT(40) DEF RowsOK, IsAuto, IsBooked
  <2>2. /\ orders'[n].left <= orders'[n].qty
        /\ IsAuto(n)' <=> exits'[n] = "none"
        /\ ~IsAuto(n)' => orders'[n].pos = PosOf[orders'[n].lot]
        /\ IsBooked(n)' => orders'[n].st # "live"
    <3>1. x.left <= x.qty
      BY DEF ExitOrder
    <3>2. IsAuto(n)' <=> x.lot = NoLot
      BY <1>4 DEF IsAuto
    <3>3. ~IsBooked(n)' /\ n \notin booked'
      BY <1>4, <1>5 DEF IsBooked
    <3> QED BY <1>4, <3>1, <3>2, <3>3, Zenon
  <2> QED BY <1>2, <2>1, <2>2, Zenon DEF RowsOK
<1>7. ASSUME NEW p \in Pos PROVE Excess(p)' = Excess(p)
  <2> DEFINE f == Unbooked(p)
  <2> DEFINE g == Unbooked(p)'
  <2>1. \A o \in Ids : g[o] = f[o] /\ f[o] \in Int
    <3>1. \A o \in Ids : f[o] \in Int
      BY UnbookedTyped
    <3>2. ASSUME NEW o \in Ids PROVE g[o] = f[o]
      BY <1>2, <1>3 DEF Unbooked, IsBooked, Filled
    <3> QED BY <3>1, <3>2
  <2>2. g[n] = 0
    <3>1. Filled(n)' = x.qty - x.left
      BY <1>4, Zenon DEF Filled
    <3>2. x.qty - x.left = 0
      BY DEF ExitOrder
    <3>3. ~IsBooked(n)'
      BY <1>4, <1>5 DEF IsBooked
    <3>4. g[n] = IF orders'[n].pos # p THEN 0 ELSE Filled(n)'
      BY <1>2, <3>3 DEF Unbooked
    <3> QED BY <3>1, <3>2, <3>4, Zenon
  <2>3. LotsTotal(p)' = LotsTotal(p)
    BY DEF LotsTotal
  <2> HIDE DEF f, g
  <2>4. SumFunctionOnSet(g, Ids') = SumFunctionOnSet(f, Ids)
    <3>1. IsFiniteSet(Ids) /\ n \notin Ids /\ Ids' = Ids \cup {n}
      BY <1>1, <1>2, Zenon
    <3>2. (\A o \in Ids : Unbooked(p)'[o] = Unbooked(p)[o] /\ Unbooked(p)[o] \in Int) /\ Unbooked(p)'[n] = 0
      BY <2>1, <2>2, Zenon DEF f, g
    <3>3. SumFunctionOnSet(Unbooked(p)', Ids') = SumFunctionOnSet(Unbooked(p), Ids)
      BY <3>1, <3>2, OneMoreUnfilled, Zenon
    <3> QED BY <3>3, Zenon DEF f, g
  <2>5. Excess(p)' = LotsTotal(p)' - (net'[p] + SumFunctionOnSet(g, Ids'))
    BY Zenon DEF Excess, g
  <2>6. Excess(p) = LotsTotal(p) - (net[p] + SumFunctionOnSet(f, Ids))
    BY Zenon DEF Excess, f
  <2> QED BY <2>3, <2>4, <2>5, <2>6, Zenon
<1> QED BY <1>6, <1>7 DEF Level

\* What trades is no more the account's, and not booked yet.
LEMMA FillCovered ==
  ASSUME TypeOK, TypeOK', RowsOK, NEW o \in Ids, Fill(o)
  PROVE  RowsOK' /\ Level
<1>1. PICK n \in 1..orders[o].left :
        net' = [net EXCEPT ![orders[o].pos] = @ - n] /\ orders' = Traded(o, n)
  BY DEF Fill
<1>2. orders[o].st = "live" /\ UNCHANGED <<ledger, lotTable>>
  BY DEF Fill, Live
<1>3. /\ orders[o].pos \in Pos /\ orders[o].qty \in Nat /\ orders[o].left \in Nat
      /\ orders[o].left <= orders[o].qty /\ n \in Nat /\ n <= orders[o].left
  BY OrderFields DEF RowsOK
<1>4. Kept(orders', o) /\ orders'[o].left = orders[o].left - n
  BY <1>1, OrderTrades
<1>5. Ids' = Ids /\ IsFiniteSet(Ids)
  BY <1>4, IdsAreFinite DEF Kept, Ids
<1>6. lotOpen' = lotOpen /\ exits' = exits /\ booked' = booked
  BY <1>2 DEF ledger
<1>7. ~IsBooked(o)
  BY <1>2 DEF RowsOK
<1>8. \A q \in Ids \ {o} : orders'[q] = orders[q]
  BY <1>4 DEF Kept
<1>9. orders'[o].pos = orders[o].pos /\ orders'[o].lot = orders[o].lot /\ orders'[o].qty = orders[o].qty
  BY <1>4 DEF Kept
<1>10. RowsOK'
  <2>1. ASSUME NEW q \in Ids PROVE
          /\ orders'[q].left <= orders'[q].qty
          /\ IsAuto(q)' <=> exits'[q] = "none"
          /\ ~IsAuto(q)' => orders'[q].pos = PosOf[orders'[q].lot]
          /\ IsBooked(q)' => orders'[q].st # "live"
    <3>1. CASE q = o
      BY <1>3, <1>4, <1>6, <1>7, <1>9, <3>1 DEF RowsOK, IsAuto, IsBooked
    <3>2. CASE q # o
      BY <1>6, <1>8, <3>2 DEF RowsOK, IsAuto, IsBooked
    <3> QED BY <3>1, <3>2
  <2> QED BY <1>5, <2>1 DEF RowsOK
<1>11. ASSUME NEW p \in Pos PROVE Excess(p)' = Excess(p)
  <2> DEFINE f == Unbooked(p)
  <2> DEFINE g == Unbooked(p)'
  <2>1. \A q \in Ids : f[q] \in Int
    BY UnbookedTyped
  <2>2. \A q \in Ids \ {o} : g[q] = f[q]
    BY <1>5, <1>6, <1>8 DEF Unbooked, IsBooked, Filled
  <2>3. g[o] = IF orders[o].pos = p THEN f[o] + n ELSE f[o]
    <3>1. ~IsBooked(o)' /\ Filled(o)' = Filled(o) + n
      BY <1>3, <1>4, <1>6, <1>7, <1>9 DEF IsBooked, Filled
    <3> QED BY <1>5, <1>7, <1>9, <3>1 DEF Unbooked
  <2>4. net[p] \in Int /\ net'[p] = IF orders[o].pos = p THEN net[p] - n ELSE net[p]
    BY <1>1, <1>3 DEF TypeOK
  <2>5. LotsTotal(p)' = LotsTotal(p) /\ LotsTotal(p) \in Int
    BY <1>6, LotsTotalTyped DEF LotsTotal
  <2> HIDE DEF f, g
  <2>6. SumFunctionOnSet(g, Ids) = SumFunctionOnSet(f, Ids) - f[o] + g[o]
    <3>1. \A q \in Ids : f[q] \in Int /\ g[q] \in Int
      BY <1>3, <2>1, <2>2, <2>3
    <3> QED BY <1>5, <2>2, <3>1, SumChange
  <2>7. SumFunctionOnSet(f, Ids) \in Int /\ f[o] \in Int
    BY <1>5, <2>1, SumIsInt
  <2>8. Excess(p)' = LotsTotal(p) - (net'[p] + SumFunctionOnSet(g, Ids))
    BY <1>5, <2>5, Zenon DEF Excess, g
  <2>9. Excess(p) = LotsTotal(p) - (net[p] + SumFunctionOnSet(f, Ids))
    BY Zenon DEF Excess, f
  <2> QED BY <1>3, <2>3, <2>4, <2>5, <2>6, <2>7, <2>8, <2>9
<1> QED BY <1>10, <1>11 DEF Level

\* Booking an order, one way or the other: the excess grows by what its fills are more
\* than the lots it closes.
FilledAt(o, p) == IF orders[o].pos = p THEN Filled(o) ELSE 0
Books(o) ==
  \/ exits[o] # "FILLED" /\ exits'[o] = "FILLED" /\ (o \in booked' <=> o \in booked)
  \/ o \notin booked /\ o \in booked' /\ exits'[o] = exits[o]
LEMMA BookingCovered ==
  ASSUME TypeOK, TypeOK', RowsOK, NEW o \in Ids, Books(o),
         orders[o].st # "live", orders' = orders, net' = net,
         \A q \in Ids \ {o} : exits'[q] = exits[q] /\ (q \in booked' <=> q \in booked),
         exits[o] = "none" <=> exits'[o] = "none"
  PROVE  RowsOK' /\ \A p \in Pos : Excess(p)' = Excess(p) + (LotsTotal(p)' - (LotsTotal(p) - FilledAt(o, p)))
<1>1. Ids' = Ids /\ IsFiniteSet(Ids)
  BY IdsAreFinite DEF Ids
<1>2. RowsOK'
  <2>1. ASSUME NEW q \in Ids PROVE
          /\ orders'[q].left <= orders'[q].qty
          /\ IsAuto(q)' <=> exits'[q] = "none"
          /\ ~IsAuto(q)' => orders'[q].pos = PosOf[orders'[q].lot]
          /\ IsBooked(q)' => orders'[q].st # "live"
    BY DEF RowsOK, IsAuto, IsBooked
  <2> QED BY <1>1, <2>1 DEF RowsOK
<1>3. ASSUME NEW p \in Pos PROVE Excess(p)' = Excess(p) + (LotsTotal(p)' - (LotsTotal(p) - FilledAt(o, p)))
  <2> DEFINE f == Unbooked(p)
  <2> DEFINE g == Unbooked(p)'
  <2>1. \A q \in Ids : f[q] \in Int /\ Filled(q) \in Nat
    BY UnbookedTyped
  <2>2. \A q \in Ids \ {o} : g[q] = f[q]
    BY <1>1 DEF Unbooked, IsBooked, Filled
  <2>3. g[o] = f[o] - FilledAt(o, p) /\ FilledAt(o, p) \in Int
    <3>1. Filled(o)' = Filled(o) /\ orders'[o].pos = orders[o].pos
      BY DEF Filled
    <3>2. FilledAt(o, p) \in Int
      BY <2>1 DEF FilledAt
    <3>3. CASE orders[o].pos # p
      BY <1>1, <2>1, <3>1, <3>2, <3>3 DEF Unbooked, FilledAt
    <3>4. CASE orders[o].pos = p
      <4>1. FilledAt(o, p) = Filled(o)
        BY <3>4 DEF FilledAt
      <4>2. CASE IsBooked(o)
        <5>1. IsBooked(o)' /\ exits'[o] = "FILLED" /\ o \in booked' /\ ~(exits[o] = "FILLED" /\ o \in booked)
          BY <4>2 DEF Books, IsBooked
        <5>2. f[o] = 0 /\ g[o] = -Filled(o)
          BY <1>1, <3>1, <3>4, <4>2, <5>1 DEF Unbooked
        <5> QED BY <2>1, <4>1, <5>2
      <4>3. CASE ~IsBooked(o)
        <5>1. IsBooked(o)' /\ ~(exits'[o] = "FILLED" /\ o \in booked')
          BY <4>3 DEF Books, IsBooked
        <5>2. f[o] = Filled(o) /\ g[o] = 0
          BY <1>1, <3>1, <3>4, <4>3, <5>1 DEF Unbooked
        <5> QED BY <2>1, <4>1, <5>2
      <4> QED BY <4>2, <4>3
    <3> QED BY <3>2, <3>3, <3>4
  <2>4. net[p] \in Int
    BY DEF TypeOK
  <2>5. LotsTotal(p)' \in Int /\ LotsTotal(p) \in Int
    <3>1. lotOpen' \in [Lot -> Nat]
      BY DEF TypeOK
    <3>2. \A l \in LotsOf(p) : lotOpen'[l] \in Int
      BY <3>1 DEF LotsOf
    <3>3. IsFiniteSet(LotsOf(p)) /\ LotsTotal(p) \in Int
      BY LotsTotalTyped
    <3>4. SumFunctionOnSet(lotOpen', LotsOf(p)) \in Int
      BY <3>2, <3>3, SumIsInt, Zenon
    <3> QED BY <3>3, <3>4, Zenon DEF LotsTotal
  <2> HIDE DEF f, g
  <2>7. /\ SumFunctionOnSet(g, Ids) = SumFunctionOnSet(f, Ids) - f[o] + g[o]
        /\ SumFunctionOnSet(f, Ids) \in Int /\ f[o] \in Int
    <3>1. \A q \in Ids : f[q] \in Int /\ g[q] \in Int
      BY <2>1, <2>2, <2>3
    <3>2. SumFunctionOnSet(f, Ids) \in Int
      BY <1>1, <3>1, SumIsInt
    <3> QED BY <1>1, <2>2, <3>1, <3>2, SumChange
  <2>8. Excess(p)' = LotsTotal(p)' - (net[p] + SumFunctionOnSet(g, Ids))
    BY <1>1, Zenon DEF Excess, g
  <2>9. Excess(p) = LotsTotal(p) - (net[p] + SumFunctionOnSet(f, Ids))
    BY Zenon DEF Excess, f
  <2> QED BY <2>3, <2>4, <2>5, <2>7, <2>8, <2>9
<1> QED BY <1>2, <1>3

\* A fill booked oldest lot first closes no more shares than were filled: the youngest
\* lot it reaches takes what the older ones have left of the fill.
LEMMA ClosesFilled ==
  ASSUME TypeOK, RowsOK, NEW o \in Ids, NEW p \in Pos, p = orders[o].pos
  PROVE  SumFunctionOnSet([l \in Lot |-> Closes(o, l)], LotsOf(p)) <= Filled(o)
<1> DEFINE c == [l \in Lot |-> Closes(o, l)]
<1> DEFINE Reached == {l \in LotsOf(p) : c[l] # 0}
<1>1. IsFiniteSet(LotsOf(p)) /\ IsFiniteSet(Reached) /\ LotsOf(p) \subseteq Lot
  BY LotsTotalTyped, FS_Subset DEF LotsOf
<1>2. \A l \in Lot : c[l] \in Nat /\ lotOpen[l] \in Nat /\ c[l] <= lotOpen[l]
  <2>1. ASSUME NEW l \in Lot PROVE c[l] \in Nat /\ lotOpen[l] \in Nat /\ c[l] <= lotOpen[l]
    <3>1. Closes(o, l) \in Nat /\ lotOpen[l] - Closes(o, l) \in Nat /\ lotOpen[l] \in Nat
      BY ClosesLittle DEF TypeOK
    <3> QED BY <3>1
  <2> QED BY <2>1
<1>3. Filled(o) \in Nat
  BY UnbookedTyped
<1>4. CASE Reached = {}
  <2>1. SumFunctionOnSet(c, LotsOf(p)) = 0
    BY <1>1, <1>4, SumZeros
  <2> QED BY <1>3, <2>1
<1>5. CASE Reached # {}
  <2>1. PICK m \in Reached : \A l \in Reached : Age[m] >= Age[l]
    <3>1. \A l \in Reached : Age[l] \in Int
      BY <1>1
    <3> HIDE DEF Reached
    <3> QED BY <1>1, <1>5, <3>1, LargestIsThere
  <2>2. m \in Lot /\ PosOf[m] = p /\ c[m] # 0
    BY DEF LotsOf
  <2> DEFINE old == OlderAt(m)
  <2>3. old \subseteq LotsOf(p) /\ m \notin old /\ m \in LotsOf(p)
    BY <2>2 DEF OlderAt, LotsOf
  <2>4. \A l \in LotsOf(p) \ (old \cup {m}) : c[l] = 0
    BY <1>1, <2>1, <2>2 DEF OlderAt, LotsOf
  <2>5. c[m] <= Filled(o) - SumFunctionOnSet(lotOpen, old)
    <3> DEFINE rest == Filled(o) - SumFunctionOnSet(lotOpen, old)
    <3>1. SumFunctionOnSet(lotOpen, old) \in Int
      <4>1. IsFiniteSet(old)
        BY <1>1, <2>3, FS_Subset
      <4>2. \A l \in old : lotOpen[l] \in Int
        BY <1>1, <1>2, <2>3
      <4> HIDE DEF old
      <4> QED BY <4>1, <4>2, SumIsInt
    <3>2. rest \in Int
      BY <1>3, <3>1
    <3>3. c[m] = IF PosOf[m] # orders[o].pos \/ rest <= 0 THEN 0 ELSE Lesser(lotOpen[m], rest)
      BY <2>2 DEF Closes
    <3> HIDE DEF rest
    <3>4. c[m] <= rest
      BY <1>2, <2>2, <3>2, <3>3 DEF Lesser
    <3> QED BY <3>4 DEF rest
  <2> HIDE DEF c, old, Reached
  <2>6. IsFiniteSet(old) /\ IsFiniteSet(old \cup {m}) /\ old \cup {m} \subseteq LotsOf(p)
    BY <1>1, <2>3, FS_Subset
  <2>7. \A l \in LotsOf(p) : c[l] \in Int /\ lotOpen[l] \in Int /\ c[l] <= lotOpen[l]
    BY <1>1, <1>2
  <2>8. SumFunctionOnSet(c, LotsOf(p)) = SumFunctionOnSet(c, old \cup {m})
    BY <1>1, <2>4, <2>6, <2>7, SumPart
  <2>9. SumFunctionOnSet(c, old \cup {m}) = c[m] + SumFunctionOnSet(c, old)
    BY <2>3, <2>6, <2>7, SumAdd
  <2>10. SumFunctionOnSet(c, old) <= SumFunctionOnSet(lotOpen, old)
    BY <2>3, <2>6, <2>7, SumMonotone
  <2>11. SumFunctionOnSet(c, old) \in Int /\ SumFunctionOnSet(lotOpen, old) \in Int
    BY <2>3, <2>6, <2>7, SumIsInt
  <2>12. c[m] \in Int
    BY <2>3, <2>7
  <2>13. SumFunctionOnSet(c, LotsOf(p)) <= Filled(o)
    BY <1>3, <2>5, <2>8, <2>9, <2>10, <2>11, <2>12
  <2> QED BY <2>13 DEF c
<1> QED BY <1>4, <1>5

LEMMA LotExitCovered ==
  ASSUME TypeOK, TypeOK', RowsOK, NEW o \in Ids, BookLotExit(o), Filled(o) > 0
  PROVE  RowsOK' /\ Rises
<1> DEFINE l == orders[o].lot
<1> DEFINE took == Lesser(lotOpen[l], Filled(o))
<1>1. /\ exits' = [exits EXCEPT ![o] = "FILLED"] /\ lotOpen' = [lotOpen EXCEPT ![l] = lotOpen[l] - took]
      /\ orders' = orders /\ net' = net /\ booked' = booked /\ ~IsAuto(o) /\ Bookable(o)
  BY DEF BookLotExit, broker
<1>2. o \in DOMAIN exits /\ l \in Lot /\ orders[o].pos = PosOf[l]
  BY <1>1, IdsAreFinite, OrderFields DEF RowsOK, IsAuto
<1>3. exits[o] # "FILLED" /\ orders[o].st # "live"
  BY <1>1 DEF Bookable
<1>4. Books(o)
  BY <1>1, <1>2, <1>3 DEF Books
<1>5. \A q \in Ids \ {o} : exits'[q] = exits[q] /\ (q \in booked' <=> q \in booked)
  BY <1>1
<1>6. exits[o] = "none" <=> exits'[o] = "none"
  BY <1>1, <1>2 DEF Bookable
<1>7. ASSUME NEW p \in Pos
      PROVE  LotsTotal(p)' >= LotsTotal(p) - FilledAt(o, p) /\ LotsTotal(p)' \in Int /\ FilledAt(o, p) \in Int
  <2>1. IsFiniteSet(LotsOf(p)) /\ \A m \in LotsOf(p) : lotOpen[m] \in Int /\ lotOpen'[m] \in Int
    <3>1. lotOpen \in [Lot -> Nat] /\ lotOpen' \in [Lot -> Nat]
      BY DEF TypeOK
    <3>2. IsFiniteSet(LotsOf(p))
      BY LotsTotalTyped
    <3> QED BY <3>1, <3>2 DEF LotsOf
  <2>2. LotsTotal(p) \in Int /\ lotOpen[l] \in Nat /\ Filled(o) \in Nat
    BY <1>2, LotsTotalTyped, UnbookedTyped DEF TypeOK
  <2>3. CASE orders[o].pos # p
    <3>1. \A m \in LotsOf(p) : lotOpen'[m] = lotOpen[m]
      BY <1>1, <1>2, <2>3 DEF LotsOf, TypeOK
    <3>2. LotsTotal(p)' = LotsTotal(p)
      BY <2>1, <3>1, SumSame DEF LotsTotal
    <3> QED BY <2>2, <2>3, <3>2 DEF FilledAt
  <2>4. CASE orders[o].pos = p
    <3>1. l \in LotsOf(p) /\ \A m \in LotsOf(p) \ {l} : lotOpen[m] = lotOpen'[m]
      BY <1>1, <1>2, <2>4 DEF LotsOf, TypeOK
    <3>2. lotOpen'[l] = lotOpen[l] - took
      BY <1>1, <1>2 DEF TypeOK
    <3>3. took \in Nat /\ took <= Filled(o)
      BY <2>2 DEF Lesser
    <3> HIDE DEF took, l
    <3>4. SumFunctionOnSet(lotOpen', LotsOf(p)) = SumFunctionOnSet(lotOpen, LotsOf(p)) - lotOpen[l] + lotOpen'[l]
      BY <2>1, <3>1, SumChange
    <3>5. LotsTotal(p)' = LotsTotal(p) - took
      BY <2>2, <3>2, <3>3, <3>4 DEF LotsTotal
    <3> QED BY <2>2, <2>4, <3>3, <3>5 DEF FilledAt
  <2> QED BY <2>3, <2>4
<1>8. RowsOK' /\ \A p \in Pos : Excess(p)' = Excess(p) + (LotsTotal(p)' - (LotsTotal(p) - FilledAt(o, p)))
  BY <1>1, <1>3, <1>4, <1>5, <1>6, BookingCovered
<1>9. ASSUME NEW p \in Pos PROVE Excess(p)' \in Int /\ Excess(p)' >= Excess(p)
  <2>1. Excess(p) \in Int /\ LotsTotal(p) \in Int
    BY ExcessTyped
  <2> HIDE DEF l
  <2> QED BY <1>7, <1>8, <2>1
<1> QED BY <1>8, <1>9 DEF Rises

LEMMA AutoExitCovered ==
  ASSUME TypeOK, TypeOK', RowsOK, NEW o \in Ids, BookAutoExit(o)
  PROVE  RowsOK' /\ Rises
<1>1. /\ orders' = orders /\ net' = net /\ exits' = exits /\ booked' = booked \cup {o}
      /\ lotOpen' = [l \in Lot |-> lotOpen[l] - Closes(o, l)]
      /\ orders[o].st = "done" /\ o \notin booked
  BY DEF BookAutoExit, broker
<1>2. Books(o) /\ orders[o].st # "live"
  BY <1>1 DEF Books
<1>3. \A q \in Ids \ {o} : exits'[q] = exits[q] /\ (q \in booked' <=> q \in booked)
  BY <1>1
<1>4. ASSUME NEW p \in Pos
      PROVE  LotsTotal(p)' >= LotsTotal(p) - FilledAt(o, p) /\ LotsTotal(p)' \in Int /\ FilledAt(o, p) \in Int
  <2> DEFINE c == [l \in Lot |-> Closes(o, l)]
  <2>1. IsFiniteSet(LotsOf(p)) /\ LotsOf(p) \subseteq Lot
    BY LotsTotalTyped DEF LotsOf
  <2>2. \A m \in LotsOf(p) : lotOpen[m] \in Int /\ lotOpen'[m] \in Int /\ c[m] \in Int /\ lotOpen[m] = lotOpen'[m] + c[m]
    <3>1. ASSUME NEW m \in LotsOf(p) PROVE lotOpen[m] \in Int /\ lotOpen'[m] \in Int /\ c[m] \in Int /\ lotOpen[m] = lotOpen'[m] + c[m]
      <4>1. m \in Lot /\ lotOpen[m] \in Nat /\ Closes(o, m) \in Nat
        BY <2>1, ClosesLittle DEF TypeOK
      <4>2. lotOpen'[m] = lotOpen[m] - Closes(o, m) /\ c[m] = Closes(o, m)
        BY <1>1, <4>1
      <4> QED BY <4>1, <4>2
    <3> QED BY <3>1
  <2>3. SumFunctionOnSet(c, LotsOf(p)) <= FilledAt(o, p)
    <3>1. CASE orders[o].pos = p
      BY <3>1, ClosesFilled DEF FilledAt
    <3>2. CASE orders[o].pos # p
      <4>1. \A m \in LotsOf(p) : c[m] = 0
        BY <2>1, <3>2 DEF LotsOf, Closes
      <4>2. SumFunctionOnSet(c, LotsOf(p)) = 0
        BY <2>1, <4>1, SumZeros
      <4> QED BY <3>2, <4>2 DEF FilledAt
    <3> QED BY <3>1, <3>2
  <2> HIDE DEF c
  <2>4. SumFunctionOnSet(lotOpen, LotsOf(p)) = SumFunctionOnSet(lotOpen', LotsOf(p)) + SumFunctionOnSet(c, LotsOf(p))
    BY <2>1, <2>2, SumPlus
  <2>5. SumFunctionOnSet(lotOpen', LotsOf(p)) \in Int /\ SumFunctionOnSet(c, LotsOf(p)) \in Int
    BY <2>1, <2>2, SumIsInt
  <2>6. FilledAt(o, p) \in Nat
    BY UnbookedTyped DEF FilledAt
  <2> QED BY <2>3, <2>4, <2>5, <2>6 DEF LotsTotal
<1>5. RowsOK' /\ \A p \in Pos : Excess(p)' = Excess(p) + (LotsTotal(p)' - (LotsTotal(p) - FilledAt(o, p)))
  <2>1. exits[o] = "none" <=> exits'[o] = "none"
    BY <1>1
  <2> QED BY <1>1, <1>2, <1>3, <2>1, BookingCovered
<1>6. ASSUME NEW p \in Pos PROVE Excess(p)' \in Int /\ Excess(p)' >= Excess(p)
  <2>1. Excess(p) \in Int /\ LotsTotal(p) \in Int
    BY ExcessTyped
  <2> QED BY <1>4, <1>5, <2>1
<1> QED BY <1>5, <1>6 DEF Rises

\* No step lets the excess fall.
LEMMA LedgerMoves ==
  ASSUME TypeOK, Linked, RowsOK, [Next]_vars
  PROVE  RowsOK' /\ Rises
<1>0. TypeOK' /\ DOMAIN exits = Ids
  BY Typed, IdsAreFinite
<1>14. Level => Rises
  BY ExcessTyped DEF Level, Rises
<1>1. ASSUME UNCHANGED <<broker, ledger>> PROVE RowsOK' /\ Level
  <2>1. Ids' = Ids /\ booked' = booked /\ net' = net /\ lotOpen' = lotOpen /\ exits' = exits /\ orders' = orders
    BY <1>1 DEF Ids, broker, ledger
  <2> QED BY <2>1, NothingBooked
<1>2. ASSUME NEW t \in Task, NEW p \in Pos, PlaceOne(t, p) PROVE RowsOK' /\ Level
  <2> DEFINE q == task[t].size[p] - task[t].pend[p]
  <2>1. PICK r \in Placements : orders' = Append(orders, Order(p, NoLot, q, r[1]))
    BY <1>2 DEF PlaceOne
  <2>2. exits' = Append(exits, "none") /\ UNCHANGED <<net, lotOpen, booked>>
    BY <1>2 DEF PlaceOne
  <2> DEFINE x == Order(p, NoLot, q, r[1])
  <2>3. x \in ExitOrder
    <3>1. task[t] \in PlaceJob
      BY <1>2, KindOfJob DEF PlaceOne, TypeOK
    <3>2. task[t].size[p] \in Int /\ task[t].pend[p] \in Int
      BY <3>1 DEF PlaceJob
    <3>3. q \in Nat \ {0}
      BY <1>2, <3>2 DEF PlaceOne
    <3> HIDE DEF q
    <3> QED BY <3>3, PlacementKinds DEF Order, ExitOrder, OrderStatus
  <2>4. x.left = x.qty /\ x.lot = NoLot
    BY DEF Order
  <2> HIDE DEF x, q
  <2>5. orders' = Append(orders, x)
    BY <2>1 DEF x
  <2> QED BY <1>0, <2>2, <2>3, <2>4, <2>5, NothingFilled
<1>3. ASSUME NEW t \in Task, NEW l \in Lot, LotFires(t, l) PROVE RowsOK' /\ Level
  <2>1. PICK r \in Placements : orders' = Append(orders, Order(PosOf[l], l, LotExitSize(l), r[1]))
    BY <1>3 DEF LotFires
  <2>2. exits' = Append(exits, "PENDING") /\ UNCHANGED <<net, lotOpen, booked>>
    BY <1>3 DEF LotFires
  <2> DEFINE x == Order(PosOf[l], l, LotExitSize(l), r[1])
  <2>3. x \in ExitOrder
    <3>1. lotOpen[l] \in Nat \ {0}
      BY <1>3 DEF LotFires, LotMayExit, TypeOK
    <3> QED BY <3>1, PlacementKinds DEF Order, ExitOrder, OrderStatus, LotExitSize
  <2>4. x.left = x.qty /\ x.lot = l /\ x.pos = PosOf[l] /\ l # NoLot
    BY DEF Order
  <2> HIDE DEF x
  <2>5. orders' = Append(orders, x)
    BY <2>1 DEF x
  <2> QED BY <1>0, <2>2, <2>3, <2>4, <2>5, NothingFilled
<1>4. ASSUME NEW t \in Task, LotPlaced(t) PROVE RowsOK' /\ Level
  <2>1. UNCHANGED <<broker, lotOpen, booked>>
    BY <1>4 DEF LotPlaced
  <2>2. exits' = exits \/ exits' = [exits EXCEPT ![task[t].order] = IF @ = "PENDING" THEN "REJECTED" ELSE @]
    BY <1>4 DEF LotPlaced
  <2>3. \A o \in Ids : (exits'[o] = "FILLED" <=> exits[o] = "FILLED") /\ (exits'[o] = "none" <=> exits[o] = "none")
    BY <1>0, <2>2
  <2>4. Ids' = Ids /\ net' = net /\ lotOpen' = lotOpen /\ booked' = booked /\ orders' = orders
    BY <2>1 DEF Ids, broker
  <2> QED BY <2>3, <2>4, NothingBooked
<1>5. ASSUME NEW o \in Ids, NEW st \in OrderStatus \ {"live"}, orders' = Ended(o, st), net' = net,
             lotOpen' = lotOpen, booked' = booked,
             exits' = exits \/ exits' = [exits EXCEPT ![o] = IF @ = "PENDING" THEN "CANCELLED" ELSE @]
      PROVE  RowsOK' /\ Level
  <2>1. Kept(orders', o) /\ orders'[o].st = st /\ orders'[o].left = orders[o].left
    BY <1>5, OrderEnds
  <2>2. \A q \in Ids : (exits'[q] = "FILLED" <=> exits[q] = "FILLED") /\ (exits'[q] = "none" <=> exits[q] = "none")
    BY <1>0, <1>5
  <2>3. Ids' = Ids
    BY <1>0, <2>1, IdsAreFinite DEF Kept, Ids
  <2>4. ASSUME NEW q \in Ids PROVE
          /\ orders'[q].pos = orders[q].pos /\ orders'[q].lot = orders[q].lot
          /\ orders'[q].qty = orders[q].qty /\ orders'[q].left = orders[q].left
          /\ orders'[q].st = "live" => orders[q].st = "live"
    <3>1. CASE q = o
      BY <2>1, <3>1 DEF Kept
    <3>2. CASE q # o
      <4>1. orders'[q] = orders[q]
        BY <2>1, <3>2 DEF Kept
      <4> QED BY <4>1
    <3> QED BY <3>1, <3>2
  <2>5. net' = net /\ lotOpen' = lotOpen /\ booked' = booked
    BY <1>5
  <2> QED BY <2>2, <2>3, <2>4, <2>5, NothingBooked, Zenon
<1>6. ASSUME NEW o \in Ids, Watcher(o) PROVE RowsOK' /\ Level
  <2>1. CASE WatcherGivesUp(o)
    <3>1. orders' = Ended(o, "cancelled") /\ UNCHANGED <<net, ledger>>
      BY <2>1 DEF WatcherGivesUp
    <3>2. "cancelled" \in OrderStatus \ {"live"} /\ net' = net /\ lotOpen' = lotOpen /\ booked' = booked /\ exits' = exits
      BY <3>1 DEF OrderStatus, ledger
    <3> QED BY <1>5, <3>1, <3>2
  <2>2. CASE ~WatcherGivesUp(o)
    BY <1>1, <1>6, <2>2 DEF Watcher, WatcherSees, WatcherBlind
  <2> QED BY <2>1, <2>2
<1>7. ASSUME NEW o \in Ids, BrokerKills(o) PROVE RowsOK' /\ Level
  <2>1. PICK st \in {"cancelled", "rejected"} : orders' = Ended(o, st)
    BY <1>7 DEF BrokerKills
  <2>2. st \in OrderStatus \ {"live"} /\ net' = net /\ lotOpen' = lotOpen /\ booked' = booked /\ exits' = exits
    BY <1>7 DEF BrokerKills, OrderStatus, ledger
  <2> QED BY <1>5, <2>1, <2>2
<1>8. ASSUME NEW o \in Ids, CancelSibling(o) PROVE RowsOK' /\ Level
  <2>1. CASE o \in Live
    <3>1. /\ orders' = Ended(o, "cancelled")
          /\ exits' = [exits EXCEPT ![o] = IF @ = "PENDING" THEN "CANCELLED" ELSE @]
          /\ net' = net /\ lotOpen' = lotOpen /\ booked' = booked
      BY <1>8, <2>1 DEF CancelSibling
    <3>2. "cancelled" \in OrderStatus \ {"live"}
      BY DEF OrderStatus
    <3> QED BY <1>5, <3>1, <3>2
  <2>2. CASE o \notin Live
    BY <1>1, <1>8, <2>2 DEF CancelSibling, broker, ledger
  <2> QED BY <2>1, <2>2
<1>9. ASSUME NEW o \in Ids, BookLotExit(o) PROVE RowsOK' /\ Rises
  <2>1. CASE Filled(o) > 0
    BY <1>0, <1>9, <2>1, LotExitCovered
  <2>2. CASE ~(Filled(o) > 0)
    <3>1. /\ exits' = [exits EXCEPT ![o] = IF orders[o].st = "rejected" THEN "REJECTED" ELSE "CANCELLED"]
          /\ lotOpen' = lotOpen /\ UNCHANGED <<broker, booked>> /\ Bookable(o)
      BY <1>9, <2>2 DEF BookLotExit
    <3>2. exits[o] \notin {"none", "FILLED"}
      BY <3>1 DEF Bookable
    <3>3. \A q \in Ids : (exits'[q] = "FILLED" <=> exits[q] = "FILLED") /\ (exits'[q] = "none" <=> exits[q] = "none")
      BY <1>0, <3>1, <3>2
    <3>4. Ids' = Ids /\ net' = net /\ lotOpen' = lotOpen /\ booked' = booked /\ orders' = orders
      BY <3>1 DEF Ids, broker
    <3> QED BY <1>0, <1>14, <3>3, <3>4, NothingBooked
  <2> QED BY <2>1, <2>2
<1>10. CASE \E t \in Task : NewTick(t) \/ TickStep(t)
  <2>1. PICK t \in Task : NewTick(t) \/ TickStep(t)
    BY <1>10
  <2>2. CASE NewTick(t)
    BY <1>1, <1>14, <2>2 DEF NewTick, SymbolFires, SymbolPasses
  <2>3. CASE TickStep(t)
    <3>1. CASE \E p \in Pos : PlaceCovered(t, p) \/ PlaceOne(t, p)
      BY <1>1, <1>2, <1>14, <3>1 DEF PlaceCovered
    <3>2. CASE \E l \in Lot : LotFires(t, l) \/ LotPasses(t, l)
      BY <1>1, <1>3, <1>14, <3>2 DEF LotPasses
    <3>3. CASE Placed(t) \/ SymbolPlaced(t) \/ ExchangeFires(t) \/ ExchangePlaced(t) \/ TickEnds(t)
      BY <1>1, <1>14, <3>3 DEF Placed, SymbolPlaced, ExchangeFires, ExchangePlaced, TickEnds
    <3> QED BY <1>4, <1>14, <2>3, <3>1, <3>2, <3>3 DEF TickStep
  <2> QED BY <2>1, <2>2, <2>3
<1>11. CASE \E o \in Ids : Watcher(o) \/ Reconcile(o) \/ Fill(o) \/ BrokerKills(o)
  <2>1. PICK o \in Ids : Watcher(o) \/ Reconcile(o) \/ Fill(o) \/ BrokerKills(o)
    BY <1>11
  <2>2. BookAutoExit(o) => RowsOK' /\ Rises
    BY <1>0, AutoExitCovered
  <2>3. Fill(o) => RowsOK' /\ Level
    BY <1>0, FillCovered
  <2> QED BY <1>6, <1>7, <1>8, <1>9, <1>14, <2>1, <2>2, <2>3 DEF Reconcile
<1>12. CASE (\E k \in Key : Reenable(k)) \/ Fetching \/ Refresh
  BY <1>1, <1>12, <1>14 DEF Reenable, Fetching, FetchArrives, FetchFails, Refresh
<1>13. CASE UNCHANGED vars
  BY <1>1, <1>13, <1>14 DEF vars
<1> QED BY <1>10, <1>11, <1>12, <1>13, <1>14 DEF Next

LEMMA FillsStayCovered ==
  TypeOK /\ Linked /\ RowsOK /\ FillsCovered /\ [Next]_vars => RowsOK' /\ FillsCovered'
<1> SUFFICES ASSUME TypeOK, Linked, RowsOK, FillsCovered, [Next]_vars PROVE RowsOK' /\ FillsCovered'
  OBVIOUS
<1>1. RowsOK' /\ Rises /\ TypeOK'
  BY LedgerMoves, Typed
<1>2. \A p \in Pos : Excess(p) \in Int
  BY ExcessTyped
<1> QED BY <1>1, <1>2 DEF FillsCovered, Rises

\* Where no excess is lacking, what the ledger lacks was booked twice.
LEMMA CountedFills ==
  ASSUME TypeOK, RowsOK, FillsCovered, NEW p \in Pos
  PROVE  LotsTotal(p) + BookedTwice(p) >= net[p]
<1> DEFINE f == Unbooked(p)
           w == [o \in Ids |-> IF o \in TwiceAt(p) THEN Filled(o) ELSE 0]
           c == [o \in Ids |-> f[o] + w[o]]
<1>1. IsFiniteSet(Ids) /\ TwiceAt(p) \subseteq Ids
  BY IdsAreFinite DEF TwiceAt, TypeOK
<1>2. ASSUME NEW o \in Ids PROVE f[o] \in Int /\ w[o] \in Int /\ c[o] = f[o] + w[o] /\ c[o] \in Nat
  <2>1. Filled(o) \in Nat /\ f[o] \in Int
    BY UnbookedTyped
  <2>2. o \in TwiceAt(p) <=> (o \in booked /\ exits[o] = "FILLED" /\ orders[o].pos = p)
    BY DEF TwiceAt
  <2>3. o \in TwiceAt(p) => f[o] = -Filled(o)
    BY <2>2 DEF Unbooked, IsBooked
  <2>4. o \notin TwiceAt(p) => f[o] \in Nat
    BY <2>1, <2>2 DEF Unbooked
  <2> QED BY <2>1, <2>3, <2>4
<1>3. SumFunctionOnSet(w, TwiceAt(p)) = BookedTwice(p)
  <2>1. \A o \in TwiceAt(p) : w[o] = Fills[o]
    BY <1>1 DEF Fills
  <2>2. IsFiniteSet(TwiceAt(p))
    BY <1>1, FS_Subset
  <2> HIDE DEF w
  <2> QED BY <2>1, <2>2, SumSame DEF BookedTwice
<1>4. \A o \in Ids \ TwiceAt(p) : w[o] = 0
  OBVIOUS
<1>5. Excess(p) = LotsTotal(p) - (net[p] + SumFunctionOnSet(f, Ids)) /\ LotsTotal(p) \in Int /\ net[p] \in Int
  BY ExcessTyped, Zenon DEF Excess
<1> HIDE DEF f, w, c
<1>6. SumFunctionOnSet(w, Ids) = BookedTwice(p)
  BY <1>1, <1>2, <1>3, <1>4, SumPart
<1>7. SumFunctionOnSet(c, Ids) = SumFunctionOnSet(f, Ids) + SumFunctionOnSet(w, Ids)
  BY <1>1, <1>2, SumPlus
<1>8. SumFunctionOnSet(c, Ids) \in Nat /\ SumFunctionOnSet(f, Ids) \in Int /\ SumFunctionOnSet(w, Ids) \in Int
  BY <1>1, <1>2, SumNonNegative, SumIsInt
<1> QED BY <1>5, <1>6, <1>7, <1>8 DEF FillsCovered

\* Every fill is counted once, and none more than twice: where the lots of a position
\* stand for at least what the account held at the start, the ledger is short of the
\* account by no more than the fills of lot exits that a pass over the order book met
\* before their number was stored and whose own row booked them too, through partial
\* fills, cancelled and rejected orders, lost answers, late answers of the broker and
\* re-enabled targets (_reconcile_lots_from_orderbook_impl, _reconcile_untagged_fills).
THEOREM FillsAreCounted ==
  ASSUME \A p \in Pos : SumFunctionOnSet(LotQty, LotsOf(p)) >= StartQty[p]
  PROVE  Spec => []FillsCounted
<1>1. Init => TypeOK /\ Linked /\ RowsOK /\ FillsCovered
  <2> SUFFICES ASSUME Init PROVE RowsOK /\ FillsCovered
    BY StartsTyped
  <2>1. Ids = {} /\ net = StartQty /\ lotOpen = LotQty
    BY DEF Init, Ids
  <2>2. \A p \in Pos : SumFunctionOnSet(Unbooked(p), Ids) = 0
    BY <2>1, SumEmpty
  <2>3. \A p \in Pos : net[p] \in Int /\ LotsTotal(p) \in Int
    BY StartsTyped, LotsTotalTyped, <2>1
  <2> QED BY <2>1, <2>2, <2>3 DEF RowsOK, FillsCovered, Excess, LotsTotal
<1>2. TypeOK /\ RowsOK /\ FillsCovered => FillsCounted
  BY CountedFills DEF FillsCounted
<1> QED BY <1>1, <1>2, Typed, FillsStayCovered, PTL DEF Spec

-----------------------------------------------------------------------------
(* Symbol and exchange targets implement the exit desk                     *)

\* The targets are those of symbols and of the exchange, a contract is held as one
\* position, and the broker answers every placement truly and its position requests
\* in order.
SymbolTargetsOnly ==
  /\ LotTargets = {} /\ MaxReenables = 0
  /\ "placement_lost" \notin Faults /\ "late_snapshot" \notin Faults
  /\ \A p, q \in Pos : KeyOf[p] = KeyOf[q] => p = q

PlainOrders ==
  \A o \in Ids :
    /\ IsAuto(o) /\ exits[o] = "none" /\ orders[o].left <= orders[o].qty
    /\ orders[o].st = "live" => orders[o].left > 0
    /\ orders[o].st = "rejected" => orders[o].left = orders[o].qty

PlainTasks ==
  \A t \in Task :
    /\ task[t].at # "lotanswer"
    /\ task[t].at = "lot" => task[t].lots = {}
    /\ task[t].at = "answer" /\ task[t].order # 0 => orders[task[t].order].pos = task[t].pos

Plain == lotCache = {} /\ siblings = {} /\ reenables = 0 /\ PlainOrders /\ PlainTasks

\* Who may still sell or re-arm a position: a coroutine with it in its queue, waiting
\* for the answer to its order or about to un-latch it; an order that is watched, or
\* works at the broker with nobody watching; a request whose answer re-arms it.
InPlacing(j) == j.at \in {"place", "answer"}
AsksFor(j, p) == j.at = "answer" /\ j.pos = p
Asks(j, o) == j.at = "answer" /\ j.order = o
HasIt(j, p) == InPlacing(j) /\ (p \in j.queue \/ KeyOf[p] \in j.bad \/ AsksFor(j, p))
Asked(o) == \E t \in Task : Asks(task[t], o)
Sellers(p) == {t \in Task : HasIt(task[t], p)}
Orders(p) ==
  {o \in Ids : orders[o].pos = p /\ (o \in watching \/ (orders[o].st = "live" /\ ~Asked(o)))}
Rearming(p) == {i \in DOMAIN fetches : KeyOf[p] \in fetches[i].rearm}
Only(p, T, O, F) == Sellers(p) = T /\ Orders(p) = O /\ Rearming(p) = F

\* What the gateway believes of a position, or will when the answers from the i-th
\* on arrive, is no more than is held.
FreshFrom(i, p) == \A k \in DOMAIN fetches : k >= i => fetches[k].snap[p] <= net[p]
Fresh(p) == cache[p] <= net[p] /\ FreshFrom(1, p)
Whole(o, p) == orders[o].left = orders[o].qty => Fresh(p)

\* The turns of a position: at most one of those above has it, latched throughout,
\* and it is given back, or re-armed, only with quantities that are fresh.
Due(j, p) ==
  /\ p \in j.queue /\ KeyOf[p] \notin j.bad /\ ~AsksFor(j, p)
  /\ Fresh(p) /\ 0 < j.size[p] /\ j.size[p] <= net[p] /\ j.pend[p] = 0
Asking(j, p) ==
  /\ AsksFor(j, p) /\ p \notin j.queue /\ KeyOf[p] \notin j.bad
  /\ IF j.order = 0 THEN Fresh(p) ELSE Whole(j.order, p)
Failed(j, p) == KeyOf[p] \in j.bad /\ p \notin j.queue /\ ~AsksFor(j, p) /\ Fresh(p)
Selling(j, p) == Due(j, p) \/ Asking(j, p) \/ Failed(j, p)

Latched(p) == KeyOf[p] \in latched
Idle(p) == Only(p, {}, {}, {}) /\ (Latched(p) \/ Fresh(p))
Sold(t, p) == Only(p, {t}, {}, {}) /\ Latched(p) /\ Selling(task[t], p)
Watched(o, p) == Only(p, {}, {o}, {}) /\ Latched(p) /\ Whole(o, p)
Awaited(i, p) == Only(p, {}, {}, {i}) /\ Latched(p) /\ FreshFrom(i, p)
OneTurn(p) ==
  \/ Idle(p)
  \/ \E t \in Task : Sold(t, p)
  \/ \E o \in Ids : Watched(o, p)
  \/ \E i \in DOMAIN fetches : Awaited(i, p)
InTurn == \A p \in Pos : OneTurn(p)

Exclusive == TypeOK /\ Linked /\ Plain /\ InTurn

\* Steps that leave those who have the position, and what they know of it, alone.
LEMMA TurnKept ==
  ASSUME NEW p \in Pos, OneTurn(p), Ids \subseteq Ids',
         Sellers(p)' = Sellers(p), Orders(p)' = Orders(p), Rearming(p) = {} => Rearming(p)' = {},
         Latched(p) => Latched(p)', Fresh(p) => Fresh(p)',
         \A i \in DOMAIN fetches : Awaited(i, p) => \E k \in DOMAIN fetches' : Awaited(k, p)',
         \A o \in Orders(p) : Whole(o, p) => Whole(o, p)',
         \A t \in Sellers(p) : Selling(task[t], p) => Selling(task[t], p)'
  PROVE  OneTurn(p)'
<1>1. CASE Idle(p)
  <2>1. Idle(p)'
    BY <1>1 DEF Idle, Only
  <2> QED BY <2>1 DEF OneTurn
<1>2. ASSUME NEW t \in Task, Sold(t, p) PROVE OneTurn(p)'
  <2>1. Selling(task[t], p)'
    BY <1>2 DEF Sold, Only
  <2>2. Sold(t, p)'
    BY <1>2, <2>1 DEF Sold, Only
  <2> QED BY <2>2 DEF OneTurn
<1>3. ASSUME NEW o \in Ids, Watched(o, p) PROVE OneTurn(p)'
  <2>1. Watched(o, p)' /\ o \in Ids'
    BY <1>3 DEF Watched, Only
  <2> QED BY <2>1 DEF OneTurn
<1>4. ASSUME NEW i \in DOMAIN fetches, Awaited(i, p) PROVE OneTurn(p)'
  <2>1. \E k \in DOMAIN fetches' : Awaited(k, p)'
    BY <1>4
  <2> QED BY <2>1 DEF OneTurn
<1> QED BY <1>1, <1>2, <1>3, <1>4 DEF OneTurn

\* A coroutine moves on; an order of another position may be placed.
LEMMA TaskMoves ==
  ASSUME TypeOK, Linked, PlainTasks, NEW p \in Pos, OneTurn(p),
         NEW t \in Task, NEW j, task' = [task EXCEPT ![t] = j],
         net' = net, cache' = cache, fetches' = fetches, Ids \subseteq Ids',
         \A o \in Ids : orders'[o] = orders[o],
         \A o \in Ids' \ Ids : orders'[o].pos # p,
         HasIt(j, p) <=> HasIt(task[t], p), ~AsksFor(j, p),
         \A o \in Ids : orders[o].pos = p =>
           (o \in watching' <=> o \in watching) /\ (Asks(j, o) <=> Asks(task[t], o)),
         HasIt(task[t], p) /\ Selling(task[t], p) => Selling(j, p),
         Latched(p) => Latched(p)'
  PROVE  OneTurn(p)'
<1>0. task'[t] = j /\ \A u \in Task \ {t} : task'[u] = task[u]
  BY DEF TypeOK
<1>1. Sellers(p)' = Sellers(p)
  <2>1. ASSUME NEW u \in Task PROVE HasIt(task'[u], p) <=> HasIt(task[u], p)
    BY <1>0
  <2>2. Sellers(p)' = {u \in Task : HasIt(task'[u], p)}
    BY DEF Sellers, HasIt, InPlacing, AsksFor
  <2> QED BY <2>1, <2>2 DEF Sellers
<1>2. Orders(p)' = Orders(p)
  <2>1. ASSUME NEW o \in Ids, orders[o].pos = p PROVE Asked(o)' <=> Asked(o)
    <3>1. Asks(j, o) <=> Asks(task[t], o)
      BY <2>1
    <3>2. \A u \in Task : Asks(task'[u], o) <=> Asks(task[u], o)
      BY <1>0, <3>1
    <3>3. Asked(o)' <=> \E u \in Task : Asks(task'[u], o)
      BY DEF Asked, Asks
    <3> QED BY <3>2, <3>3 DEF Asked
  <2> QED BY <2>1 DEF Orders
<1>3. Rearming(p)' = Rearming(p)
  BY DEF Rearming
<1>4. /\ Fresh(p) <=> Fresh(p)'
      /\ \A i \in DOMAIN fetches : FreshFrom(i, p) <=> FreshFrom(i, p)'
      /\ \A o \in Ids : Whole(o, p) <=> Whole(o, p)'
  BY DEF Fresh, FreshFrom, Whole
<1>5. ASSUME NEW u \in Sellers(p), Selling(task[u], p) PROVE Selling(task[u], p)'
  <2>1. Selling(task'[u], p)
    BY <1>0, <1>5 DEF Sellers
  <2>2. u \in Task
    BY DEF Sellers
  <2>3. AsksFor(task'[u], p) /\ task'[u].order # 0 => task'[u].order \in Ids
    <3>1. CASE u = t
      BY <1>0, <3>1
    <3>2. CASE u # t
      BY <1>0, <2>2, <3>2 DEF Linked, AsksFor
    <3> QED BY <3>1, <3>2
  <2>4. CASE Due(task'[u], p)
    BY <1>4, <2>4 DEF Selling, Due, AsksFor
  <2>5. CASE Failed(task'[u], p)
    BY <1>4, <2>5 DEF Selling, Failed, AsksFor
  <2>6. CASE Asking(task'[u], p)
    BY <1>4, <2>3, <2>6 DEF Selling, Asking, AsksFor
  <2> QED BY <2>1, <2>4, <2>5, <2>6 DEF Selling
<1>6. ASSUME NEW i \in DOMAIN fetches, Awaited(i, p) PROVE Awaited(i, p)' /\ i \in DOMAIN fetches'
  BY <1>1, <1>2, <1>3, <1>4, <1>6 DEF Awaited, Only
<1>7. \A o \in Orders(p) : Whole(o, p) => Whole(o, p)'
  BY <1>4 DEF Orders
<1> QED BY <1>1, <1>2, <1>3, <1>4, <1>5, <1>6, <1>7, TurnKept

\* Orders of other positions change, and requests are sent that re-arm others.
LEMMA OthersMove ==
  ASSUME TypeOK, Linked, PlainTasks, NEW p \in Pos, OneTurn(p), task' = task, cache' = cache,
         net'[p] = net[p], Ids' = Ids,
         \A o \in Ids : /\ orders'[o].pos = orders[o].pos
                        /\ orders[o].pos = p => orders'[o] = orders[o]
                                                /\ (o \in watching' <=> o \in watching),
         \/ fetches' = fetches
         \/ \E r \in Request : fetches' = Append(fetches, r) /\ r.snap[p] <= net[p] /\ KeyOf[p] \notin r.rearm,
         Latched(p) => Latched(p)'
  PROVE  OneTurn(p)'
<1>1. Sellers(p)' = Sellers(p)
  BY DEF Sellers, HasIt, InPlacing, AsksFor
<1>2. Orders(p)' = Orders(p)
  BY DEF Orders, Asked, Asks
<1>3. /\ DOMAIN fetches \subseteq DOMAIN fetches' /\ DOMAIN fetches \subseteq Nat
      /\ \A i \in DOMAIN fetches : fetches'[i] = fetches[i]
      /\ \A i \in DOMAIN fetches' \ DOMAIN fetches : fetches'[i].snap[p] <= net[p] /\ KeyOf[p] \notin fetches'[i].rearm
  <2>1. CASE fetches' = fetches
    BY <2>1 DEF TypeOK
  <2>2. ASSUME NEW r \in Request, fetches' = Append(fetches, r), r.snap[p] <= net[p], KeyOf[p] \notin r.rearm
        PROVE <1>3!:
    BY <2>2 DEF TypeOK
  <2> QED BY <2>1, <2>2
<1>4. Rearming(p)' = Rearming(p)
  BY <1>3 DEF Rearming
<1>5. ASSUME NEW i \in Int, FreshFrom(i, p) PROVE FreshFrom(i, p)'
  BY <1>3, <1>5 DEF FreshFrom
<1>6. Fresh(p) => Fresh(p)'
  BY <1>5 DEF Fresh
<1>7. ASSUME NEW o \in Ids, orders[o].pos = p, Whole(o, p) PROVE Whole(o, p)'
  BY <1>6, <1>7 DEF Whole
<1>8. ASSUME NEW t \in Sellers(p), Selling(task[t], p) PROVE Selling(task[t], p)'
  <2>1. t \in Task
    BY DEF Sellers
  <2>2. CASE Due(task[t], p)
    BY <1>6, <2>2 DEF Selling, Due, AsksFor
  <2>3. CASE Failed(task[t], p)
    BY <1>6, <2>3 DEF Selling, Failed, AsksFor
  <2>4. CASE Asking(task[t], p)
    <3>1. task[t].order # 0 => task[t].order \in Ids /\ orders[task[t].order].pos = p
      BY <2>1, <2>4 DEF Asking, AsksFor, Linked, PlainTasks
    <3>2. task[t].order # 0 => Whole(task[t].order, p)'
      BY <1>7, <2>4, <3>1 DEF Asking
    <3> QED BY <1>6, <2>4, <3>2 DEF Selling, Asking, AsksFor
  <2> QED BY <1>8, <2>2, <2>3, <2>4 DEF Selling
<1>9. ASSUME NEW i \in DOMAIN fetches, Awaited(i, p) PROVE Awaited(i, p)' /\ i \in DOMAIN fetches'
  <2>1. i \in Int /\ FreshFrom(i, p)
    BY <1>3, <1>9 DEF Awaited
  <2> QED BY <1>1, <1>2, <1>3, <1>4, <1>5, <1>9, <2>1 DEF Awaited, Only
<1>10. \A o \in Orders(p) : Whole(o, p) => Whole(o, p)'
  BY <1>7 DEF Orders
<1> QED BY <1>1, <1>2, <1>4, <1>6, <1>8, <1>9, <1>10, TurnKept

\* The requests left when one is answered.
LEMMA OneRequestLess ==
  ASSUME TypeOK, NEW i \in DOMAIN fetches, fetches' = Without(fetches, i)
  PROVE  /\ DOMAIN fetches = 1..Len(fetches) /\ Len(fetches) \in Nat /\ DOMAIN fetches' = 1..Len(fetches) - 1
         /\ \A k \in 1..Len(fetches) - 1 : fetches'[k] = IF k < i THEN fetches[k] ELSE fetches[k + 1]
<1>1. fetches \in Seq(Request)
  BY DEF TypeOK
<1>2. PICK s \in Seq(Request) : s = fetches
  BY <1>1
<1>3. PICK w : w = Without(s, i)
  OBVIOUS
<1>4. i \in DOMAIN s
  BY <1>2
<1>5. /\ DOMAIN s = 1..Len(s) /\ Len(s) \in Nat /\ DOMAIN w = 1..Len(s) - 1
      /\ \A k \in 1..Len(s) - 1 : w[k] = IF k < i THEN s[k] ELSE s[k + 1]
  BY <1>3, <1>4, OneLess
<1>6. w = fetches'
  BY <1>2, <1>3
<1> QED BY <1>2, <1>5, <1>6, Zenon

\* A request is answered or fails; those sent after it move up.
LEMMA RequestGone ==
  ASSUME TypeOK, NEW p \in Pos, OneTurn(p), NEW i \in DOMAIN fetches, fetches' = Without(fetches, i),
         task' = task, orders' = orders, watching' = watching, net' = net,
         cache' = cache \/ (i = 1 /\ cache' = fetches[i].snap),
         KeyOf[p] \notin fetches[i].rearm, Latched(p) => Latched(p)'
  PROVE  OneTurn(p)'
<1>1. /\ DOMAIN fetches = 1..Len(fetches) /\ Len(fetches) \in Nat /\ DOMAIN fetches' = 1..Len(fetches) - 1
      /\ \A k \in 1..Len(fetches) - 1 : fetches'[k] = IF k < i THEN fetches[k] ELSE fetches[k + 1]
  BY OneRequestLess
<1>2. Sellers(p)' = Sellers(p) /\ Orders(p)' = Orders(p) /\ Ids' = Ids
  BY DEF Sellers, HasIt, InPlacing, AsksFor, Orders, Asked, Asks, Ids
<1>3. Rearming(p) = {} => Rearming(p)' = {}
  <2>1. ASSUME NEW k \in 1..Len(fetches) - 1
        PROVE  \E h \in 1..Len(fetches) : fetches'[k] = fetches[h]
    <3>1. k \in 1..Len(fetches) /\ k + 1 \in 1..Len(fetches)
      <4>1. Len(fetches) \in Nat
        BY <1>1
      <4> QED BY <4>1
    <3> QED BY <1>1, <3>1
  <2>2. DOMAIN fetches = 1..Len(fetches) /\ DOMAIN fetches' = 1..Len(fetches) - 1
    BY <1>1
  <2>3. ASSUME Rearming(p) = {}, NEW k \in Rearming(p)' PROVE FALSE
    BY <2>1, <2>2, <2>3 DEF Rearming
  <2> QED BY <2>3, Zenon
<1>4. Fresh(p) => Fresh(p)'
  <2> SUFFICES ASSUME Fresh(p) PROVE Fresh(p)'
    OBVIOUS
  <2>1. \A h \in 1..Len(fetches) : fetches[h].snap[p] <= net[p]
    <3>1. DOMAIN fetches = 1..Len(fetches) /\ \A h \in 1..Len(fetches) : h >= 1
      BY <1>1
    <3> QED BY <3>1 DEF Fresh, FreshFrom
  <2>2. ASSUME NEW k \in 1..Len(fetches) - 1 PROVE fetches'[k].snap[p] <= net[p]
    <3>1. k \in 1..Len(fetches) /\ k + 1 \in 1..Len(fetches)
      <4>1. Len(fetches) \in Nat
        BY <1>1
      <4> QED BY <4>1
    <3> QED BY <1>1, <2>1, <3>1
  <2>3. cache'[p] <= net[p]
    BY <1>1, <2>1 DEF Fresh
  <2> QED BY <1>1, <2>2, <2>3 DEF Fresh, FreshFrom
<1>5. \A o \in Orders(p) : Whole(o, p) => Whole(o, p)'
  BY <1>4 DEF Whole
<1>6. \A t \in Sellers(p) : Selling(task[t], p) => Selling(task[t], p)'
  BY <1>4 DEF Selling, Due, Asking, Failed, Whole, AsksFor
<1>7. ASSUME NEW m \in DOMAIN fetches, Awaited(m, p) PROVE \E k \in DOMAIN fetches' : Awaited(k, p)'
  <2> DEFINE k == IF m < i THEN m ELSE m - 1
  <2>1. Rearming(p) = {m} /\ m # i /\ KeyOf[p] \in fetches[m].rearm
    BY <1>7 DEF Awaited, Only, Rearming
  <2>2. k \in 1..Len(fetches) - 1
    BY <1>1, <2>1
  <2>3. Rearming(p)' = {k}
    <3> SUFFICES ASSUME NEW n \in 1..Len(fetches) - 1 PROVE KeyOf[p] \in fetches'[n].rearm <=> n = k
      BY <1>1, <2>2 DEF Rearming
    <3>1. \A h \in 1..Len(fetches) : KeyOf[p] \in fetches[h].rearm <=> h = m
      BY <1>1, <2>1 DEF Rearming
    <3>2. CASE n < i
      BY <1>1, <2>1, <3>1, <3>2
    <3>3. CASE ~(n < i)
      <4>1. n + 1 \in 1..Len(fetches) /\ fetches'[n] = fetches[n + 1]
        BY <1>1, <3>3
      <4>2. n + 1 = m <=> n = k
        BY <1>1, <2>1, <3>3
      <4> QED BY <3>1, <4>1, <4>2
    <3> QED BY <3>2, <3>3
  <2>4. FreshFrom(k, p)'
    <3>1. FreshFrom(m, p)
      BY <1>7 DEF Awaited
    <3> SUFFICES ASSUME NEW n \in 1..Len(fetches) - 1, n >= k PROVE fetches'[n].snap[p] <= net[p]
      BY <1>1 DEF FreshFrom
    <3>2. PICK h \in DOMAIN fetches : fetches'[n] = fetches[h] /\ h >= m
      <4>0. m \in Int /\ i \in Int /\ n >= (IF m < i THEN m ELSE m - 1)
        BY <1>1
      <4>1. CASE n < i
        <5>1. n \in DOMAIN fetches /\ fetches'[n] = fetches[n] /\ n >= m
          BY <1>1, <2>1, <4>0, <4>1
        <5> QED BY <5>1
      <4>2. CASE ~(n < i)
        <5>1. n + 1 \in DOMAIN fetches /\ fetches'[n] = fetches[n + 1] /\ n + 1 >= m
          BY <1>1, <2>1, <4>0, <4>2
        <5> QED BY <5>1
      <4> QED BY <4>1, <4>2
    <3> QED BY <3>1, <3>2 DEF FreshFrom
  <2>5. Only(p, {}, {}, {k})' /\ Latched(p)'
    BY <1>2, <1>7, <2>3 DEF Awaited, Only
  <2> HIDE DEF k
  <2> QED BY <1>1, <2>2, <2>4, <2>5 DEF Awaited
<1> QED BY <1>2, <1>3, <1>4, <1>5, <1>6, <1>7, TurnKept

\* Whoever has the position is the one whose turn it is.
LEMMA TurnOf ==
  ASSUME NEW p \in Pos, OneTurn(p)
  PROVE  /\ \A t \in Task : HasIt(task[t], p) => Sold(t, p)
         /\ \A o \in Ids : o \in Orders(p) => Watched(o, p)
         /\ \A i \in DOMAIN fetches : i \in Rearming(p) => Awaited(i, p)
         /\ ~Latched(p) => Idle(p) /\ Fresh(p)
<1>1. CASE Idle(p)
  BY <1>1 DEF Idle, Only, Sellers
<1>2. ASSUME NEW t \in Task, Sold(t, p)
      PROVE  /\ \A u \in Task : HasIt(task[u], p) => u = t
             /\ Orders(p) = {} /\ Rearming(p) = {} /\ Latched(p)
  BY <1>2 DEF Sold, Only, Sellers
<1>3. ASSUME NEW o \in Ids, Watched(o, p)
      PROVE  (\A t \in Task : ~HasIt(task[t], p)) /\ Orders(p) = {o} /\ Rearming(p) = {} /\ Latched(p)
  BY <1>3 DEF Watched, Only, Sellers
<1>4. ASSUME NEW i \in DOMAIN fetches, Awaited(i, p)
      PROVE  (\A t \in Task : ~HasIt(task[t], p)) /\ Orders(p) = {} /\ Rearming(p) = {i} /\ Latched(p)
  BY <1>4 DEF Awaited, Only, Sellers
<1> QED BY <1>1, <1>2, <1>3, <1>4 DEF OneTurn

\* The live order of a position is in the hands of its watcher, or of the coroutine
\* that waits for its answer.
LEMMA LiveIsHeld ==
  ASSUME TypeOK, PlainTasks, NEW o \in Live, NEW p \in Pos, orders[o].pos = p, OneTurn(p)
  PROVE  \/ Watched(o, p)
         \/ \E t \in Task : Sold(t, p) /\ Asks(task[t], o) /\ AsksFor(task[t], p) /\ Asking(task[t], p)
<1>0. o \in Ids /\ orders[o].st = "live"
  BY DEF Live
<1>1. CASE ~Asked(o)
  BY <1>0, <1>1, TurnOf DEF Orders
<1>2. ASSUME NEW t \in Task, Asks(task[t], o)
      PROVE  Sold(t, p) /\ AsksFor(task[t], p) /\ Asking(task[t], p)
  <2>1. AsksFor(task[t], p)
    <3>1. task[t].order \in Ids /\ task[t].order = o
      BY <1>0, <1>2 DEF Asks
    <3>2. task[t].order # 0
      BY <3>1, IdsAreFinite
    <3> QED BY <1>2, <3>1, <3>2 DEF Asks, AsksFor, PlainTasks
  <2>2. Sold(t, p)
    BY <2>1, TurnOf DEF HasIt, InPlacing, AsksFor
  <2> QED BY <2>1, <2>2 DEF Sold, Selling, Due, Failed
<1> QED BY <1>1, <1>2 DEF Asked

\* Without targets of lots, no lot exit is placed, booked or cancelled, and a position
\* that is due is placed.
LEMMA NeverHappens ==
  ASSUME SymbolTargetsOnly, Exclusive
  PROVE  /\ \A t \in Task, l \in Lot : ~LotFires(t, l) /\ ~LotPasses(t, l)
         /\ \A t \in Task, p \in Pos : ~PlaceCovered(t, p)
         /\ \A t \in Task : ~LotPlaced(t)
         /\ \A o \in Ids : ~BookLotExit(o) /\ ~CancelSibling(o)
         /\ \A k \in Key : ~Reenable(k)
<1>1. ASSUME NEW t \in Task PROVE ~LotPlaced(t) /\ \A l \in Lot : ~LotFires(t, l) /\ ~LotPasses(t, l)
  BY DEF LotFires, LotPasses, LotPlaced, Exclusive, Plain, PlainTasks
<1>2. ASSUME NEW o \in Ids PROVE ~BookLotExit(o) /\ ~CancelSibling(o)
  BY DEF BookLotExit, CancelSibling, Exclusive, Plain, PlainOrders
<1>3. ASSUME NEW k \in Key PROVE ~Reenable(k)
  BY DEF Reenable, SymbolTargetsOnly, Exclusive, Plain
<1>4. ASSUME NEW t \in Task, NEW p \in Pos, PlaceCovered(t, p) PROVE FALSE
  <2>1. /\ task[t].at = "place" /\ p \in task[t].queue
        /\ task[t].size[p] <= task[t].pend[p]
    BY <1>4 DEF PlaceCovered
  <2>2. Sold(t, p)
    BY <2>1, TurnOf DEF HasIt, InPlacing, Exclusive, InTurn
  <2>3. Due(task[t], p)
    BY <2>1, <2>2 DEF Sold, Selling, Asking, Failed
  <2>4. task[t].size[p] \in Int
    BY <2>1, KindOfJob DEF PlaceJob, Exclusive, TypeOK
  <2> QED BY <2>1, <2>3, <2>4 DEF Due
<1> QED BY <1>1, <1>2, <1>3, <1>4

LEMMA NothingPending ==
  ASSUME PlainOrders, NEW p \in Pos
  PROVE  PendingExits[p] = 0
<1>1. PendingAt(p) = {}
  BY DEF PendingAt, PlainOrders
<1>2. PendingExits[p] = SumFunctionOnSet(Ordered, {})
  BY <1>1 DEF PendingExits
<1> QED BY <1>2, SumEmpty

LEMMA LotLoopPlain ==
  ASSUME TypeOK, lotCache = {}, NEW t \in Task, NEW k \in Key, NEW L, LotLoop(t, k, L)
  PROVE  \E j \in LotJob : task' = [task EXCEPT ![t] = j] /\ j.at = "lot" /\ j.lots = {}
<1>1. LotQueue(k, L) = {}
  BY DEF LotQueue
<1> QED BY <1>1, LotLoopJob

\* A coroutine has called placeOrder for a position of its queue.
OrderSent(t, p, j, x, ok, n) ==
  /\ n = Len(orders) + 1
  /\ task[t] \in PlaceJob /\ task[t].at = "place" /\ p \in task[t].queue
  /\ task' = [task EXCEPT ![t] = j] /\ j.at = "answer" /\ j.pos = p
  /\ j.queue = task[t].queue \ {p} /\ j.bad = task[t].bad /\ j.size = task[t].size
  /\ \A q \in Pos \ {p} : j.pend[q] = task[t].pend[q]
  /\ j.order = IF ok THEN n ELSE 0
  /\ orders' = Append(orders, x) /\ x.pos = p /\ x.lot = NoLot /\ x.left = x.qty
  /\ x.qty = task[t].size[p] - task[t].pend[p] /\ x.st \in {"live", "rejected"}
  /\ ok => x.st = "live"
  /\ ~ok /\ "placement_lost" \notin Faults => x.st = "rejected"

LEMMA PlaceOneJob ==
  ASSUME TypeOK, NEW t \in Task, NEW p \in Pos, PlaceOne(t, p)
  PROVE  \E j \in PlaceJob, x \in ExitOrder, ok \in BOOLEAN, n \in Nat : OrderSent(t, p, j, x, ok, n)
<1>0. Ids = 1..Len(orders) /\ Len(orders) \in Nat
  BY IdsAreFinite
<1> DEFINE j == task[t]
<1>1. j \in PlaceJob /\ j.at = "place" /\ p \in j.queue
  BY KindOfJob DEF PlaceOne, TypeOK
<1>2. PICK q \in Nat \ {0} : q = j.size[p] - j.pend[p]
  <2>1. j.size[p] \in Int /\ j.pend[p] \in Int
    BY <1>1 DEF PlaceJob
  <2> QED BY <2>1, SMTT(30) DEF PlaceOne
<1>3. PICK r \in Placements :
        /\ orders' = Append(orders, Order(p, NoLot, j.size[p] - j.pend[p], r[1]))
        /\ task' = [task EXCEPT ![t] =
             [j EXCEPT !.at = "answer", !.queue = j.queue \ {p}, !.pend[p] = 0, !.pos = p,
                       !.order = IF r[2] THEN Len(orders) + 1 ELSE 0]]
  BY DEF PlaceOne
<1>4. PICK st, ok : /\ st = r[1] /\ ok = r[2] /\ st \in {"live", "rejected"} /\ ok \in BOOLEAN
                    /\ ok => st = "live"
                    /\ ~ok /\ "placement_lost" \notin Faults => st = "rejected"
  BY PlacementKinds
<1>5. PICK n \in Nat : n = Len(orders) + 1
  BY <1>0
<1>6. PICK m \in Nat : m = IF ok THEN n ELSE 0
  OBVIOUS
<1> DEFINE x == Order(p, NoLot, q, st)
<1> DEFINE u == [j EXCEPT !.at = "answer", !.queue = j.queue \ {p}, !.pend[p] = 0, !.pos = p, !.order = m]
<1>7. /\ x \in ExitOrder /\ x.pos = p /\ x.lot = NoLot /\ x.left = x.qty /\ x.qty = q /\ x.st = st
  BY <1>2, <1>4 DEF Order, ExitOrder, OrderStatus
<1>8. u \in PlaceJob /\ u.at = "answer" /\ u.order = m /\ u.pos = p /\ u.queue = j.queue \ {p} /\ u.bad = j.bad
      /\ u.size = j.size /\ u.pend = [j.pend EXCEPT ![p] = 0]
  <2>0. 0 \in Int /\ "answer" \in {"place", "answer"} /\ j.queue \ {p} \in SUBSET Pos
    BY <1>1 DEF PlaceJob
  <2>1. u \in PlaceJob
    BY <1>1, <1>6, <2>0, PlaceJobEdited, Zenon
  <2>2. DOMAIN j = {"at", "path", "key", "queue", "size", "pend", "bad", "order", "pos"}
    BY <1>1 DEF PlaceJob
  <2> QED BY <2>1, <2>2
<1>9. \A z \in Pos \ {p} : u.pend[z] = j.pend[z]
  BY <1>1, <1>8 DEF PlaceJob
<1>10. orders' = Append(orders, x) /\ task' = [task EXCEPT ![t] = u]
  BY <1>2, <1>3, <1>4, <1>5, <1>6, Zenon
<1> HIDE DEF x, u
<1>11. x.st \in {"live", "rejected"} /\ (ok => x.st = "live")
       /\ (~ok /\ "placement_lost" \notin Faults => x.st = "rejected")
  BY <1>4, <1>7
<1>12. u.order = (IF ok THEN n ELSE 0) /\ x.qty = j.size[p] - j.pend[p] /\ x \in ExitOrder /\ u \in PlaceJob
       /\ ok \in BOOLEAN
  BY <1>2, <1>4, <1>6, <1>7, <1>8
<1>13. PICK w \in PlaceJob, y \in ExitOrder : w = u /\ y = x
  BY <1>12
<1>14. OrderSent(t, p, w, y, ok, n)
  BY <1>1, <1>5, <1>7, <1>8, <1>9, <1>10, <1>11, <1>12, <1>13, Zenon DEF OrderSent
<1>15. ok \in BOOLEAN
  BY <1>12
<1> QED BY <1>5, <1>13, <1>14, <1>15

LEMMA PlacedJob ==
  ASSUME TypeOK, NEW t \in Task, Placed(t)
  PROVE  \E j \in PlaceJob :
           /\ task[t] \in PlaceJob /\ task[t].at = "answer"
           /\ task' = [task EXCEPT ![t] = j] /\ j.at = "place"
           /\ j.queue = task[t].queue /\ j.size = task[t].size /\ j.pend = task[t].pend
           /\ j.bad = IF task[t].order # 0 THEN task[t].bad ELSE task[t].bad \cup {KeyOf[task[t].pos]}
<1> DEFINE j == task[t]
<1> DEFINE b == IF j.order # 0 THEN j.bad ELSE j.bad \cup {KeyOf[j.pos]}
<1>1. j \in PlaceJob /\ j.at = "answer"
  BY KindOfJob DEF Placed, TypeOK
<1>2. b \in SUBSET Key /\ DOMAIN j = {"at", "path", "key", "queue", "size", "pend", "bad", "order", "pos"}
  BY <1>1 DEF PlaceJob
<1>3. task' = [task EXCEPT ![t] = [j EXCEPT !.at = "place", !.bad = b]]
  BY DEF Placed
<1>4. PICK c \in SUBSET Key : c = b
  BY <1>2
<1> HIDE DEF b
<1>5. PICK s \in PlaceJob : s = [j EXCEPT !.at = "place"]
  <2>1. "place" \in {"place", "answer"}
    OBVIOUS
  <2> QED BY <1>1, <2>1, PlaceJobFields, Zenon
<1>6. PICK u \in PlaceJob : u = [s EXCEPT !.bad = c]
  BY PlaceJobFields, Zenon
<1>7. u.at = "place" /\ u.queue = j.queue /\ u.size = j.size /\ u.pend = j.pend /\ u.bad = c
  BY <1>2, <1>5, <1>6 DEF PlaceJob
<1>8. task' = [task EXCEPT ![t] = u]
  BY <1>3, <1>4, <1>5, <1>6
<1> QED BY <1>1, <1>4, <1>7, <1>8 DEF b

LEMMA TaskStaysPlain ==
  ASSUME TypeOK, Plain, NEW t \in Task, NEW j, task' = [task EXCEPT ![t] = j],
         j.at \notin {"answer", "lotanswer"}, j.at = "lot" => j.lots = {},
         orders' = orders, exits' = exits, lotCache' = lotCache, siblings' = siblings, reenables' = reenables
  PROVE  Plain'
<1>1. PlainOrders'
  BY DEF Plain, PlainOrders, Ids, IsAuto
<1>2. task'[t] = j /\ \A u \in Task \ {t} : task'[u] = task[u]
  BY DEF TypeOK
<1>3. PlainTasks'
  BY <1>2 DEF Plain, PlainTasks
<1> QED BY <1>1, <1>3 DEF Plain

LEMMA OrdersStayPlain ==
  ASSUME TypeOK, Linked, Plain, NEW o \in Ids, Kept(orders', o), exits' = exits, task' = task,
         orders'[o].left <= orders[o].left,
         orders'[o].st = "live" => orders'[o].left > 0,
         orders'[o].st = "rejected" => orders'[o].left = orders[o].qty,
         lotCache' = {}, siblings' = siblings, reenables' = reenables
  PROVE  Plain'
<1>1. Ids' = Ids
  BY DEF Kept, Ids, TypeOK
<1>2. PlainOrders'
  <2> SUFFICES ASSUME NEW q \in Ids
      PROVE  /\ orders'[q].lot = NoLot /\ exits[q] = "none" /\ orders'[q].left <= orders'[q].qty
             /\ orders'[q].st = "live" => orders'[q].left > 0
             /\ orders'[q].st = "rejected" => orders'[q].left = orders'[q].qty
    BY <1>1 DEF PlainOrders, IsAuto
  <2>1. CASE q # o
    BY <2>1 DEF Kept, Plain, PlainOrders, IsAuto
  <2>2. CASE q = o
    <3>1. orders[o].left <= orders[o].qty /\ orders[o].left \in Nat /\ orders[o].qty \in Nat /\ orders'[o].left \in Int
      <4>1. orders'[o] \in ExitOrder
        BY <1>1 DEF Kept, Ids, TypeOK
      <4> QED BY <4>1, OrderFields DEF Plain, PlainOrders, ExitOrder
    <3> QED BY <2>2, <3>1 DEF Kept, Plain, PlainOrders, IsAuto
  <2> QED BY <2>1, <2>2
<1>3. PlainTasks'
  <2>1. \A q \in Ids : orders'[q].pos = orders[q].pos
    BY DEF Kept
  <2> QED BY <1>1, <2>1 DEF Plain, PlainTasks, Linked
<1> QED BY <1>2, <1>3 DEF Plain

LEMMA StaysPlain == SymbolTargetsOnly /\ Exclusive /\ [Next]_vars => Plain'
<1> SUFFICES ASSUME SymbolTargetsOnly, Exclusive, [Next]_vars PROVE Plain'
  OBVIOUS
<1>0. TypeOK /\ Linked /\ Plain /\ InTurn /\ lotCache = {}
  BY DEF Exclusive, Plain
<1>1. ASSUME NEW t \in Task, NewTick(t) PROVE Plain'
  <2>1. PICK k \in Key : SymbolFires(t, k) \/ SymbolPasses(t, k)
    BY <1>1 DEF NewTick
  <2>2. PICK j : task' = [task EXCEPT ![t] = j] /\ j.at \notin {"answer", "lotanswer"} /\ (j.at = "lot" => j.lots = {})
    <3>1. CASE SymbolFires(t, k)
      BY <1>0, <3>1, FiringJob DEF SymbolFires, JustFired
    <3>2. CASE SymbolPasses(t, k)
      BY <1>0, <3>2, LotLoopPlain DEF SymbolPasses
    <3> QED BY <2>1, <3>1, <3>2
  <2>3. UNCHANGED <<orders, exits, lotCache, siblings, reenables>>
    BY <2>1 DEF SymbolFires, SymbolPasses, broker, lotTable, ledger, background
  <2> QED BY <1>0, <2>2, <2>3, TaskStaysPlain
<1>2. ASSUME NEW t \in Task, NEW p \in Pos, PlaceOne(t, p) PROVE Plain'
  <2>1. PICK j \in PlaceJob, x \in ExitOrder, ok \in BOOLEAN, n \in Nat :
          /\ n = Len(orders) + 1
          /\ task' = [task EXCEPT ![t] = j] /\ j.at = "answer" /\ j.pos = p
          /\ j.order = IF ok THEN n ELSE 0
          /\ orders' = Append(orders, x) /\ x.pos = p /\ x.lot = NoLot /\ x.left = x.qty
    <3>1. PICK j \in PlaceJob, x \in ExitOrder, ok \in BOOLEAN, n \in Nat : OrderSent(t, p, j, x, ok, n)
      BY <1>0, <1>2, PlaceOneJob
    <3> QED BY <3>1 DEF OrderSent
  <2>2. exits' = Append(exits, "none") /\ UNCHANGED <<lotCache, siblings, reenables>>
    BY <1>2 DEF PlaceOne, lotTable, background
  <2>3. Ids' = Ids \cup {n} /\ n \notin Ids /\ Ids = 1..Len(orders)
    BY <1>0, <2>1, <2>2, NewOrderTyped, IdsAreFinite DEF RowStatus
  <2>4. orders'[n] = x /\ exits'[n] = "none" /\ \A o \in Ids : orders'[o] = orders[o] /\ exits'[o] = exits[o]
    BY <1>0, <2>1, <2>2, <2>3 DEF TypeOK
  <2>5. PlainOrders'
    <3> SUFFICES ASSUME NEW o \in Ids \cup {n}
        PROVE  /\ orders'[o].lot = NoLot /\ exits'[o] = "none" /\ orders'[o].left <= orders'[o].qty
               /\ orders'[o].st = "live" => orders'[o].left > 0
               /\ orders'[o].st = "rejected" => orders'[o].left = orders'[o].qty
      BY <2>3 DEF PlainOrders, IsAuto
    <3>1. CASE o \in Ids
      BY <1>0, <2>4, <3>1 DEF Plain, PlainOrders, IsAuto
    <3>2. CASE o = n
      <4>1. x.left \in Nat /\ x.qty \in Nat \ {0}
        BY DEF ExitOrder
      <4> QED BY <2>1, <2>4, <3>2, <4>1
    <3> QED BY <3>1, <3>2
  <2>6. task'[t] = j /\ \A u \in Task \ {t} : task'[u] = task[u]
    BY <1>0, <2>1 DEF TypeOK
  <2>7. PlainTasks'
    <3> SUFFICES ASSUME NEW u \in Task
        PROVE  /\ task'[u].at # "lotanswer"
               /\ task'[u].at = "lot" => task'[u].lots = {}
               /\ task'[u].at = "answer" /\ task'[u].order # 0 => orders'[task'[u].order].pos = task'[u].pos
      BY DEF PlainTasks
    <3>1. CASE u = t
      BY <2>1, <2>4, <2>6, <3>1
    <3>2. CASE u # t
      <4>1. task'[u] = task[u]
        BY <2>6, <3>2
      <4>2. task[u].at = "answer" /\ task[u].order # 0 => task[u].order \in Ids
        BY <1>0 DEF Linked
      <4> QED BY <1>0, <2>4, <4>1, <4>2 DEF Plain, PlainTasks
    <3> QED BY <3>1, <3>2
  <2> QED BY <1>0, <2>2, <2>5, <2>7 DEF Plain
<1>3. ASSUME NEW t \in Task, Placed(t) PROVE Plain'
  <2>1. PICK j \in PlaceJob : task' = [task EXCEPT ![t] = j] /\ j.at = "place"
    BY <1>0, <1>3, PlacedJob
  <2>2. UNCHANGED <<orders, exits, lotCache, siblings, reenables>>
    BY <1>3 DEF Placed, broker, lotTable, ledger
  <2> QED BY <1>0, <2>1, <2>2, TaskStaysPlain
<1>4. ASSUME NEW t \in Task, SymbolPlaced(t) \/ ExchangeFires(t) \/ ExchangePlaced(t) \/ TickEnds(t) PROVE Plain'
  <2>1. PICK j : task' = [task EXCEPT ![t] = j] /\ j.at \notin {"answer", "lotanswer"} /\ (j.at = "lot" => j.lots = {})
    <3>0. task[t].at \in {"lot", "place"} => task[t].key \in Key
      <4>1. task[t].at \in {"lot", "place"} => task[t] \in LotJob \cup PlaceJob
        BY <1>0, KindOfJob DEF TypeOK
      <4> QED BY <4>1 DEF LotJob, PlaceJob
    <3>1. CASE SymbolPlaced(t)
      BY <1>0, <3>0, <3>1, LotLoopPlain DEF SymbolPlaced
    <3>2. CASE ExchangeFires(t)
      BY <1>0, <3>0, <3>2, FiringJob DEF ExchangeFires, JustFired
    <3>3. CASE ExchangePlaced(t) \/ TickEnds(t)
      BY <3>3 DEF ExchangePlaced, TickEnds, Resting
    <3> QED BY <1>4, <3>1, <3>2, <3>3
  <2>2. UNCHANGED <<orders, exits, lotCache, siblings, reenables>>
    BY <1>4 DEF SymbolPlaced, ExchangeFires, ExchangePlaced, TickEnds, broker, lotTable, ledger, background
  <2> QED BY <1>0, <2>1, <2>2, TaskStaysPlain
<1>5. ASSUME NEW o \in Ids, Watcher(o) \/ Fill(o) \/ BrokerKills(o) PROVE Plain'
  <2>1. UNCHANGED <<exits, task, lotCache, siblings, reenables>>
    BY <1>5 DEF Watcher, WatcherSees, WatcherGivesUp, WatcherBlind, Fill, BrokerKills, broker, lotTable, ledger,
       background
  <2>2. CASE orders' = orders
    BY <1>0, <2>1, <2>2 DEF Plain, PlainOrders, PlainTasks, Ids, IsAuto
  <2>3. ASSUME NEW st \in {"cancelled", "rejected"}, orders' = Ended(o, st), st = "rejected" => Filled(o) = 0 PROVE Plain'
    <3>1. Kept(orders', o) /\ orders'[o].st = st /\ orders'[o].left = orders[o].left
      BY <1>0, <2>3, OrderEnds DEF OrderStatus
    <3>2. orders[o].left \in Nat /\ orders[o].qty \in Nat
      BY <1>0, OrderFields
    <3> QED BY <1>0, <2>1, <2>3, <3>1, <3>2, OrdersStayPlain DEF Filled
  <2>4. ASSUME NEW n \in 1..orders[o].left, orders' = Traded(o, n) PROVE Plain'
    <3>1. /\ Kept(orders', o) /\ orders'[o].left = orders[o].left - n
          /\ orders'[o].st = IF n = orders[o].left THEN "done" ELSE "live"
      BY <1>0, <2>4, OrderTrades
    <3>2. orders[o].left \in Nat
      BY <1>0, OrderFields
    <3>3. /\ orders'[o].left <= orders[o].left /\ (orders'[o].st = "live" => orders'[o].left > 0)
          /\ orders'[o].st # "rejected"
      BY <3>1, <3>2
    <3> QED BY <1>0, <2>1, <3>1, <3>3, OrdersStayPlain
  <2>5. CASE Watcher(o)
    BY <2>2, <2>3, <2>5 DEF Watcher, WatcherSees, WatcherGivesUp, WatcherBlind, broker
  <2>6. CASE Fill(o)
    BY <2>4, <2>6 DEF Fill
  <2>7. CASE BrokerKills(o)
    <3>1. PICK st : st \in {"cancelled"} \cup (IF Filled(o) = 0 THEN {"rejected"} ELSE {}) /\ orders' = Ended(o, st)
      BY <2>7 DEF BrokerKills
    <3>2. st \in {"cancelled", "rejected"} /\ (st = "rejected" => Filled(o) = 0)
      BY <3>1
    <3> QED BY <2>3, <3>1, <3>2
  <2> QED BY <1>5, <2>5, <2>6, <2>7
<1>6. ASSUME NEW i \in DOMAIN fetches, FetchArrives(i) \/ FetchFails(i) PROVE Plain'
  <2>1. UNCHANGED <<orders, exits, task, siblings, reenables>>
    BY <1>6 DEF FetchArrives, FetchFails, broker, ledger
  <2>2. lotCache' = {}
    BY <1>0, <1>6 DEF FetchArrives, FetchFails, lotTable, SymbolTargetsOnly
  <2> QED BY <1>0, <2>1, <2>2 DEF Plain, PlainOrders, PlainTasks, Ids, IsAuto
<1>7. ASSUME NEW o \in Ids, BookAutoExit(o) PROVE Plain'
  <2>1. UNCHANGED <<orders, exits, task, lotCache, reenables>>
    BY <1>7 DEF BookAutoExit, broker, lotTable
  <2>2. \A S : SiblingsOf(S) = {}
    BY <1>0 DEF SiblingsOf, PendingOf, Plain, PlainOrders
  <2>3. siblings' = {}
    BY <1>0, <1>7, <2>2 DEF BookAutoExit, Plain
  <2> QED BY <1>0, <2>1, <2>3 DEF Plain, PlainOrders, PlainTasks, Ids, IsAuto
<1>8. CASE Refresh \/ UNCHANGED vars
  <2>1. UNCHANGED <<orders, exits, task, lotCache, siblings, reenables>>
    BY <1>8 DEF Refresh, vars, broker, lotTable, ledger, background
  <2> QED BY <1>0, <2>1 DEF Plain, PlainOrders, PlainTasks, Ids, IsAuto
<1> QED
  <2>1. CASE \E t \in Task : NewTick(t) \/ TickStep(t)
    BY <1>1, <1>2, <1>3, <1>4, <2>1, NeverHappens DEF TickStep
  <2>2. CASE \E o \in Ids : Watcher(o) \/ Reconcile(o) \/ Fill(o) \/ BrokerKills(o)
    BY <1>5, <1>7, <2>2, NeverHappens DEF Reconcile
  <2>3. CASE (\E k \in Key : Reenable(k)) \/ Fetching
    BY <1>6, <2>3, NeverHappens DEF Fetching
  <2> QED BY <1>8, <2>1, <2>2, <2>3 DEF Next

\* A coroutine that has nothing of a position, before or after its step.
LEMMA BystanderMoves ==
  ASSUME TypeOK, Linked, PlainTasks, NEW p \in Pos, OneTurn(p),
         NEW t \in Task, NEW j, task' = [task EXCEPT ![t] = j],
         UNCHANGED <<net, cache, fetches, orders, watching>>,
         ~HasIt(task[t], p), ~HasIt(j, p), task[t].at # "answer", j.at # "answer",
         Latched(p) => Latched(p)'
  PROVE  OneTurn(p)'
<1>1. Ids' = Ids
  BY DEF Ids
<1>2. \A o \in Ids : ~Asks(j, o) /\ ~Asks(task[t], o)
  BY DEF Asks
<1>3. ~AsksFor(j, p)
  BY DEF AsksFor
<1> QED BY <1>1, <1>2, <1>3, TaskMoves

\* A target fires: the positions it exits are taken from nobody, and latched.
LEMMA TargetFires ==
  ASSUME TypeOK, Linked, Plain, NEW p \in Pos, OneTurn(p),
         NEW t \in Task, NEW j \in PlaceJob, task' = [task EXCEPT ![t] = j],
         UNCHANGED <<net, cache, fetches, orders, watching>>,
         task[t].at \notin {"place", "answer"}, j.at = "place", j.size = cache,
         j.pend = PendingExits, j.bad = {},
         Latched(p) => Latched(p)',
         p \in j.queue => ~Latched(p) /\ cache[p] > 0 /\ Latched(p)'
  PROVE  OneTurn(p)'
<1>1. ~HasIt(task[t], p)
  BY DEF HasIt, InPlacing
<1>2. CASE p \notin j.queue
  <2>1. ~HasIt(j, p) /\ task[t].at # "answer" /\ j.at # "answer"
    BY <1>2 DEF HasIt, InPlacing, AsksFor
  <2> QED BY <1>1, <2>1, BystanderMoves DEF Plain
<1>3. CASE p \in j.queue
  <2>1. Idle(p) /\ Fresh(p)
    BY <1>3, TurnOf
  <2>2. task'[t] = j /\ \A u \in Task \ {t} : task'[u] = task[u]
    BY DEF TypeOK
  <2>3. Sellers(p)' = {t}
    <3>1. Sellers(p)' = {u \in Task : HasIt(task'[u], p)}
      BY DEF Sellers, HasIt, InPlacing, AsksFor
    <3>2. HasIt(j, p)
      BY <1>3 DEF HasIt, InPlacing
    <3>3. \A u \in Task : ~HasIt(task[u], p)
      BY <2>1 DEF Idle, Only, Sellers
    <3> QED BY <2>2, <3>1, <3>2, <3>3
  <2>4. Orders(p)' = {} /\ Rearming(p)' = {}
    <3>1. Ids' = Ids /\ Orders(p) = {} /\ Rearming(p) = {}
      BY <2>1 DEF Ids, Idle, Only
    <3>2. ASSUME NEW o \in Ids PROVE Asked(o)' <=> Asked(o)
      <4>1. \A u \in Task : Asks(task'[u], o) <=> Asks(task[u], o)
        BY <2>2 DEF Asks
      <4>2. Asked(o)' <=> \E u \in Task : Asks(task'[u], o)
        BY DEF Asked, Asks
      <4> QED BY <4>1, <4>2 DEF Asked
    <3> QED BY <3>1, <3>2 DEF Orders, Rearming
  <2>5. Fresh(p)'
    BY <2>1 DEF Fresh, FreshFrom
  <2>6. j.size[p] = cache[p] /\ cache[p] > 0 /\ cache[p] <= net[p] /\ j.pend[p] = 0
    BY <1>3, <2>1, NothingPending DEF Fresh, Plain
  <2>7. Due(j, p)'
    BY <1>3, <2>5, <2>6 DEF Due, AsksFor
  <2>8. Sold(t, p)'
    BY <1>3, <2>2, <2>3, <2>4, <2>7 DEF Sold, Only, Selling
  <2> QED BY <2>8 DEF OneTurn
<1> QED BY <1>2, <1>3

\* An order goes out for a position that is due.
LEMMA OrderGoesOut ==
  ASSUME SymbolTargetsOnly, Exclusive, TypeOK', NEW t \in Task, NEW q \in Pos, PlaceOne(t, q), NEW p \in Pos
  PROVE  OneTurn(p)'
<1>0. TypeOK /\ Linked /\ Plain /\ PlainTasks /\ OneTurn(p) /\ OneTurn(q)
  BY DEF Exclusive, Plain, InTurn
<1>1. PICK j \in PlaceJob, x \in ExitOrder, ok \in BOOLEAN, n \in Nat :
        /\ n = Len(orders) + 1
        /\ task[t] \in PlaceJob /\ task[t].at = "place" /\ q \in task[t].queue
        /\ task' = [task EXCEPT ![t] = j] /\ j.at = "answer" /\ j.pos = q
        /\ j.queue = task[t].queue \ {q} /\ j.bad = task[t].bad /\ j.size = task[t].size
        /\ \A z \in Pos \ {q} : j.pend[z] = task[t].pend[z]
        /\ j.order = IF ok THEN n ELSE 0
        /\ orders' = Append(orders, x) /\ x.pos = q /\ x.left = x.qty
        /\ ok => x.st = "live"
        /\ ~ok /\ "placement_lost" \notin Faults => x.st = "rejected"
  <2>1. PICK j \in PlaceJob, x \in ExitOrder, ok \in BOOLEAN, n \in Nat : OrderSent(t, q, j, x, ok, n)
    BY <1>0, PlaceOneJob
  <2> QED BY <2>1 DEF OrderSent
<1>2. exits' = Append(exits, "none")
      /\ UNCHANGED <<net, cache, latched, fetches, watching>>
  BY DEF PlaceOne, latches, background
<1>3. Ids' = Ids \cup {n} /\ n \notin Ids /\ Ids = 1..Len(orders)
  BY <1>0, <1>1, <1>2, NewOrderTyped, IdsAreFinite DEF RowStatus
<1>4. orders'[n] = x /\ \A o \in Ids : orders'[o] = orders[o]
  BY <1>0, <1>1, <1>3 DEF TypeOK
<1>5. task'[t] = j /\ \A u \in Task \ {t} : task'[u] = task[u]
  BY <1>0, <1>1 DEF TypeOK
<1>6. \A o \in Ids : ~Asks(j, o) /\ ~Asks(task[t], o)
  BY <1>1, <1>3 DEF Asks
<1>7. Latched(p)' <=> Latched(p)
  BY <1>2 DEF Latched
<1>8. CASE p # q
  <2>1. HasIt(j, p) <=> HasIt(task[t], p)
    BY <1>1, <1>8 DEF HasIt, InPlacing, AsksFor
  <2>2. ~AsksFor(j, p) /\ ~AsksFor(task[t], p)
    BY <1>1, <1>8 DEF AsksFor
  <2>3. HasIt(task[t], p) /\ Selling(task[t], p) => Selling(j, p)
    BY <1>1, <1>8, <2>2 DEF Selling, Due, Asking, Failed
  <2>4. \A o \in Ids' \ Ids : orders'[o].pos # p
    BY <1>1, <1>3, <1>4, <1>8
  <2> QED BY <1>0, <1>1, <1>2, <1>3, <1>4, <1>6, <1>7, <2>1, <2>2, <2>3, <2>4, TaskMoves
<1>9. CASE p = q
  <2>1. HasIt(task[t], p) /\ ~AsksFor(task[t], p)
    BY <1>1, <1>9 DEF HasIt, InPlacing, AsksFor
  <2>2. Sold(t, p) /\ Due(task[t], p)
    BY <1>0, <1>1, <1>9, <2>1, TurnOf DEF Sold, Selling, Asking, Failed
  <2>3. Sellers(p)' = {t}
    <3>1. Sellers(p)' = {u \in Task : HasIt(task'[u], p)}
      BY DEF Sellers, HasIt, InPlacing, AsksFor
    <3>2. HasIt(j, p)
      BY <1>1, <1>9 DEF HasIt, InPlacing, AsksFor
    <3>3. \A u \in Task \ {t} : ~HasIt(task[u], p)
      BY <2>2 DEF Sold, Only, Sellers
    <3> QED BY <1>5, <3>1, <3>2, <3>3
  <2>4. Orders(p)' = {}
    <3>1. Orders(p) = {}
      BY <2>2 DEF Sold, Only
    <3>2. ASSUME NEW o \in Ids PROVE Asked(o)' <=> Asked(o)
      <4>1. \A u \in Task : Asks(task'[u], o) <=> Asks(task[u], o)
        BY <1>5, <1>6
      <4>2. Asked(o)' <=> \E u \in Task : Asks(task'[u], o)
        BY DEF Asked, Asks
      <4> QED BY <4>1, <4>2 DEF Asked
    <3>3. \A o \in Ids : o \notin Orders(p)'
      BY <1>2, <1>4, <3>1, <3>2 DEF Orders
    <3>4. n \notin watching
      BY <1>0, <1>3 DEF TypeOK
    <3>5. x.st = "live" => Asked(n)'
      <4>1. x.st = "live" => ok
        BY <1>1 DEF SymbolTargetsOnly
      <4>2. ok => Asks(task'[t], n)
        BY <1>1, <1>5 DEF Asks
      <4> QED BY <4>1, <4>2 DEF Asked, Asks
    <3>6. n \notin Orders(p)'
      BY <1>2, <1>4, <3>4, <3>5 DEF Orders
    <3> QED BY <1>3, <3>3, <3>6 DEF Orders
  <2>5. Rearming(p)' = {} /\ Latched(p)'
    BY <1>2, <1>7, <2>2 DEF Rearming, Sold, Only
  <2>6. Fresh(p)'
    BY <1>2, <2>2 DEF Due, Fresh, FreshFrom
  <2>7. Asking(j, p)'
    BY <1>1, <1>9, <2>2, <2>6 DEF Asking, Due, AsksFor, Whole
  <2>8. Sold(t, p)'
    BY <1>5, <2>3, <2>4, <2>5, <2>7 DEF Sold, Only, Selling
  <2> QED BY <2>8 DEF OneTurn
<1> QED BY <1>8, <1>9

\* The answer to a placement arrives.
LEMMA AnswerArrives ==
  ASSUME SymbolTargetsOnly, Exclusive, NEW t \in Task, Placed(t), NEW p \in Pos
  PROVE  OneTurn(p)'
<1>0. TypeOK /\ Linked /\ Plain /\ PlainTasks /\ OneTurn(p)
  BY DEF Exclusive, Plain, InTurn
<1>1. PICK j \in PlaceJob :
        /\ task[t] \in PlaceJob /\ task[t].at = "answer"
        /\ task' = [task EXCEPT ![t] = j] /\ j.at = "place"
        /\ j.queue = task[t].queue /\ j.size = task[t].size /\ j.pend = task[t].pend
        /\ j.bad = IF task[t].order # 0 THEN task[t].bad ELSE task[t].bad \cup {KeyOf[task[t].pos]}
  BY <1>0, PlacedJob
<1>2. PICK q \in Pos : q = task[t].pos
  BY <1>1 DEF PlaceJob
<1>3. PICK o : o = task[t].order /\ o \in Ids \cup {0} /\ (o # 0 => o \in Ids /\ orders[o].pos = q)
  BY <1>0, <1>1, <1>2 DEF Linked, Plain, PlainTasks
<1>4. 0 \notin Ids
  BY <1>0, IdsAreFinite
<1>5. UNCHANGED <<net, orders, cache, latched, fetches>> /\ Ids' = Ids
      /\ watching' = watching \cup (IF o # 0 THEN {o} ELSE {})
  BY <1>3 DEF Placed, WatchesFor, broker, latches, Ids
<1>6. task'[t] = j /\ \A u \in Task \ {t} : task'[u] = task[u]
  BY <1>0, <1>1 DEF TypeOK
<1>7. CASE p # q
  <2>1. KeyOf[p] # KeyOf[q]
    BY <1>7 DEF SymbolTargetsOnly
  <2>2. KeyOf[p] \in j.bad <=> KeyOf[p] \in task[t].bad
    BY <1>1, <1>2, <2>1
  <2>3. ~AsksFor(j, p) /\ ~AsksFor(task[t], p)
    BY <1>1, <1>2, <1>7 DEF AsksFor
  <2>4. HasIt(j, p) <=> HasIt(task[t], p)
    BY <1>1, <2>2, <2>3 DEF HasIt, InPlacing
  <2>5. HasIt(task[t], p) /\ Selling(task[t], p) => Selling(j, p)
    BY <1>1, <2>2, <2>3 DEF Selling, Due, Asking, Failed
  <2>6. ASSUME NEW w \in Ids, orders[w].pos = p
        PROVE  (w \in watching' <=> w \in watching) /\ (Asks(j, w) <=> Asks(task[t], w))
    <3>1. w # o
      BY <1>3, <1>4, <1>7, <2>6
    <3> QED BY <1>1, <1>3, <1>5, <3>1 DEF Asks
  <2>7. Latched(p) => Latched(p)'
    BY <1>5 DEF Latched
  <2> QED BY <1>0, <1>1, <1>5, <2>3, <2>4, <2>5, <2>6, <2>7, TaskMoves
<1>8. CASE p = q
  <2>1. HasIt(task[t], p) /\ AsksFor(task[t], p)
    BY <1>1, <1>2, <1>8 DEF HasIt, InPlacing, AsksFor
  <2>2. Sold(t, p) /\ Asking(task[t], p)
    BY <1>0, <2>1, TurnOf DEF Sold, Selling, Due, Failed
  <2>3. Rearming(p)' = {} /\ Latched(p)'
    BY <1>5, <2>2 DEF Rearming, Latched, Sold, Only
  <2>4. Fresh(p)' <=> Fresh(p)
    BY <1>5 DEF Fresh, FreshFrom
  <2>5. \A u \in Task \ {t} : ~HasIt(task[u], p)
    BY <2>2 DEF Sold, Only, Sellers
  <2>6. \A w \in Orders(p)' : w = o
    <3> SUFFICES ASSUME NEW w \in Ids, w \in Orders(p)', w # o PROVE FALSE
      BY <1>5 DEF Orders
    <3>1. w \notin Orders(p)
      BY <2>2 DEF Sold, Only
    <3>2. orders[w].pos = p /\ w \notin watching /\ Asked(w) /\ ~Asked(w)'
      <4>1. orders[w].pos = p /\ (w \in watching' \/ (orders[w].st = "live" /\ ~Asked(w)'))
        BY <1>5 DEF Orders
      <4>2. w \in watching' => w \in watching
        BY <1>5
      <4> QED BY <3>1, <4>1, <4>2 DEF Orders
    <3>3. PICK u \in Task : Asks(task[u], w)
      BY <3>2 DEF Asked
    <3>4. w # 0
      BY <1>4
    <3>5. AsksFor(task[u], p)
      BY <1>0, <3>2, <3>3, <3>4 DEF Asks, AsksFor, PlainTasks
    <3>6. u = t
      BY <2>5, <3>5 DEF HasIt, InPlacing, AsksFor
    <3> QED BY <1>3, <3>3, <3>6 DEF Asks
  <2>7. Sellers(p)' = {u \in Task : HasIt(task'[u], p)}
    BY DEF Sellers, HasIt, InPlacing, AsksFor
  <2>8. CASE o # 0
    <3>1. ~HasIt(j, p)
      BY <1>1, <1>3, <2>2, <2>8 DEF HasIt, AsksFor, Asking
    <3>2. Sellers(p)' = {}
      BY <1>6, <2>5, <2>7, <3>1
    <3>3. o \in Ids /\ o \in Orders(p)'
      BY <1>3, <1>5, <1>8, <2>8 DEF Orders
    <3>4. Whole(o, p)'
      BY <1>3, <1>5, <2>2, <2>4, <2>8 DEF Asking, Whole
    <3>5. Watched(o, p)' /\ o \in Ids'
      BY <1>5, <2>3, <2>6, <3>2, <3>3, <3>4 DEF Watched, Only
    <3> QED BY <3>5 DEF OneTurn
  <2>9. CASE o = 0
    <3>1. HasIt(j, p)
      BY <1>1, <1>2, <1>3, <1>8, <2>9 DEF HasIt, InPlacing
    <3>2. Sellers(p)' = {t}
      BY <1>6, <2>5, <2>7, <3>1
    <3>3. Orders(p)' = {}
      <4>1. Orders(p)' \subseteq Ids
        BY <1>5 DEF Orders
      <4> QED BY <1>4, <2>6, <2>9, <4>1
    <3>4. Failed(j, p)'
      BY <1>1, <1>2, <1>3, <1>8, <2>2, <2>4, <2>9 DEF Failed, Asking, AsksFor
    <3>5. Sold(t, p)'
      BY <1>6, <2>3, <3>2, <3>3, <3>4 DEF Sold, Only, Selling
    <3> QED BY <3>5 DEF OneTurn
  <2> QED BY <2>8, <2>9
<1> QED BY <1>7, <1>8

\* All is placed: the contracts whose exits were not accepted are un-latched.
LEMMA TargetIsDone ==
  ASSUME Exclusive, NEW t \in Task, NEW j, task' = [task EXCEPT ![t] = j],
         UNCHANGED <<net, cache, fetches, orders, watching>>,
         task[t].at = "place", task[t].queue = {}, j.at \in {"lot", "idle"},
         latched' = latched \ task[t].bad, NEW p \in Pos
  PROVE  OneTurn(p)'
<1>0. TypeOK /\ Linked /\ PlainTasks /\ OneTurn(p)
  BY DEF Exclusive, Plain, InTurn
<1>1. ~HasIt(j, p) /\ ~AsksFor(task[t], p)
  BY DEF HasIt, InPlacing, AsksFor
<1>2. CASE KeyOf[p] \notin task[t].bad
  <2>1. ~HasIt(task[t], p)
    BY <1>1, <1>2 DEF HasIt
  <2>2. Latched(p) => Latched(p)'
    BY <1>2 DEF Latched
  <2> QED BY <1>0, <1>1, <2>1, <2>2, BystanderMoves
<1>3. CASE KeyOf[p] \in task[t].bad
  <2>1. HasIt(task[t], p)
    BY <1>3 DEF HasIt, InPlacing
  <2>2. Sold(t, p) /\ Failed(task[t], p)
    BY <1>0, <1>1, <1>3, <2>1, TurnOf DEF Sold, Selling, Due, Asking
  <2>3. task'[t] = j /\ \A u \in Task \ {t} : task'[u] = task[u]
    BY <1>0 DEF TypeOK
  <2>4. Sellers(p)' = {}
    <3>1. Sellers(p)' = {u \in Task : HasIt(task'[u], p)}
      BY DEF Sellers, HasIt, InPlacing, AsksFor
    <3>2. \A u \in Task \ {t} : ~HasIt(task[u], p)
      BY <2>2 DEF Sold, Only, Sellers
    <3> QED BY <1>1, <2>3, <3>1, <3>2
  <2>5. Orders(p)' = {}
    <3>1. Ids' = Ids /\ Orders(p) = {}
      BY <2>2 DEF Ids, Sold, Only
    <3>2. ASSUME NEW o \in Ids PROVE Asked(o)' <=> Asked(o)
      <4>1. \A u \in Task : Asks(task'[u], o) <=> Asks(task[u], o)
        BY <2>3 DEF Asks
      <4>2. Asked(o)' <=> \E u \in Task : Asks(task'[u], o)
        BY DEF Asked, Asks
      <4> QED BY <4>1, <4>2 DEF Asked
    <3> QED BY <3>1, <3>2 DEF Orders
  <2>6. Rearming(p)' = {} /\ Fresh(p)'
    BY <2>2 DEF Rearming, Sold, Only, Failed, Fresh, FreshFrom
  <2>7. Idle(p)'
    BY <2>4, <2>5, <2>6 DEF Idle, Only
  <2> QED BY <2>7 DEF OneTurn
<1> QED BY <1>2, <1>3

\* Orders of a position end or trade, and their watchers stop: nobody else takes it.
LEMMA OrdersOnlyLeave ==
  ASSUME NEW p \in Pos, Ids' = Ids, task' = task, watching' \subseteq watching,
         \A o \in Ids : orders'[o].pos = orders[o].pos /\ (orders'[o].st = "live" => orders[o].st = "live")
  PROVE  Sellers(p)' = Sellers(p) /\ Orders(p)' \subseteq Orders(p)
<1>1. \A o \in Ids : Asked(o)' <=> Asked(o)
  BY DEF Asked, Asks
<1> QED BY <1>1 DEF Orders, Sellers, HasIt, InPlacing, AsksFor

LEMMA RearmRequest ==
  ASSUME TypeOK, NEW k \in Key
  PROVE  /\ Fetch({k}, FALSE) \in Request /\ Fetch({k}, FALSE).snap = net /\ Fetch({k}, FALSE).rearm = {k}
         /\ Len(Append(fetches, Fetch({k}, FALSE))) = Len(fetches) + 1 /\ Len(fetches) \in Nat
         /\ DOMAIN Append(fetches, Fetch({k}, FALSE)) = 1..Len(fetches) + 1
         /\ Append(fetches, Fetch({k}, FALSE))[Len(fetches) + 1] = Fetch({k}, FALSE)
         /\ \A i \in 1..Len(fetches) : Append(fetches, Fetch({k}, FALSE))[i] = fetches[i]
<1>1. Fetch({k}, FALSE) \in Request /\ Fetch({k}, FALSE).snap = net /\ Fetch({k}, FALSE).rearm = {k}
  BY DEF Fetch, Request, TypeOK
<1>2. fetches \in Seq(Request)
  BY DEF TypeOK
<1>3. PICK r \in Request : r = Fetch({k}, FALSE)
  BY <1>1
<1>4. /\ Len(Append(fetches, r)) = Len(fetches) + 1 /\ Len(fetches) \in Nat
      /\ DOMAIN Append(fetches, r) = 1..Len(fetches) + 1 /\ Append(fetches, r)[Len(fetches) + 1] = r
      /\ \A i \in 1..Len(fetches) : Append(fetches, r)[i] = fetches[i]
  BY <1>2
<1> QED BY <1>1, <1>3, <1>4, Zenon

LEMMA LastRearms ==
  ASSUME NEW p \in Pos, NEW n \in Nat \ {0}, DOMAIN fetches' = 1..n, fetches'[n].snap = net', net'[p] \in Int,
         \A i \in 1..n : KeyOf[p] \in fetches'[i].rearm <=> i = n
  PROVE  Rearming(p)' = {n} /\ FreshFrom(n, p)'
<1>1. Rearming(p)' = {n}
  BY DEF Rearming
<1>2. \A i \in 1..n : i >= n => i = n
  OBVIOUS
<1>3. FreshFrom(n, p)'
  BY <1>2 DEF FreshFrom
<1> QED BY <1>1, <1>3

\* A request that re-arms the contract of a position is sent.
LEMMA RearmIsSent ==
  ASSUME TypeOK, NEW p \in Pos, NEW o \in Ids, Watched(o, p), net' = net, latched' = latched,
         Sellers(p)' = {}, Orders(p)' = {}, fetches' = Append(fetches, Fetch({KeyOf[p]}, FALSE))
  PROVE  OneTurn(p)'
<1>1. PICK k \in Key : k = KeyOf[p]
  OBVIOUS
<1>2. PICK n \in Nat \ {0} : n = Len(fetches) + 1
  BY RearmRequest, <1>1
<1>3. /\ DOMAIN fetches' = 1..n /\ fetches'[n].snap = net /\ fetches'[n].rearm = {k}
      /\ \A i \in 1..Len(fetches) : fetches'[i] = fetches[i]
  BY <1>1, <1>2, RearmRequest, Zenon
<1>4. ASSUME NEW i \in 1..n PROVE KeyOf[p] \in fetches'[i].rearm <=> i = n
  <2>1. CASE i = n
    BY <1>1, <1>3, <2>1, Zenon
  <2>2. CASE i # n
    <3>1. i \in 1..Len(fetches) /\ i \in DOMAIN fetches
      BY <1>2, <2>2 DEF TypeOK
    <3>2. KeyOf[p] \notin fetches[i].rearm
      BY <3>1, Zenon DEF Watched, Only, Rearming
    <3> QED BY <1>3, <2>2, <3>1, <3>2, Zenon
  <2> QED BY <2>1, <2>2
<1>5. net'[p] \in Int /\ fetches'[n].snap = net'
  BY <1>3, Zenon DEF TypeOK
<1>6. Rearming(p)' = {n} /\ FreshFrom(n, p)'
  BY <1>3, <1>4, <1>5, LastRearms, Zenon
<1>7. Latched(p)'
  BY Zenon DEF Watched, Latched
<1>8. Awaited(n, p)' /\ n \in DOMAIN fetches'
  <2>1. n \in 1..n
    OBVIOUS
  <2> QED BY <1>3, <1>6, <1>7, <2>1, Zenon DEF Awaited, Only
<1> QED BY <1>8, Zenon DEF OneTurn

LEMMA WatcherTurns ==
  ASSUME SymbolTargetsOnly, Exclusive, NEW o \in Ids, Watcher(o), NEW p \in Pos
  PROVE  OneTurn(p)'
<1>0. TypeOK /\ Linked /\ Plain /\ PlainTasks /\ OneTurn(p) /\ net[p] \in Int
  BY DEF Exclusive, Plain, InTurn, TypeOK
<1>1. UNCHANGED <<net, cache, task>> /\ watching' = watching \ {o} /\ o \in watching
      /\ (orders' = orders \/ orders' = Ended(o, "cancelled"))
  BY DEF Watcher, WatcherSees, WatcherGivesUp, WatcherBlind, broker
<1>2. PICK q \in Pos : q = orders[o].pos
  BY <1>0, OrderFields
<1>3. KeyOfOrder(o) = KeyOf[q]
  BY <1>2 DEF KeyOfOrder
<1>4. Ids' = Ids /\ (\A w \in Ids : orders'[w].pos = orders[w].pos /\ (orders'[w].st = "live" => orders[w].st = "live"))
      /\ \A w \in Ids \ {o} : orders'[w] = orders[w]
  <2>1. Kept(Ended(o, "cancelled"), o) /\ Ended(o, "cancelled")[o].st = "cancelled"
    BY <1>0, OrderEnds DEF OrderStatus
  <2>2. CASE orders' = Ended(o, "cancelled")
    <3>1. Kept(orders', o) /\ orders'[o].st = "cancelled"
      BY <2>1, <2>2, Zenon
    <3>2. Ids' = Ids
      BY <1>0, <3>1 DEF Kept, Ids, TypeOK
    <3> QED BY <3>1, <3>2 DEF Kept
  <2>3. CASE orders' = orders
    BY <2>3 DEF Ids
  <2> QED BY <1>1, <2>2, <2>3
<1>5. Sellers(p)' = Sellers(p) /\ Orders(p)' \subseteq Orders(p)
  BY <1>1, <1>4, OrdersOnlyLeave
<1>6. fetches' = fetches \/ fetches' = Append(fetches, Fetch({KeyOf[q]}, FALSE))
  BY <1>3 DEF Watcher, WatcherSees, WatcherGivesUp, WatcherBlind
<1>7. latched' = latched \/ latched' = latched \ {KeyOf[q]}
  BY <1>3 DEF Watcher, WatcherSees, WatcherGivesUp, WatcherBlind, latches
<1>8. CASE p # q
  <2>1. KeyOf[p] # KeyOf[q]
    BY <1>8 DEF SymbolTargetsOnly
  <2>2. Latched(p) => Latched(p)'
    BY <1>7, <2>1 DEF Latched
  <2>3. \/ fetches' = fetches
        \/ \E r \in Request : fetches' = Append(fetches, r) /\ r.snap[p] <= net[p] /\ KeyOf[p] \notin r.rearm
    <3>1. PICK r \in Request : r = Fetch({KeyOf[q]}, FALSE) /\ r.snap = net /\ r.rearm = {KeyOf[q]}
      BY <1>0, RearmRequest
    <3>2. r.snap[p] <= net[p] /\ KeyOf[p] \notin r.rearm
      <4>1. KeyOf[p] \notin r.rearm /\ r.snap[p] = net[p]
        BY <2>1, <3>1, Zenon
      <4> QED BY <1>0, <4>1
    <3> QED BY <1>6, <3>1, <3>2
  <2>4. \A w \in Ids : orders[w].pos = p => orders'[w] = orders[w] /\ (w \in watching' <=> w \in watching)
    BY <1>1, <1>2, <1>4, <1>8
  <2> QED BY <1>0, <1>1, <1>4, <2>2, <2>3, <2>4, OthersMove
<1>9. CASE p = q
  <2>1. Watched(o, p)
    <3>1. o \in Orders(p)
      BY <1>1, <1>2, <1>9 DEF Orders
    <3> QED BY <1>0, <3>1, TurnOf
  <2>2. Sellers(p)' = {} /\ Orders(p)' \subseteq {o}
    BY <1>5, <2>1 DEF Watched, Only
  <2>3. orders'[o].st # "live" => Orders(p)' = {}
    BY <1>1, <2>2 DEF Orders
  <2>4. CASE fetches' = Append(fetches, Fetch({KeyOf[q]}, FALSE)) /\ latched' = latched /\ orders'[o].st # "live"
    BY <1>0, <1>1, <1>9, <2>1, <2>2, <2>3, <2>4, RearmIsSent
  <2>5. CASE fetches' = fetches /\ orders' = orders
    <3>1. Rearming(p)' = {} /\ (Fresh(p)' <=> Fresh(p))
      BY <1>1, <2>1, <2>5 DEF Rearming, Watched, Only, Fresh, FreshFrom
    <3>2. CASE orders[o].st # "live"
      <4>1. latched' = latched \/ orders[o].st = "rejected"
        BY <3>2 DEF Watcher, WatcherSees, WatcherGivesUp, WatcherBlind, latches, Live
      <4>2. orders[o].st = "rejected" => Fresh(p)
        BY <1>0, <2>1 DEF Watched, Whole, Plain, PlainOrders
      <4>3. Latched(p)' \/ Fresh(p)'
        BY <2>1, <3>1, <4>1, <4>2 DEF Watched, Latched
      <4>4. Idle(p)'
        BY <2>2, <2>3, <2>5, <3>1, <3>2, <4>3 DEF Idle, Only
      <4> QED BY <4>4 DEF OneTurn
    <3>3. CASE orders[o].st = "live"
      <4>1. latched' = latched
        BY <3>3 DEF Watcher, WatcherSees, WatcherGivesUp, WatcherBlind, latches
      <4>2. ~Asked(o)
        <5> SUFFICES ASSUME NEW t \in Task, Asks(task[t], o) PROVE FALSE
          BY DEF Asked
        <5>1. o # 0
          BY <1>0, IdsAreFinite
        <5>2. AsksFor(task[t], p)
          BY <1>0, <1>2, <1>9, <5>1 DEF Asks, AsksFor, PlainTasks
        <5>3. t \in Sellers(p)
          BY <5>2 DEF Sellers, HasIt, InPlacing, AsksFor
        <5> QED BY <2>1, <5>3 DEF Watched, Only
      <4>3. ~Asked(o)' /\ orders'[o] = orders[o]
        BY <1>1, <2>5, <4>2 DEF Asked, Asks
      <4>4. Orders(p)' = {o}
        BY <1>2, <1>4, <1>9, <2>2, <3>3, <4>3 DEF Orders
      <4>5. Whole(o, p)' /\ Latched(p)'
        BY <2>1, <3>1, <4>1, <4>3 DEF Watched, Whole, Latched
      <4>6. Watched(o, p)' /\ o \in Ids'
        BY <1>4, <2>2, <3>1, <4>4, <4>5 DEF Watched, Only
      <4> QED BY <4>6 DEF OneTurn
    <3> QED BY <3>2, <3>3
  <2>6. CASE WatcherSees(o) \/ WatcherBlind(o)
    <3>1. \/ fetches' = fetches /\ orders' = orders
          \/ fetches' = Append(fetches, Fetch({KeyOf[q]}, FALSE)) /\ latched' = latched /\ orders'[o].st = "cancelled"
      <4>1. CASE WatcherSees(o)
        <5>1. orders' = orders
          BY <4>1 DEF WatcherSees, broker
        <5>2. \/ fetches' = fetches
              \/ /\ fetches' = Append(fetches, Fetch({KeyOf[q]}, FALSE))
                 /\ latched' = latched /\ orders[o].st = "cancelled"
          BY <1>3, <4>1 DEF WatcherSees, latches
        <5> QED BY <5>1, <5>2, Zenon
      <4>2. CASE WatcherBlind(o)
        <5>1. fetches' = fetches /\ orders' = orders
          BY <4>2 DEF WatcherBlind, broker
        <5> QED BY <5>1, Zenon
      <4> QED BY <2>6, <4>1, <4>2
    <3> QED BY <2>4, <2>5, <3>1
  <2>7. CASE WatcherGivesUp(o)
    <3>1. fetches' = Append(fetches, Fetch({KeyOf[q]}, FALSE)) /\ latched' = latched /\ orders' = Ended(o, "cancelled")
      BY <1>3, <2>7 DEF WatcherGivesUp, latches
    <3>2. Ended(o, "cancelled")[o].st = "cancelled"
      BY <1>0, OrderEnds DEF OrderStatus
    <3>3. orders'[o].st # "live"
      BY <3>1, <3>2
    <3> QED BY <2>4, <3>1, <3>3
  <2> QED BY <2>6, <2>7 DEF Watcher
<1> QED BY <1>8, <1>9

\* A position request is answered, in its turn, or fails.
LEMMA RequestTurns ==
  ASSUME SymbolTargetsOnly, Exclusive, NEW i \in DOMAIN fetches, FetchArrives(i) \/ FetchFails(i), NEW p \in Pos
  PROVE  OneTurn(p)'
<1>0. TypeOK /\ Linked /\ OneTurn(p)
  BY DEF Exclusive, InTurn
<1>1. /\ UNCHANGED <<net, orders, task, watching>> /\ fetches' = Without(fetches, i)
      /\ \/ cache' = cache /\ latched' = latched
         \/ i = 1 /\ cache' = fetches[i].snap /\ latched' = latched \ fetches[i].rearm
  BY DEF FetchArrives, FetchFails, broker, latches, SymbolTargetsOnly
<1>2. CASE KeyOf[p] \notin fetches[i].rearm
  <2>1. Latched(p) => Latched(p)'
    BY <1>1, <1>2 DEF Latched
  <2> QED BY <1>0, <1>1, <1>2, <2>1, RequestGone
<1>3. CASE KeyOf[p] \in fetches[i].rearm
  <2>1. Awaited(i, p)
    BY <1>0, <1>3, TurnOf DEF Rearming
  <2>2. Sellers(p)' = {} /\ Orders(p)' = {}
    BY <1>1, <2>1 DEF Awaited, Only, Sellers, HasIt, InPlacing, AsksFor, Orders, Asked, Asks, Ids
  <2>4. /\ DOMAIN fetches = 1..Len(fetches) /\ Len(fetches) \in Nat /\ DOMAIN fetches' = 1..Len(fetches) - 1
        /\ \A k \in 1..Len(fetches) - 1 : fetches'[k] = IF k < i THEN fetches[k] ELSE fetches[k + 1]
    BY <1>0, <1>1, OneRequestLess
  <2>5. ASSUME NEW k \in 1..Len(fetches) - 1
        PROVE  \E h \in 1..Len(fetches) \ {i} : fetches'[k] = fetches[h] /\ (i = 1 => h >= i)
    <3>1. k \in 1..Len(fetches) /\ k + 1 \in 1..Len(fetches)
      <4>1. Len(fetches) \in Nat
        BY <2>4
      <4> QED BY <4>1
    <3>2. CASE k < i
      <4>1. k \in 1..Len(fetches) \ {i} /\ fetches'[k] = fetches[k] /\ i # 1
        BY <2>4, <3>1, <3>2
      <4> QED BY <4>1
    <3>3. CASE ~(k < i)
      <4>1. k + 1 \in 1..Len(fetches) \ {i} /\ fetches'[k] = fetches[k + 1] /\ k + 1 >= i
        BY <2>4, <3>1, <3>3
      <4> QED BY <4>1
    <3> QED BY <3>2, <3>3
  <2>6. Rearming(p)' = {}
    <3>1. \A h \in 1..Len(fetches) \ {i} : KeyOf[p] \notin fetches[h].rearm
      BY <2>1, <2>4 DEF Awaited, Only, Rearming
    <3>2. ASSUME NEW k \in Rearming(p)' PROVE FALSE
      BY <2>4, <2>5, <3>1 DEF Rearming
    <3> QED BY <3>2, Zenon
  <2>7. CASE latched' = latched
    <3>1. Idle(p)'
      BY <2>1, <2>2, <2>6, <2>7 DEF Idle, Only, Awaited, Latched
    <3> QED BY <3>1 DEF OneTurn
  <2>8. CASE i = 1 /\ cache' = fetches[i].snap
    <3>1. \A h \in 1..Len(fetches) : h >= i => fetches[h].snap[p] <= net[p]
      BY <2>1, <2>4 DEF Awaited, FreshFrom
    <3>2. cache'[p] <= net'[p]
      BY <1>1, <2>4, <2>8, <3>1
    <3>3. \A k \in 1..Len(fetches) - 1 : fetches'[k].snap[p] <= net'[p]
      BY <1>1, <2>5, <2>8, <3>1
    <3>4. Fresh(p)'
      BY <2>4, <3>2, <3>3 DEF Fresh, FreshFrom
    <3>5. Idle(p)'
      BY <2>2, <2>6, <3>4 DEF Idle, Only
    <3> QED BY <3>5 DEF OneTurn
  <2> QED BY <1>1, <2>7, <2>8
<1> QED BY <1>2, <1>3

\* What the broker does to an order, as far as its position is concerned.
LEMMA BrokerActs ==
  ASSUME TypeOK, NEW o \in Ids, orders[o].st = "live" => orders[o].left > 0, Fill(o) \/ BrokerKills(o)
  PROVE  /\ Kept(orders', o) /\ Ids' = Ids /\ orders[o].st = "live" /\ orders[o].left \in Nat \ {0}
         /\ UNCHANGED <<cache, latched, task, watching, fetches>>
         /\ \/ /\ net' = net /\ orders'[o].left = orders[o].left /\ orders'[o].st # "live"
            \/ \E n \in 1..orders[o].left :
                 /\ net' = [net EXCEPT ![orders[o].pos] = @ - n]
                 /\ orders'[o].left = orders[o].left - n
                 /\ orders'[o].st = IF n = orders[o].left THEN "done" ELSE "live"
         /\ orders'[o].st = "rejected" => orders'[o].left = orders[o].qty
<1>0. TypeOK /\ orders[o].left \in Nat /\ orders[o].qty \in Nat
  BY OrderFields
<1>1. orders[o].st = "live" /\ UNCHANGED <<cache, latched, task, watching, fetches>>
  BY DEF Fill, BrokerKills, Live, latches, background
<1>2. orders[o].left > 0
  BY <1>1
<1>3. CASE Fill(o)
  <2>1. PICK n \in 1..orders[o].left : net' = [net EXCEPT ![orders[o].pos] = @ - n] /\ orders' = Traded(o, n)
    BY <1>3 DEF Fill
  <2>2. /\ Kept(orders', o) /\ orders'[o].left = orders[o].left - n
        /\ orders'[o].st = IF n = orders[o].left THEN "done" ELSE "live"
    BY <1>0, <2>1, OrderTrades
  <2>3. Ids' = Ids
    BY <1>0, <2>2 DEF Kept, Ids, TypeOK
  <2>4. orders[o].left \in Nat \ {0}
    BY <1>0, <1>2
  <2> QED BY <1>1, <2>1, <2>2, <2>3, <2>4, Zenon
<1>4. CASE BrokerKills(o)
  <2>1. PICK st : /\ st \in {"cancelled", "rejected"} /\ orders' = Ended(o, st) /\ net' = net
                  /\ st = "rejected" => orders[o].left = orders[o].qty
    <3>1. PICK st \in {"cancelled"} \cup (IF Filled(o) = 0 THEN {"rejected"} ELSE {}) : orders' = Ended(o, st)
      BY <1>4 DEF BrokerKills
    <3>2. net' = net
      BY <1>4 DEF BrokerKills
    <3>3. Filled(o) = 0 => orders[o].left = orders[o].qty
      BY <1>0 DEF Filled
    <3> QED BY <3>1, <3>2, <3>3
  <2>2. Kept(orders', o) /\ orders'[o].left = orders[o].left /\ orders'[o].st = st
    BY <1>0, <2>1, OrderEnds DEF OrderStatus
  <2>3. Ids' = Ids
    BY <1>0, <2>2 DEF Kept, Ids, TypeOK
  <2> QED BY <1>0, <1>1, <1>2, <2>1, <2>2, <2>3
<1> QED BY <1>3, <1>4

LEMMA BrokerTurns ==
  ASSUME Exclusive, NEW o \in Ids, Fill(o) \/ BrokerKills(o), NEW p \in Pos
  PROVE  OneTurn(p)'
<1>0. /\ TypeOK /\ Linked /\ Plain /\ PlainTasks /\ OneTurn(p) /\ orders[o].pos \in Pos
      /\ orders[o].st = "live" => orders[o].left > 0
  BY OrderFields DEF Exclusive, Plain, PlainOrders, InTurn
<1>1. /\ Kept(orders', o) /\ Ids' = Ids /\ orders[o].st = "live" /\ orders[o].left \in Nat \ {0}
      /\ UNCHANGED <<cache, latched, task, watching, fetches>>
  BY <1>0, BrokerActs
<1>2. \/ net' = net /\ orders'[o].left = orders[o].left
      \/ \E n \in 1..orders[o].left : /\ net' = [net EXCEPT ![orders[o].pos] = @ - n]
                                      /\ orders'[o].left = orders[o].left - n
  BY <1>0, BrokerActs
<1>3. \A w \in Ids : /\ orders'[w].pos = orders[w].pos
                     /\ w # o => orders'[w] = orders[w]
  BY <1>1 DEF Kept
<1>4. CASE p # orders[o].pos
  <2>1. net'[p] = net[p]
    BY <1>0, <1>2, <1>4 DEF TypeOK
  <2>2. Latched(p) => Latched(p)'
    BY <1>1 DEF Latched
  <2> QED BY <1>0, <1>1, <1>3, <1>4, <2>1, <2>2, OthersMove
<1>5. CASE p = orders[o].pos
  <2>1. Sellers(p)' = Sellers(p) /\ Orders(p)' \subseteq Orders(p)
    BY <1>1, <1>3, OrdersOnlyLeave
  <2>2. Rearming(p)' = Rearming(p) /\ (Latched(p)' <=> Latched(p))
    BY <1>1 DEF Rearming, Latched
  <2>3. Whole(o, p) => Whole(o, p)'
    <3>1. CASE net' = net /\ orders'[o].left = orders[o].left
      BY <1>1, <3>1 DEF Whole, Fresh, FreshFrom, Kept
    <3>2. ASSUME NEW n \in 1..orders[o].left, orders'[o].left = orders[o].left - n PROVE Whole(o, p)'
      <4>1. orders[o].left <= orders[o].qty /\ orders[o].qty \in Nat /\ orders'[o].qty = orders[o].qty
        BY <1>0, <1>1, OrderFields DEF Plain, PlainOrders, Kept
      <4>2. orders'[o].left # orders'[o].qty
        BY <1>1, <3>2, <4>1
      <4> QED BY <4>2 DEF Whole
    <3> QED BY <1>2, <3>1, <3>2
  <2>4. CASE Watched(o, p)
    <3>1. Sellers(p)' = {} /\ Orders(p)' \subseteq {o} /\ Rearming(p)' = {} /\ Latched(p)' /\ Whole(o, p)'
      BY <2>1, <2>2, <2>3, <2>4 DEF Watched, Only
    <3>2. CASE Orders(p)' = {}
      <4>1. Idle(p)'
        BY <3>1, <3>2 DEF Idle, Only
      <4> QED BY <4>1 DEF OneTurn
    <3>3. CASE Orders(p)' = {o}
      <4>1. Watched(o, p)' /\ o \in Ids'
        BY <1>1, <3>1, <3>3 DEF Watched, Only
      <4> QED BY <4>1 DEF OneTurn
    <3> QED BY <3>1, <3>2, <3>3
  <2>5. ASSUME NEW t \in Task, Sold(t, p), Asks(task[t], o), Asking(task[t], p) PROVE OneTurn(p)'
    <3>1. Only(p, {t}, {}, {})' /\ Latched(p)'
      BY <2>1, <2>2, <2>5 DEF Sold, Only
    <3>2. task[t].order = o /\ o # 0
      BY <1>0, <2>5, IdsAreFinite DEF Asks
    <3>3. Whole(o, p)'
      BY <2>3, <2>5, <3>2 DEF Asking
    <3>4. Asking(task[t], p)'
      BY <1>1, <2>5, <3>2, <3>3 DEF Asking, AsksFor
    <3>5. Sold(t, p)'
      BY <3>1, <3>4 DEF Sold, Selling
    <3> QED BY <3>5 DEF OneTurn
  <2>6. o \in Live
    BY <1>1 DEF Live
  <2> QED BY <1>0, <1>5, <2>4, <2>5, <2>6, LiveIsHeld
<1> QED BY <1>4, <1>5

LEMMA TurnsKept == SymbolTargetsOnly /\ Exclusive /\ TypeOK' /\ [Next]_vars => InTurn'
<1> SUFFICES ASSUME SymbolTargetsOnly, Exclusive, TypeOK', [Next]_vars, NEW p \in Pos PROVE OneTurn(p)'
  BY DEF InTurn
<1>0. TypeOK /\ Linked /\ Plain /\ PlainTasks /\ OneTurn(p)
  BY DEF Exclusive, Plain, InTurn
<1>1. ASSUME NEW t \in Task, NEW k \in Key, SymbolFires(t, k) PROVE OneTurn(p)'
  <2>0. PICK S \in SUBSET Pos : S = {q \in Pos : KeyOf[q] = k /\ cache[q] > 0}
    OBVIOUS
  <2>1. /\ task[t] = Resting /\ k \notin latched /\ latched' = latched \cup {k} /\ PlaceAll(t, k, "symbol", S)
        /\ UNCHANGED <<net, cache, fetches, orders, watching>>
    BY <1>1, <2>0 DEF SymbolFires, MayFire, broker, background
  <2>2. PICK j \in PlaceJob :
          /\ task' = [task EXCEPT ![t] = j] /\ j.at = "place" /\ j.queue = S /\ j.size = cache
          /\ j.pend = PendingExits /\ j.bad = {}
    <3>1. PICK j \in PlaceJob : task' = [task EXCEPT ![t] = j] /\ JustFired(j, k, S)
      BY <1>0, <2>1, FiringJob
    <3> QED BY <3>1 DEF JustFired
  <2>3. task[t].at \notin {"place", "answer"}
    BY <2>1 DEF Resting
  <2>4. Latched(p) => Latched(p)'
    BY <2>1 DEF Latched
  <2>5. p \in j.queue => ~Latched(p) /\ cache[p] > 0 /\ Latched(p)'
    BY <2>0, <2>1, <2>2 DEF Latched
  <2> QED BY <1>0, <2>1, <2>2, <2>3, <2>4, <2>5, TargetFires
<1>2. ASSUME NEW t \in Task, ExchangeFires(t) PROVE OneTurn(p)'
  <2>0. PICK S \in SUBSET Pos : S = {q \in Pos : KeyOf[q] \notin latched /\ cache[q] > 0}
    OBVIOUS
  <2>1. /\ task[t].at = "lot" /\ latched' = Key /\ PlaceAll(t, task[t].key, "exchange", S)
        /\ UNCHANGED <<net, cache, fetches, orders, watching>>
    BY <1>2, <2>0 DEF ExchangeFires, broker, background
  <2>2. task[t].key \in Key
    BY <1>0, <2>1, KindOfJob DEF TypeOK, LotJob
  <2>3. PICK j \in PlaceJob :
          /\ task' = [task EXCEPT ![t] = j] /\ j.at = "place" /\ j.queue = S /\ j.size = cache
          /\ j.pend = PendingExits /\ j.bad = {}
    <3>1. PICK j \in PlaceJob : task' = [task EXCEPT ![t] = j] /\ JustFired(j, task[t].key, S)
      BY <1>0, <2>1, <2>2, FiringJob
    <3> QED BY <3>1 DEF JustFired
  <2>4. Latched(p)'
    BY <2>1 DEF Latched
  <2>5. p \in j.queue => ~Latched(p) /\ cache[p] > 0
    BY <2>0, <2>1, <2>3 DEF Latched
  <2> QED BY <1>0, <2>1, <2>3, <2>4, <2>5, TargetFires
<1>3. ASSUME NEW t \in Task, NEW k \in Key, SymbolPasses(t, k) \/ TickEnds(t) PROVE OneTurn(p)'
  <2>1. PICK j : task' = [task EXCEPT ![t] = j] /\ j.at \in {"lot", "idle"}
    <3>1. CASE SymbolPasses(t, k)
      BY <1>0, <3>1, LotLoopJob DEF SymbolPasses
    <3>2. CASE TickEnds(t)
      <4>1. Resting.at = "idle"
        BY DEF Resting
      <4>2. task' = [task EXCEPT ![t] = Resting]
        BY <3>2 DEF TickEnds
      <4> QED BY <4>1, <4>2
    <3> QED BY <1>3, <3>1, <3>2
  <2>2. UNCHANGED <<net, cache, fetches, orders, watching, latched>> /\ task[t].at \in {"lot", "idle"}
    BY <1>3 DEF SymbolPasses, TickEnds, Resting, broker, latches, background
  <2>3. ~HasIt(j, p) /\ ~HasIt(task[t], p) /\ (Latched(p) => Latched(p)')
    BY <2>1, <2>2 DEF HasIt, InPlacing, Latched
  <2> QED BY <1>0, <2>1, <2>2, <2>3, BystanderMoves
<1>4. ASSUME NEW t \in Task, SymbolPlaced(t) \/ ExchangePlaced(t) PROVE OneTurn(p)'
  <2>1. /\ task[t].at = "place" /\ task[t].queue = {} /\ latched' = latched \ task[t].bad
        /\ UNCHANGED <<net, cache, fetches, orders, watching>>
    BY <1>4 DEF SymbolPlaced, ExchangePlaced, StillLatched, broker, background
  <2>2. PICK j : task' = [task EXCEPT ![t] = j] /\ j.at \in {"lot", "idle"}
    <3>1. task[t].key \in Key
      BY <1>0, <2>1, KindOfJob DEF TypeOK, PlaceJob
    <3>2. CASE SymbolPlaced(t)
      BY <1>0, <3>1, <3>2, LotLoopJob DEF SymbolPlaced
    <3>3. CASE ExchangePlaced(t)
      <4>1. Resting.at = "idle"
        BY DEF Resting
      <4>2. task' = [task EXCEPT ![t] = Resting]
        BY <3>3 DEF ExchangePlaced
      <4> QED BY <4>1, <4>2
    <3> QED BY <1>4, <3>2, <3>3
  <2> QED BY <2>1, <2>2, TargetIsDone
<1>5. CASE Refresh
  <2>1. UNCHANGED <<net, cache, orders, task, watching, latched>> /\ fetches' = Append(fetches, Fetch({}, TRUE))
    BY <1>5 DEF Refresh, broker, latches
  <2>2. PICK r \in Request : r = Fetch({}, TRUE) /\ r.snap = net /\ r.rearm = {}
    <3>1. Fetch({}, TRUE) \in Request /\ Fetch({}, TRUE).snap = net /\ Fetch({}, TRUE).rearm = {}
      BY <1>0 DEF Fetch, Request, TypeOK
    <3> QED BY <3>1, Zenon
  <2>3. r.snap[p] <= net[p] /\ KeyOf[p] \notin r.rearm
    <3>1. r.snap[p] = net[p] /\ r.rearm = {} /\ net[p] \in Int
      BY <1>0, <2>2 DEF TypeOK
    <3> QED BY <3>1
  <2>4. Ids' = Ids /\ (Latched(p) => Latched(p)')
    BY <2>1 DEF Ids, Latched
  <2> QED BY <1>0, <2>1, <2>2, <2>3, <2>4, OthersMove
<1>6. ASSUME UNCHANGED <<net, cache, orders, task, watching, fetches, latched>> PROVE OneTurn(p)'
  <2>1. Ids' = Ids /\ (Latched(p) => Latched(p)')
    BY <1>6 DEF Ids, Latched
  <2> QED BY <1>0, <1>6, <2>1, OthersMove
<1>7. ASSUME NEW o \in Ids, BookAutoExit(o) PROVE OneTurn(p)'
  BY <1>6, <1>7 DEF BookAutoExit, broker, latches
<1> QED
  <2>1. CASE \E t \in Task : NewTick(t) \/ TickStep(t)
    <3>1. PICK t \in Task : NewTick(t) \/ TickStep(t)
      BY <2>1
    <3>2. CASE NewTick(t)
      BY <1>1, <1>3, <3>2 DEF NewTick
    <3>3. CASE TickStep(t)
      <4>1. \/ \E q \in Pos : PlaceOne(t, q)
            \/ Placed(t) \/ SymbolPlaced(t) \/ ExchangeFires(t) \/ ExchangePlaced(t) \/ TickEnds(t)
        BY <3>3, NeverHappens DEF TickStep
      <4>2. \A q \in Pos : PlaceOne(t, q) => OneTurn(p)'
        BY OrderGoesOut
      <4>3. Placed(t) => OneTurn(p)'
        BY AnswerArrives
      <4>4. TickEnds(t) => OneTurn(p)'
        BY <1>3
      <4> QED BY <1>2, <1>4, <4>1, <4>2, <4>3, <4>4
    <3> QED BY <3>1, <3>2, <3>3
  <2>2. CASE \E o \in Ids : Watcher(o) \/ Reconcile(o) \/ Fill(o) \/ BrokerKills(o)
    BY <1>7, <2>2, NeverHappens, WatcherTurns, BrokerTurns DEF Reconcile
  <2>3. CASE (\E k \in Key : Reenable(k)) \/ Fetching
    BY <2>3, NeverHappens, RequestTurns DEF Fetching
  <2>4. CASE UNCHANGED vars
    BY <1>6, <2>4 DEF vars, broker, latches, background
  <2> QED BY <1>5, <2>1, <2>2, <2>3, <2>4 DEF Next

LEMMA LiveOrders ==
  ASSUME TypeOK, NEW p \in Pos
  PROVE  /\ LiveAt(p) \subseteq Ids /\ IsFiniteSet(LiveAt(p)) /\ \A o \in LiveAt(p) : Unfilled[o] \in Nat
         /\ Working[p] = SumFunctionOnSet(Unfilled, LiveAt(p)) /\ Working[p] \in Nat
<1>1. LiveAt(p) \subseteq Ids
  BY DEF LiveAt, Live
<1>2. IsFiniteSet(LiveAt(p))
  BY <1>1, IdsAreFinite, FS_Subset
<1>3. \A o \in LiveAt(p) : Unfilled[o] \in Nat
  BY <1>1, OrderFields DEF Unfilled
<1>4. SumFunctionOnSet(Unfilled, LiveAt(p)) \in Nat
  BY <1>2, <1>3, SumNonNegative
<1> QED BY <1>1, <1>2, <1>3, <1>4 DEF Working

\* What is working changes with the live orders of a position only.
LEMMA WorkingKept ==
  ASSUME TypeOK, TypeOK', NEW p \in Pos, LiveAt(p)' = LiveAt(p),
         \A o \in LiveAt(p) : orders'[o].left = orders[o].left
  PROVE  Working'[p] = Working[p]
<1> DEFINE f == Unfilled
<1> DEFINE g == Unfilled'
<1> DEFINE S == LiveAt(p)
<1>1. IsFiniteSet(S) /\ S \subseteq Ids /\ S \subseteq Ids'
  BY LiveOrders DEF LiveAt, Live
<1>2. \A o \in S : f[o] = g[o]
  BY <1>1 DEF Unfilled
<1>3. Working[p] = SumFunctionOnSet(f, S) /\ Working'[p] = SumFunctionOnSet(g, S)
  BY DEF Working
<1> HIDE DEF f, g, S
<1>4. SumFunctionOnSet(f, S) = SumFunctionOnSet(g, S)
  BY <1>1, <1>2, SumSame
<1> QED BY <1>3, <1>4

LEMMA WorkingFalls ==
  ASSUME TypeOK, TypeOK', NEW o \in Live, NEW p \in Pos, orders[o].pos = p, NEW n \in Nat,
         n <= orders[o].left, Kept(orders', o), Ids' = Ids,
         \/ orders'[o].st # "live" /\ n = orders[o].left
         \/ orders'[o].st = "live" /\ orders'[o].left = orders[o].left - n
  PROVE  Working'[p] = Working[p] - n
<1> DEFINE f == Unfilled
<1> DEFINE g == Unfilled'
<1> DEFINE S == LiveAt(p)
<1> DEFINE R == LiveAt(p)'
<1>1. /\ IsFiniteSet(S) /\ S \subseteq Ids /\ o \in S /\ \A x \in S : f[x] \in Nat
      /\ orders[o].left \in Nat /\ f[o] = orders[o].left
  BY LiveOrders, OrderFields DEF LiveAt, Live, Unfilled
<1>2. \A x \in S \ {o} : f[x] = g[x] /\ orders'[x] = orders[x]
  BY <1>1 DEF Kept, Unfilled
<1>3. Working[p] = SumFunctionOnSet(f, S) /\ Working'[p] = SumFunctionOnSet(g, R)
  BY DEF Working
<1>4. SumFunctionOnSet(f, S) \in Nat
  BY LiveOrders
<1>5. CASE orders'[o].st # "live" /\ n = orders[o].left
  <2>1. R = S \ {o}
    BY <1>5 DEF LiveAt, Live, Kept
  <2>2. IsFiniteSet(S \ {o})
    BY <1>1, FS_Subset
  <2> HIDE DEF f, g, S, R
  <2>3. SumFunctionOnSet(f, S) = f[o] + SumFunctionOnSet(f, S \ {o})
    BY <1>1, SumTake
  <2>4. SumFunctionOnSet(f, S \ {o}) = SumFunctionOnSet(g, S \ {o})
    BY <1>2, <2>2, SumSame
  <2>5. SumFunctionOnSet(f, S \ {o}) \in Nat
    BY <1>1, <2>2, SumNonNegative
  <2> QED BY <1>1, <1>3, <1>4, <1>5, <2>1, <2>3, <2>4, <2>5
<1>6. CASE orders'[o].st = "live" /\ orders'[o].left = orders[o].left - n
  <2>1. R = S
    BY <1>6 DEF LiveAt, Live, Kept
  <2>2. g[o] = f[o] - n
    BY <1>1, <1>6 DEF Unfilled
  <2> HIDE DEF f, g, S, R
  <2>3. PICK T : T = S \ {o} /\ IsFiniteSet(T)
    <3>1. IsFiniteSet(S \ {o})
      BY <1>1, FS_Subset
    <3> QED BY <3>1
  <2>4. SumFunctionOnSet(f, S) = f[o] + SumFunctionOnSet(f, T)
    BY <1>1, <2>3, SumTake
  <2>5. SumFunctionOnSet(g, S) = g[o] + SumFunctionOnSet(g, T)
    <3>1. g[o] \in Int
      BY <1>1, <2>2
    <3>2. \A x \in S : g[x] \in Int
      BY <1>1, <1>2, <3>1
    <3> QED BY <1>1, <2>3, <3>2, SumTake
  <2>6. SumFunctionOnSet(f, T) = SumFunctionOnSet(g, T)
    BY <1>2, <2>3, SumSame
  <2>7. SumFunctionOnSet(f, T) \in Nat
    BY <1>1, <2>3, SumNonNegative
  <2> QED BY <1>1, <1>3, <2>1, <2>2, <2>4, <2>5, <2>6, <2>7
<1> QED BY <1>5, <1>6

\* The abstract desk: what is held is the net position, and what works at the broker
\* the unfilled shares of the live exit orders.
Desk == INSTANCE ExitDesk WITH held <- net, working <- Working

\* Only one position's working shares change at a time.
OnlyAt(p) == Working' = [Working EXCEPT ![p] = Working'[p]]

LEMMA OneChanges ==
  ASSUME NEW p \in Pos, \A q \in Pos \ {p} : Working'[q] = Working[q]
  PROVE  OnlyAt(p)
<1>1. Working \in [Pos -> {Working[q] : q \in Pos}]
  BY DEF Working
<1>2. Working' = [q \in Pos |-> Working'[q]]
  BY DEF Working
<1> QED BY <1>1, <1>2 DEF OnlyAt

\* What one step does to the account and the orders working.
LEMMA AccountKept ==
  ASSUME net' = net, Working' = Working PROVE [Desk!DeskNext]_<<net, Working>>
  OBVIOUS

LEMMA OrderIsCommitted ==
  ASSUME SymbolTargetsOnly, Exclusive, TypeOK', NEW t \in Task, NEW q \in Pos, PlaceOne(t, q)
  PROVE  [Desk!DeskNext]_<<net, Working>>
<1>0. TypeOK /\ Linked /\ Plain /\ PlainTasks /\ OneTurn(q)
  BY DEF Exclusive, Plain, InTurn
<1>1. PICK j \in PlaceJob, x \in ExitOrder, ok \in BOOLEAN, n \in Nat :
        /\ n = Len(orders) + 1
        /\ task[t] \in PlaceJob /\ task[t].at = "place" /\ q \in task[t].queue
        /\ orders' = Append(orders, x) /\ x.pos = q /\ x.left = x.qty
        /\ x.qty = task[t].size[q] - task[t].pend[q] /\ x.st \in {"live", "rejected"}
  <2>1. PICK j \in PlaceJob, x \in ExitOrder, ok \in BOOLEAN, n \in Nat : OrderSent(t, q, j, x, ok, n)
    BY <1>0, PlaceOneJob
  <2> QED BY <2>1 DEF OrderSent
<1>2. exits' = Append(exits, "none") /\ net' = net
  BY DEF PlaceOne
<1>3. Ids' = Ids \cup {n} /\ n \notin Ids /\ Ids = 1..Len(orders)
  BY <1>0, <1>1, <1>2, NewOrderTyped, IdsAreFinite DEF RowStatus
<1>4. orders'[n] = x /\ \A o \in Ids : orders'[o] = orders[o]
  BY <1>0, <1>1, <1>3 DEF TypeOK
<1>5. Sold(t, q) /\ Due(task[t], q)
  <2>1. HasIt(task[t], q) /\ ~AsksFor(task[t], q)
    BY <1>1 DEF HasIt, InPlacing, AsksFor
  <2> QED BY <1>0, <1>1, <2>1, TurnOf DEF Sold, Selling, Asking, Failed
<1>6. LiveAt(q) = {}
  <2> SUFFICES ASSUME NEW o \in LiveAt(q) PROVE FALSE
    OBVIOUS
  <2>1. o \in Live /\ orders[o].pos = q
    BY DEF LiveAt
  <2>2. ~Watched(o, q)
    BY <1>5 DEF Watched, Sold, Only
  <2>3. PICK u \in Task : Sold(u, q) /\ AsksFor(task[u], q)
    BY <1>0, <2>1, <2>2, LiveIsHeld
  <2>4. u = t
    BY <1>5, <2>3 DEF Sold, Only
  <2> QED BY <1>5, <2>3, <2>4 DEF Due
<1>7. ASSUME NEW p \in Pos, p # q \/ x.st # "live" PROVE Working'[p] = Working[p]
  <2>1. \A o \in Ids : o \in LiveAt(p)' <=> o \in LiveAt(p)
    BY <1>3, <1>4 DEF LiveAt, Live
  <2>2. n \notin LiveAt(p)'
    BY <1>1, <1>4, <1>7 DEF LiveAt, Live
  <2>3. LiveAt(p)' = LiveAt(p)
    BY <1>3, <2>1, <2>2 DEF LiveAt, Live
  <2>4. \A o \in LiveAt(p) : orders'[o].left = orders[o].left
    BY <1>4 DEF LiveAt, Live
  <2> QED BY <1>0, <2>3, <2>4, WorkingKept
<1>8. CASE x.st # "live"
  <2>1. Working' = Working
    BY <1>7, <1>8 DEF Working
  <2> QED BY <1>2, <2>1, AccountKept
<1>9. CASE x.st = "live"
  <2>1. Working[q] = 0
    BY <1>6, SumEmpty DEF Working
  <2>2. LiveAt(q)' = {n}
    <3>1. \A o \in Ids : o \notin LiveAt(q)'
      BY <1>4, <1>6 DEF LiveAt, Live
    <3>2. n \in LiveAt(q)'
      BY <1>1, <1>3, <1>4, <1>9 DEF LiveAt, Live
    <3> QED BY <1>3, <3>1, <3>2 DEF LiveAt, Live
  <2>3. Working'[q] = x.qty
    <3> DEFINE g == Unfilled'
    <3>1. g[n] = x.qty /\ x.qty \in Int
      BY <1>1, <1>3, <1>4 DEF Unfilled, ExitOrder
    <3>2. Working'[q] = SumFunctionOnSet(g, {n})
      BY <2>2 DEF Working
    <3> HIDE DEF g
    <3>3. SumFunctionOnSet(g, {n}) = g[n]
      BY <3>1, SumSingle
    <3> QED BY <3>1, <3>2, <3>3
  <2>4. 0 < x.qty /\ x.qty <= net[q]
    <3>1. task[t].size[q] \in Int /\ task[t].pend[q] = 0 /\ task[t].size[q] <= net[q]
      BY <1>1, <1>5 DEF PlaceJob, Due
    <3>2. x.qty = task[t].size[q] /\ x.qty \in Nat \ {0}
      BY <1>1, <3>1 DEF ExitOrder
    <3> QED BY <3>1, <3>2
  <2>5. OnlyAt(q)
    BY <1>7, OneChanges
  <2>6. Desk!Commit(q)
    BY <1>2, <2>1, <2>3, <2>4, <2>5 DEF Desk!Commit, OnlyAt
  <2> QED BY <2>6 DEF Desk!DeskNext
<1> QED BY <1>8, <1>9

LEMMA OrderEndsAtDesk ==
  ASSUME TypeOK, TypeOK', NEW o \in Live, Kept(orders', o), Ids' = Ids, NEW n \in Nat, n > 0, n <= orders[o].left,
         \/ orders'[o].st # "live" /\ n = orders[o].left
         \/ orders'[o].st = "live" /\ orders'[o].left = orders[o].left - n,
         net' = net \/ net' = [net EXCEPT ![orders[o].pos] = @ - n]
  PROVE  [Desk!DeskNext]_<<net, Working>>
<1>1. PICK q \in Pos : q = orders[o].pos
  BY OrderFields DEF Live
<1>2. Working'[q] = Working[q] - n /\ Working[q] \in Nat
  BY <1>1, WorkingFalls, LiveOrders
<1>3. ASSUME NEW p \in Pos \ {q} PROVE Working'[p] = Working[p]
  <2>1. \A w \in Ids : orders'[w].pos = p \/ orders[w].pos = p => orders'[w] = orders[w]
    BY <1>1 DEF Kept
  <2>2. LiveAt(p)' = LiveAt(p) /\ \A w \in LiveAt(p) : orders'[w].left = orders[w].left
    BY <2>1 DEF LiveAt, Live
  <2> QED BY <2>2, WorkingKept
<1>4. OnlyAt(q)
  BY <1>3, OneChanges
<1>5. CASE net' = net
  <2>1. Desk!Withdraw(q)
    BY <1>2, <1>4, <1>5 DEF Desk!Withdraw, OnlyAt
  <2> QED BY <2>1 DEF Desk!DeskNext
<1>6. CASE net' = [net EXCEPT ![orders[o].pos] = @ - n]
  <2>1. net[q] \in Int /\ net'[q] = net[q] - n /\ net' = [net EXCEPT ![q] = net'[q]]
    BY <1>1, <1>6 DEF TypeOK
  <2>2. net'[q] < net[q] /\ net[q] - net'[q] = Working[q] - Working'[q]
    BY <1>2, <2>1
  <2>3. Desk!Trade(q)
    BY <1>4, <2>1, <2>2 DEF Desk!Trade, OnlyAt
  <2> QED BY <2>3 DEF Desk!DeskNext
<1> QED BY <1>5, <1>6

LEMMA WatcherEndsOrder ==
  ASSUME Exclusive, TypeOK', NEW o \in Ids, WatcherGivesUp(o)
  PROVE  [Desk!DeskNext]_<<net, Working>>
<1>1. TypeOK /\ o \in Live /\ orders[o].left \in Nat \ {0} /\ orders' = Ended(o, "cancelled") /\ net' = net
  BY OrderFields DEF Exclusive, Plain, PlainOrders, WatcherGivesUp, Live
<1>2. Kept(orders', o) /\ orders'[o].left = orders[o].left /\ orders'[o].st = "cancelled"
  BY <1>1, OrderEnds DEF OrderStatus
<1>3. Ids' = Ids
  BY <1>1, <1>2 DEF Kept, Ids, TypeOK
<1> QED
  <2>1. PICK n \in Nat : n = orders[o].left
    BY <1>1
  <2> QED BY <1>1, <1>2, <1>3, <2>1, OrderEndsAtDesk

LEMMA BrokerAtDesk ==
  ASSUME TypeOK, TypeOK', NEW o \in Ids, orders[o].st = "live" => orders[o].left > 0, Fill(o) \/ BrokerKills(o)
  PROVE  [Desk!DeskNext]_<<net, Working>>
<1>0. TypeOK
  OBVIOUS
<1>1. Kept(orders', o) /\ Ids' = Ids /\ orders[o].st = "live" /\ orders[o].left \in Nat \ {0} /\ o \in Live
  BY BrokerActs DEF Live
<1>2. CASE net' = net /\ orders'[o].left = orders[o].left /\ orders'[o].st # "live"
  <2>1. PICK n \in Nat : n = orders[o].left
    BY <1>1
  <2> QED BY <1>0, <1>1, <1>2, <2>1, OrderEndsAtDesk
<1>3. ASSUME NEW n \in 1..orders[o].left,
             net' = [net EXCEPT ![orders[o].pos] = @ - n], orders'[o].left = orders[o].left - n,
             orders'[o].st = IF n = orders[o].left THEN "done" ELSE "live"
      PROVE  [Desk!DeskNext]_<<net, Working>>
  <2>1. n \in Nat /\ n > 0 /\ n <= orders[o].left
    BY <1>1
  <2>2. \/ orders'[o].st # "live" /\ n = orders[o].left
        \/ orders'[o].st = "live" /\ orders'[o].left = orders[o].left - n
    BY <1>3
  <2> QED BY <1>0, <1>1, <1>3, <2>1, <2>2, OrderEndsAtDesk
<1> QED BY <1>2, <1>3, BrokerActs

\* Every step moves the account as the desk allows, or leaves it alone.
LEMMA DeskStep == SymbolTargetsOnly /\ Exclusive /\ TypeOK' /\ [Next]_vars => [Desk!DeskNext]_<<net, Working>>
<1> SUFFICES ASSUME SymbolTargetsOnly, Exclusive, TypeOK', [Next]_vars PROVE [Desk!DeskNext]_<<net, Working>>
  OBVIOUS
<1>1. ASSUME net' = net, orders' = orders PROVE [Desk!DeskNext]_<<net, Working>>
  <2>1. Working' = Working
    BY <1>1 DEF Working, LiveAt, Live, Unfilled, Ids
  <2> QED BY <1>1, <2>1, AccountKept
<1>2. CASE \E t \in Task : NewTick(t) \/ TickStep(t)
  <2>1. PICK t \in Task : NewTick(t) \/ TickStep(t)
    BY <1>2
  <2>2. CASE NewTick(t)
    BY <1>1, <2>2 DEF NewTick, SymbolFires, SymbolPasses, broker
  <2>3. CASE TickStep(t)
    <3>1. \/ \E q \in Pos : PlaceOne(t, q)
          \/ Placed(t) \/ SymbolPlaced(t) \/ ExchangeFires(t) \/ ExchangePlaced(t) \/ TickEnds(t)
      BY <2>3, NeverHappens DEF TickStep
    <3>2. \A q \in Pos : PlaceOne(t, q) => [Desk!DeskNext]_<<net, Working>>
      BY OrderIsCommitted
    <3>3. Placed(t) \/ SymbolPlaced(t) \/ ExchangeFires(t) \/ ExchangePlaced(t) \/ TickEnds(t)
            => net' = net /\ orders' = orders
      BY DEF Placed, SymbolPlaced, ExchangeFires, ExchangePlaced, TickEnds, broker
    <3> QED BY <1>1, <3>1, <3>2, <3>3
  <2> QED BY <2>1, <2>2, <2>3
<1>3. CASE \E o \in Ids : Watcher(o) \/ Reconcile(o) \/ Fill(o) \/ BrokerKills(o)
  <2>1. PICK o \in Ids : Watcher(o) \/ Reconcile(o) \/ Fill(o) \/ BrokerKills(o)
    BY <1>3
  <2>2. WatcherSees(o) \/ WatcherBlind(o) \/ BookAutoExit(o) => net' = net /\ orders' = orders
    BY DEF WatcherSees, WatcherBlind, BookAutoExit, broker
  <2>3. ~BookLotExit(o) /\ ~CancelSibling(o)
    BY NeverHappens
  <2>4. TypeOK /\ (orders[o].st = "live" => orders[o].left > 0)
    BY DEF Exclusive, Plain, PlainOrders
  <2> QED BY <1>1, <2>1, <2>2, <2>3, <2>4, WatcherEndsOrder, BrokerAtDesk DEF Watcher, Reconcile
<1>4. CASE (\E k \in Key : Reenable(k)) \/ Fetching \/ Refresh
  <2>1. Fetching \/ Refresh
    BY <1>4, NeverHappens
  <2>2. net' = net /\ orders' = orders
    BY <2>1 DEF Fetching, FetchArrives, FetchFails, Refresh, broker
  <2> QED BY <1>1, <2>2
<1>5. CASE UNCHANGED vars
  BY <1>1, <1>5 DEF vars, broker
<1> QED BY <1>2, <1>3, <1>4, <1>5 DEF Next

LEMMA StartsInTurn == SymbolTargetsOnly /\ Init => Plain /\ InTurn /\ Desk!DeskInit
<1> SUFFICES ASSUME SymbolTargetsOnly, Init PROVE Plain /\ InTurn /\ Desk!DeskInit
  OBVIOUS
<1>1. Ids = {} /\ Live = {} /\ DOMAIN fetches = {} /\ watching = {} /\ latched = {}
  BY DEF Init, Ids, Live
<1>2. \A t \in Task : task[t].at = "idle"
  BY DEF Init, Resting
<1>3. Plain
  BY <1>1, <1>2 DEF Init, SymbolTargetsOnly, Plain, PlainOrders, PlainTasks
<1>4. ASSUME NEW p \in Pos PROVE OneTurn(p)
  <2>1. Sellers(p) = {} /\ Orders(p) = {} /\ Rearming(p) = {}
    BY <1>1, <1>2 DEF Sellers, HasIt, InPlacing, Orders, Rearming
  <2>2. Fresh(p)
    BY <1>1 DEF Init, Fresh, FreshFrom
  <2> QED BY <2>1, <2>2 DEF OneTurn, Idle, Only
<1>5. ASSUME NEW p \in Pos PROVE Working[p] = 0
  <2>1. LiveAt(p) = {}
    BY <1>1 DEF LiveAt
  <2> QED BY <2>1, SumEmpty DEF Working
<1>6. Working = [p \in Pos |-> 0]
  BY <1>5 DEF Working
<1> QED BY <1>3, <1>4, <1>6 DEF InTurn, Desk!DeskInit, Init

\* Symbol and exchange targets keep the promise of the exit desk: whatever the order
\* in which ticks, order answers, watchers, position requests and the broker take
\* their turns, and whatever the number of contracts and coroutines, _on_target_tick
\* and _place_exit_orders place an exit only for shares that no other exit order is
\* selling, and the position never turns over, whether the orders trade in part, are
\* killed by the broker or cancelled by _watch_auto_exit_order, whether or not it
\* hears of it, and whether or not the refresh before re-arming fails.
THEOREM ExitsKeepTheDesk == ASSUME SymbolTargetsOnly PROVE Spec => Desk!DeskSpec
<1> USE SymbolTargetsOnly
<1>1. Init => Exclusive /\ Desk!DeskInit
  BY StartsTyped, StartsInTurn DEF Exclusive
<1>2. Exclusive /\ [Next]_vars => Exclusive'
  BY Typed, StaysPlain, TurnsKept DEF Exclusive
<1>3. Exclusive /\ Exclusive' /\ [Next]_vars => [Desk!DeskNext]_(Desk!deskVars)
  BY DeskStep DEF Exclusive, Desk!deskVars
<1> QED BY <1>1, <1>2, <1>3, PTL DEF Spec, Desk!DeskSpec

Counted == \A p \in Pos : Working[p] \in Nat

LEMMA StaysCovered ==
  ASSUME TypeOK, TypeOK', Counted, Counted', Desk!CoveredByHolding, [Desk!DeskNext]_<<net, Working>>
  PROVE  Desk!CoveredByHolding'
<1> SUFFICES ASSUME NEW q \in Pos PROVE 0 <= Working'[q] /\ Working'[q] <= net'[q]
  BY DEF Desk!CoveredByHolding
<1>1. Working[q] \in Nat /\ Working'[q] \in Nat /\ net[q] \in Int /\ net'[q] \in Int /\ Working[q] <= net[q]
  BY DEF Counted, TypeOK, Desk!CoveredByHolding
<1>2. CASE net'[q] = net[q] /\ Working'[q] = Working[q]
  BY <1>1, <1>2
<1>3. ASSUME NEW p \in Pos, Desk!Commit(p) \/ Desk!Trade(p) \/ Desk!Withdraw(p) PROVE Working'[q] <= net'[q]
  <2>1. DOMAIN Working = Pos /\ DOMAIN net = Pos
    BY DEF Working, TypeOK
  <2>2. CASE p # q
    <3>1. Working'[q] = Working[q] /\ net'[q] = net[q]
      BY <1>3, <2>1, <2>2 DEF Desk!Commit, Desk!Trade, Desk!Withdraw
    <3> QED BY <1>1, <3>1
  <2>3. CASE p = q
    BY <1>1, <1>3, <2>3 DEF Desk!Commit, Desk!Trade, Desk!Withdraw
  <2> QED BY <2>2, <2>3
<1> QED BY <1>1, <1>2, <1>3 DEF Desk!DeskNext

\* The account of symbol and exchange targets is never oversold: the shares of all exit
\* orders that still work at the broker, those of a tick that has just called placeOrder
\* and of a watcher that has stopped looking among them, are all held, so that no fill
\* of theirs can make the position short.
THEOREM NeverOversold == ASSUME SymbolTargetsOnly PROVE Spec => []Desk!CoveredByHolding
<1> USE SymbolTargetsOnly
<1>1. Init => Exclusive /\ Desk!CoveredByHolding
  <2>1. Init => Exclusive /\ Desk!DeskInit
    BY StartsTyped, StartsInTurn DEF Exclusive
  <2> QED BY <2>1 DEF Desk!DeskInit, Desk!CoveredByHolding
<1>2. Exclusive /\ [Next]_vars => Exclusive'
  BY Typed, StaysPlain, TurnsKept DEF Exclusive
<1>3. Exclusive => Counted
  BY LiveOrders DEF Exclusive, Counted
<1>4. Exclusive /\ Exclusive' /\ Counted /\ Counted' /\ Desk!CoveredByHolding /\ [Next]_vars => Desk!CoveredByHolding'
  BY DeskStep, StaysCovered DEF Exclusive
<1> QED BY <1>1, <1>2, <1>3, <1>4, PTL DEF Spec

-----------------------------------------------------------------------------
(* The targets of single lots                                              *)

\* The targets are those of lots, and the broker answers every placement truly.
LotTargetsOnly == SymTargets = {} /\ ~ExchTarget /\ "placement_lost" \notin Faults

\* What the own row of a lot's exits have booked.  The rest of the lot is its own exits'
\* to sell, although a fill of another lot's exit may have closed some of it already.
OwnFills(l) == [o \in Ids |-> IF orders[o].lot = l /\ exits[o] = "FILLED" THEN Filled(o) ELSE 0]
OwnBooked(l) == SumFunctionOnSet(OwnFills(l), Ids)

\* The row of an exit may still book something.
Unsettled(o) == exits[o] # "FILLED" /\ (exits[o] = "PENDING" \/ orders[o].left # orders[o].qty)

\* An order rests for a lot whose own exits have left that much; one that is rejected
\* has filled nothing, and the row of one that filled is given up for a closed lot only.
LotOrder(o) ==
  /\ exits[o] # "none"
  /\ orders[o].st = "live" => exits[o] = "PENDING" /\ orders[o].left > 0
  /\ orders[o].st = "rejected" => orders[o].left = orders[o].qty
  /\ Unsettled(o) => orders[o].qty + OwnBooked(orders[o].lot) <= LotQty[orders[o].lot]
  /\ Unsettled(o) /\ exits[o] # "PENDING" => lotOpen[orders[o].lot] = 0
LotOrders == \A o \in Ids : LotOrder(o)

\* A lot has one exit that is not settled.
OneEach ==
  \A o, q \in Ids : Unsettled(o) /\ Unsettled(q) /\ orders[o].lot = orders[q].lot => o = q

\* A lot shows no more than its own exits have left of it.
LotLimits == \A l \in Lot : lotOpen[l] + OwnBooked(l) <= LotQty[l]

\* The exits on their way to be cancelled are those of closed lots.
SiblingsClosed == \A o \in siblings : lotOpen[orders[o].lot] = 0

\* A coroutine walks lots, or waits for the answer to one exit; a refusal it has
\* still to hear is one.
LotTask(j) ==
  /\ j.at \in {"idle", "lot", "lotanswer"}
  /\ j.at = "lotanswer" /\ ~j.ok => orders[j.order].st = "rejected"
LotTasks == \A t \in Task : LotTask(task[t])

LotInv ==
  /\ TypeOK /\ Linked /\ RowsOK /\ watching = {}
  /\ LotOrders /\ OneEach /\ LotLimits /\ SiblingsClosed /\ LotTasks

\* Without symbol and exchange targets there are no automatic exits and no order to
\* watch.
LEMMA OnlyLotsExit ==
  ASSUME LotTargetsOnly, LotInv
  PROVE  /\ \A t \in Task, k \in Key : ~SymbolFires(t, k)
         /\ \A t \in Task, p \in Pos : ~PlaceCovered(t, p) /\ ~PlaceOne(t, p)
         /\ \A t \in Task : ~Placed(t) /\ ~SymbolPlaced(t) /\ ~ExchangeFires(t) /\ ~ExchangePlaced(t)
         /\ \A o \in Ids : ~Watcher(o)
         /\ \A k \in Key : ~Reenable(k)
<1>1. \A t \in Task : task[t].at \notin {"place", "answer"}
  BY DEF LotInv, LotTasks, LotTask
<1>3. \A t \in Task, k \in Key : ~SymbolFires(t, k)
  BY DEF LotTargetsOnly, SymbolFires, MayFire
<1>4. \A t \in Task, p \in Pos : ~PlaceCovered(t, p) /\ ~PlaceOne(t, p)
  BY <1>1 DEF PlaceCovered, PlaceOne
<1>5. \A t \in Task : ~Placed(t) /\ ~SymbolPlaced(t) /\ ~ExchangePlaced(t)
  BY <1>1 DEF Placed, SymbolPlaced, ExchangePlaced
<1>6. \A t \in Task : ~ExchangeFires(t)
  BY DEF LotTargetsOnly, ExchangeFires
<1>7. \A o \in Ids : ~Watcher(o)
  BY DEF LotInv, Watcher, WatcherSees, WatcherGivesUp, WatcherBlind
<1>9. \A k \in Key : ~Reenable(k)
  BY DEF LotTargetsOnly, Reenable
<1> QED BY <1>3, <1>4, <1>5, <1>6, <1>7, <1>9

\* An order of a lot exit, and what it has sold.
LEMMA LotOrderFields ==
  ASSUME LotInv, NEW o \in Ids
  PROVE  /\ orders[o].lot \in Lot /\ orders[o].pos = PosOf[orders[o].lot] /\ LotOrder(o)
         /\ orders[o].qty \in Nat /\ orders[o].left \in Nat /\ orders[o].left <= orders[o].qty
         /\ Filled(o) = orders[o].qty - orders[o].left /\ Filled(o) \in Nat /\ exits[o] \in RowStatus
<1>1. TypeOK /\ RowsOK /\ LotOrder(o)
  BY DEF LotInv, LotOrders
<1>2. ~IsAuto(o) /\ orders[o].left <= orders[o].qty /\ orders[o].pos = PosOf[orders[o].lot]
  BY <1>1 DEF RowsOK, LotOrder
<1>3. orders[o].lot \in Lot
  BY <1>1, <1>2, OrderFields DEF IsAuto
<1>4. orders[o].qty \in Nat /\ orders[o].left \in Nat /\ exits[o] \in RowStatus
  BY <1>1, OrderFields, IdsAreFinite DEF TypeOK
<1> QED BY <1>1, <1>2, <1>3, <1>4 DEF Filled

LEMMA OwnTyped ==
  ASSUME LotInv, NEW l \in Lot
  PROVE  /\ \A o \in Ids : OwnFills(l)[o] \in Nat
         /\ OwnBooked(l) \in Nat /\ lotOpen[l] \in Nat /\ LotQty[l] \in Nat
<1>1. \A o \in Ids : OwnFills(l)[o] \in Nat
  BY LotOrderFields DEF OwnFills
<1>2. IsFiniteSet(Ids) /\ lotOpen[l] \in Nat
  BY IdsAreFinite DEF LotInv, TypeOK
<1>3. OwnBooked(l) \in Nat
  BY <1>1, <1>2, SumNonNegative DEF OwnBooked
<1> QED BY <1>1, <1>2, <1>3

\* A step that lets no row book.
LEMMA OwnKept ==
  ASSUME LotInv, Ids' = Ids, NEW l \in Lot,
         \A o \in Ids :
           /\ orders'[o].lot = orders[o].lot /\ orders'[o].qty = orders[o].qty
           /\ exits'[o] = "FILLED" <=> exits[o] = "FILLED"
           /\ exits[o] = "FILLED" => orders'[o].left = orders[o].left
  PROVE  OwnBooked(l)' = OwnBooked(l)
<1>1. \A o \in Ids : exits[o] = "FILLED" => Filled(o)' = Filled(o)
  BY DEF Filled
<1>2. OwnFills(l)' = OwnFills(l)
  BY <1>1 DEF OwnFills
<1> QED BY <1>2 DEF OwnBooked

\* Such a step keeps what lots and their exits owe each other, if it leaves no row
\* unsettled that was settled.
LEMMA LotsKept ==
  ASSUME LotInv, TypeOK', Ids' = Ids, \A l \in Lot : lotOpen'[l] <= lotOpen[l],
         \A o \in Ids :
           /\ orders'[o].lot = orders[o].lot /\ orders'[o].qty = orders[o].qty
           /\ exits'[o] = "FILLED" <=> exits[o] = "FILLED"
           /\ exits[o] = "FILLED" => orders'[o].left = orders[o].left
           /\ exits'[o] # "none"
           /\ orders'[o].st = "live" => exits'[o] = "PENDING" /\ orders'[o].left > 0
           /\ orders'[o].st = "rejected" => orders'[o].left = orders'[o].qty
           /\ Unsettled(o)' => Unsettled(o)
           /\ Unsettled(o)' /\ exits'[o] # "PENDING" => lotOpen[orders[o].lot] = 0
  PROVE  LotOrders' /\ OneEach' /\ LotLimits'
<1>1. LotOrders /\ OneEach /\ LotLimits
  BY DEF LotInv
<1>2. \A l \in Lot : OwnBooked(l)' = OwnBooked(l)
  BY OwnKept
<1>3. ASSUME NEW l \in Lot PROVE lotOpen'[l] \in Nat /\ lotOpen[l] \in Nat /\ OwnBooked(l) \in Nat /\ LotQty[l] \in Nat
  BY OwnTyped DEF TypeOK
<1>4. LotOrders'
  <2> SUFFICES ASSUME NEW o \in Ids PROVE LotOrder(o)'
    BY DEF LotOrders
  <2>1. PICK l \in Lot : l = orders[o].lot /\ l = orders'[o].lot
    BY LotOrderFields
  <2>2. OwnBooked(l)' = OwnBooked(l)
    BY <1>2
  <2>3. LotOrder(o)
    BY <1>1 DEF LotOrders
  <2>4. Unsettled(o)' => orders'[o].qty + OwnBooked(l)' <= LotQty[l]
    BY <2>1, <2>2, <2>3 DEF LotOrder
  <2>5. Unsettled(o)' /\ exits'[o] # "PENDING" => lotOpen'[l] = 0
    BY <1>3, <2>1
  <2>6. OwnBooked(orders[o].lot)' = OwnBooked(l)'
    BY <2>1
  <2> QED BY <2>1, <2>4, <2>5, <2>6 DEF LotOrder
<1>5. OneEach'
  BY <1>1 DEF OneEach
<1>6. LotLimits'
  <2> SUFFICES ASSUME NEW l \in Lot PROVE lotOpen'[l] + OwnBooked(l)' <= LotQty[l]
    BY DEF LotLimits
  <2>1. lotOpen[l] + OwnBooked(l) <= LotQty[l] /\ OwnBooked(l)' = OwnBooked(l)
    BY <1>1, <1>2 DEF LotLimits
  <2> QED BY <1>3, <2>1
<1> QED BY <1>4, <1>5, <1>6


\* The order of a lot exit: everything the lot has open, with the answer its
\* coroutine waits for.
LotSends(t, l, x, ok, n) ==
  /\ n = Len(orders) + 1 /\ orders' = Append(orders, x) /\ exits' = Append(exits, "PENDING")
  /\ x.pos = PosOf[l] /\ x.lot = l /\ x.qty = lotOpen[l] /\ x.left = x.qty
  /\ x.st \in {"live", "rejected"} /\ (~ok => x.st = "rejected")
  /\ task' = [task EXCEPT ![t] = [at |-> "lotanswer", key |-> task[t].key, lots |-> task[t].lots \ {l},
                                  lot |-> l, ok |-> ok, order |-> n]]

LEMMA LotOrderSent ==
  ASSUME LotTargetsOnly, TypeOK, NEW t \in Task, NEW l \in Lot, LotFires(t, l)
  PROVE  \E x \in ExitOrder, ok \in BOOLEAN, n \in Nat : LotSends(t, l, x, ok, n)
<1>1. PICK r \in Placements :
        /\ orders' = Append(orders, Order(PosOf[l], l, LotExitSize(l), r[1]))
        /\ task' = [task EXCEPT ![t] = [at |-> "lotanswer", key |-> task[t].key, lots |-> task[t].lots \ {l},
                                        lot |-> l, ok |-> r[2], order |-> Len(orders) + 1]]
  BY DEF LotFires
<1> DEFINE x == Order(PosOf[l], l, LotExitSize(l), r[1])
<1>2. r[1] \in {"live", "rejected"} /\ r[2] \in BOOLEAN /\ (~r[2] => r[1] = "rejected")
  BY PlacementKinds DEF LotTargetsOnly
<1>3. lotOpen[l] \in Nat \ {0}
  BY DEF LotFires, LotMayExit, TypeOK
<1>4. x \in ExitOrder
  BY <1>2, <1>3 DEF Order, ExitOrder, OrderStatus, LotExitSize
<1>5. x.pos = PosOf[l] /\ x.lot = l /\ x.qty = lotOpen[l] /\ x.left = x.qty /\ x.st = r[1]
  BY DEF Order, LotExitSize
<1>6. exits' = Append(exits, "PENDING") /\ orders' = Append(orders, x)
  BY <1>1 DEF LotFires
<1>7. PICK n \in Nat : n = Len(orders) + 1
  BY IdsAreFinite
<1> HIDE DEF x
<1>8. LotSends(t, l, x, r[2], n)
  BY <1>1, <1>2, <1>5, <1>6, <1>7, Zenon DEF LotSends
<1> QED BY <1>2, <1>4, <1>7, <1>8, ZenonT(40)

\* What the new order is, beside those that were.
Appends(x, s, n) ==
  n = Len(orders) + 1 /\ orders' = Append(orders, x) /\ exits' = Append(exits, s)
LEMMA OneMoreOrder ==
  ASSUME TypeOK, NEW x \in ExitOrder, NEW s \in RowStatus, NEW n \in Nat, Appends(x, s, n)
  PROVE  /\ Ids' = Ids \cup {n} /\ n \notin Ids /\ orders'[n] = x /\ exits'[n] = s
         /\ \A o \in Ids : orders'[o] = orders[o] /\ exits'[o] = exits[o]
<1>0. n = Len(orders) + 1 /\ orders' = Append(orders, x) /\ exits' = Append(exits, s)
  BY DEF Appends
<1>1. Ids' = Ids \cup {n} /\ n \notin Ids /\ Ids = 1..Len(orders)
  BY <1>0, NewOrderTyped, IdsAreFinite
<1>2. orders \in Seq(ExitOrder) /\ exits \in Seq(RowStatus) /\ Len(exits) = Len(orders)
  BY DEF TypeOK
<1>3. PICK E, S : E = ExitOrder /\ S = RowStatus
  OBVIOUS
<1>4. orders \in Seq(E) /\ exits \in Seq(S) /\ x \in E /\ s \in S /\ Len(orders) \in Nat
  BY <1>2, <1>3
<1>5. orders'[n] = x /\ \A o \in 1..Len(orders) : orders'[o] = orders[o]
  BY <1>0, <1>4
<1>6. exits'[n] = s /\ \A o \in 1..Len(orders) : exits'[o] = exits[o]
  BY <1>0, <1>2, <1>4
<1> QED BY <1>1, <1>5, <1>6

\* A new order has no fill that is booked.
LEMMA OwnWithNew ==
  ASSUME LotInv, NEW l \in Lot, NEW n \in Nat, n \notin Ids, Ids' = Ids \cup {n},
         exits'[n] = "PENDING", \A o \in Ids : orders'[o] = orders[o] /\ exits'[o] = exits[o]
  PROVE  OwnBooked(l)' = OwnBooked(l)
<1> DEFINE f == OwnFills(l)
<1> DEFINE g == OwnFills(l)'
<1>1. \A o \in Ids : f[o] \in Nat
  BY OwnTyped
<1>2. \A o \in Ids : g[o] = f[o]
  BY DEF OwnFills, Filled
<1>3. g[n] = 0
  BY DEF OwnFills
<1>4. IsFiniteSet(Ids)
  BY IdsAreFinite DEF LotInv
<1>5. OwnBooked(l) = SumFunctionOnSet(f, Ids) /\ OwnBooked(l)' = SumFunctionOnSet(g, Ids')
  BY DEF OwnBooked
<1> HIDE DEF f, g
<1>6. SumFunctionOnSet(g, Ids') = SumFunctionOnSet(f, Ids)
  BY <1>1, <1>2, <1>3, <1>4, SumWithZero
<1> QED BY <1>5, <1>6

\* A lot fires: the only order of a lot whose exits are all settled.
LEMMA LotFiresFit ==
  ASSUME LotTargetsOnly, LotInv, TypeOK', NEW t \in Task, NEW l \in Lot, LotFires(t, l)
  PROVE  LotOrders' /\ OneEach' /\ LotLimits' /\ LotTasks'
<1>0. /\ TypeOK /\ LotOrders /\ OneEach /\ LotLimits /\ LotTasks /\ Linked
      /\ PendingOf(l) = {} /\ lotOpen[l] > 0 /\ lotOpen' = lotOpen
  BY DEF LotInv, LotFires, LotMayExit
<1>9. PICK x \in ExitOrder, ok \in BOOLEAN, n \in Nat : LotSends(t, l, x, ok, n)
  BY <1>0, LotOrderSent
<1>1. /\ n = Len(orders) + 1 /\ orders' = Append(orders, x) /\ exits' = Append(exits, "PENDING")
      /\ x.pos = PosOf[l] /\ x.lot = l /\ x.qty = lotOpen[l] /\ x.left = x.qty
      /\ x.st \in {"live", "rejected"} /\ (~ok => x.st = "rejected")
  BY <1>9 DEF LotSends
<1>3. /\ Ids' = Ids \cup {n} /\ n \notin Ids /\ orders'[n] = x /\ exits'[n] = "PENDING"
      /\ \A o \in Ids : orders'[o] = orders[o] /\ exits'[o] = exits[o]
  <2>1. PICK s \in RowStatus : s = "PENDING"
    BY DEF RowStatus
  <2>2. exits' = Append(exits, s)
    BY <1>1, <2>1
  <2>3. orders'[n] = x /\ exits'[n] = s /\ Ids' = Ids \cup {n} /\ n \notin Ids
        /\ \A o \in Ids : orders'[o] = orders[o] /\ exits'[o] = exits[o]
    <3>1. TypeOK /\ Appends(x, s, n)
      BY <1>0, <1>1, <2>2 DEF Appends
    <3> QED BY <3>1, OneMoreOrder
  <2> QED BY <2>1, <2>3
<1>2. \A m \in Lot : OwnBooked(m)' = OwnBooked(m)
  BY <1>3, OwnWithNew
<1>8. \A o \in Ids : Unsettled(o)' <=> Unsettled(o)
  BY <1>3 DEF Unsettled
<1>7. \A o \in Ids : Unsettled(o) => orders[o].lot # l
  <2> SUFFICES ASSUME NEW o \in Ids, Unsettled(o), orders[o].lot = l PROVE FALSE
    OBVIOUS
  <2>1. exits[o] # "PENDING"
    BY <1>0 DEF PendingOf
  <2> QED BY <1>0, <2>1 DEF LotOrders, LotOrder
<1>10. lotOpen[l] + OwnBooked(l) <= LotQty[l] /\ lotOpen[l] \in Nat /\ OwnBooked(l) \in Nat
  BY <1>0, OwnTyped DEF LotLimits
<1>4. LotOrders'
  <2>1. ASSUME NEW o \in Ids PROVE LotOrder(o)'
    <3>1. PICK m \in Lot : m = orders[o].lot /\ m = orders'[o].lot
      BY <1>3, LotOrderFields
    <3>2. LotOrder(o) /\ OwnBooked(m)' = OwnBooked(m)
      BY <1>0, <1>2 DEF LotOrders
    <3>3. OwnBooked(orders[o].lot)' = OwnBooked(m)'
      BY <3>1
    <3>4. Unsettled(o)' => orders'[o].qty + OwnBooked(m)' <= LotQty[m]
      BY <1>3, <1>8, <3>1, <3>2 DEF LotOrder
    <3> QED BY <1>0, <1>3, <1>8, <3>1, <3>2, <3>3, <3>4 DEF LotOrder
  <2>2. LotOrder(n)'
    <3>1. x.qty \in Nat \ {0} /\ x.left > 0
      BY <1>1 DEF ExitOrder
    <3>2. OwnBooked(orders[n].lot)' = OwnBooked(l)'
      BY <1>1, <1>3
    <3>3. x.qty + OwnBooked(l)' <= LotQty[l]
      BY <1>1, <1>2, <1>10
    <3> QED BY <1>1, <1>3, <3>1, <3>2, <3>3 DEF LotOrder
  <2> QED BY <1>3, <2>1, <2>2 DEF LotOrders
<1>5. OneEach'
  <2>1. \A o \in Ids : orders'[o].lot = orders[o].lot
    BY <1>3
  <2>2. orders'[n].lot = l
    BY <1>1, <1>3
  <2> QED BY <1>0, <1>3, <1>7, <1>8, <2>1, <2>2 DEF OneEach
<1>6. LotTasks'
  <2> SUFFICES ASSUME NEW u \in Task PROVE LotTask(task[u])'
    BY DEF LotTasks
  <2>1. CASE u = t
    <3>1. task'[u] = [at |-> "lotanswer", key |-> task[t].key, lots |-> task[t].lots \ {l},
                      lot |-> l, ok |-> ok, order |-> n]
      BY <1>0, <1>9, <2>1 DEF TypeOK, LotSends
    <3> QED BY <1>1, <1>3, <3>1 DEF LotTask
  <2>2. CASE u # t
    <3>1. task'[u] = task[u]
      BY <1>0, <1>9, <2>2 DEF TypeOK, LotSends
    <3>2. task[u].at = "lotanswer" => task[u].order \in Ids
      BY <1>0 DEF Linked
    <3> QED BY <1>0, <1>3, <3>1, <3>2 DEF LotTasks, LotTask
  <2> QED BY <2>1, <2>2
<1>11. LotLimits'
  BY <1>0, <1>2 DEF LotLimits
<1> QED BY <1>4, <1>5, <1>6, <1>11

\* A refusal is heard: the row of an order that filled nothing is given up.
LEMMA LotPlacedFit ==
  ASSUME LotInv, TypeOK', NEW t \in Task, LotPlaced(t)
  PROVE  LotOrders' /\ OneEach' /\ LotLimits' /\ LotTasks'
<1>0. TypeOK /\ LotOrders /\ LotTasks /\ Linked /\ DOMAIN exits = Ids
  BY IdsAreFinite DEF LotInv
<1>1. /\ orders' = orders /\ lotOpen' = lotOpen /\ Ids' = Ids /\ task[t].at = "lotanswer"
      /\ task' = [task EXCEPT ![t] = [at |-> "lot", key |-> task[t].key, lots |-> task[t].lots, order |-> 0]]
      /\ IF task[t].ok THEN exits' = exits
         ELSE exits' = [exits EXCEPT ![task[t].order] = IF @ = "PENDING" THEN "REJECTED" ELSE @]
  BY DEF LotPlaced, broker, Ids
<1>2. PICK o \in Ids : o = task[t].order
  BY <1>0, <1>1 DEF Linked
<1>3. ~task[t].ok => orders[o].st = "rejected" /\ orders[o].left = orders[o].qty
  BY <1>0, <1>1, <1>2 DEF LotTasks, LotTask, LotOrders, LotOrder
<1>4. /\ \A q \in Ids \ {o} : exits'[q] = exits[q]
      /\ exits'[o] = exits[o] \/ (~task[t].ok /\ exits[o] = "PENDING" /\ exits'[o] = "REJECTED")
  BY <1>0, <1>1, <1>2
<1>5. ASSUME NEW q \in Ids
      PROVE  /\ exits'[q] = "FILLED" <=> exits[q] = "FILLED"
             /\ exits'[q] # "none"
             /\ orders'[q].st = "live" => exits'[q] = "PENDING" /\ orders'[q].left > 0
             /\ orders'[q].st = "rejected" => orders'[q].left = orders'[q].qty
             /\ Unsettled(q)' => Unsettled(q)
             /\ Unsettled(q)' /\ exits'[q] # "PENDING" => lotOpen[orders[q].lot] = 0
  <2>1. LotOrder(q)
    BY <1>0 DEF LotOrders
  <2>2. CASE exits'[q] = exits[q]
    BY <1>1, <2>1, <2>2 DEF LotOrder, Unsettled
  <2>3. CASE q = o /\ ~task[t].ok /\ exits[o] = "PENDING" /\ exits'[o] = "REJECTED"
    BY <1>1, <1>3, <2>1, <2>3 DEF LotOrder, Unsettled
  <2> QED BY <1>4, <2>2, <2>3
<1>6. LotOrders' /\ OneEach' /\ LotLimits'
  <2>1. \A l \in Lot : lotOpen'[l] <= lotOpen[l]
    BY <1>0, <1>1 DEF TypeOK
  <2> QED BY <1>1, <1>5, <2>1, LotsKept
<1>7. LotTasks'
  <2> SUFFICES ASSUME NEW u \in Task PROVE LotTask(task[u])'
    BY DEF LotTasks
  <2>1. CASE u = t
    <3>1. task'[u] = [at |-> "lot", key |-> task[t].key, lots |-> task[t].lots, order |-> 0]
      BY <1>0, <1>1, <2>1 DEF TypeOK
    <3> QED BY <3>1 DEF LotTask
  <2>2. CASE u # t
    <3>1. task'[u] = task[u]
      BY <1>1, <2>2
    <3> QED BY <1>0, <1>1, <3>1 DEF LotTasks, LotTask
  <2> QED BY <2>1, <2>2
<1> QED BY <1>6, <1>7

\* The own row books what its order filled.
LEMMA OwnTaken ==
  ASSUME LotInv, NEW o \in Ids, NEW l \in Lot, l = orders[o].lot, orders' = orders, exits[o] # "FILLED",
         exits' = [exits EXCEPT ![o] = "FILLED"]
  PROVE  /\ OwnBooked(l)' = OwnBooked(l) + Filled(o)
         /\ \A m \in Lot \ {l} : OwnBooked(m)' = OwnBooked(m)
<1>1. Ids' = Ids /\ IsFiniteSet(Ids) /\ DOMAIN exits = Ids /\ Filled(o) \in Nat
  BY IdsAreFinite, LotOrderFields DEF LotInv, Ids
<1>2. exits'[o] = "FILLED" /\ \A q \in Ids \ {o} : exits'[q] = exits[q]
  BY <1>1
<1>3. \A q \in Ids : Filled(q)' = Filled(q)
  BY DEF Filled
<1>4. ASSUME NEW m \in Lot \ {l} PROVE OwnBooked(m)' = OwnBooked(m)
  <2>1. OwnFills(m)' = OwnFills(m)
    BY <1>1, <1>2, <1>3 DEF OwnFills
  <2> QED BY <1>1, <2>1 DEF OwnBooked
<1>5. OwnBooked(l)' = OwnBooked(l) + Filled(o)
  <2> DEFINE f == OwnFills(l)
  <2> DEFINE g == OwnFills(l)'
  <2>1. \A q \in Ids : f[q] \in Nat
    BY OwnTyped
  <2>2. f[o] = 0 /\ g[o] = Filled(o)
    BY <1>1, <1>2, <1>3 DEF OwnFills
  <2>3. \A q \in Ids \ {o} : f[q] = g[q]
    BY <1>1, <1>2, <1>3 DEF OwnFills
  <2>4. OwnBooked(l) = SumFunctionOnSet(f, Ids) /\ OwnBooked(l)' = SumFunctionOnSet(g, Ids)
    BY <1>1 DEF OwnBooked
  <2> HIDE DEF f, g
  <2>5. \A q \in Ids : f[q] \in Int /\ g[q] \in Int
    BY <1>1, <2>1, <2>2, <2>3
  <2>6. SumFunctionOnSet(g, Ids) = SumFunctionOnSet(f, Ids) - f[o] + g[o]
    <3>1. IsFiniteSet(Ids)
      BY <1>1
    <3> QED BY <2>3, <2>5, <3>1, SumChange
  <2>7. SumFunctionOnSet(f, Ids) \in Int
    BY <1>1, <2>5, SumIsInt
  <2> QED BY <1>1, <2>2, <2>4, <2>6, <2>7
<1> QED BY <1>4, <1>5

\* A lot exit is booked by its own row: what its order was for, its lot's own exits had
\* left, and a lot it closes has exits to cancel that are the lot's.
LEMMA LotBookingFits ==
  ASSUME LotInv, TypeOK', NEW o \in Ids, BookLotExit(o)
  PROVE  LotOrders' /\ OneEach' /\ LotLimits' /\ LotTasks' /\ SiblingsClosed'
<1>0. /\ TypeOK /\ LotOrders /\ OneEach /\ LotLimits /\ LotTasks /\ SiblingsClosed /\ DOMAIN exits = Ids
      /\ siblings \subseteq Ids
  BY IdsAreFinite DEF LotInv, TypeOK
<1>1. orders' = orders /\ Ids' = Ids /\ task' = task /\ Bookable(o) /\ orders[o].st # "live"
  BY DEF BookLotExit, broker, Ids, Bookable
<1>2. PICK l \in Lot : l = orders[o].lot
  BY LotOrderFields
<1>3. lotOpen[l] \in Nat /\ lotOpen'[l] \in Nat /\ OwnBooked(l) \in Nat /\ LotQty[l] \in Nat
  BY OwnTyped DEF TypeOK
<1>4. /\ orders[o].qty \in Nat /\ orders[o].left \in Nat /\ orders[o].left <= orders[o].qty
      /\ Filled(o) = orders[o].qty - orders[o].left /\ LotOrder(o)
  BY LotOrderFields
<1>6. LotTasks'
  BY <1>0, <1>1 DEF LotTasks, LotTask
<1>7. CASE Filled(o) > 0
  <2>1. /\ exits' = [exits EXCEPT ![o] = "FILLED"]
        /\ lotOpen' = [lotOpen EXCEPT ![l] = @ - Lesser(@, Filled(o))]
        /\ siblings' = siblings \cup (IF lotOpen[l] <= Filled(o) THEN SiblingsOf({l}) \ {o} ELSE {})
    BY <1>2, <1>7 DEF BookLotExit
  <2>2. exits'[o] = "FILLED" /\ \A q \in Ids \ {o} : exits'[q] = exits[q]
    BY <1>0, <2>1
  <2>3. \A m \in Lot \ {l} : lotOpen'[m] = lotOpen[m]
    BY <1>0, <2>1 DEF TypeOK
  <2>4. lotOpen'[l] = lotOpen[l] - Lesser(lotOpen[l], Filled(o))
    BY <1>0, <2>1 DEF TypeOK
  <2>5. Unsettled(o) /\ exits[o] # "FILLED"
    BY <1>1, <1>4, <1>7 DEF Bookable, Unsettled
  <2>6. /\ OwnBooked(l)' = OwnBooked(l) + Filled(o)
        /\ \A m \in Lot \ {l} : OwnBooked(m)' = OwnBooked(m)
    BY <1>1, <1>2, <2>1, <2>5, OwnTaken
  <2>7. \A q \in Ids \ {o} : Unsettled(q)' <=> Unsettled(q)
    BY <1>1, <2>2 DEF Unsettled
  <2>8. \A q \in Ids \ {o} : Unsettled(q) => orders[q].lot # l
    BY <1>0, <1>2, <2>5 DEF OneEach
  <2>9. ASSUME NEW q \in Ids PROVE LotOrder(q)'
    <3>1. CASE q = o
      BY <1>1, <1>4, <2>2, <3>1 DEF LotOrder, Unsettled
    <3>2. CASE q # o
      <4>1. PICK m \in Lot : m = orders[q].lot
        BY LotOrderFields
      <4>2. LotOrder(q) /\ exits'[q] = exits[q] /\ (Unsettled(q)' <=> Unsettled(q))
        BY <1>0, <2>2, <2>7, <3>2 DEF LotOrders
      <4>3. OwnBooked(orders[q].lot)' = OwnBooked(m)'
        BY <1>1, <4>1
      <4>4. Unsettled(q) => OwnBooked(m)' = OwnBooked(m) /\ lotOpen'[m] = lotOpen[m]
        BY <2>3, <2>6, <2>8, <3>2, <4>1
      <4> QED BY <1>1, <4>1, <4>2, <4>3, <4>4 DEF LotOrder
    <3> QED BY <3>1, <3>2
  <2>10. OneEach'
    <3>1. ~Unsettled(o)'
      BY <2>2 DEF Unsettled
    <3> QED BY <1>0, <1>1, <2>7, <3>1 DEF OneEach
  <2>11. LotLimits'
    <3> SUFFICES ASSUME NEW m \in Lot PROVE lotOpen'[m] + OwnBooked(m)' <= LotQty[m]
      BY DEF LotLimits
    <3>1. CASE m = l
      <4>1. orders[o].qty + OwnBooked(l) <= LotQty[l] /\ lotOpen[l] + OwnBooked(l) <= LotQty[l]
        BY <1>0, <1>2, <1>4, <2>5 DEF LotOrder, LotLimits
      <4>2. CASE Filled(o) <= lotOpen[l]
        <5>1. lotOpen'[l] = lotOpen[l] - Filled(o)
          BY <1>3, <1>4, <2>4, <4>2 DEF Lesser
        <5> QED BY <1>3, <1>4, <2>6, <3>1, <4>1, <5>1
      <4>3. CASE ~(Filled(o) <= lotOpen[l])
        <5>1. lotOpen'[l] = 0
          BY <1>3, <1>4, <2>4, <4>3 DEF Lesser
        <5> QED BY <1>3, <1>4, <2>6, <3>1, <4>1, <5>1
      <4> QED BY <4>2, <4>3
    <3>2. CASE m # l
      BY <1>0, <2>3, <2>6, <3>2 DEF LotLimits
    <3> QED BY <3>1, <3>2
  <2>12. SiblingsClosed'
    <3> SUFFICES ASSUME NEW q \in siblings' PROVE lotOpen'[orders[q].lot] = 0
      BY <1>1 DEF SiblingsClosed
    <3>1. CASE q \in siblings
      <4>1. PICK m \in Lot : m = orders[q].lot /\ lotOpen[m] = 0
        BY <1>0, <3>1, LotOrderFields DEF SiblingsClosed
      <4>2. lotOpen'[l] <= lotOpen[l]
        BY <1>3, <1>4, <1>7, <2>4 DEF Lesser
      <4> QED BY <1>3, <2>3, <4>1, <4>2
    <3>2. CASE q \notin siblings
      <4>1. q \in SiblingsOf({l}) /\ lotOpen[l] <= Filled(o)
        BY <2>1, <3>2
      <4>2. orders[q].lot = l
        BY <4>1 DEF SiblingsOf, PendingOf
      <4>3. lotOpen'[l] = 0
        BY <1>3, <1>4, <2>4, <4>1 DEF Lesser
      <4> QED BY <4>2, <4>3
    <3> QED BY <3>1, <3>2
  <2> QED BY <1>1, <1>6, <2>9, <2>10, <2>11, <2>12 DEF LotOrders
<1>8. CASE ~(Filled(o) > 0)
  <2>1. /\ exits' = [exits EXCEPT ![o] = IF orders[o].st = "rejected" THEN "REJECTED" ELSE "CANCELLED"]
        /\ lotOpen' = lotOpen /\ siblings' = siblings
    BY <1>8 DEF BookLotExit
  <2>2. exits'[o] \in {"REJECTED", "CANCELLED"} /\ \A q \in Ids \ {o} : exits'[q] = exits[q]
    BY <1>0, <2>1
  <2>3. orders[o].left = orders[o].qty /\ exits[o] # "FILLED"
    BY <1>1, <1>4, <1>8 DEF Bookable
  <2>4. ASSUME NEW q \in Ids
        PROVE  /\ exits'[q] = "FILLED" <=> exits[q] = "FILLED"
               /\ exits'[q] # "none"
               /\ orders'[q].st = "live" => exits'[q] = "PENDING" /\ orders'[q].left > 0
               /\ orders'[q].st = "rejected" => orders'[q].left = orders'[q].qty
               /\ Unsettled(q)' => Unsettled(q)
               /\ Unsettled(q)' /\ exits'[q] # "PENDING" => lotOpen[orders[q].lot] = 0
    <3>1. LotOrder(q)
      BY <1>0 DEF LotOrders
    <3>2. CASE q = o
      BY <1>1, <2>2, <2>3, <3>1, <3>2 DEF LotOrder, Unsettled
    <3>3. CASE q # o
      <4>1. exits'[q] = exits[q] /\ (Unsettled(q)' <=> Unsettled(q))
        BY <1>1, <2>2, <3>3 DEF Unsettled
      <4> QED BY <1>1, <3>1, <4>1 DEF LotOrder
    <3> QED BY <3>2, <3>3
  <2>5. LotOrders' /\ OneEach' /\ LotLimits'
    <3>1. \A m \in Lot : lotOpen'[m] <= lotOpen[m]
      BY <1>0, <2>1 DEF TypeOK
    <3> QED BY <1>1, <2>4, <3>1, LotsKept
  <2>6. SiblingsClosed'
    BY <1>0, <1>1, <2>1 DEF SiblingsClosed
  <2> QED BY <1>6, <2>5, <2>6
<1> QED BY <1>7, <1>8

\* A fill is booked oldest lot first: lots only get smaller, and the exits of those it
\* closes are to be cancelled.
LEMMA OldestFirstFits ==
  ASSUME LotInv, TypeOK', NEW o \in Ids, BookAutoExit(o)
  PROVE  LotOrders' /\ OneEach' /\ LotLimits' /\ LotTasks' /\ SiblingsClosed'
<1> DEFINE closed == {l \in Lot : Closes(o, l) > 0 /\ Closes(o, l) = lotOpen[l]}
<1>0. TypeOK /\ LotOrders /\ LotTasks /\ SiblingsClosed /\ siblings \subseteq Ids
  BY DEF LotInv, TypeOK
<1>1. /\ orders' = orders /\ Ids' = Ids /\ task' = task /\ exits' = exits
      /\ lotOpen' = [l \in Lot |-> lotOpen[l] - Closes(o, l)] /\ siblings' = siblings \cup SiblingsOf(closed)
  BY DEF BookAutoExit, broker, Ids
<1>2. ASSUME NEW l \in Lot
      PROVE  lotOpen'[l] = lotOpen[l] - Closes(o, l) /\ lotOpen'[l] \in Nat /\ lotOpen[l] \in Nat /\ Closes(o, l) \in Nat
  BY <1>0, <1>1, ClosesLittle DEF TypeOK
<1>3. \A l \in Lot : lotOpen'[l] <= lotOpen[l]
  BY <1>2
<1>4. ASSUME NEW q \in Ids
      PROVE  /\ exits'[q] # "none"
             /\ orders'[q].st = "live" => exits'[q] = "PENDING" /\ orders'[q].left > 0
             /\ orders'[q].st = "rejected" => orders'[q].left = orders'[q].qty
             /\ Unsettled(q)' <=> Unsettled(q)
             /\ Unsettled(q)' /\ exits'[q] # "PENDING" => lotOpen[orders[q].lot] = 0
  <2>1. LotOrder(q) /\ (Unsettled(q)' <=> Unsettled(q))
    BY <1>0, <1>1 DEF LotOrders, Unsettled
  <2> QED BY <1>1, <2>1 DEF LotOrder
<1>5. LotOrders' /\ OneEach' /\ LotLimits'
  BY <1>1, <1>3, <1>4, LotsKept
<1>6. LotTasks'
  BY <1>0, <1>1 DEF LotTasks, LotTask
<1>7. SiblingsClosed'
  <2> SUFFICES ASSUME NEW q \in siblings' PROVE lotOpen'[orders[q].lot] = 0
    BY <1>1 DEF SiblingsClosed
  <2>1. CASE q \in siblings
    <3>1. PICK l \in Lot : l = orders[q].lot /\ lotOpen[l] = 0
      BY <1>0, <2>1, LotOrderFields DEF SiblingsClosed
    <3> QED BY <1>2, <1>3, <3>1
  <2>2. CASE q \notin siblings
    <3>1. q \in SiblingsOf(closed)
      BY <1>1, <2>2
    <3>2. PICK l \in closed : q \in PendingOf(l)
      BY <3>1 DEF SiblingsOf
    <3>3. orders[q].lot = l /\ l \in Lot /\ Closes(o, l) = lotOpen[l]
      BY <3>2 DEF PendingOf
    <3> QED BY <1>2, <3>3
  <2> QED BY <2>1, <2>2
<1> QED BY <1>5, <1>6, <1>7

\* An order that rests trades or is killed, or is cancelled because its lot was closed.
LEMMA LotTradesFit ==
  ASSUME LotInv, TypeOK', NEW o \in Ids, Fill(o) \/ BrokerKills(o) \/ CancelSibling(o)
  PROVE  LotOrders' /\ OneEach' /\ LotLimits' /\ LotTasks' /\ SiblingsClosed'
<1>0. /\ TypeOK /\ LotOrders /\ LotTasks /\ Linked /\ LotOrder(o) /\ SiblingsClosed /\ siblings \subseteq Ids
      /\ orders[o].st = "live" => orders[o].left > 0
      /\ DOMAIN exits = Ids
  BY IdsAreFinite DEF LotInv, LotOrders, LotOrder, TypeOK
<1> DEFINE Ends == /\ Kept(orders', o) /\ Ids' = Ids /\ orders[o].st = "live" /\ task' = task /\ lotOpen' = lotOpen
                   /\ \A q \in Ids \ {o} : exits'[q] = exits[q]
                   /\ \/ exits'[o] = exits[o]
                      \/ exits'[o] = "CANCELLED" /\ lotOpen[orders[o].lot] = 0 /\ orders'[o].st # "live"
                   /\ orders'[o].st = "rejected" => orders'[o].left = orders[o].qty
                   /\ orders'[o].st = "live" => orders'[o].left > 0
                   /\ siblings' \subseteq siblings
           Same == orders' = orders /\ exits' = exits /\ lotOpen' = lotOpen /\ task' = task
                   /\ siblings' \subseteq siblings /\ Ids' = Ids
<1>1. Ends \/ Same
  <2>1. CASE Fill(o) \/ BrokerKills(o)
    <3>1. exits' = exits /\ lotOpen' = lotOpen /\ siblings' = siblings
      BY <2>1 DEF Fill, BrokerKills, ledger, background
    <3>2. /\ Kept(orders', o) /\ Ids' = Ids /\ orders[o].st = "live" /\ task' = task /\ orders[o].left \in Nat \ {0}
          /\ orders'[o].st = "rejected" => orders'[o].left = orders[o].qty
          /\ \/ /\ net' = net /\ orders'[o].left = orders[o].left /\ orders'[o].st # "live"
             \/ \E n \in 1..orders[o].left :
                  /\ net' = [net EXCEPT ![orders[o].pos] = @ - n]
                  /\ orders'[o].left = orders[o].left - n
                  /\ orders'[o].st = IF n = orders[o].left THEN "done" ELSE "live"
      BY <1>0, <2>1, BrokerActs
    <3>3. orders'[o].st = "live" => orders'[o].left > 0
      BY <3>2
    <3> QED BY <3>1, <3>2, <3>3
  <2>2. CASE CancelSibling(o) /\ o \in Live
    <3>1. /\ orders' = Ended(o, "cancelled") /\ exits' = [exits EXCEPT ![o] = IF @ = "PENDING" THEN "CANCELLED" ELSE @]
          /\ siblings' = siblings \ {o} /\ o \in siblings /\ lotOpen' = lotOpen /\ task' = task
      BY <2>2 DEF CancelSibling
    <3>2. Kept(orders', o) /\ orders'[o].st = "cancelled"
      BY <1>0, <3>1, OrderEnds DEF OrderStatus
    <3>3. Ids' = Ids
      BY <1>0, <3>2 DEF Kept, Ids, TypeOK
    <3>4. exits'[o] = exits[o] \/ exits'[o] = "CANCELLED"
      BY <1>0, <3>1
    <3>5. \A q \in Ids \ {o} : exits'[q] = exits[q]
      BY <1>0, <3>1
    <3>6. lotOpen[orders[o].lot] = 0 /\ orders[o].st = "live"
      BY <1>0, <2>2, <3>1 DEF SiblingsClosed, Live
    <3> QED BY <3>1, <3>2, <3>3, <3>4, <3>5, <3>6
  <2>3. CASE CancelSibling(o) /\ o \notin Live
    BY <2>3 DEF CancelSibling, Ids
  <2> QED BY <2>1, <2>2, <2>3
<1>2. CASE Same
  <2>1. ASSUME NEW q \in Ids
        PROVE  /\ exits'[q] # "none"
               /\ orders'[q].st = "live" => exits'[q] = "PENDING" /\ orders'[q].left > 0
               /\ orders'[q].st = "rejected" => orders'[q].left = orders'[q].qty
               /\ Unsettled(q)' => Unsettled(q)
               /\ Unsettled(q)' /\ exits'[q] # "PENDING" => lotOpen[orders[q].lot] = 0
    <3>1. LotOrder(q) /\ (Unsettled(q)' <=> Unsettled(q))
      BY <1>0, <1>2 DEF LotOrders, Unsettled
    <3> QED BY <1>2, <3>1 DEF LotOrder
  <2>2. \A l \in Lot : lotOpen'[l] <= lotOpen[l]
    BY <1>0, <1>2 DEF TypeOK
  <2>3. LotOrders' /\ OneEach' /\ LotLimits'
    BY <1>2, <2>1, <2>2, LotsKept
  <2> QED BY <1>0, <1>2, <2>3 DEF LotTasks, LotTask, SiblingsClosed
<1>3. CASE Ends
  <2>1. exits[o] = "PENDING" /\ Unsettled(o) /\ exits[o] # "FILLED"
    BY <1>0, <1>3 DEF LotOrder, Unsettled
  <2>2. orders'[o].lot = orders[o].lot /\ orders'[o].qty = orders[o].qty /\ \A q \in Ids \ {o} : orders'[q] = orders[q]
    BY <1>3 DEF Kept
  <2>3. ASSUME NEW q \in Ids
        PROVE  /\ orders'[q].lot = orders[q].lot /\ orders'[q].qty = orders[q].qty
               /\ exits'[q] = "FILLED" <=> exits[q] = "FILLED"
               /\ exits[q] = "FILLED" => orders'[q].left = orders[q].left
               /\ exits'[q] # "none"
               /\ orders'[q].st = "live" => exits'[q] = "PENDING" /\ orders'[q].left > 0
               /\ orders'[q].st = "rejected" => orders'[q].left = orders'[q].qty
               /\ Unsettled(q)' => Unsettled(q)
               /\ Unsettled(q)' /\ exits'[q] # "PENDING" => lotOpen[orders[q].lot] = 0
    <3>1. CASE q = o
      BY <1>3, <2>1, <2>2, <3>1
    <3>2. CASE q # o
      <4>1. LotOrder(q) /\ orders'[q] = orders[q] /\ exits'[q] = exits[q]
        BY <1>0, <1>3, <2>2, <3>2 DEF LotOrders
      <4>2. Unsettled(q)' <=> Unsettled(q)
        BY <4>1 DEF Unsettled
      <4> QED BY <4>1, <4>2 DEF LotOrder
    <3> QED BY <3>1, <3>2
  <2>4. \A l \in Lot : lotOpen'[l] <= lotOpen[l]
    BY <1>0, <1>3 DEF TypeOK
  <2>5. LotOrders' /\ OneEach' /\ LotLimits'
    BY <1>3, <2>3, <2>4, LotsKept
  <2>6. LotTasks'
    <3> SUFFICES ASSUME NEW u \in Task PROVE LotTask(task[u])'
      BY DEF LotTasks
    <3>1. task'[u] = task[u] /\ LotTask(task[u]) /\ (task[u].at = "lotanswer" => task[u].order \in Ids)
      BY <1>0, <1>3 DEF LotTasks, Linked
    <3>2. \A q \in Ids : orders[q].st = "rejected" => orders'[q] = orders[q]
      BY <1>3, <2>2
    <3> QED BY <3>1, <3>2 DEF LotTask
  <2>7. SiblingsClosed'
    BY <1>0, <1>3, <2>3 DEF SiblingsClosed
  <2> QED BY <2>5, <2>6, <2>7
<1> HIDE DEF Ends, Same
<1> QED BY <1>1, <1>2, <1>3

\* The order of a lot that fires, beside those that were.
Added(x, l, n) ==
  /\ x.pos = PosOf[l] /\ x.lot = l /\ x.left = x.qty /\ x.st \in {"live", "rejected"}
  /\ Ids' = Ids \cup {n} /\ n \notin Ids /\ orders'[n] = x /\ exits'[n] = "PENDING"
  /\ \A o \in Ids : orders'[o] = orders[o] /\ exits'[o] = exits[o]
LEMMA LotOrderAdded ==
  ASSUME LotTargetsOnly, LotInv, NEW t \in Task, NEW l \in Lot, LotFires(t, l)
  PROVE  \E x \in ExitOrder, n \in Nat : Added(x, l, n)
<1>1. TypeOK
  BY DEF LotInv
<1>2. PICK x \in ExitOrder, ok \in BOOLEAN, n \in Nat : LotSends(t, l, x, ok, n)
  BY <1>1, LotOrderSent
<1>3. PICK s \in RowStatus : s = "PENDING"
  BY DEF RowStatus
<1>4. Appends(x, s, n)
  BY <1>2, <1>3 DEF LotSends, Appends
<1>5. /\ Ids' = Ids \cup {n} /\ n \notin Ids /\ orders'[n] = x /\ exits'[n] = s
      /\ \A o \in Ids : orders'[o] = orders[o] /\ exits'[o] = exits[o]
  BY <1>1, <1>4, OneMoreOrder
<1>6. x.pos = PosOf[l] /\ x.lot = l /\ x.left = x.qty /\ x.st \in {"live", "rejected"}
  BY <1>2 DEF LotSends
<1>7. Added(x, l, n)
  BY <1>3, <1>5, <1>6 DEF Added
<1> QED BY <1>7

\* A step that leaves orders, rows and lots alone.
LEMMA LotStill ==
  ASSUME LotInv, TypeOK', orders' = orders, exits' = exits, lotOpen' = lotOpen, siblings' = siblings
  PROVE  LotOrders' /\ OneEach' /\ LotLimits' /\ SiblingsClosed'
<1>1. TypeOK /\ LotOrders /\ SiblingsClosed /\ Ids' = Ids
  BY DEF LotInv, Ids
<1>2. ASSUME NEW q \in Ids
      PROVE  /\ exits'[q] # "none"
             /\ orders'[q].st = "live" => exits'[q] = "PENDING" /\ orders'[q].left > 0
             /\ orders'[q].st = "rejected" => orders'[q].left = orders'[q].qty
             /\ Unsettled(q)' => Unsettled(q)
             /\ Unsettled(q)' /\ exits'[q] # "PENDING" => lotOpen[orders[q].lot] = 0
  <2>1. LotOrder(q) /\ (Unsettled(q)' <=> Unsettled(q))
    BY <1>1 DEF LotOrders, Unsettled
  <2> QED BY <2>1 DEF LotOrder
<1>3. \A l \in Lot : lotOpen'[l] <= lotOpen[l]
  BY <1>1 DEF TypeOK
<1>4. LotOrders' /\ OneEach' /\ LotLimits'
  BY <1>1, <1>2, <1>3, LotsKept
<1> QED BY <1>1, <1>4 DEF SiblingsClosed

\* Every step of lots that have targets of their own.
LEMMA LotStep == LotTargetsOnly /\ LotInv /\ [Next]_vars => LotInv'
<1> SUFFICES ASSUME LotTargetsOnly, LotInv, [Next]_vars PROVE LotInv'
  OBVIOUS
<1>0. TypeOK /\ Linked /\ RowsOK /\ TypeOK' /\ Linked'
  BY Typed DEF LotInv
<1>2. RowsOK'
  BY <1>0, LedgerMoves
<1> DEFINE Fit == watching' = {} /\ LotOrders' /\ OneEach' /\ LotLimits' /\ SiblingsClosed' /\ LotTasks'
<1>3. LotOrders /\ OneEach /\ LotTasks /\ SiblingsClosed /\ watching = {}
  BY DEF LotInv
<1>4. ASSUME UNCHANGED <<broker, ledger, task, watching, siblings>> PROVE Fit
  <2>1. orders' = orders /\ exits' = exits /\ lotOpen' = lotOpen /\ task' = task /\ siblings' = siblings
    BY <1>4 DEF broker, ledger
  <2>2. LotOrders' /\ OneEach' /\ LotLimits' /\ SiblingsClosed'
    BY <1>0, <2>1, LotStill
  <2>4. LotTasks'
    BY <1>3, <2>1 DEF LotTasks, LotTask
  <2> QED BY <1>3, <1>4, <2>2, <2>4
<1>5. ASSUME NEW t \in Task, task'[t].at \in {"idle", "lot"}, \A u \in Task \ {t} : task'[u] = task[u],
             UNCHANGED <<broker, ledger, watching, siblings>>
      PROVE  Fit
  <2>1. orders' = orders /\ exits' = exits /\ lotOpen' = lotOpen /\ siblings' = siblings
    BY <1>5 DEF broker, ledger
  <2>2. LotOrders' /\ OneEach' /\ LotLimits' /\ SiblingsClosed'
    BY <1>0, <2>1, LotStill
  <2>4. LotTasks'
    <3> SUFFICES ASSUME NEW u \in Task PROVE LotTask(task[u])'
      BY DEF LotTasks
    <3> QED BY <1>3, <1>5, <2>1 DEF LotTasks, LotTask
  <2> QED BY <1>3, <1>5, <2>2, <2>4
<1> HIDE DEF Fit
<1>6. ASSUME \E t \in Task : NewTick(t) \/ TickStep(t) PROVE Fit
  <2>1. PICK t \in Task : NewTick(t) \/ TickStep(t)
    BY <1>6
  <2>2. ASSUME NEW k \in Key, SymbolPasses(t, k) PROVE Fit
    <3>1. UNCHANGED <<broker, ledger, watching, siblings>>
      BY <2>2 DEF SymbolPasses, background
    <3>2. task'[t].at = "lot" /\ \A u \in Task \ {t} : task'[u] = task[u]
      BY <1>0, <2>2 DEF SymbolPasses, LotLoop, TypeOK
    <3> QED BY <1>5, <3>1, <3>2
  <2>3. ASSUME NEW l \in Lot, LotFires(t, l) PROVE Fit
    <3>1. LotOrders' /\ OneEach' /\ LotLimits' /\ LotTasks'
      BY <1>0, <2>3, LotFiresFit
    <3>2. watching' = watching /\ siblings' = siblings /\ lotOpen' = lotOpen
      BY <2>3 DEF LotFires, background
    <3>3. PICK x \in ExitOrder, n \in Nat : Added(x, l, n)
      BY <2>3, LotOrderAdded
    <3>4. siblings \subseteq Ids /\ \A o \in Ids : orders'[o] = orders[o]
      BY <1>0, <3>3 DEF Added, TypeOK
    <3>5. SiblingsClosed'
      BY <1>3, <3>2, <3>4 DEF SiblingsClosed
    <3> QED BY <1>3, <3>1, <3>2, <3>5 DEF Fit
  <2>4. ASSUME NEW l \in Lot, LotPasses(t, l) PROVE Fit
    <3>1. UNCHANGED <<broker, ledger, watching, siblings>>
      BY <2>4 DEF LotPasses, background
    <3>2. task[t] \in LotJob /\ task[t].at = "lot"
      BY <1>0, <2>4, KindOfJob DEF TypeOK, LotPasses
    <3>3. task'[t].at = "lot" /\ \A u \in Task \ {t} : task'[u] = task[u]
      BY <1>0, <2>4, <3>2 DEF LotPasses, LotJob, TypeOK
    <3> QED BY <1>5, <3>1, <3>3
  <2>5. ASSUME LotPlaced(t) PROVE Fit
    <3>1. LotOrders' /\ OneEach' /\ LotLimits' /\ LotTasks'
      BY <1>0, <2>5, LotPlacedFit
    <3>2. watching' = watching /\ siblings' = siblings /\ lotOpen' = lotOpen /\ orders' = orders
      BY <2>5 DEF LotPlaced, background, broker
    <3>3. SiblingsClosed'
      BY <1>3, <3>2 DEF SiblingsClosed
    <3> QED BY <1>3, <3>1, <3>2, <3>3 DEF Fit
  <2>6. ASSUME TickEnds(t) PROVE Fit
    <3>1. UNCHANGED <<broker, ledger, watching, siblings>>
      BY <2>6 DEF TickEnds, background
    <3>2. task'[t].at = "idle" /\ \A u \in Task \ {t} : task'[u] = task[u]
      BY <1>0, <2>6 DEF TickEnds, TypeOK, Resting
    <3> QED BY <1>5, <3>1, <3>2
  <2>7. NewTick(t) => \E k \in Key : SymbolPasses(t, k)
    BY OnlyLotsExit DEF NewTick
  <2>8. TickStep(t) => (\E l \in Lot : LotFires(t, l) \/ LotPasses(t, l)) \/ LotPlaced(t) \/ TickEnds(t)
    BY OnlyLotsExit DEF TickStep
  <2> QED BY <2>1, <2>2, <2>3, <2>4, <2>5, <2>6, <2>7, <2>8
<1>7. ASSUME \E o \in Ids : Watcher(o) \/ Reconcile(o) \/ Fill(o) \/ BrokerKills(o) PROVE Fit
  <2>1. PICK o \in Ids : \/ BookLotExit(o) \/ BookAutoExit(o) \/ CancelSibling(o)
                         \/ Fill(o) \/ BrokerKills(o)
    BY <1>7, OnlyLotsExit DEF Reconcile
  <2>2. CASE BookLotExit(o)
    <3>1. LotOrders' /\ OneEach' /\ LotLimits' /\ LotTasks' /\ SiblingsClosed'
      BY <1>0, <2>2, LotBookingFits
    <3>2. watching' = watching
      BY <2>2 DEF BookLotExit
    <3> QED BY <1>3, <3>1, <3>2 DEF Fit
  <2>3. CASE BookAutoExit(o)
    <3>1. LotOrders' /\ OneEach' /\ LotLimits' /\ LotTasks' /\ SiblingsClosed'
      BY <1>0, <2>3, OldestFirstFits
    <3>2. watching' = watching
      BY <2>3 DEF BookAutoExit
    <3> QED BY <1>3, <3>1, <3>2 DEF Fit
  <2>4. CASE CancelSibling(o) \/ Fill(o) \/ BrokerKills(o)
    <3>1. LotOrders' /\ OneEach' /\ LotLimits' /\ LotTasks' /\ SiblingsClosed'
      BY <1>0, <2>4, LotTradesFit
    <3>2. watching' = watching
      BY <2>4 DEF CancelSibling, Fill, BrokerKills, background
    <3> QED BY <1>3, <3>1, <3>2 DEF Fit
  <2> QED BY <2>1, <2>2, <2>3, <2>4
<1>8. ASSUME (\E k \in Key : Reenable(k)) \/ Fetching \/ Refresh PROVE Fit
  <2>1. Fetching \/ Refresh
    BY <1>8, OnlyLotsExit
  <2>2. UNCHANGED <<broker, ledger, task, watching, siblings>>
    BY <2>1 DEF Fetching, FetchArrives, FetchFails, Refresh
  <2> QED BY <1>4, <2>2
<1>9. ASSUME UNCHANGED vars PROVE Fit
  BY <1>4, <1>9 DEF vars, background
<1>10. Fit
  BY <1>6, <1>7, <1>8, <1>9 DEF Next
<1>11. LotLimits' /\ LotTasks'
  BY <1>10 DEF Fit
<1> QED BY <1>0, <1>2, <1>10, <1>11 DEF Fit, LotInv

\* At the start every lot is open and there is no order.
LEMMA LotsStart == LotTargetsOnly /\ Init => LotInv
<1> SUFFICES ASSUME LotTargetsOnly, Init PROVE LotInv
  OBVIOUS
<1>1. Ids = {} /\ watching = {} /\ siblings = {} /\ lotOpen = LotQty /\ \A t \in Task : task[t].at = "idle"
  BY DEF Init, Ids, Resting
<1>2. \A l \in Lot : OwnBooked(l) = 0
  BY <1>1, SumEmpty DEF OwnBooked
<1>3. LotLimits
  <2>1. \A l \in Lot : LotQty[l] + 0 <= LotQty[l]
    BY AutoExitAssumption
  <2> QED BY <1>1, <1>2, <2>1 DEF LotLimits
<1> QED BY <1>1, <1>3, StartsTyped DEF LotInv, RowsOK, LotOrders, OneEach, SiblingsClosed, LotTasks, LotTask

\* What the orders of a position have sold, and the account that has lost no other
\* share.
SoldAt(p) == [o \in Ids |-> IF orders[o].pos = p THEN Filled(o) ELSE 0]
Account == \A p \in Pos : net[p] + SumFunctionOnSet(SoldAt(p), Ids) = StartQty[p]

LEMMA SoldTyped ==
  ASSUME LotInv, NEW p \in Pos
  PROVE  /\ \A o \in Ids : SoldAt(p)[o] \in Nat
         /\ IsFiniteSet(Ids) /\ SumFunctionOnSet(SoldAt(p), Ids) \in Nat /\ net[p] \in Int
<1>1. IsFiniteSet(Ids) /\ net[p] \in Int
  BY IdsAreFinite DEF LotInv, TypeOK
<1>2. \A o \in Ids : SoldAt(p)[o] \in Nat
  BY LotOrderFields DEF SoldAt
<1> QED BY <1>1, <1>2, SumNonNegative

\* A step that trades nothing.
LEMMA NothingSold ==
  ASSUME Account, net' = net, Ids' = Ids,
         \A o \in Ids : orders'[o].pos = orders[o].pos /\ orders'[o].qty = orders[o].qty
                        /\ orders'[o].left = orders[o].left
  PROVE  Account'
<1> SUFFICES ASSUME NEW p \in Pos PROVE net'[p] + SumFunctionOnSet(SoldAt(p), Ids)' = StartQty[p]
  BY DEF Account
<1>1. \A o \in Ids : Filled(o)' = Filled(o)
  BY DEF Filled
<1>2. SoldAt(p)' = SoldAt(p)
  BY <1>1 DEF SoldAt
<1> QED BY <1>2 DEF Account

\* An order that ends without a trade.
LEMMA NothingSoldAtEnd ==
  ASSUME Account, TypeOK, NEW o \in Ids, net' = net, Kept(orders', o), orders'[o].left = orders[o].left
  PROVE  Account'
<1>1. Ids' = Ids
  BY DEF Kept, Ids, TypeOK
<1>2. ASSUME NEW q \in Ids
      PROVE  orders'[q].pos = orders[q].pos /\ orders'[q].qty = orders[q].qty /\ orders'[q].left = orders[q].left
  <2>1. CASE q = o
    BY <2>1 DEF Kept
  <2>2. CASE q # o
    <3>1. orders'[q] = orders[q]
      BY <2>2 DEF Kept
    <3> QED BY <3>1
  <2> QED BY <2>1, <2>2
<1> QED BY <1>1, <1>2, NothingSold

\* A new order has sold nothing.
LEMMA NewOrderSoldNothing ==
  ASSUME LotInv, Account, net' = net, NEW x \in ExitOrder, NEW l \in Lot, NEW n \in Nat, Added(x, l, n)
  PROVE  Account'
<1> SUFFICES ASSUME NEW p \in Pos PROVE net'[p] + SumFunctionOnSet(SoldAt(p), Ids)' = StartQty[p]
  BY DEF Account
<1> DEFINE f == SoldAt(p)
<1> DEFINE g == SoldAt(p)'
<1>1. n \notin Ids /\ Ids' = Ids \cup {n} /\ orders'[n] = x /\ x.left = x.qty /\ x.qty \in Nat
  BY DEF Added, ExitOrder
<1>2. \A o \in Ids : orders'[o] = orders[o] /\ f[o] \in Int
  BY SoldTyped DEF Added
<1>3. \A o \in Ids : g[o] = f[o]
  BY <1>1, <1>2 DEF SoldAt, Filled
<1>4. g[n] = 0
  BY <1>1 DEF SoldAt, Filled
<1>5. IsFiniteSet(Ids) /\ SumFunctionOnSet(SoldAt(p), Ids)' = SumFunctionOnSet(g, Ids')
  BY SoldTyped
<1>6. net[p] + SumFunctionOnSet(f, Ids) = StartQty[p]
  BY DEF Account
<1> HIDE DEF f, g
<1>7. SumFunctionOnSet(g, Ids') = SumFunctionOnSet(f, Ids)
  BY <1>1, <1>2, <1>3, <1>4, <1>5, SumWithZero
<1> QED BY <1>5, <1>6, <1>7

\* Two numbers per order that differ at one order.
DiffersAt(f, g, S, o) ==
  o \in S /\ IsFiniteSet(S) /\ (\A q \in S : f[q] \in Int /\ g[q] \in Int) /\ \A q \in S \ {o} : f[q] = g[q]
LEMMA SumOfChanged ==
  ASSUME NEW f, NEW g, NEW S, NEW o, DiffersAt(f, g, S, o)
  PROVE  SumFunctionOnSet(g, S) = SumFunctionOnSet(f, S) - f[o] + g[o]
  BY SumChange DEF DiffersAt

\* What trades leaves the account.
LEMMA FillIsSold ==
  ASSUME LotInv, Account, NEW o \in Ids, NEW n \in Nat, net' = [net EXCEPT ![orders[o].pos] = @ - n],
         Kept(orders', o), orders'[o].left = orders[o].left - n
  PROVE  Account'
<1> SUFFICES ASSUME NEW p \in Pos PROVE net'[p] + SumFunctionOnSet(SoldAt(p), Ids)' = StartQty[p]
  BY DEF Account
<1> DEFINE f == SoldAt(p)
<1> DEFINE g == SoldAt(p)'
<1>1. Ids' = Ids /\ TypeOK /\ net \in [Pos -> Int]
  BY DEF Kept, Ids, TypeOK, LotInv
<1>2. \A q \in Ids : f[q] \in Int
  BY SoldTyped
<1>3. \A q \in Ids \ {o} : f[q] = g[q]
  BY <1>1 DEF SoldAt, Filled, Kept
<1>4. g[o] = IF orders[o].pos = p THEN f[o] + n ELSE f[o]
  <2>1. Filled(o)' = Filled(o) + n
    BY LotOrderFields DEF Filled, Kept
  <2> QED BY <1>1, <2>1 DEF SoldAt, Kept
<1>5. IsFiniteSet(Ids) /\ SumFunctionOnSet(SoldAt(p), Ids)' = SumFunctionOnSet(g, Ids)
  BY <1>1, SoldTyped
<1>6. net[p] + SumFunctionOnSet(f, Ids) = StartQty[p] /\ SumFunctionOnSet(f, Ids) \in Int
  BY SoldTyped DEF Account
<1>7. net[p] \in Int /\ net'[p] = IF orders[o].pos = p THEN net[p] - n ELSE net[p]
  BY <1>1
<1> HIDE DEF f, g
<1>8. SumFunctionOnSet(g, Ids) = SumFunctionOnSet(f, Ids) - f[o] + g[o]
  <2>1. \A q \in Ids : f[q] \in Int /\ g[q] \in Int
    BY <1>2, <1>3, <1>4
  <2>2. IsFiniteSet(Ids)
    BY <1>5
  <2>3. PICK F, G, S : F = f /\ G = g /\ S = Ids
    OBVIOUS
  <2>4. DiffersAt(F, G, S, o)
    BY <1>3, <2>1, <2>2, <2>3 DEF DiffersAt
  <2>5. SumFunctionOnSet(G, S) = SumFunctionOnSet(F, S) - F[o] + G[o]
    BY <2>4, SumOfChanged
  <2> QED BY <2>3, <2>5
<1> QED BY <1>2, <1>4, <1>5, <1>6, <1>7, <1>8

LEMMA AccountStep == LotTargetsOnly /\ LotInv /\ Account /\ [Next]_vars => Account'
<1> SUFFICES ASSUME LotTargetsOnly, LotInv, Account, [Next]_vars PROVE Account'
  OBVIOUS
<1>0. TypeOK
  BY DEF LotInv
<1>1. ASSUME net' = net, orders' = orders PROVE Account'
  BY <1>1, NothingSold DEF Ids
<1>2. CASE \E t \in Task : NewTick(t) \/ TickStep(t)
  <2>1. PICK t \in Task : NewTick(t) \/ TickStep(t)
    BY <1>2
  <2>2. ASSUME NEW l \in Lot, LotFires(t, l) PROVE Account'
    <3>1. PICK x \in ExitOrder, n \in Nat : Added(x, l, n)
      BY <2>2, LotOrderAdded
    <3>2. net' = net
      BY <2>2 DEF LotFires
    <3> QED BY <3>1, <3>2, NewOrderSoldNothing
  <2>3. NewTick(t) => net' = net /\ orders' = orders
    BY OnlyLotsExit DEF NewTick, SymbolPasses, broker
  <2>4. TickStep(t) => (\E l \in Lot : LotFires(t, l) \/ LotPasses(t, l)) \/ LotPlaced(t) \/ TickEnds(t)
    BY OnlyLotsExit DEF TickStep
  <2>5. (\E l \in Lot : LotPasses(t, l)) \/ LotPlaced(t) \/ TickEnds(t) => net' = net /\ orders' = orders
    BY DEF LotPasses, LotPlaced, TickEnds, broker
  <2> QED BY <1>1, <2>1, <2>2, <2>3, <2>4, <2>5
<1>3. CASE \E o \in Ids : Watcher(o) \/ Reconcile(o) \/ Fill(o) \/ BrokerKills(o)
  <2>1. PICK o \in Ids : \/ BookLotExit(o) \/ BookAutoExit(o) \/ CancelSibling(o)
                         \/ Fill(o) \/ BrokerKills(o)
    BY <1>3, OnlyLotsExit DEF Reconcile
  <2>2. BookLotExit(o) \/ BookAutoExit(o) => net' = net /\ orders' = orders
    BY DEF BookLotExit, BookAutoExit, broker
  <2>3. CASE CancelSibling(o)
    <3>1. net' = net
      BY <2>3 DEF CancelSibling
    <3>2. CASE o \notin Live
      BY <1>1, <2>3, <3>1, <3>2 DEF CancelSibling
    <3>3. CASE o \in Live
      <4>1. orders' = Ended(o, "cancelled")
        BY <2>3, <3>3 DEF CancelSibling
      <4>2. Kept(orders', o) /\ orders'[o].left = orders[o].left
        BY <1>0, <4>1, OrderEnds DEF OrderStatus
      <4> QED BY <1>0, <3>1, <4>2, NothingSoldAtEnd
    <3> QED BY <3>2, <3>3
  <2>4. CASE BrokerKills(o)
    <3>1. PICK st \in {"cancelled", "rejected"} : orders' = Ended(o, st) /\ net' = net
      BY <2>4 DEF BrokerKills
    <3>2. Kept(orders', o) /\ orders'[o].left = orders[o].left
      BY <1>0, <3>1, OrderEnds DEF OrderStatus
    <3> QED BY <1>0, <3>1, <3>2, NothingSoldAtEnd
  <2>5. CASE Fill(o)
    <3>1. PICK n \in 1..orders[o].left : net' = [net EXCEPT ![orders[o].pos] = @ - n] /\ orders' = Traded(o, n)
      BY <2>5 DEF Fill
    <3>2. Kept(orders', o) /\ orders'[o].left = orders[o].left - n
      BY <1>0, <3>1, OrderTrades
    <3>3. n \in Nat
      BY <3>1
    <3> QED BY <3>1, <3>2, <3>3, FillIsSold
  <2> QED BY <1>1, <2>1, <2>2, <2>3, <2>4, <2>5
<1>4. CASE (\E k \in Key : Reenable(k)) \/ Fetching \/ Refresh
  <2>1. Fetching \/ Refresh
    BY <1>4, OnlyLotsExit
  <2>2. net' = net /\ orders' = orders
    BY <2>1 DEF Fetching, FetchArrives, FetchFails, Refresh, broker
  <2> QED BY <1>1, <2>2
<1>5. CASE UNCHANGED vars
  BY <1>1, <1>5 DEF vars, broker
<1> QED BY <1>2, <1>3, <1>4, <1>5 DEF Next

LEMMA AccountStarts == Init => Account
<1> SUFFICES ASSUME Init, NEW p \in Pos PROVE net[p] + SumFunctionOnSet(SoldAt(p), Ids) = StartQty[p]
  BY DEF Account
<1>1. Ids = {} /\ net = StartQty /\ StartQty[p] \in Int
  BY AutoExitAssumption DEF Init, Ids
<1>2. SumFunctionOnSet(SoldAt(p), Ids) = 0
  BY <1>1, SumEmpty
<1> QED BY <1>1, <1>2

-----------------------------------------------------------------------------
(* Lots and their orders, lot by lot                                       *)

\* What the orders of each lot of a position make of a number per order.
LotOfOrder == [o \in Ids |-> orders[o].lot]
ByLot(f, p) == [l \in LotsOf(p) |-> [o \in Ids |-> IF orders[o].lot = l THEN f[o] ELSE 0]]

LEMMA GroupedByLot ==
  ASSUME LotInv, NEW p \in Pos, NEW f,
         \A o \in Ids : f[o] \in Nat /\ (orders[o].pos # p => f[o] = 0)
  PROVE  Grouped(Ids, LotsOf(p), f, ByLot(f, p), LotOfOrder)
<1>1. ASSUME NEW o \in Ids PROVE f[o] \in Int /\ (f[o] # 0 => LotOfOrder[o] \in LotsOf(p))
  <2>1. orders[o].lot \in Lot /\ orders[o].pos = PosOf[orders[o].lot]
    BY LotOrderFields
  <2> QED BY <2>1 DEF LotOfOrder, LotsOf
<1>2. \A l \in LotsOf(p), o \in Ids : ByLot(f, p)[l][o] = IF LotOfOrder[o] = l THEN f[o] ELSE 0
  BY DEF ByLot, LotOfOrder
<1> QED BY <1>1, <1>2 DEF Grouped

\* Such a number is over all orders at most what it may come to on each lot.
LEMMA WithinLots ==
  ASSUME LotInv, NEW p \in Pos, NEW f, \A o \in Ids : f[o] \in Nat /\ (orders[o].pos # p => f[o] = 0),
         NEW q, \A l \in LotsOf(p) : q[l] \in Int /\ SumFunctionOnSet(ByLot(f, p)[l], Ids) <= q[l]
  PROVE  SumFunctionOnSet(f, Ids) <= SumFunctionOnSet(q, LotsOf(p))
<1>1. IsFiniteSet(Ids) /\ IsFiniteSet(LotsOf(p))
  BY IdsAreFinite, LotsTotalTyped DEF LotInv
<1>2. Grouped(Ids, LotsOf(p), f, ByLot(f, p), LotOfOrder)
  BY GroupedByLot
<1> QED BY <1>1, <1>2, SumGroupsWithin

\* With nothing left to book, what a position has sold is off its lots.
LEMMA SettledIsSold ==
  ASSUME LotInv, Settled, NEW p \in Pos, NEW l \in LotsOf(p)
  PROVE  /\ LotQty[l] - lotOpen[l] \in Int
         /\ SumFunctionOnSet(ByLot(SoldAt(p), p)[l], Ids) <= LotQty[l] - lotOpen[l]
<1>1. l \in Lot /\ PosOf[l] = p /\ IsFiniteSet(Ids)
  BY SoldTyped DEF LotsOf
<1>2. LotQty[l] \in Nat /\ lotOpen[l] \in Nat /\ OwnBooked(l) \in Nat /\ lotOpen[l] + OwnBooked(l) <= LotQty[l]
  BY <1>1, OwnTyped DEF LotInv, LotLimits
<1> DEFINE f == ByLot(SoldAt(p), p)[l]
<1> DEFINE g == OwnFills(l)
<1>3. ASSUME NEW o \in Ids PROVE f[o] = g[o]
  <2>1. /\ orders[o].lot \in Lot /\ orders[o].pos = PosOf[orders[o].lot] /\ Filled(o) \in Nat
        /\ LotOrder(o) /\ exits[o] \in RowStatus
    BY LotOrderFields
  <2>2. exits[o] = "FILLED" \/ Filled(o) = 0
    <3>1. orders[o].st # "live" /\ (~IsAuto(o) => ~Bookable(o)) /\ ~IsAuto(o)
      BY <2>1 DEF Settled, Live, IsAuto
    <3>2. exits[o] # "PENDING" /\ (exits[o] \in {"CANCELLED", "REJECTED"} => ~(Filled(o) > 0))
      BY <3>1 DEF Bookable
    <3> QED BY <2>1, <3>2 DEF LotOrder, RowStatus
  <2>3. f[o] = IF orders[o].lot = l THEN SoldAt(p)[o] ELSE 0
    BY DEF ByLot
  <2>4. orders[o].lot = l => SoldAt(p)[o] = Filled(o)
    BY <1>1, <2>1 DEF SoldAt
  <2> QED BY <2>2, <2>3, <2>4 DEF OwnFills
<1>4. SumFunctionOnSet(g, Ids) = OwnBooked(l)
  BY DEF OwnBooked
<1> HIDE DEF f, g
<1>5. SumFunctionOnSet(f, Ids) = SumFunctionOnSet(g, Ids)
  BY <1>1, <1>3, SumSame
<1>6. SumFunctionOnSet(f, Ids) <= LotQty[l] - lotOpen[l]
  BY <1>2, <1>4, <1>5
<1> QED BY <1>2, <1>6 DEF f

LEMMA LotsFinite ==
  ASSUME LotInv, NEW p \in Pos
  PROVE  /\ IsFiniteSet(LotsOf(p))
         /\ \A l \in LotsOf(p) : LotQty[l] \in Int /\ lotOpen[l] \in Int
         /\ SumFunctionOnSet(LotQty, LotsOf(p)) \in Int
         /\ LotsTotal(p) = SumFunctionOnSet(lotOpen, LotsOf(p)) /\ LotsTotal(p) \in Int
<1>1. IsFiniteSet(LotsOf(p)) /\ LotsTotal(p) \in Int
  BY LotsTotalTyped DEF LotInv
<1>2. \A l \in LotsOf(p) : LotQty[l] \in Int /\ lotOpen[l] \in Int
  BY OwnTyped DEF LotsOf
<1> QED BY <1>1, <1>2, SumIsInt DEF LotsTotal

LEMMA TwiceTyped == ASSUME LotInv, NEW p \in Pos PROVE BookedTwice(p) \in Int
<1>1. TypeOK /\ IsFiniteSet(Ids) /\ TwiceAt(p) \subseteq Ids
  BY IdsAreFinite DEF LotInv, TwiceAt, TypeOK
<1>2. IsFiniteSet(TwiceAt(p))
  BY <1>1, FS_Subset
<1>3. \A o \in TwiceAt(p) : Fills[o] \in Int
  BY <1>1, LotOrderFields DEF Fills
<1> QED BY <1>2, <1>3, SumIsInt DEF BookedTwice

\* The ledger of lots with targets of their own settles on what the account holds:
\* where the lots of a position stand for exactly what was held at the start, and no
\* placement is lost, then once every order is dead and every fill of its own row is
\* booked the lots show no share that was sold, whichever lots fire together, however
\* their orders trade and end, and whenever reconciliation books them; the shares they
\* lack are those of fills that a pass met before the exit's number was stored
\* (_auto_exit_lot, _apply_lot_exits, _reconcile_untagged_fills).
THEOREM LotsSettle ==
  ASSUME LotTargetsOnly, \A p \in Pos : SumFunctionOnSet(LotQty, LotsOf(p)) = StartQty[p]
  PROVE  Spec => []LedgerMatchesAccount
<1>1. Init => LotInv /\ Account
  BY LotsStart, AccountStarts
<1>2. LotInv /\ Account /\ [Next]_vars => LotInv' /\ Account'
  BY LotStep, AccountStep
<1>3. LotInv /\ Account /\ FillsCounted => LedgerMatchesAccount
  <2> SUFFICES ASSUME LotInv, Account, FillsCounted, Settled, NEW p \in Pos
               PROVE  LotsTotal(p) <= net[p] /\ net[p] <= LotsTotal(p) + BookedTwice(p)
    BY DEF LedgerMatchesAccount
  <2> DEFINE q == [l \in LotsOf(p) |-> LotQty[l] - lotOpen[l]]
  <2>1. \A o \in Ids : SoldAt(p)[o] \in Nat /\ (orders[o].pos # p => SoldAt(p)[o] = 0)
    BY SoldTyped DEF SoldAt
  <2>2. \A l \in LotsOf(p) : q[l] \in Int /\ SumFunctionOnSet(ByLot(SoldAt(p), p)[l], Ids) <= q[l]
    BY SettledIsSold
  <2>3. /\ IsFiniteSet(LotsOf(p))
        /\ \A l \in LotsOf(p) : LotQty[l] \in Int /\ lotOpen[l] \in Int /\ LotQty[l] = q[l] + lotOpen[l]
        /\ LotsTotal(p) = SumFunctionOnSet(lotOpen, LotsOf(p)) /\ LotsTotal(p) \in Int
    BY LotsFinite
  <2>4. /\ SumFunctionOnSet(SoldAt(p), Ids) \in Nat /\ net[p] \in Int
        /\ net[p] + SumFunctionOnSet(SoldAt(p), Ids) = StartQty[p]
    BY SoldTyped DEF Account
  <2> HIDE DEF q
  <2>5. SumFunctionOnSet(SoldAt(p), Ids) <= SumFunctionOnSet(q, LotsOf(p))
    BY <2>1, <2>2, WithinLots
  <2>6. SumFunctionOnSet(LotQty, LotsOf(p)) = SumFunctionOnSet(q, LotsOf(p)) + SumFunctionOnSet(lotOpen, LotsOf(p))
    BY <2>2, <2>3, SumPlus
  <2>7. SumFunctionOnSet(q, LotsOf(p)) \in Int
    BY <2>2, <2>3, SumIsInt
  <2>8. LotsTotal(p) <= net[p]
    BY <2>3, <2>4, <2>5, <2>6, <2>7
  <2>9. LotsTotal(p) + BookedTwice(p) >= net[p]
    BY DEF FillsCounted
  <2>10. net[p] <= LotsTotal(p) + BookedTwice(p)
    <3>1. BookedTwice(p) \in Int
      BY TwiceTyped
    <3> QED BY <2>3, <2>4, <2>9, <3>1
  <2> QED BY <2>8, <2>10
<1>4. \A p \in Pos : SumFunctionOnSet(LotQty, LotsOf(p)) >= StartQty[p]
  BY AutoExitAssumption
<1>5. Spec => []FillsCounted
  BY <1>4, FillsAreCounted
<1> QED BY <1>1, <1>2, <1>3, <1>5, PTL DEF Spec

\* What an order has sold, and still sells while it rests.
StillSells(p) == [o \in Ids |-> IF o \in LiveAt(p) THEN orders[o].left ELSE 0]
Committed(p) == [o \in Ids |-> StillSells(p)[o] + SoldAt(p)[o]]

LEMMA CommittedTyped ==
  ASSUME LotInv, NEW p \in Pos, NEW o \in Ids
  PROVE  /\ StillSells(p)[o] \in Nat /\ SoldAt(p)[o] \in Nat /\ Committed(p)[o] \in Nat
         /\ Committed(p)[o] = StillSells(p)[o] + SoldAt(p)[o]
         /\ orders[o].pos # p => Committed(p)[o] = 0 /\ SoldAt(p)[o] = 0
         /\ Committed(p)[o] <= orders[o].qty /\ orders[o].qty \in Nat
         /\ ~Unsettled(o) => Committed(p)[o] = SoldAt(p)[o]
<1>1. /\ orders[o].qty \in Nat /\ orders[o].left \in Nat /\ orders[o].left <= orders[o].qty
      /\ Filled(o) = orders[o].qty - orders[o].left /\ Filled(o) \in Nat /\ LotOrder(o)
  BY LotOrderFields
<1>2. SoldAt(p)[o] = IF orders[o].pos = p THEN Filled(o) ELSE 0
  BY DEF SoldAt
<1>3. StillSells(p)[o] = IF o \in LiveAt(p) THEN orders[o].left ELSE 0
  BY DEF StillSells
<1>4. Committed(p)[o] = StillSells(p)[o] + SoldAt(p)[o]
  BY DEF Committed
<1>5. o \in LiveAt(p) => orders[o].pos = p /\ Unsettled(o)
  BY <1>1 DEF LiveAt, Live, LotOrder, Unsettled
<1> QED BY <1>1, <1>2, <1>3, <1>4, <1>5

\* What the orders of a lot have sold and still sell is at most the lot.
LEMMA LotCovered ==
  ASSUME LotInv, NEW p \in Pos, NEW l \in LotsOf(p)
  PROVE  SumFunctionOnSet(ByLot(Committed(p), p)[l], Ids) <= LotQty[l]
<1>1. l \in Lot /\ PosOf[l] = p /\ IsFiniteSet(Ids)
  BY SoldTyped DEF LotsOf
<1>2. LotQty[l] \in Nat /\ lotOpen[l] \in Nat /\ OwnBooked(l) \in Nat /\ lotOpen[l] + OwnBooked(l) <= LotQty[l]
  BY <1>1, OwnTyped DEF LotInv, LotLimits
<1> DEFINE f == ByLot(Committed(p), p)[l]
<1> DEFINE g == OwnFills(l)
<1>3. ASSUME NEW o \in Ids
      PROVE  /\ f[o] \in Int /\ g[o] \in Int
             /\ ~Unsettled(o) \/ orders[o].lot # l => f[o] = g[o]
             /\ orders[o].lot = l => f[o] <= orders[o].qty
             /\ Unsettled(o) => g[o] = 0
  <2>1. /\ orders[o].lot \in Lot /\ orders[o].pos = PosOf[orders[o].lot] /\ Filled(o) \in Nat
        /\ LotOrder(o) /\ Filled(o) = orders[o].qty - orders[o].left
        /\ orders[o].qty \in Nat /\ orders[o].left \in Nat
    BY LotOrderFields
  <2>2. f[o] = IF orders[o].lot = l THEN Committed(p)[o] ELSE 0
    BY DEF ByLot
  <2>3. g[o] = IF orders[o].lot = l /\ exits[o] = "FILLED" THEN Filled(o) ELSE 0
    BY DEF OwnFills
  <2>4. /\ Committed(p)[o] \in Nat /\ Committed(p)[o] <= orders[o].qty
        /\ ~Unsettled(o) => Committed(p)[o] = SoldAt(p)[o]
    BY CommittedTyped
  <2>5. ~Unsettled(o) => exits[o] = "FILLED" \/ Filled(o) = 0
    BY <2>1 DEF Unsettled
  <2>6. orders[o].lot = l => SoldAt(p)[o] = Filled(o)
    BY <1>1, <2>1 DEF SoldAt
  <2>7. Unsettled(o) => exits[o] # "FILLED"
    BY DEF Unsettled
  <2> HIDE DEF f, g
  <2> QED BY <2>1, <2>2, <2>3, <2>4, <2>5, <2>6, <2>7
<1>4. SumFunctionOnSet(g, Ids) = OwnBooked(l)
  BY DEF OwnBooked
<1> HIDE DEF f, g
<1>5. CASE \A o \in Ids : orders[o].lot = l => ~Unsettled(o)
  <2>1. SumFunctionOnSet(f, Ids) = SumFunctionOnSet(g, Ids)
    BY <1>1, <1>3, <1>5, SumSame
  <2>2. SumFunctionOnSet(f, Ids) <= LotQty[l]
    BY <1>2, <1>4, <2>1
  <2> QED BY <2>2 DEF f
<1>6. CASE \E o \in Ids : orders[o].lot = l /\ Unsettled(o)
  <2>1. PICK o \in Ids : orders[o].lot = l /\ Unsettled(o)
    BY <1>6
  <2>2. \A q \in Ids \ {o} : Unsettled(q) => orders[q].lot # l
    BY <2>1 DEF LotInv, OneEach
  <2>3. LotOrder(o) /\ orders[o].qty \in Nat
    BY LotOrderFields
  <2>4. orders[o].qty + OwnBooked(l) <= LotQty[l]
    BY <2>1, <2>3 DEF LotOrder
  <2>5. DiffersAt(g, f, Ids, o)
    <3>1. \A q \in Ids : g[q] \in Int /\ f[q] \in Int
      BY <1>3
    <3>2. \A q \in Ids \ {o} : g[q] = f[q]
      BY <1>3, <2>2
    <3> QED BY <1>1, <3>1, <3>2 DEF DiffersAt
  <2>6. SumFunctionOnSet(f, Ids) = SumFunctionOnSet(g, Ids) - g[o] + f[o]
    BY <2>5, SumOfChanged
  <2>7. g[o] = 0 /\ f[o] <= orders[o].qty /\ f[o] \in Int
    BY <1>3, <2>1
  <2>8. SumFunctionOnSet(f, Ids) <= LotQty[l]
    BY <1>2, <1>4, <2>3, <2>4, <2>6, <2>7
  <2> QED BY <2>8 DEF f
<1> QED BY <1>5, <1>6

\* What the orders of a position still sell is in the account, lot by lot.
LEMMA LotsInHand ==
  ASSUME LotInv, Account, NEW p \in Pos, SumFunctionOnSet(LotQty, LotsOf(p)) <= StartQty[p]
  PROVE  Working[p] \in Nat /\ net[p] \in Int /\ Working[p] <= net[p]
<1> DEFINE u == StillSells(p)
<1> DEFINE s == SoldAt(p)
<1> DEFINE c == Committed(p)
<1>1. TypeOK
  BY DEF LotInv
<1>2. /\ LiveAt(p) \subseteq Ids /\ IsFiniteSet(LiveAt(p)) /\ IsFiniteSet(Ids)
      /\ Working[p] = SumFunctionOnSet(Unfilled, LiveAt(p)) /\ Working[p] \in Nat
  BY <1>1, LiveOrders, IdsAreFinite
<1>3. \A o \in Ids : u[o] \in Int /\ s[o] \in Int /\ c[o] = u[o] + s[o]
  BY CommittedTyped
<1>4. \A o \in Ids : c[o] \in Nat /\ (orders[o].pos # p => c[o] = 0)
  BY CommittedTyped
<1>5. \A l \in LotsOf(p) : LotQty[l] \in Int /\ SumFunctionOnSet(ByLot(c, p)[l], Ids) <= LotQty[l]
  BY LotsFinite, LotCovered
<1>6. \A o \in LiveAt(p) : u[o] = Unfilled[o]
  BY <1>2 DEF StillSells, Unfilled
<1>7. \A o \in Ids \ LiveAt(p) : u[o] = 0
  BY DEF StillSells
<1>8. /\ SumFunctionOnSet(s, Ids) \in Nat /\ net[p] \in Int
      /\ net[p] + SumFunctionOnSet(s, Ids) = StartQty[p]
  BY SoldTyped DEF Account
<1> HIDE DEF u, s, c
<1>9. SumFunctionOnSet(u, Ids) = Working[p]
  <2>1. SumFunctionOnSet(u, Ids) = SumFunctionOnSet(u, LiveAt(p))
    BY <1>2, <1>3, <1>7, SumPart
  <2>2. SumFunctionOnSet(u, LiveAt(p)) = SumFunctionOnSet(Unfilled, LiveAt(p))
    BY <1>2, <1>6, SumSame
  <2> QED BY <1>2, <2>1, <2>2
<1>10. SumFunctionOnSet(c, Ids) = SumFunctionOnSet(u, Ids) + SumFunctionOnSet(s, Ids)
  BY <1>2, <1>3, SumPlus
<1>11. SumFunctionOnSet(c, Ids) <= SumFunctionOnSet(LotQty, LotsOf(p))
  BY <1>4, <1>5, WithinLots
<1>12. SumFunctionOnSet(LotQty, LotsOf(p)) \in Int
  BY LotsFinite
<1> QED BY <1>2, <1>8, <1>9, <1>10, <1>11, <1>12

\* A lot's order goes out for shares no other order is selling.
LEMMA LotIsCommitted ==
  ASSUME LotTargetsOnly, LotInv, TypeOK', NEW t \in Task, NEW l \in Lot, LotFires(t, l),
         \A p \in Pos : Working'[p] <= net'[p]
  PROVE  [Desk!DeskNext]_<<net, Working>>
<1>0. TypeOK
  BY DEF LotInv
<1>1. PICK x \in ExitOrder, n \in Nat : Added(x, l, n)
  BY LotOrderAdded
<1>2. net' = net /\ PosOf[l] \in Pos /\ x.qty \in Nat \ {0} /\ x.pos = PosOf[l] /\ x.left = x.qty
  BY <1>1 DEF LotFires, ExitOrder, Added
<1>3. Ids' = Ids \cup {n} /\ n \notin Ids
  BY <1>1 DEF Added
<1>4. orders'[n] = x /\ \A o \in Ids : orders'[o] = orders[o]
  BY <1>1 DEF Added
<1>5. ASSUME NEW p \in Pos, p # PosOf[l] \/ x.st # "live" PROVE Working'[p] = Working[p]
  <2>1. \A o \in Ids : o \in LiveAt(p)' <=> o \in LiveAt(p)
    BY <1>3, <1>4 DEF LiveAt, Live
  <2>2. n \notin LiveAt(p)'
    BY <1>2, <1>4, <1>5 DEF LiveAt, Live
  <2>3. LiveAt(p)' = LiveAt(p)
    BY <1>3, <2>1, <2>2 DEF LiveAt, Live
  <2>4. \A o \in LiveAt(p) : orders'[o].left = orders[o].left
    BY <1>4 DEF LiveAt, Live
  <2> QED BY <1>0, <2>3, <2>4, WorkingKept
<1>6. CASE x.st # "live"
  <2>1. Working' = Working
    BY <1>5, <1>6 DEF Working
  <2> QED BY <1>2, <2>1, AccountKept
<1>7. CASE x.st = "live"
  <2>1. PICK q \in Pos : q = PosOf[l]
    BY <1>2
  <2>2. LiveAt(q)' = LiveAt(q) \cup {n} /\ n \notin LiveAt(q)
    <3>1. \A o \in Ids : o \in LiveAt(q)' <=> o \in LiveAt(q)
      BY <1>3, <1>4 DEF LiveAt, Live
    <3>2. n \in LiveAt(q)' /\ n \notin LiveAt(q)
      BY <1>2, <1>3, <1>4, <1>7, <2>1 DEF LiveAt, Live
    <3> QED BY <1>3, <3>1, <3>2 DEF LiveAt, Live
  <2>3. Working'[q] = Working[q] + x.qty /\ Working[q] \in Nat
    <3> DEFINE f == Unfilled
               g == Unfilled'
               S == LiveAt(q)
    <3>1. IsFiniteSet(S) /\ S \subseteq Ids /\ Working[q] = SumFunctionOnSet(f, S) /\ Working[q] \in Nat
      BY <1>0, LiveOrders
    <3>2. \A o \in S : f[o] = g[o] /\ f[o] \in Int
      BY <1>0, <1>3, <1>4, <3>1, OrderFields DEF Unfilled
    <3>3. g[n] = x.qty
      BY <1>2, <1>3, <1>4 DEF Unfilled
    <3>4. Working'[q] = SumFunctionOnSet(g, S \cup {n}) /\ n \notin S
      BY <2>2 DEF Working
    <3> HIDE DEF f, g, S
    <3>5. SumFunctionOnSet(g, S \cup {n}) = g[n] + SumFunctionOnSet(g, S)
      <4>1. \A o \in S \cup {n} : g[o] \in Int
        BY <1>2, <3>2, <3>3
      <4> QED BY <3>1, <3>4, <4>1, SumAdd
    <3>6. SumFunctionOnSet(f, S) = SumFunctionOnSet(g, S)
      BY <3>1, <3>2, SumSame
    <3> QED BY <1>2, <3>1, <3>3, <3>4, <3>5, <3>6
  <2>4. OnlyAt(q)
    BY <1>5, <2>1, OneChanges
  <2>5. Desk!Commit(q)
    BY <1>2, <2>3, <2>4 DEF Desk!Commit, OnlyAt
  <2> QED BY <2>5 DEF Desk!DeskNext
<1> QED BY <1>6, <1>7

\* An exit of a closed lot is withdrawn.
LEMMA SiblingWithdrawn ==
  ASSUME TypeOK, TypeOK', NEW o \in Live, orders[o].left > 0, orders' = Ended(o, "cancelled"), net' = net
  PROVE  [Desk!DeskNext]_<<net, Working>>
<1>1. o \in Ids
  BY DEF Live
<1>2. Kept(orders', o) /\ orders'[o].left = orders[o].left /\ orders'[o].st = "cancelled"
  BY <1>1, OrderEnds DEF OrderStatus
<1>3. Ids' = Ids
  BY <1>2 DEF Kept, Ids, TypeOK
<1>4. PICK n \in Nat : n = orders[o].left
  BY <1>1, OrderFields
<1> QED BY <1>2, <1>3, <1>4, OrderEndsAtDesk

LEMMA LotDeskStep ==
  ASSUME LotTargetsOnly, LotInv, TypeOK', [Next]_vars, \A p \in Pos : Working'[p] <= net'[p]
  PROVE  [Desk!DeskNext]_<<net, Working>>
<1>0. TypeOK /\ LotOrders
  BY DEF LotInv
<1>1. ASSUME net' = net, orders' = orders PROVE [Desk!DeskNext]_<<net, Working>>
  <2>1. Working' = Working
    BY <1>1 DEF Working, LiveAt, Live, Unfilled, Ids
  <2> QED BY <1>1, <2>1, AccountKept
<1>2. CASE \E t \in Task : NewTick(t) \/ TickStep(t)
  <2>1. PICK t \in Task : NewTick(t) \/ TickStep(t)
    BY <1>2
  <2>2. \A l \in Lot : LotFires(t, l) => [Desk!DeskNext]_<<net, Working>>
    BY LotIsCommitted
  <2>3. NewTick(t) => net' = net /\ orders' = orders
    BY OnlyLotsExit DEF NewTick, SymbolPasses, broker
  <2>4. TickStep(t) => (\E l \in Lot : LotFires(t, l) \/ LotPasses(t, l)) \/ LotPlaced(t) \/ TickEnds(t)
    BY OnlyLotsExit DEF TickStep
  <2>5. (\E l \in Lot : LotPasses(t, l)) \/ LotPlaced(t) \/ TickEnds(t) => net' = net /\ orders' = orders
    BY DEF LotPasses, LotPlaced, TickEnds, broker
  <2> QED BY <1>1, <2>1, <2>2, <2>3, <2>4, <2>5
<1>3. CASE \E o \in Ids : Watcher(o) \/ Reconcile(o) \/ Fill(o) \/ BrokerKills(o)
  <2>1. PICK o \in Ids : \/ BookLotExit(o) \/ BookAutoExit(o) \/ CancelSibling(o)
                         \/ Fill(o) \/ BrokerKills(o)
    BY <1>3, OnlyLotsExit DEF Reconcile
  <2>2. BookLotExit(o) \/ BookAutoExit(o) => net' = net /\ orders' = orders
    BY DEF BookLotExit, BookAutoExit, broker
  <2>3. orders[o].st = "live" => orders[o].left > 0
    BY <1>0 DEF LotOrders, LotOrder
  <2>4. CASE CancelSibling(o)
    <3>1. net' = net
      BY <2>4 DEF CancelSibling
    <3>2. CASE o \notin Live
      BY <1>1, <2>4, <3>1, <3>2 DEF CancelSibling
    <3>3. CASE o \in Live
      <4>1. orders' = Ended(o, "cancelled")
        BY <2>4, <3>3 DEF CancelSibling
      <4>2. orders[o].left > 0
        BY <2>3, <3>3 DEF Live
      <4> QED BY <1>0, <3>1, <3>3, <4>1, <4>2, SiblingWithdrawn
    <3> QED BY <3>2, <3>3
  <2> QED BY <1>0, <1>1, <2>1, <2>2, <2>3, <2>4, BrokerAtDesk
<1>4. CASE (\E k \in Key : Reenable(k)) \/ Fetching \/ Refresh
  <2>1. Fetching \/ Refresh
    BY <1>4, OnlyLotsExit
  <2>2. net' = net /\ orders' = orders
    BY <2>1 DEF Fetching, FetchArrives, FetchFails, Refresh, broker
  <2> QED BY <1>1, <2>2
<1>5. CASE UNCHANGED vars
  BY <1>1, <1>5 DEF vars, broker
<1> QED BY <1>2, <1>3, <1>4, <1>5 DEF Next

LEMMA LotDeskStarts == LotTargetsOnly /\ Init => LotInv /\ Account /\ Desk!DeskInit
<1> SUFFICES ASSUME LotTargetsOnly, Init PROVE LotInv /\ Account /\ Desk!DeskInit
  OBVIOUS
<1>1. LotInv /\ Account
  BY LotsStart, AccountStarts
<1>2. ASSUME NEW p \in Pos PROVE Working[p] = 0
  <2>1. LiveAt(p) = {}
    BY DEF LiveAt, Live, Ids, Init
  <2> QED BY <2>1, SumEmpty DEF Working
<1>3. Working = [p \in Pos |-> 0]
  BY <1>2 DEF Working
<1> QED BY <1>1, <1>3 DEF Desk!DeskInit, Init

\* The targets of single lots keep the promise of the exit desk: several lots of one
\* position may fire together, each with an order of its own for all it has open, and
\* what these orders still sell is never more than the position holds, while fills
\* wait to be booked, while some are booked on another lot than the one that was sold,
\* and while orders are rejected, cancelled or traded in part, as long as the lots
\* stand for no more than was held and no placement is lost
\* (_on_target_tick, _auto_exit_lot, _apply_lot_exits, _cancel_sibling_exits).
THEOREM LotExitsKeepTheDesk ==
  ASSUME LotTargetsOnly, \A p \in Pos : SumFunctionOnSet(LotQty, LotsOf(p)) <= StartQty[p]
  PROVE  Spec => Desk!DeskSpec /\ []Desk!CoveredByHolding
<1>1. Init => LotInv /\ Account /\ Desk!DeskInit
  BY LotDeskStarts
<1>2. LotInv /\ Account /\ [Next]_vars => LotInv' /\ Account'
  BY LotStep, AccountStep
<1>3. LotInv /\ Account => Desk!CoveredByHolding
  BY LotsInHand DEF Desk!CoveredByHolding
<1>4. Desk!CoveredByHolding' => \A p \in Pos : Working'[p] <= net'[p]
  BY DEF Desk!CoveredByHolding
<1>5. LotInv /\ LotInv' /\ Desk!CoveredByHolding' /\ [Next]_vars => [Desk!DeskNext]_(Desk!deskVars)
  BY <1>4, LotDeskStep DEF LotInv, Desk!deskVars
<1> QED BY <1>1, <1>2, <1>3, <1>5, PTL DEF Spec, Desk!DeskSpec
=============================================================================
