-------------------------- MODULE Rollover_proofs --------------------------
(***************************************************************************)
(* Proofs about rolling lots, for any number of lots, requests, exits,     *)
(* passes and deaths: the far leg of an intent is sent once and for no     *)
(* more than its exit has closed, and what a lot carries is nowhere twice; *)
(* and about the reservations a far leg is placed under.                   *)
(***************************************************************************)
EXTENDS Rollover, SequenceTheorems, FiniteSetTheorems, Totals_proofs, TLAPS

\* claims and passes as the code can have them
ClaimSet == [roll : Roll, share : Int, prior : Int, reduced : BOOLEAN]
PassSet == [pc : {"idle", "claiming", "firing", "placing", "tagging", "restoring"},
            rows : SUBSET Roll, claims : Seq(ClaimSet)]
\* a row marked FILLED has a fill
ExitSet == {x \in NearExitSet : x.st = "FILLED" => x.filled # 0}
RollTypes ==
  /\ near \in [Lot -> [open : Nat, carried : Int]]
  /\ nearExits \in Seq(ExitSet)
  /\ asked \in [Roll -> [pc : {"idle", "exiting", "exited", "raised", "noted"}, exit : Nat]]
  /\ row \in [Roll -> [st : Statuses, lot : Lot, exit : Nat, qty : Nat]]
  /\ pass \in [Reconcilers -> PassSet]
  /\ far \in [Roll -> [sent : Nat, live : BOOLEAN, qty : Nat, carried : Int]]

\* What an intent names exists, and is for no more than that exit has closed.
Named(i) ==
  /\ asked[i].pc # "noted" => row[i].st = "none"
  /\ asked[i].pc \in {"exiting", "exited"} => asked[i].exit \in 1..Len(nearExits)
  /\ row[i].st = "none" => row[i].exit = NoExit /\ row[i].qty = 0
  /\ row[i].st # "none" => /\ row[i].exit \in 1..Len(nearExits)
                           /\ nearExits[row[i].exit].lot = row[i].lot
                           /\ row[i].qty <= nearExits[row[i].exit].filled
\* A far order is sent once, for no more than its intent says, and not before
\* the intent is claimed.
Untouched(f) == f.sent = 0 /\ f.qty = 0 /\ f.carried = 0
SentOnce(r, f) ==
  /\ f.sent \in {0, 1} /\ f.qty <= r.qty /\ (f.sent = 0 => f.qty = 0)
  /\ r.st \in {"none", "PENDING"} => Untouched(f)
\* A claim that is not answered yet is FIRING and its far order not sent.
OpenAt(c, n) == n > 1 \/ c.pc \notin {"tagging", "restoring"}
ClaimSound(open, r, f) ==
  IF open THEN r.st = "FIRING" /\ Untouched(f)
          ELSE r.st \in {"DONE", "FAILED", "UNRESOLVED"} /\ f.carried = 0
Places(k) == 1..Len(pass[k].claims)
RollAt(k, n) == pass[k].claims[n].roll
\* An intent is in the hands of one pass, once.
Apart ==
  \A j, k \in Reconcilers : \A m \in Places(j), n \in Places(k) :
    RollAt(j, m) = RollAt(k, n) => j = k /\ m = n
PassSound(k) ==
  /\ pass[k].pc = "idle" => Len(pass[k].claims) = 0
  /\ pass[k].pc \in {"firing", "placing", "tagging", "restoring"} => Len(pass[k].claims) > 0
  /\ pass[k].pc = "claiming" => \A i \in pass[k].rows : row[i].st = "PENDING"
  /\ \A n \in Places(k) :
       ClaimSound(OpenAt(pass[k], n), row[RollAt(k, n)], far[RollAt(k, n)])
OneClaims == \A j, k \in Reconcilers : pass[j].pc = "claiming" /\ pass[k].pc = "claiming" => j = k

RollInv ==
  /\ RollTypes
  /\ \A i \in Roll : Named(i) /\ SentOnce(row[i], far[i])
  /\ \A k \in Reconcilers : PassSound(k)
  /\ Apart /\ OneClaims
-----------------------------------------------------------------------------
USE DEF NoExit

\* The invariant says what is wanted.
LEMMA RollInvCovers == RollInv => FarCovered
<1> SUFFICES ASSUME RollInv PROVE FarCovered
  OBVIOUS
<1> USE RolloverAssumption
<1>1. \A i \in Roll : far[i].sent <= 1
  BY DEF RollInv, SentOnce
<1>2. ASSUME OwnExits, NEW l \in Lot
      PROVE  SumFunctionOnSet(FarShares(l), Roll) <= SumFunctionOnSet(NearShares, NearExitOf(l))
  <2> DEFINE h == [i \in Roll |-> row[i].exit]
  <2>1. IsFiniteSet(Roll)
    BY FS_Interval DEF Roll
  <2>2. Len(nearExits) \in Nat /\ \A e \in 1..Len(nearExits) : nearExits[e].filled \in Nat
    <3>1. nearExits \in Seq(ExitSet)
      BY DEF RollInv, RollTypes
    <3>2. \A e \in 1..Len(nearExits) : nearExits[e] \in ExitSet
      BY <3>1
    <3> QED BY <3>1, <3>2, LenProperties DEF ExitSet, NearExitSet
  <2>3. IsFiniteSet(NearExitOf(l))
    <3>1. IsFiniteSet(1..Len(nearExits)) /\ NearExitOf(l) \subseteq 1..Len(nearExits)
      BY <2>2, FS_Interval DEF NearExitOf
    <3> QED BY <3>1, FS_Subset
  <2>4. \A e \in NearExitOf(l) : NearShares[e] \in Nat
    BY <2>2 DEF NearExitOf, NearShares
  <2>5. \A i \in Roll : FarShares(l)[i] \in Nat
    BY DEF FarShares, RollInv, RollTypes
  <2>6. ASSUME NEW i \in Roll, FarShares(l)[i] # 0
        PROVE  /\ row[i].exit \in NearExitOf(l) /\ FarShares(l)[i] <= NearShares[row[i].exit]
               /\ row[i].exit # 0
    <3>1. row[i].lot = l /\ FarShares(l)[i] = far[i].qty /\ far[i].qty # 0
      BY <2>6 DEF FarShares
    <3>2. far[i].qty \in Nat /\ row[i].qty \in Nat /\ far[i].qty <= row[i].qty /\ Named(i)
      BY DEF RollInv, RollTypes, SentOnce
    <3>3. row[i].st # "none"
      BY <3>1, <3>2 DEF Named
    <3>4. /\ row[i].exit \in 1..Len(nearExits) /\ nearExits[row[i].exit].lot = l
          /\ row[i].qty <= nearExits[row[i].exit].filled
      BY <3>1, <3>2, <3>3 DEF Named
    <3> QED BY <2>2, <3>1, <3>2, <3>4, SMTT(30) DEF NearExitOf, NearShares
  <2>7. \A i, j \in Roll : FarShares(l)[i] # 0 /\ FarShares(l)[j] # 0 /\ h[i] = h[j] => i = j
    BY <1>2, <2>6 DEF OwnExits
  <2>8. \A i \in Roll : FarShares(l)[i] # 0 => h[i] \in NearExitOf(l) /\ FarShares(l)[i] <= NearShares[h[i]]
    BY <2>6
  <2> HIDE DEF h
  <2> QED BY <2>1, <2>3, <2>4, <2>5, <2>7, <2>8, SumInjection
<1> QED BY <1>1, <1>2 DEF FarCovered

\* Nothing is asked, claimed or sent at the start.
LEMMA RollInitOK == RollInit => RollInv
<1> SUFFICES ASSUME RollInit PROVE RollInv
  OBVIOUS
<1> USE RolloverAssumption
<1>1. NoRow \in [st : Statuses, lot : Lot, exit : Nat, qty : Nat]
  BY DEF NoRow, Statuses
<1>2. IdlePass \in PassSet /\ IdlePass.pc = "idle" /\ Len(IdlePass.claims) = 0
  <2>1. <<>> \in Seq(ClaimSet) /\ Len(<<>>) = 0
    OBVIOUS
  <2> QED BY <2>1 DEF IdlePass, PassSet
<1>3. nearExits \in Seq(ExitSet)
  BY DEF RollInit
<1>4. /\ near \in [Lot -> [open : Nat, carried : Int]]
      /\ asked \in [Roll -> [pc : {"idle", "exiting", "exited", "raised", "noted"}, exit : Nat]]
      /\ far \in [Roll -> [sent : Nat, live : BOOLEAN, qty : Nat, carried : Int]]
  BY DEF RollInit
<1>5. RollTypes
  BY <1>1, <1>2, <1>3, <1>4 DEF RollInit, RollTypes
<1>6. \A i \in Roll : Named(i) /\ SentOnce(row[i], far[i])
  BY DEF RollInit, NoRow, Named, SentOnce, Untouched
<1>7. \A k \in Reconcilers : PassSound(k) /\ Places(k) = {} /\ pass[k].pc = "idle"
  BY <1>2 DEF RollInit, PassSound, Places
<1> QED BY <1>5, <1>6, <1>7 DEF RollInv, Apart, OneClaims

\* What the types say of one exit, intent or pass.
RollFacts ==
  /\ Len(nearExits) \in Nat
  /\ \A e \in 1..Len(nearExits) :
       nearExits[e] \in ExitSet /\ nearExits[e].filled \in Nat /\ nearExits[e].lot \in Lot
  /\ \A i \in Roll : row[i].qty \in Nat /\ row[i].lot \in Lot /\ row[i].exit \in Nat /\ far[i].carried \in Int
                    /\ far[i].qty \in Nat
  /\ \A k \in Reconcilers : /\ pass[k] \in PassSet /\ pass[k].claims \in Seq(ClaimSet)
                            /\ pass[k].rows \subseteq Roll /\ Len(pass[k].claims) \in Nat
                            /\ \A n \in Places(k) : pass[k].claims[n] \in ClaimSet /\ RollAt(k, n) \in Roll
\* The facts above follow from the types.
LEMMA RollTyped == RollTypes => RollFacts
<1> SUFFICES ASSUME RollTypes PROVE RollFacts
  OBVIOUS
<1>1. Len(nearExits) \in Nat /\ \A e \in 1..Len(nearExits) : nearExits[e] \in ExitSet
  BY LenProperties DEF RollTypes
<1>2. \A e \in 1..Len(nearExits) : nearExits[e].filled \in Nat /\ nearExits[e].lot \in Lot
  BY <1>1 DEF ExitSet, NearExitSet
<1>3. \A i \in Roll : row[i].qty \in Nat /\ row[i].lot \in Lot /\ row[i].exit \in Nat /\ far[i].carried \in Int
                     /\ far[i].qty \in Nat
  BY DEF RollTypes
<1>4. ASSUME NEW k \in Reconcilers
      PROVE  /\ pass[k] \in PassSet /\ pass[k].claims \in Seq(ClaimSet)
             /\ pass[k].rows \subseteq Roll /\ Len(pass[k].claims) \in Nat
             /\ \A n \in Places(k) : pass[k].claims[n] \in ClaimSet /\ RollAt(k, n) \in Roll
  <2>1. pass[k] \in PassSet
    BY DEF RollTypes
  <2>2. pass[k].claims \in Seq(ClaimSet) /\ pass[k].rows \subseteq Roll
    BY <2>1 DEF PassSet
  <2>3. Len(pass[k].claims) \in Nat /\ \A n \in Places(k) : pass[k].claims[n] \in ClaimSet
    BY <2>2, LenProperties, ElementOfSeq DEF Places
  <2> QED BY <2>1, <2>2, <2>3 DEF ClaimSet, RollAt
<1> QED BY <1>1, <1>2, <1>3, <1>4 DEF RollFacts

\* A step about the near exits: no intent, pass or far order moves, and what an
\* exit has filled is not taken back.
LEMMA ExitsKeep ==
  ASSUME RollInv, UNCHANGED <<row, pass, far>>,
         near' \in [Lot -> [open : Nat, carried : Int]], nearExits' \in Seq(ExitSet),
         asked' \in [Roll -> [pc : {"idle", "exiting", "exited", "raised", "noted"}, exit : Nat]],
         Len(nearExits') >= Len(nearExits),
         \A e \in 1..Len(nearExits) : /\ nearExits'[e].lot = nearExits[e].lot
                                      /\ nearExits'[e].filled >= nearExits[e].filled,
         \A i \in Roll : /\ asked'[i].pc # "noted" => asked[i].pc # "noted"
                         /\ asked'[i].pc \in {"exiting", "exited"} => asked'[i].exit \in 1..Len(nearExits')
  PROVE  RollInv'
<1>1. RollFacts
  BY RollTyped DEF RollInv
<1>2. RollTypes'
  BY DEF RollInv, RollTypes
<1>3. RollFacts'
  BY <1>2, RollTyped, PTL
<1>4. ASSUME NEW i \in Roll PROVE Named(i)' /\ SentOnce(row[i], far[i])'
  <2>1. Named(i) /\ SentOnce(row[i], far[i])
    BY DEF RollInv
  <2>2. row[i].st # "none" => row'[i].qty <= nearExits'[row[i].exit].filled
    <3>1. SUFFICES ASSUME row[i].st # "none" PROVE row[i].qty <= nearExits'[row[i].exit].filled
      OBVIOUS
    <3> DEFINE e == row[i].exit
    <3>2. e \in 1..Len(nearExits) /\ row[i].qty <= nearExits[e].filled
      BY <2>1, <3>1 DEF Named
    <3>3. e \in 1..Len(nearExits')
      BY <1>1, <1>3, <3>2 DEF RollFacts
    <3>4. nearExits[e].filled \in Nat /\ nearExits'[e].filled \in Nat /\ row[i].qty \in Nat
      BY <1>1, <1>3, <3>2, <3>3 DEF RollFacts
    <3>5. nearExits'[e].filled >= nearExits[e].filled
      BY <3>2
    <3> QED BY <3>2, <3>4, <3>5
  <2>3. Len(nearExits) \in Nat /\ Len(nearExits') \in Nat
    BY <1>1, <1>3 DEF RollFacts
  <2>4. row'[i] = row[i] /\ far'[i] = far[i]
    OBVIOUS
  <2>5. SentOnce(row[i], far[i])'
    BY <2>1, <2>4 DEF SentOnce, Untouched
  <2>6. row[i].st # "none" => /\ row[i].exit \in 1..Len(nearExits')
                             /\ nearExits'[row[i].exit].lot = row[i].lot
    BY <2>1, <2>3 DEF Named
  <2>7. Named(i)'
    <3>1. asked'[i].pc # "noted" => row'[i].st = "none"
      BY <2>1, <2>4 DEF Named
    <3>2. asked'[i].pc \in {"exiting", "exited"} => asked'[i].exit \in 1..Len(nearExits')
      OBVIOUS
    <3>3. row'[i].st = "none" => row'[i].exit = NoExit /\ row'[i].qty = 0
      BY <2>1, <2>4 DEF Named
    <3>4. row'[i].st # "none" => /\ row'[i].exit \in 1..Len(nearExits')
                                /\ nearExits'[row'[i].exit].lot = row'[i].lot
                                /\ row'[i].qty <= nearExits'[row'[i].exit].filled
      BY <2>2, <2>4, <2>6
    <3> QED BY <3>1, <3>2, <3>3, <3>4 DEF Named
  <2> QED BY <2>5, <2>7
<1>5. \A k \in Reconcilers : PassSound(k)'
  BY DEF RollInv, PassSound, Places, RollAt
<1>6. Apart' /\ OneClaims'
  BY DEF RollInv, Apart, OneClaims, Places, RollAt
<1> QED BY <1>2, <1>4, <1>5, <1>6 DEF RollInv

\* One exit is written; its lot stays, and its fill when it had one.
LEMMA OneExitKeeps ==
  ASSUME RollInv, UNCHANGED <<row, pass, far>>,
         near' \in [Lot -> [open : Nat, carried : Int]],
         asked' \in [Roll -> [pc : {"idle", "exiting", "exited", "raised", "noted"}, exit : Nat]],
         NEW e \in 1..Len(nearExits), NEW x \in ExitSet, nearExits' = [nearExits EXCEPT ![e] = x],
         x.lot = nearExits[e].lot, x.filled >= nearExits[e].filled,
         \A i \in Roll : /\ asked'[i].pc # "noted" => asked[i].pc # "noted"
                         /\ asked'[i].pc \in {"exiting", "exited"} =>
                              asked[i].pc \in {"exiting", "exited"} /\ asked'[i].exit = asked[i].exit
  PROVE  RollInv'
<1>1. RollFacts
  BY RollTyped DEF RollInv
<1>2. /\ nearExits' \in Seq(ExitSet) /\ Len(nearExits') = Len(nearExits)
      /\ nearExits'[e] = x /\ \A d \in 1..Len(nearExits) : d # e => nearExits'[d] = nearExits[d]
  BY DEF RollInv, RollTypes
<1>3. \A d \in 1..Len(nearExits) : /\ nearExits'[d].lot = nearExits[d].lot
                                   /\ nearExits'[d].filled >= nearExits[d].filled
  BY <1>1, <1>2 DEF RollFacts
<1>4. \A i \in Roll : asked[i].pc \in {"exiting", "exited"} => asked[i].exit \in 1..Len(nearExits)
  BY DEF RollInv, Named
<1> QED BY <1>1, <1>2, <1>3, <1>4, ExitsKeep DEF RollFacts

\* A new exit.
LEMMA NewExitKeeps ==
  ASSUME RollInv, UNCHANGED <<near, row, pass, far>>, NEW l \in Lot, NEW q \in Nat, NewExit(l, q),
         asked' = asked \/ \E i \in Roll : asked[i].pc = "idle" /\
            asked' = [asked EXCEPT ![i] = [pc |-> "exiting", exit |-> Len(nearExits) + 1]]
  PROVE  RollInv'
<1>1. RollFacts
  BY RollTyped DEF RollInv
<1> DEFINE x == [lot |-> l, qty |-> q, st |-> "PENDING", filled |-> 0,
                 known |-> FALSE, order |-> "sent", done |-> 0, cancel |-> "no"]
<1>2. x \in ExitSet /\ nearExits' = Append(nearExits, x)
  BY DEF NewExit, ExitSet, NearExitSet
<1> HIDE DEF x
<1>3. /\ nearExits' \in Seq(ExitSet) /\ Len(nearExits') = Len(nearExits) + 1
      /\ \A e \in 1..Len(nearExits) : nearExits'[e] = nearExits[e]
  BY <1>2, AppendProperties DEF RollInv, RollTypes
<1>4. \A i \in Roll : asked[i].pc \in {"exiting", "exited"} => asked[i].exit \in 1..Len(nearExits)
  BY DEF RollInv, Named
<1>5. /\ asked' \in [Roll -> [pc : {"idle", "exiting", "exited", "raised", "noted"}, exit : Nat]]
      /\ \A i \in Roll : /\ asked'[i].pc # "noted" => asked[i].pc # "noted"
                         /\ asked'[i].pc \in {"exiting", "exited"} => asked'[i].exit \in 1..Len(nearExits')
  <2>1. Len(nearExits) + 1 \in Nat /\ Len(nearExits) \in Nat
    BY <1>1 DEF RollFacts
  <2>2. CASE asked' = asked
    <3>1. \A i \in Roll : asked[i].pc \in {"exiting", "exited"} => asked[i].exit \in 1..Len(nearExits')
      BY <1>3, <1>4, <2>1
    <3>2. asked' \in [Roll -> [pc : {"idle", "exiting", "exited", "raised", "noted"}, exit : Nat]]
      BY <2>2 DEF RollInv, RollTypes
    <3> QED BY <2>2, <3>1, <3>2
  <2>3. ASSUME NEW i \in Roll, asked[i].pc = "idle",
               asked' = [asked EXCEPT ![i] = [pc |-> "exiting", exit |-> Len(nearExits) + 1]]
        PROVE  /\ asked' \in [Roll -> [pc : {"idle", "exiting", "exited", "raised", "noted"}, exit : Nat]]
               /\ \A j \in Roll : /\ asked'[j].pc # "noted" => asked[j].pc # "noted"
                                  /\ asked'[j].pc \in {"exiting", "exited"} => asked'[j].exit \in 1..Len(nearExits')
    <3>1. asked'[i] = [pc |-> "exiting", exit |-> Len(nearExits) + 1] /\ \A j \in Roll \ {i} : asked'[j] = asked[j]
      BY <2>3 DEF RollInv, RollTypes
    <3>2. asked' \in [Roll -> [pc : {"idle", "exiting", "exited", "raised", "noted"}, exit : Nat]]
      BY <2>1, <2>3 DEF RollInv, RollTypes
    <3>3. Len(nearExits) + 1 \in 1..Len(nearExits')
      BY <1>3, <2>1
    <3> QED BY <1>3, <1>4, <2>1, <2>3, <3>1, <3>2, <3>3
  <2> QED BY <2>2, <2>3
<1>6. \A e \in 1..Len(nearExits) : /\ nearExits'[e].lot = nearExits[e].lot
                                   /\ nearExits'[e].filled >= nearExits[e].filled
  BY <1>1, <1>3 DEF RollFacts
<1>7. Len(nearExits') >= Len(nearExits) /\ near' \in [Lot -> [open : Nat, carried : Int]]
  BY <1>1, <1>3 DEF RollFacts, RollInv, RollTypes
<1> QED BY <1>3, <1>5, <1>6, <1>7, ExitsKeep

\* The steps about the near exits.
LEMMA ExitSteps ==
  ASSUME RollInv,
         \/ \E i \in Roll, q \in 1..2 : RollAsk(i, q)
         \/ \E l \in Lot, q \in 1..2 : ManualExit(l, q)
         \/ \E e \in 1..Len(nearExits) :
              \/ \E how \in {"ok", "refused", "lost"} : ExitAnswer(e, how)
              \/ \E f \in 0..nearExits[e].qty : ExitTrades(e, f) \/ ReconcileExit(e, f)
              \/ \E by \in {"user", "sibling"} : CancelAsk(e, by)
              \/ CancelMark(e) \/ CancelUnsent(e)
         \/ Clock
  PROVE  RollInv'
<1>0. RollFacts /\ RollTypes
  BY RollTyped DEF RollInv
<1> USE DEF ExitSet, NearExitSet
<1>1. ASSUME NEW i \in Roll, NEW q \in 1..2, RollAsk(i, q) PROVE RollInv'
  <2>1. PICK l \in Lot : NewExit(l, q) /\ asked' = [asked EXCEPT ![i] = [pc |-> "exiting", exit |-> Len(nearExits) + 1]]
                        /\ asked[i].pc = "idle" /\ UNCHANGED <<near, row, pass, far>>
    BY <1>1 DEF RollAsk
  <2>2. q \in Nat
    OBVIOUS
  <2> QED BY <2>1, <2>2, NewExitKeeps
<1>2. ASSUME NEW l \in Lot, NEW q \in 1..2, ManualExit(l, q) PROVE RollInv'
  BY <1>2, NewExitKeeps DEF ManualExit
<1>3. ASSUME NEW e \in 1..Len(nearExits), NEW how \in {"ok", "refused", "lost"}, ExitAnswer(e, how) PROVE RollInv'
  <2> DEFINE live == how \in {"ok", "lost"}
  <2> DEFINE x == [nearExits[e] EXCEPT !.order = IF live THEN "working" ELSE "gone",
                            !.known = (how = "ok"), !.st = IF how = "ok" THEN @ ELSE "REJECTED"]
  <2>1. nearExits[e] \in ExitSet
    BY <1>0 DEF RollFacts
  <2>2. x \in ExitSet /\ x.lot = nearExits[e].lot /\ x.filled = nearExits[e].filled
    BY <2>1
  <2>3. nearExits' = [nearExits EXCEPT ![e] = x] /\ UNCHANGED <<near, row, pass, far>>
    BY <1>3 DEF ExitAnswer
  <2>4. /\ asked' \in [Roll -> [pc : {"idle", "exiting", "exited", "raised", "noted"}, exit : Nat]]
        /\ \A i \in Roll : /\ asked'[i].pc # "noted" => asked[i].pc # "noted"
                           /\ asked'[i].pc \in {"exiting", "exited"} =>
                                asked[i].pc \in {"exiting", "exited"} /\ asked'[i].exit = asked[i].exit
    <3>1. \A i \in Roll : asked[i] \in [pc : {"idle", "exiting", "exited", "raised", "noted"}, exit : Nat]
      BY <1>0 DEF RollTypes
    <3>2. asked' = [i \in Roll |-> IF i \in {j \in Roll : asked[j].pc = "exiting" /\ asked[j].exit = e}
                     THEN [asked[i] EXCEPT !.pc = IF how = "ok" THEN "exited" ELSE "raised"] ELSE asked[i]]
      BY <1>3 DEF ExitAnswer
    <3> QED BY <3>1, <3>2
  <2> HIDE DEF x
  <2>5. near' \in [Lot -> [open : Nat, carried : Int]]
    BY <1>0, <2>3 DEF RollTypes
  <2>6. x.filled >= nearExits[e].filled
    BY <1>0, <2>2 DEF RollFacts
  <2> QED BY <2>2, <2>3, <2>4, <2>5, <2>6, OneExitKeeps
<1>4. ASSUME NEW e \in 1..Len(nearExits), NEW x \in ExitSet, nearExits' = [nearExits EXCEPT ![e] = x],
             x.lot = nearExits[e].lot, x.filled >= nearExits[e].filled, UNCHANGED <<asked, row, pass, far>>,
             near' \in [Lot -> [open : Nat, carried : Int]]
      PROVE  RollInv'
  BY <1>0, <1>4, OneExitKeeps DEF RollTypes
<1>5. ASSUME NEW e \in 1..Len(nearExits),
             \/ \E f \in 0..nearExits[e].qty : ExitTrades(e, f) \/ ReconcileExit(e, f)
             \/ \E by \in {"user", "sibling"} : CancelAsk(e, by)
             \/ CancelMark(e) \/ CancelUnsent(e)
      PROVE  RollInv'
  <2>0. /\ nearExits[e] \in ExitSet /\ nearExits[e].filled \in Nat /\ nearExits[e].qty \in Nat
        /\ nearExits[e].done \in Nat /\ nearExits[e].lot \in Lot
    BY <1>0 DEF RollFacts
  <2>1. UNCHANGED <<asked, row, pass, far>>
    BY <1>5 DEF ExitTrades, ReconcileExit, CancelAsk, CancelMark, CancelUnsent
  <2>2. \E x \in ExitSet : /\ nearExits' = [nearExits EXCEPT ![e] = x]
                               /\ x.lot = nearExits[e].lot /\ x.filled >= nearExits[e].filled
    <3> USE <2>0
    <3>1. ASSUME NEW f \in 0..nearExits[e].qty, ExitTrades(e, f)
          PROVE  \E x \in ExitSet : /\ nearExits' = [nearExits EXCEPT ![e] = x]
                               /\ x.lot = nearExits[e].lot /\ x.filled >= nearExits[e].filled
      <4>1. f \in Nat
        OBVIOUS
      <4> USE <4>1
      <4> DEFINE x == [nearExits[e] EXCEPT !.order = "gone", !.done = f]
      <4>2. x \in ExitSet /\ x.lot = nearExits[e].lot /\ x.filled = nearExits[e].filled
        BY <4>1
      <4>3. nearExits' = [nearExits EXCEPT ![e] = x]
        BY <3>1 DEF ExitTrades
      <4> HIDE DEF x, ExitSet, NearExitSet
      <4> USE <4>2
      <4> WITNESS x \in ExitSet
      <4> QED BY <2>0, <4>2, <4>3
    <3>2. ASSUME NEW f \in 0..nearExits[e].qty, ReconcileExit(e, f)
          PROVE  \E x \in ExitSet : /\ nearExits' = [nearExits EXCEPT ![e] = x]
                               /\ x.lot = nearExits[e].lot /\ x.filled >= nearExits[e].filled
      <4>1. f \in Nat
        OBVIOUS
      <4> USE <4>1
      <4>2. CASE f > 0 /\ nearExits[e].filled = 0 /\ nearExits' = [nearExits EXCEPT ![e] = Booked(nearExits[e], f)]
        <5>1. f # 0
          BY <4>2
        <5> USE <5>1
        <5> WITNESS [nearExits[e] EXCEPT !.st = "FILLED", !.filled = f] \in ExitSet
        <5> QED BY <4>2 DEF Booked
      <4>3. ASSUME NEW st \in {"CANCELLED", "REJECTED"}, nearExits' = [nearExits EXCEPT ![e].st = st]
            PROVE  \E x \in ExitSet : /\ nearExits' = [nearExits EXCEPT ![e] = x]
                               /\ x.lot = nearExits[e].lot /\ x.filled >= nearExits[e].filled
        <5> WITNESS [nearExits[e] EXCEPT !.st = st] \in ExitSet
        <5> QED BY <4>3
      <4> QED BY <3>2, <4>2, <4>3 DEF ReconcileExit
    <3>3. ASSUME NEW by \in {"user", "sibling"}, CancelAsk(e, by)
          PROVE  \E x \in ExitSet : /\ nearExits' = [nearExits EXCEPT ![e] = x]
                               /\ x.lot = nearExits[e].lot /\ x.filled >= nearExits[e].filled
      <4>1. PICK f \in 0..(nearExits[e].qty - 1) :
              nearExits' = [nearExits EXCEPT ![e].order = "gone", ![e].done = f, ![e].cancel = by]
        BY <3>3 DEF CancelAsk
      <4>2. f \in Nat
        OBVIOUS
      <4> DEFINE x == [nearExits[e] EXCEPT !.order = "gone", !.done = f, !.cancel = by]
      <4>3. x \in ExitSet /\ x.lot = nearExits[e].lot /\ x.filled = nearExits[e].filled
        BY <4>2
      <4>4. nearExits' = [nearExits EXCEPT ![e] = x]
        BY <4>1
      <4> HIDE DEF x, ExitSet, NearExitSet
      <4> USE <4>3
      <4> WITNESS x \in ExitSet
      <4> QED BY <2>0, <4>3, <4>4
    <3>4. CASE CancelMark(e)
      <4>1. PICK st \in {nearExits[e].st, "CANCELLED"} :
              nearExits' = [nearExits EXCEPT ![e].cancel = "no", ![e].st = st]
        BY <3>4 DEF CancelMark
      <4> DEFINE x == [nearExits[e] EXCEPT !.cancel = "no", !.st = st]
      <4>2. x \in ExitSet /\ x.lot = nearExits[e].lot /\ x.filled = nearExits[e].filled
        OBVIOUS
      <4>3. nearExits' = [nearExits EXCEPT ![e] = x]
        BY <4>1
      <4> HIDE DEF x, ExitSet, NearExitSet
      <4> USE <4>2
      <4> WITNESS x \in ExitSet
      <4> QED BY <2>0, <4>2, <4>3
    <3>5. CASE CancelUnsent(e)
      <4> WITNESS [nearExits[e] EXCEPT !.st = "CANCELLED"] \in ExitSet
      <4> QED BY <3>5 DEF CancelUnsent
    <3> QED BY <1>5, <3>1, <3>2, <3>3, <3>4, <3>5
  <2>3. near' \in [Lot -> [open : Nat, carried : Int]]
    <3>1. CASE near' = near
      BY <1>0, <3>1 DEF RollTypes
    <3>2. CASE near' # near
      <4> DEFINE l == nearExits[e].lot
      <4>1. PICK f \in 0..nearExits[e].qty : near' = [near EXCEPT ![l].open = @ - Closable(nearExits[e], f)]
        BY <1>5, <3>2 DEF ExitTrades, ReconcileExit, CancelAsk, CancelMark, CancelUnsent
      <4>2. near[l].open \in Nat /\ l \in Lot /\ near[l].carried \in Int
        BY <1>0, <2>0 DEF RollTypes
      <4> DEFINE n == near[l].open - Closable(nearExits[e], f)
      <4>3. n \in Nat
        BY <2>0, <4>2 DEF Closable
      <4> HIDE DEF n
      <4>4. near' = [near EXCEPT ![l].open = n]
        BY <4>1 DEF n
      <4>5. near \in [Lot -> [open : Nat, carried : Int]]
        BY <1>0 DEF RollTypes
      <4> HIDE DEF l
      <4>6. \A m \in Lot : near'[m] \in [open : Nat, carried : Int]
        BY <4>2, <4>3, <4>4, <4>5
      <4> QED BY <4>4, <4>5, <4>6
    <3> QED BY <3>1, <3>2
  <2> QED BY <1>4, <2>1, <2>2, <2>3
<1>6. CASE Clock
  <2>1. UNCHANGED <<near, nearExits, asked, row, pass, far>>
    BY <1>6 DEF Clock, rollVars
  <2>2. \A i \in Roll : asked[i].pc \in {"exiting", "exited"} => asked[i].exit \in 1..Len(nearExits)
    BY DEF RollInv, Named
  <2>3. /\ near' \in [Lot -> [open : Nat, carried : Int]] /\ nearExits' \in Seq(ExitSet)
        /\ asked' \in [Roll -> [pc : {"idle", "exiting", "exited", "raised", "noted"}, exit : Nat]]
    BY <1>0, <2>1 DEF RollTypes
  <2>4. \A e \in 1..Len(nearExits) : nearExits'[e].filled >= nearExits[e].filled
    BY <1>0, <2>1 DEF RollFacts
  <2>5. Len(nearExits') >= Len(nearExits)
    BY <1>0, <2>1 DEF RollFacts
  <2> QED BY <2>1, <2>2, <2>3, <2>4, <2>5, ExitsKeep
<1> QED BY <1>1, <1>2, <1>3, <1>5, <1>6

\* A step of pass k that writes what it has in hand, intents nobody else has in
\* hand, and their far orders.
LEMMA PassStep ==
  ASSUME RollInv, NEW k \in Reconcilers, NEW c \in PassSet, pass' = [pass EXCEPT ![k] = c],
         UNCHANGED <<nearExits, asked>>,
         near' \in [Lot -> [open : Nat, carried : Int]],
         row' \in [Roll -> [st : Statuses, lot : Lot, exit : Nat, qty : Nat]],
         far' \in [Roll -> [sent : Nat, live : BOOLEAN, qty : Nat, carried : Int]],
         \A i \in Roll : Named(i)' /\ SentOnce(row'[i], far'[i]),
         \A j \in Reconcilers \ {k} : \A n \in Places(j) :
           row'[RollAt(j, n)] = row[RollAt(j, n)] /\ far'[RollAt(j, n)] = far[RollAt(j, n)],
         \A j \in Reconcilers \ {k} : pass[j].pc = "claiming" => row' = row,
         PassSound(k)',
         \A m, n \in 1..Len(c.claims) : c.claims[m].roll = c.claims[n].roll => m = n,
         \A j \in Reconcilers \ {k} : \A m \in Places(j), n \in 1..Len(c.claims) :
           RollAt(j, m) # c.claims[n].roll,
         c.pc = "claiming" => \A j \in Reconcilers \ {k} : pass[j].pc # "claiming"
  PROVE  RollInv'
<1>1. pass'[k] = c /\ \A j \in Reconcilers \ {k} : pass'[j] = pass[j]
  BY DEF RollInv, RollTypes
<1>2. RollTypes'
  BY DEF RollInv, RollTypes
<1>3. ASSUME NEW j \in Reconcilers PROVE PassSound(j)'
  <2>1. CASE j = k
    BY <2>1
  <2>2. CASE j # k
    <3>1. PassSound(j) /\ pass'[j] = pass[j]
      BY <1>1, <2>2 DEF RollInv
    <3>2. \A n \in Places(j)' : /\ RollAt(j, n)' = RollAt(j, n) /\ n \in Places(j)
                              /\ row'[RollAt(j, n)] = row[RollAt(j, n)] /\ far'[RollAt(j, n)] = far[RollAt(j, n)]
      BY <2>2, <3>1 DEF Places, RollAt
    <3>3. pass[j].pc = "claiming" => row' = row
      BY <2>2
    <3>4. \A n \in Places(j)' : ClaimSound(OpenAt(pass[j], n), row[RollAt(j, n)], far[RollAt(j, n)])'
      BY <3>1, <3>2 DEF PassSound, OpenAt
    <3> QED BY <3>1, <3>3, <3>4 DEF PassSound
  <2> QED BY <2>1, <2>2
<1>4. Apart'
  <2> SUFFICES ASSUME NEW i \in Reconcilers, NEW j \in Reconcilers, NEW m \in Places(i)', NEW n \in Places(j)',
                      RollAt(i, m)' = RollAt(j, n)'
               PROVE  i = j /\ m = n
    BY DEF Apart
  <2>0. /\ m \in 1..Len(pass'[i].claims) /\ n \in 1..Len(pass'[j].claims)
        /\ pass'[i].claims[m].roll = pass'[j].claims[n].roll
    BY DEF Places, RollAt
  <2>1. CASE i = k /\ j = k
    <3>1. m \in 1..Len(c.claims) /\ n \in 1..Len(c.claims) /\ c.claims[m].roll = c.claims[n].roll
      BY <1>1, <2>0, <2>1
    <3> QED BY <2>1, <3>1
  <2>a. ASSUME NEW p \in Reconcilers \ {k}, NEW q \in 1..Len(pass'[p].claims),
               NEW r \in 1..Len(pass'[k].claims)
        PROVE  pass'[p].claims[q].roll # pass'[k].claims[r].roll
    <3>1. pass'[p] = pass[p] /\ pass'[k] = c
      BY <1>1
    <3>2. q \in Places(p) /\ RollAt(p, q) = pass'[p].claims[q].roll /\ r \in 1..Len(c.claims)
      BY <3>1 DEF Places, RollAt
    <3> QED BY <3>1, <3>2
  <2>2. CASE i = k /\ j # k
    BY <2>0, <2>2, <2>a
  <2>3. CASE i # k /\ j = k
    BY <2>0, <2>3, <2>a
  <2>4. CASE i # k /\ j # k
    <3>1. pass'[i] = pass[i] /\ pass'[j] = pass[j]
      BY <1>1, <2>4
    <3>2. m \in Places(i) /\ n \in Places(j) /\ RollAt(i, m) = RollAt(j, n)
      BY <2>0, <3>1 DEF Places, RollAt
    <3>3. Apart
      BY DEF RollInv
    <3> QED BY <3>2, <3>3 DEF Apart
  <2> QED BY <2>1, <2>2, <2>3, <2>4
<1>5. OneClaims'
  BY <1>1 DEF RollInv, OneClaims
<1> QED BY <1>2, <1>3, <1>4, <1>5 DEF RollInv

\* An intent somebody has in hand is neither unasked nor waiting.
LEMMA InHandIsClaimed ==
  ASSUME RollInv, NEW k \in Reconcilers, NEW n \in Places(k)
  PROVE  /\ row[RollAt(k, n)].st \notin {"none", "PENDING"}
         /\ RollAt(k, n) \in Roll
BY RollTyped DEF RollInv, PassSound, ClaimSound, RollFacts

\* The intent that is noted names an exit of its lot.
LEMMA NoteKeeps ==
  ASSUME RollInv, NEW i \in Roll, RollNote(i)
  PROVE  RollInv'
<1>0. RollFacts /\ RollTypes
  BY RollTyped DEF RollInv
<1> DEFINE e == asked[i].exit
<1> DEFINE l == nearExits[e].lot
<1> DEFINE S == {x \in NearExitOf(l) : x >= e}
<1>1. /\ e \in 1..Len(nearExits) /\ row[i].st = "none" /\ asked[i].pc = "exited"
      /\ Untouched(far[i]) /\ far[i].sent = 0
  BY DEF RollNote, RollInv, Named, SentOnce, Untouched
<1>2. l \in Lot /\ Len(nearExits) \in Nat
  BY <1>0, <1>1 DEF RollFacts
<1>3. Max(S) \in S
  <2>1. S \subseteq 1..Len(nearExits) /\ e \in S
    BY <1>1 DEF NearExitOf
  <2>2. IsFiniteSet(S) /\ \A x \in S : x \in Int
    <3>1. IsFiniteSet(1..Len(nearExits))
      BY <1>2, FS_Interval
    <3> QED BY <2>1, <3>1, FS_Subset
  <2> HIDE DEF S
  <2>3. \E x \in S : \A y \in S : x >= y
    BY <2>1, <2>2, MaxIsThere
  <2> QED BY <2>3 DEF Max
<1> DEFINE r == [st |-> "PENDING", lot |-> l, exit |-> Max(S), qty |-> 0]
<1>4. /\ row' = [row EXCEPT ![i] = r] /\ asked' = [asked EXCEPT ![i].pc = "noted"]
      /\ UNCHANGED <<near, nearExits, pass, far>>
  BY DEF RollNote
<1>5. /\ Max(S) \in 1..Len(nearExits) /\ nearExits[Max(S)].lot = l /\ Max(S) \in Nat
  <2>1. S \subseteq 1..Len(nearExits) /\ \A n \in S : nearExits[n].lot = l
    BY DEF NearExitOf
  <2>2. Max(S) \in S /\ 1..Len(nearExits) \subseteq Nat
    BY <1>2, <1>3
  <2> QED BY <2>1, <2>2
<1> HIDE DEF S, l, e
<1>6. r \in [st : Statuses, lot : Lot, exit : Nat, qty : Nat]
  BY <1>2, <1>5 DEF Statuses
<1>7. r.st = "PENDING" /\ r.lot = l /\ r.exit = Max(S) /\ r.qty = 0
  OBVIOUS
<1> HIDE DEF r
<1>8. /\ row'[i] = r /\ asked'[i].pc = "noted" /\ \A j \in Roll \ {i} : row'[j] = row[j] /\ asked'[j] = asked[j]
      /\ row' \in [Roll -> [st : Statuses, lot : Lot, exit : Nat, qty : Nat]]
      /\ asked' \in [Roll -> [pc : {"idle", "exiting", "exited", "raised", "noted"}, exit : Nat]]
  BY <1>0, <1>4, <1>6, ZenonT(40) DEF RollTypes
<1>9. RollTypes'
  BY <1>0, <1>4, <1>8 DEF RollTypes
<1>10. ASSUME NEW j \in Roll PROVE Named(j)' /\ SentOnce(row[j], far[j])'
  <2>1. CASE j = i
    <3>1. nearExits[Max(S)].filled \in Nat
      BY <1>0, <1>5 DEF RollFacts
    <3>2. Named(j)'
      BY <1>4, <1>5, <1>7, <1>8, <2>1, <3>1 DEF Named
    <3>3. SentOnce(row[j], far[j])'
      BY <1>1, <1>4, <1>7, <1>8, <2>1 DEF SentOnce, Untouched
    <3> QED BY <3>2, <3>3
  <2>2. CASE j # i
    BY <1>4, <1>8, <2>2 DEF RollInv, Named, SentOnce, Untouched
  <2> QED BY <2>1, <2>2
<1>11. \A k \in Reconcilers : pass[k].pc # "claiming"
  BY DEF RollNote, NotClaiming
<1>12. ASSUME NEW k \in Reconcilers PROVE PassSound(k)'
  <2>1. \A n \in Places(k) : RollAt(k, n) # i /\ RollAt(k, n) \in Roll
    BY <1>1, InHandIsClaimed
  <2>2. \A n \in Places(k) : row'[RollAt(k, n)] = row[RollAt(k, n)] /\ far'[RollAt(k, n)] = far[RollAt(k, n)]
    BY <1>4, <1>8, <2>1
  <2>3. Places(k)' = Places(k) /\ pass' = pass /\ \A n \in Places(k) : RollAt(k, n)' = RollAt(k, n)
    BY <1>4 DEF Places, RollAt
  <2>4. PassSound(k)
    BY DEF RollInv
  <2> QED BY <1>11, <2>2, <2>3, <2>4 DEF PassSound, OpenAt
<1>13. Apart' /\ OneClaims'
  BY <1>4 DEF RollInv, Apart, OneClaims, Places, RollAt
<1> QED BY <1>9, <1>10, <1>12, <1>13 DEF RollInv

\* An intent that was noted and its far order are written.
LEMMA RowWritten ==
  ASSUME RollInv, NEW i \in Roll, row[i].st # "none", UNCHANGED <<nearExits, asked>>,
         NEW r \in [st : Statuses, lot : Lot, exit : Nat, qty : Nat],
         NEW f \in [sent : Nat, live : BOOLEAN, qty : Nat, carried : Int],
         row' = [row EXCEPT ![i] = r], far' = [far EXCEPT ![i] = f],
         r.st # "none", r.lot = row[i].lot, r.exit = row[i].exit,
         r.qty \in {row[i].qty, nearExits[row[i].exit].filled}, SentOnce(r, f)
  PROVE  /\ row' \in [Roll -> [st : Statuses, lot : Lot, exit : Nat, qty : Nat]]
         /\ far' \in [Roll -> [sent : Nat, live : BOOLEAN, qty : Nat, carried : Int]]
         /\ \A j \in Roll : Named(j)' /\ SentOnce(row'[j], far'[j])
         /\ row'[i] = r /\ far'[i] = f
         /\ \A j \in Roll \ {i} : row'[j] = row[j] /\ far'[j] = far[j]
<1>0. RollFacts /\ RollTypes
  BY RollTyped DEF RollInv
<1>1. /\ row' \in [Roll -> [st : Statuses, lot : Lot, exit : Nat, qty : Nat]]
      /\ far' \in [Roll -> [sent : Nat, live : BOOLEAN, qty : Nat, carried : Int]]
      /\ row'[i] = r /\ far'[i] = f
      /\ \A j \in Roll \ {i} : row'[j] = row[j] /\ far'[j] = far[j]
  BY <1>0 DEF RollTypes
<1>2. ASSUME NEW j \in Roll PROVE Named(j)' /\ SentOnce(row'[j], far'[j])
  <2>1. Named(j) /\ SentOnce(row[j], far[j])
    BY DEF RollInv
  <2>2. CASE j # i
    BY <1>1, <2>1, <2>2 DEF Named
  <2>3. CASE j = i
    <3>1. /\ row[i].exit \in 1..Len(nearExits) /\ row[i].qty <= nearExits[row[i].exit].filled
          /\ nearExits[row[i].exit].lot = row[i].lot
      BY <2>1, <2>3 DEF Named
    <3>2. nearExits[row[i].exit].filled \in Nat
      BY <1>0, <3>1 DEF RollFacts
    <3>3. r.qty <= nearExits[row[i].exit].filled
      BY <3>1, <3>2
    <3> QED BY <1>1, <2>1, <2>3, <3>1, <3>3 DEF Named
  <2> QED BY <2>2, <2>3
<1> QED BY <1>1, <1>2

\* A pass begins with the intents that wait.
LEMMA BeginKeeps ==
  ASSUME RollInv, NEW k \in Reconcilers, FireBegin(k)
  PROVE  RollInv'
<1> DEFINE c == [pc |-> "claiming", rows |-> Waiting, claims |-> <<>>]
<1>1. /\ c \in PassSet /\ c.pc = "claiming" /\ Len(c.claims) = 0 /\ c.rows = Waiting
      /\ pass' = [pass EXCEPT ![k] = c] /\ UNCHANGED <<near, nearExits, asked, row, far>>
  <2>1. <<>> \in Seq(ClaimSet) /\ Len(<<>>) = 0
    OBVIOUS
  <2> QED BY <2>1 DEF FireBegin, PassSet, Waiting
<1> HIDE DEF c
<1>2. /\ near' \in [Lot -> [open : Nat, carried : Int]]
      /\ row' \in [Roll -> [st : Statuses, lot : Lot, exit : Nat, qty : Nat]]
      /\ far' \in [Roll -> [sent : Nat, live : BOOLEAN, qty : Nat, carried : Int]]
  BY <1>1 DEF RollInv, RollTypes
<1>3. \A i \in Roll : Named(i)' /\ SentOnce(row'[i], far'[i])
  BY <1>1 DEF RollInv, Named
<1>4. \A j \in Reconcilers : pass[j].pc # "claiming"
  BY DEF FireBegin, LoopFree, NotClaiming
<1>5. pass'[k] = c
  BY <1>1 DEF RollInv, RollTypes
<1>6. PassSound(k)'
  <2>1. pass'[k].pc = "claiming" /\ pass'[k].rows = Waiting /\ Places(k)' = {} /\ Len(pass'[k].claims) = 0
    BY <1>1, <1>5 DEF Places
  <2>2. \A i \in Waiting : row'[i].st = "PENDING"
    BY <1>1 DEF Waiting
  <2> HIDE DEF Waiting
  <2> QED BY <2>1, <2>2 DEF PassSound
<1>7. 1..Len(c.claims) = {} /\ c \in PassSet /\ pass' = [pass EXCEPT ![k] = c]
  BY <1>1
<1>8. /\ \A m, n \in 1..Len(c.claims) : c.claims[m].roll = c.claims[n].roll => m = n
      /\ \A j \in Reconcilers \ {k} : \A m \in Places(j), n \in 1..Len(c.claims) :
           RollAt(j, m) # c.claims[n].roll
  BY <1>7
<1>9. UNCHANGED <<nearExits, asked, row, far>>
  BY <1>1
<1>10. \A j \in Reconcilers \ {k} : \A n \in Places(j) :
         row'[RollAt(j, n)] = row[RollAt(j, n)] /\ far'[RollAt(j, n)] = far[RollAt(j, n)]
  BY <1>9
<1> QED BY <1>2, <1>3, <1>4, <1>6, <1>7, <1>8, <1>9, <1>10, PassStep

\* The row pass k comes to, and its exit.
NextRow(k) == Min(pass[k].rows)
ExitOf(i) == nearExits[row[i].exit]
\* The row is still PENDING and its exit is one of the lot, so the share is a number.
LEMMA NextRowIs ==
  ASSUME RollInv, NEW k \in Reconcilers, FireClaim(k), NEW i, i = NextRow(k)
  PROVE  /\ i \in pass[k].rows /\ i \in Roll
         /\ pass[k].pc = "claiming" /\ row[i].st = "PENDING" /\ Untouched(far[i])
         /\ row[i].exit \in 1..Len(nearExits) /\ ExitOf(i).filled \in Nat /\ row[i].lot \in Lot
         /\ ExitOf(i).st = "FILLED" => ExitOf(i).filled # 0 /\ Share(row[i].lot, ExitOf(i).filled) \in Int
<1>0. RollFacts /\ RollTypes
  BY RollTyped DEF RollInv
<1>1. i \in pass[k].rows /\ i \in Roll
  <2>1. pass[k].rows \subseteq Roll /\ pass[k].rows # {}
    BY <1>0 DEF RollFacts, FireClaim
  <2>2. IsFiniteSet(pass[k].rows) /\ \A x \in pass[k].rows : x \in Int
    <3>1. IsFiniteSet(Roll) /\ \A x \in Roll : x \in Int
      BY FS_Interval, RolloverAssumption DEF Roll
    <3> QED BY <2>1, <3>1, FS_Subset
  <2>3. \E x \in pass[k].rows : \A y \in pass[k].rows : x <= y
    BY <2>1, <2>2, MinIsThere
  <2> QED BY <2>1, <2>3 DEF Min, NextRow
<1> DEFINE x == ExitOf(i)
<1> DEFINE l == row[i].lot
<1>2. pass[k].pc = "claiming" /\ row[i].st = "PENDING" /\ Untouched(far[i])
  <2>1. pass[k].pc = "claiming" /\ PassSound(k) /\ SentOnce(row[i], far[i])
    BY <1>1 DEF FireClaim, RollInv
  <2>2. row[i].st = "PENDING"
    BY <1>1, <2>1 DEF PassSound
  <2> QED BY <2>1, <2>2 DEF SentOnce
<1>3. /\ row[i].exit \in 1..Len(nearExits) /\ x.filled \in Nat /\ l \in Lot /\ (x.st = "FILLED" => x.filled # 0)
  <2>1. row[i].exit \in 1..Len(nearExits)
    BY <1>1, <1>2 DEF RollInv, Named
  <2>2. x \in ExitSet
    BY <1>0, <2>1 DEF RollFacts, ExitOf
  <2> QED BY <1>0, <1>1, <2>1, <2>2 DEF RollFacts, ExitSet, NearExitSet, ExitOf
<1>4. ASSUME x.st = "FILLED" PROVE Share(l, x.filled) \in Int
  <2>1. near[l].carried \in Int /\ near[l].open \in Nat
    BY <1>0, <1>3 DEF RollTypes
  <2> DEFINE p == near[l].carried * x.filled
  <2> DEFINE q == near[l].open + x.filled
  <2>2. p \in Int /\ q \in Nat \ {0}
    <3>1. x.filled \in Nat /\ x.filled # 0
      BY <1>3, <1>4
    <3> HIDE DEF x, l
    <3> QED BY <2>1, <3>1
  <2>3. p \div q \in Int
    <3> HIDE DEF p, q
    <3> QED BY <2>2
  <2> QED BY <2>3 DEF Share
<1> QED BY <1>1, <1>2, <1>3, <1>4

\* Pass k claims one of its rows, or drops it.
LEMMA ClaimKeeps ==
  ASSUME RollInv, NEW k \in Reconcilers, FireClaim(k)
  PROVE  RollInv'
<1>0. RollFacts /\ RollTypes
  BY RollTyped DEF RollInv
<1> DEFINE i == Min(pass[k].rows)
<1> DEFINE x == nearExits[row[i].exit]
<1> DEFINE l == row[i].lot
<1> DEFINE s == Share(l, x.filled)
<1>1. i \in pass[k].rows /\ i \in Roll
  BY NextRowIs DEF NextRow
<1>2. pass[k].pc = "claiming" /\ row[i].st = "PENDING" /\ Untouched(far[i])
  BY NextRowIs DEF NextRow
<1>3. /\ row[i].exit \in 1..Len(nearExits) /\ x.filled \in Nat /\ l \in Lot
      /\ (x.st = "FILLED" => x.filled # 0 /\ s \in Int)
  BY NextRowIs DEF NextRow, ExitOf
<1>4. \A j \in Reconcilers : j # k => pass[j].pc # "claiming"
  BY <1>2 DEF RollInv, OneClaims
<1>5. \A j \in Reconcilers : \A n \in Places(j) : RollAt(j, n) # i /\ RollAt(j, n) \in Roll
  BY <1>2, InHandIsClaimed
<1>6. UNCHANGED <<nearExits, asked, far>>
  BY DEF FireClaim
<1>7. pass[k] \in PassSet /\ pass[k].claims \in Seq(ClaimSet) /\ Len(pass[k].claims) \in Nat
  BY <1>0 DEF RollFacts
<1>8. \A n \in Places(k) : ClaimSound(TRUE, row[RollAt(k, n)], far[RollAt(k, n)])
  BY <1>2 DEF RollInv, PassSound, OpenAt
<1>9. \A j \in pass[k].rows : row[j].st = "PENDING" /\ j \in Roll
  BY <1>0, <1>2 DEF RollInv, PassSound, RollFacts
<1>10. row \in [Roll -> [st : Statuses, lot : Lot, exit : Nat, qty : Nat]]
       /\ row[i] \in [st : Statuses, lot : Lot, exit : Nat, qty : Nat]
       /\ far[i] \in [sent : Nat, live : BOOLEAN, qty : Nat, carried : Int]
       /\ far = [far EXCEPT ![i] = far[i]] /\ row = [row EXCEPT ![i] = row[i]]
       /\ near \in [Lot -> [open : Nat, carried : Int]]
  BY <1>0, <1>1 DEF RollTypes
<1>11. CASE /\ x.st = "FILLED" /\ row' = ClaimRow(i, x)
            /\ near' = [near EXCEPT ![l].carried = @ - s]
            /\ pass' = [pass EXCEPT ![k].rows = @ \ {i}, ![k].claims = Append(@,
                 [roll |-> i, share |-> s, prior |-> near[l].carried, reduced |-> s # 0])]
  <2> DEFINE a == [roll |-> i, share |-> s, prior |-> near[l].carried, reduced |-> s # 0]
  <2> DEFINE c == [pass[k] EXCEPT !.rows = @ \ {i}, !.claims = Append(@, a)]
  <2> DEFINE r == [row[i] EXCEPT !.st = "FIRING", !.qty = x.filled]
  <2>1. s \in Int /\ near[l].carried \in Int
    BY <1>3, <1>10, <1>11
  <2>2. a \in ClaimSet /\ a.roll = i
    BY <1>1, <2>1 DEF ClaimSet
  <2>3. r \in [st : Statuses, lot : Lot, exit : Nat, qty : Nat] /\ row' = [row EXCEPT ![i] = r]
        /\ r.st = "FIRING" /\ r.lot = l /\ r.exit = row[i].exit /\ r.qty = x.filled
    <3>1. row' = [row EXCEPT ![i].st = "FIRING", ![i].qty = x.filled]
      BY <1>11 DEF ClaimRow
    <3>2. x.filled \in Nat
      BY <1>3
    <3> HIDE DEF x, i
    <3> QED BY <1>1, <1>10, <3>1, <3>2 DEF Statuses
  <2>4. near' \in [Lot -> [open : Nat, carried : Int]]
    <3> DEFINE z == near[l].carried - s
    <3>1. near' = [near EXCEPT ![l].carried = z]
      <4>1. near' = [near EXCEPT ![l].carried = @ - s]
        BY <1>11
      <4> HIDE DEF s, l
      <4> QED BY <4>1
    <3>2. z \in Int
      <4> HIDE DEF s
      <4> QED BY <2>1
    <3> HIDE DEF z, l
    <3> QED BY <1>10, <3>1, <3>2
  <2> HIDE DEF a, s
  <2>5. /\ c \in PassSet /\ c.pc = "claiming" /\ c.rows = pass[k].rows \ {i}
        /\ c.claims = Append(pass[k].claims, a) /\ pass' = [pass EXCEPT ![k] = c]
    <3>1. Append(pass[k].claims, a) \in Seq(ClaimSet)
      BY <1>7, <2>2, AppendProperties
    <3> QED BY <1>0, <1>2, <1>7, <1>11, <3>1 DEF PassSet, RollTypes, a, s
  <2>6. /\ Len(c.claims) = Len(pass[k].claims) + 1 /\ c.claims[Len(pass[k].claims) + 1] = a
        /\ \A n \in Places(k) : c.claims[n] = pass[k].claims[n]
    BY <1>7, <2>2, <2>5, AppendProperties DEF Places
  <2>7. pass'[k] = c
    BY <1>0, <2>5 DEF RollTypes
  <2> HIDE DEF c, r
  <2>8. SentOnce(r, far[i]) /\ ClaimSound(TRUE, r, far[i])
    BY <1>2, <1>3, <2>3 DEF SentOnce, Untouched, ClaimSound
  <2>9. /\ row' \in [Roll -> [st : Statuses, lot : Lot, exit : Nat, qty : Nat]]
        /\ far' \in [Roll -> [sent : Nat, live : BOOLEAN, qty : Nat, carried : Int]]
        /\ \A j \in Roll : Named(j)' /\ SentOnce(row'[j], far'[j])
        /\ row'[i] = r /\ far'[i] = far[i]
        /\ \A j \in Roll \ {i} : row'[j] = row[j] /\ far'[j] = far[j]
    <3> HIDE DEF i
    <3>1. far' = [far EXCEPT ![i] = far[i]]
      BY <1>6, <1>10
    <3>2. row[i].st # "none" /\ r.st # "none"
      BY <1>2, <2>3
    <3>3. r.qty \in {row[i].qty, nearExits[row[i].exit].filled}
      BY <2>3
    <3> QED BY <1>1, <1>6, <1>10, <2>3, <2>8, <3>1, <3>2, <3>3, RowWritten
  <2>10. \A j \in Reconcilers : \A n \in Places(j) :
           row'[RollAt(j, n)] = row[RollAt(j, n)] /\ far'[RollAt(j, n)] = far[RollAt(j, n)]
    BY <1>5, <2>9
  <2> HIDE DEF x, l, i
  <2>11. \A n \in 1..Len(c.claims) : n \in Places(k) \/ n = Len(pass[k].claims) + 1
    BY <1>7, <2>6 DEF Places
  <2>12. PassSound(k)'
    <3>1. ASSUME NEW j \in pass'[k].rows PROVE row'[j].st = "PENDING"
      <4>1. j \in pass[k].rows /\ j # i
        BY <2>5, <2>7
      <4>2. j \in Roll \ {i} /\ row[j].st = "PENDING"
        BY <1>9, <4>1
      <4> QED BY <2>9, <4>2
    <3>2. Len(pass'[k].claims) > 0 /\ pass'[k].pc = "claiming"
      BY <1>7, <2>5, <2>6, <2>7
    <3>3. ASSUME NEW n \in Places(k)'
          PROVE  ClaimSound(TRUE, row'[pass'[k].claims[n].roll], far'[pass'[k].claims[n].roll])
      <4>1. n \in 1..Len(c.claims) /\ pass'[k].claims[n] = c.claims[n]
        BY <2>7 DEF Places
      <4>2. CASE n \in Places(k)
        <5>1. c.claims[n] = pass[k].claims[n] /\ RollAt(k, n) = pass[k].claims[n].roll
          BY <2>6, <4>2 DEF RollAt
        <5>2. row'[RollAt(k, n)] = row[RollAt(k, n)] /\ far'[RollAt(k, n)] = far[RollAt(k, n)]
          BY <2>10, <4>2
        <5>3. ClaimSound(TRUE, row[RollAt(k, n)], far[RollAt(k, n)])
          BY <1>8, <4>2
        <5> QED BY <4>1, <5>1, <5>2, <5>3
      <4>3. CASE n = Len(pass[k].claims) + 1
        BY <2>2, <2>6, <2>8, <2>9, <4>1, <4>3
      <4> QED BY <2>11, <4>1, <4>2, <4>3
    <3>4. \A n \in Places(k)' : OpenAt(pass'[k], n)
      BY <3>2 DEF OpenAt
    <3>5. \A n \in Places(k)' : ClaimSound(OpenAt(pass[k], n), row[RollAt(k, n)], far[RollAt(k, n)])'
      BY <3>3, <3>4 DEF RollAt
    <3> QED BY <3>1, <3>2, <3>5 DEF PassSound
  <2>13. ASSUME NEW m \in 1..Len(c.claims), NEW n \in 1..Len(c.claims), c.claims[m].roll = c.claims[n].roll
         PROVE  m = n
    <3>1. Apart
      BY DEF RollInv
    <3>2. CASE m \in Places(k) /\ n \in Places(k)
      BY <2>6, <2>13, <3>1, <3>2 DEF Apart, RollAt
    <3>3. CASE m = Len(pass[k].claims) + 1 /\ n = Len(pass[k].claims) + 1
      BY <3>3
    <3>4. \A p \in Places(k) : c.claims[p].roll # i
      BY <1>5, <2>6 DEF RollAt
    <3>5. c.claims[Len(pass[k].claims) + 1].roll = i
      BY <2>2, <2>6
    <3> QED BY <2>11, <2>13, <3>2, <3>3, <3>4, <3>5
  <2>14. \A j \in Reconcilers \ {k} : \A m \in Places(j), n \in 1..Len(c.claims) :
           RollAt(j, m) # c.claims[n].roll
    <3> SUFFICES ASSUME NEW j \in Reconcilers \ {k}, NEW m \in Places(j), NEW n \in 1..Len(c.claims)
                 PROVE  RollAt(j, m) # c.claims[n].roll
      OBVIOUS
    <3>1. Apart
      BY DEF RollInv
    <3>2. CASE n \in Places(k)
      <4>1. c.claims[n].roll = RollAt(k, n)
        BY <2>6, <3>2 DEF RollAt
      <4>2. RollAt(j, m) # RollAt(k, n)
        BY <3>1, <3>2 DEF Apart
      <4> QED BY <4>1, <4>2
    <3>3. CASE n = Len(pass[k].claims) + 1
      BY <1>5, <2>2, <2>6, <3>3
    <3> QED BY <2>11, <3>2, <3>3
  <2> QED BY <1>4, <1>6, <2>4, <2>5, <2>9, <2>10, <2>12, <2>13, <2>14, PassStep
<1>12. ASSUME NEW st \in {"PENDING", "FAILED"}, row' = [row EXCEPT ![i].st = st],
              pass' = [pass EXCEPT ![k].rows = @ \ {i}], UNCHANGED near
       PROVE  RollInv'
  <2> DEFINE c == [pass[k] EXCEPT !.rows = @ \ {i}]
  <2> DEFINE r == [row[i] EXCEPT !.st = st]
  <2>3. r \in [st : Statuses, lot : Lot, exit : Nat, qty : Nat] /\ row' = [row EXCEPT ![i] = r]
        /\ r.st = st /\ r.lot = l /\ r.exit = row[i].exit /\ r.qty = row[i].qty
    BY <1>10, <1>12 DEF Statuses
  <2>5. /\ c \in PassSet /\ c.pc = "claiming" /\ c.rows = pass[k].rows \ {i}
        /\ c.claims = pass[k].claims /\ pass' = [pass EXCEPT ![k] = c]
    BY <1>0, <1>2, <1>7, <1>12 DEF PassSet, RollTypes
  <2>7. pass'[k] = c
    BY <1>0, <2>5 DEF RollTypes
  <2> HIDE DEF c, r
  <2>8. SentOnce(r, far[i])
    <3>1. SentOnce(row[i], far[i]) /\ row[i].qty \in Nat
      BY <1>0, <1>1 DEF RollInv, RollFacts
    <3> QED BY <1>2, <2>3, <3>1 DEF SentOnce, Untouched
  <2>9. /\ row' \in [Roll -> [st : Statuses, lot : Lot, exit : Nat, qty : Nat]]
        /\ far' \in [Roll -> [sent : Nat, live : BOOLEAN, qty : Nat, carried : Int]]
        /\ \A j \in Roll : Named(j)' /\ SentOnce(row'[j], far'[j])
        /\ \A j \in Roll \ {i} : row'[j] = row[j] /\ far'[j] = far[j]
    <3> HIDE DEF i
    <3>1. far' = [far EXCEPT ![i] = far[i]]
      BY <1>6, <1>10
    <3>2. row[i].st # "none" /\ r.st # "none"
      BY <1>2, <2>3
    <3>3. r.qty \in {row[i].qty, nearExits[row[i].exit].filled}
      BY <2>3
    <3> QED BY <1>1, <1>6, <1>10, <2>3, <2>8, <3>1, <3>2, <3>3, RowWritten
  <2>10. \A j \in Reconcilers : \A n \in Places(j) :
           row'[RollAt(j, n)] = row[RollAt(j, n)] /\ far'[RollAt(j, n)] = far[RollAt(j, n)]
    BY <1>5, <2>9
  <2> HIDE DEF x, l, i
  <2>12. PassSound(k)'
    <3>1. \A j \in pass'[k].rows : row'[j].st = "PENDING"
      BY <1>9, <2>5, <2>7, <2>9
    <3>2. pass'[k].pc = "claiming"
      BY <2>5, <2>7
    <3>3. \A n \in Places(k)' : n \in Places(k) /\ RollAt(k, n)' = RollAt(k, n) /\ OpenAt(pass'[k], n)
      BY <2>5, <2>7, <3>2 DEF Places, RollAt, OpenAt
    <3>4. \A n \in Places(k)' : ClaimSound(OpenAt(pass[k], n), row[RollAt(k, n)], far[RollAt(k, n)])'
      BY <1>8, <2>10, <3>3
    <3> QED BY <3>1, <3>2, <3>4 DEF PassSound
  <2>13. /\ \A m, n \in 1..Len(c.claims) : c.claims[m].roll = c.claims[n].roll => m = n
         /\ \A j \in Reconcilers \ {k} : \A m \in Places(j), n \in 1..Len(c.claims) :
              RollAt(j, m) # c.claims[n].roll
    BY <2>5 DEF RollInv, Apart, Places, RollAt
  <2>14. near' \in [Lot -> [open : Nat, carried : Int]]
    BY <1>10, <1>12
  <2> QED BY <1>4, <1>6, <2>5, <2>9, <2>10, <2>12, <2>13, <2>14, PassStep
<1>13. row = [row EXCEPT ![i].st = "PENDING"]
  BY <1>2, <1>10
<1> QED BY <1>11, <1>12, <1>13 DEF FireClaim

\* Pass k leaves the claiming.
LEMMA GoKeeps ==
  ASSUME RollInv, NEW k \in Reconcilers, FireGo(k)
  PROVE  RollInv'
<1>0. RollFacts /\ RollTypes
  BY RollTyped DEF RollInv
<1> DEFINE pc == IF pass[k].claims = <<>> THEN "idle" ELSE "firing"
<1> DEFINE c == [pass[k] EXCEPT !.pc = pc]
<1>1. /\ c \in PassSet /\ c.pc = pc /\ c.claims = pass[k].claims /\ pass' = [pass EXCEPT ![k] = c]
      /\ pass'[k] = c /\ c.pc \in {"idle", "firing"}
  BY <1>0 DEF FireGo, RollFacts, PassSet, RollTypes
<1>2. pass[k].pc = "claiming" /\ UNCHANGED <<near, nearExits, asked, row, far>>
  BY DEF FireGo
<1>3. Len(pass[k].claims) > 0 <=> pc = "firing"
  BY <1>0, EmptySeq DEF RollFacts
<1> HIDE DEF c
<1>4. /\ near' \in [Lot -> [open : Nat, carried : Int]]
      /\ row' \in [Roll -> [st : Statuses, lot : Lot, exit : Nat, qty : Nat]]
      /\ far' \in [Roll -> [sent : Nat, live : BOOLEAN, qty : Nat, carried : Int]]
  BY <1>0, <1>2 DEF RollTypes
<1>5. \A i \in Roll : Named(i)' /\ SentOnce(row'[i], far'[i])
  BY <1>2 DEF RollInv, Named
<1>6. PassSound(k)'
  <2>1. \A n \in Places(k)' : n \in Places(k) /\ RollAt(k, n)' = RollAt(k, n)
                             /\ OpenAt(pass'[k], n) /\ OpenAt(pass[k], n)
    BY <1>1, <1>2 DEF Places, RollAt, OpenAt
  <2>2. \A n \in Places(k) : ClaimSound(OpenAt(pass[k], n), row[RollAt(k, n)], far[RollAt(k, n)])
    BY DEF RollInv, PassSound
  <2>3. ASSUME NEW n \in Places(k)'
        PROVE  ClaimSound(OpenAt(pass[k], n), row[RollAt(k, n)], far[RollAt(k, n)])'
    <3>1. ClaimSound(OpenAt(pass[k], n), row[RollAt(k, n)], far[RollAt(k, n)])
      BY <2>1, <2>2
    <3>2. row' = row /\ far' = far /\ RollAt(k, n)' = RollAt(k, n) /\ OpenAt(pass'[k], n) /\ OpenAt(pass[k], n)
      BY <1>2, <2>1
    <3> HIDE DEF pc
    <3> QED BY <3>1, <3>2 DEF ClaimSound, OpenAt
  <2>4. Len(pass[k].claims) \in Nat
    BY <1>0 DEF RollFacts
  <2> QED BY <1>1, <1>3, <2>3, <2>4 DEF PassSound
<1>7. /\ \A m, n \in 1..Len(c.claims) : c.claims[m].roll = c.claims[n].roll => m = n
      /\ \A j \in Reconcilers \ {k} : \A m \in Places(j), n \in 1..Len(c.claims) :
           RollAt(j, m) # c.claims[n].roll
  BY <1>1 DEF RollInv, Apart, Places, RollAt
<1>8. \A j \in Reconcilers \ {k} : \A n \in Places(j) :
         row'[RollAt(j, n)] = row[RollAt(j, n)] /\ far'[RollAt(j, n)] = far[RollAt(j, n)]
  BY <1>2
<1>9. UNCHANGED <<nearExits, asked>> /\ c.pc # "claiming" /\ row' = row
      /\ c \in PassSet /\ pass' = [pass EXCEPT ![k] = c]
  BY <1>1, <1>2
<1> QED BY <1>4, <1>5, <1>6, <1>7, <1>8, <1>9, PassStep

\* Pass k writes the intent and the far order of its first claim.
LEMMA HeadKeeps ==
  ASSUME RollInv, NotClaiming, NEW k \in Reconcilers, pass[k].pc \in {"firing", "placing"},
         NEW pc \in {"placing", "tagging", "restoring"}, pass' = [pass EXCEPT ![k].pc = pc],
         UNCHANGED <<near, nearExits, asked>>,
         NEW r \in [st : Statuses, lot : Lot, exit : Nat, qty : Nat],
         NEW f \in [sent : Nat, live : BOOLEAN, qty : Nat, carried : Int],
         row' = [row EXCEPT ![RollOf(k)] = r], far' = [far EXCEPT ![RollOf(k)] = f],
         r.st \in {"FIRING", "DONE", "FAILED", "UNRESOLVED"},
         r.lot = row[RollOf(k)].lot, r.exit = row[RollOf(k)].exit, r.qty = row[RollOf(k)].qty,
         SentOnce(r, f), ClaimSound(pc = "placing", r, f)
  PROVE  RollInv'
<1>0. RollFacts /\ RollTypes
  BY RollTyped DEF RollInv
<1> DEFINE i == RollOf(k)
<1> DEFINE c == [pass[k] EXCEPT !.pc = pc]
<1>1. /\ c \in PassSet /\ c.pc = pc /\ c.claims = pass[k].claims /\ pass' = [pass EXCEPT ![k] = c] /\ pass'[k] = c
  <2>1. pass[k] \in PassSet /\ pass \in [Reconcilers -> PassSet]
    BY <1>0 DEF RollFacts, RollTypes
  <2>2. c \in PassSet /\ c.pc = pc /\ c.claims = pass[k].claims
    BY <2>1 DEF PassSet
  <2> QED BY <2>1, <2>2
<1> HIDE DEF c
<1>2. PassSound(k)
  BY DEF RollInv
<1>3. Len(pass[k].claims) \in Nat /\ Len(pass[k].claims) > 0
  BY <1>0, <1>2 DEF PassSound, RollFacts
<1>4. 1 \in Places(k) /\ i = RollAt(k, 1)
  <2>1. Head(pass[k].claims) = pass[k].claims[1]
    BY <1>0, <1>3, HeadTailProperties, EmptySeq DEF RollFacts
  <2> QED BY <1>3, <2>1 DEF Places, RollAt, RollOf, Claim
<1> HIDE DEF i
<1>5. i \in Roll /\ row[i].st \notin {"none", "PENDING"}
  BY <1>4, InHandIsClaimed
<1>6. /\ row' \in [Roll -> [st : Statuses, lot : Lot, exit : Nat, qty : Nat]]
      /\ far' \in [Roll -> [sent : Nat, live : BOOLEAN, qty : Nat, carried : Int]]
      /\ \A j \in Roll : Named(j)' /\ SentOnce(row'[j], far'[j])
      /\ row'[i] = r /\ far'[i] = f
      /\ \A j \in Roll \ {i} : row'[j] = row[j] /\ far'[j] = far[j]
  <2>1. row' = [row EXCEPT ![i] = r] /\ far' = [far EXCEPT ![i] = f]
        /\ r.st # "none" /\ r.lot = row[i].lot /\ r.exit = row[i].exit
        /\ r.qty \in {row[i].qty, nearExits[row[i].exit].filled}
    BY DEF i
  <2> QED BY <1>5, <2>1, RowWritten
<1>7. /\ \A m, n \in Places(k) : RollAt(k, m) = RollAt(k, n) => m = n
      /\ \A j \in Reconcilers \ {k} : \A m \in Places(j), n \in Places(k) : RollAt(j, m) # RollAt(k, n)
  BY DEF RollInv, Apart
<1>8. ASSUME NEW j \in Reconcilers, NEW n \in Places(j), j # k \/ n # 1
      PROVE  row'[RollAt(j, n)] = row[RollAt(j, n)] /\ far'[RollAt(j, n)] = far[RollAt(j, n)]
  <2>1. RollAt(j, n) # i
    BY <1>4, <1>7, <1>8
  <2>2. RollAt(j, n) \in Roll
    BY InHandIsClaimed
  <2> QED BY <1>6, <2>1, <2>2
<1>9. PassSound(k)'
  <2>1. ASSUME NEW n \in Places(k)'
        PROVE  ClaimSound(OpenAt(pass[k], n), row[RollAt(k, n)], far[RollAt(k, n)])'
    <3>1. n \in Places(k) /\ RollAt(k, n)' = RollAt(k, n) /\ n \in Nat /\ n >= 1
      BY <1>1, <1>3 DEF Places, RollAt
    <3>2. CASE n = 1
      <4>1. OpenAt(pass'[k], n) <=> pc = "placing"
        BY <1>1, <3>2 DEF OpenAt
      <4>2. row'[RollAt(k, n)'] = r /\ far'[RollAt(k, n)'] = f
        BY <1>4, <1>6, <3>1, <3>2
      <4> QED BY <4>1, <4>2 DEF ClaimSound
    <3>3. CASE n # 1
      <4>1. OpenAt(pass'[k], n) /\ OpenAt(pass[k], n)
        BY <3>1, <3>3 DEF OpenAt
      <4>2. ClaimSound(TRUE, row[RollAt(k, n)], far[RollAt(k, n)])
        BY <1>2, <3>1, <4>1 DEF PassSound
      <4>3. row'[RollAt(k, n)] = row[RollAt(k, n)] /\ far'[RollAt(k, n)] = far[RollAt(k, n)]
        BY <1>8, <3>1, <3>3
      <4>4. ClaimSound(TRUE, row'[RollAt(k, n)'], far'[RollAt(k, n)'])
        BY <3>1, <4>2, <4>3
      <4> QED BY <4>1, <4>4 DEF ClaimSound
    <3> QED BY <3>2, <3>3
  <2> QED BY <1>1, <1>3, <2>1 DEF PassSound
<1>10. /\ \A m, n \in 1..Len(c.claims) : c.claims[m].roll = c.claims[n].roll => m = n
       /\ \A j \in Reconcilers \ {k} : \A m \in Places(j), n \in 1..Len(c.claims) :
            RollAt(j, m) # c.claims[n].roll
  BY <1>1, <1>7 DEF Places, RollAt
<1>11. \A j \in Reconcilers \ {k} : pass[j].pc = "claiming" => row' = row
  BY DEF NotClaiming
<1>12. near' \in [Lot -> [open : Nat, carried : Int]]
  BY <1>0 DEF RollTypes
<1>13. c \in PassSet /\ c.pc # "claiming" /\ pass' = [pass EXCEPT ![k] = c]
  BY <1>1
<1>14. \A j \in Reconcilers \ {k} : \A n \in Places(j) :
         row'[RollAt(j, n)] = row[RollAt(j, n)] /\ far'[RollAt(j, n)] = far[RollAt(j, n)]
  BY <1>8
<1> QED BY <1>6, <1>9, <1>10, <1>11, <1>12, <1>13, <1>14, PassStep

\* Pass k is done with its first claim; the far lot may be tagged.
LEMMA TailKeeps ==
  ASSUME RollInv, NEW k \in Reconcilers, pass[k].pc \in {"tagging", "restoring"}, NextClaim(k),
         near' \in [Lot -> [open : Nat, carried : Int]], UNCHANGED <<nearExits, asked, row>>,
         NEW s \in Int, far' \in {far, [far EXCEPT ![RollOf(k)].carried = s]}
  PROVE  RollInv'
<1>0. RollFacts /\ RollTypes
  BY RollTyped DEF RollInv
<1> DEFINE i == RollOf(k)
<1> DEFINE t == Tail(pass[k].claims)
<1> DEFINE c == [pass[k] EXCEPT !.claims = t, !.pc = IF t = <<>> THEN "idle" ELSE "firing"]
<1>1. PassSound(k) /\ pass[k].claims \in Seq(ClaimSet) /\ Len(pass[k].claims) \in Nat
  BY <1>0 DEF RollInv, RollFacts
<1>2. Len(pass[k].claims) > 0 /\ pass[k].claims # <<>>
  BY <1>1, EmptySeq DEF PassSound
<1>3. /\ t \in Seq(ClaimSet) /\ Len(t) = Len(pass[k].claims) - 1
      /\ \A n \in 1..Len(t) : t[n] = pass[k].claims[n + 1]
      /\ Head(pass[k].claims) = pass[k].claims[1]
  BY <1>1, <1>2, HeadTailProperties
<1>4. (t = <<>>) <=> (Len(t) = 0)
  BY <1>3, EmptySeq
<1>5. 1 \in Places(k) /\ i = RollAt(k, 1)
  BY <1>1, <1>2, <1>3 DEF Places, RollAt, RollOf, Claim
<1> HIDE DEF t
<1>6. /\ c \in PassSet /\ c.claims = t /\ pass' = [pass EXCEPT ![k] = c] /\ pass'[k] = c
      /\ c.pc = (IF t = <<>> THEN "idle" ELSE "firing")
  <2>1. pass[k] \in PassSet /\ pass \in [Reconcilers -> PassSet]
    BY <1>0 DEF RollFacts, RollTypes
  <2>2. c \in PassSet /\ c.claims = t
    BY <1>3, <2>1 DEF PassSet
  <2>3. pass' = [pass EXCEPT ![k] = c]
    BY <2>1 DEF NextClaim, Rest, t
  <2> QED BY <2>1, <2>2, <2>3
<1> HIDE DEF c, i
<1>7. /\ i \in Roll /\ row[i].st \in {"DONE", "FAILED", "UNRESOLVED"}
  <2>1. ~OpenAt(pass[k], 1)
    BY DEF OpenAt
  <2>2. ClaimSound(OpenAt(pass[k], 1), row[i], far[i])
    BY <1>1, <1>5 DEF PassSound
  <2> QED BY <1>5, <2>1, <2>2, InHandIsClaimed DEF ClaimSound
<1>8. /\ far' \in [Roll -> [sent : Nat, live : BOOLEAN, qty : Nat, carried : Int]]
      /\ \A j \in Roll : far'[j].sent = far[j].sent /\ far'[j].qty = far[j].qty
      /\ \A j \in Roll \ {i} : far'[j] = far[j]
  <2>1. far' \in {far, [far EXCEPT ![i].carried = s]}
    BY DEF i
  <2>2. far \in [Roll -> [sent : Nat, live : BOOLEAN, qty : Nat, carried : Int]]
    BY <1>0 DEF RollTypes
  <2>3. CASE far' = far
    BY <2>2, <2>3
  <2>4. CASE far' = [far EXCEPT ![i].carried = s]
    BY <1>7, <2>2, <2>4
  <2> QED BY <2>1, <2>3, <2>4
<1>9. \A j \in Roll : Named(j)' /\ SentOnce(row'[j], far'[j])
  <2> SUFFICES ASSUME NEW j \in Roll PROVE Named(j)' /\ SentOnce(row'[j], far'[j])
    OBVIOUS
  <2>1. Named(j) /\ SentOnce(row[j], far[j])
    BY DEF RollInv
  <2>2. Named(j)'
    BY <2>1 DEF Named
  <2>3. SentOnce(row'[j], far'[j])
    BY <1>7, <1>8, <2>1 DEF SentOnce, Untouched
  <2> QED BY <2>2, <2>3
<1>10. /\ \A m, n \in Places(k) : RollAt(k, m) = RollAt(k, n) => m = n
       /\ \A j \in Reconcilers \ {k} : \A m \in Places(j), n \in Places(k) : RollAt(j, m) # RollAt(k, n)
  BY DEF RollInv, Apart
<1>11. \A n \in 1..Len(c.claims) : n + 1 \in Places(k) /\ n \in Nat /\ c.claims[n].roll = RollAt(k, n + 1)
  BY <1>1, <1>3, <1>6 DEF Places, RollAt
<1>12. ASSUME NEW j \in Reconcilers, NEW n \in Places(j), j # k \/ n # 1
       PROVE  row'[RollAt(j, n)] = row[RollAt(j, n)] /\ far'[RollAt(j, n)] = far[RollAt(j, n)]
  <2>1. RollAt(j, n) # i
    BY <1>5, <1>10, <1>12
  <2>2. RollAt(j, n) \in Roll
    BY InHandIsClaimed
  <2> QED BY <1>8, <2>1, <2>2
<1>13. PassSound(k)'
  <2>1. ASSUME NEW n \in Places(k)'
        PROVE  ClaimSound(OpenAt(pass[k], n), row[RollAt(k, n)], far[RollAt(k, n)])'
    <3>1. n \in 1..Len(c.claims) /\ RollAt(k, n)' = c.claims[n].roll
      BY <1>6 DEF Places, RollAt
    <3>2. n + 1 \in Places(k) /\ RollAt(k, n)' = RollAt(k, n + 1) /\ n \in Nat /\ n >= 1
      BY <1>11, <3>1
    <3>3. OpenAt(pass[k], n + 1)
      BY <3>2 DEF OpenAt
    <3>4. ClaimSound(TRUE, row[RollAt(k, n + 1)], far[RollAt(k, n + 1)])
      BY <1>1, <3>2, <3>3 DEF PassSound
    <3>5. row'[RollAt(k, n + 1)] = row[RollAt(k, n + 1)] /\ far'[RollAt(k, n + 1)] = far[RollAt(k, n + 1)]
      BY <1>12, <3>2
    <3>6. pass'[k].pc \in {"idle", "firing"}
      BY <1>6
    <3>7. OpenAt(pass'[k], n)
      BY <3>6 DEF OpenAt
    <3>8. ClaimSound(TRUE, row'[RollAt(k, n)'], far'[RollAt(k, n)'])
      BY <3>2, <3>4, <3>5
    <3> QED BY <3>7, <3>8 DEF ClaimSound
  <2>2. /\ pass'[k].pc = "idle" => Len(pass'[k].claims) = 0
        /\ pass'[k].pc = "firing" => Len(pass'[k].claims) > 0
        /\ pass'[k].pc \in {"idle", "firing"}
    BY <1>1, <1>2, <1>3, <1>4, <1>6
  <2> QED BY <2>1, <2>2 DEF PassSound
<1>14. ASSUME NEW m \in 1..Len(c.claims), NEW n \in 1..Len(c.claims), c.claims[m].roll = c.claims[n].roll
       PROVE  m = n
  <2>1. m + 1 = n + 1
    BY <1>10, <1>11, <1>14
  <2> QED BY <1>11, <2>1
<1>15. \A j \in Reconcilers \ {k} : \A m \in Places(j), n \in 1..Len(c.claims) :
           RollAt(j, m) # c.claims[n].roll
  BY <1>10, <1>11
<1>16. /\ row' \in [Roll -> [st : Statuses, lot : Lot, exit : Nat, qty : Nat]] /\ row' = row
  BY <1>0 DEF RollTypes
<1>17. \A j \in Reconcilers \ {k} : \A n \in Places(j) :
         row'[RollAt(j, n)] = row[RollAt(j, n)] /\ far'[RollAt(j, n)] = far[RollAt(j, n)]
  BY <1>12
<1>18. c \in PassSet /\ c.pc # "claiming" /\ pass' = [pass EXCEPT ![k] = c]
  BY <1>6
<1> QED BY <1>8, <1>9, <1>13, <1>14, <1>15, <1>16, <1>17, <1>18, PassStep

\* The far leg is placed, answered, tagged or given up.
LEMMA FarSteps ==
  ASSUME RollInv, NEW k \in Reconcilers,
         \/ FarPlace(k) \/ FarTag(k) \/ FarRestore(k)
         \/ \E verdict \in {"ok", "refused", "unheard"}, live \in BOOLEAN : FarAnswer(k, verdict, live)
  PROVE  RollInv'
<1>0. RollFacts /\ RollTypes
  BY RollTyped DEF RollInv
<1> DEFINE i == RollOf(k)
<1>1. ASSUME pass[k].pc \in {"firing", "placing", "tagging", "restoring"}
      PROVE  /\ i \in Roll /\ pass[k].claims # <<>> /\ Claim(k) \in ClaimSet
             /\ row \in [Roll -> [st : Statuses, lot : Lot, exit : Nat, qty : Nat]]
             /\ row[i] \in [st : Statuses, lot : Lot, exit : Nat, qty : Nat]
             /\ far \in [Roll -> [sent : Nat, live : BOOLEAN, qty : Nat, carried : Int]]
             /\ far[i] \in [sent : Nat, live : BOOLEAN, qty : Nat, carried : Int]
             /\ SentOnce(row[i], far[i]) /\ near \in [Lot -> [open : Nat, carried : Int]]
             /\ pass[k].pc \in {"firing", "placing"} => row[i].st = "FIRING" /\ Untouched(far[i])
  <2>1. PassSound(k) /\ pass[k].claims \in Seq(ClaimSet) /\ Len(pass[k].claims) \in Nat
    BY <1>0 DEF RollInv, RollFacts
  <2>2. Len(pass[k].claims) > 0 /\ pass[k].claims # <<>>
    BY <1>1, <2>1, EmptySeq DEF PassSound
  <2>3. Head(pass[k].claims) = pass[k].claims[1]
    BY <2>1, <2>2, HeadTailProperties
  <2>4. 1 \in Places(k) /\ i = RollAt(k, 1) /\ Claim(k) \in ClaimSet
    BY <2>1, <2>2, <2>3, ElementOfSeq DEF Places, RollAt, RollOf, Claim
  <2>5. i \in Roll
    BY <2>4, InHandIsClaimed
  <2>6. pass[k].pc \in {"firing", "placing"} => row[i].st = "FIRING" /\ Untouched(far[i])
    BY <2>1, <2>4 DEF PassSound, ClaimSound, OpenAt
  <2> QED BY <1>0, <2>2, <2>4, <2>5, <2>6 DEF RollTypes, RollInv
<1>2. CASE FarPlace(k)
  <2>1. pass[k].pc = "firing" /\ NotClaiming /\ UNCHANGED <<near, nearExits, asked, far>>
    BY <1>2 DEF FarPlace, LoopFree
  <2>2. row[i].st = "FIRING" /\ Untouched(far[i])
    BY <1>1, <2>1
  <2>3. far' = [far EXCEPT ![i] = far[i]] /\ row = [row EXCEPT ![i] = row[i]]
    BY <1>1, <2>1
  <2>4. CASE pass' = [pass EXCEPT ![k].pc = "placing"] /\ row' = row
    <3>1. ClaimSound("placing" = "placing", row[i], far[i])
      BY <2>2 DEF ClaimSound
    <3> QED BY <1>1, <2>1, <2>2, <2>3, <2>4, <3>1, HeadKeeps
  <2>5. CASE Finalize(k, "UNRESOLVED", "restoring")
    <3> DEFINE r == [row[i] EXCEPT !.st = "UNRESOLVED"]
    <3>1. /\ r \in [st : Statuses, lot : Lot, exit : Nat, qty : Nat] /\ r.st = "UNRESOLVED"
          /\ r.lot = row[i].lot /\ r.exit = row[i].exit /\ r.qty = row[i].qty
          /\ row' = [row EXCEPT ![i] = r] /\ pass' = [pass EXCEPT ![k].pc = "restoring"]
      BY <1>1, <2>1, <2>5 DEF Finalize, Statuses
    <3> HIDE DEF r
    <3>2. SentOnce(r, far[i]) /\ ClaimSound("restoring" = "placing", r, far[i])
      BY <1>1, <2>1, <2>2, <3>1 DEF SentOnce, Untouched, ClaimSound
    <3> QED BY <1>1, <2>1, <2>2, <2>3, <3>1, <3>2, HeadKeeps
  <2> QED BY <1>2, <2>4, <2>5 DEF FarPlace
<1>3. ASSUME NEW verdict \in {"ok", "refused", "unheard"}, NEW live \in BOOLEAN, FarAnswer(k, verdict, live)
      PROVE  RollInv'
  <2>1. pass[k].pc = "placing" /\ NotClaiming /\ UNCHANGED <<near, nearExits, asked>>
    BY <1>3 DEF FarAnswer, LoopFree
  <2>2. row[i].st = "FIRING" /\ Untouched(far[i])
    BY <1>1, <2>1
  <2> DEFINE f == [far[i] EXCEPT !.sent = @ + 1, !.live = @ \/ live,
                                 !.qty = @ + IF live THEN row[i].qty ELSE 0]
  <2>3. /\ f \in [sent : Nat, live : BOOLEAN, qty : Nat, carried : Int]
        /\ far' = [far EXCEPT ![i] = f] /\ f.sent = 1 /\ f.qty <= row[i].qty /\ f.carried = 0
    <3>1. far' = [far EXCEPT ![i] = f]
      BY <1>1, <1>3, <2>1 DEF FarAnswer
    <3>2. far[i].sent = 0 /\ far[i].qty = 0 /\ far[i].carried = 0 /\ row[i].qty \in Nat /\ far[i].live \in BOOLEAN
      BY <1>1, <2>1, <2>2 DEF Untouched
    <3> DEFINE q == far[i].qty + IF live THEN row[i].qty ELSE 0
    <3>3. f \in [sent : Nat, live : BOOLEAN, qty : Nat, carried : Int]
      <4>1. far[i].sent + 1 \in Nat /\ q \in Nat /\ (far[i].live \/ live) \in BOOLEAN
        BY <3>2
      <4>2. f = [far[i] EXCEPT !.sent = @ + 1, !.live = @ \/ live, !.qty = q]
        BY <1>1, <2>1
      <4> HIDE DEF q, f
      <4> QED BY <1>1, <2>1, <4>1, <4>2
    <3>4. f.sent = 1 /\ f.carried = 0 /\ f.qty <= row[i].qty
      BY <1>1, <2>1, <3>2
    <3> QED BY <3>1, <3>3, <3>4
  <2>4. PICK st \in {"DONE", "FAILED", "UNRESOLVED"}, pc \in {"tagging", "restoring"} : Finalize(k, st, pc)
    BY <1>3 DEF FarAnswer, StatusOf
  <2> DEFINE r == [row[i] EXCEPT !.st = st]
  <2>5. /\ r \in [st : Statuses, lot : Lot, exit : Nat, qty : Nat] /\ r.st = st
        /\ r.lot = row[i].lot /\ r.exit = row[i].exit /\ r.qty = row[i].qty
        /\ row' = [row EXCEPT ![i] = r] /\ pass' = [pass EXCEPT ![k].pc = pc]
    BY <1>1, <2>1, <2>4 DEF Finalize, Statuses
  <2> HIDE DEF r, f
  <2>6. SentOnce(r, f) /\ ClaimSound(pc = "placing", r, f)
    BY <2>3, <2>5 DEF SentOnce, ClaimSound
  <2>7. r.st \in {"FIRING", "DONE", "FAILED", "UNRESOLVED"} /\ pc \in {"placing", "tagging", "restoring"}
    BY <2>5
  <2> QED BY <2>1, <2>3, <2>5, <2>6, <2>7, HeadKeeps
<1>4. CASE FarTag(k)
  <2>1. /\ pass[k].pc = "tagging" /\ NextClaim(k) /\ UNCHANGED <<near, nearExits, asked, row>>
        /\ far' = [far EXCEPT ![RollOf(k)].carried = Claim(k).share]
    BY <1>4 DEF FarTag
  <2>2. Claim(k).share \in Int /\ near' \in [Lot -> [open : Nat, carried : Int]]
    BY <1>1, <2>1 DEF ClaimSet
  <2> QED BY <2>1, <2>2, TailKeeps
<1>5. CASE FarRestore(k)
  <2>1. /\ pass[k].pc = "restoring" /\ NextClaim(k) /\ UNCHANGED <<nearExits, asked, row, far>>
        /\ near' = [near EXCEPT ![row[i].lot].carried = Restored(k, @)]
    BY <1>5 DEF FarRestore
  <2>2. near' \in [Lot -> [open : Nat, carried : Int]]
    <3> DEFINE l == row[i].lot
    <3> DEFINE z == Restored(k, near[l].carried)
    <3>1. l \in Lot /\ near \in [Lot -> [open : Nat, carried : Int]] /\ Claim(k).prior \in Int
      BY <1>1, <2>1 DEF ClaimSet
    <3>2. z \in Int /\ near' = [near EXCEPT ![l].carried = z]
      BY <2>1, <3>1 DEF Restored
    <3> HIDE DEF l, z
    <3> QED BY <3>1, <3>2
  <2>3. 0 \in Int /\ far' \in {far, [far EXCEPT ![RollOf(k)].carried = 0]}
    BY <2>1
  <2> QED BY <2>1, <2>2, <2>3, TailKeeps
<1> QED BY <1>2, <1>3, <1>4, <1>5

\* A death forgets the claims in hand; far orders on their way may be taken.
LEMMA CrashKeeps == RollInv /\ Crash => RollInv'
<1> SUFFICES ASSUME RollInv, Crash PROVE RollInv'
  OBVIOUS
<1>0. RollFacts /\ RollTypes
  BY RollTyped DEF RollInv
<1> DEFINE N == Len(nearExits)
<1>1. /\ nearExits' \in Seq(ExitSet) /\ Len(nearExits') = N
      /\ \A e \in 1..N : nearExits'[e].lot = nearExits[e].lot /\ nearExits'[e].filled = nearExits[e].filled
  <2>1. PICK taken : nearExits' = [e \in 1..N |-> [nearExits[e] EXCEPT !.cancel = "no",
         !.order = IF @ = "sent" THEN IF e \in taken THEN "working" ELSE "gone" ELSE @]]
    BY DEF Crash
  <2>2. ASSUME NEW e \in 1..N
        PROVE  /\ nearExits'[e] \in ExitSet
               /\ nearExits'[e].lot = nearExits[e].lot /\ nearExits'[e].filled = nearExits[e].filled
    <3>1. nearExits[e] \in ExitSet
      BY <1>0 DEF RollFacts
    <3> QED BY <2>1, <3>1 DEF ExitSet, NearExitSet
  <2>3. N \in Nat
    BY <1>0 DEF RollFacts
  <2> HIDE DEF N
  <2>4. nearExits' \in [1..N -> ExitSet]
    BY <2>1, <2>2
  <2>5. nearExits' \in Seq(ExitSet)
    BY <2>3, <2>4, SeqDef
  <2>6. Len(nearExits') = N
    BY <2>3, <2>4, <2>5, LenProperties
  <2> QED BY <2>2, <2>5, <2>6
<1> HIDE DEF N
<1>2. /\ asked' \in [Roll -> [pc : {"idle", "exiting", "exited", "raised", "noted"}, exit : Nat]]
      /\ \A i \in Roll : /\ asked'[i].pc \notin {"exiting", "exited"}
                         /\ asked'[i].pc # "noted" => asked[i].pc # "noted"
  <2>1. \A i \in Roll : asked[i] \in [pc : {"idle", "exiting", "exited", "raised", "noted"}, exit : Nat]
    BY <1>0 DEF RollTypes
  <2>2. asked' = [i \in Roll |-> IF asked[i].pc \in {"exiting", "exited"}
                 THEN [asked[i] EXCEPT !.pc = "raised"] ELSE asked[i]]
    BY DEF Crash
  <2> QED BY <2>1, <2>2
<1>3. UNCHANGED <<near, row>> /\ pass' = [k \in Reconcilers |-> IdlePass]
  BY DEF Crash
<1>4. /\ far' \in [Roll -> [sent : Nat, live : BOOLEAN, qty : Nat, carried : Int]]
      /\ \A i \in Roll : SentOnce(row[i], far'[i])
  <2>1. PICK taken \in SUBSET {k \in Reconcilers : pass[k].pc = "placing"} :
          far' = [i \in Roll |-> IF \E k \in taken : RollOf(k) = i
                 THEN [far[i] EXCEPT !.sent = @ + 1, !.live = TRUE, !.qty = @ + row[i].qty]
                 ELSE far[i]]
    BY DEF Crash
  <2> SUFFICES ASSUME NEW i \in Roll
               PROVE  /\ far'[i] \in [sent : Nat, live : BOOLEAN, qty : Nat, carried : Int]
                      /\ SentOnce(row[i], far'[i])
    BY <2>1
  <2>2. /\ far[i] \in [sent : Nat, live : BOOLEAN, qty : Nat, carried : Int] /\ SentOnce(row[i], far[i])
        /\ row[i].qty \in Nat
    BY <1>0 DEF RollTypes, RollInv, RollFacts
  <2>3. CASE \E k \in taken : RollOf(k) = i
    <3>1. PICK k \in Reconcilers : RollOf(k) = i /\ pass[k].pc = "placing"
      BY <2>3
    <3>2. PassSound(k) /\ pass[k].claims \in Seq(ClaimSet) /\ Len(pass[k].claims) \in Nat
      BY <1>0 DEF RollInv, RollFacts
    <3>3. Len(pass[k].claims) > 0 /\ pass[k].claims # <<>>
      BY <3>1, <3>2, EmptySeq DEF PassSound
    <3>4. Head(pass[k].claims) = pass[k].claims[1]
      BY <3>2, <3>3, HeadTailProperties
    <3>5. 1 \in Places(k) /\ i = RollAt(k, 1)
      BY <3>1, <3>2, <3>3, <3>4 DEF Places, RollAt, RollOf, Claim
    <3>6. row[i].st = "FIRING" /\ Untouched(far[i])
      BY <3>1, <3>2, <3>5 DEF PassSound, ClaimSound, OpenAt
    <3>7. far'[i] = [far[i] EXCEPT !.sent = @ + 1, !.live = TRUE, !.qty = @ + row[i].qty]
      BY <2>1, <2>3
    <3>8. far[i].sent = 0 /\ far[i].qty = 0
      BY <3>6 DEF Untouched
    <3>9. far'[i].sent = 1 /\ far'[i].qty = row[i].qty
      BY <2>2, <3>7, <3>8
    <3>10. far'[i] \in [sent : Nat, live : BOOLEAN, qty : Nat, carried : Int]
      <4>1. far[i].sent + 1 = 1 /\ far[i].qty + row[i].qty = row[i].qty /\ row[i].qty \in Nat
        BY <2>2, <3>8
      <4>2. far'[i] = [far[i] EXCEPT !.sent = 1, !.live = TRUE, !.qty = row[i].qty]
        BY <3>7, <4>1
      <4>3. \A g \in [sent : Nat, live : BOOLEAN, qty : Nat, carried : Int] : \A q \in Nat :
              [g EXCEPT !.sent = 1, !.live = TRUE, !.qty = q]
                \in [sent : Nat, live : BOOLEAN, qty : Nat, carried : Int]
        OBVIOUS
      <4> QED BY <2>2, <4>1, <4>2, <4>3
    <3>11. row[i].st \notin {"none", "PENDING"} /\ row[i].qty <= row[i].qty
      BY <2>2, <3>6
    <3> QED BY <3>9, <3>10, <3>11 DEF SentOnce
  <2>4. CASE ~\E k \in taken : RollOf(k) = i
    BY <2>1, <2>2, <2>4
  <2> QED BY <2>3, <2>4
<1>5. IdlePass \in PassSet /\ IdlePass.pc = "idle" /\ Len(IdlePass.claims) = 0
  <2>1. <<>> \in Seq(ClaimSet) /\ Len(<<>>) = 0
    OBVIOUS
  <2> QED BY <2>1 DEF IdlePass, PassSet
<1>6. RollTypes'
  BY <1>0, <1>1, <1>2, <1>3, <1>4, <1>5 DEF RollTypes
<1>7. ASSUME NEW i \in Roll PROVE Named(i)'
  <2>1. Named(i) /\ row'[i] = row[i]
    BY <1>3 DEF RollInv
  <2>2. row[i].st # "none" => /\ row[i].exit \in 1..N
                              /\ nearExits'[row[i].exit].lot = row[i].lot
                              /\ row[i].qty <= nearExits'[row[i].exit].filled
    BY <1>1, <2>1 DEF Named, N
  <2> QED BY <1>1, <1>2, <2>1, <2>2 DEF Named
<1>8. \A k \in Reconcilers : PassSound(k)' /\ Places(k)' = {} /\ pass'[k].pc = "idle"
  BY <1>3, <1>5 DEF PassSound, Places
<1>9. Apart' /\ OneClaims'
  BY <1>8 DEF Apart, OneClaims
<1>10. \A i \in Roll : SentOnce(row[i], far[i])'
  BY <1>3, <1>4 DEF SentOnce, Untouched
<1> QED BY <1>6, <1>7, <1>8, <1>9, <1>10 DEF RollInv

\* Every step keeps the invariant.
LEMMA RollStep == RollInv /\ [RollNext]_allVars => RollInv'
<1> SUFFICES ASSUME RollInv, [RollNext]_allVars PROVE RollInv'
  OBVIOUS
<1>1. CASE \/ \E i \in Roll, q \in 1..2 : RollAsk(i, q)
           \/ \E l \in Lot, q \in 1..2 : ManualExit(l, q)
           \/ \E e \in 1..Len(nearExits) :
                \/ \E how \in {"ok", "refused", "lost"} : ExitAnswer(e, how)
                \/ \E f \in 0..nearExits[e].qty : ExitTrades(e, f) \/ ReconcileExit(e, f)
                \/ \E by \in {"user", "sibling"} : CancelAsk(e, by)
                \/ CancelMark(e) \/ CancelUnsent(e)
           \/ Clock
  BY <1>1, ExitSteps
<1>2. ASSUME NEW i \in Roll, RollNote(i) PROVE RollInv'
  BY <1>2, NoteKeeps
<1>3. ASSUME NEW k \in Reconcilers, FireBegin(k) \/ FireClaim(k) \/ FireGo(k) PROVE RollInv'
  BY <1>3, BeginKeeps, ClaimKeeps, GoKeeps
<1>4. ASSUME NEW k \in Reconcilers,
             \/ FarPlace(k) \/ FarTag(k) \/ FarRestore(k)
             \/ \E verdict \in {"ok", "refused", "unheard"}, live \in BOOLEAN : FarAnswer(k, verdict, live)
      PROVE  RollInv'
  BY <1>4, FarSteps
<1>5. CASE UNCHANGED allVars
  <2>1. UNCHANGED <<near, nearExits, asked, row, pass, far>>
    BY <1>5 DEF allVars, rollVars
  <2>2. RollFacts /\ RollTypes
    BY RollTyped DEF RollInv
  <2>3. \A i \in Roll : asked[i].pc \in {"exiting", "exited"} => asked[i].exit \in 1..Len(nearExits)
    BY DEF RollInv, Named
  <2>4. /\ near' \in [Lot -> [open : Nat, carried : Int]] /\ nearExits' \in Seq(ExitSet)
        /\ asked' \in [Roll -> [pc : {"idle", "exiting", "exited", "raised", "noted"}, exit : Nat]]
    BY <2>1, <2>2 DEF RollTypes
  <2>5. Len(nearExits') >= Len(nearExits)
        /\ \A e \in 1..Len(nearExits) : nearExits'[e].filled >= nearExits[e].filled
    BY <2>1, <2>2 DEF RollFacts
  <2> QED BY <2>1, <2>3, <2>4, <2>5, ExitsKeep
<1>6. CASE Crash
  BY <1>6, CrashKeeps
<1> QED BY <1>1, <1>2, <1>3, <1>4, <1>5, <1>6 DEF RollNext

\* However the passes, the requests and the deaths interleave, the far leg of an
\* intent reaches the broker at most once, and the far shares of a lot are no more
\* than the shares its exits closed, unless two intents name one exit.
THEOREM FarLegIsCovered == RollSpec => []FarCovered
<1>1. RollInit => RollInv
  BY RollInitOK
<1>2. RollInv /\ [RollNext]_allVars => RollInv'
  BY RollStep
<1>3. RollInv => FarCovered
  BY RollInvCovers
<1> QED BY <1>1, <1>2, <1>3, PTL DEF RollSpec

-----------------------------------------------------------------------------
\* The claims in hand, and those on one lot.
Hands == UNION {{pass[k].claims[n] : n \in Places(k)} : k \in Reconcilers}
HandsOf(l) == {c \in Hands : row[c.roll].lot = l}
FarSum(l) == SumFunctionOnSet(FarCarry(l), Roll)
\* What a lot carries, with its far lots and the claims on it, comes to `total`.
Even(carried, hands, sum, total) ==
  /\ hands = {} => carried + sum = total
  /\ \A c \in hands : /\ hands = {c} /\ c.prior = carried + c.share
                      /\ c.reduced = (c.share # 0) /\ c.prior + sum = total
CarryEven(l) == Even(near[l].carried, HandsOf(l), FarSum(l), Carry[l])
FiringInHand == \A i \in Roll : row[i].st = "FIRING" => \E c \in Hands : c.roll = i
CarryInv ==
  /\ RollInv /\ crashes \in Nat
  /\ crashes = 0 => FiringInHand /\ \A l \in Lot : l \notin mixed => CarryEven(l)

\* A claim in hand is at some place of some pass.
LEMMA HandIs == \A c : c \in Hands <=> \E k \in Reconcilers : \E n \in Places(k) : pass[k].claims[n] = c
BY DEF Hands

\* A claim is in hand at one place.
LEMMA HandsApart ==
  ASSUME RollInv, NEW j \in Reconcilers, NEW m \in Places(j), NEW k \in Reconcilers, NEW n \in Places(k),
         pass[j].claims[m].roll = pass[k].claims[n].roll
  PROVE  j = k /\ m = n
BY DEF RollInv, Apart, RollAt

\* Claims in hand are claims.
LEMMA HandsTyped ==
  ASSUME RollInv
  PROVE  \A c \in Hands : c \in ClaimSet /\ c.roll \in Roll /\ c.share \in Int /\ c.prior \in Int
<1>1. RollFacts
  BY RollTyped DEF RollInv
<1>2. \A c \in Hands : c \in ClaimSet
  BY <1>1, HandIs DEF RollFacts
<1> QED BY <1>2 DEF ClaimSet

\* What the far lots carry is a number.
LEMMA FarSumTyped ==
  ASSUME RollInv, NEW l \in Lot
  PROVE  FarSum(l) \in Int /\ IsFiniteSet(Roll) /\ \A i \in Roll : FarCarry(l)[i] \in Int
<1>1. RollFacts /\ IsFiniteSet(Roll)
  BY RollTyped, FS_Interval, RolloverAssumption DEF RollInv, Roll
<1>2. \A i \in Roll : FarCarry(l)[i] \in Int
  BY <1>1 DEF FarCarry, RollFacts
<1> QED BY <1>1, <1>2, SumIsInt DEF FarSum

\* The claims and the sums say what is wanted.
LEMMA CarryInvConserves == CarryInv => CarryConserved
<1> SUFFICES ASSUME CarryInv, crashes = 0 PROVE FiringIsHeld /\ \A l \in Lot : l \notin mixed => CarryOf(l) = Carry[l]
  BY DEF CarryConserved
<1>0. RollInv /\ FiringInHand
  BY DEF CarryInv
<1>1. \A h : h \in Claims <=> \E k \in Reconcilers : \E n \in Places(k) : h = <<k, n>>
  BY DEF Claims, Places
<1>2. ASSUME NEW k \in Reconcilers, NEW n \in Places(k) PROVE <<k, n>> \in Claims /\ InHand(<<k, n>>) = pass[k].claims[n]
  BY <1>1 DEF InHand
<1>3. FiringIsHeld
  <2> SUFFICES ASSUME NEW i \in Roll, row[i].st = "FIRING" PROVE \E h \in Claims : InHand(h).roll = i
    BY DEF FiringIsHeld
  <2>1. PICK c \in Hands : c.roll = i
    BY <1>0 DEF FiringInHand
  <2>2. PICK k \in Reconcilers, n \in Int : n \in Places(k) /\ pass[k].claims[n] = c
    BY HandIs DEF Places
  <2> QED BY <1>2, <2>1, <2>2
<1>4. ASSUME NEW l \in Lot, l \notin mixed PROVE CarryOf(l) = Carry[l]
  <2>1. CarryEven(l)
    BY <1>4 DEF CarryInv
  <2>2. near[l].carried \in Int /\ FarSum(l) \in Int
    BY <1>0, FarSumTyped DEF RollInv, RollTypes
  <2>3. ASSUME NEW h \in ClaimsOf(l) PROVE InHand(h) \in HandsOf(l)
    <3>1. h \in Claims /\ row[InHand(h).roll].lot = l
      BY DEF ClaimsOf
    <3>2. PICK k \in Reconcilers, n \in Int : n \in Places(k) /\ h = <<k, n>>
      BY <1>1, <3>1 DEF Places
    <3>3. InHand(h) = pass[k].claims[n] /\ InHand(h) \in Hands
      BY <1>2, <3>2, HandIs
    <3> QED BY <3>1, <3>3 DEF HandsOf
  <2>4. CASE HandsOf(l) = {}
    <3>1. ClaimsOf(l) = {}
      BY <2>3, <2>4
    <3>2. SumFunctionOnSet(ClaimShare, ClaimsOf(l)) = 0
      BY <3>1, SumEmpty
    <3>3. near[l].carried + FarSum(l) = Carry[l]
      BY <2>1, <2>4 DEF CarryEven, Even
    <3> QED BY <2>2, <3>2, <3>3 DEF CarryOf, FarSum
  <2>5. CASE HandsOf(l) # {}
    <3>1. PICK c \in HandsOf(l) : TRUE
      BY <2>5
    <3>2. /\ HandsOf(l) = {c} /\ c.prior = near[l].carried + c.share /\ c.prior + FarSum(l) = Carry[l]
      BY <2>1, <3>1 DEF CarryEven, Even
    <3>3. c \in Hands /\ row[c.roll].lot = l /\ c.share \in Int
      BY <1>0, <3>1, HandsTyped DEF HandsOf
    <3>4. PICK k \in Reconcilers, n \in Int : n \in Places(k) /\ pass[k].claims[n] = c
      BY <3>3, HandIs DEF Places
    <3> DEFINE h == <<k, n>>
    <3>5. h \in Claims /\ InHand(h) = c /\ h \in ClaimsOf(l)
      BY <1>2, <3>3, <3>4 DEF ClaimsOf
    <3>6. ASSUME NEW g \in ClaimsOf(l) PROVE g = h
      <4>1. InHand(g) = c /\ g \in Claims
        BY <2>3, <3>2 DEF ClaimsOf
      <4>2. PICK j \in Reconcilers, m \in Int : m \in Places(j) /\ g = <<j, m>>
        BY <1>1, <4>1 DEF Places
      <4>3. pass[j].claims[m] = c
        BY <1>2, <4>1, <4>2
      <4>4. j = k /\ m = n
        <5>1. m \in Places(j) /\ n \in Places(k) /\ pass[j].claims[m].roll = pass[k].claims[n].roll
          BY <3>4, <4>2, <4>3
        <5> QED BY <1>0, <5>1, HandsApart
      <4> QED BY <4>2, <4>4
    <3> HIDE DEF h
    <3>7. ClaimsOf(l) = {h} /\ ClaimShare[h] = c.share
      BY <3>5, <3>6 DEF ClaimShare
    <3>8. SumFunctionOnSet(ClaimShare, ClaimsOf(l)) = c.share
      BY <3>3, <3>7, SumSingle
    <3> QED BY <2>2, <3>2, <3>3, <3>8 DEF CarryOf, FarSum
  <2> QED BY <2>4, <2>5
<1> QED BY <1>3, <1>4

\* At the start every lot has its own.
LEMMA CarryInitOK == RollInit => CarryInv
<1> SUFFICES ASSUME RollInit PROVE CarryInv
  OBVIOUS
<1>1. RollInv
  BY RollInitOK
<1>2. \A k \in Reconcilers : Places(k) = {}
  <2>1. Len(<<>>) = 0
    OBVIOUS
  <2> QED BY <2>1 DEF RollInit, IdlePass, Places
<1>3. Hands = {}
  BY <1>2 DEF Hands
<1>4. ASSUME NEW l \in Lot PROVE CarryEven(l)
  <2>1. \A i \in Roll : FarCarry(l)[i] = 0
    BY DEF FarCarry, RollInit
  <2>2. FarSum(l) = 0
    BY <1>1, <2>1, FarSumTyped, SumZeros DEF FarSum
  <2>3. HandsOf(l) = {} /\ near[l].carried = Carry[l] /\ Carry[l] \in Nat
    BY <1>3, RolloverAssumption DEF HandsOf, RollInit
  <2> QED BY <2>2, <2>3 DEF CarryEven, Even
<1>5. FiringInHand /\ crashes = 0
  BY DEF FiringInHand, RollInit, NoRow
<1> QED BY <1>1, <1>4, <1>5 DEF CarryInv

\* A step that keeps the claims and what lots and far lots carry.
LEMMA CarryStays ==
  ASSUME CarryInv, RollInv', UNCHANGED <<crashes, mixed>>,
         \A k \in Reconcilers : pass'[k].claims = pass[k].claims,
         \A l \in Lot : near'[l].carried = near[l].carried,
         \A i \in Roll : /\ far'[i].carried = far[i].carried
                         /\ row'[i].st = "FIRING" => row[i].st = "FIRING"
                         /\ row[i].st # "none" => row'[i].lot = row[i].lot
  PROVE  CarryInv'
<1>0. RollInv
  BY DEF CarryInv
<1>1. Hands' = Hands
  <2>1. \A k \in Reconcilers : Places(k)' = Places(k)
    BY DEF Places
  <2>2. \A c : c \in Hands' <=> \E k \in Reconcilers : \E n \in Places(k)' : pass'[k].claims[n] = c
    BY DEF Hands
  <2>3. \A c : c \in Hands' <=> c \in Hands
    BY <2>1, <2>2, HandIs
  <2> QED BY <2>3
<1>2. \A c \in Hands : row'[c.roll].lot = row[c.roll].lot
  <2> SUFFICES ASSUME NEW c \in Hands PROVE row'[c.roll].lot = row[c.roll].lot
    OBVIOUS
  <2>1. PICK k \in Reconcilers, n \in Int : n \in Places(k) /\ pass[k].claims[n] = c
    BY HandIs DEF Places
  <2>2. RollAt(k, n) = c.roll /\ row[RollAt(k, n)].st # "none" /\ RollAt(k, n) \in Roll
    BY <1>0, <2>1, InHandIsClaimed DEF RollAt
  <2> QED BY <2>2
<1>3. ASSUME NEW l \in Lot PROVE HandsOf(l)' = HandsOf(l) /\ FarSum(l)' = FarSum(l)
  <2>1. HandsOf(l)' = HandsOf(l)
    BY <1>1, <1>2 DEF HandsOf
  <2>2. \A i \in Roll : FarCarry(l)'[i] = FarCarry(l)[i]
    <3> SUFFICES ASSUME NEW i \in Roll PROVE FarCarry(l)'[i] = FarCarry(l)[i]
      OBVIOUS
    <3>1. SentOnce(row[i], far[i])
      BY <1>0 DEF RollInv
    <3>2. CASE row[i].st = "none"
      BY <3>1, <3>2 DEF SentOnce, Untouched, FarCarry
    <3>3. CASE row[i].st # "none"
      BY <3>3 DEF FarCarry
    <3> QED BY <3>2, <3>3
  <2>3. SumFunctionOnSet(FarCarry(l)', Roll) = SumFunctionOnSet(FarCarry(l), Roll)
    BY <1>0, <2>2, FarSumTyped, SumSame
  <2> QED BY <2>1, <2>3 DEF FarSum
<1>4. ASSUME NEW l \in Lot, CarryEven(l) PROVE CarryEven(l)'
  BY <1>3, <1>4 DEF CarryEven
<1>5. FiringInHand => FiringInHand'
  BY <1>1 DEF FiringInHand
<1> QED BY <1>4, <1>5 DEF CarryInv

\* A claim more in the hands of pass k.
LEMMA HandTaken ==
  ASSUME RollInv, NEW k \in Reconcilers, NEW a \in ClaimSet,
         \A j \in Reconcilers \ {k} : pass'[j].claims = pass[j].claims,
         pass'[k].claims = Append(pass[k].claims, a)
  PROVE  Hands' = Hands \cup {a}
<1>1. pass[k].claims \in Seq(ClaimSet) /\ Len(pass[k].claims) \in Nat
  BY RollTyped DEF RollInv, RollFacts
<1> DEFINE N == Len(pass[k].claims)
<1>2. /\ Len(pass'[k].claims) = N + 1 /\ pass'[k].claims[N + 1] = a
      /\ \A n \in 1..N : pass'[k].claims[n] = pass[k].claims[n]
  BY <1>1, AppendProperties
<1>3. Places(k)' = Places(k) \cup {N + 1} /\ N + 1 \notin Places(k)
  BY <1>1, <1>2 DEF Places
<1>4. \A c : c \in Hands' <=> \E j \in Reconcilers : \E n \in Places(j)' : pass'[j].claims[n] = c
  BY DEF Hands
<1>5. \A j \in Reconcilers \ {k} : Places(j)' = Places(j)
  BY DEF Places
<1>6. \A n \in Places(k) : pass'[k].claims[n] = pass[k].claims[n]
  BY <1>2 DEF Places
<1> HIDE DEF N
<1>7. ASSUME NEW c \in Hands' PROVE c \in Hands \cup {a}
  <2>1. PICK j \in Reconcilers : \E n \in Places(j)' : pass'[j].claims[n] = c
    BY <1>4
  <2>2. PICK n \in Places(j)' : pass'[j].claims[n] = c
    BY <2>1
  <2>3. CASE j = k
    BY <1>2, <1>3, <1>6, <2>2, <2>3, HandIs
  <2>4. CASE j # k
    BY <1>5, <2>2, <2>4, HandIs
  <2> QED BY <2>3, <2>4
<1>8. ASSUME NEW c \in Hands PROVE c \in Hands'
  <2>1. PICK j \in Reconcilers : \E n \in Places(j) : pass[j].claims[n] = c
    BY HandIs
  <2>2. PICK n \in Places(j) : pass[j].claims[n] = c
    BY <2>1
  <2>3. n \in Places(j)' /\ pass'[j].claims[n] = c
    BY <1>3, <1>5, <1>6, <2>2
  <2> QED BY <1>4, <2>3
<1>9. a \in Hands'
  BY <1>2, <1>3, <1>4
<1> QED BY <1>7, <1>8, <1>9

\* The first claim of pass k is put down.
LEMMA HandLeft ==
  ASSUME RollInv, NEW k \in Reconcilers, pass[k].claims # <<>>, NextClaim(k)
  PROVE  Hands' = Hands \ {Claim(k)} /\ Claim(k) \in Hands
<1>1. /\ pass[k].claims \in Seq(ClaimSet) /\ Len(pass[k].claims) \in Nat
      /\ pass[k] \in PassSet /\ pass \in [Reconcilers -> PassSet]
  BY RollTyped DEF RollInv, RollFacts, RollTypes
<1> DEFINE s == pass[k].claims
<1> DEFINE t == Tail(s)
<1>2. /\ Len(t) = Len(s) - 1 /\ \A n \in 1..Len(t) : t[n] = s[n + 1]
      /\ Head(s) = s[1] /\ Len(s) > 0
  BY <1>1, HeadTailProperties, EmptySeq
<1>3. pass'[k].claims = t /\ \A j \in Reconcilers \ {k} : pass'[j].claims = pass[j].claims
  BY <1>1 DEF NextClaim, Rest, PassSet
<1> HIDE DEF t
<1>4. 1 \in Places(k) /\ s[1] = Claim(k) /\ Places(k)' = 1..Len(t)
  BY <1>1, <1>2, <1>3 DEF Places, Claim
<1>5. Claim(k) \in Hands
  BY <1>4, HandIs
<1>6. ASSUME NEW j \in Reconcilers, NEW n \in Places(j), j # k \/ n # 1 PROVE pass[j].claims[n] # Claim(k)
  BY <1>4, <1>6, HandsApart
<1>7. \A j \in Reconcilers \ {k} : Places(j)' = Places(j)
  BY <1>3 DEF Places
<1>8. ASSUME NEW c \in Hands' PROVE c \in Hands \ {Claim(k)}
  <2>1. PICK j \in Reconcilers : c \in {pass'[j].claims[n] : n \in Places(j)'}
    BY <1>8 DEF Hands
  <2>2. PICK n \in Places(j)' : c = pass'[j].claims[n]
    BY <2>1
  <2>3. CASE j = k
    <3>1. n \in 1..Len(t) /\ c = s[n + 1]
      BY <1>2, <1>3, <1>4, <2>2, <2>3
    <3>2. n + 1 \in Places(k) /\ n + 1 # 1
      BY <1>1, <1>2, <3>1 DEF Places
    <3> QED BY <1>6, <3>1, <3>2, HandIs
  <2>4. CASE j # k
    BY <1>3, <1>6, <1>7, <2>2, <2>4, HandIs
  <2> QED BY <2>3, <2>4
<1>9. ASSUME NEW c \in Hands, c # Claim(k) PROVE c \in Hands'
  <2>1. PICK j \in Reconcilers : c \in {pass[j].claims[n] : n \in Places(j)}
    BY <1>9 DEF Hands
  <2>2. PICK n \in Places(j) : c = pass[j].claims[n]
    BY <2>1
  <2>3. CASE j = k
    <3>1. n # 1 /\ n \in 1..Len(s)
      BY <1>4, <1>9, <2>2, <2>3 DEF Places
    <3>2. n - 1 \in 1..Len(t)
      BY <1>1, <1>2, <3>1
    <3>3. t[n - 1] = s[(n - 1) + 1] /\ (n - 1) + 1 = n
      BY <1>1, <1>2, <3>1, <3>2
    <3>4. n - 1 \in Places(k)' /\ c = pass'[k].claims[n - 1]
      BY <1>3, <1>4, <2>2, <2>3, <3>2, <3>3
    <3> QED BY <3>4 DEF Hands
  <2>4. CASE j # k
    <3>1. n \in Places(j)' /\ c = pass'[j].claims[n]
      BY <1>3, <1>7, <2>2, <2>4
    <3> QED BY <3>1 DEF Hands
  <2> QED BY <2>3, <2>4
<1> QED BY <1>5, <1>8, <1>9

\* A claim takes its share from the lot and has what the lot carried before.
LEMMA CarryTaken ==
  ASSUME CarryInv, RollInv', NEW k \in Reconcilers, FireClaim(k), ExitOf(NextRow(k)).st = "FILLED"
  PROVE  CarryInv'
<1>0. RollInv /\ RollFacts /\ RollTypes
  BY RollTyped DEF CarryInv, RollInv
<1>a. PICK i \in Roll : i = NextRow(k)
  BY <1>0, NextRowIs
<1>b. PICK l \in Lot : l = row[i].lot
  BY <1>0, <1>a, NextRowIs
<1>c. PICK s \in Int : s = Share(l, ExitOf(i).filled)
  BY <1>0, <1>a, <1>b, NextRowIs
<1>1. row[i].st = "PENDING" /\ Untouched(far[i]) /\ row[i].lot = l
  BY <1>0, <1>a, <1>b, NextRowIs
<1>3. near \in [Lot -> [open : Nat, carried : Int]] /\ near[l].carried \in Int
  BY <1>0 DEF RollTypes
<1>6. PICK a \in ClaimSet : a = [roll |-> i, share |-> s, prior |-> near[l].carried, reduced |-> s # 0]
  <2>1. [roll |-> i, share |-> s, prior |-> near[l].carried, reduced |-> s # 0] \in ClaimSet
    BY <1>3 DEF ClaimSet
  <2> QED BY <2>1
<1>2. /\ row' = ClaimRow(i, ExitOf(i)) /\ near' = [near EXCEPT ![l].carried = @ - s]
      /\ mixed' = (IF ClaimsOf(l) # {} THEN mixed \cup {l} ELSE mixed)
      /\ pass' = [pass EXCEPT ![k].rows = @ \ {i}, ![k].claims = Append(@, a)]
      /\ UNCHANGED <<far, crashes>>
  BY <1>a, <1>b, <1>c, <1>6 DEF FireClaim, NextRow, ExitOf
<1>4. near'[l].carried = near[l].carried - s /\ \A m \in Lot \ {l} : near'[m].carried = near[m].carried
  BY <1>2, <1>3
<1>5. /\ row'[i].st = "FIRING" /\ \A j \in Roll : row'[j].lot = row[j].lot
      /\ \A j \in Roll \ {i} : row'[j] = row[j]
  <2>1. row \in [Roll -> [st : Statuses, lot : Lot, exit : Nat, qty : Nat]]
    BY <1>0 DEF RollTypes
  <2> QED BY <1>1, <1>2, <2>1 DEF ClaimRow
<1>15. a.roll = i /\ a.share = s /\ a.prior = near[l].carried /\ a.reduced = (s # 0)
  BY <1>6
<1>7. /\ pass'[k].claims = Append(pass[k].claims, a)
      /\ \A j \in Reconcilers \ {k} : pass'[j].claims = pass[j].claims
  <2>1. pass \in [Reconcilers -> PassSet] /\ pass[k] \in PassSet
    BY <1>0 DEF RollTypes
  <2> QED BY <1>2, <2>1 DEF PassSet
<1>8. Hands' = Hands \cup {a}
  BY <1>0, <1>7, HandTaken
<1>9. \A c \in Hands : c.roll \in Roll /\ c.roll # i
  <2> SUFFICES ASSUME NEW c \in Hands PROVE c.roll \in Roll /\ c.roll # i
    OBVIOUS
  <2>1. PICK j \in Reconcilers, n \in Int : n \in Places(j) /\ pass[j].claims[n] = c
    BY HandIs DEF Places
  <2>2. RollAt(j, n) = c.roll /\ row[RollAt(j, n)].st # "PENDING" /\ RollAt(j, n) \in Roll
    BY <1>0, <2>1, InHandIsClaimed DEF RollAt
  <2> QED BY <1>1, <2>2
<1>10. /\ HandsOf(l)' = HandsOf(l) \cup {a}
       /\ \A m \in Lot \ {l} : HandsOf(m)' = HandsOf(m)
  <2>1. row'[a.roll].lot = l
    BY <1>1, <1>5, <1>15
  <2>2. \A c \in Hands : row'[c.roll].lot = row[c.roll].lot
    BY <1>5, <1>9
  <2>3. \A m : HandsOf(m)' = {c \in Hands \cup {a} : row'[c.roll].lot = m}
    BY <1>8 DEF HandsOf
  <2>4. \A m : HandsOf(m) = {c \in Hands : row'[c.roll].lot = m}
    BY <2>2 DEF HandsOf
  <2>5. HandsOf(l)' = {c \in Hands \cup {a} : row'[c.roll].lot = l}
        /\ HandsOf(l) = {c \in Hands : row'[c.roll].lot = l}
    BY <2>3, <2>4
  <2>6. HandsOf(l)' = HandsOf(l) \cup {a}
    BY <2>1, <2>5
  <2>7. ASSUME NEW m \in Lot \ {l} PROVE HandsOf(m)' = HandsOf(m)
    <3>1. HandsOf(m)' = {c \in Hands \cup {a} : row'[c.roll].lot = m}
          /\ HandsOf(m) = {c \in Hands : row'[c.roll].lot = m} /\ m # l
      BY <2>3, <2>4
    <3> QED BY <2>1, <3>1
  <2> QED BY <2>6, <2>7
<1>11. \A m \in Lot : FarSum(m)' = FarSum(m)
  <2> SUFFICES ASSUME NEW m \in Lot PROVE FarSum(m)' = FarSum(m)
    OBVIOUS
  <2>1. \A j \in Roll : FarCarry(m)'[j] = FarCarry(m)[j]
    BY <1>2, <1>5 DEF FarCarry
  <2>2. SumFunctionOnSet(FarCarry(m)', Roll) = SumFunctionOnSet(FarCarry(m), Roll)
    BY <1>0, <2>1, FarSumTyped, SumSame
  <2> QED BY <2>2 DEF FarSum
<1>12. l \notin mixed' => HandsOf(l) = {} /\ l \notin mixed
  <2> SUFFICES ASSUME l \notin mixed', HandsOf(l) # {} PROVE FALSE
    BY <1>2
  <2>1. PICK c \in HandsOf(l) : TRUE
    OBVIOUS
  <2>2. c \in Hands /\ row[c.roll].lot = l
    BY <2>1 DEF HandsOf
  <2>3. PICK j \in Reconcilers, n \in Int : n \in Places(j) /\ pass[j].claims[n] = c
    BY <2>2, HandIs DEF Places
  <2>4. <<j, n>> \in ClaimsOf(l)
    BY <2>2, <2>3 DEF ClaimsOf, Claims, InHand, Places
  <2> QED BY <1>2, <2>4
<1>13. ASSUME crashes = 0, NEW m \in Lot, m \notin mixed' PROVE CarryEven(m)'
  <2>1. CarryEven(m) /\ Carry[m] \in Nat /\ FarSum(m) \in Int
    BY <1>0, <1>2, <1>13, FarSumTyped, RolloverAssumption DEF CarryInv
  <2>2. CASE m = l
    <3>1. HandsOf(l)' = {a} /\ near[l].carried + FarSum(l) = Carry[l]
      BY <1>10, <1>12, <1>13, <2>1, <2>2 DEF CarryEven, Even
    <3>2. near'[l].carried + a.share = a.prior
      BY <1>3, <1>4, <1>15
    <3>3. Even(near'[l].carried, {a}, FarSum(l), Carry[l])
      BY <1>3, <1>4, <1>15, <3>1, <3>2 DEF Even
    <3>4. HandsOf(m)' = {a} /\ FarSum(m)' = FarSum(l) /\ Carry[m] = Carry[l] /\ near'[m] = near'[l]
      BY <1>11, <2>2, <3>1
    <3> QED BY <3>3, <3>4 DEF CarryEven, Even
  <2>3. CASE m # l
    BY <1>4, <1>10, <1>11, <2>1, <2>3 DEF CarryEven, Even
  <2> QED BY <2>2, <2>3
<1>14. FiringInHand => FiringInHand'
  BY <1>5, <1>8, <1>15 DEF FiringInHand
<1> QED BY <1>0, <1>2, <1>13, <1>14 DEF CarryInv

\* A claim put down went to the far lot or back to the near one.
LEMMA CarryLeft ==
  ASSUME CarryInv, RollInv', NEW k \in Reconcilers, FarTag(k) \/ FarRestore(k)
  PROVE  CarryInv'
<1>0. RollInv /\ RollFacts /\ RollTypes
  BY RollTyped DEF CarryInv, RollInv
<1>1. /\ pass[k].pc \in {"tagging", "restoring"} /\ NextClaim(k) /\ UNCHANGED <<row, crashes, mixed>>
      /\ FarTag(k) => UNCHANGED near /\ far' = [far EXCEPT ![RollOf(k)].carried = Claim(k).share]
      /\ FarRestore(k) => UNCHANGED far /\ near' = [near EXCEPT ![row[RollOf(k)].lot].carried = Restored(k, @)]
  BY DEF FarTag, FarRestore
<1>2. PassSound(k) /\ pass[k].claims \in Seq(ClaimSet) /\ Len(pass[k].claims) \in Nat
  BY <1>0 DEF RollInv, RollFacts
<1>3. Len(pass[k].claims) > 0 /\ pass[k].claims # <<>>
  BY <1>1, <1>2, EmptySeq DEF PassSound
<1>4. Head(pass[k].claims) = pass[k].claims[1]
  BY <1>2, <1>3, HeadTailProperties
<1>5. PICK a \in ClaimSet : a = Claim(k) /\ a = pass[k].claims[1]
  BY <1>2, <1>3, <1>4, ElementOfSeq DEF Claim
<1>6. PICK i \in Roll : i = RollOf(k) /\ i = a.roll /\ i = RollAt(k, 1)
  BY <1>5 DEF ClaimSet, RollOf, RollAt
<1>7. PICK l \in Lot : l = row[i].lot
  BY <1>0 DEF RollFacts
<1>8. 1 \in Places(k)
  BY <1>2, <1>3 DEF Places
<1>9. row[i].st \in {"DONE", "FAILED", "UNRESOLVED"} /\ far[i].carried = 0
  <2>1. ~OpenAt(pass[k], 1)
    BY <1>1 DEF OpenAt
  <2> QED BY <1>2, <1>6, <1>8, <2>1 DEF PassSound, ClaimSound
<1>10. Hands' = Hands \ {a} /\ a \in Hands
  BY <1>0, <1>1, <1>3, <1>5, HandLeft
<1>11. /\ HandsOf(l)' = HandsOf(l) \ {a} /\ a \in HandsOf(l)
       /\ \A m \in Lot \ {l} : HandsOf(m)' = HandsOf(m)
  <2>1. \A m : HandsOf(m)' = {c \in Hands \ {a} : row[c.roll].lot = m}
    BY <1>1, <1>10 DEF HandsOf
  <2>2. HandsOf(l)' = {c \in Hands \ {a} : row[c.roll].lot = l}
    BY <2>1
  <2>3. HandsOf(l)' = HandsOf(l) \ {a} /\ a \in HandsOf(l)
    BY <1>6, <1>7, <1>10, <2>2 DEF HandsOf
  <2>4. ASSUME NEW m \in Lot \ {l} PROVE HandsOf(m)' = HandsOf(m)
    <3>1. HandsOf(m)' = {c \in Hands \ {a} : row[c.roll].lot = m}
          /\ HandsOf(m) = {c \in Hands : row[c.roll].lot = m} /\ m # l
      BY <2>1 DEF HandsOf
    <3> QED BY <1>6, <1>7, <3>1
  <2> QED BY <2>3, <2>4
<1>12. FiringInHand => FiringInHand'
  BY <1>1, <1>6, <1>9, <1>10 DEF FiringInHand
<1>13. /\ near \in [Lot -> [open : Nat, carried : Int]] /\ near[l].carried \in Int
       /\ far \in [Roll -> [sent : Nat, live : BOOLEAN, qty : Nat, carried : Int]]
       /\ a.share \in Int /\ a.prior \in Int
  BY <1>0 DEF RollTypes, ClaimSet
<1>14. ASSUME NEW m \in Lot, m # l PROVE near'[m] = near[m] /\ FarSum(m)' = FarSum(m)
  <2>1. near'[m] = near[m]
    BY <1>1, <1>6, <1>7, <1>13, <1>14
  <2>2. \A j \in Roll : FarCarry(m)'[j] = FarCarry(m)[j]
    BY <1>1, <1>6, <1>7, <1>13, <1>14 DEF FarCarry
  <2>3. SumFunctionOnSet(FarCarry(m)', Roll) = SumFunctionOnSet(FarCarry(m), Roll)
    BY <1>0, <2>2, FarSumTyped, SumSame
  <2> QED BY <2>1, <2>3 DEF FarSum
<1>15. ASSUME NEW m \in Lot, crashes = 0, m \notin mixed PROVE CarryEven(m)'
  <2>1. CarryEven(m) /\ Carry[m] \in Nat /\ FarSum(m) \in Int
    BY <1>0, <1>15, FarSumTyped, RolloverAssumption DEF CarryInv
  <2>2. CASE m # l
    BY <1>11, <1>14, <2>1, <2>2 DEF CarryEven, Even
  <2>3. CASE m = l
    <3>1. /\ HandsOf(l) = {a} /\ a.prior = near[l].carried + a.share /\ a.reduced = (a.share # 0)
          /\ a.prior + FarSum(l) = Carry[l]
      BY <1>11, <2>1, <2>3 DEF CarryEven, Even
    <3>2. HandsOf(l)' = {}
      BY <1>11, <3>1
    <3>3. near'[l].carried + FarSum(l)' = Carry[l]
      <4>1. CASE FarTag(k)
        <5>1. near' = near /\ far'[i].carried = a.share /\ \A j \in Roll \ {i} : far'[j] = far[j]
          BY <1>1, <1>5, <1>6, <1>13, <4>1
        <5>2. FarCarry(l)[i] = 0 /\ FarCarry(l)'[i] = a.share
          BY <1>1, <1>7, <1>9, <5>1 DEF FarCarry
        <5>3. \A j \in Roll \ {i} : FarCarry(l)'[j] = FarCarry(l)[j]
          BY <1>1, <5>1 DEF FarCarry
        <5>4. \A j \in Roll : FarCarry(l)[j] \in Int /\ FarCarry(l)'[j] \in Int
          BY <1>0, <1>13, <5>2, <5>3, FarSumTyped
        <5>5. SumFunctionOnSet(FarCarry(l)', Roll) =
                SumFunctionOnSet(FarCarry(l), Roll) - FarCarry(l)[i] + FarCarry(l)'[i]
          BY <1>0, <5>3, <5>4, FarSumTyped, SumChange
        <5>6. FarSum(l)' = FarSum(l) + a.share
          BY <2>1, <2>3, <5>2, <5>5, <1>13 DEF FarSum
        <5> QED BY <1>13, <2>1, <2>3, <3>1, <5>1, <5>6
      <4>2. CASE FarRestore(k)
        <5>1. near'[l].carried = IF a.reduced THEN a.prior ELSE near[l].carried
          BY <1>1, <1>5, <1>6, <1>7, <1>13, <4>2 DEF Restored
        <5>2. near'[l].carried = a.prior
          <6>1. CASE a.share # 0
            <7>1. a.reduced
              BY <3>1, <6>1, Zenon
            <7> QED BY <5>1, <7>1
          <6>2. CASE a.share = 0
            <7>1. a.prior = near[l].carried
              BY <1>13, <3>1, <6>2
            <7> QED BY <5>1, <7>1
          <6> QED BY <6>1, <6>2
        <5>3. FarCarry(l)' = FarCarry(l)
          BY <1>1, <4>2 DEF FarCarry
        <5>4. FarSum(l)' = FarSum(l)
          BY <5>3 DEF FarSum
        <5> QED BY <3>1, <5>2, <5>4
      <4> QED BY <4>1, <4>2
    <3> QED BY <2>3, <3>2, <3>3 DEF CarryEven, Even
  <2> QED BY <2>2, <2>3
<1> QED BY <1>0, <1>1, <1>12, <1>15 DEF CarryInv

\* Every step keeps it; a death is excepted by what is wanted.
LEMMA CarryStep == CarryInv /\ [RollNext]_allVars => CarryInv'
<1> SUFFICES ASSUME CarryInv, [RollNext]_allVars PROVE CarryInv'
  OBVIOUS
<1>0. RollInv /\ RollInv' /\ RollFacts /\ RollTypes
  BY RollStep, RollTyped DEF CarryInv, RollInv
<1>1. ASSUME UNCHANGED <<near, row, pass, far, crashes, mixed>> PROVE CarryInv'
  BY <1>0, <1>1, CarryStays
<1>a. /\ near \in [Lot -> [open : Nat, carried : Int]]
      /\ row \in [Roll -> [st : Statuses, lot : Lot, exit : Nat, qty : Nat]]
      /\ pass \in [Reconcilers -> PassSet]
  BY <1>0 DEF RollTypes
\* a write of the status of one row, other than FIRING
<1>b. ASSUME NEW i \in Roll, NEW st, st # "FIRING", row' \in {row, [row EXCEPT ![i].st = st]}
      PROVE  \A j \in Roll : row'[j].lot = row[j].lot /\ (row'[j].st = "FIRING" => row[j].st = "FIRING")
  <2>1. CASE row' = row
    BY <2>1
  <2>2. CASE row' = [row EXCEPT ![i].st = st]
    BY <1>a, <1>b, <2>2
  <2> QED BY <1>b, <2>1, <2>2
\* a write of where one pass is
<1>c. ASSUME NEW k \in Reconcilers, NEW pc, pass' = [pass EXCEPT ![k].pc = pc]
      PROVE  \A j \in Reconcilers : pass'[j].claims = pass[j].claims
  BY <1>a, <1>c DEF PassSet
<1>2. CASE \/ \E i \in Roll, q \in 1..2 : RollAsk(i, q)
           \/ \E l \in Lot, q \in 1..2 : ManualExit(l, q)
           \/ Clock \/ UNCHANGED allVars
  BY <1>1, <1>2 DEF RollAsk, ManualExit, Clock, allVars, rollVars
<1>3. ASSUME NEW e \in 1..Len(nearExits),
             \/ \E how \in {"ok", "refused", "lost"} : ExitAnswer(e, how)
             \/ \E f \in 0..nearExits[e].qty : ExitTrades(e, f)
             \/ \E by \in {"user", "sibling"} : CancelAsk(e, by)
             \/ CancelMark(e) \/ CancelUnsent(e)
      PROVE  CarryInv'
  BY <1>1, <1>3 DEF ExitAnswer, ExitTrades, CancelAsk, CancelMark, CancelUnsent
<1>4. ASSUME NEW e \in 1..Len(nearExits), NEW f \in 0..nearExits[e].qty, ReconcileExit(e, f)
      PROVE  CarryInv'
  <2>1. UNCHANGED <<row, pass, far, crashes, mixed>>
    BY <1>4 DEF ReconcileExit
  <2>2. near' = near \/ near' = [near EXCEPT ![nearExits[e].lot].open = @ - Closable(nearExits[e], f)]
    BY <1>4 DEF ReconcileExit
  <2>3. \A l \in Lot : near'[l].carried = near[l].carried
    <3>1. CASE near' = near
      BY <3>1
    <3>2. CASE near' # near
      <4>1. PICK n : near' = [near EXCEPT ![nearExits[e].lot].open = n]
        BY <2>2, <3>2
      <4> QED BY <1>a, <4>1
    <3> QED BY <3>1, <3>2
  <2> QED BY <1>0, <2>1, <2>3, CarryStays
<1>5. ASSUME NEW i \in Roll, RollNote(i) PROVE CarryInv'
  <2>1. row[i].st = "none"
    BY <1>0, <1>5 DEF RollNote, RollInv, Named
  <2>2. /\ UNCHANGED <<near, pass, far, crashes, mixed>> /\ row'[i].st = "PENDING"
        /\ \A j \in Roll \ {i} : row'[j] = row[j]
    BY <1>0, <1>5 DEF RollNote, RollTypes
  <2> QED BY <1>0, <2>1, <2>2, CarryStays
<1>6. ASSUME NEW k \in Reconcilers, FireBegin(k) \/ FireGo(k) PROVE CarryInv'
  <2>1. UNCHANGED <<near, row, far, crashes, mixed>>
    BY <1>6 DEF FireBegin, FireGo
  <2>2. \A j \in Reconcilers : pass'[j].claims = pass[j].claims
    <3>1. CASE FireBegin(k)
      BY <1>a, <3>1 DEF FireBegin, IdlePass
    <3>2. CASE FireGo(k)
      BY <1>c, <3>2 DEF FireGo
    <3> QED BY <1>6, <3>1, <3>2
  <2> QED BY <1>0, <2>1, <2>2, CarryStays
<1>7. ASSUME NEW k \in Reconcilers, FireClaim(k) PROVE CarryInv'
  <2>1. CASE ExitOf(NextRow(k)).st = "FILLED"
    BY <1>0, <1>7, <2>1, CarryTaken
  <2>2. CASE ExitOf(NextRow(k)).st # "FILLED"
    <3>1. PICK i \in Roll : i = NextRow(k)
      BY <1>0, <1>7, NextRowIs
    <3>2. /\ row' \in {row, [row EXCEPT ![i].st = "FAILED"]} /\ UNCHANGED <<near, far, crashes, mixed>>
          /\ pass' = [pass EXCEPT ![k].rows = @ \ {i}]
      BY <1>7, <2>2, <3>1 DEF FireClaim, NextRow, ExitOf
    <3>3. \A j \in Reconcilers : pass'[j].claims = pass[j].claims
      BY <1>a, <3>2 DEF PassSet
    <3>4. \A j \in Roll : row'[j].lot = row[j].lot /\ (row'[j].st = "FIRING" => row[j].st = "FIRING")
      BY <1>b, <3>2
    <3> QED BY <1>0, <3>2, <3>3, <3>4, CarryStays
  <2> QED BY <2>1, <2>2
<1>8. ASSUME NEW k \in Reconcilers, FarPlace(k) PROVE CarryInv'
  <2>1. UNCHANGED <<near, far, crashes, mixed>>
    BY <1>8 DEF FarPlace
  <2>2. /\ row' \in {row, [row EXCEPT ![RollOf(k)].st = "UNRESOLVED"]}
        /\ pass' \in {[pass EXCEPT ![k].pc = "placing"], [pass EXCEPT ![k].pc = "restoring"]}
    BY <1>8 DEF FarPlace, Finalize
  <2>3. \A j \in Reconcilers : pass'[j].claims = pass[j].claims
    BY <1>c, <2>2
  <2>4. \A j \in Roll : row'[j].lot = row[j].lot /\ (row'[j].st = "FIRING" => row[j].st = "FIRING")
    <3>1. RollOf(k) \in Roll \/ row' = row
      <4>1. pass[k].pc = "firing" /\ PassSound(k) /\ pass[k].claims \in Seq(ClaimSet) /\ Len(pass[k].claims) \in Nat
        BY <1>0, <1>8 DEF FarPlace, RollInv, RollFacts
      <4>2. Len(pass[k].claims) > 0 /\ pass[k].claims # <<>>
        BY <4>1, EmptySeq DEF PassSound
      <4>3. Head(pass[k].claims) \in ClaimSet
        BY <4>1, <4>2, HeadTailProperties
      <4> QED BY <4>3 DEF RollOf, Claim, ClaimSet
    <3>2. CASE row' = row
      BY <3>2
    <3>3. CASE row' # row
      BY <1>b, <2>2, <3>1, <3>3
    <3> QED BY <3>2, <3>3
  <2> QED BY <1>0, <2>1, <2>3, <2>4, CarryStays
<1>9. ASSUME NEW k \in Reconcilers, NEW verdict \in {"ok", "refused", "unheard"}, NEW live \in BOOLEAN,
             FarAnswer(k, verdict, live)
      PROVE  CarryInv'
  <2>1. PICK st \in {"DONE", "FAILED", "UNRESOLVED"}, pc \in {"tagging", "restoring"} : Finalize(k, st, pc)
    BY <1>9 DEF FarAnswer, StatusOf
  <2>2. UNCHANGED <<near, crashes, mixed>>
    BY <1>9 DEF FarAnswer
  <2>3. \A j \in Reconcilers : pass'[j].claims = pass[j].claims
    BY <1>0, <2>1 DEF RollTypes, PassSet, Finalize
  <2>4. \A j \in Roll : row'[j].lot = row[j].lot /\ (row'[j].st = "FIRING" => row[j].st = "FIRING")
    BY <1>0, <2>1 DEF RollTypes, Finalize
  <2>5. \A j \in Roll : far'[j].carried = far[j].carried
    BY <1>0, <1>9 DEF FarAnswer, RollTypes
  <2> QED BY <1>0, <2>2, <2>3, <2>4, <2>5, CarryStays
<1>10. ASSUME NEW k \in Reconcilers, FarTag(k) \/ FarRestore(k) PROVE CarryInv'
  BY <1>0, <1>10, CarryLeft
<1>11. CASE Crash
  <2>1. crashes' = crashes + 1 /\ crashes \in Nat
    BY <1>11 DEF Crash, CarryInv
  <2> QED BY <1>0, <2>1 DEF CarryInv
<1> QED BY <1>2, <1>3, <1>4, <1>5, <1>6, <1>7, <1>8, <1>9, <1>10, <1>11 DEF RollNext

\* Until a death, what a lot carried is on the lot, on its far lots or in one claim
\* that a pass has in hand, and no FIRING intent is forgotten.
THEOREM CarryIsKept == RollSpec => []CarryConserved
<1>1. RollInit => CarryInv
  BY CarryInitOK
<1>2. CarryInv /\ [RollNext]_allVars => CarryInv'
  BY CarryStep
<1>3. CarryInv => CarryConserved
  BY CarryInvConserves
<1> QED BY <1>1, <1>2, <1>3, PTL DEF RollSpec

-----------------------------------------------------------------------------
(***************************************************************************)
(* The reservations (ExecutionCoordinator): what one call of reserve()     *)
(* leaves in the tables, and from it the exclusion they give, for any      *)
(* number of accounts, contracts and callers and any TTLs.                 *)
(***************************************************************************)

\* what a caller reserved is still in the table while it is young
Held(w) ==
  Young(w) /\ ~overran =>
    /\ inflight[ContractOf[intent[w]]] # None
    /\ inflight[ContractOf[intent[w]]] >= since[w]

\* a submit() that is past its lock owns its account
Owns(w) == stage[w] # "idle" => lock[AccountOf[ContractOf[intent[w]]]] = w

CInv ==
  /\ CoordTypeOK
  /\ \A c \in Contract : inflight[c] # None => inflight[c] <= now
  /\ \A w \in Caller : since[w] <= now
  /\ \A w \in Caller : Held(w)
  /\ \A w \in Submitter : Owns(w)
  /\ OneInFlight

\* A stamp that is young is kept by pruning.
LEMMA PruneKeeps ==
  ASSUME NEW table, NEW k \in DOMAIN table, NEW ttl, Fresh(table[k], ttl)
  PROVE  Pruned(table, ttl)[k] = table[k]
BY DEF Pruned, Fresh

\* What reserve() leaves in both tables is again a table of stamps, and none
\* of them lies in the future.
LEMMA ReserveTyped ==
  ASSUME CoordTypeOK, NEW i \in Intent, Reserve(i),
         \A c \in Contract : inflight[c] # None => inflight[c] <= now
  PROVE  /\ recent' \in [Intent -> Time \cup {None}]
         /\ inflight' \in [Contract -> Time \cup {None}]
         /\ \A c \in Contract : inflight'[c] # None => inflight'[c] <= now
<1> USE CoordinatorAssumption DEF Time
<1>1. now \in Nat /\ now \in Time BY DEF CoordTypeOK
<1>2. Pruned(recent, DedupTTL) \in [Intent -> Time \cup {None}]
  BY DEF CoordTypeOK, Pruned
<1>3. /\ Pruned(inflight, InflightTTL) \in [Contract -> Time \cup {None}]
      /\ \A c \in Contract : Pruned(inflight, InflightTTL)[c] # None =>
           Pruned(inflight, InflightTTL)[c] <= now
  BY DEF CoordTypeOK, Pruned
<1>4. ContractOf[i] \in Contract OBVIOUS
<1>5. CASE Admits(i)
  <2>1. /\ recent' = [Pruned(recent, DedupTTL) EXCEPT ![i] = now]
        /\ inflight' = [Pruned(inflight, InflightTTL) EXCEPT ![ContractOf[i]] = now]
    BY <1>5 DEF Reserve
  <2> QED BY <2>1, <1>1, <1>2, <1>3, <1>4
<1>6. CASE ~Admits(i)
  <2>1. recent' = Pruned(recent, DedupTTL) /\ inflight' = Pruned(inflight, InflightTTL)
    BY <1>6 DEF Reserve
  <2> QED BY <2>1, <1>2, <1>3
<1> QED BY <1>5, <1>6

\* reserve() takes no reservation of a young caller away.
LEMMA ReserveKeeps ==
  ASSUME CInv, NEW i \in Intent, Reserve(i), NEW v \in Caller, Young(v), ~overran
  PROVE  /\ inflight'[ContractOf[intent[v]]] # None
         /\ inflight'[ContractOf[intent[v]]] >= since[v]
         /\ Admits(i) => ContractOf[intent[v]] # ContractOf[i]
<1> USE CoordinatorAssumption
<1> DEFINE c == ContractOf[intent[v]]
<1>1. /\ intent[v] \in Intent /\ c \in Contract /\ ContractOf[i] \in Contract
      /\ now \in Nat /\ since[v] \in Nat /\ since[v] <= now
      /\ inflight[c] # None /\ inflight[c] >= since[v] /\ inflight[c] \in Nat
      /\ DOMAIN inflight = Contract
  BY DEF CInv, CoordTypeOK, Held, Young, Placing, Time
<1> HIDE DEF c
<1>2. now - inflight[c] <= InflightTTL BY <1>1 DEF Young
<1>3. Fresh(inflight[c], InflightTTL) BY <1>1, <1>2 DEF Fresh
<1>4. Pruned(inflight, InflightTTL)[c] = inflight[c] BY <1>1, <1>3, PruneKeeps
<1>5. DOMAIN Pruned(inflight, InflightTTL) = Contract BY <1>1 DEF Pruned
<1>6. Admits(i) => c # ContractOf[i] BY <1>3 DEF Admits
<1>7. inflight'[c] = inflight[c]
  <2>1. CASE Admits(i)
    <3>1. inflight' = [Pruned(inflight, InflightTTL) EXCEPT ![ContractOf[i]] = now]
      BY <2>1 DEF Reserve
    <3> QED BY <3>1, <2>1, <1>1, <1>4, <1>5, <1>6
  <2>2. CASE ~Admits(i) BY <2>2, <1>4 DEF Reserve
  <2> QED BY <2>1, <2>2
<1> QED BY <1>1, <1>6, <1>7 DEF c

\* Young callers stay held when neither they nor their reservation change.
LEMMA ElsewhereKept ==
  ASSUME CInv, NEW i \in Intent, Reserve(i), UNCHANGED <<now, overran>>,
         NEW v \in Caller, stage'[v] = stage[v], intent'[v] = intent[v], since'[v] = since[v]
  PROVE  Held(v)'
<1>1. SUFFICES ASSUME Young(v)', ~overran'
               PROVE  /\ inflight'[ContractOf[intent'[v]]] # None
                      /\ inflight'[ContractOf[intent'[v]]] >= since'[v]
  BY DEF Held
<1>2. Young(v) /\ ~overran BY <1>1 DEF Young, Placing
<1> QED BY <1>2, ReserveKeeps

\* A caller that has just been admitted holds its contract, alone.
LEMMA AdmittedAlone ==
  ASSUME CInv, NEW w \in Caller, NEW i \in Intent, Reserve(i), Admits(i),
         Enter(w, i, "placing"), UNCHANGED <<now, overran>>
  PROVE  Held(w)' /\ OneInFlight'
<1> USE CoordinatorAssumption
<1>1. /\ stage' = [stage EXCEPT ![w] = "placing"] /\ intent' = [intent EXCEPT ![w] = i]
      /\ since' = [since EXCEPT ![w] = now]
  BY DEF Enter
<1>2. DOMAIN stage = Caller /\ DOMAIN intent = Caller /\ DOMAIN since = Caller
  BY DEF CInv, CoordTypeOK
<1>3. intent'[w] = i /\ since'[w] = now BY <1>1, <1>2
<1>4. \A v \in Caller : v # w =>
        stage'[v] = stage[v] /\ intent'[v] = intent[v] /\ since'[v] = since[v]
  BY <1>1, <1>2
<1>5. Held(w)'
  <2>1. inflight' = [Pruned(inflight, InflightTTL) EXCEPT ![ContractOf[i]] = now]
    BY DEF Reserve
  <2>2. ContractOf[i] \in DOMAIN Pruned(inflight, InflightTTL)
    BY DEF CInv, CoordTypeOK, Pruned
  <2>3. inflight'[ContractOf[i]] = now BY <2>1, <2>2
  <2>4. now \in Nat /\ now # None BY DEF CInv, CoordTypeOK, Time
  <2> QED BY <1>3, <2>3, <2>4 DEF Held
<1>6. OneInFlight'
  <2>1. SUFFICES ASSUME NEW u \in Caller, NEW v \in Caller, u # v,
                        Young(u)', Young(v)', ~overran'
                 PROVE  ContractOf[intent'[u]] # ContractOf[intent'[v]]
    BY DEF OneInFlight
  <2>2. ASSUME NEW x \in Caller, x # w, Young(x)'
        PROVE  Young(x) /\ ContractOf[intent'[x]] # ContractOf[i]
    <3>1. Young(x) /\ ~overran BY <1>4, <2>1, <2>2 DEF Young, Placing
    <3> QED BY <1>4, <2>2, <3>1, ReserveKeeps
  <2>3. CASE u = w BY <2>1, <2>2, <2>3, <1>3
  <2>4. CASE v = w BY <2>1, <2>2, <2>4, <1>3
  <2>5. CASE u # w /\ v # w
    BY <2>1, <2>2, <2>5, <1>4 DEF CInv, OneInFlight
  <2> QED BY <2>3, <2>4, <2>5
<1> QED BY <1>5, <1>6

\* Without an admission, OneInFlight can only be lost by a caller turning young.
LEMMA ExclusionKept ==
  ASSUME CInv, overran' = overran \/ overran',
         \A v \in Caller : Young(v)' => Young(v) /\ intent'[v] = intent[v]
  PROVE  OneInFlight'
<1>1. SUFFICES ASSUME NEW u \in Caller, NEW v \in Caller, u # v,
                      Young(u)', Young(v)', ~overran'
               PROVE  overran \/ ContractOf[intent'[u]] # ContractOf[intent'[v]]
  BY DEF OneInFlight
<1> QED BY <1>1 DEF CInv, OneInFlight

-----------------------------------------------------------------------------
\* The invariant holds at the start.
LEMMA CInvInit == CoordInit => CInv
<1> SUFFICES ASSUME CoordInit PROVE CInv OBVIOUS
<1>1. \A w \in Caller : stage[w] = "idle" BY DEF CoordInit
<1>5. \A w \in Caller : ~Young(w) BY <1>1 DEF Young, Placing
<1>6. 0 \in Time BY CoordinatorAssumption DEF Time
<1>2. CoordTypeOK BY <1>1, <1>6 DEF CoordInit, CoordTypeOK
<1>3. /\ \A c \in Contract : inflight[c] # None => inflight[c] <= now
      /\ \A w \in Caller : since[w] <= now
  BY DEF CoordInit
<1>4. \A w \in Submitter : Owns(w) BY <1>1 DEF Owns, Caller
<1> QED BY <1>5, <1>2, <1>3, <1>4 DEF CInv, Held, OneInFlight

LEMMA TickStep == CInv /\ Tick => CInv'
<1> SUFFICES ASSUME CInv, Tick PROVE CInv' OBVIOUS
<1> USE CoordinatorAssumption
<1>1. now \in Nat /\ now < MaxTime /\ now' = now + 1 /\ now' \in Nat
  BY DEF CInv, CoordTypeOK, Tick, Time
<1>2. UNCHANGED <<recent, inflight, lock, stage, intent, since, overran>>
  BY DEF Tick, tables, callers
<1>3. CoordTypeOK'
  <2>1. now' \in Time BY <1>1 DEF Time
  <2> QED BY <2>1, <1>2 DEF CInv, CoordTypeOK
<1>4. \A c \in Contract : inflight'[c] # None => inflight'[c] <= now'
  BY <1>1, <1>2 DEF CInv, CoordTypeOK, Time
<1>5. \A w \in Caller : since'[w] <= now' BY <1>1, <1>2 DEF CInv, CoordTypeOK, Time
<1>6. \A w \in Caller : Young(w)' => Young(w)
  BY <1>1, <1>2 DEF CInv, CoordTypeOK, Young, Placing, Time
<1>7. \A w \in Caller : Held(w)' BY <1>2, <1>6 DEF CInv, Held
<1>8. \A w \in Submitter : Owns(w)' BY <1>2 DEF CInv, Owns
<1>9. OneInFlight' BY <1>2, <1>6 DEF CInv, OneInFlight
<1> QED BY <1>3, <1>4, <1>5, <1>7, <1>8, <1>9 DEF CInv

LEMMA RouteReserveStep ==
  ASSUME CInv, NEW w \in Router, NEW i \in Intent, RouteReserve(w, i)
  PROVE  CInv'
<1> USE CoordinatorAssumption DEF Caller
<1>1. Reserve(i) /\ UNCHANGED <<now, lock, overran>> /\ stage[w] = "idle" /\ w \in Caller
  BY DEF RouteReserve
<1>2. CoordTypeOK BY DEF CInv
<1>3. /\ recent' \in [Intent -> Time \cup {None}]
      /\ inflight' \in [Contract -> Time \cup {None}]
      /\ \A c \in Contract : inflight'[c] # None => inflight'[c] <= now'
  BY <1>1, <1>2, ReserveTyped DEF CInv
<1>4. CASE Admits(i)
  <2>1. Enter(w, i, "placing") BY <1>4 DEF RouteReserve
  <2>2. CoordTypeOK'
    BY <1>1, <1>2, <1>3, <2>1 DEF CoordTypeOK, Enter, Time
  <2>3. \A v \in Caller : since'[v] <= now'
    BY <1>1, <1>2, <2>1 DEF CInv, CoordTypeOK, Enter, Time
  <2>4. Held(w)' /\ OneInFlight' BY <1>1, <1>4, <2>1, AdmittedAlone
  <2>5. \A v \in Caller : v # w => Held(v)'
    <3>1. \A v \in Caller : v # w =>
            stage'[v] = stage[v] /\ intent'[v] = intent[v] /\ since'[v] = since[v]
      BY <1>2, <2>1 DEF CoordTypeOK, Enter
    <3> QED BY <1>1, <3>1, ElsewhereKept
  <2>6. \A v \in Submitter : Owns(v)'
    <3>1. \A v \in Submitter : v # w BY DEF Caller
    <3> QED BY <1>1, <1>2, <2>1, <3>1 DEF CInv, CoordTypeOK, Owns, Enter
  <2> QED BY <1>3, <2>2, <2>3, <2>4, <2>5, <2>6 DEF CInv
<1>5. CASE ~Admits(i)
  <2>1. UNCHANGED <<stage, intent, since>> BY <1>5 DEF RouteReserve, callers
  <2>2. CoordTypeOK' BY <1>1, <1>2, <1>3, <2>1 DEF CoordTypeOK
  <2>3. \A v \in Caller : Held(v)' BY <1>1, <2>1, ElsewhereKept
  <2>4. OneInFlight' BY <1>1, <2>1, ExclusionKept DEF Young, Placing
  <2>5. /\ \A v \in Submitter : Owns(v)'
        /\ \A v \in Caller : since'[v] <= now'
    BY <1>1, <2>1 DEF CInv, Owns
  <2> QED BY <1>3, <2>2, <2>3, <2>4, <2>5 DEF CInv
<1> QED BY <1>4, <1>5

LEMMA RouteReturnStep ==
  ASSUME CInv, NEW w \in Router, RouteReturn(w)
  PROVE  CInv'
<1> USE CoordinatorAssumption DEF Caller
<1>1. /\ stage' = [stage EXCEPT ![w] = "idle"] /\ intent' = [intent EXCEPT ![w] = None]
      /\ since' = [since EXCEPT ![w] = 0]
      /\ UNCHANGED <<now, recent, inflight, lock, overran>>
  BY DEF RouteReturn, Leave, tables
<1>2. CoordTypeOK' BY <1>1 DEF CInv, CoordTypeOK, Time
<1>3. \A v \in Caller : Young(v)' => /\ v # w /\ Young(v) /\ intent'[v] = intent[v]
                                     /\ since'[v] = since[v]
  BY <1>1 DEF CInv, CoordTypeOK, Young, Placing
<1>4. \A v \in Caller : Held(v)' BY <1>1, <1>3 DEF CInv, Held
<1>5. OneInFlight' BY <1>1, <1>3, ExclusionKept
<1>6. \A v \in Submitter : Owns(v)' BY <1>1 DEF CInv, CoordTypeOK, Owns
<1>7. \A v \in Caller : since'[v] <= now' BY <1>1 DEF CInv, CoordTypeOK, Time
<1> QED BY <1>1, <1>2, <1>4, <1>5, <1>6, <1>7 DEF CInv

LEMMA SubmitLockStep ==
  ASSUME CInv, NEW w \in Submitter, NEW i \in Intent, SubmitLock(w, i)
  PROVE  CInv'
<1> USE CoordinatorAssumption DEF Caller
<1> DEFINE a == AccountOf[ContractOf[i]]
<1>1. /\ stage[w] = "idle" /\ lock[a] = None /\ lock' = [lock EXCEPT ![a] = w]
      /\ stage' = [stage EXCEPT ![w] = "locked"] /\ intent' = [intent EXCEPT ![w] = i]
      /\ since' = [since EXCEPT ![w] = now]
      /\ UNCHANGED <<now, recent, inflight, overran>>
  BY DEF SubmitLock, Enter, tables, AccountFree
<1>2. a \in Account OBVIOUS
<1> HIDE DEF a
<1>3. CoordTypeOK' BY <1>1, <1>2 DEF CInv, CoordTypeOK, Time
<1>4. \A v \in Caller : Young(v)' => /\ v # w /\ Young(v) /\ intent'[v] = intent[v]
                                     /\ since'[v] = since[v]
  BY <1>1 DEF CInv, CoordTypeOK, Young, Placing
<1>5. \A v \in Caller : Held(v)' BY <1>1, <1>4 DEF CInv, Held
<1>6. OneInFlight' BY <1>1, <1>4, ExclusionKept
<1>7. \A v \in Submitter : Owns(v)'
  <2>1. Owns(w)' BY <1>1, <1>2 DEF CInv, CoordTypeOK, Owns, a
  <2>2. ASSUME NEW v \in Submitter, v # w, stage[v] # "idle"
        PROVE  lock'[AccountOf[ContractOf[intent[v]]]] = v
    <3>1. lock[AccountOf[ContractOf[intent[v]]]] = v BY <2>2 DEF CInv, Owns
    <3>2. v # None OBVIOUS
    <3> QED BY <1>1, <3>1, <3>2
  <2> QED BY <1>1, <2>1, <2>2 DEF CInv, CoordTypeOK, Owns
<1>8. \A v \in Caller : since'[v] <= now' BY <1>1 DEF CInv, CoordTypeOK, Time
<1> QED BY <1>1, <1>3, <1>5, <1>6, <1>7, <1>8 DEF CInv

\* A submit() that gives its account back leaves those of the others alone.
LEMMA OwnersKept ==
  ASSUME CInv, NEW w \in Submitter, stage[w] # "idle",
         lock' = [lock EXCEPT ![AccountOf[ContractOf[intent[w]]]] = None],
         stage' = [stage EXCEPT ![w] = "idle"], intent' = [intent EXCEPT ![w] = None]
  PROVE  \A v \in Submitter : Owns(v)'
<1> USE CoordinatorAssumption DEF Caller
<1>1. lock[AccountOf[ContractOf[intent[w]]]] = w BY DEF CInv, Owns
<1>2. ASSUME NEW v \in Submitter, v # w, stage[v] # "idle"
      PROVE  lock'[AccountOf[ContractOf[intent[v]]]] = v
  <2>1. lock[AccountOf[ContractOf[intent[v]]]] = v BY <1>2 DEF CInv, Owns
  <2> QED BY <1>1, <1>2, <2>1
<1> QED BY <1>2 DEF CInv, CoordTypeOK, Owns

LEMMA SubmitReserveStep ==
  ASSUME CInv, NEW w \in Submitter, SubmitReserve(w)
  PROVE  CInv'
<1> USE CoordinatorAssumption DEF Caller
<1>1. PICK i \in Intent : i = intent[w] BY DEF CInv, CoordTypeOK, SubmitReserve
<1>2. Reserve(i) /\ UNCHANGED <<now, overran>> /\ stage[w] = "locked" /\ w \in Caller
  BY <1>1 DEF SubmitReserve
<1>3. CoordTypeOK BY DEF CInv
<1>4. /\ recent' \in [Intent -> Time \cup {None}]
      /\ inflight' \in [Contract -> Time \cup {None}]
      /\ \A c \in Contract : inflight'[c] # None => inflight'[c] <= now'
  BY <1>2, <1>3, ReserveTyped DEF CInv
<1>5. CASE Admits(i)
  <2>1. Enter(w, i, "placing") /\ UNCHANGED lock BY <1>1, <1>5 DEF SubmitReserve
  <2>2. CoordTypeOK' BY <1>2, <1>3, <1>4, <2>1 DEF CoordTypeOK, Enter, Time
  <2>3. \A v \in Caller : since'[v] <= now'
    BY <1>2, <1>3, <2>1 DEF CInv, CoordTypeOK, Enter, Time
  <2>4. Held(w)' /\ OneInFlight' BY <1>2, <1>5, <2>1, AdmittedAlone
  <2>5. \A v \in Caller : v # w => Held(v)'
    <3>1. \A v \in Caller : v # w =>
            stage'[v] = stage[v] /\ intent'[v] = intent[v] /\ since'[v] = since[v]
      BY <1>3, <2>1 DEF CoordTypeOK, Enter
    <3> QED BY <1>2, <3>1, ElsewhereKept
  <2>6. \A v \in Submitter : Owns(v)'
    <3>1. Owns(w)' BY <1>1, <1>2, <1>3, <2>1 DEF CInv, CoordTypeOK, Owns, Enter
    <3>2. \A v \in Submitter : v # w => Owns(v)'
      BY <1>3, <2>1 DEF CInv, CoordTypeOK, Owns, Enter
    <3> QED BY <3>1, <3>2
  <2> QED BY <1>4, <2>2, <2>3, <2>4, <2>5, <2>6 DEF CInv
<1>6. CASE ~Admits(i)
  <2>1. /\ stage' = [stage EXCEPT ![w] = "idle"] /\ intent' = [intent EXCEPT ![w] = None]
        /\ since' = [since EXCEPT ![w] = 0]
        /\ lock' = [lock EXCEPT ![AccountOf[ContractOf[intent[w]]]] = None]
    BY <1>1, <1>6 DEF SubmitReserve, Leave
  <2>2. CoordTypeOK' BY <1>2, <1>3, <1>4, <2>1 DEF CoordTypeOK, Time
  <2>3. \A v \in Caller : Young(v)' => /\ v # w /\ Young(v) /\ stage'[v] = stage[v]
                                       /\ intent'[v] = intent[v] /\ since'[v] = since[v]
    BY <1>2, <1>3, <2>1 DEF CoordTypeOK, Young, Placing
  <2>4. \A v \in Caller : Held(v)'
    <3>1. \A v \in Caller : Young(v)' => Held(v)' BY <1>2, <2>3, ElsewhereKept
    <3> QED BY <3>1 DEF Held
  <2>5. OneInFlight' BY <1>2, <2>3, ExclusionKept
  <2>6. \A v \in Submitter : Owns(v)' BY <1>2, <2>1, OwnersKept
  <2>7. \A v \in Caller : since'[v] <= now' BY <1>2, <1>3, <2>1 DEF CInv, CoordTypeOK, Time
  <2> QED BY <1>4, <2>2, <2>4, <2>5, <2>6, <2>7 DEF CInv
<1> QED BY <1>5, <1>6

LEMMA SubmitReturnStep ==
  ASSUME CInv, NEW w \in Submitter, SubmitReturn(w)
  PROVE  CInv'
<1> USE CoordinatorAssumption DEF Caller
<1> DEFINE c == ContractOf[intent[w]]
<1>1. /\ stage[w] = "placing" /\ inflight' = [inflight EXCEPT ![c] = None]
      /\ stage' = [stage EXCEPT ![w] = "idle"] /\ intent' = [intent EXCEPT ![w] = None]
      /\ since' = [since EXCEPT ![w] = 0]
      /\ lock' = [lock EXCEPT ![AccountOf[ContractOf[intent[w]]]] = None]
      /\ overran' = (overran \/ now - since[w] > InflightTTL)
      /\ UNCHANGED <<now, recent>>
  BY DEF SubmitReturn, Release, Leave
<1>2. c \in Contract BY <1>1 DEF CInv, CoordTypeOK
<1>3. CoordTypeOK'
  <2>1. overran' \in BOOLEAN BY <1>1 DEF CInv, CoordTypeOK
  <2>2. inflight' \in [Contract -> Time \cup {None}] BY <1>1 DEF CInv, CoordTypeOK
  <2> QED BY <1>1, <2>1, <2>2 DEF CInv, CoordTypeOK, Time
<1>4. \A v \in Caller : Young(v)' => /\ v # w /\ Young(v) /\ intent'[v] = intent[v]
                                     /\ since'[v] = since[v]
  BY <1>1 DEF CInv, CoordTypeOK, Young, Placing
<1>5. ASSUME NEW v \in Caller, Young(v)', ~overran' PROVE inflight'[ContractOf[intent'[v]]] = inflight[ContractOf[intent[v]]]
  <2>1. Young(w) /\ ~overran /\ v # w /\ Young(v) /\ intent'[v] = intent[v]
    <3>1. ~(now - since[w] > InflightTTL) /\ ~overran BY <1>1, <1>5
    <3>2. now \in Int /\ since[w] \in Int /\ InflightTTL \in Int
      BY DEF CInv, CoordTypeOK, Time
    <3>3. now - since[w] <= InflightTTL BY <3>1, <3>2
    <3>4. Young(w) BY <1>1, <3>3 DEF Young, Placing
    <3> QED BY <1>4, <1>5, <3>1, <3>4
  <2>2. ContractOf[intent[v]] # c BY <2>1 DEF CInv, OneInFlight
  <2> QED BY <1>1, <2>1, <2>2 DEF CInv, CoordTypeOK
<1>6. \A v \in Caller : Held(v)' BY <1>1, <1>4, <1>5 DEF CInv, Held
<1>7. OneInFlight'
  <2>1. SUFFICES ASSUME NEW u \in Caller, NEW v \in Caller, u # v,
                        Young(u)', Young(v)', ~overran'
                 PROVE  overran \/ ContractOf[intent'[u]] # ContractOf[intent'[v]]
    BY <1>1 DEF OneInFlight
  <2> QED BY <2>1, <1>4 DEF CInv, OneInFlight
<1>8. \A v \in Submitter : Owns(v)' BY <1>1, OwnersKept
<1>9. /\ \A v \in Caller : since'[v] <= now'
      /\ \A d \in Contract : inflight'[d] # None => inflight'[d] <= now'
  BY <1>1, <1>2 DEF CInv, CoordTypeOK, Time
<1> QED BY <1>3, <1>6, <1>7, <1>8, <1>9 DEF CInv

\* Every step of the coordinator keeps the invariant.
LEMMA CInvStep == CInv /\ [CoordNext]_coordVars => CInv'
<1> SUFFICES ASSUME CInv, [CoordNext]_coordVars PROVE CInv' OBVIOUS
<1>1. CASE Tick BY <1>1, TickStep
<1>2. ASSUME NEW w \in Router, RouteReturn(w) PROVE CInv' BY <1>2, RouteReturnStep
<1>3. ASSUME NEW w \in Router, NEW i \in Intent, RouteReserve(w, i) PROVE CInv'
  BY <1>3, RouteReserveStep
<1>4. ASSUME NEW w \in Submitter, SubmitReserve(w) PROVE CInv' BY <1>4, SubmitReserveStep
<1>5. ASSUME NEW w \in Submitter, SubmitReturn(w) PROVE CInv' BY <1>5, SubmitReturnStep
<1>6. ASSUME NEW w \in Submitter, NEW i \in Intent, SubmitLock(w, i) PROVE CInv'
  BY <1>6, SubmitLockStep
<1>7. CASE UNCHANGED coordVars
  BY <1>7 DEF coordVars, tables, callers, CInv, CoordTypeOK, Held, Owns, OneInFlight,
              Young, Placing
<1> QED BY <1>1, <1>2, <1>3, <1>4, <1>5, <1>6, <1>7 DEF CoordNext

-----------------------------------------------------------------------------
THEOREM CInvHolds == CoordSpec => []CInv
BY CInvInit, CInvStep, PTL DEF CoordSpec

\* Two young placements never share a contract, whatever the TTLs and however
\* many callers of either kind, while no submit() has outlived its reservation.
THEOREM ReservationExcludes == CoordSpec => []OneInFlight
<1>1. CInv => OneInFlight BY DEF CInv
<1> QED BY <1>1, CInvHolds, PTL

\* submit() has at most one placement per account at the broker.
THEOREM SubmitSerialises == CoordSpec => []AccountSerial
<1>1. ASSUME CInv PROVE AccountSerial
  <2>1. SUFFICES ASSUME NEW v \in Submitter, NEW w \in Submitter, v # w,
                        Placing(v), Placing(w),
                        AccountOf[ContractOf[intent[v]]] = AccountOf[ContractOf[intent[w]]]
                 PROVE  FALSE
    BY DEF AccountSerial
  <2>2. Owns(v) /\ Owns(w) BY <1>1 DEF CInv
  <2> QED BY <2>1, <2>2 DEF Owns, Placing
<1> QED BY <1>1, CInvHolds, PTL

\* Every reachable state is typed, and no stamp lies in the future.
THEOREM CoordTyped == CoordSpec => []CoordTypeOK
<1>1. CInv => CoordTypeOK BY DEF CInv
<1> QED BY <1>1, CInvHolds, PTL
=============================================================================
