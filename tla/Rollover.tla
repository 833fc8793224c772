------------------------------ MODULE Rollover ------------------------------
(***************************************************************************)
(* Rolling a lot to a later expiry: the near exit and its intent           *)
(* (src/gateway/app/routers/lots.py), the fill that makes the intent ready *)
(* and the pass that claims it and enters the far contract through POST    *)
(* /api/orders (src/gateway/app/services/reconciliation.py), which is where *)
(* the reservations of ExecutionCoordinator are taken.                     *)
(*                                                                         *)
(* Handlers and passes interleave at each await; the order-book pass runs  *)
(* in an executor thread beside them and writes the same rows.  A lot      *)
(* carries `carried` units of earlier P&L, which a roll takes along in     *)
(* proportion; the result of the leg itself is not followed.               *)
(***************************************************************************)
EXTENDS ExecutionCoordinator, Sequences, FiniteSets, FiniteSetsExt, Functions

CONSTANTS
  Lot, LotQty, Carry,  \* near lots, their shares and what they carry
  NRolls,              \* bound: rollover requests
  MaxNearExits,        \* bound: exits placed
  Reconcilers,         \* slots for concurrent passes, a subset of Router
  FarOf,               \* the entry each lot rolls into
  Faults,
  MaxCrashes

\* unheard   a placement raises without a verdict, the order may be live
\* cancels   the user cancels exits
RollFaults == {"unheard", "cancels"}

Roll == 1..NRolls
NoExit == 0
Statuses == {"none", "PENDING", "FIRING", "DONE", "FAILED", "UNRESOLVED"}

ASSUME RolloverAssumption ==
  /\ Lot # {} /\ LotQty \in [Lot -> Nat \ {0}] /\ Carry \in [Lot -> Nat]
  /\ NRolls \in Nat /\ MaxNearExits \in Nat /\ MaxCrashes \in Nat
  /\ Reconcilers \subseteq Router /\ FarOf \in [Lot -> Intent] /\ Faults \subseteq RollFaults

VARIABLES
  near,      \* order_lots: open_qty and carried_pnl of the near lots
  nearExits, \* lot_exits in the order of their ids, with their broker order
  asked,     \* rollover_lot handlers: where each request is
  row,       \* rollover_intents
  pass,      \* _fire_ready_rollovers: rows to look at and claims in hand
  far,       \* the far orders and what their lots carry
  crashes,
  mixed      \* observation: lots with a claim taken while another was in hand

rollVars == <<near, nearExits, asked, row, pass, far, crashes, mixed>>
allVars == <<coordVars, rollVars>>

NoClaim == [roll |-> 0, share |-> 0, prior |-> 0, reduced |-> FALSE]
IdlePass == [pc |-> "idle", rows |-> {}, claims |-> <<>>]
NoRow == [st |-> "none", lot |-> CHOOSE l \in Lot : TRUE, exit |-> NoExit, qty |-> 0]

RollInit ==
  /\ CoordInit
  /\ near = [l \in Lot |-> [open |-> LotQty[l], carried |-> Carry[l]]]
  /\ nearExits = <<>>
  /\ asked = [i \in Roll |-> [pc |-> "idle", exit |-> NoExit]]
  /\ row = [i \in Roll |-> NoRow]
  /\ pass = [k \in Reconcilers |-> IdlePass]
  /\ far = [i \in Roll |-> [sent |-> 0, live |-> FALSE, qty |-> 0, carried |-> 0]]
  /\ crashes = 0 /\ mixed = {}

NearExitOf(l) == {e \in 1..Len(nearExits) : nearExits[e].lot = l}
\* a pass that claims, and a handler whose exit was answered, do not await
NotClaiming == \A k \in Reconcilers : pass[k].pc # "claiming"
LoopFree == NotClaiming /\ \A i \in Roll : asked[i].pc # "exited"

-----------------------------------------------------------------------------
\* exit_lot commits the row PENDING and calls the broker
NewExit(l, q) ==
  nearExits' = Append(nearExits, [lot |-> l, qty |-> q, st |-> "PENDING", filled |-> 0,
                          known |-> FALSE, order |-> "sent", done |-> 0, cancel |-> "no"])

\* rollover_lot: refused while the lot has a pending exit
RollAsk(i, q) ==
  \E l \in Lot :
    /\ LoopFree /\ asked[i].pc = "idle" /\ Len(nearExits) < MaxNearExits
    /\ \A j \in Roll : j < i => asked[j].pc # "idle"
    /\ near[l].open > 0 /\ q \in 1..near[l].open
    /\ \A e \in NearExitOf(l) : nearExits[e].st # "PENDING"
    /\ NewExit(l, q)
    /\ asked' = [asked EXCEPT ![i] = [pc |-> "exiting", exit |-> Len(nearExits) + 1]]
    /\ UNCHANGED <<coordVars, near, row, pass, far, crashes, mixed>>

\* exit_lot on its own asks for no more than the lot has open, whatever else
\* is pending
ManualExit(l, q) ==
  /\ LoopFree /\ Len(nearExits) < MaxNearExits /\ near[l].open > 0 /\ q \in 1..near[l].open
  /\ NewExit(l, q)
  /\ UNCHANGED <<coordVars, near, asked, row, pass, far, crashes, mixed>>

\* the broker's answer to an exit.  An exception writes the row off, although
\* the order may be working
ExitAnswer(e, how) ==
  LET live == how \in {"ok", "lost"}
      raised == {i \in Roll : asked[i].pc = "exiting" /\ asked[i].exit = e}
  IN
  /\ LoopFree /\ nearExits[e].order = "sent"
  /\ how \in {"ok", "refused"} \cup IF "unheard" \in Faults THEN {"lost"} ELSE {}
  /\ nearExits' = [nearExits EXCEPT ![e].order = IF live THEN "working" ELSE "gone",
                            ![e].known = how = "ok",
                            ![e].st = IF how = "ok" THEN @ ELSE "REJECTED"]
  /\ asked' = [i \in Roll |-> IF i \in raised
                 THEN [asked[i] EXCEPT !.pc = IF how = "ok" THEN "exited" ELSE "raised"]
                 ELSE asked[i]]
  /\ UNCHANGED <<coordVars, near, row, pass, far, crashes, mixed>>

\* the intent names the newest exit of the lot that was not there before
RollNote(i) ==
  LET e == asked[i].exit
      mine == Max({x \in NearExitOf(nearExits[e].lot) : x >= e})
  IN
  /\ NotClaiming /\ asked[i].pc = "exited"
  /\ asked' = [asked EXCEPT ![i].pc = "noted"]
  /\ row' = [row EXCEPT ![i] =
       [st |-> "PENDING", lot |-> nearExits[e].lot, exit |-> mine, qty |-> 0]]
  /\ UNCHANGED <<coordVars, near, nearExits, pass, far, crashes, mixed>>

\* the exchange trades part or all of a working exit, or it is cancelled there
ExitTrades(e, f) ==
  /\ nearExits[e].order = "working" /\ f \in 0..nearExits[e].qty
  /\ nearExits' = [nearExits EXCEPT ![e].order = "gone", ![e].done = f]
  /\ UNCHANGED <<coordVars, near, asked, row, pass, far, crashes, mixed>>

\* _apply_exit_fill
Booked(x, f) == [x EXCEPT !.st = "FILLED", !.filled = f]
Closable(x, f) == IF f < near[x.lot].open THEN f ELSE near[x.lot].open

\* the order-book pass meets exit e.  A cancel event may lack the fill fields
ReconcileExit(e, f) ==
  LET x == nearExits[e]
      cancelled == x.done < x.qty
      books == /\ f > 0 /\ x.filled = 0
               /\ cancelled \/ x.st \in {"PENDING", "CANCELLED", "REJECTED"}
  IN
  /\ x.order = "gone" /\ f \in {x.done} \cup IF cancelled THEN {0} ELSE {}
  /\ \/ /\ books
        /\ nearExits' = [nearExits EXCEPT ![e] = Booked(x, f)]
        /\ near' = [near EXCEPT ![x.lot].open = @ - Closable(x, f)]
     \/ /\ ~books /\ cancelled /\ x.st = "PENDING" /\ UNCHANGED near
        /\ \E st \in {"CANCELLED", "REJECTED"} : nearExits' = [nearExits EXCEPT ![e].st = st]
  /\ UNCHANGED <<coordVars, asked, row, pass, far, crashes, mixed>>

\* cancel_lot_exit reads the row PENDING and asks the broker; the sibling
\* exits of a closed lot are cancelled the same way
CancelAsk(e, by) ==
  /\ LoopFree /\ nearExits[e].st = "PENDING" /\ nearExits[e].order = "working" /\ nearExits[e].known
  /\ \/ by = "user" /\ "cancels" \in Faults
     \/ by = "sibling" /\ near[nearExits[e].lot].open = 0
  /\ \E f \in 0..(nearExits[e].qty - 1) :
       nearExits' = [nearExits EXCEPT ![e].order = "gone", ![e].done = f, ![e].cancel = by]
  /\ UNCHANGED <<coordVars, near, asked, row, pass, far, crashes, mixed>>

\* the answer marks the row: the user's unconditionally, a sibling if PENDING
CancelMark(e) ==
  /\ LoopFree /\ nearExits[e].cancel # "no"
  /\ nearExits' = [nearExits EXCEPT
       ![e].cancel = "no",
       ![e].st = IF nearExits[e].cancel = "user" \/ @ = "PENDING" THEN "CANCELLED" ELSE @]
  /\ UNCHANGED <<coordVars, near, asked, row, pass, far, crashes, mixed>>

\* an exit without an order id is marked without asking the broker
CancelUnsent(e) ==
  /\ "cancels" \in Faults /\ LoopFree
  /\ nearExits[e].st = "PENDING" /\ ~nearExits[e].known
  /\ nearExits' = [nearExits EXCEPT ![e].st = "CANCELLED"]
  /\ UNCHANGED <<coordVars, near, asked, row, pass, far, crashes, mixed>>

-----------------------------------------------------------------------------
Waiting == {i \in Roll : row[i].st = "PENDING"}
\* a pass reads the PENDING intents; until it has claimed it does not await
FireBegin(k) ==
  /\ LoopFree /\ pass[k] = IdlePass /\ Waiting # {}
  /\ pass' = [pass EXCEPT ![k] = [pc |-> "claiming", rows |-> Waiting, claims |-> <<>>]]
  /\ UNCHANGED <<coordVars, near, nearExits, asked, row, far, crashes, mixed>>

\* PENDING -> FIRING, for the shares the exit has closed
ClaimRowAsked(i, x) == [row EXCEPT ![i].st = "FIRING", ![i].qty = x.qty]  \* mutant
ClaimRow(i, x) == [row EXCEPT ![i].st = "FIRING", ![i].qty = x.filled]

\* the share of the lot's carry that leaves with this fill
Share(l, filled) == (near[l].carried * filled) \div (near[l].open + filled)

\* the claims in hand: of pass h[1], the one at place h[2]
Claims == UNION {{<<k, n>> : n \in 1..Len(pass[k].claims)} : k \in Reconcilers}
InHand(h) == pass[h[1]].claims[h[2]]
ClaimsOf(l) == {h \in Claims : row[InHand(h).roll].lot = l}

FireClaim(k) ==
  LET i == Min(pass[k].rows)
      x == nearExits[row[i].exit]
      l == row[i].lot
      s == Share(l, x.filled)
  IN
  /\ pass[k].pc = "claiming" /\ pass[k].rows # {}
  /\ \/ /\ x.st = "FILLED" /\ row' = ClaimRow(i, x)
        /\ near' = [near EXCEPT ![l].carried = @ - s]
        /\ mixed' = IF ClaimsOf(l) # {} THEN mixed \cup {l} ELSE mixed
        /\ pass' = [pass EXCEPT ![k].rows = @ \ {i}, ![k].claims = Append(@,
             [roll |-> i, share |-> s, prior |-> near[l].carried, reduced |-> s # 0])]
     \/ /\ x.st \in {"REJECTED", "CANCELLED"}
        /\ row' = [row EXCEPT ![i].st = "FAILED"]
        /\ pass' = [pass EXCEPT ![k].rows = @ \ {i}] /\ UNCHANGED <<near, mixed>>
     \/ /\ x.st = "PENDING"
        /\ pass' = [pass EXCEPT ![k].rows = @ \ {i}] /\ UNCHANGED <<near, row, mixed>>
  /\ UNCHANGED <<coordVars, nearExits, asked, far, crashes>>

FireGo(k) ==
  /\ pass[k].pc = "claiming" /\ pass[k].rows = {}
  /\ pass' = [pass EXCEPT ![k].pc = IF pass[k].claims = <<>> THEN "idle" ELSE "firing"]
  /\ UNCHANGED <<coordVars, near, nearExits, asked, row, far, crashes, mixed>>

Claim(k) == Head(pass[k].claims)
RollOf(k) == Claim(k).roll

\* _finalize_rollover_intent; what is left to do for this claim
Finalize(k, st, pc) ==
  /\ row' = [row EXCEPT ![RollOf(k)].st = st]
  /\ pass' = [pass EXCEPT ![k].pc = pc]

\* place_order of the far leg, up to the broker.  A refusal of the coordinator
\* is a 409, which is not a 400
FarPlace(k) ==
  LET i == FarOf[row[RollOf(k)].lot] IN
  /\ LoopFree /\ pass[k].pc = "firing"
  /\ RouteReserve(k, i)
  /\ IF Admits(i)
       THEN pass' = [pass EXCEPT ![k].pc = "placing"] /\ UNCHANGED row
       ELSE Finalize(k, "UNRESOLVED", "restoring")
  /\ UNCHANGED <<near, nearExits, asked, far, crashes, mixed>>

\* what its answer says of the order: taken, refused (400), no verdict (502)
StatusOf(verdict) == IF verdict = "refused" THEN "FAILED" ELSE "UNRESOLVED"

FarAnswer(k, verdict, live) ==
  LET i == RollOf(k) IN
  /\ LoopFree /\ pass[k].pc = "placing" /\ RouteReturn(k)
  /\ \/ verdict = "ok" /\ live
     \/ verdict = "refused" /\ ~live
     \/ verdict = "unheard" /\ "unheard" \in Faults
  /\ far' = [far EXCEPT ![i].sent = @ + 1, ![i].live = @ \/ live,
                        ![i].qty = @ + IF live THEN row[i].qty ELSE 0]
  /\ IF verdict = "ok" THEN Finalize(k, "DONE", "tagging")
                       ELSE Finalize(k, StatusOf(verdict), "restoring")
  /\ UNCHANGED <<near, nearExits, asked, crashes, mixed>>

\* the claim is dealt with; the next one, or none
Rest(claims) == Tail(claims)
NextClaim(k) == pass' = [pass EXCEPT ![k].claims = Rest(@),
                           ![k].pc = IF Rest(pass[k].claims) = <<>> THEN "idle" ELSE "firing"]

\* the far lot is tagged with the carried P&L in a commit of its own
FarTag(k) ==
  /\ LoopFree /\ pass[k].pc = "tagging" /\ NextClaim(k)
  /\ far' = [far EXCEPT ![RollOf(k)].carried = Claim(k).share]
  /\ UNCHANGED <<coordVars, near, nearExits, asked, row, crashes, mixed>>

\* _restore_near_carry puts back what the lot carried before the claim
RestoreNothing(k, old) == old  \* mutant
Restored(k, old) == IF Claim(k).reduced THEN Claim(k).prior ELSE old

FarRestore(k) ==
  /\ LoopFree /\ pass[k].pc = "restoring" /\ NextClaim(k)
  /\ near' = [near EXCEPT ![row[RollOf(k)].lot].carried = Restored(k, @)]
  /\ UNCHANGED <<coordVars, nearExits, asked, row, far, crashes, mixed>>

-----------------------------------------------------------------------------
Clock == LoopFree /\ Tick /\ UNCHANGED rollVars

\* the process dies: tables in memory, handlers and claims are gone; an order
\* that was on its way may be taken
Crash ==
  /\ crashes < MaxCrashes /\ crashes' = crashes + 1
  /\ recent' = [i \in Intent |-> None] /\ inflight' = [c \in Contract |-> None]
  /\ lock' = [a \in Account |-> None]
  /\ stage' = [w \in Caller |-> "idle"] /\ intent' = [w \in Caller |-> None]
  /\ since' = [w \in Caller |-> 0] /\ UNCHANGED <<now, overran>>
  /\ asked' = [i \in Roll |-> IF asked[i].pc \in {"exiting", "exited"}
                 THEN [asked[i] EXCEPT !.pc = "raised"] ELSE asked[i]]
  /\ \E taken \in SUBSET {e \in 1..Len(nearExits) : nearExits[e].order = "sent"} :
       nearExits' = [e \in 1..Len(nearExits) |-> [nearExits[e] EXCEPT !.cancel = "no",
         !.order = IF @ = "sent" THEN IF e \in taken THEN "working" ELSE "gone" ELSE @]]
  /\ \E taken \in SUBSET {k \in Reconcilers : pass[k].pc = "placing"} :
       far' = [i \in Roll |-> IF \E k \in taken : RollOf(k) = i
                 THEN [far[i] EXCEPT !.sent = @ + 1, !.live = TRUE, !.qty = @ + row[i].qty]
                 ELSE far[i]]
  /\ pass' = [k \in Reconcilers |-> IdlePass]
  /\ UNCHANGED <<near, row, mixed>>

RollNext ==
  \/ \E i \in Roll : RollNote(i) \/ \E q \in 1..2 : RollAsk(i, q)
  \/ \E l \in Lot, q \in 1..2 : ManualExit(l, q)
  \/ \E e \in 1..Len(nearExits) :
       \/ \E how \in {"ok", "refused", "lost"} : ExitAnswer(e, how)
       \/ \E f \in 0..nearExits[e].qty : ExitTrades(e, f) \/ ReconcileExit(e, f)
       \/ \E by \in {"user", "sibling"} : CancelAsk(e, by)
       \/ CancelMark(e) \/ CancelUnsent(e)
  \/ \E k \in Reconcilers :
       \/ FireBegin(k) \/ FireClaim(k) \/ FireGo(k) \/ FarPlace(k) \/ FarTag(k) \/ FarRestore(k)
       \/ \E verdict \in {"ok", "refused", "unheard"}, live \in BOOLEAN :
            FarAnswer(k, verdict, live)
  \/ Clock \/ Crash

RollSpec == RollInit /\ [][RollNext]_allVars

-----------------------------------------------------------------------------
NearExitSet == [lot : Lot, qty : Nat, st : {"PENDING", "FILLED", "CANCELLED", "REJECTED"},
            filled : Nat, known : BOOLEAN, order : {"sent", "working", "gone"}, done : Nat,
            cancel : {"no", "user", "sibling"}]

RollTypeOK ==
  /\ CoordTypeOK
  /\ near \in [Lot -> [open : Nat, carried : Int]]
  /\ nearExits \in Seq(NearExitSet)
  /\ asked \in [Roll -> [pc : {"idle", "exiting", "exited", "raised", "noted"}, exit : Nat]]
  /\ row \in [Roll -> [st : Statuses, lot : Lot, exit : Nat, qty : Nat]]
  /\ \A k \in Reconcilers :
       /\ pass[k].pc \in {"idle", "claiming", "firing", "placing", "tagging", "restoring"}
       /\ pass[k].pc \in {"firing", "placing", "tagging", "restoring"} <=>
            pass[k].claims # <<>> /\ pass[k].pc # "claiming"
  /\ far \in [Roll -> [sent : Nat, live : BOOLEAN, qty : Nat, carried : Int]]
  /\ mixed \subseteq Lot

FarShares(l) == [i \in Roll |-> IF row[i].lot = l THEN far[i].qty ELSE 0]
NearShares == [e \in 1..Len(nearExits) |-> nearExits[e].filled]
OwnExits == \A i, j \in Roll : i # j /\ row[i].exit = row[j].exit => row[i].exit = NoExit

\* However many passes run at once, and across a process death, the far leg of
\* one intent reaches the broker at most once; and the shares ordered in far
\* contracts for a lot never exceed the shares its exits are booked to have
\* closed, even when an intent names the exit of another request, unless two
\* intents name the same one.
FarCovered ==
  /\ \A i \in Roll : far[i].sent <= 1
  /\ OwnExits => \A l \in Lot :
       SumFunctionOnSet(FarShares(l), Roll) <= SumFunctionOnSet(NearShares, NearExitOf(l))

\* An intent that is FIRING is in the hands of a pass.
FiringIsHeld == \A i \in Roll : row[i].st = "FIRING" => \E h \in Claims : InHand(h).roll = i

FarCarry(l) == [i \in Roll |-> IF row[i].lot = l THEN far[i].carried ELSE 0]
ClaimShare == [h \in Claims |-> InHand(h).share]
CarryOf(l) ==
  near[l].carried + SumFunctionOnSet(FarCarry(l), Roll) + SumFunctionOnSet(ClaimShare, ClaimsOf(l))

\* Until a death, no intent is left claimed and forgotten, and what a lot carried
\* is on the lot, on its far lots or with the pass that moves it, nowhere twice,
\* as long as one claim of the lot is handled at a time.
CarryConserved ==
  crashes = 0 => FiringIsHeld /\ \A l \in Lot : l \notin mixed => CarryOf(l) = Carry[l]
=============================================================================
