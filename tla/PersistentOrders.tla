-------------------------- MODULE PersistentOrders --------------------------
(***************************************************************************)
(* Hold-until-filled orders (src/gateway/app/services/persistent_orders.py, *)
(* routers/persistent_orders.py): a row in the database that a sweep turns *)
(* into one DAY order per session, with the part of order-book             *)
(* reconciliation (services/reconciliation.py) that retires it.            *)
(*                                                                         *)
(* The sweep reads all rows once and then awaits the broker for each; the  *)
(* create and cancel routes and the order-book pass run in between.  An    *)
(* attempt is the lot row of one submission together with its order.       *)
(***************************************************************************)
EXTENDS Integers, Sequences, FiniteSets, Functions

CONSTANTS
  PO,            \* persistent orders
  Want,          \* the quantity each was created with
  MaxDays, MaxAttempts, MaxSweeps, MaxDeaths,
  MaxLost        \* bounds; the last one: placements that raise without a verdict

ASSUME PersistentAssumption ==
  /\ IsFiniteSet(PO) /\ Want \in [PO -> Nat \ {0}]
  /\ {MaxDays, MaxAttempts, MaxSweeps, MaxDeaths, MaxLost} \subseteq Nat

VARIABLES
  day, open,     \* the trading day; whether the venue's session is open
  po,            \* persistent_orders: status, quantity, last_submitted_at
  attempts,      \* order_lots with a persistent_order_id, and their orders
  sweep,         \* the rows the running sweep has still to visit
  cancelling,    \* cancel routes that have read the row ACTIVE
  sweeps, deaths,
  lost           \* observation: attempts whose acceptance was never heard

poVars == <<day, open, po, attempts, sweep, cancelling, sweeps, deaths, lost>>

PersistInit ==
  /\ day = 1 /\ open = FALSE
  /\ po = [p \in PO |-> [st |-> "none", qty |-> Want[p], last |-> 0]]
  /\ attempts = <<>> /\ sweep = <<>> /\ cancelling = {}
  /\ sweeps = 0 /\ deaths = 0 /\ lost = {}

Attempt == 1..Len(attempts)
OfPO(p) == {a \in Attempt : attempts[a].po = p}
\* attempts of p whose acceptance has been committed
Heard(p) == {a \in OfPO(p) : attempts[a].known}
Busy(who) == \E a \in Attempt : attempts[a].awaits /\ attempts[a].by = who

-----------------------------------------------------------------------------
\* _submit_persistent_attempt commits the lot PENDING and awaits the broker.
\* The quantity and the state of the order are those of the row in hand
Submit(p, who, qty, seen) ==
  /\ Len(attempts) < MaxAttempts
  /\ attempts' = Append(attempts,
       [po |-> p, by |-> who, qty |-> qty, st |-> "PENDING", known |-> FALSE,
        awaits |-> TRUE, order |-> "sent", done |-> 0, ended |-> "no",
        day |-> day, seen |-> seen])

\* create_persistent_order: the row is ACTIVE before the first attempt returns
Create(p) ==
  /\ po[p].st = "none" /\ po' = [po EXCEPT ![p].st = "ACTIVE"]
  /\ IF open THEN Submit(p, "create", Want[p], {}) ELSE UNCHANGED attempts
  /\ UNCHANGED <<day, open, sweep, cancelling, sweeps, deaths, lost>>

\* _sweep_persistent_orders reads the ACTIVE rows and closes its session
SweepRead ==
  /\ sweep = <<>> /\ ~Busy("sweep") /\ sweeps < MaxSweeps /\ sweeps' = sweeps + 1
  /\ \E order \in [1..Cardinality({p \in PO : po[p].st = "ACTIVE"}) -> PO] :
       /\ {order[n] : n \in DOMAIN order} = {p \in PO : po[p].st = "ACTIVE"}
       /\ sweep' = [n \in DOMAIN order |->
            [po |-> order[n], qty |-> po[order[n]].qty, last |-> po[order[n]].last,
             seen |-> Heard(order[n])]]
  /\ UNCHANGED <<day, open, po, attempts, cancelling, deaths, lost>>

\* the same trading day?
SubmittedToday(r) == r.last = day

SweepVisit ==
  /\ sweep # <<>> /\ ~Busy("sweep") /\ sweep' = Tail(sweep)
  /\ LET r == Head(sweep) IN
     IF ~open \/ SubmittedToday(r) THEN UNCHANGED attempts
     ELSE Submit(r.po, "sweep", r.qty, r.seen)
  /\ UNCHANGED <<day, open, po, cancelling, sweeps, deaths, lost>>

\* the broker takes an order that is on its way
Taken(a) ==
  /\ attempts[a].order = "sent" /\ open
  /\ attempts' = [attempts EXCEPT ![a].order = "working"]
  /\ UNCHANGED <<day, open, po, sweep, cancelling, sweeps, deaths, lost>>

\* accepted: the order id and the day of submission in one commit
StampNothing(p) == po  \* mutant
Stamp(p) == [po EXCEPT ![p].last = day]
AnswerOk(a) ==
  /\ attempts[a].awaits /\ attempts[a].order # "sent"
  /\ attempts' = [attempts EXCEPT ![a].awaits = FALSE, ![a].known = TRUE]
  /\ po' = Stamp(attempts[a].po)
  /\ UNCHANGED <<day, open, sweep, cancelling, sweeps, deaths, lost>>

\* refused, or no answer: the lot is written off either way
AnswerBad(a) ==
  /\ attempts[a].awaits
  /\ \/ /\ attempts[a].order = "sent"
        /\ attempts' = [attempts EXCEPT ![a].awaits = FALSE, ![a].st = "CANCELLED",
                                        ![a].order = "gone"]
        /\ UNCHANGED lost
     \/ /\ Cardinality(lost) < MaxLost /\ attempts[a].order # "sent"
        /\ attempts' = [attempts EXCEPT ![a].awaits = FALSE, ![a].st = "CANCELLED"]
        /\ lost' = lost \cup {a}
  /\ UNCHANGED <<day, open, po, sweep, cancelling, sweeps, deaths>>

\* the exchange fills, cancels or rejects a working order
AttemptEnds(a, f, how) ==
  /\ attempts[a].order = "working" /\ f \in 0..attempts[a].qty
  /\ (how = "COMPLETE") = (f = attempts[a].qty)
  /\ attempts' = [attempts EXCEPT ![a].order = "gone", ![a].done = f, ![a].ended = how]
  /\ UNCHANGED <<day, open, po, sweep, cancelling, sweeps, deaths, lost>>

-----------------------------------------------------------------------------
\* the order-book pass meets the order of attempt a.  Only an ACTIVE row is
\* retired; a partial fill leaves the remainder for tomorrow
Retired(row, how) == IF row.st = "ACTIVE" THEN [row EXCEPT !.st = how] ELSE row
ReducedNot(row, f) == row  \* mutant
Reduced(row, f) ==
  LET left == IF row.qty > f THEN row.qty - f ELSE 0 IN
  IF row.st # "ACTIVE" THEN row
  ELSE [row EXCEPT !.qty = left, !.st = IF left = 0 THEN "FILLED" ELSE @]

ReconcileAttempt(a) ==
  LET x == attempts[a]
      revives == x.done > 0 /\ x.st \in {"PENDING", "CANCELLED"}
  IN
  /\ x.ended # "no"
  /\ \/ /\ x.ended = "COMPLETE"
        /\ attempts' = [attempts EXCEPT ![a].st = IF revives THEN "OPEN" ELSE @]
        /\ po' = [po EXCEPT ![x.po] = Retired(@, "FILLED")]
     \/ /\ x.ended # "COMPLETE" /\ revives
        /\ attempts' = [attempts EXCEPT ![a].st = "OPEN"]
        /\ po' = [po EXCEPT ![x.po] =
             LET r == Reduced(@, x.done)
             IN IF x.ended = "REJECTED" THEN Retired(r, "FAILED") ELSE r]
     \/ /\ x.ended # "COMPLETE" /\ x.done = 0 /\ x.st = "PENDING"
        /\ attempts' = [attempts EXCEPT ![a].st = "CANCELLED"]
        /\ po' = [po EXCEPT ![x.po] =
             IF x.ended = "REJECTED" THEN Retired(@, "FAILED") ELSE @]
  /\ UNCHANGED <<day, open, sweep, cancelling, sweeps, deaths, lost>>

\* _cancel_stale_pending_lots: a PENDING lot that never got an order id
WriteOffAttempt(a) ==
  /\ attempts[a].st = "PENDING" /\ ~attempts[a].known /\ ~attempts[a].awaits
  /\ attempts' = [attempts EXCEPT ![a].st = "CANCELLED"]
  /\ UNCHANGED <<day, open, po, sweep, cancelling, sweeps, deaths, lost>>

\* cancel_persistent_order reads the row and, when one PENDING lot has an order
\* id, asks the broker first; the answer is not looked at
CancelRead(p) ==
  /\ po[p].st = "ACTIVE" /\ p \notin cancelling /\ cancelling' = cancelling \cup {p}
  /\ \/ \E a \in Heard(p) :
          /\ attempts[a].st = "PENDING" /\ attempts[a].order = "working"
          /\ attempts' = [attempts EXCEPT ![a].order = "gone", ![a].ended = "CANCELED"]
     \/ UNCHANGED attempts
  /\ UNCHANGED <<day, open, po, sweep, sweeps, deaths, lost>>
CancelWrite(p) ==
  /\ p \in cancelling /\ cancelling' = cancelling \ {p}
  /\ po' = [po EXCEPT ![p].st = "USER_CANCELLED"]
  /\ UNCHANGED <<day, open, attempts, sweep, sweeps, deaths, lost>>

-----------------------------------------------------------------------------
SessionOpens ==
  /\ ~open /\ open' = TRUE
  /\ UNCHANGED <<day, po, attempts, sweep, cancelling, sweeps, deaths, lost>>

\* the session ends: DAY orders are cancelled by the exchange; the next day
SessionCloses ==
  /\ open /\ day < MaxDays /\ open' = FALSE /\ day' = day + 1
  /\ attempts' = [a \in Attempt |->
       IF attempts[a].order = "working"
         THEN [attempts[a] EXCEPT !.order = "gone", !.ended = "CANCELED"]
         ELSE attempts[a]]
  /\ UNCHANGED <<po, sweep, cancelling, sweeps, deaths, lost>>

\* the process dies; an order on its way may be taken
Death ==
  /\ deaths < MaxDeaths /\ deaths' = deaths + 1
  /\ sweep' = <<>> /\ cancelling' = {}
  /\ \E taken \in SUBSET {a \in Attempt : attempts[a].order = "sent"} :
       attempts' = [a \in Attempt |-> [attempts[a] EXCEPT !.awaits = FALSE,
         !.order = IF @ = "sent" THEN IF a \in taken THEN "working" ELSE "gone" ELSE @]]
  /\ UNCHANGED <<day, open, po, sweeps, lost>>

PersistNext ==
  \/ \E p \in PO : Create(p) \/ CancelRead(p) \/ CancelWrite(p)
  \/ SweepRead \/ SweepVisit
  \/ \E a \in Attempt :
       \/ Taken(a) \/ AnswerOk(a) \/ AnswerBad(a) \/ ReconcileAttempt(a) \/ WriteOffAttempt(a)
       \/ \E f \in 0..attempts[a].qty, how \in {"COMPLETE", "CANCELED", "REJECTED"} :
            AttemptEnds(a, f, how)
  \/ SessionOpens \/ SessionCloses \/ Death

PersistSpec == PersistInit /\ [][PersistNext]_poVars

-----------------------------------------------------------------------------
Row == [st : {"none", "ACTIVE", "FILLED", "FAILED", "USER_CANCELLED"}, qty : Nat, last : Nat]
AttemptSet ==
  [po : PO, by : {"create", "sweep"}, qty : Nat, st : {"PENDING", "OPEN", "CANCELLED"},
   known : BOOLEAN, awaits : BOOLEAN, order : {"sent", "working", "gone"}, done : Nat,
   ended : {"no", "COMPLETE", "CANCELED", "REJECTED"}, day : Nat, seen : SUBSET Nat]
PersistTypeOK ==
  /\ day \in Nat /\ open \in BOOLEAN /\ po \in [PO -> Row] /\ attempts \in Seq(AttemptSet)
  /\ sweep \in Seq([po : PO, qty : Nat, last : Nat, seen : SUBSET Nat])
  /\ cancelling \subseteq PO /\ lost \subseteq Attempt

Fill == [a \in Attempt |-> attempts[a].done]
BookedFill == [a \in Attempt |-> IF attempts[a].st = "OPEN" THEN attempts[a].done ELSE 0]
Filled(p) == SumFunctionOnSet(Fill, OfPO(p))
BookedPart(p) == SumFunctionOnSet(BookedFill, OfPO(p))

\* What an ACTIVE order will re-place tomorrow is what it was created for less
\* what its earlier attempts are booked to have bought, and one that says FILLED
\* has bought it all, over any number of days, partial fills and attempts, unless
\* an answer to one of its placements was lost (its lot is then written off after
\* a fill booked in the meantime, and books it again).
Lossless(p) == lost \cap OfPO(p) = {}
RemainderExact ==
  \A p \in PO : Lossless(p) =>
    /\ po[p].st = "ACTIVE" => po[p].qty = Want[p] - BookedPart(p)
    /\ po[p].st = "FILLED" => Filled(p) >= Want[p]

\* No attempt is made from a row that was read after an attempt of the same
\* day had been accepted.
OncePerDay ==
  \A b \in Attempt : \A a \in attempts[b].seen : attempts[a].day # attempts[b].day
=============================================================================
