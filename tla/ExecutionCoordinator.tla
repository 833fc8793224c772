------------------------ MODULE ExecutionCoordinator ------------------------
(***************************************************************************)
(* The reservations every new entry passes before it reaches the broker    *)
(* (src/gateway/app/services/execution_coordinator.py), as POST /api/orders *)
(* uses them (src/gateway/app/routers/orders.py): `reserve` alone, which    *)
(* expires by itself, and as `submit` offers them, under a lock per        *)
(* account and released when the placement returns.                        *)
(*                                                                         *)
(* An intent is what the deduplication key tells apart: a contract with a  *)
(* side, a quantity and a price bucket.  A contract belongs to an account. *)
(* Time is read in whole ticks; both tables prune an entry once it is      *)
(* older than its TTL.                                                     *)
(***************************************************************************)
EXTENDS Integers

CONSTANTS
  Account, Contract, Intent,
  AccountOf,     \* the account of a contract
  ContractOf,    \* the contract of an intent
  Router,        \* callers that come through POST /api/orders
  Submitter,     \* callers of submit()
  DedupTTL, InflightTTL,
  MaxTime,       \* bound: ticks of the clock
  None

ASSUME CoordinatorAssumption ==
  /\ AccountOf \in [Contract -> Account] /\ ContractOf \in [Intent -> Contract]
  /\ DedupTTL \in Nat /\ InflightTTL \in Nat /\ MaxTime \in Nat
  /\ Router \cap Submitter = {} /\ None \notin Router \cup Submitter \cup Intent \cup Nat

Caller == Router \cup Submitter
Time == 0..MaxTime

VARIABLES
  now,
  recent,     \* _recent: when an intent was last admitted
  inflight,   \* _inflight: when a contract was last reserved
  lock,       \* _acct_locks: the submit() that holds an account
  stage,      \* what a caller is doing
  intent,     \* the intent of a caller that is not idle, else None
  since,      \* observation: when that caller was admitted (0 while idle)
  overran     \* observation: a submit() outlived its own reservation

tables == <<recent, inflight>>
callers == <<stage, intent, since>>
coordVars == <<now, tables, lock, callers, overran>>

CoordInit ==
  /\ now = 0
  /\ recent = [i \in Intent |-> None] /\ inflight = [c \in Contract |-> None]
  /\ lock = [a \in Account |-> None]
  /\ stage = [w \in Caller |-> "idle"]
  /\ intent = [w \in Caller |-> None] /\ since = [w \in Caller |-> 0]
  /\ overran = FALSE

-----------------------------------------------------------------------------
Fresh(stamp, ttl) == stamp # None /\ now - stamp <= ttl

\* _prune: what both tables hold after dropping the entries past their TTL
Pruned(table, ttl) ==
  [k \in DOMAIN table |-> IF Fresh(table[k], ttl) THEN table[k] ELSE None]

\* mutant: identical intents only
AdmitsBusy(i) == ~Fresh(recent[i], DedupTTL)
Admits(i) ==
  /\ ~Fresh(inflight[ContractOf[i]], InflightTTL)
  /\ ~Fresh(recent[i], DedupTTL)

\* reserve(): one atomic check-and-record, under the guard
Reserve(i) ==
  LET r == Pruned(recent, DedupTTL)
      f == Pruned(inflight, InflightTTL)
  IN /\ recent' = IF Admits(i) THEN [r EXCEPT ![i] = now] ELSE r
     /\ inflight' = IF Admits(i) THEN [f EXCEPT ![ContractOf[i]] = now] ELSE f

\* release(): drops whatever reservation the contract has
Release(i) == inflight' = [inflight EXCEPT ![ContractOf[i]] = None]

Enter(w, i, s) ==
  /\ stage' = [stage EXCEPT ![w] = s] /\ intent' = [intent EXCEPT ![w] = i]
  /\ since' = [since EXCEPT ![w] = now]
Leave(w) ==
  /\ stage' = [stage EXCEPT ![w] = "idle"] /\ intent' = [intent EXCEPT ![w] = None]
  /\ since' = [since EXCEPT ![w] = 0]

Tick == now < MaxTime /\ now' = now + 1 /\ UNCHANGED <<tables, lock, callers, overran>>

\* POST /api/orders reserves first; a refusal is answered 409
RouteReserve(w, i) ==
  /\ w \in Router /\ stage[w] = "idle" /\ Reserve(i)
  /\ IF Admits(i) THEN Enter(w, i, "placing") ELSE UNCHANGED callers
  /\ UNCHANGED <<now, lock, overran>>

\* an answer of the broker, or a refusal between the reservation and the
\* placement (a limit order without a price): the reservation stays either way
RouteReturn(w) ==
  /\ w \in Router /\ stage[w] = "placing" /\ Leave(w)
  /\ UNCHANGED <<now, tables, lock, overran>>

AccountFree(a) == lock[a] = None
\* submit() waits for its account
SubmitLock(w, i) ==
  /\ w \in Submitter /\ stage[w] = "idle" /\ AccountFree(AccountOf[ContractOf[i]])
  /\ lock' = [lock EXCEPT ![AccountOf[ContractOf[i]]] = w]
  /\ Enter(w, i, "locked") /\ UNCHANGED <<now, tables, overran>>

\* it reserves; ExecutionConflict leaves the lock at once
SubmitReserve(w) ==
  LET i == intent[w] IN
  /\ stage[w] = "locked" /\ Reserve(i)
  /\ IF Admits(i)
       THEN Enter(w, i, "placing") /\ UNCHANGED lock
       ELSE Leave(w) /\ lock' = [lock EXCEPT ![AccountOf[ContractOf[i]]] = None]
  /\ UNCHANGED <<now, overran>>

\* place_coro returned or raised: released, unlocked
SubmitReturn(w) ==
  LET i == intent[w] IN
  /\ w \in Submitter /\ stage[w] = "placing" /\ Release(i) /\ Leave(w)
  /\ lock' = [lock EXCEPT ![AccountOf[ContractOf[i]]] = None]
  /\ overran' = (overran \/ now - since[w] > InflightTTL)
  /\ UNCHANGED <<now, recent>>

CoordNext ==
  \/ Tick
  \/ \E w \in Router : RouteReturn(w) \/ \E i \in Intent : RouteReserve(w, i)
  \/ \E w \in Submitter :
       SubmitReserve(w) \/ SubmitReturn(w) \/ \E i \in Intent : SubmitLock(w, i)

CoordSpec == CoordInit /\ [][CoordNext]_coordVars

-----------------------------------------------------------------------------
CoordTypeOK ==
  /\ now \in Time
  /\ recent \in [Intent -> Time \cup {None}]
  /\ inflight \in [Contract -> Time \cup {None}]
  /\ lock \in [Account -> Submitter \cup {None}]
  /\ stage \in [Caller -> {"idle", "locked", "placing"}]
  /\ intent \in [Caller -> Intent \cup {None}] /\ since \in [Caller -> Time]
  /\ \A w \in Caller : stage[w] # "idle" => intent[w] \in Intent
  /\ overran \in BOOLEAN

Placing(w) == stage[w] = "placing"
Young(w) == Placing(w) /\ now - since[w] <= InflightTTL

\* Two placements on one contract are in flight together only when the older
\* has outlived its reservation (a broker call slower than the TTL), as long as
\* no submit() did: its release would have dropped another caller's reservation.
OneInFlight ==
  \A v, w \in Caller : v # w /\ Young(v) /\ Young(w) =>
    overran \/ ContractOf[intent[v]] # ContractOf[intent[w]]

\* submit() never has two placements of one account at the broker.
AccountSerial ==
  \A v, w \in Submitter : v # w /\ Placing(v) /\ Placing(w) =>
    AccountOf[ContractOf[intent[v]]] # AccountOf[ContractOf[intent[w]]]
=============================================================================
