-------------------------- MODULE MCGatewayOrders --------------------------
(* The order side of the gateway in one run: the route with its            *)
(* reservations, the rollover that goes through the route, the persistent  *)
(* orders that do not, the ways an order leaves for the broker, and the    *)
(* ledger that books what they all come to.                                *)
(* The ledger runs three times: two orders of any kind without losses; one *)
(* order with lost answers and position syncs; an exit and the re-entry of *)
(* the lot it closed.  `part` picks which one runs.                        *)
EXTENDS LotLedger, Rollover, PersistentOrders, Egress, TLC

CONSTANTS a1, c1, i1, i2, k1, k2, s1, s2, l1, p1, o1, o2
VARIABLE part

MCAccountOf == c1 :> a1
MCContractOf == (i1 :> c1) @@ (i2 :> c1)
FarOfL1 == l1 :> i1
TwoShares == l1 :> 2
TwoWanted == p1 :> 2

Ledgers == {"orders", "losses", "again"}
Init ==
  /\ part \in {"route", "rollover", "persistent", "egress"} \cup Ledgers
  /\ RollInit /\ PersistInit /\ LedgerInit /\ EgressInit
  /\ part # "egress" => registered = Paths
  /\ part # "losses" => missed = 0

LedgerPart ==
  \/ part = "orders" /\ (PlaceNext \/ BrokerNext \/ PassNext)
  \/ part = "losses" /\ (PlaceNext \/ CardNext) /\ orders = <<>>
  \/ part = "losses" /\ (BrokerNext \/ PassNext \/ LossNext)
  \/ part = "again" /\ (\E n \in Lots : PlaceExit(n, Held))
  \/ part = "again" /\ (ReenterNext \/ BrokerNext \/ PassNext)
Next ==
  /\ UNCHANGED part
  /\ \/ part = "route" /\ CoordNext /\ UNCHANGED <<rollVars, poVars, ledgerVars, egressVars>>
     \/ part = "rollover" /\ RollNext /\ UNCHANGED <<poVars, ledgerVars, egressVars>>
     \/ part = "persistent" /\ PersistNext /\ UNCHANGED <<allVars, ledgerVars, egressVars>>
     \/ part = "egress" /\ EgressNext /\ UNCHANGED <<allVars, poVars, ledgerVars>>
     \/ LedgerPart /\ UNCHANGED <<allVars, poVars, egressVars>>
Spec == Init /\ [][Next]_<<part, allVars, poVars, ledgerVars, egressVars>>
=============================================================================
