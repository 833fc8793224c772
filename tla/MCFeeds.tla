------------------------------ MODULE MCFeeds ------------------------------
(* The market data in one run: the gateway's hub; the subscriptions of the *)
(* legacy engine's feed with two keys, the ages of its prices with one,    *)
(* and the caches and the breaker of its DataHub.  `part` picks which one  *)
(* runs; the others rest.                                                  *)
EXTENDS FeedHub, PushFeed, DataHub, BrokerSession

CONSTANTS k1, k2, ta, da, w1, w2, r1, r2
VARIABLE part

Prices == Passes \/ WriteBack \/ PollFails \/ \E k \in Keys : OtherFrame(k) \/ Moves(k) \/ Poll(k)
Wiring ==
  \/ \E S \in SUBSET Keys : Note(S) \/ \E k \in Keys : UnsubscribeKey(k)
  \/ Send \/ WantOrders \/ Authenticated \/ Rejected \/ ReplayLists \/ ReplaySends
  \/ Disconnects \/ Redial \/ GoesMute \/ PongWatchdog

feedVars == <<part, hubVars, pushVars, dataVars, sessionVars>>
FeedsInit ==
  /\ part \in {"hub", "streams", "prices", "data", "session"}
  /\ HubInit /\ PushInit /\ DataInit /\ SessionInit
  /\ (part = "data") = (asked # "nothing")
FeedsNext ==
  /\ UNCHANGED part
  /\ \/ part = "hub" /\ HubNext /\ UNCHANGED <<pushVars, dataVars, sessionVars>>
     \/ part = "streams" /\ Wiring /\ UNCHANGED <<hubVars, dataVars, sessionVars>>
     \/ part = "prices" /\ PushNext /\ wants' \subseteq {k1} /\ UNCHANGED <<hubVars, dataVars, sessionVars>>
     \/ part = "data" /\ DataNext /\ UNCHANGED <<hubVars, pushVars, sessionVars>>
     \/ part = "session" /\ SessionNext /\ UNCHANGED <<hubVars, pushVars, dataVars>>

Hub == part = "hub"
Data == part = "data"
Session == part = "session"
FeedsSpec ==
  /\ FeedsInit /\ [][FeedsNext]_feedVars
  /\ WF_hubVars(Hub /\ Loop) /\ WF_hubVars(Hub /\ Callbacks) /\ WF_hubVars(Hub /\ SocketOpens)
  /\ WF_hubVars(Hub /\ Reopen) /\ WF_hubVars(Hub /\ (DisconnectTears \/ LogsOut))
  /\ WF_hubVars(Hub /\ Sends) /\ WF_hubVars(Hub /\ ProbeEnds)
  /\ WF_dataVars(Data /\ HoldPasses) /\ WF_dataVars(Data /\ ComesBack)
  /\ WF_dataVars(Data /\ \E t \in Threads : Fetches(t))
  /\ WF_dataVars(Data /\ \E t \in Threads : Asks(t))
  /\ \A r \in Requests : WF_sessionVars(Session /\ Works(r))
  /\ WF_sessionVars(Session /\ \E r \in Requests : UserAsks(r))
  /\ WF_sessionVars(Session /\ auth = Absent /\ \E r \in Requests : ConnectAsks(r))
=============================================================================
