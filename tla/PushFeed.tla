------------------------------ MODULE PushFeed ------------------------------
(***************************************************************************)
(* The legacy engine's market data: the one broker websocket               *)
(* (ShoonyaFeed, src/shoonya_client.py), the cache its frames are merged   *)
(* into (src/feed/cache.py), the REST keeper beside it (src/feed/pump.py)  *)
(* and the freshness test of the readers (DataHub._feed_quote).            *)
(*                                                                         *)
(* Three threads share the state: the application that subscribes, the     *)
(* socket thread that connects, replays and merges, and the keeper.  A     *)
(* cached price is known by how long ago it ceased to be the market's.     *)
(* Frames arrive within a unit of time and in order, or not at all.        *)
(***************************************************************************)
EXTENDS Integers, FiniteSets

CONSTANTS
  Keys,            \* "EXCH|TOKEN"
  MaxAge,          \* FEED_FRESH_SECONDS, what a reader takes as fresh
  StaleAfter,      \* stale_after of the keeper
  PollTime,        \* longest REST call of the keeper
  Keeper,          \* whether the keeper runs
  MaxDrops, MaxAsks     \* bounds

ASSUME PushAssumption ==
  /\ {MaxAge, StaleAfter, PollTime, MaxDrops, MaxAsks} \subseteq Nat
  /\ StaleAfter <= MaxAge /\ Keeper \in BOOLEAN

NoKey == "none"
Current == -1                     \* still the market's price
Oldest == MaxAge + PollTime + 1   \* where the ages of prices saturate
Stale == MaxAge + 1               \* where the ages of stamps saturate: never, too

VARIABLES
  wants, wantOrders,  \* _subs and _want_orders
  asking,             \* an application call between its note and its send
  connected,          \* the event _connected
  link,               \* "down", "dialling", "up" at the broker, "mute": up and dead
  served, orderFeed,  \* what the broker streams on this connection
  replay,             \* _replay_state: "idle", "lists" (it iterates over _subs), "sends"
  todo,               \* the keys it has listed
  torn,               \* observation: this connection's replay died in its iteration
  left,               \* the cache: how long ago lp ceased to be the market's price
  stamp,              \* how long ago mono_ts was set
  undone,             \* observation: keys whose newer price a poll has overwritten
  poll,               \* the keeper's REST call: key, its price's left, its duration
  drops, asks

app == <<wants, wantOrders, asking>>
replaying == <<replay, todo, torn>>
wire == <<connected, link, served, orderFeed, replaying>>
cache == <<left, stamp, undone>>
pushVars == <<app, wire, cache, poll, drops, asks>>

NoPoll == [key |-> NoKey, left |-> Current, took |-> 0]

PushInit ==
  /\ wants = {} /\ wantOrders = FALSE /\ asking = {}
  /\ connected = FALSE /\ link = "dialling" /\ served = {} /\ orderFeed = FALSE
  /\ replay = "idle" /\ todo = {} /\ torn = FALSE
  /\ left = [k \in Keys |-> Oldest] /\ stamp = [k \in Keys |-> Stale] /\ undone = {}
  /\ poll = NoPoll /\ drops = 0 /\ asks = 0

-----------------------------------------------------------------------------
\* The cache

\* apply: what the frames carry overwrites, and every frame stamps its key
SharedStamp(S) == [k \in Keys |-> IF stamp[k] # Stale \/ k \in S THEN 0 ELSE Stale]  \* mutant: one stamp
Stamped(S) == [k \in Keys |-> IF k \in S THEN 0 ELSE stamp[k]]
Apply(withPrice, S) ==
  /\ left' = [k \in Keys |-> IF k \in withPrice THEN Current ELSE left[k]]
  /\ stamp' = Stamped(S) /\ undone' = undone \ withPrice
Fresh(k, age) == stamp[k] <= age

-----------------------------------------------------------------------------
\* The application thread

\* an iteration over _subs dies when its size changes under it
Tears ==
  \/ UNCHANGED replaying
  \/ replay = "lists" /\ replay' = "idle" /\ torn' = TRUE /\ UNCHANGED todo

\* subscribe: note the keys, then send them if the link is authenticated.
\* A frame with the full state answers
Note(S) ==
  /\ asking = {} /\ asks < MaxAsks /\ S # {} /\ S \cap wants = {}
  /\ wants' = wants \cup S /\ asking' = S /\ asks' = asks + 1
  /\ Tears
  /\ UNCHANGED <<wantOrders, connected, link, served, orderFeed, cache, poll, drops>>
Reaches(S) == IF link = "up" THEN S ELSE {}
Send ==
  /\ asking # {} /\ asking' = {}
  /\ LET S == IF connected THEN Reaches(asking) ELSE {} IN
       served' = served \cup S /\ Apply(S, S)
  /\ UNCHANGED <<wants, wantOrders, connected, link, orderFeed, replaying, poll, drops, asks>>
\* unsubscribe: pop and send
UnsubscribeKey(k) ==
  /\ asking = {} /\ asks < MaxAsks /\ k \in wants
  /\ wants' = wants \ {k} /\ asks' = asks + 1 /\ Tears
  /\ served' = IF connected THEN served \ Reaches({k}) ELSE served
  /\ UNCHANGED <<wantOrders, asking, connected, link, orderFeed, cache, poll, drops>>
\* subscribe_orders
WantOrders ==
  /\ asking = {} /\ ~wantOrders /\ wantOrders' = TRUE
  /\ orderFeed' = (orderFeed \/ (connected /\ link = "up"))
  /\ UNCHANGED <<wants, asking, connected, link, served, replaying, cache, poll, drops, asks>>

-----------------------------------------------------------------------------
\* The socket thread

\* the ack of the login sets _connected, then _replay_state reads _subs
Authenticated ==
  /\ link = "dialling" /\ link' = "up" /\ connected' = TRUE
  /\ replay' = "lists" /\ todo' = {} /\ torn' = FALSE
  /\ served' = {} /\ orderFeed' = FALSE
  /\ UNCHANGED <<app, cache, poll, drops, asks>>
Rejected ==
  /\ link = "dialling" /\ drops < MaxDrops /\ drops' = drops + 1 /\ link' = "down"
  /\ UNCHANGED <<app, connected, served, orderFeed, replaying, cache, poll, asks>>
\* _replay_state: both lists, then a message per kind and the order stream
ListedNone(S) == {}  \* mutant: a kind is left out
Listed(S) == S
ReplayLists ==
  /\ replay = "lists" /\ replay' = "sends" /\ todo' = Listed(wants)
  /\ UNCHANGED <<app, connected, link, served, orderFeed, torn, cache, poll, drops, asks>>
ReplaySends ==
  /\ replay = "sends" /\ replay' = "idle" /\ todo' = {}
  /\ served' = served \cup Reaches(todo) /\ Apply(Reaches(todo), Reaches(todo))
  /\ orderFeed' = (orderFeed \/ (wantOrders /\ link = "up"))
  /\ UNCHANGED <<app, connected, link, torn, poll, drops, asks>>

\* the connection ends, perhaps under the replay; _run then clears _connected
\* and dials again
Disconnects ==
  /\ link = "up" /\ drops < MaxDrops /\ drops' = drops + 1
  /\ link' = "down" /\ served' = {} /\ orderFeed' = FALSE
  /\ UNCHANGED <<app, connected, replaying, cache, poll, asks>>
Redial ==
  /\ link = "down" /\ replay = "idle" /\ link' = "dialling" /\ connected' = FALSE
  /\ UNCHANGED <<app, served, orderFeed, replaying, cache, poll, drops, asks>>
\* nothing arrives and nothing says so, until _watchdog closes the connection
GoesMute ==
  /\ link = "up" /\ drops < MaxDrops /\ drops' = drops + 1 /\ link' = "mute"
  /\ UNCHANGED <<app, connected, served, orderFeed, replaying, cache, poll, asks>>
PongWatchdog ==
  /\ link = "mute" /\ connected /\ link' = "down" /\ served' = {} /\ orderFeed' = FALSE
  /\ UNCHANGED <<app, connected, replaying, cache, poll, drops, asks>>

\* a frame about other fields than the price
OtherFrame(k) ==
  /\ link = "up" /\ k \in served /\ stamp[k] # 0 /\ Apply({}, {k})
  /\ UNCHANGED <<app, wire, poll, drops, asks>>

-----------------------------------------------------------------------------
\* The market's price changes: a streamed key has the new one at once
Leave(age) == IF age = Current THEN 0 ELSE age
Moves(k) ==
  /\ IF k \in served /\ link = "up" THEN Apply({k}, {k})
     ELSE left' = [left EXCEPT ![k] = Leave(@)] /\ UNCHANGED <<stamp, undone>>
  /\ poll' = IF poll.key = k THEN [poll EXCEPT !.left = Leave(@)] ELSE poll
  /\ UNCHANGED <<app, wire, drops, asks>>

\* time passes
Older(age) == IF age \in {Current, Oldest} THEN age ELSE age + 1
Passes ==
  /\ left' = [k \in Keys |-> Older(left[k])]
  /\ stamp' = [k \in Keys |-> IF stamp[k] = Stale THEN Stale ELSE stamp[k] + 1]
  /\ \/ poll.key = NoKey /\ UNCHANGED poll
     \/ /\ poll.key # NoKey /\ poll.took < PollTime
        /\ poll' = [poll EXCEPT !.left = Older(@), !.took = @ + 1]
  /\ UNCHANGED <<app, wire, undone, drops, asks>>

-----------------------------------------------------------------------------
\* The keeper

\* stale_keys
StaleKeys == {k \in wants : ~Fresh(k, StaleAfter)}
Poll(k) ==
  /\ Keeper /\ poll.key = NoKey /\ k \in StaleKeys
  /\ poll' = [NoPoll EXCEPT !.key = k]
  /\ UNCHANGED <<app, wire, cache, drops, asks>>
\* apply_quote: whatever has been merged meanwhile is overwritten
WriteBack ==
  /\ poll.key # NoKey /\ poll' = NoPoll
  /\ left' = [left EXCEPT ![poll.key] = poll.left] /\ stamp' = Stamped({poll.key})
  /\ undone' = IF poll.left > left[poll.key] THEN undone \cup {poll.key} ELSE undone
  /\ UNCHANGED <<app, wire, drops, asks>>
PollFails ==
  /\ poll.key # NoKey /\ poll' = NoPoll /\ UNCHANGED <<app, wire, cache, drops, asks>>

PushNext ==
  \/ \E S \in SUBSET Keys : Note(S)
  \/ \E k \in Keys : UnsubscribeKey(k) \/ OtherFrame(k) \/ Moves(k) \/ Poll(k)
  \/ Send \/ WantOrders \/ Authenticated \/ Rejected \/ ReplayLists \/ ReplaySends
  \/ Disconnects \/ Redial \/ GoesMute \/ PongWatchdog \/ Passes \/ WriteBack \/ PollFails
PushSpec == PushInit /\ [][PushNext]_pushVars

-----------------------------------------------------------------------------
PushTypeOK ==
  /\ {wants, asking, served, todo, undone} \subseteq SUBSET Keys
  /\ {wantOrders, connected, orderFeed, torn} \subseteq BOOLEAN
  /\ link \in {"down", "dialling", "up", "mute"} /\ replay \in {"idle", "lists", "sends"}
  /\ left \in [Keys -> Current..Oldest] /\ stamp \in [Keys -> 0..Stale]
  /\ poll \in [key : Keys \cup {NoKey}, left : Current..Oldest, took : 0..PollTime]
  /\ drops \in 0..MaxDrops /\ asks \in 0..MaxAsks

\* "After (re)connect: restore every subscription + order stream": whenever the
\* link stands and neither thread is in the middle of a call, the broker streams
\* whatever is wanted, whichever way subscribing and unsubscribing interleaved
\* with the drop, the login and the replay, unless the replay died because the
\* application changed _subs during its iteration.
StreamsRestored ==
  link = "up" /\ replay = "idle" /\ asking = {} /\ ~torn
    => wants \subseteq served /\ (wantOrders => orderFeed)

\* A price that a reader takes as fresh was the market's price not longer ago
\* than the limit, and the longest poll if the keeper runs: through drops,
\* half-dead links, frames without a price and late poll answers, except where
\* a late answer has overwritten a newer price: frames about other fields then
\* keep the old one fresh.
FreshIsRecent ==
  \A k \in Keys : Fresh(k, MaxAge) /\ k \notin undone =>
    left[k] <= MaxAge + (IF Keeper THEN PollTime ELSE 0)
=============================================================================
