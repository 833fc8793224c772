---------------------------- MODULE Feeds_proofs ----------------------------
(***************************************************************************)
(* Proofs about the two live feeds, the gateway's hub of streams and the   *)
(* push feed of the legacy engine: for any streams and keys, any number of *)
(* drops, logins, subscriptions and polls, and any ages and limits.        *)
(***************************************************************************)
EXTENDS FeedHub, PushFeed, DataHub, TLAPS

-----------------------------------------------------------------------------
(* The gateway's hub                                                       *)

\* A stream that subscribe has added and not sent yet.
Pending == {s \in Streams : s = call}
Had == subs \cup stolen \cup Pending
\* What on_open has still to list is owed by nobody; what it has listed, by its
\* own send; everything else is streamed, or being sent by its subscribe.
HubInv ==
  /\ wanted \subseteq Streams /\ call \in Streams \cup {None} /\ "wsOpen" \in DOMAIN flags
  /\ opening.at \in {"idle", "marked", "touch", "depth"}
  /\ flags.wsOpen /\ Up =>
       /\ opening.at = "touch" => wanted \cap Touch \subseteq Had \cup opening.todo
       /\ opening.at = "depth" => wanted \cap Touch \subseteq Had /\ wanted \cap Depth \subseteq Had \cup opening.todo
       /\ opening.at = "idle" /\ orders => wanted \subseteq Had

\* A socket that ends or is replaced owes nothing.
LEMMA GoneOwesNothing ==
  ASSUME HubInv, wanted' = wanted, call' = call, opening' = Quiet, sock' # "up" \/ orders' = FALSE,
         "wsOpen" \in DOMAIN flags'
  PROVE  HubInv'
BY DEF HubInv, Up, Quiet

\* A step that leaves the streams alone, or only closes the feed in the flags.
LEMMA HubStays ==
  ASSUME HubInv, UNCHANGED <<wanted, call, sock, subs, orders, opening, stolen>>,
         silent' = silent \/ silent', flags'.wsOpen => flags.wsOpen, "wsOpen" \in DOMAIN flags'
  PROVE  HubInv'
BY DEF HubInv, Up, Had, Pending

\* Every step keeps what is owed.
LEMMA HubStep == HubInv /\ [HubNext]_hubVars => HubInv'
<1> SUFFICES ASSUME HubInv, [HubNext]_hubVars PROVE HubInv'
  OBVIOUS
<1>0. ASSUME NEW f, "wsOpen" \in DOMAIN f, NEW a, NEW b
      PROVE  /\ \A g \in {[f EXCEPT !.wsOpen = FALSE], [f EXCEPT !.wsOpen = FALSE, !.running = a],
                          [f EXCEPT !.stopped = a, !.running = b, !.wsOpen = FALSE],
                          [f EXCEPT !.expired = a, !.wsOpen = FALSE, !.running = b]} :
                  "wsOpen" \in DOMAIN g /\ g.wsOpen = FALSE
             /\ "wsOpen" \in DOMAIN [f EXCEPT !.wsOpen = a, !.expired = b]
             /\ \A c : "wsOpen" \in DOMAIN [f EXCEPT !.stopped = a, !.expired = b, !.running = c]
  BY <1>0
<1>1. ASSUME NEW f, "wsOpen" \in DOMAIN f, NEW state \in {"none", "dialling"},
             TearDown(f, state), UNCHANGED <<wanted, call>>
      PROVE  HubInv'
  <2>1. "wsOpen" \in DOMAIN flags'
    BY <1>0, <1>1 DEF TearDown, Closed
  <2> QED BY <1>1, <2>1, GoneOwesNothing DEF TearDown, LinkBecomes
<1>2. CASE Loop \/ LateClose \/ Slow \/ TokenExpires \/ UNCHANGED hubVars
  <2>1. UNCHANGED <<wanted, call, sock, subs, orders, opening, stolen>> /\ (silent' = silent \/ silent')
    BY <1>2 DEF Loop, Kicked, Watchdog, Stands, Attempt, Succeeds, GivesUp, BacksOff, Declares,
                LateClose, Slow, TokenExpires, hubVars, socket, clients
  <2>2. (flags'.wsOpen => flags.wsOpen) /\ "wsOpen" \in DOMAIN flags'
    <3> USE DEF HubInv
    <3>1. CASE flags' = flags
      BY <3>1
    <3>2. CASE Attempt \/ Declares \/ LateClose
      BY <1>0, <3>2 DEF Attempt, Declares, LateClose, Closed
    <3>3. flags' = flags \/ Attempt \/ Declares \/ LateClose
      BY <1>2 DEF Loop, Kicked, Watchdog, Stands, Attempt, Succeeds, GivesUp, BacksOff, Declares,
                LateClose, Slow, TokenExpires, hubVars
    <3> QED BY <3>1, <3>2, <3>3
  <2> QED BY <2>1, <2>2, HubStays
<1>3. CASE SocketOpens \/ Drops
  <2>1. "wsOpen" \in DOMAIN flags'
    BY <1>0, <1>3 DEF SocketOpens, Drops, Closed, HubInv
  <2> QED BY <1>3, <2>1, GoneOwesNothing DEF SocketOpens, Drops, LinkBecomes, clients
<1>4. CASE Reopen \/ Connect \/ DisconnectTears
  BY <1>0, <1>1, <1>4 DEF Reopen, Connect, DisconnectTears, clients, HubInv
<1>5. CASE GoesSilent \/ Disconnect \/ LogsOut
  <2>1. (flags'.wsOpen => flags.wsOpen) /\ "wsOpen" \in DOMAIN flags'
    BY <1>0, <1>5 DEF GoesSilent, Disconnect, LogsOut, HubInv
  <2>2. UNCHANGED <<wanted, call, sock, subs, orders, opening, stolen>> /\ (silent' = silent \/ silent')
    BY <1>5 DEF GoesSilent, Disconnect, LogsOut, socket, clients
  <2> QED BY <2>1, <2>2, HubStays
<1>6. CASE OpenMarks
  BY <1>0, <1>6 DEF OpenMarks, HubInv, clients
<1>7. CASE OpenTouch
  BY <1>7 DEF OpenTouch, Lists, HubInv, Up, Had, Pending, clients
<1>8. CASE OpenDepth
  BY <1>8 DEF OpenDepth, Lists, HubInv, Up, Sent, Had, Pending, clients
<1>9. CASE OpenOrders
  BY <1>9 DEF OpenOrders, HubInv, Up, Sent, Had, Pending, Quiet, Streams, clients
<1>10. ASSUME NEW s \in Streams, Adds(s) PROVE HubInv'
  BY <1>10, HubAssumption DEF Adds, HubInv, Up, Had, Pending, None, Streams, socket
<1>11. ASSUME NEW s \in Streams, Unsubscribe(s) PROVE HubInv'
  BY <1>11 DEF Unsubscribe, HubInv, Up, Had, Pending
<1>12. CASE Sends
  BY <1>12, HubAssumption DEF Sends, HubInv, Up, Sent, Had, Pending, None, Streams
<1>13. ASSUME NEW s \in Depth, ProbeStarts(s) PROVE HubInv'
  BY <1>13 DEF ProbeStarts, HubInv, Up, Sent, Had, Pending
<1>14. CASE ProbeEnds
  BY <1>14 DEF ProbeEnds, HubInv, Up, Had, Pending
<1> QED BY <1>2, <1>3, <1>4, <1>5, <1>6, <1>7, <1>8, <1>9, <1>10, <1>11, <1>12, <1>13, <1>14
        DEF HubNext, Callbacks

\* However subscribing, the drop, the reopening, on_open and the probes
\* interleave, and whatever the number of streams, faults and calls: the broker
\* streams every subscription once the manager takes the feed as open.
THEOREM HubStreamsAgree == HubSpec => []StreamsAgree
<1>1. HubInit => HubInv
  BY DEF HubInit, HubInv, Quiet
<1>2. HubInv => StreamsAgree
  BY HubAssumption DEF HubInv, StreamsAgree, Had, Pending, None, Streams
<1> QED BY <1>1, <1>2, HubStep, PTL DEF HubSpec

-----------------------------------------------------------------------------
(* The push feed: subscriptions                                            *)

\* On a connection whose replay lives, what is wanted is streamed, or an
\* application call is about to send it, or the replay has listed it.
Replaying == IF replay = "sends" THEN todo ELSE {}
ReplayInv ==
  link = "up" => /\ connected
                 /\ replay \in {"idle", "lists", "sends"}
                 /\ ~torn /\ replay # "lists" => wants \subseteq served \cup asking \cup Replaying
                 /\ ~torn /\ replay = "idle" /\ wantOrders => orderFeed

\* Every step of the application, the socket thread and the connection keeps it.
LEMMA ReplayStep == ReplayInv /\ [PushNext]_pushVars => ReplayInv'
<1> SUFFICES ASSUME ReplayInv, [PushNext]_pushVars PROVE ReplayInv'
  OBVIOUS
<1> USE DEF ReplayInv, Replaying
<1>1. ASSUME NEW S \in SUBSET Keys, Note(S) PROVE ReplayInv'
  BY <1>1 DEF Note, Tears, replaying
<1>2. ASSUME NEW k \in Keys, UnsubscribeKey(k) PROVE ReplayInv'
  BY <1>2 DEF UnsubscribeKey, Tears, Reaches, replaying
<1>3. ASSUME UNCHANGED <<app, wire>> PROVE ReplayInv'
  BY <1>3 DEF app, wire, replaying
<1>4. ASSUME NEW k \in Keys, OtherFrame(k) \/ Moves(k) \/ Poll(k) PROVE ReplayInv'
  BY <1>3, <1>4 DEF OtherFrame, Moves, Poll
<1>5. CASE Passes \/ WriteBack \/ PollFails \/ UNCHANGED pushVars
  BY <1>3, <1>5 DEF Passes, WriteBack, PollFails, pushVars
<1>6. CASE Send
  BY <1>6 DEF Send, Reaches, replaying
<1>7. CASE WantOrders
  BY <1>7 DEF WantOrders, replaying
<1>8. CASE Authenticated
  BY <1>8 DEF Authenticated, app
<1>9. CASE Rejected \/ Disconnects \/ Redial \/ GoesMute \/ PongWatchdog
  BY <1>9 DEF Rejected, Disconnects, Redial, GoesMute, PongWatchdog
<1>10. CASE ReplayLists
  BY <1>10 DEF ReplayLists, Listed, app
<1>11. CASE ReplaySends
  BY <1>11 DEF ReplaySends, Reaches, app
<1> QED BY <1>1, <1>2, <1>4, <1>5, <1>6, <1>7, <1>8, <1>9, <1>10, <1>11 DEF PushNext

\* After every login the broker streams what is wanted once both threads are at
\* rest, for any keys and any number of drops and subscriptions, unless the
\* replay died in its iteration.
THEOREM PushStreamsRestored == PushSpec => []StreamsRestored
<1>1. PushInit => ReplayInv
  BY DEF PushInit, ReplayInv
<1>2. ReplayInv => StreamsRestored
  BY DEF ReplayInv, Replaying, StreamsRestored
<1> QED BY <1>1, <1>2, ReplayStep, PTL DEF PushSpec

-----------------------------------------------------------------------------
(* The push feed: ages                                                     *)

\* how much older than its stamp a price can be
Late == IF Keeper THEN PollTime ELSE 0
AgeTypes ==
  /\ left \in [Keys -> Current..Oldest] /\ stamp \in [Keys -> 0..Stale]
  /\ poll \in [key : Keys \cup {NoKey}, left : Current..Oldest, took : 0..PollTime]
\* A streamed key has the market's price, a stamped one a price as old as its
\* stamp and a poll; a poll's price is as old as the poll.
AgeInv ==
  /\ AgeTypes
  /\ ~Keeper => poll.key = NoKey
  /\ poll.left <= poll.took
  /\ link = "up" => \A k \in served \cap Keys : k \notin undone => left[k] = Current
  /\ \A k \in Keys : stamp[k] <= MaxAge /\ k \notin undone => left[k] <= stamp[k] + Late

LEMMA PushNumbers ==
  /\ MaxAge \in Nat /\ PollTime \in Nat /\ Late \in Nat /\ Late <= PollTime
  /\ Current = -1 /\ Oldest = MaxAge + PollTime + 1 /\ Stale = MaxAge + 1
BY PushAssumption DEF Late, Current, Oldest, Stale

\* Frames that bring prices, or come on a live connection for streamed keys.
LEMMA FramesKeepAges ==
  ASSUME AgeInv, NEW W, NEW S, W \subseteq S, Apply(W, S),
         link' = link, S \ W # {} => link = "up" /\ S \subseteq served,
         link = "up" => served' \subseteq served \cup W,
         poll' \in [key : Keys \cup {NoKey}, left : Current..Oldest, took : 0..PollTime],
         ~Keeper => poll'.key = NoKey, poll'.left <= poll'.took
  PROVE  AgeInv'
<1> USE PushNumbers
<1>1. left' \in [Keys -> Current..Oldest] /\ stamp' \in [Keys -> 0..Stale]
  BY DEF AgeInv, AgeTypes, Apply, Stamped
<1>2. ASSUME NEW k \in Keys, k \notin undone', link' = "up", k \in served' PROVE left'[k] = Current
  BY <1>2 DEF AgeInv, AgeTypes, Apply
<1>3. ASSUME NEW k \in Keys, stamp'[k] <= MaxAge, k \notin undone' PROVE left'[k] <= stamp'[k] + Late
  <2>1. CASE k \in W
    BY <2>1 DEF Apply, Stamped
  <2>2. CASE k \in S /\ k \notin W
    <3>1. left[k] = Current /\ left'[k] = left[k] /\ stamp'[k] = 0
      BY <1>3, <2>2 DEF AgeInv, Apply, Stamped
    <3> QED BY <3>1
  <2>3. CASE k \notin S
    <3>1. left'[k] = left[k] /\ stamp'[k] = stamp[k] /\ k \notin undone
      BY <1>3, <2>3 DEF AgeInv, Apply, Stamped
    <3> QED BY <1>3, <3>1 DEF AgeInv
  <2> QED BY <2>1, <2>2, <2>3
<1>4. AgeTypes'
  BY <1>1 DEF AgeTypes
<1>5. Late' = Late
  BY DEF Late
<1> QED BY <1>2, <1>3, <1>4, <1>5 DEF AgeInv

\* Every step keeps the ages.
LEMMA AgeStep == AgeInv /\ [PushNext]_pushVars => AgeInv'
<1> SUFFICES ASSUME AgeInv, [PushNext]_pushVars PROVE AgeInv'
  OBVIOUS
<1> USE PushNumbers
<1> DEFINE PollSet == [key : Keys \cup {NoKey}, left : Current..Oldest, took : 0..PollTime]
<1>0. poll \in PollSet /\ (~Keeper => poll.key = NoKey) /\ poll.left <= poll.took
  BY DEF AgeInv, AgeTypes
<1>1. ASSUME UNCHANGED <<cache, poll>>, link' = "up" => served' = {} \/ (link = "up" /\ served' \subseteq served)
      PROVE  AgeInv'
  BY <1>1 DEF AgeInv, AgeTypes, Late, cache
<1>2. ASSUME NEW S \in SUBSET Keys, Note(S) PROVE AgeInv'
  BY <1>1, <1>2 DEF Note
<1>3. ASSUME NEW k \in Keys, UnsubscribeKey(k) PROVE AgeInv'
  BY <1>1, <1>3 DEF UnsubscribeKey
<1>4. CASE WantOrders \/ ReplayLists \/ Authenticated \/ Rejected \/ Disconnects \/ Redial \/ GoesMute \/ PongWatchdog
  BY <1>1, <1>4 DEF WantOrders, ReplayLists, Authenticated, Rejected, Disconnects, Redial, GoesMute, PongWatchdog
<1>5. CASE PollFails \/ UNCHANGED pushVars
  <2>1. NoPoll \in PollSet /\ NoPoll.key = NoKey /\ NoPoll.left <= NoPoll.took
    BY DEF NoPoll
  <2>2. UNCHANGED <<link, served, cache>> /\ poll' \in {poll, NoPoll}
    BY <1>5 DEF PollFails, pushVars, wire
  <2> QED BY <1>0, <2>1, <2>2 DEF AgeInv, AgeTypes, Late, cache
<1>6. CASE Send \/ ReplaySends
  <2>1. PICK S : Apply(S, S) /\ served' = served \cup S
    BY <1>6 DEF Send, ReplaySends
  <2>2. UNCHANGED <<link, poll>>
    BY <1>6 DEF Send, ReplaySends
  <2> QED BY <1>0, <2>1, <2>2, FramesKeepAges
<1>7. ASSUME NEW k \in Keys, OtherFrame(k) PROVE AgeInv'
  <2>1. Apply({}, {k}) /\ UNCHANGED <<link, served, poll>> /\ link = "up" /\ {k} \subseteq served
    BY <1>7 DEF OtherFrame, wire
  <2> QED BY <1>0, <2>1, FramesKeepAges
<1>8. ASSUME NEW k \in Keys, Moves(k) PROVE AgeInv'
  <2>1. poll' \in PollSet /\ (~Keeper => poll'.key = NoKey) /\ poll'.left <= poll'.took
    <3>1. poll.left \in Current..Oldest /\ poll.took \in 0..PollTime
      BY <1>0
    <3>2. PICK n \in Current..Oldest : n = Leave(poll.left) /\ n <= poll.took
      BY <1>0, <3>1 DEF Leave
    <3>3. poll' = poll \/ poll' = [poll EXCEPT !.left = n]
      BY <1>8, <3>2 DEF Moves
    <3> QED BY <1>0, <3>2, <3>3
  <2>2. UNCHANGED <<link, served>>
    BY <1>8 DEF Moves, wire
  <2>3. CASE k \in served /\ link = "up"
    <3>1. Apply({k}, {k})
      BY <1>8, <2>3 DEF Moves
    <3> QED BY <2>1, <2>2, <3>1, FramesKeepAges
  <2>4. CASE ~(k \in served /\ link = "up")
    <3>1. left' = [left EXCEPT ![k] = Leave(@)] /\ UNCHANGED <<stamp, undone>>
      BY <1>8, <2>4 DEF Moves
    <3>2. left[k] \in Current..Oldest /\ left'[k] = Leave(left[k]) /\ \A j \in Keys \ {k} : left'[j] = left[j]
      BY <3>1 DEF AgeInv, AgeTypes
    <3>3. left' \in [Keys -> Current..Oldest]
      BY <3>1, <3>2 DEF AgeInv, AgeTypes, Leave
    <3>4. AgeTypes'
      BY <2>1, <3>1, <3>3 DEF AgeInv, AgeTypes
    <3>5. ASSUME NEW j \in Keys, j \notin undone', link' = "up", j \in served' PROVE left'[j] = Current
      BY <2>2, <2>4, <3>1, <3>2, <3>5 DEF AgeInv
    <3>6. ASSUME NEW j \in Keys, stamp'[j] <= MaxAge, j \notin undone' PROVE left'[j] <= stamp'[j] + Late
      <4>1. stamp[j] \in 0..Stale /\ left[j] <= stamp[j] + Late
        BY <3>1, <3>6 DEF AgeInv, AgeTypes
      <4>2. left'[j] = left[j] \/ left'[j] = 0
        BY <3>2 DEF Leave
      <4> QED BY <3>1, <4>1, <4>2
    <3>7. Late' = Late
      BY DEF Late
    <3> QED BY <2>1, <3>4, <3>5, <3>6, <3>7 DEF AgeInv
  <2> QED BY <2>3, <2>4
<1>9. ASSUME NEW k \in Keys, Poll(k) PROVE AgeInv'
  <2>1. poll' = [key |-> k, left |-> Current, took |-> 0] /\ Keeper /\ UNCHANGED <<link, served, left, stamp, undone>>
    BY <1>9 DEF Poll, NoPoll, wire, cache
  <2>2. poll' \in PollSet /\ (~Keeper => poll'.key = NoKey) /\ poll'.left <= poll'.took
    BY <2>1
  <2>3. AgeTypes'
    BY <2>1, <2>2 DEF AgeInv, AgeTypes
  <2> QED BY <2>1, <2>2, <2>3 DEF AgeInv, Late
<1>10. CASE WriteBack
  <2>1. /\ poll.key \in Keys /\ Keeper /\ UNCHANGED <<link, served>> /\ poll' = NoPoll
        /\ left' = [left EXCEPT ![poll.key] = poll.left] /\ stamp' = Stamped({poll.key})
        /\ undone' = IF poll.left > left[poll.key] THEN undone \cup {poll.key} ELSE undone
    BY <1>0, <1>10 DEF WriteBack, wire
  <2>2. PICK k \in Keys, n \in Current..Oldest, t \in 0..PollTime :
          k = poll.key /\ n = poll.left /\ t = poll.took /\ n <= t
    BY <1>0, <2>1
  <2>3. /\ left[k] \in Current..Oldest /\ left'[k] = n /\ stamp'[k] = 0 /\ left' \in [Keys -> Current..Oldest]
        /\ stamp' \in [Keys -> 0..Stale] /\ \A j \in Keys \ {k} : left'[j] = left[j] /\ stamp'[j] = stamp[j]
    BY <2>1, <2>2 DEF AgeInv, AgeTypes, Stamped
  <2>4. NoPoll \in PollSet /\ NoPoll.key = NoKey /\ NoPoll.left <= NoPoll.took
    BY DEF NoPoll
  <2>5. AgeTypes'
    BY <2>1, <2>3, <2>4 DEF AgeTypes
  <2>6. ASSUME NEW j \in Keys, j \notin undone', link' = "up", j \in served' PROVE left'[j] = Current
    <3>1. j \notin undone /\ left[j] = Current
      BY <2>1, <2>6 DEF AgeInv
    <3>2. CASE j = k
      BY <2>1, <2>2, <2>3, <2>6, <3>1, <3>2
    <3> QED BY <2>3, <3>1, <3>2
  <2>7. ASSUME NEW j \in Keys, stamp'[j] <= MaxAge, j \notin undone' PROVE left'[j] <= stamp'[j] + Late
    <3>1. Late = PollTime
      BY <2>1 DEF Late
    <3>2. CASE j = k
      BY <2>2, <2>3, <3>1, <3>2
    <3>3. CASE j # k
      BY <2>1, <2>3, <2>7, <3>3 DEF AgeInv
    <3> QED BY <3>2, <3>3
  <2>8. Late' = Late
    BY DEF Late
  <2> QED BY <2>1, <2>4, <2>5, <2>6, <2>7, <2>8 DEF AgeInv
<1>11. CASE Passes
  <2>1. /\ left' = [k \in Keys |-> Older(left[k])] /\ UNCHANGED <<link, served, undone>>
        /\ stamp' = [k \in Keys |-> IF stamp[k] = Stale THEN Stale ELSE stamp[k] + 1]
    BY <1>11 DEF Passes, wire
  <2>2. \A n \in Current..Oldest : Older(n) \in Current..Oldest /\ Older(n) <= n + 1 /\ Older(Current) = Current
    BY DEF Older
  <2>3. left' \in [Keys -> Current..Oldest] /\ stamp' \in [Keys -> 0..Stale]
    BY <2>1, <2>2 DEF AgeInv, AgeTypes
  <2>4. poll' \in PollSet /\ (~Keeper => poll'.key = NoKey) /\ poll'.left <= poll'.took
    <3>1. PICK n \in Current..Oldest : n = Older(poll.left) /\ n <= poll.left + 1
      BY <1>0, <2>2
    <3>2. CASE poll' = poll
      BY <1>0, <3>2
    <3>3. CASE poll.took < PollTime /\ poll' = [poll EXCEPT !.left = n, !.took = @ + 1]
      <4>1. PICK t \in 0..PollTime : t = poll.took + 1
        BY <1>0, <3>3
      <4>2. PICK p \in PollSet : p = [poll EXCEPT !.left = n] /\ p.took = poll.took /\ p.left = n /\ p.key = poll.key
        <5>1. \A q \in PollSet : /\ [q EXCEPT !.left = n] \in PollSet
                                 /\ [q EXCEPT !.left = n].took = q.took
                                 /\ [q EXCEPT !.left = n].left = n /\ [q EXCEPT !.left = n].key = q.key
          OBVIOUS
        <5> QED BY <1>0, <5>1
      <4>3. poll' = [p EXCEPT !.took = t]
        BY <3>3, <4>1, <4>2
      <4>4. poll' \in PollSet /\ poll'.key = p.key /\ poll'.left = n /\ poll'.took = t
        BY <4>2, <4>3
      <4>5. poll.left \in Int /\ poll.took \in Int
        BY <1>0
      <4> QED BY <1>0, <3>1, <4>1, <4>2, <4>4, <4>5
    <3> QED BY <1>11, <3>1, <3>2, <3>3 DEF Passes
  <2>5. AgeTypes'
    BY <2>3, <2>4 DEF AgeTypes
  <2>6. ASSUME NEW k \in Keys, k \notin undone', link' = "up", k \in served' PROVE left'[k] = Current
    BY <2>1, <2>2, <2>6 DEF AgeInv
  <2>7. ASSUME NEW k \in Keys, stamp'[k] <= MaxAge, k \notin undone' PROVE left'[k] <= stamp'[k] + Late
    <3>1. left[k] \in Current..Oldest /\ stamp[k] \in 0..Stale
      BY DEF AgeInv, AgeTypes
    <3>2. stamp'[k] = stamp[k] + 1 /\ stamp[k] <= MaxAge
      BY <2>1, <2>7, <3>1
    <3>3. left[k] <= stamp[k] + Late
      BY <2>1, <2>7, <3>2 DEF AgeInv
    <3> QED BY <2>1, <2>2, <3>1, <3>2, <3>3
  <2>8. Late' = Late
    BY DEF Late
  <2> QED BY <2>4, <2>5, <2>6, <2>7, <2>8 DEF AgeInv
<1> QED BY <1>2, <1>3, <1>4, <1>5, <1>6, <1>7, <1>8, <1>9, <1>10, <1>11 DEF PushNext

\* A price that a reader takes as fresh was the market's within the limit, plus
\* the longest poll, for any keys, limits and polls and any number of drops,
\* except where a late answer overwrote a newer one.
THEOREM PushFreshIsRecent == PushSpec => []FreshIsRecent
<1> USE PushNumbers
<1>1. PushInit => AgeInv
  BY DEF PushInit, AgeInv, AgeTypes, NoPoll
<1>2. AgeInv => FreshIsRecent
  <2> SUFFICES ASSUME AgeInv, NEW k \in Keys, stamp[k] <= MaxAge, k \notin undone PROVE left[k] <= MaxAge + Late
    BY DEF FreshIsRecent, Fresh, Late
  <2>1. left[k] \in Int /\ stamp[k] \in Int /\ left[k] <= stamp[k] + Late
    BY DEF AgeInv, AgeTypes
  <2> QED BY <2>1
<1> QED BY <1>1, <1>2, AgeStep, PTL DEF PushSpec

-----------------------------------------------------------------------------
(* The caches of the DataHub                                               *)

\* the oldest a spot can be when chain_snapshot has it
SpotAge == Longest(FeedFresh, QuoteTtl + CallTime)
EntrySet == [at : Nat, value : Int]
RequestSet ==
  [job : {"none", "quote", "candles", "prefetch", "chain"}, asks : {"spot", "option", "candles"},
   at : {"idle", "call", "answered", "counted", "options"},
   got : {"none", "data", "refused", "failed"}, value : Int, spot : Int, took : 0..CallTime]
\* An entry is as old as its lifetime so far and what it took to fetch.
EntriesOK(c) == c \in [Kinds -> EntrySet] /\ \A k \in Kinds : c[k].value <= c[k].at + Slack[k]
\* An answer is as old as its call; the spot of a chain waits for a worker, and
\* then for the call.
RequestOK(r) ==
  /\ r \in RequestSet
  /\ r.at = "answered" => r.value <= r.took
  /\ r.at = "options" => r.job = "chain"
  /\ r.job = "chain" => r.asks \in {"spot", "option"}
  /\ r.job = "chain" /\ r.asks = "option" =>
       r.spot <= SpotAge + r.took + (IF r.at = "options" THEN 0 ELSE CallTime)
DataInv ==
  /\ tick \in Nat /\ EntriesOK(entries)
  /\ DOMAIN thread = Threads /\ \A t \in Threads : RequestOK(thread[t])

LEMMA DataNumbers ==
  /\ CallTime \in Nat \ {0} /\ FeedFresh \in Nat /\ QuoteTtl \in Nat /\ CandleTtl \in Nat /\ ChainTtl \in Nat
  /\ SpotAge \in Nat /\ SpotAge >= FeedFresh /\ SpotAge >= QuoteTtl + CallTime
  /\ Nothing = -1 /\ Ttl["spot"] = QuoteTtl /\ Ttl["option"] = QuoteTtl
  /\ Slack["spot"] = CallTime /\ Slack["option"] = CallTime /\ Slack["candles"] = CallTime
  /\ Slack["chain"] = SpotAge + 2 * CallTime
  /\ Ttl["candles"] = CandleTtl /\ Ttl["chain"] = ChainTtl
  /\ \A k \in Kinds : Slack[k] \in Nat
BY DataAssumption DEF SpotAge, Longest, Nothing, Slack, Ttl, Kinds

\* A value that is young enough can be stored.
LEMMA KeptIsOK ==
  ASSUME NEW c, EntriesOK(c), NEW k \in Kinds, NEW v \in Int, v <= Slack[k]
  PROVE  EntriesOK(With(c, k, v))
BY DataNumbers DEF EntriesOK, With, EntrySet

LEMMA AtRestIsOK == RequestOK(AtRest)
BY DataNumbers DEF RequestOK, AtRest, RequestSet

\* A request that becomes another good one.
LEMMA BecomesOK ==
  ASSUME DataInv, NEW t \in Threads, NEW r, RequestOK(r), Becomes(t, r), tick' \in Nat, EntriesOK(entries)'
  PROVE  DataInv'
BY DEF DataInv, Becomes, RequestOK

\* Its call begins.
LEMMA CallsOK ==
  ASSUME DataInv, NEW t \in Threads, NEW job \in {"quote", "candles", "prefetch", "chain"},
         NEW k \in {"spot", "option", "candles"}, Calls(t, job, k), tick' \in Nat, EntriesOK(entries)',
         job = "chain" => thread[t].at = "options" /\ thread[t].asks = k
  PROVE  DataInv'
<1> USE DataNumbers
<1> DEFINE r == [thread[t] EXCEPT !.job = job, !.asks = k, !.at = "call", !.took = 0]
<1>1. thread[t] \in RequestSet /\ RequestOK(thread[t])
  BY DEF DataInv, RequestOK
<1>2. /\ r \in RequestSet /\ r.job = job /\ r.asks = k /\ r.at = "call" /\ r.took = 0
      /\ r.spot = thread[t].spot
  <2>1. PICK n \in 0..CallTime : n = 0
    OBVIOUS
  <2>2. \A q \in RequestSet : \A j \in {"quote", "candles", "prefetch", "chain"} :
          [q EXCEPT !.job = j] \in RequestSet
    BY DEF RequestSet
  <2>3. \A q \in RequestSet : \A a \in {"spot", "option", "candles"} : [q EXCEPT !.asks = a] \in RequestSet
    BY DEF RequestSet
  <2>4. \A q \in RequestSet : [q EXCEPT !.at = "call"] \in RequestSet
    BY DEF RequestSet
  <2>5. \A q \in RequestSet : [q EXCEPT !.took = n] \in RequestSet
    BY DEF RequestSet
  <2>6. PICK q \in RequestSet : q = [thread[t] EXCEPT !.job = job]
    BY <1>1, <2>2
  <2>7. PICK u \in RequestSet : u = [q EXCEPT !.asks = k]
    BY <2>3
  <2>8. PICK w \in RequestSet : w = [u EXCEPT !.at = "call"]
    BY <2>4
  <2>9. r = [w EXCEPT !.took = n]
    BY <2>1, <2>6, <2>7, <2>8
  <2>10. r \in RequestSet
    BY <2>5, <2>9
  <2>11. /\ q.job = job /\ q.spot = thread[t].spot
         /\ u.job = q.job /\ u.asks = k /\ u.spot = q.spot
         /\ w.job = u.job /\ w.asks = u.asks /\ w.at = "call" /\ w.spot = u.spot
    BY <1>1, <2>6, <2>7, <2>8 DEF RequestSet
  <2>12. r.job = w.job /\ r.asks = w.asks /\ r.at = w.at /\ r.took = n /\ r.spot = w.spot
    BY <2>9, ZenonT(40) DEF RequestSet
  <2> QED BY <2>1, <2>10, <2>11, <2>12
<1>3. Becomes(t, r)
  BY DEF Calls
<1> HIDE DEF r
<1>4. RequestOK(r)
  <2>1. thread[t].spot \in Int /\ thread[t].took \in 0..CallTime
    BY <1>1 DEF RequestSet
  <2> QED BY <1>1, <1>2, <2>1 DEF RequestOK
<1> QED BY <1>3, <1>4, BecomesOK

\* A chain goes on with a spot, or ends, with a chain or with none.
LEMMA GoesOnOK ==
  ASSUME DataInv, NEW t \in Threads, thread[t].job = "chain", NEW c, EntriesOK(c), NEW v \in Int, GoesOn(t, c, v),
         tick' \in Nat, v <= SpotAge
  PROVE  DataInv'
<1> USE DataNumbers
<1>1. RequestOK(thread[t]) /\ thread[t] \in RequestSet /\ thread[t].spot \in Int /\ thread[t].took \in 0..CallTime
  BY DEF DataInv, RequestOK, RequestSet
<1>2. CASE v # Nothing /\ thread[t].asks = "spot"
  <2> DEFINE r == [thread[t] EXCEPT !.at = "options", !.asks = "option", !.spot = v, !.got = "none"]
  <2>1. r \in RequestSet /\ r.at = "options" /\ r.job = "chain" /\ r.asks = "option" /\ r.spot = v
        /\ r.took = thread[t].took
    BY <1>1 DEF RequestSet
  <2>2. entries' = c /\ Becomes(t, r)
    BY <1>2 DEF GoesOn
  <2> HIDE DEF r
  <2>3. RequestOK(r)
    BY <1>1, <2>1 DEF RequestOK
  <2>4. EntriesOK(entries)'
    BY <2>2 DEF EntriesOK
  <2> QED BY <2>2, <2>3, <2>4, BecomesOK
<1>3. CASE ~(v # Nothing /\ thread[t].asks = "spot")
  <2> DEFINE w == IF v = Nothing THEN Nothing ELSE Longest(thread[t].spot, v)
  <2>1. Becomes(t, AtRest) /\ entries' = With(c, "chain", w)
    BY <1>3 DEF GoesOn
  <2>2. w \in Int /\ w <= Slack["chain"]
    <3>1. CASE v = Nothing
      BY <3>1
    <3>2. CASE v # Nothing
      <4>1. thread[t].spot <= SpotAge + 2 * CallTime
        BY <1>1, <1>3, <3>2 DEF RequestOK
      <4> QED BY <1>1, <3>2, <4>1 DEF Longest
    <3> QED BY <3>1, <3>2
  <2> HIDE DEF w
  <2>3. EntriesOK(With(c, "chain", w))
    BY <2>2, KeptIsOK DEF Kinds
  <2>4. EntriesOK(entries)'
    BY <2>1, <2>3 DEF EntriesOK
  <2> QED BY <2>1, <2>4, AtRestIsOK, BecomesOK
<1> QED BY <1>2, <1>3

\* A chain begins with the spot of the push cache, or with asking for it.
LEMMA ChainBeginsOK ==
  ASSUME tick \in Nat
  PROVE  /\ TickFresh(FeedFresh) =>
              RequestOK([AtRest EXCEPT !.job = "chain", !.asks = "option", !.at = "options", !.spot = tick])
         /\ RequestOK([AtRest EXCEPT !.job = "chain", !.asks = "spot", !.at = "options"])
<1>1. AtRest \in RequestSet /\ AtRest.took = 0
  BY AtRestIsOK DEF RequestOK, AtRest
<1>2. ASSUME NEW p \in RequestSet, NEW x \in {"spot", "option"}
      PROVE  /\ [p EXCEPT !.job = "chain"] \in RequestSet /\ [p EXCEPT !.job = "chain"].took = p.took
             /\ [p EXCEPT !.asks = x] \in RequestSet /\ [p EXCEPT !.asks = x].took = p.took
             /\ [p EXCEPT !.asks = x].job = p.job /\ [p EXCEPT !.asks = x].asks = x
             /\ [p EXCEPT !.at = "options"] \in RequestSet /\ [p EXCEPT !.at = "options"].took = p.took
             /\ [p EXCEPT !.at = "options"].job = p.job /\ [p EXCEPT !.at = "options"].asks = p.asks
             /\ [p EXCEPT !.at = "options"].at = "options" /\ [p EXCEPT !.job = "chain"].job = "chain"
  BY DEF RequestSet
<1>3. ASSUME NEW x \in {"spot", "option"}
      PROVE  \E c \in RequestSet : /\ c = [AtRest EXCEPT !.job = "chain", !.asks = x, !.at = "options"]
                                   /\ c.job = "chain" /\ c.asks = x /\ c.at = "options" /\ c.took = 0
  <2>1. PICK a \in RequestSet : a = [AtRest EXCEPT !.job = "chain"] /\ a.job = "chain" /\ a.took = 0
    BY <1>1, <1>2
  <2>2. PICK b \in RequestSet : b = [a EXCEPT !.asks = x] /\ b.job = "chain" /\ b.asks = x /\ b.took = 0
    <3>1. /\ [a EXCEPT !.asks = x] \in RequestSet /\ [a EXCEPT !.asks = x].took = a.took
          /\ [a EXCEPT !.asks = x].job = a.job /\ [a EXCEPT !.asks = x].asks = x
      BY <1>2
    <3> QED BY <2>1, <3>1
  <2>3. PICK c \in RequestSet : c = [b EXCEPT !.at = "options"] /\ c.job = "chain" /\ c.asks = x
                                /\ c.at = "options" /\ c.took = 0
    <3>1. /\ [b EXCEPT !.at = "options"] \in RequestSet /\ [b EXCEPT !.at = "options"].took = b.took
          /\ [b EXCEPT !.at = "options"].job = b.job /\ [b EXCEPT !.at = "options"].asks = b.asks
          /\ [b EXCEPT !.at = "options"].at = "options"
      BY <1>2
    <3> QED BY <2>2, <3>1
  <2>4. c = [AtRest EXCEPT !.job = "chain", !.asks = x, !.at = "options"]
    BY <2>1, <2>2, <2>3
  <2> QED BY <2>3, <2>4
<1>4. RequestOK([AtRest EXCEPT !.job = "chain", !.asks = "spot", !.at = "options"])
  <2>1. PICK c \in RequestSet : /\ c = [AtRest EXCEPT !.job = "chain", !.asks = "spot", !.at = "options"]
                                /\ c.job = "chain" /\ c.asks = "spot" /\ c.at = "options" /\ c.took = 0
    BY <1>3
  <2> QED BY <2>1 DEF RequestOK
<1>5. PICK c \in RequestSet : /\ c = [AtRest EXCEPT !.job = "chain", !.asks = "option", !.at = "options"]
                              /\ c.job = "chain" /\ c.asks = "option" /\ c.at = "options" /\ c.took = 0
  BY <1>3
<1> DEFINE q == [c EXCEPT !.spot = tick]
<1>6. q \in RequestSet /\ q.job = c.job /\ q.asks = c.asks /\ q.at = c.at /\ q.took = c.took /\ q.spot = tick
  BY DEF RequestSet
<1>7. q = [AtRest EXCEPT !.job = "chain", !.asks = "option", !.at = "options", !.spot = tick]
  BY <1>5
<1> HIDE DEF q
<1>8. TickFresh(FeedFresh) => RequestOK(q)
  BY <1>5, <1>6, DataNumbers DEF RequestOK, TickFresh
<1> QED BY <1>4, <1>7, <1>8

\* Every request, answer, failure and passing of time keeps them.
LEMMA DataStep == DataInv /\ [DataNext]_dataVars => DataInv'
<1> SUFFICES ASSUME DataInv, [DataNext]_dataVars PROVE DataInv'
  OBVIOUS
<1> USE DataNumbers
<1>0. tick \in Nat /\ EntriesOK(entries) /\ DOMAIN thread = Threads /\ \A t \in Threads : RequestOK(thread[t])
  BY DEF DataInv
<1>1. CASE SpotTick \/ GoesDown \/ ComesBack \/ UNCHANGED dataVars
  <2>1. tick' \in Nat /\ UNCHANGED <<entries, thread>>
    BY <1>0, <1>1 DEF SpotTick, GoesDown, ComesBack, dataVars
  <2> QED BY <1>0, <2>1 DEF DataInv, EntriesOK, RequestOK
<1>2. ASSUME UNCHANGED entries PROVE EntriesOK(entries)'
  BY <1>0, <1>2 DEF EntriesOK
<1>3. ASSUME NEW k \in Kinds, Keeps(k, Nothing) PROVE EntriesOK(entries)'
  <2>1. EntriesOK(With(entries, k, Nothing))
    BY <1>0, KeptIsOK
  <2> QED BY <1>3, <2>1 DEF Keeps, EntriesOK
<1>4. ASSUME NEW t \in Threads, AskQuote(t) PROVE DataInv'
  <2>1. UNCHANGED <<tick, entries>>
    BY <1>4 DEF AskQuote
  <2>2. CASE UNCHANGED thread
    BY <1>0, <2>1, <2>2 DEF DataInv, EntriesOK, RequestOK
  <2>3. CASE Calls(t, "quote", "option")
    BY <1>0, <1>2, <2>1, <2>3, CallsOK
  <2> QED BY <1>4, <2>2, <2>3 DEF AskQuote
<1>5. ASSUME NEW t \in Threads, AskCandles(t) \/ Prefetch(t) PROVE DataInv'
  <2>1. UNCHANGED tick
    BY <1>5 DEF AskCandles, Prefetch
  <2>2. CASE Keeps("candles", Nothing) /\ UNCHANGED thread
    <3>1. EntriesOK(entries)'
      BY <1>3, <2>2 DEF Kinds
    <3> QED BY <1>0, <2>1, <2>2, <3>1 DEF DataInv, RequestOK
  <2>3. ASSUME NEW job \in {"candles", "prefetch"}, Calls(t, job, "candles"), UNCHANGED entries PROVE DataInv'
    BY <1>0, <1>2, <2>1, <2>3, CallsOK
  <2> QED BY <1>5, <2>2, <2>3 DEF AskCandles, Prefetch
<1>6. ASSUME NEW t \in Threads, AskChain(t) PROVE DataInv'
  <2>1. UNCHANGED <<tick, entries>>
    BY <1>6 DEF AskChain
  <2> DEFINE q == [AtRest EXCEPT !.job = "chain", !.asks = "option", !.at = "options", !.spot = tick]
  <2> DEFINE r == [AtRest EXCEPT !.job = "chain", !.asks = "spot", !.at = "options"]
  <2>3. (TickFresh(FeedFresh) => RequestOK(q)) /\ RequestOK(r)
    BY <1>0, ChainBeginsOK
  <2>4. (TickFresh(FeedFresh) /\ Becomes(t, q)) \/ Becomes(t, r)
    BY <1>6 DEF AskChain
  <2> HIDE DEF q, r
  <2> QED BY <1>0, <1>2, <2>1, <2>3, <2>4, BecomesOK
<1>7. ASSUME NEW t \in Threads, ChainAsks(t) PROVE DataInv'
  <2>1. PICK k \in {"spot", "option"} :
          /\ k = thread[t].asks /\ thread[t].at = "options" /\ thread[t].job = "chain" /\ UNCHANGED tick
          /\ \/ GoesOn(t, entries, Nothing)
             \/ TickFresh(QuoteTtl) /\ GoesOn(t, entries, tick)
             \/ Hit(k) /\ GoesOn(t, entries, entries[k].value)
             \/ Calls(t, "chain", k) /\ UNCHANGED entries
    BY <1>0, <1>7 DEF ChainAsks, RequestOK
  <2>2. CASE GoesOn(t, entries, Nothing)
    BY <1>0, <2>1, <2>2, GoesOnOK
  <2>3. CASE TickFresh(QuoteTtl) /\ GoesOn(t, entries, tick)
    <3>1. tick \in Int /\ tick <= SpotAge
      BY <1>0, <2>3 DEF TickFresh
    <3> QED BY <1>0, <2>1, <2>3, <3>1, GoesOnOK
  <2>4. CASE Hit(k) /\ GoesOn(t, entries, entries[k].value)
    <3>1. entries[k].at \in Nat /\ entries[k].value \in Int /\ entries[k].value <= entries[k].at + CallTime
      BY <1>0, <2>1 DEF EntriesOK, EntrySet, Kinds
    <3>2. entries[k].at < QuoteTtl
      BY <2>1, <2>4 DEF Hit
    <3>3. entries[k].value <= SpotAge
      BY <3>1, <3>2
    <3> QED BY <1>0, <2>1, <2>4, <3>1, <3>3, GoesOnOK
  <2>5. CASE Calls(t, "chain", k) /\ UNCHANGED entries
    BY <1>0, <1>2, <2>1, <2>5, CallsOK
  <2> QED BY <2>1, <2>2, <2>3, <2>4, <2>5
<1>8. ASSUME NEW t \in Threads, NEW got \in {"data", "none", "refused", "failed"}, BrokerAnswers(t, got) PROVE DataInv'
  <2> DEFINE v == IF got = "data" THEN 0 ELSE Nothing
  <2> DEFINE r == [thread[t] EXCEPT !.at = "answered", !.got = got, !.value = v]
  <2>1. RequestOK(thread[t]) /\ thread[t] \in RequestSet /\ thread[t].took \in 0..CallTime
    BY <1>0 DEF RequestOK, RequestSet
  <2>2. Becomes(t, r) /\ UNCHANGED <<tick, entries>> /\ thread[t].at = "call"
    BY <1>8 DEF BrokerAnswers
  <2>3. v \in Int /\ v <= 0
    OBVIOUS
  <2> HIDE DEF v
  <2>4. /\ r \in RequestSet /\ r.at = "answered" /\ r.value = v /\ r.took = thread[t].took
        /\ r.job = thread[t].job /\ r.asks = thread[t].asks /\ r.spot = thread[t].spot
    BY <2>1, <2>3 DEF RequestSet
  <2> HIDE DEF r
  <2>5. RequestOK(r)
    BY <2>1, <2>2, <2>3, <2>4 DEF RequestOK
  <2> QED BY <1>0, <1>2, <2>2, <2>5, BecomesOK
<1>10. ASSUME NEW t \in Threads, Returns(t) PROVE DataInv'
  <2>1. RequestOK(thread[t]) /\ thread[t] \in RequestSet /\ thread[t].took \in 0..CallTime
    BY <1>0 DEF RequestOK, RequestSet
  <2>2. /\ thread[t].at = "answered" /\ UNCHANGED tick /\ thread[t].value \in Int /\ thread[t].value <= CallTime
        /\ thread[t].value <= SpotAge
    BY <1>10, <2>1 DEF Returns, RequestOK, RequestSet
  <2>3. PICK k \in {"spot", "option", "candles"} : k = thread[t].asks
    BY <2>1 DEF RequestSet
  <2>4. EntriesOK(With(entries, k, thread[t].value))
    BY <1>0, <2>2, <2>3, KeptIsOK DEF Kinds
  <2>5. CASE thread[t].job = "chain" /\ GoesOn(t, With(entries, k, thread[t].value), thread[t].value)
    BY <1>0, <2>2, <2>4, <2>5, GoesOnOK
  <2>6. CASE thread[t].job = "chain" /\ GoesOn(t, entries, Nothing)
    BY <1>0, <2>2, <2>6, GoesOnOK
  <2>7. CASE Becomes(t, AtRest) /\ (Keeps(k, thread[t].value) \/ UNCHANGED entries)
    <3>1. EntriesOK(entries)'
      BY <1>2, <2>4, <2>7 DEF Keeps, EntriesOK
    <3> QED BY <1>0, <2>2, <2>7, <3>1, AtRestIsOK, BecomesOK
  <2>8. CASE Counts(t) /\ UNCHANGED entries
    <3> DEFINE r == [thread[t] EXCEPT !.at = "counted"]
    <3>1. /\ r \in RequestSet /\ r.at = "counted" /\ r.took = thread[t].took
          /\ r.job = thread[t].job /\ r.asks = thread[t].asks /\ r.spot = thread[t].spot
      BY <2>1 DEF RequestSet
    <3>2. Becomes(t, r)
      BY <2>8 DEF Counts
    <3> HIDE DEF r
    <3>3. RequestOK(r)
      BY <2>1, <2>2, <3>1 DEF RequestOK
    <3> QED BY <1>0, <1>2, <2>2, <2>8, <3>2, <3>3, BecomesOK
  <2>9. \/ thread[t].job = "chain" /\ GoesOn(t, With(entries, k, thread[t].value), thread[t].value)
        \/ thread[t].job = "chain" /\ GoesOn(t, entries, Nothing)
        \/ Becomes(t, AtRest) /\ (Keeps(k, thread[t].value) \/ UNCHANGED entries)
        \/ Counts(t) /\ UNCHANGED entries
    BY <1>10, <2>3 DEF Returns
  <2> QED BY <2>5, <2>6, <2>7, <2>8, <2>9
<1>11. ASSUME NEW t \in Threads, Trips(t) PROVE DataInv'
  <2>1. UNCHANGED tick /\ \/ thread[t].job = "chain" /\ GoesOn(t, entries, Nothing)
                          \/ Becomes(t, AtRest) /\ (Keeps("candles", Nothing) \/ UNCHANGED entries)
    BY <1>11 DEF Trips
  <2>2. CASE thread[t].job = "chain" /\ GoesOn(t, entries, Nothing)
    BY <1>0, <2>1, <2>2, GoesOnOK
  <2>3. CASE Becomes(t, AtRest) /\ (Keeps("candles", Nothing) \/ UNCHANGED entries)
    <3>1. EntriesOK(entries)'
      BY <1>2, <1>3, <2>3 DEF Kinds
    <3> QED BY <1>0, <2>1, <2>3, <3>1, AtRestIsOK, BecomesOK
  <2> QED BY <2>1, <2>2, <2>3
<1>12. CASE HoldPasses
  <2>1. \A n \in Int : Aged(n) \in Int /\ Aged(n) <= n + 1 /\ (n \in Nat => Aged(n) \in Nat)
    BY DEF Aged
  <2>2. Ancient \in Nat
    BY DEF Ancient
  <2>3. tick' \in Nat
    <3>1. Aged(tick) \in Nat
      BY <1>0, <2>1
    <3>2. tick' \in {Ancient, Aged(tick)}
      BY <1>12 DEF HoldPasses
    <3> QED BY <2>2, <3>1, <3>2
  <2>4. ASSUME NEW k \in Kinds PROVE entries'[k] \in EntrySet /\ entries'[k].value <= entries'[k].at + Slack[k]
    <3>1. /\ entries[k].at \in Nat /\ entries[k].value \in Int /\ entries[k].value <= entries[k].at + Slack[k]
          /\ Ttl[k] \in Nat /\ Slack[k] \in Nat
      BY <1>0 DEF EntriesOK, EntrySet, Kinds
    <3>2. entries'[k] \in {[at |-> Ttl[k], value |-> Nothing],
                           [at |-> entries[k].at + 1, value |-> Aged(entries[k].value)]}
      BY <1>12 DEF HoldPasses
    <3>3. PICK n \in Int : n = Aged(entries[k].value) /\ n <= entries[k].value + 1
      BY <2>1, <3>1
    <3>4. Nothing <= Ttl[k] + Slack[k] /\ n <= entries[k].at + 1 + Slack[k]
      BY <3>1, <3>3
    <3>5. PICK a \in Nat, v \in Int : entries'[k] = [at |-> a, value |-> v] /\ v <= a + Slack[k]
      <4>1. CASE entries'[k] = [at |-> Ttl[k], value |-> Nothing]
        BY <3>1, <3>4, <4>1, SMTT(30)
      <4>2. CASE entries'[k] = [at |-> entries[k].at + 1, value |-> n]
        BY <3>1, <3>4, <4>2
      <4> QED BY <3>2, <3>3, <4>1, <4>2
    <3> QED BY <3>5 DEF EntrySet
  <2>5. EntriesOK(entries)'
    BY <1>12, <2>4 DEF HoldPasses, EntriesOK
  <2>6. ASSUME NEW t \in Threads PROVE RequestOK(thread'[t])
    <3>1. CASE thread[t].at = "idle"
      BY <1>12, <3>1, AtRestIsOK DEF HoldPasses
    <3>2. CASE thread[t].at # "idle"
      <4>1. RequestOK(thread[t]) /\ thread[t] \in RequestSet /\ thread[t].took \in 0..CallTime /\ thread[t].took < CallTime
            /\ thread[t].value \in Int /\ thread[t].spot \in Int
        BY <1>0, <1>12, <3>2 DEF RequestOK, RequestSet, HoldPasses
      <4>2. PICK u \in 0..CallTime, v \in Int, w \in Int :
              /\ u = thread[t].took + 1 /\ v = Aged(thread[t].value) /\ v <= thread[t].value + 1
              /\ w = Aged(thread[t].spot) /\ w <= thread[t].spot + 1
        <5>1. thread[t].took + 1 \in 0..CallTime
          BY <4>1
        <5>2. PICK v \in Int : v = Aged(thread[t].value) /\ v <= thread[t].value + 1
          BY <2>1, <4>1
        <5>3. PICK w \in Int : w = Aged(thread[t].spot) /\ w <= thread[t].spot + 1
          BY <2>1, <4>1
        <5> QED BY <5>1, <5>2, <5>3
      <4>3. thread'[t] = [thread[t] EXCEPT !.took = u, !.value = v, !.spot = w]
        BY <1>12, <3>2, <4>2 DEF HoldPasses
      <4> DEFINE r == [thread[t] EXCEPT !.took = u, !.value = v, !.spot = w]
      <4>4. /\ r \in RequestSet /\ r.at = thread[t].at /\ r.took = u /\ r.value = v /\ r.spot = w
            /\ r.job = thread[t].job /\ r.asks = thread[t].asks
        BY <4>1 DEF RequestSet
      <4> HIDE DEF r
      <4>5. RequestOK(r)
        BY <4>1, <4>2, <4>4 DEF RequestOK
      <4> QED BY <4>3, <4>5 DEF r
    <3> QED BY <3>1, <3>2
  <2>7. DOMAIN thread' = Threads
    BY <1>12 DEF HoldPasses
  <2> QED BY <2>3, <2>5, <2>6, <2>7 DEF DataInv, RequestOK
<1> QED BY <1>1, <1>4, <1>5, <1>6, <1>7, <1>8, <1>10, <1>11, <1>12 DEF DataNext, Asks, Fetches

\* Whatever the caches serve was the market's within the lifetime of the entry
\* and the time its fetch may take, for any number of threads, lifetimes and
\* limits, however calls fail, overtake one another and meet the breaker.
THEOREM DataServedIsRecent == DataSpec => []ServedIsRecent
<1>1. DataInit => DataInv
  <2> SUFFICES ASSUME DataInit PROVE DataInv
    OBVIOUS
  <2>1. tick \in Nat /\ thread = [t \in Threads |-> AtRest]
    BY DataNumbers DEF DataInit, Ancient
  <2>2. EntriesOK(entries)
    <3>1. \A k \in Kinds : Ttl[k] \in Nat /\ Slack[k] \in Nat
      BY DataNumbers DEF Kinds
    <3> QED BY <3>1, DataNumbers DEF DataInit, EntriesOK, EntrySet
  <2> QED BY <2>1, <2>2, AtRestIsOK DEF DataInv
<1>2. DataInv => ServedIsRecent
  BY DEF DataInv, EntriesOK, ServedIsRecent
<1> QED BY <1>1, <1>2, DataStep, PTL DEF DataSpec
=============================================================================
