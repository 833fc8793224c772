------------------------------ MODULE FeedHub ------------------------------
(***************************************************************************)
(* The gateway's live feed: TickerManager (src/gateway/ticker_manager.py), *)
(* the calls of the ticker websocket and of the depth probes on it         *)
(* (routers/ws.py), and connecting and disconnecting the broker            *)
(* (routers/legacy_auth.py).                                               *)
(*                                                                         *)
(* The broker library's socket thread runs the callbacks, the event loop   *)
(* runs the routes, _reconnect and the watchdog, a pool thread runs the    *)
(* reopening, and another one runs disconnect.  The library dials again by *)
(* itself until it is stopped; what is sent on a dead socket is lost.      *)
(***************************************************************************)
EXTENDS Naturals, FiniteSets

CONSTANTS
  Touch, Depth,        \* streams, a symbol on one of the two feeds each
  Attempts,            \* length of _RECONNECT_BACKOFF
  MaxFaults, MaxCalls  \* bounds

ASSUME HubAssumption ==
  /\ Touch \cap Depth = {} /\ "none" \notin Touch \cup Depth
  /\ Attempts \in Nat \ {0} /\ {MaxFaults, MaxCalls} \subseteq Nat

Streams == Touch \cup Depth
None == "none"

VARIABLES
  flags,     \* the manager's booleans
  wanted,    \* _subscribed and _depth_subscribed
  sock,      \* "none", "dialling" by the library, "up" and acknowledged
  late,      \* a torn-down socket whose close callback has not run yet
  silent,    \* up, and half-dead
  token,     \* the broker honours the manager's token
  subs, orders,   \* what the broker streams on this socket
  opening,   \* the on_open callback: where it is, and what it has still to send
  kick,      \* a _reconnect scheduled by a close callback
  rc,        \* the _reconnect that runs: its place and attempt
  call,      \* subscribe: the stream it has added and not sent
  leaving,   \* disconnect: "no", "flagged", "torn"
  probe,     \* a depth probe that runs
  stolen,    \* observation: wanted streams that a probe has unsubscribed
  faults, calls

socket == <<sock, silent, subs, orders, opening, stolen>>
clients == <<call, probe, calls>>
hubVars == <<flags, wanted, socket, late, token, kick, rc, clients, leaving, faults>>

Quiet == [at |-> "idle", todo |-> {}]
Off == [at |-> "off", try |-> 0]

HubInit ==
  /\ flags = [wsOpen |-> FALSE, running |-> FALSE, stopped |-> FALSE, expired |-> FALSE]
  /\ wanted = {} /\ sock = "none" /\ late = FALSE /\ silent = FALSE /\ token = FALSE
  /\ subs = {} /\ orders = FALSE /\ opening = Quiet /\ kick = FALSE /\ rc = Off
  /\ call = None /\ leaving = "no" /\ probe = {} /\ stolen = {} /\ faults = 0 /\ calls = 0

-----------------------------------------------------------------------------
\* Sockets

Up == sock = "up" /\ ~silent
Sent(S) == IF Up THEN subs \cup S ELSE subs
\* the socket, what it streamed and its on_open are gone
LinkBecomes(state) ==
  /\ sock' = state /\ silent' = FALSE /\ subs' = {} /\ orders' = FALSE
  /\ opening' = Quiet /\ stolen' = {}
\* _on_close
Closed(f) == [f EXCEPT !.wsOpen = FALSE, !.running = @ /\ ~f.stopped]
\* _stop_websocket: the close callback of a socket that was up runs at once, or
\* when its thread outlives the join, later
TearDown(f, state) ==
  /\ LinkBecomes(state)
  /\ \/ /\ sock = "up" /\ flags' = Closed(f) /\ kick' = (kick \/ ~f.stopped) /\ UNCHANGED <<late, faults>>
     \/ /\ sock = "up" /\ flags' = f /\ faults < MaxFaults /\ faults' = faults + 1
        /\ late' = TRUE /\ UNCHANGED kick
     \/ sock # "up" /\ flags' = f /\ UNCHANGED <<kick, late, faults>>

\* the acknowledged login runs _on_open
SocketOpens ==
  /\ sock = "dialling" /\ token /\ LinkBecomes("up") /\ UNCHANGED <<flags, wanted, late, token, kick, rc, clients, leaving, faults>>
OpenMarks ==
  /\ sock = "up" /\ opening.at = "idle" /\ ~orders
  /\ flags' = [flags EXCEPT !.wsOpen = TRUE, !.expired = FALSE]
  /\ opening' = [at |-> "marked", todo |-> {}]
  /\ UNCHANGED <<wanted, sock, silent, subs, orders, stolen, late, token, kick, rc, clients, leaving, faults>>
\* one feed at a time: list its set, then send
Lists(at, feed, next) ==
  /\ opening.at = at /\ opening' = [at |-> next, todo |-> wanted \cap feed]
  /\ subs' = Sent(opening.todo) /\ stolen' = stolen \ opening.todo
  /\ UNCHANGED <<flags, wanted, sock, silent, orders, late, token, kick, rc, clients, leaving, faults>>
OpenTouch == Lists("marked", Touch, "touch")
TouchAgain == Lists("touch", Touch, "depth")  \* mutant: the depth set is not replayed
OpenDepth == Lists("touch", Depth, "depth")
OpenOrders ==
  /\ opening.at = "depth" /\ opening' = Quiet /\ orders' = TRUE
  /\ subs' = Sent(opening.todo) /\ stolen' = stolen \ opening.todo
  /\ UNCHANGED <<flags, wanted, sock, silent, late, token, kick, rc, clients, leaving, faults>>

\* the socket ends: the library dials again, and _on_close kicks _reconnect
Drops ==
  /\ sock = "up" /\ faults < MaxFaults /\ faults' = faults + 1
  /\ LinkBecomes("dialling") /\ flags' = Closed(flags) /\ kick' = (kick \/ ~flags.stopped)
  /\ UNCHANGED <<wanted, late, token, rc, clients, leaving>>
LateClose ==
  /\ late /\ late' = FALSE /\ flags' = Closed(flags) /\ kick' = (kick \/ ~flags.stopped)
  /\ UNCHANGED <<wanted, socket, token, rc, clients, leaving, faults>>
GoesSilent ==
  /\ Up /\ opening.at = "idle" /\ orders /\ faults < MaxFaults /\ faults' = faults + 1 /\ silent' = TRUE
  /\ UNCHANGED <<flags, wanted, sock, subs, orders, opening, stolen, late, token, kick, rc, clients, leaving>>
TokenExpires ==
  /\ token /\ faults < MaxFaults /\ faults' = faults + 1 /\ token' = FALSE
  /\ UNCHANGED <<flags, wanted, socket, late, kick, rc, clients, leaving>>

-----------------------------------------------------------------------------
\* _reconnect

Begin == rc' = [at |-> "try", try |-> 1]
Busy == rc.at # "off"
Kicked ==
  /\ kick /\ kick' = FALSE
  /\ IF Busy \/ flags.stopped THEN UNCHANGED rc ELSE Begin
  /\ UNCHANGED <<flags, wanted, socket, late, token, clients, leaving, faults>>
\* the watchdog needs touchline subscriptions; the session is open
WatchdogGuard ==
  /\ flags.running /\ flags.wsOpen /\ ~flags.stopped /\ ~flags.expired /\ wanted \cap Touch # {}
Watchdog ==
  /\ silent /\ ~Busy /\ WatchdogGuard /\ Begin
  /\ UNCHANGED <<flags, wanted, socket, late, token, kick, clients, leaving, faults>>
\* the next attempt, or the end
Stands ==
  /\ rc.at = "try" /\ flags.stopped /\ rc' = Off
  /\ UNCHANGED <<flags, wanted, socket, late, token, kick, clients, leaving, faults>>
Attempt ==
  /\ rc.at = "try" /\ ~flags.stopped /\ rc.try <= Attempts
  /\ flags' = [flags EXCEPT !.wsOpen = FALSE] /\ rc' = [rc EXCEPT !.at = "reopen"]
  /\ UNCHANGED <<wanted, socket, late, token, kick, clients, leaving, faults>>
\* in the pool thread: tear down and dial
Reopen ==
  /\ rc.at = "reopen" /\ TearDown(flags, "dialling") /\ rc' = [rc EXCEPT !.at = "wait"]
  /\ UNCHANGED <<wanted, token, clients, leaving>>
SucceedsBusy ==  \* mutant: _reconnecting stays set
  /\ rc.at = "wait" /\ flags.wsOpen /\ rc' = [at |-> "ended", try |-> 0]
  /\ UNCHANGED <<flags, wanted, socket, late, token, kick, clients, leaving, faults>>
Succeeds ==
  /\ rc.at = "wait" /\ flags.wsOpen /\ rc' = Off
  /\ UNCHANGED <<flags, wanted, socket, late, token, kick, clients, leaving, faults>>
\* 15 seconds without _on_open, which a token that works does not need
GivesUp ==
  /\ rc.at = "wait" /\ ~flags.wsOpen /\ ~(sock = "dialling" /\ token)
  /\ ~(sock = "up" /\ opening.at = "idle" /\ ~orders)
  /\ rc' = [at |-> "backoff", try |-> rc.try]
  /\ UNCHANGED <<flags, wanted, socket, late, token, kick, clients, leaving, faults>>
Slow ==
  /\ rc.at = "wait" /\ ~flags.wsOpen /\ faults < MaxFaults /\ faults' = faults + 1
  /\ rc' = [at |-> "backoff", try |-> rc.try]
  /\ UNCHANGED <<flags, wanted, socket, late, token, kick, clients, leaving>>
BacksOff ==
  /\ rc.at = "backoff" /\ rc.try < Attempts /\ rc' = [at |-> "try", try |-> rc.try + 1]
  /\ UNCHANGED <<flags, wanted, socket, late, token, kick, clients, leaving, faults>>
\* _declare_session_expired
Declares ==
  /\ rc.at = "backoff" /\ rc.try = Attempts /\ rc' = Off
  /\ flags' = [flags EXCEPT !.expired = TRUE, !.wsOpen = FALSE, !.running = FALSE]
  /\ UNCHANGED <<wanted, socket, late, token, kick, clients, leaving, faults>>

-----------------------------------------------------------------------------
\* Connecting and disconnecting

\* connect_legacy: the fresh token reaches the manager only if it is not running
Connect ==
  /\ calls < MaxCalls /\ calls' = calls + 1 /\ leaving = "no"
  /\ ~flags.running /\ token' = TRUE
  /\ TearDown([flags EXCEPT !.stopped = FALSE, !.expired = FALSE, !.running = TRUE], "dialling")
  /\ UNCHANGED <<wanted, rc, call, probe, leaving>>
\* disconnect_legacy: stop, which flags and tears down; then log out
Disconnect ==
  /\ calls < MaxCalls /\ calls' = calls + 1 /\ leaving = "no" /\ leaving' = "flagged"
  /\ flags' = [flags EXCEPT !.stopped = TRUE, !.running = FALSE, !.wsOpen = FALSE]
  /\ UNCHANGED <<wanted, socket, late, token, kick, rc, call, probe, faults>>
DisconnectTears ==
  /\ leaving = "flagged" /\ leaving' = "torn" /\ TearDown(flags, "none")
  /\ UNCHANGED <<wanted, token, rc, clients>>
LogsOut ==
  /\ leaving = "torn" /\ leaving' = "no" /\ token' = FALSE
  /\ UNCHANGED <<flags, wanted, socket, late, kick, rc, clients, faults>>

-----------------------------------------------------------------------------
\* Clients of the ticker websocket, and the probes

\* subscribe: add, then send if open
Adds(s) ==
  /\ call = None /\ calls < MaxCalls /\ calls' = calls + 1 /\ s \notin wanted
  /\ wanted' = wanted \cup {s} /\ call' = s
  /\ UNCHANGED <<flags, socket, late, token, kick, rc, probe, leaving, faults>>
Sends ==
  /\ call # None /\ call' = None
  /\ subs' = IF flags.wsOpen THEN Sent({call}) ELSE subs
  /\ UNCHANGED <<flags, wanted, sock, silent, orders, opening, stolen, late, token, kick, rc, probe, calls, leaving, faults>>
Unsubscribe(s) ==
  /\ call = None /\ calls < MaxCalls /\ calls' = calls + 1 /\ s \in wanted
  /\ wanted' = wanted \ {s} /\ subs' = IF flags.wsOpen /\ Up THEN subs \ {s} ELSE subs
  /\ UNCHANGED <<flags, sock, silent, orders, opening, stolen, late, token, kick, rc, call, probe, leaving, faults>>
\* a probe subscribes its legs and unsubscribes them, whoever else wants them
ProbeStarts(s) ==
  /\ probe = {} /\ calls < MaxCalls /\ calls' = calls + 1 /\ flags.wsOpen
  /\ probe' = {s} /\ subs' = Sent({s})
  /\ UNCHANGED <<flags, wanted, sock, silent, orders, opening, stolen, late, token, kick, rc, call, leaving, faults>>
ProbeEnds ==
  /\ probe # {} /\ probe' = {} /\ stolen' = stolen \cup probe
  /\ subs' = IF Up THEN subs \ probe ELSE subs
  /\ UNCHANGED <<flags, wanted, sock, silent, orders, opening, late, token, kick, rc, call, calls, leaving, faults>>

Loop == Kicked \/ Watchdog \/ Stands \/ Attempt \/ Succeeds \/ GivesUp \/ BacksOff \/ Declares
Callbacks == OpenMarks \/ OpenTouch \/ OpenDepth \/ OpenOrders \/ LateClose
HubNext ==
  \/ Loop \/ Callbacks \/ SocketOpens \/ Reopen \/ Slow
  \/ Drops \/ GoesSilent \/ TokenExpires
  \/ Connect \/ Disconnect \/ DisconnectTears \/ LogsOut
  \/ \E s \in Streams : Adds(s) \/ Unsubscribe(s)
  \/ \E s \in Depth : ProbeStarts(s)
  \/ Sends \/ ProbeEnds

\* the event loop, the pool threads, the callbacks and the dialling make progress
HubFairness ==
  /\ WF_hubVars(Loop) /\ WF_hubVars(Callbacks) /\ WF_hubVars(SocketOpens) /\ WF_hubVars(Reopen)
  /\ WF_hubVars(DisconnectTears \/ LogsOut) /\ WF_hubVars(Sends) /\ WF_hubVars(ProbeEnds)
HubSpec == HubInit /\ [][HubNext]_hubVars /\ HubFairness

-----------------------------------------------------------------------------
HubTypeOK ==
  /\ flags \in [{"wsOpen", "running", "stopped", "expired"} -> BOOLEAN]
  /\ {wanted, subs, probe, stolen} \subseteq SUBSET Streams
  /\ sock \in {"none", "dialling", "up"} /\ call \in Streams \cup {None}
  /\ {late, silent, token, orders, kick} \subseteq BOOLEAN
  /\ opening.at \in {"idle", "marked", "touch", "depth"} /\ opening.todo \subseteq Streams
  /\ rc.at \in {"off", "try", "reopen", "wait", "backoff"} /\ rc.try \in 0..Attempts
  /\ leaving \in {"no", "flagged", "torn"} /\ faults \in 0..MaxFaults /\ calls \in 0..MaxCalls

\* While the manager takes the feed as open, nothing of _on_open and no subscribe
\* is in progress and the socket lives, the broker streams every subscription of
\* both feeds and the order updates, however subscribing interleaved with the
\* drop, the reopening and _on_open, except for what a probe has unsubscribed.
StreamsAgree ==
  flags.wsOpen /\ Up /\ opening.at = "idle" /\ orders /\ call = None
    => wanted \subseteq subs \cup stolen

\* The feed heals without a human: when it should run and is down, or half-dead
\* with touchline subscriptions, it lives again, or the manager has handed the
\* session back to the human; unless the broker refuses the token and nothing
\* has told the manager so, as when the first login after connect is refused.
Live == flags.wsOpen /\ Up
Unnoticed == ~token /\ ~Busy /\ ~kick
FeedHeals ==
  (flags.running /\ ~Live) ~> (Live \/ ~flags.running \/ wanted \cap Touch = {} \/ Unnoticed)
=============================================================================
