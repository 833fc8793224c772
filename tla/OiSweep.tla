------------------------------ MODULE OiSweep ------------------------------
(***************************************************************************)
(* The probes of the gateway (src/gateway/app/routers/ws.py) that rotate   *)
(* batches of option legs through the one depth feed and collect what it   *)
(* says of them.  They share the feed, and the one hook of the manager     *)
(* that hands them the raw frames (ticker_manager.py): a probe installs    *)
(* its handler at the start and leaves none at the end, whoever else runs. *)
(*                                                                         *)
(* The broker streams a leg under its token; the contract behind the token *)
(* may be another one than was asked for.  The full frame after a          *)
(* subscription names the contract, the deltas after it do not.  "sweep"   *)
(* is /api/_probe/oisweep, whose numbers the engines use; "plain" stands   *)
(* for the diagnostic probes: what they make of the frames is a report.    *)
(***************************************************************************)
EXTENDS Naturals, Sequences, FiniteSets

CONSTANTS
  Tokens,       \* tokens of the contract file
  Requests,   \* requests, each for one probe
  Batch,      \* legs of a batch
  MaxFrames, MaxFailures   \* bounds

ASSUME OiSweepAssumption ==
  /\ IsFiniteSet(Tokens) /\ Batch \in Nat \ {0} /\ {MaxFrames, MaxFailures} \subseteq Nat

VARIABLES
  handler,   \* raw_probe: the request whose handler is installed
  probe,     \* probe[r]: the run of a request
  stream,    \* stream[l]: the contract the broker streams under a token
  renewed,   \* tokens subscribed again and not acknowledged yet
  wire,      \* frames on the way, oldest first
  frames, failures,
  misnamed   \* observation: legs a sweep has been sent under a wrong name

sweepVars == <<handler, probe, stream, renewed, wire, frames, failures, misnamed>>

NoRequest == "none"
Off == "off"
Contracts == {"right", "wrong"}
Kinds == {"sweep", "plain"}
Asleep == [at |-> "idle", kind |-> "plain", asked |-> {}, todo |-> {}, chunk |-> {},
           acked |-> {}, book |-> [l \in Tokens |-> Off], counted |-> {}]

SweepInit ==
  /\ handler = NoRequest /\ probe = [r \in Requests |-> Asleep]
  /\ stream = [l \in Tokens |-> Off] /\ renewed = {} /\ wire = <<>>
  /\ frames = 0 /\ failures = 0 /\ misnamed = {}

-----------------------------------------------------------------------------
(* The broker                                                              *)

\* The full frame of a new subscription: the broker decides what the token is.
Acknowledges(l) ==
  /\ l \in renewed /\ frames < MaxFrames /\ frames' = frames + 1 /\ renewed' = renewed \ {l}
  /\ \E c \in Contracts :
       /\ stream' = [stream EXCEPT ![l] = c]
       /\ wire' = Append(wire, [leg |-> l, named |-> TRUE, of |-> c])
  /\ UNCHANGED <<handler, probe, failures, misnamed>>
\* A delta with a new open interest, of whatever the broker streams.
Delta(l) ==
  /\ stream[l] # Off /\ frames < MaxFrames /\ frames' = frames + 1
  /\ wire' = Append(wire, [leg |-> l, named |-> FALSE, of |-> stream[l]])
  /\ UNCHANGED <<handler, probe, stream, renewed, failures, misnamed>>

-----------------------------------------------------------------------------
(* The handler, on the socket thread                                       *)

\* mutant: a delta may create a leg
MergesAny(p, f) == f.leg \in p.asked /\ (f.named => f.of = "right")
\* A leg must have named itself before a delta may add to it.
Merges(p, f) == f.leg \in p.asked /\ IF f.named THEN f.of = "right" ELSE f.leg \in p.acked
Merged(p, f) ==
  [p EXCEPT !.acked = IF f.named THEN @ \cup {f.leg} ELSE @,
            !.book[f.leg] = f.of]
FrameArrives ==
  /\ wire # <<>> /\ wire' = Tail(wire)
  /\ LET f == Head(wire)
     IN IF handler = NoRequest \/ probe[handler].kind = "plain" THEN UNCHANGED <<probe, misnamed>>
        ELSE /\ probe' = IF Merges(probe[handler], f) THEN [probe EXCEPT ![handler] = Merged(@, f)] ELSE probe
             /\ misnamed' = IF f.named /\ f.of = "wrong" THEN misnamed \cup {f.leg} ELSE misnamed
  /\ UNCHANGED <<handler, stream, renewed, frames, failures>>

-----------------------------------------------------------------------------
(* The probes, on the event loop                                           *)

\* The legs are chosen, the handler installed.
Begins(r) ==
  /\ probe[r].at = "idle"
  /\ \E asked \in SUBSET Tokens \ {{}}, kind \in Kinds :
       probe' = [probe EXCEPT ![r] = [Asleep EXCEPT !.at = "loop", !.kind = kind, !.asked = asked, !.todo = asked]]
  /\ handler' = r
  /\ UNCHANGED <<stream, renewed, wire, frames, failures, misnamed>>
\* A batch is subscribed, then the probe sleeps.
Rotates(r) ==
  /\ probe[r].at = "loop" /\ probe[r].todo # {}
  /\ \E chunk \in SUBSET probe[r].todo :
       /\ Cardinality(chunk) <= Batch /\ chunk # {}
       /\ probe' = [probe EXCEPT ![r].at = "settle", ![r].chunk = chunk, ![r].todo = @ \ chunk]
       /\ renewed' = renewed \cup chunk
  /\ UNCHANGED <<handler, stream, wire, frames, failures, misnamed>>
\* It wakes and unsubscribes the batch; an error of that call is swallowed.
Settles(r) ==
  /\ probe[r].at = "settle" /\ probe' = [probe EXCEPT ![r].at = "loop", ![r].chunk = {}]
  /\ \/ /\ stream' = [l \in Tokens |-> IF l \in probe[r].chunk THEN Off ELSE stream[l]]
        /\ renewed' = renewed \ probe[r].chunk /\ UNCHANGED failures
     \/ failures < MaxFailures /\ failures' = failures + 1 /\ UNCHANGED <<stream, renewed>>
  /\ UNCHANGED <<handler, wire, frames, misnamed>>
\* The totals take the legs that have open interest, but those whose value is
\* negative, no whole number of lots, or old.
Tallies(p) == {[p EXCEPT !.at = "done", !.counted = C] : C \in SUBSET {l \in Tokens : p.book[l] # Off}}
\* mutant: the handler stays
KeepsHandler(r) ==
  /\ probe[r].at = "loop" /\ probe[r].todo = {}
  /\ \E p \in Tallies(probe[r]) : probe' = [probe EXCEPT ![r] = p]
  /\ UNCHANGED <<handler, stream, renewed, wire, frames, failures, misnamed>>
\* The last batch is through, or subscribing one fails: no handler is left.
Ends(r) ==
  /\ probe[r].at = "loop" /\ handler' = NoRequest
  /\ \/ /\ probe[r].todo = {}
        /\ \E p \in Tallies(probe[r]) : probe' = [probe EXCEPT ![r] = p]
        /\ UNCHANGED failures
     \/ /\ probe[r].todo # {} /\ failures < MaxFailures /\ failures' = failures + 1
        /\ probe' = [probe EXCEPT ![r] = [Asleep EXCEPT !.at = "done"]]
  /\ UNCHANGED <<stream, renewed, wire, frames, misnamed>>

SweepNext ==
  \/ FrameArrives \/ \E l \in Tokens : Acknowledges(l) \/ Delta(l)
  \/ \E r \in Requests : Begins(r) \/ Rotates(r) \/ Settles(r) \/ Ends(r)
SweepSpec == SweepInit /\ [][SweepNext]_sweepVars

-----------------------------------------------------------------------------
(* Properties                                                              *)

\* The open interest a sweep counts is that of the contract it asked for,
\* whatever else ran on the feed, came late or was left streaming: the deltas
\* of a leg are merged only when the leg has named itself in this sweep.  The
\* one exception: the broker names the leg anew, and wrongly, after it had
\* named it rightly; the frame is rejected, the deltas behind it are not.
OiIsIdentified ==
  \A r \in Requests : probe[r].kind = "sweep" =>
    \A l \in probe[r].counted \ misnamed : l \in probe[r].asked /\ probe[r].book[l] = "right"

\* When every probe has ended nobody listens to the raw frames, and the broker
\* streams no leg of theirs but those whose unsubscription failed.
SweepsLeaveNothing ==
  (\A r \in Requests : probe[r].at \in {"idle", "done"}) =>
    handler = NoRequest /\ (failures = 0 => renewed = {} /\ \A l \in Tokens : stream[l] = Off)
=============================================================================
