----------------------------- MODULE LiveExits -----------------------------
(***************************************************************************)
(* The legacy engine's positions and their live legs: ExitEngine           *)
(* (src/engine/exits.py) walks paper positions over closed bars and has    *)
(* LiveExecutor (src/engine/executor.py) mirror each exit at the broker;   *)
(* an exit order that fails is parked and retried on every update.  The    *)
(* scanner thread does all of it under one lock; the user's mode switch,   *)
(* the broker and a death of the process come in between its orders.       *)
(*                                                                         *)
(* Positions are long; stops, targets and trails are a free choice among   *)
(* hold, target 1 and exit; so is which signal is taken.                   *)
(***************************************************************************)
EXTENDS Integers, Sequences, FiniteSets, Functions

CONSTANTS
  Sym,
  EntryQty,      \* shares the executor sizes an entry to
  MaxPositions,  \* open live positions allowed (max_positions)
  MaxEntries,    \* bound: positions ever opened
  MaxCrashes,    \* bound: deaths of the process
  MaxToggles,    \* bound: switches between paper and live
  MaxSlips,      \* bound: orders that meet a fault
  Faults

\* slow_fill  no terminal status after FILL_WAIT_SECONDS: PENDING
\* dead_part  an order is cancelled after part of it filled
\* unheard    place_order raises although the broker took the order
FaultKinds == {"slow_fill", "dead_part", "unheard"}

ASSUME LiveExitsAssumption ==
  /\ EntryQty \in Nat \ {0} /\ MaxPositions \in Nat \ {0}
  /\ MaxEntries \in Nat /\ MaxCrashes \in Nat /\ MaxToggles \in Nat /\ MaxSlips \in Nat
  /\ Faults \subseteq FaultKinds

VARIABLES
  positions,  \* every PaperPosition of the session, in the order of opening
  saved,      \* state/paper_positions.json
  live,       \* state/live_mode.flag, which outlives the process
  net,        \* shares in the account
  working,    \* unfilled shares at the broker, sells negative
  pc,         \* where the scanner thread is in its sweep
  todo,       \* symbols to scan, or positions to visit
  job,        \* the order it is waiting for
  eod,        \* the 15:12 bar has closed
  crashes, toggles, slips,
  excused     \* observation: symbols whose account drifted for a known reason

memory == <<positions, pc, todo, job>>
account == <<net, working>>
bounds == <<crashes, toggles, slips>>
vars == <<memory, saved, live, account, eod, bounds, excused>>

Idx == DOMAIN positions
NoJob == [kind |-> "none"]
Open(i) == positions[i].st # "CLOSED"
OpenLive == {i \in Idx : positions[i].live /\ Open(i)}
Tracked(ps, s) ==
  SumFunctionOnSet([i \in DOMAIN ps |-> ps[i].left], {i \in DOMAIN ps : ps[i].sym = s})

\* int(round(units * live_qty)) for half of it: Python rounds half to even.
HalfOf(q) == IF q % 2 = 0 THEN q \div 2
             ELSE IF (q \div 2) % 2 = 0 THEN q \div 2 ELSE (q \div 2) + 1

Position(s, isLive, q) ==
  [sym |-> s, st |-> "OPEN", live |-> isLive, qty |-> q, left |-> q, pend |-> 0]

Init ==
  /\ positions = <<>> /\ saved = <<>> /\ live \in BOOLEAN
  /\ net = [s \in Sym |-> 0] /\ working = [s \in Sym |-> 0]
  /\ pc = "idle" /\ todo = {} /\ job = NoJob
  /\ eod = FALSE /\ crashes = 0 /\ toggles = 0 /\ slips = 0 /\ excused = {}

-----------------------------------------------------------------------------
(* What an order can come to: whether _place returns a fill, the shares it *)
(* reports, those that traded and those left working.                      *)

Outcome(ok, told, done, rest) == [ok |-> ok, told |-> told, done |-> done, rest |-> rest]
Failed == Outcome(FALSE, 0, 0, 0)
Honest(q) == {Outcome(TRUE, q, q, 0), Failed}
Slow(q) == IF "slow_fill" \in Faults
           THEN {Outcome(TRUE, IF d = 0 THEN q ELSE d, d, q - d) : d \in 0..q-1} ELSE {}
DeadPart(q) == IF "dead_part" \in Faults THEN {Outcome(FALSE, 0, d, 0) : d \in 1..q-1} ELSE {}
Unheard(q) == IF "unheard" \in Faults
              THEN {Outcome(FALSE, 0, q, 0), Outcome(FALSE, 0, 0, q)} ELSE {}

\* An executor that is not active when it is asked answers None and sends
\* nothing; a switch of mode does not recall an order.
Faulty(q) == IF slips < MaxSlips THEN Slow(q) \cup DeadPart(q) \cup Unheard(q) ELSE {}
Outcomes(q) == IF job.sent THEN Honest(q) \cup Faulty(q) ELSE {Failed}

Side(kind) == IF kind = "entry" THEN 1 ELSE -1
Trades(kind, s, o) ==
  /\ net' = [net EXCEPT ![s] = @ + Side(kind) * o.done]
  /\ working' = [working EXCEPT ![s] = @ + Side(kind) * o.rest]
  /\ slips' = IF o \in Honest(job.qty) THEN slips ELSE slips + 1

\* An answer that does not say what happened, or an order for more than is
\* left, explains a difference between account and engine.
Explained(o, q, s) ==
  excused' = IF o \in Honest(q) /\ (job.kind = "entry" \/ q <= positions[job.i].left \/ ~o.ok)
             THEN excused ELSE excused \cup {s}

-----------------------------------------------------------------------------
(* sweep_once: signals, then update_all                                    *)

SweepBegin ==
  /\ pc = "idle"
  /\ \E S \in {{}, Sym} :             \* a paused sweep visits nothing
       todo' = S
  /\ pc' = "sweep"
  /\ UNCHANGED <<positions, job, saved, live, account, eod, bounds, excused>>

Stacked(s) == \E i \in Idx : positions[i].sym = s /\ Open(i)

NoSignal(s) ==
  /\ pc = "sweep" /\ job = NoJob /\ s \in todo
  /\ todo' = todo \ {s}
  /\ UNCHANGED <<positions, pc, job, saved, live, account, eod, bounds, excused>>

\* open_from_signal in paper mode.
OpenPaper(s) ==
  /\ pc = "sweep" /\ job = NoJob /\ s \in todo /\ ~Stacked(s) /\ ~eod /\ ~live
  /\ Len(positions) < MaxEntries
  /\ positions' = Append(positions, Position(s, FALSE, 0))
  /\ saved' = positions'
  /\ todo' = todo \ {s}
  /\ UNCHANGED <<pc, job, live, account, eod, bounds, excused>>

\* open_from_signal in live mode: the gates of enter, then the order.
OpenLiveLeg(s) ==
  /\ pc = "sweep" /\ job = NoJob /\ s \in todo /\ ~Stacked(s) /\ ~eod /\ live
  /\ Len(positions) < MaxEntries
  /\ Cardinality(OpenLive) < MaxPositions
  /\ job' = [kind |-> "entry", sym |-> s, qty |-> EntryQty, sent |-> TRUE]
  /\ todo' = todo \ {s}
  /\ UNCHANGED <<positions, pc, saved, live, account, eod, bounds, excused>>

EntryAnswered ==
  /\ job.kind = "entry"
  /\ \E o \in Outcomes(job.qty) :
       /\ Trades("entry", job.sym, o)
       /\ Explained(o, job.qty, job.sym)
       /\ IF o.ok
          THEN /\ positions' = Append(positions, Position(job.sym, TRUE, o.told))
               /\ saved' = positions'
          ELSE UNCHANGED <<positions, saved>>
  /\ job' = NoJob
  /\ UNCHANGED <<pc, todo, live, eod, crashes, toggles>>

SweepEnd ==
  /\ pc = "sweep" /\ job = NoJob /\ todo = {}
  /\ pc' = "update" /\ todo' = {i \in Idx : Open(i)}
  /\ UNCHANGED <<positions, job, saved, live, account, eod, bounds, excused>>

-----------------------------------------------------------------------------
(* update_all: bars, the retry net, the save                               *)

Hold(i) ==
  /\ pc = "update" /\ job = NoJob /\ i \in todo
  /\ Open(i) => ~eod                       \* the 15:12 bar closes everything
  /\ todo' = todo \ {i}
  /\ UNCHANGED <<positions, pc, job, saved, live, account, eod, bounds, excused>>

\* _exit books on paper first, then sends the order for the live leg.
ExitShares(i, wanted) ==
  IF ~positions[i].live THEN 0
  ELSE IF wanted < positions[i].left THEN wanted ELSE positions[i].left
Exit(i, st, wanted) ==
  /\ positions' = [positions EXCEPT ![i].st = st]
  /\ job' = IF ExitShares(i, wanted) = 0 THEN NoJob
            ELSE [kind |-> "exit", i |-> i, sym |-> positions[i].sym,
                  qty |-> ExitShares(i, wanted), sent |-> live]
  /\ UNCHANGED <<pc, todo, saved, live, account, eod, bounds, excused>>

\* Target 1 books half; the same bar may still reach target 2.
TargetOne(i) ==
  /\ pc = "update" /\ job = NoJob /\ i \in todo /\ positions[i].st = "OPEN"
  /\ Exit(i, "PARTIAL", HalfOf(positions[i].qty))

\* Stop, target 2 or end of day: the final exit closes all that is left.
CloseOut(i) ==
  /\ pc = "update" /\ job = NoJob /\ i \in todo /\ Open(i)
  /\ Exit(i, "CLOSED", positions[i].left)

\* A filled order takes its shares off the leg, a failed one is parked.
DropFailed(p, q) == p  \* mutant: a failed exit is only logged
Park(p, q) == [p EXCEPT !.pend = @ + q]
\* mutant: the leg is reduced before the answer
ReduceFirst(p, q, ok) ==
  IF ok THEN [p EXCEPT !.left = @ - q] ELSE [p EXCEPT !.left = @ - q, !.pend = @ + q]
AfterExit(p, q, ok) == IF ok THEN [p EXCEPT !.left = @ - q] ELSE Park(p, q)
ExitAnswered ==
  /\ job.kind = "exit"
  /\ \E o \in Outcomes(job.qty) :
       /\ Trades("exit", job.sym, o)
       /\ Explained(o, job.qty, job.sym)
       /\ positions' = [positions EXCEPT ![job.i] = AfterExit(@, job.qty, o.ok)]
  /\ job' = NoJob
  /\ UNCHANGED <<pc, todo, saved, live, eod, crashes, toggles>>

\* _retry_pending_closes, when the executor is active.
RetryOpenOnly == {i \in OpenLive : positions[i].pend > 0}  \* mutant: closed positions are skipped
RetryQueue == {i \in Idx : positions[i].live /\ positions[i].pend > 0}
UpdateEnd ==
  /\ pc = "update" /\ job = NoJob /\ todo = {}
  /\ pc' = "retry" /\ todo' = IF live THEN RetryQueue ELSE {}
  /\ UNCHANGED <<positions, job, saved, live, account, eod, bounds, excused>>

Retry(i) ==
  /\ pc = "retry" /\ job = NoJob /\ i \in todo
  /\ job' = [kind |-> "retry", i |-> i, sym |-> positions[i].sym,
             qty |-> positions[i].pend, sent |-> live]
  /\ todo' = todo \ {i}
  /\ UNCHANGED <<positions, pc, saved, live, account, eod, bounds, excused>>

AfterRetry(p, q) == [p EXCEPT !.pend = 0, !.left = IF @ > q THEN @ - q ELSE 0]
RetryAnswered ==
  /\ job.kind = "retry"
  /\ \E o \in Outcomes(job.qty) :
       /\ Trades("retry", job.sym, o)
       /\ Explained(o, job.qty, job.sym)
       /\ positions' = IF o.ok THEN [positions EXCEPT ![job.i] = AfterRetry(@, job.qty)]
                       ELSE positions
  /\ job' = NoJob
  /\ UNCHANGED <<pc, todo, saved, live, eod, crashes, toggles>>

Save ==
  /\ pc = "retry" /\ job = NoJob /\ todo = {}
  /\ saved' = positions /\ pc' = "idle"
  /\ UNCHANGED <<positions, todo, job, live, account, eod, bounds, excused>>

-----------------------------------------------------------------------------
(* The user, the clock, the broker, and deaths of the process              *)

SetMode ==
  /\ toggles < MaxToggles
  /\ live' = ~live /\ toggles' = toggles + 1
  /\ UNCHANGED <<memory, saved, account, eod, crashes, slips, excused>>

EndOfDay ==
  /\ pc = "idle" /\ ~eod /\ eod' = TRUE
  /\ UNCHANGED <<memory, saved, live, account, bounds, excused>>

WorkingTrades(s) ==
  /\ working[s] # 0
  /\ \/ net' = [net EXCEPT ![s] = @ + working[s]]
     \/ UNCHANGED net                      \* it expired
  /\ working' = [working EXCEPT ![s] = 0]
  /\ UNCHANGED <<memory, saved, live, eod, bounds, excused>>

\* What the file does not say is lost; an order on its way may have traded.
Unsaved == {s \in Sym : Tracked(positions, s) # Tracked(saved, s)}
Crash ==
  /\ pc # "off" /\ crashes < MaxCrashes
  /\ crashes' = crashes + 1
  /\ IF job = NoJob THEN UNCHANGED <<account, slips>> /\ excused' = excused \cup Unsaved
     ELSE \E o \in Outcomes(job.qty) :
            Trades(job.kind, job.sym, o) /\ excused' = excused \cup Unsaved \cup {job.sym}
  /\ pc' = "off" /\ todo' = {} /\ job' = NoJob /\ positions' = <<>>
  /\ UNCHANGED <<saved, live, eod, toggles>>

\* The start-up comparison with the broker only reports.
Restart ==
  /\ pc = "off"
  /\ positions' = saved /\ pc' = "idle"
  /\ UNCHANGED <<todo, job, saved, live, account, eod, bounds, excused>>

-----------------------------------------------------------------------------
Scan == \E s \in Sym : NoSignal(s) \/ OpenPaper(s) \/ OpenLiveLeg(s)
Visit == \E i \in Idx : Hold(i) \/ TargetOne(i) \/ CloseOut(i) \/ Retry(i)
Engine ==
  \/ SweepBegin \/ Scan \/ EntryAnswered \/ SweepEnd
  \/ Visit \/ ExitAnswered \/ UpdateEnd \/ RetryAnswered \/ Save

Next ==
  \/ Engine \/ SetMode \/ EndOfDay \/ Crash \/ Restart
  \/ \E s \in Sym : WorkingTrades(s)

Spec == Init /\ [][Next]_vars

\* The scanner sleeps a bounded time between sweeps and every call times out;
\* a retry repeated without end is accepted at last.
RetryFilled == RetryAnswered /\ \E i \in Idx : positions'[i].pend < positions[i].pend
FairSpec == Spec /\ WF_vars(Engine) /\ SF_vars(RetryFilled)

-----------------------------------------------------------------------------
(* Properties                                                              *)

Leg == [sym : Sym, st : {"OPEN", "PARTIAL", "CLOSED"}, live : BOOLEAN,
        qty : Nat, left : Nat, pend : Nat]
Legs(ps) == ps \in Seq(Leg) /\ \A i \in DOMAIN ps : ps[i].left <= ps[i].qty

EntryJob == [kind : {"entry"}, sym : Sym, qty : Nat \ {0}, sent : BOOLEAN]
LegJob == [kind : {"exit", "retry"}, i : Idx, sym : Sym, qty : Nat \ {0}, sent : BOOLEAN]

\* The ranges of positions, account and control state: a leg never holds
\* less than nothing or more than was bought.
TypeOK ==
  /\ Legs(positions) /\ Legs(saved)
  /\ Len(positions) <= MaxEntries /\ Len(saved) <= MaxEntries
  /\ live \in BOOLEAN /\ eod \in BOOLEAN
  /\ net \in [Sym -> Int] /\ working \in [Sym -> Int]
  /\ pc \in {"idle", "sweep", "update", "retry", "off"}
  /\ todo \subseteq Sym \cup (1..MaxEntries)
  /\ job \in {NoJob} \cup EntryJob \cup LegJob
  /\ crashes \in 0..MaxCrashes /\ toggles \in 0..MaxToggles /\ slips \in 0..MaxSlips
  /\ excused \subseteq Sym

\* No failed exit is dropped: whatever a position closed on paper still
\* holds at the broker is parked for the retry net, through mode switches,
\* refusals and restarts.
NothingDropped ==
  job = NoJob =>
    \A i \in Idx : positions[i].live /\ ~Open(i) => positions[i].pend >= positions[i].left

\* Between orders the account holds exactly the tracked legs, unless an
\* answer was not honest, the process died with unsaved legs, or an order
\* was sent for more than the leg had left.
LegMatchesAccount ==
  pc # "off" /\ job = NoJob =>
    \A s \in Sym \ excused : net[s] = Tracked(positions, s)

\* No exit sells shares that are not there.
NoReversal == \A s \in Sym : net[s] >= 0

\* The square-off of the day leaves no leg open, in live mode.
Flat == \A i \in Idx : ~Open(i) /\ positions[i].left = 0
SquaredOff == eod ~> Flat \/ ~live \/ pc = "off"
=============================================================================
