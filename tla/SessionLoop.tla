---------------------------- MODULE SessionLoop ----------------------------
(***************************************************************************)
(* The intraday trading session: the engine thread that ticks              *)
(* src/intraday/runtime/loop.py, the API thread that pauses, kills,        *)
(* resumes and switches it (src/intraday/server), the journal that outlives *)
(* both (src/intraday/journal/store.py), and the broker reached through    *)
(* GatewayBroker (src/intraday/brokers.py).                                *)
(*                                                                         *)
(* The engine is one thread.  A tick is cut into the steps between which   *)
(* the API thread can run or the process can die: a broker order and each  *)
(* journal commit are steps of their own.  Prices, signals, sizing and the *)
(* exit rules are abstracted to the decision they reach; the square-off    *)
(* rule, which admits no choice, is kept.                                  *)
(***************************************************************************)
EXTENDS Integers, FiniteSets

CONSTANTS
  Sym,           \* option contracts, each with an (underlying, right) of its own
  EntryQty,      \* shares of one sized entry
  MaxPositions,  \* cfg max_positions
  MaxDay,        \* bound: trading days
  MaxEntries,    \* bound: entry orders sent
  MaxCrashes,    \* bound: process deaths
  MaxOps,        \* bound: operator requests
  MaxSlips,      \* bound: orders left working, or traded without an answer
  Faults         \* the failures of the broker link and the operator this run admits

\* cancel_fails     an order outlives the confirmation window and its cancel
\* rest_fills       such an order trades later
\* unheard          the broker trades and the answer never reaches place()
\* blind_positions  the broker's position book cannot be read at start-up
\* rms_square_off   the broker closes MIS positions under a running engine
\* mode_toggle      the operator switches paper and live while holding
FaultKinds == {"cancel_fails", "rest_fills", "unheard", "blind_positions",
               "rms_square_off", "mode_toggle"}

ASSUME ConstantsAssumption ==
  /\ EntryQty \in Nat \ {0}
  /\ MaxPositions \in Nat \ {0}
  /\ MaxDay \in Nat \ {0}
  /\ MaxEntries \in Nat
  /\ MaxCrashes \in Nat
  /\ MaxOps \in Nat
  /\ MaxSlips \in Nat
  /\ Faults \subseteq FaultKinds

VARIABLES
  \* the process's memory
  up,          \* the process runs
  pos,         \* SessionLoop.positions: signed quantity tracked per contract
  halted,      \* SessionLoop.halted
  flattenReq,  \* SessionLoop._flatten_request
  engineDay,   \* SessionLoop._day, 0 for None
  paused,      \* cfg["paused"]
  \* the journal and the config file
  row,         \* signed quantity of the OPEN row per contract, 0 for none
  booked,      \* shares recorded in the trades table
  haltFlags,   \* days d with a flag "halted:d"
  savedPaused, \* "paused" in the config file
  mode,        \* "paper" | "live", in the config file and as the broker object
  \* the broker's account
  net,         \* MIS net position
  restBuy,     \* shares of buy orders left working at the broker
  restSell,    \* shares of sell orders left working at the broker
  \* the market clock
  day, phase,
  \* control of the two threads
  pc,          \* where the engine thread is in its tick
  tick,        \* the phase read when the tick began (its fixed `now`)
  todo,        \* contracts the loop at pc has still to visit
  job,         \* the order or the journal write in progress
  book,        \* the position snapshot the start-up reconciliation works from
  api,         \* where the API thread is in a handler
  \* observation only
  opened,      \* shares the journal recorded as entered
  killed,      \* a kill has returned and neither a resume nor a new day followed
  sealed,      \* the day whose halt was journalled and not resumed since, 0 for none
  entries, crashes, ops, slips

memory  == <<up, pos, halted, flattenReq, engineDay, paused>>
journal == <<row, booked, haltFlags>>
config  == <<savedPaused, mode>>
account == <<net, restBuy, restSell>>
clock   == <<day, phase>>
control == <<pc, tick, todo, job, book>>
ghosts  == <<opened, killed, sealed>>
counts  == <<entries, crashes, ops, slips>>
vars == <<memory, journal, config, account, clock, control, api, ghosts, counts>>

-----------------------------------------------------------------------------
Abs(n) == IF n < 0 THEN -n ELSE n
Sign(n) == IF n < 0 THEN -1 ELSE 1
Held == {s \in Sym : pos[s] # 0}
NoJob == [kind |-> "none"]
Idle == job.kind = "none"
\* `full` is false for the exit machine's PARTIAL decision.
ExitJob(s, q, full) == [kind |-> "exit", sym |-> s, qty |-> q, full |-> full]
WriteJob(k, s, q) == [kind |-> k, sym |-> s, qty |-> q]

\* What one order does: the status place() returns, the shares it reports,
\* the shares that really traded, and those left working at the broker.
Answer(st, seen, done, left) ==
  [status |-> st, seen |-> seen, done |-> done, left |-> left]

CleanAnswers(q) == {Answer("FILLED", f, f, 0) : f \in 1..q} \cup {Answer("REJECTED", 0, 0, 0)}
\* The cancel after the confirmation window did not take effect.
RestingAnswers(q) ==
  {Answer("WORKING", f, f, q - f) : f \in 1..(q - 1)} \cup {Answer("TIMEOUT", 0, 0, q)}
\* The answer, or the order book, was lost.
UnheardAnswers(q) == {Answer(st, 0, f, 0) : st \in {"TIMEOUT", "ERROR"}, f \in 1..q}
LiveAnswers(q) ==
  CleanAnswers(q)
  \cup (IF slips < MaxSlips /\ "cancel_fails" \in Faults THEN RestingAnswers(q) ELSE {})
  \cup (IF slips < MaxSlips /\ "unheard" \in Faults THEN UnheardAnswers(q) ELSE {})
PaperAnswers(q) == {Answer("FILLED", q, 0, 0), Answer("REJECTED", 0, 0, 0)}
Answers(q) == IF mode = "live" THEN LiveAnswers(q) ELSE PaperAnswers(q)
Slipped(o) == mode = "live" /\ (o.left > 0 \/ o.done # o.seen)

Init ==
  /\ up = FALSE /\ halted = FALSE /\ flattenReq = FALSE
  /\ engineDay = 0 /\ paused = FALSE
  /\ pos = [s \in Sym |-> 0]
  /\ row = [s \in Sym |-> 0]
  /\ booked = [s \in Sym |-> 0]
  /\ opened = [s \in Sym |-> 0]
  /\ haltFlags = {} /\ savedPaused = FALSE
  /\ mode \in (IF "mode_toggle" \in Faults THEN {"paper", "live"} ELSE {"live"})
  /\ net = [s \in Sym |-> 0]
  /\ restBuy = [s \in Sym |-> 0] /\ restSell = [s \in Sym |-> 0]
  /\ day = 1 /\ phase = "open"
  /\ pc = "off" /\ tick = "open" /\ todo = {} /\ job = NoJob
  /\ book = [s \in Sym |-> 0]
  /\ api = "idle" /\ killed = FALSE /\ sealed = 0
  /\ entries = 0 /\ crashes = 0 /\ ops = 0 /\ slips = 0

-----------------------------------------------------------------------------
(* The engine thread                                                       *)

\* _restore_halt: only the first tick of a process reads the journalled halt.
RestoreNothing == FALSE  \* mutant: a restart forgets the day's halt
RestoredHalt == engineDay = 0 /\ day \in haltFlags

\* step() begins: session rollover, or the journalled halt restored on the
\* first tick; a pending flatten request is taken before the exits.
TickBegin ==
  LET rolled == engineDay \notin {0, day} IN
  /\ up /\ pc = "idle"
  /\ engineDay' = day
  /\ halted' = (RestoredHalt \/ (~rolled /\ halted))
  /\ haltFlags' = IF rolled THEN {} ELSE haltFlags
  /\ killed' = (killed /\ ~rolled)
  /\ sealed' = IF rolled THEN 0 ELSE sealed
  /\ tick' = phase
  /\ todo' = Held
  /\ flattenReq' = FALSE
  /\ pc' = IF flattenReq THEN "flatten" ELSE "exits"
  /\ UNCHANGED <<up, pos, paused, row, booked, config, account, clock,
                 job, book, api, opened, counts>>

\* _flatten_all orders every position out, for a request or a daily loss.
FlattenOne(s) ==
  /\ up /\ pc \in {"flatten", "loss"} /\ Idle /\ s \in todo
  /\ job' = ExitJob(s, Abs(pos[s]), TRUE)
  /\ todo' = todo \ {s}
  /\ UNCHANGED <<memory, journal, config, account, clock, pc, tick, book,
                 api, ghosts, counts>>

\* What would not exit re-arms the request for the next tick.
NeverRearm == FALSE  \* mutant: a failed flatten is not retried
Rearm == Held # {}
FlattenEnd ==
  /\ up /\ pc \in {"flatten", "loss"} /\ Idle /\ todo = {}
  /\ flattenReq' = (flattenReq \/ Rearm)
  /\ halted' = (halted \/ pc = "loss")
  /\ pc' = IF pc = "loss" THEN "halt" ELSE "exits"
  /\ todo' = IF pc = "loss" THEN {} ELSE Held
  /\ UNCHANGED <<up, pos, engineDay, paused, journal, config, account, clock,
                 tick, job, book, api, ghosts, counts>>

\* The square-off rule (I0) leaves nothing but a full exit.
MayAlwaysHold == TRUE  \* mutant: square-off is one exit rule among others
MayHold == tick = "open"

\* _manage_one when the exit machine holds, or cannot split a single lot:
\* the row is rewritten from memory.
ManageHold(s) ==
  /\ up /\ pc = "exits" /\ Idle /\ s \in todo
  /\ MayHold
  /\ row' = [row EXCEPT ![s] = pos[s]]
  /\ todo' = todo \ {s}
  /\ UNCHANGED <<memory, booked, haltFlags, config, account, clock, pc, tick,
                 job, book, api, ghosts, counts>>

\* _manage_one when the exit machine sells part of the position.
ManagePartial(s) ==
  /\ up /\ pc = "exits" /\ Idle /\ s \in todo
  /\ MayHold
  /\ \E q \in 1..(Abs(pos[s]) - 1) : job' = ExitJob(s, q, FALSE)
  /\ todo' = todo \ {s}
  /\ UNCHANGED <<memory, journal, config, account, clock, pc, tick, book,
                 api, ghosts, counts>>

\* _manage_one when an exit rule fires; at square-off it always does.
ManageExit(s) ==
  /\ up /\ pc = "exits" /\ Idle /\ s \in todo
  /\ job' = ExitJob(s, Abs(pos[s]), TRUE)
  /\ todo' = todo \ {s}
  /\ UNCHANGED <<memory, journal, config, account, clock, pc, tick, book,
                 api, ghosts, counts>>

\* Mutants: a partly filled exit closes the position; the close books only
\* the reported fill.
CloseOnAnyFill(j, o) ==
  IF o.status = "FILLED" THEN WriteJob("close", j.sym, Abs(pos[j.sym])) ELSE NoJob
CloseBooksFill(j, o) ==
  IF o.status = "FILLED" THEN WriteJob("close", j.sym, o.seen) ELSE NoJob
\* Which journal write an exit answer leads to.  A partial decision that is
\* not FILLED books nothing, even when the broker reports filled shares.
AfterExit(j, o) ==
  LET part == IF j.full
              THEN o.seen \in 1..(j.qty - 1) /\ o.status \in {"FILLED", "WORKING"}
              ELSE o.seen > 0 /\ o.status = "FILLED"
  IN  IF part THEN WriteJob("partial", j.sym, o.seen)
      ELSE IF o.status = "FILLED" THEN WriteJob("close", j.sym, j.qty)
      ELSE NoJob

\* orders.submit -> broker.place for an exit: never gated, never retried.
PlaceExit ==
  /\ up /\ job.kind = "exit"
  /\ \E o \in Answers(job.qty) :
       LET s == job.sym
           long == pos[s] > 0
       IN  /\ net' = [net EXCEPT ![s] = @ - Sign(pos[s]) * o.done]
           /\ restSell' = [restSell EXCEPT ![s] = IF long THEN @ + o.left ELSE @]
           /\ restBuy' = [restBuy EXCEPT ![s] = IF long THEN @ ELSE @ + o.left]
           /\ job' = AfterExit(job, o)
           /\ slips' = IF Slipped(o) THEN slips + 1 ELSE slips
  /\ UNCHANGED <<memory, journal, config, clock, pc, tick, todo, book, api,
                 ghosts, entries, crashes, ops>>

\* book_partial, first commit: the trade.
BookPartial ==
  /\ up /\ job.kind = "partial"
  /\ booked' = [booked EXCEPT ![job.sym] = @ + job.qty]
  /\ job' = WriteJob("partial2", job.sym, job.qty)
  /\ UNCHANGED <<memory, row, haltFlags, config, account, clock, pc, tick,
                 todo, book, api, ghosts, counts>>

\* Mutant: the reduced quantity stays in memory.
ShrinkMemoryOnly ==
  /\ up /\ job.kind = "partial2"
  /\ pos' = [pos EXCEPT ![job.sym] = Sign(@) * (Abs(@) - job.qty)]
  /\ job' = NoJob
  /\ UNCHANGED <<up, halted, flattenReq, engineDay, paused, journal,
                 config, account, clock, pc, tick, todo, book, api, ghosts, counts>>

\* book_partial, second commit: the reduced quantity, in memory and row.
ShrinkRow ==
  LET s == job.sym
      rest == Sign(pos[s]) * (Abs(pos[s]) - job.qty)
  IN
  /\ up /\ job.kind = "partial2"
  /\ pos' = [pos EXCEPT ![s] = rest]
  /\ row' = [row EXCEPT ![s] = rest]
  /\ job' = NoJob
  /\ UNCHANGED <<up, halted, flattenReq, engineDay, paused, booked, haltFlags,
                 config, account, clock, pc, tick, todo, book, api, ghosts, counts>>

\* close_position, first commit: the row is CLOSED.
CloseRow ==
  /\ up /\ job.kind = "close"
  /\ row' = [row EXCEPT ![job.sym] = 0]
  /\ job' = WriteJob("close2", job.sym, job.qty)
  /\ UNCHANGED <<memory, booked, haltFlags, config, account, clock, pc, tick,
                 todo, book, api, ghosts, counts>>

\* close_position, second commit: the trade; the position leaves tracking.
BookClose ==
  /\ up /\ job.kind = "close2"
  /\ booked' = [booked EXCEPT ![job.sym] = @ + job.qty]
  /\ pos' = [pos EXCEPT ![job.sym] = 0]
  /\ job' = NoJob
  /\ UNCHANGED <<up, halted, flattenReq, engineDay, paused, row, haltFlags,
                 config, account, clock, pc, tick, todo, book, api, ghosts, counts>>

ExitsEnd ==
  /\ up /\ pc = "exits" /\ Idle /\ todo = {}
  /\ pc' = "risk"
  /\ UNCHANGED <<memory, journal, config, account, clock, tick, todo, job,
                 book, api, ghosts, counts>>

\* A new daily-loss breach needs something to have lost on; it flattens at
\* once, inside the tick.
RiskCheck ==
  /\ up /\ pc = "risk"
  /\ \/ /\ ~halted
        /\ \E s \in Sym : pos[s] # 0 \/ booked[s] # 0
        /\ pc' = "loss" /\ todo' = Held
     \/ pc' = "halt" /\ UNCHANGED todo
  /\ UNCHANGED <<memory, journal, config, account, clock, tick, job, book,
                 api, ghosts, counts>>

\* _persist_halt runs whenever the engine sees `halted`: first the flag is
\* read, then, in a second database call, written if it was absent.
HaltRead ==
  /\ up /\ pc = "halt"
  /\ pc' = IF halted /\ engineDay \notin haltFlags THEN "persist" ELSE "scan"
  /\ UNCHANGED <<memory, journal, config, account, clock, tick, todo, job,
                 book, api, ghosts, counts>>

PersistHalt ==
  /\ up /\ pc = "persist"
  /\ haltFlags' = haltFlags \cup {engineDay}
  /\ sealed' = IF halted THEN engineDay ELSE sealed
  /\ pc' = "scan"
  /\ UNCHANGED <<memory, row, booked, config, account, clock, tick, todo, job,
                 book, api, opened, killed, counts>>

\* The scanner's signals, visited only when entries are allowed.
ScanAndGate ==
  /\ up /\ pc = "scan"
  /\ IF ~halted /\ ~paused /\ tick = "open"
     THEN \E S \in SUBSET Sym : todo' = S /\ pc' = "entries"
     ELSE pc' = "idle" /\ todo' = {}
  /\ UNCHANGED <<memory, journal, config, account, clock, tick, job, book, api,
                 ghosts, counts>>

\* RuleEngine.check: the halt and the pause are read anew for every order.
RulesPassStale(s) ==  \* mutant: only the gate before the scan reads them
  tick = "open" /\ Cardinality(Held) < MaxPositions /\ pos[s] = 0
RulesPass(s) ==
  ~paused /\ ~halted /\ tick = "open" /\ Cardinality(Held) < MaxPositions /\ pos[s] = 0

\* RuleEngine.check passes the sized entry; the order is placed in a
\* later step, so either may change in between.
EntryApprove(s) ==
  /\ up /\ pc = "entries" /\ Idle /\ s \in todo
  /\ RulesPass(s)
  /\ entries < MaxEntries
  /\ job' = [kind |-> "entry", sym |-> s, qty |-> EntryQty]
  /\ todo' = todo \ {s}
  /\ entries' = entries + 1
  /\ UNCHANGED <<memory, journal, config, account, clock, pc, tick, book, api,
                 ghosts, crashes, ops, slips>>

\* Refused: by the rules, the sizing, the budget, the model, the margin.
EntryRefuse(s) ==
  /\ up /\ pc = "entries" /\ Idle /\ s \in todo
  /\ todo' = todo \ {s}
  /\ UNCHANGED <<memory, journal, config, account, clock, pc, tick, job, book,
                 api, ghosts, counts>>

\* Only a FILLED answer is tracked, with the shares it reports.
AfterEntry(j, o) ==
  IF o.status = "FILLED" THEN WriteJob("open", j.sym, o.seen) ELSE NoJob

PlaceEntry ==
  /\ up /\ job.kind = "entry"
  /\ \E o \in Answers(job.qty) :
       /\ net' = [net EXCEPT ![job.sym] = @ + o.done]
       /\ restBuy' = [restBuy EXCEPT ![job.sym] = @ + o.left]
       /\ job' = AfterEntry(job, o)
       /\ slips' = IF Slipped(o) THEN slips + 1 ELSE slips
  /\ UNCHANGED <<memory, journal, config, restSell, clock, pc, tick, todo, book,
                 api, ghosts, entries, crashes, ops>>

\* open_position, then the position joins the tracked list.
OpenRow ==
  /\ up /\ job.kind = "open"
  /\ row' = [row EXCEPT ![job.sym] = job.qty]
  /\ pos' = [pos EXCEPT ![job.sym] = job.qty]
  /\ opened' = [opened EXCEPT ![job.sym] = @ + job.qty]
  /\ job' = NoJob
  /\ UNCHANGED <<up, halted, flattenReq, engineDay, paused, booked, haltFlags,
                 config, account, clock, pc, tick, todo, book, api, killed,
                 sealed, counts>>

EntriesEnd ==
  /\ up /\ pc = "entries" /\ Idle /\ todo = {}
  /\ pc' = "idle"
  /\ UNCHANGED <<memory, journal, config, account, clock, tick, todo, job,
                 book, api, ghosts, counts>>

-----------------------------------------------------------------------------
(* Start-up and death                                                      *)

\* EngineRunner.start: OPEN rows are tracked again; a live engine then works
\* through a snapshot of the broker's book, which reads as empty when the
\* gateway call fails (GatewayBroker.positions returns []).
Start ==
  /\ ~up
  /\ up' = TRUE
  /\ pos' = row
  /\ paused' = savedPaused
  /\ halted' = FALSE /\ flattenReq' = FALSE /\ engineDay' = 0
  /\ IF mode = "live"
     THEN /\ pc' = "reconcile" /\ todo' = Sym
          /\ book' \in {net} \cup (IF "blind_positions" \in Faults
                                    THEN {[s \in Sym |-> 0]} ELSE {})
     ELSE pc' = "idle" /\ todo' = {} /\ UNCHANGED book
  /\ UNCHANGED <<journal, config, account, clock, tick, job, api, ghosts, counts>>

SameSide(a, b) == a # 0 /\ b # 0 /\ Sign(a) = Sign(b)

\* A journalled position the broker holds: its size becomes the broker's.
ReconcileMatch(s) ==
  /\ up /\ pc = "reconcile" /\ Idle /\ s \in todo
  /\ SameSide(pos[s], book[s])
  /\ pos' = [pos EXCEPT ![s] = book[s]]
  /\ row' = [row EXCEPT ![s] = book[s]]
  /\ opened' = [opened EXCEPT ![s] = @ + Abs(book[s]) - Abs(pos[s])]
  /\ todo' = todo \ {s}
  /\ UNCHANGED <<up, halted, flattenReq, engineDay, paused, booked, haltFlags,
                 config, account, clock, pc, tick, job, book, api, killed,
                 sealed, counts>>

\* One it does not hold on that side: journal-closed without an order.
ReconcileGhost(s) ==
  /\ up /\ pc = "reconcile" /\ Idle /\ s \in todo
  /\ pos[s] # 0 /\ ~SameSide(pos[s], book[s])
  /\ job' = WriteJob("close", s, Abs(pos[s]))
  /\ UNCHANGED <<memory, journal, config, account, clock, pc, tick, todo, book,
                 api, ghosts, counts>>

\* A broker row nothing tracks is adopted.
ReconcileAdopt(s) ==
  /\ up /\ pc = "reconcile" /\ Idle /\ s \in todo
  /\ pos[s] = 0
  /\ pos' = [pos EXCEPT ![s] = book[s]]
  /\ row' = [row EXCEPT ![s] = book[s]]
  /\ opened' = [opened EXCEPT ![s] = @ + Abs(book[s])]
  /\ todo' = todo \ {s}
  /\ UNCHANGED <<up, halted, flattenReq, engineDay, paused, booked, haltFlags,
                 config, account, clock, pc, tick, job, book, api, killed,
                 sealed, counts>>

ReconcileEnd ==
  /\ up /\ pc = "reconcile" /\ Idle /\ todo = {}
  /\ pc' = "idle"
  /\ UNCHANGED <<memory, journal, config, account, clock, tick, todo, job,
                 book, api, ghosts, counts>>

\* The process dies anywhere.  An order on its way still reaches the broker,
\* where it trades some shares and may go on resting.
Crash ==
  /\ up /\ crashes < MaxCrashes
  /\ crashes' = crashes + 1
  /\ up' = FALSE /\ pos' = [s \in Sym |-> 0]
  /\ halted' = FALSE /\ flattenReq' = FALSE /\ engineDay' = 0 /\ paused' = FALSE
  /\ pc' = "off" /\ todo' = {} /\ job' = NoJob /\ api' = "idle"
  /\ tick' = "open" /\ book' = [s \in Sym |-> 0]
  /\ IF job.kind \in {"entry", "exit"} /\ mode = "live"
     THEN LET s == job.sym
              buys == job.kind = "entry" \/ pos[s] < 0
          IN  \E f \in 0..job.qty, l \in 0..job.qty :
                /\ f + l <= job.qty
                /\ l = 0 \/ "cancel_fails" \in Faults
                /\ net' = [net EXCEPT ![s] = IF buys THEN @ + f ELSE @ - f]
                /\ restBuy' = [restBuy EXCEPT ![s] = IF buys THEN @ + l ELSE @]
                /\ restSell' = [restSell EXCEPT ![s] = IF buys THEN @ ELSE @ + l]
     ELSE UNCHANGED account
  /\ UNCHANGED <<journal, config, clock, ghosts, entries, ops, slips>>

-----------------------------------------------------------------------------
(* The API thread: one request handler at a time, beside the engine        *)

Serving == up /\ pc # "reconcile" /\ api = "idle" /\ ops < MaxOps

\* /api/kill: pause and save it, then request_flatten(halt=True), whose two
\* assignments the engine may see one at a time.
Kill ==
  /\ Serving
  /\ paused' = TRUE /\ savedPaused' = TRUE
  /\ api' = "kill_flatten" /\ ops' = ops + 1
  /\ UNCHANGED <<up, pos, halted, flattenReq, engineDay, journal, mode, account,
                 clock, control, ghosts, entries, crashes, slips>>

KillFlatten ==
  /\ up /\ api = "kill_flatten"
  /\ flattenReq' = TRUE
  /\ api' = "kill_halt"
  /\ UNCHANGED <<up, pos, halted, engineDay, paused, journal, config, account,
                 clock, control, ghosts, counts>>

KillHalt ==
  /\ up /\ api = "kill_halt"
  /\ halted' = TRUE
  /\ killed' = TRUE
  /\ api' = "idle"
  /\ UNCHANGED <<up, pos, flattenReq, engineDay, paused, journal, config, account,
                 clock, control, opened, sealed, counts>>

\* /api/pause, with or without square_off; also the way back from a pause.
Pause ==
  /\ Serving
  /\ \E b \in BOOLEAN, squareOff \in BOOLEAN :
       /\ paused' = b /\ savedPaused' = b
       /\ api' = IF b /\ squareOff THEN "pause_flatten" ELSE "idle"
  /\ ops' = ops + 1
  /\ UNCHANGED <<up, pos, halted, flattenReq, engineDay, journal, mode, account,
                 clock, control, ghosts, entries, crashes, slips>>

PauseFlatten ==
  /\ up /\ api = "pause_flatten"
  /\ flattenReq' = TRUE
  /\ api' = "idle"
  /\ UNCHANGED <<up, pos, halted, engineDay, paused, journal, config, account,
                 clock, control, ghosts, counts>>

\* /api/resume: the pause, then the halt in memory, then its journalled flags.
Resume ==
  /\ Serving
  /\ paused' = FALSE /\ savedPaused' = FALSE
  /\ api' = "resume_halt" /\ ops' = ops + 1
  /\ UNCHANGED <<up, pos, halted, flattenReq, engineDay, journal, mode, account,
                 clock, control, ghosts, entries, crashes, slips>>

ResumeHalt ==
  /\ up /\ api = "resume_halt"
  /\ halted' = FALSE
  /\ killed' = FALSE /\ sealed' = 0
  /\ api' = "resume_flags"
  /\ UNCHANGED <<up, pos, flattenReq, engineDay, paused, journal, config, account,
                 clock, control, opened, counts>>

ResumeFlags ==
  /\ up /\ api = "resume_flags"
  /\ haltFlags' = {}
  /\ sealed' = 0
  /\ api' = "idle"
  /\ UNCHANGED <<memory, row, booked, config, account, clock, control, opened,
                 killed, counts>>

\* /api/mode: the config and the broker object change under open positions.
SetMode ==
  /\ Serving /\ "mode_toggle" \in Faults
  /\ mode' = IF mode = "live" THEN "paper" ELSE "live"
  /\ ops' = ops + 1
  /\ UNCHANGED <<memory, journal, savedPaused, account, clock, control, api,
                 ghosts, entries, crashes, slips>>

-----------------------------------------------------------------------------
(* The market                                                              *)

SquareOff ==
  /\ phase = "open"
  /\ phase' = "square_off"
  /\ UNCHANGED <<memory, journal, config, account, day, control, api, ghosts,
                 counts>>

NoShares == [s \in Sym |-> 0]

\* The next session.  MIS positions are gone and day orders have expired.  A
\* running engine is between ticks and, unless the broker's own square-off is
\* admitted as a fault, has brought the account flat itself.
NextDay ==
  /\ phase = "square_off" /\ day < MaxDay
  /\ up => pc = "idle" /\ (net = NoShares \/ "rms_square_off" \in Faults)
  /\ day' = day + 1 /\ phase' = "open"
  /\ net' = NoShares /\ restBuy' = NoShares /\ restSell' = NoShares
  /\ killed' = FALSE
  /\ UNCHANGED <<memory, journal, config, control, api, opened, sealed, counts>>

\* An order nobody tracks trades at last.
RestFill(s) ==
  /\ "rest_fills" \in Faults
  /\ \/ /\ restBuy[s] > 0
        /\ net' = [net EXCEPT ![s] = @ + restBuy[s]]
        /\ restBuy' = [restBuy EXCEPT ![s] = 0] /\ UNCHANGED restSell
     \/ /\ restSell[s] > 0
        /\ net' = [net EXCEPT ![s] = @ - restSell[s]]
        /\ restSell' = [restSell EXCEPT ![s] = 0] /\ UNCHANGED restBuy
  /\ UNCHANGED <<memory, journal, config, clock, control, api, ghosts, counts>>

-----------------------------------------------------------------------------
Exits == \/ \E s \in Sym : FlattenOne(s) \/ ManageHold(s) \/ ManagePartial(s) \/ ManageExit(s)
         \/ FlattenEnd \/ ExitsEnd \/ PlaceExit
         \/ BookPartial \/ ShrinkRow \/ CloseRow \/ BookClose
Entering == \/ \E s \in Sym : EntryApprove(s) \/ EntryRefuse(s)
            \/ ScanAndGate \/ PlaceEntry \/ OpenRow \/ EntriesEnd
Halting == RiskCheck \/ HaltRead \/ PersistHalt
StartUp == \/ \E s \in Sym : ReconcileMatch(s) \/ ReconcileGhost(s) \/ ReconcileAdopt(s)
           \/ Start \/ ReconcileEnd
Engine == TickBegin \/ Exits \/ Halting \/ Entering \/ StartUp
Handlers == KillFlatten \/ KillHalt \/ PauseFlatten \/ ResumeHalt \/ ResumeFlags
Operator == Kill \/ Pause \/ Resume \/ SetMode
Market == SquareOff \/ NextDay \/ \E s \in Sym : RestFill(s)

Next == Engine \/ Handlers \/ Operator \/ Market \/ Crash

Spec == Init /\ [][Next]_vars

\* The broker fills an exit order in full; refusing it forever is not assumed
\* possible, refusing it any finite number of times is.
ExitFilled(s) == PlaceExit /\ job.sym = s /\ job'.kind = "close"
Fairness ==
  /\ WF_vars(Engine) /\ WF_vars(Handlers)
  /\ \A s \in Sym : SF_vars(ExitFilled(s))
FairSpec == Spec /\ Fairness

-----------------------------------------------------------------------------
(* Properties                                                              *)

JobKinds == {"none", "exit", "partial", "partial2", "close", "close2", "entry", "open"}
JobOK ==
  \/ job = NoJob
  \/ /\ job.kind \in JobKinds \ {"none"}
     /\ job.sym \in Sym
     /\ job.qty \in Nat \ {0}
     /\ job.kind = "exit" => job.full \in BOOLEAN

SwitchesOK ==
  /\ up \in BOOLEAN /\ halted \in BOOLEAN /\ flattenReq \in BOOLEAN
  /\ paused \in BOOLEAN /\ savedPaused \in BOOLEAN /\ killed \in BOOLEAN

\* The range of every variable; the quantities are shares, signed where a
\* short side is possible.
TypeOK ==
  /\ SwitchesOK
  /\ engineDay \in 0..MaxDay /\ day \in 1..MaxDay
  /\ sealed \in 0..MaxDay
  /\ haltFlags \subseteq 0..MaxDay
  /\ pos \in [Sym -> Int] /\ row \in [Sym -> Int] /\ net \in [Sym -> Int]
  /\ book \in [Sym -> Int] /\ opened \in [Sym -> Int]
  /\ booked \in [Sym -> Nat]
  /\ restBuy \in [Sym -> Nat] /\ restSell \in [Sym -> Nat]
  /\ mode \in {"paper", "live"}
  /\ phase \in {"open", "square_off"} /\ tick \in {"open", "square_off"}
  /\ pc \in {"off", "reconcile", "idle", "flatten", "exits", "risk", "loss",
             "halt", "persist", "scan", "entries"}
  /\ api \in {"idle", "kill_flatten", "kill_halt", "pause_flatten",
              "resume_halt", "resume_flags"}
  /\ todo \subseteq Sym
  /\ JobOK
  /\ entries \in 0..MaxEntries /\ crashes \in 0..MaxCrashes
  /\ ops \in 0..MaxOps /\ slips \in 0..MaxSlips

\* What the journal would restore is what the engine manages: at every moment
\* a restart may come, the OPEN rows carry exactly the tracked quantities,
\* but for the position whose row was closed a moment ago.
Closing(s) == job.kind = "close2" /\ job.sym = s
JournalMatchesTracked ==
  up => \A s \in Sym : row[s] = IF Closing(s) THEN 0 ELSE pos[s]

\* Every share journalled as entered is still on an OPEN row or recorded as
\* one traded share, once; the two commits of a close or a partial are the
\* only moments it is neither or both.  Before the first death.
InFlight(s) ==
  IF job.kind = "none" \/ job.sym # s THEN 0
  ELSE CASE job.kind = "partial2" -> -job.qty
         [] job.kind = "close2" -> job.qty
         [] OTHER -> 0
LedgerBalanced ==
  crashes = 0 => \A s \in Sym : opened[s] - booked[s] - Abs(row[s]) = InFlight(s)

\* Between ticks a live engine tracks the broker's net position exactly, even
\* after it died with an order on its way.  A broker link without faults.
BrokerMatchesTracked == up /\ pc = "idle" /\ mode = "live" => net = pos

\* An exit never reverses a position: options are only ever bought, so the
\* account is never short of one.
NoReversal == \A s \in Sym : net[s] >= 0

\* A halt that reached the journal admits no entry on its day, through any
\* number of restarts, until a resume.
NoEntryAfterJournalledHalt ==
  [][~(job.kind # "entry" /\ job'.kind = "entry" /\ sealed # 0 /\ sealed = engineDay)]_vars

\* Once a kill has answered, no further entry passes the rules, wherever the
\* engine was in its tick, until a resume or a new day.
NoEntryAfterKill == [][~(job.kind # "entry" /\ job'.kind = "entry" /\ killed)]_vars

\* A kill brings the account flat, or is overruled.
KillFlattens == killed ~> (net = NoShares /\ pos = NoShares) \/ ~killed

\* Square-off time brings the account flat, whatever order was in progress.
SquareOffFlat == phase = "square_off" ~> (net = NoShares /\ pos = NoShares) \/ phase = "open"

=============================================================================
