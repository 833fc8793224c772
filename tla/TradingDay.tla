----------------------------- MODULE TradingDay -----------------------------
(***************************************************************************)
(* The day of the legacy engine: who may take a signal, and when.          *)
(*                                                                         *)
(*   core/killswitch.py     the user's pause, a file                       *)
(*   engine/orchestrator.py a tick mirrors file and clock to scanner.paused*)
(*   engine/scanner.py      a sweep reads scanner.paused once              *)
(*   engine/agent_scanner.py a second thread that takes signals, on paper  *)
(*   engine/executor.py     realized loss of the day, kept in a file, and  *)
(*                          the gates of a live entry                      *)
(*   run_app.py             the order in which the threads start           *)
(*                                                                         *)
(* A position is only what the gates ask of it: none, paper or live (what  *)
(* its orders can do is LiveExits).  Profits are whole units.              *)
(***************************************************************************)
EXTENDS Integers, FiniteSets

CONSTANTS
  Symbols,
  Cap,         \* max_daily_loss
  MaxOpen,     \* max_positions
  Days,        \* bound: days that pass
  MaxPauses,   \* bound: clicks on pause or resume
  MaxSwitches, \* bound: switches between paper and live
  MaxDeaths,   \* bound: deaths of the process
  MaxTrades    \* bound: live exits that trade

ASSUME TradingDayAssumption ==
  /\ Cap \in Nat \ {0} /\ MaxOpen \in Nat \ {0} /\ Days \in Nat \ {0}
  /\ MaxPauses \in Nat /\ MaxSwitches \in Nat /\ MaxDeaths \in Nat /\ MaxTrades \in Nat

VARIABLES
  clock,    \* the day and its part
  flag,     \* state/killswitch.flag exists
  mode,     \* "paper" or "live", a file too
  up,       \* "down", "scanner" (scanner thread only) or "up"
  paused,   \* scanner.paused
  phase,    \* orchestrator.phase
  tick,     \* the flag a tick has read and not yet mirrored
  click,    \* where a request to pause or resume is
  sweep,    \* the scanner thread: its stage and the symbols to visit
  agent,    \* the agent thread: its stage and symbol
  book,     \* per symbol: "none", "paper" or "live"
  day,      \* executor._day
  dayFile,  \* state/live_day.json
  duty,      \* what the holder of the exit engine's lock still has to do
  truth,    \* observation: what the exits of the day came to
  missed,   \* observation: a result of the day never reached _add_realized
  count     \* bounds

dayVars == <<clock, flag, mode, up, paused, phase, tick, click, sweep, agent,
             book, day, dayFile, duty, truth, missed, count>>
files == <<flag, mode, book, dayFile>>
threads == <<phase, tick, click, sweep, agent, duty>>
observed == <<truth, missed, count>>

Parts == {"pre_open", "open", "late", "closed"}  \* late: 15:15 to 15:30
NoDay == [date |-> 0, realized |-> 0]
Idle == [stage |-> "idle", todo |-> {}]
Quiet == [stage |-> "idle"]
NoWork == [kind |-> "none"]
Free == duty = NoWork

DayInit ==
  /\ clock = [day |-> 1, part |-> "pre_open"] /\ flag = FALSE /\ mode \in {"paper", "live"}
  /\ up = "down" /\ paused = FALSE /\ phase = "none" /\ tick = "idle" /\ click = "idle"
  /\ sweep = Idle /\ agent = Quiet /\ book = [s \in Symbols |-> "none"]
  /\ day = NoDay /\ dayFile = NoDay /\ duty = NoWork
  /\ truth = 0 /\ missed = FALSE
  /\ count = [pauses |-> 0, switches |-> 0, deaths |-> 0, trades |-> 0]

-----------------------------------------------------------------------------
(* The orchestrator                                                        *)

\* The session phase of the wall clock.
PhaseFor(part) == IF part = "late" THEN "open" ELSE part

TickReads ==
  /\ up = "up" /\ tick = "idle"
  /\ phase' = PhaseFor(clock.part)
  /\ tick' = IF flag THEN "paused" ELSE "running"
  /\ UNCHANGED <<clock, files, up, paused, click, sweep, agent, day, duty, observed>>

\* mutant: a tick pauses at the close only, and else resumes
MirroredOnce == phase # "open" \/ (paused /\ tick = "paused")
Mirrored == tick = "paused" \/ phase # "open"
TickWrites ==
  /\ tick # "idle"
  /\ paused' = Mirrored /\ tick' = "idle"
  /\ UNCHANGED <<clock, files, up, phase, click, sweep, agent, day, duty, observed>>

-----------------------------------------------------------------------------
(* The user                                                                *)

\* pause_set: the file, what is_paused() says of it, then scanner.paused.
Clicks(v) ==
  /\ up = "up" /\ click = "idle" /\ count.pauses < MaxPauses
  /\ flag' = v /\ click' = "filed" /\ count' = [count EXCEPT !.pauses = @ + 1]
  /\ UNCHANGED <<clock, mode, book, dayFile, up, paused, phase, tick, sweep, agent, day, duty, truth, missed>>

ClickReads ==
  /\ click = "filed"
  /\ click' = IF flag THEN "paused" ELSE "running"
  /\ UNCHANGED <<clock, files, up, paused, phase, tick, sweep, agent, day, duty, observed>>

ClickWrites ==
  /\ click \in {"paused", "running"}
  /\ paused' = (click = "paused") /\ click' = "idle"
  /\ UNCHANGED <<clock, files, up, phase, tick, sweep, agent, day, duty, observed>>

\* mode_set, with a broker session there.
Switches ==
  /\ up = "up" /\ count.switches < MaxSwitches
  /\ mode' = IF mode = "live" THEN "paper" ELSE "live"
  /\ count' = [count EXCEPT !.switches = @ + 1]
  /\ UNCHANGED <<clock, flag, book, dayFile, up, paused, threads, day, truth, missed>>

-----------------------------------------------------------------------------
(* open_from_signal, under the exit engine's lock                          *)

Rolled == IF day.date = clock.day THEN day ELSE [date |-> clock.day, realized |-> 0]
Rolls == day' = Rolled /\ dayFile' = IF Rolled = day THEN dayFile ELSE Rolled

InWindow == clock.part = "open"
Spared == Rolled.realized > -Cap
Room == Cardinality({s \in Symbols : book[s] = "live"}) < MaxOpen

StaysOut(s) == book[s] # "none" /\ UNCHANGED <<book, day, dayFile>>
OpensOnPaper(s) ==
  /\ book[s] = "none" /\ mode = "paper"
  /\ book' = [book EXCEPT ![s] = "paper"] /\ UNCHANGED <<day, dayFile>>
\* The gates of enter refuse, or the broker does.
Refuses(s) ==
  /\ book[s] = "none" /\ mode = "live" /\ UNCHANGED book
  /\ IF InWindow THEN Rolls ELSE UNCHANGED <<day, dayFile>>
Enters(s) ==
  /\ book[s] = "none" /\ mode = "live"
  /\ InWindow /\ Rolls /\ Spared /\ Room
  /\ book' = [book EXCEPT ![s] = "live"]
OpenFromSignal(s) == StaysOut(s) \/ OpensOnPaper(s) \/ Refuses(s) \/ Enters(s)

-----------------------------------------------------------------------------
(* The scanner thread                                                      *)

SweepBegins ==
  /\ up # "down" /\ sweep.stage = "idle"
  /\ sweep' = [stage |-> "scan", todo |-> IF paused THEN {} ELSE Symbols]
  /\ UNCHANGED <<clock, files, up, paused, phase, tick, click, agent, day, duty, observed>>

\* Signals stop with the 15:10 bar.
Signal(s) ==
  /\ sweep.stage = "scan" /\ s \in sweep.todo /\ Free
  /\ clock.part \in {"open", "late"}
  /\ OpenFromSignal(s)
  /\ sweep' = [sweep EXCEPT !.todo = @ \ {s}]
  /\ UNCHANGED <<clock, flag, mode, up, paused, phase, tick, click, agent, duty, observed>>

\* No further signal: the positions are next, one bar each.
Scanned ==
  /\ sweep.stage = "scan" /\ Free
  /\ sweep' = [stage |-> "update", todo |-> {s \in Symbols : book[s] # "none"}]
  /\ UNCHANGED <<clock, files, up, paused, phase, tick, click, agent, day, duty, observed>>

ClosesOnPaper(s) ==
  /\ sweep.stage = "update" /\ s \in sweep.todo /\ Free /\ book[s] = "paper"
  /\ book' = [book EXCEPT ![s] = "none"] /\ sweep' = [sweep EXCEPT !.todo = @ \ {s}]
  /\ UNCHANGED <<clock, flag, mode, dayFile, up, paused, phase, tick, click, agent, day, duty, observed>>

\* The exit order trades, at a gain or a loss.
ExitTrades(s, p) ==
  /\ sweep.stage = "update" /\ s \in sweep.todo /\ Free /\ book[s] = "live" /\ mode = "live"
  /\ count.trades < MaxTrades
  /\ truth' = truth + p /\ count' = [count EXCEPT !.trades = @ + 1]
  /\ duty' = [kind |-> "fill", sym |-> s, pnl |-> p]
  /\ sweep' = [sweep EXCEPT !.todo = @ \ {s}]
  /\ UNCHANGED <<clock, files, up, paused, phase, tick, click, agent, day, missed>>

\* _add_realized: the day is saved, then the kill switch is tripped.
Booked == [Rolled EXCEPT !.realized = @ + duty.pnl]
AddRealized ==
  /\ duty.kind = "fill"
  /\ day' = Booked /\ dayFile' = Booked
  /\ book' = [book EXCEPT ![duty.sym] = "none"]
  /\ duty' = IF Booked.realized <= -Cap THEN [kind |-> "trip"] ELSE NoWork
  /\ UNCHANGED <<clock, flag, mode, up, paused, phase, tick, click, sweep, agent, observed>>

Trips ==
  /\ duty.kind = "trip"
  /\ flag' = TRUE /\ duty' = NoWork
  /\ UNCHANGED <<clock, mode, book, dayFile, up, paused, phase, tick, click, sweep, agent, day, observed>>

\* A fill without an average price has no result to book.
Unpriced ==
  /\ duty.kind = "fill"
  /\ book' = [book EXCEPT ![duty.sym] = "none"]
  /\ missed' = TRUE /\ duty' = NoWork
  /\ UNCHANGED <<clock, flag, mode, dayFile, up, paused, phase, tick, click, sweep, agent, day, truth, count>>

SweepEnds ==
  /\ sweep.stage = "update" /\ Free
  /\ sweep' = Idle
  /\ UNCHANGED <<clock, files, up, paused, phase, tick, click, agent, day, duty, observed>>

-----------------------------------------------------------------------------
(* The agent thread                                                        *)

\* A sweep that found its scanner running and its window open.
AgentSweeps ==
  /\ up = "up" /\ agent.stage = "idle" /\ ~paused /\ clock.part = "open"
  /\ \E s \in Symbols : agent' = [stage |-> "fired", sym |-> s]
  /\ UNCHANGED <<clock, files, up, paused, phase, tick, click, sweep, day, duty, observed>>

\* _enter: live mode is a hard no.
AgentAsks ==
  /\ agent.stage = "fired"
  /\ agent' = IF mode = "live" THEN Quiet ELSE [agent EXCEPT !.stage = "cleared"]
  /\ UNCHANGED <<clock, files, up, paused, phase, tick, click, sweep, day, duty, observed>>

AgentOpens ==
  /\ agent.stage = "cleared" /\ Free
  /\ OpenFromSignal(agent.sym)
  /\ agent' = Quiet
  /\ UNCHANGED <<clock, flag, mode, up, paused, phase, tick, click, sweep, duty, observed>>

-----------------------------------------------------------------------------
(* The clock, deaths and starts of the process                             *)

NextPart(part) ==
  CASE part = "pre_open" -> "open" [] part = "open" -> "late" [] part = "late" -> "closed"
ClockMoves ==
  /\ clock.part # "closed"
  /\ clock' = [clock EXCEPT !.part = NextPart(@)]
  /\ UNCHANGED <<files, up, paused, threads, day, observed>>

\* No order is on its way at midnight.
NextDay ==
  /\ clock.part = "closed" /\ clock.day < Days /\ Free
  /\ clock' = [day |-> clock.day + 1, part |-> "pre_open"]
  /\ truth' = 0 /\ missed' = FALSE
  /\ UNCHANGED <<files, up, paused, threads, day, count>>

Dies ==
  /\ up # "down" /\ count.deaths < MaxDeaths
  /\ count' = [count EXCEPT !.deaths = @ + 1]
  /\ up' = "down" /\ paused' = FALSE /\ phase' = "none" /\ tick' = "idle" /\ click' = "idle"
  /\ sweep' = Idle /\ agent' = Quiet /\ duty' = NoWork /\ day' = NoDay
  /\ missed' = (missed \/ duty.kind = "fill")
  /\ UNCHANGED <<clock, files, truth>>

LoadForgets == NoDay  \* mutant: the day starts from nothing
LoadDay == IF dayFile.date = clock.day THEN dayFile ELSE NoDay

\* main: the scanner thread runs before there is an orchestrator.
Starts ==
  /\ up = "down"
  /\ up' = "scanner" /\ day' = LoadDay
  /\ UNCHANGED <<clock, files, paused, threads, observed>>

OrchestratorStarts ==
  /\ up = "scanner"
  /\ up' = "up"
  /\ UNCHANGED <<clock, files, paused, threads, day, observed>>

-----------------------------------------------------------------------------
Orchestrator == TickReads \/ TickWrites
User == \/ \E v \in BOOLEAN : Clicks(v)
        \/ ClickReads \/ ClickWrites \/ Switches
Scanner ==
  \/ SweepBegins \/ Scanned \/ AddRealized \/ Trips \/ Unpriced \/ SweepEnds
  \/ \E s \in Symbols : Signal(s) \/ ClosesOnPaper(s) \/ \E p \in {-1, 1} : ExitTrades(s, p)
Agents == AgentSweeps \/ AgentAsks \/ AgentOpens
World == ClockMoves \/ NextDay \/ Dies \/ Starts \/ OrchestratorStarts
DayNext == Orchestrator \/ User \/ Scanner \/ Agents \/ World

\* The orchestrator ticks every 30 seconds, a request runs to its end, and a
\* process that started its scanner starts its orchestrator.
DayFairness ==
  /\ WF_dayVars(Orchestrator) /\ WF_dayVars(ClickReads \/ ClickWrites)
  /\ WF_dayVars(OrchestratorStarts)
DaySpec == DayInit /\ [][DayNext]_dayVars /\ DayFairness

-----------------------------------------------------------------------------
(* Properties                                                              *)

\* A day whose exits lost the cap takes no live entry, whatever the user
\* resumes and however often the process dies, unless a result was lost on
\* its way to _add_realized.
CapHolds ==
  [][\A s \in Symbols : book[s] # "live" /\ book'[s] = "live" => truth > -Cap \/ missed]_dayVars

\* When user, clock and deaths come to rest, the scanner is paused exactly
\* when the file says so or the market is closed, whoever wrote last.
PauseSettles ==
  <>[](up = "up" => (paused <=> flag \/ PhaseFor(clock.part) # "open"))

\* core/killswitch.py of the pause: a file "so it survives process restarts".
PauseSurvives == [][up = "scanner" /\ flag => sweep'.stage = "idle" \/ sweep'.todo = {}]_dayVars
=============================================================================
