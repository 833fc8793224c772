----------------------------- MODULE MCEngines -----------------------------
(* The legacy engine and the exit rules of the intraday one in one run:    *)
(* live legs, the gates of the day, the stop of a position, I0 to I8.      *)
(* `part` picks which one runs.  The legs meet a death or a switch of the  *)
(* mode, not both.  The gates run twice: with money and a scanner that     *)
(* nothing pauses, and with pauses and no scanner thread.                  *)
EXTENDS LiveExits, TradingDay, StopWalk, ExitMachine

CONSTANTS s1, s2
VARIABLE part

BarPrices == (-3..3) \ {0}
StrikePrices == {-1, 2}
UnderlyingSpots == -2..3

Money == Scanner \/ ClockMoves \/ NextDay \/ Dies \/ Starts
Pauses == Orchestrator \/ User \/ Agents \/ ClockMoves \/ Dies \/ Starts \/ OrchestratorStarts
engineVars == <<part, vars, dayVars, walkVars, machineVars>>

\* One initial state for each part that does not run.
Resting ==
  /\ part # "legs" => live
  /\ part \notin {"money", "pauses"} => mode = "paper"
  /\ part # "walk" => dir = 1 /\ SamePlan
  /\ part # "rules" => side = 1

EnginesInit ==
  /\ part \in {"legs", "money", "pauses", "walk", "rules"}
  /\ Init /\ DayInit /\ WalkInit /\ MachineInit /\ Resting
EnginesNext ==
  /\ UNCHANGED part
  /\ \/ part = "legs" /\ Next /\ crashes' + toggles' <= 1 /\ UNCHANGED <<dayVars, walkVars, machineVars>>
     \/ part = "money" /\ Money /\ UNCHANGED <<vars, walkVars, machineVars>>
     \/ part = "pauses" /\ Pauses /\ UNCHANGED <<vars, walkVars, machineVars>>
     \/ part = "walk" /\ WalkNext /\ UNCHANGED <<vars, dayVars, machineVars>>
     \/ part = "rules" /\ MachineNext /\ UNCHANGED <<vars, dayVars, walkVars>>

GatesRun == part \in {"money", "pauses"}
EnginesSpec ==
  /\ EnginesInit /\ [][EnginesNext]_engineVars
  /\ WF_vars(part = "legs" /\ Engine) /\ SF_vars(part = "legs" /\ RetryFilled)
  /\ WF_dayVars(GatesRun /\ Orchestrator)
  /\ WF_dayVars(GatesRun /\ (ClickReads \/ ClickWrites))
  /\ WF_dayVars(GatesRun /\ OrchestratorStarts)
=============================================================================
