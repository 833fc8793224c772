SPECIFICATION DaySpec
CONSTANTS
  Symbols = {"INFY"}
  Cap = 2
  MaxOpen = 1
  Days = 1
  MaxPauses = 1
  MaxSwitches = 0
  MaxDeaths = 1
  MaxTrades = 0
PROPERTY PauseSurvives
CHECK_DEADLOCK FALSE
