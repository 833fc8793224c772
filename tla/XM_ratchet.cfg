SPECIFICATION MachineSpec
CONSTANTS
  Spots = {0, 1, 2, 3}
  Lots = 2
  FirstStop = 2
  Trails = {1, 2}
PROPERTY RatchetOnly
CHECK_DEADLOCK FALSE
