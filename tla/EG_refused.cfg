SPECIFICATION EgressSpec
CONSTANTS
  Orders = {1}
  ProxyCount = 2
  Mode = "auto"
  Sticky = 1
  LostAnswers = TRUE
  MaxMoves = 0
INVARIANT RefusedHasNoOrder
CHECK_DEADLOCK FALSE
