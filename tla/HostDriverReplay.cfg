SPECIFICATION Spec
CONSTANTS
  Nothing = nothing
  Waiting = waiting
  Failed = failed
  Js <- MCJs
  SafeMax = 7
  Outputs <- OneRound
  Results <- LossyResults
  Handlers = {"http.get", "send"}
  MaxIters = 2
CHECK_DEADLOCK FALSE
INVARIANT ReplayReconstructs
