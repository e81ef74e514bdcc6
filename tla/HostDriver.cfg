SPECIFICATION Spec
CONSTANTS
  Nothing = nothing
  Waiting = waiting
  Failed = failed
  Js <- MCJs
  SafeMax = 7
  Outputs <- MCOutputs
  Results <- MCResults
  Handlers = {"http.get", "send"}
  MaxIters = 3
CHECK_DEADLOCK FALSE
INVARIANTS
  TypeOK JournalInOrder ReplaySame ReplayMatches
PROPERTIES
  ImplementsEffectJournal RunSettles
