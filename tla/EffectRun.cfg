SPECIFICATION Spec
CONSTANTS
  MaxProcesses = 2
  Key = {"k", "l"}
  Node = {"n"}
  MaxSteps = 4
  MaxProcessStepsPerSlice = 2
  MaxEffectsRequested = 2
  MatchTag = {"EffectReply", "DOWN", "message"}
  MessageTag = {"message"}
  MaxHints = 2
CHECK_DEADLOCK FALSE
INVARIANTS
  TypeOK RepliesAccounted NobodyForgotten
PROPERTIES
  RunEnds
