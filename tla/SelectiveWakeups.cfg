SPECIFICATION Spec
CONSTANTS
  MaxProcesses = 3
  MaxMailbox = 2
  MaxSteps = 6
  MaxSlice = 2
  Rank <- MCRank
  Tags = {"DOWN", "job"}
  Naps = {1, 2}
  Menus <- DownMenus
INVARIANT SelectiveWakeups
