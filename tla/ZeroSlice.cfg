SPECIFICATION FairSpec
CONSTANTS
  MaxProcesses = 3
  MaxMailbox = 2
  MaxSteps = 6
  MaxSlice = 0
  Rank <- MCRank
  Tags = {"DOWN", "job"}
  Naps = {1, 2}
  Menus <- LocalMenus
PROPERTY Halts
