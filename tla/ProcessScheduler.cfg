SPECIFICATION FairSpec
CONSTANTS
  MaxProcesses = 3
  MaxMailbox = 2
  MaxSteps = 6
  MaxSlice = 2
  Rank <- MCRank
  Tags = {"DOWN", "job"}
  Naps = {1, 2}
  Menus <- MCMenus
INVARIANTS
  TypeOK QueueExact MailboxWakeups JoinWakeups MessagesConserved OldestFirst
  SentWithinLimit LinksMutual DownDropsRef StepBudget StepsAccounted SleepersAhead
PROPERTIES
  WokenOnTime EndedForGood DeathAnnounced NoOvertaking Halts
