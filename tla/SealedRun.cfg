SPECIFICATION Spec
CONSTANTS
  Nothing = nothing
  Slot = {1, 2}
  Requests <- MCRequests
  Unprintable = {"big"}
  Media = {"file", "transactional"}
  MaxRounds = 2
  Grants <- MCGrants
  Providers <- MCProviders
  Programs <- MCPrograms
  Inputs <- MCInputs
  Bundles <- MCBundles
  Decodable = {"good"}
CHECK_DEADLOCK FALSE
INVARIANTS
  TypeOK AckedKept CommitKeeps RestartImports OwnGrantsOpen LoadsWhatWasSealed
PROPERTIES
  CallsSettle
