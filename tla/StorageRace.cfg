SPECIFICATION Spec
CONSTANTS
  Nothing = nothing
  Slot = {1, 2}
  Requests <- Inserts
  Unprintable = {"big"}
  Media = {"file"}
  MaxRounds = 1
  Grants <- OneGrant
  Providers <- OneProvider
  Programs <- OneProgram
  Inputs <- NoInputs
  Bundles <- OneBundle
  Decodable = {"good"}
CHECK_DEADLOCK FALSE
INVARIANTS
  IdsUnique
