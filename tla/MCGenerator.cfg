SPECIFICATION GenSpec
CONSTANTS
  Versions = {1, 2}
  NULL = NULL
  MaxBuilds = 2
  Infiles <- MCInfiles
  NameOf <- MCNameOf
  Names = {"foo", "bar"}
  Requests <- MCRequests
  MaxCalls = 3
INVARIANTS
  ScriptFilesAgree
  SuccessIsWhole
PROPERTIES
  UserCodeSurvives
CHECK_DEADLOCK FALSE
