SPECIFICATION Spec
CONSTANTS
  Attrs <- MCAttrs
  Key <- MCKey
  NamingAttr = "cn"
  Sensitive = {"userPassword"}
  ServerOwned = {}
  AccessRules = {"aci"}
  RefAttr = "member"
  Ref <- MCRef
  NoEntry = NoEntry
  NoToken = NoToken
  NoExpect = NoExpect
  None = None
  Menu <- MCMenuGroup
  Starts <- MCGroup
  Foreign <- MCForeign
  MaxStaged = 2
  MaxOthers = 2
  MaxFaults = 1
  MaxRounds = 2
INVARIANTS AnswerTrue VerdictTrue
PROPERTIES PlannedStateMet RecoveryOverwritesNobody PreStateTrue
CHECK_DEADLOCK FALSE
