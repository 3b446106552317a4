SPECIFICATION Spec
CONSTANTS
  Attrs <- MCAttrs
  Key <- MCKey
  NamingAttr = "cn"
  Sensitive = {"userPassword"}
  ServerOwned = {}
  AccessRules = {"aci"}
  RefAttr = "member"
  Ref <- NoRef
  NoEntry = NoEntry
  NoToken = NoToken
  NoExpect = NoExpect
  None = None
  Menu <- MCMenu
  Starts <- MCStart
  Foreign = {}
  MaxStaged = 4
  MaxOthers = 0
  MaxFaults = 0
  MaxRounds = 4
INVARIANTS RecoveryRestores BundleNeverStuck
CHECK_DEADLOCK FALSE
