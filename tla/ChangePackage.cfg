CONSTANTS
  Ids <- MCIds
  Attrs <- MCAttrs
  Key <- MCKey
  NamingAttr = "cn"
  Sensitive = {"userPassword"}
  ServerOwned = {}
  AccessRules = {}
  RefAttr = "mail"
  Ref <- MCRef
  NoEntry = NoEntry
  NoToken = NoToken
  NoExpect = NoExpect
  Menu <- MCMenu
  Starts <- MCStarts
  Foreign <- MCForeign
  Earlier = 0
  MaxStaged = 3
  MaxRounds = 2
  MaxOthers = 1
  MaxFaults = 1
SPECIFICATION Spec
INVARIANTS OrderRespects DerivedHasOrder ArrivesAsStaged PromotedIsSatisfied NothingWithoutItsNeeds
CONSTRAINT Disturbances
CHECK_DEADLOCK FALSE
