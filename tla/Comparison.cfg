SPECIFICATION Spec
CONSTANTS
  Attrs <- MCAttrs
  Key <- MCKey
  NamingAttr = "cn"
  Sensitive = {"userPassword"}
  ServerOwned = {"entryUUID"}
  AccessRules = {}
  RefAttr = "mail"
  Ref <- MCRef
  NoEntry = NoEntry
  NoToken = NoToken
  NoExpect = NoExpect
  None = None
  NoFilter = NoFilter
  Identity = "entryUUID"
  Identities <- MCIdentities
  Starts <- MCStarts
  References <- MCReferences
  Hidden = {"title"}
  HiddenThere = {"mail"}
  Requests <- MCRequests
  Foreign <- MCForeign
  ProbeBudget = 1
  MaxOthers = 2
  MaxRounds = 3
  MaxFaults = 1
INVARIANTS DeletesOnlyTheAbsent ProposesOnlyDifferences Settles
CHECK_DEADLOCK FALSE
