CONSTANTS
  Attrs <- MCAttrs
  Key <- MCKey
  NamingAttr = "cn"
  Sensitive = {}
  ServerOwned = {"id"}
  AccessRules = {}
  RefAttr = "member"
  Ref <- MCRef
  NoEntry = NoEntry
  NoToken = NoToken
  NoExpect = NoExpect
  Inputs <- MCInputs
  Starts <- MCStart
  Foreign <- MCForeign
  Edits <- MCEdits
  UniqueId = "id"
  Ids <- MCIds
  MaxOthers = 2
  Runs = {r1, r2}
  Uncounted = Uncounted
  None = None
SPECIFICATION SavedSpec
SYMMETRY Interchangeable
PROPERTIES EffectAsShown OverwritesNobody OnlyWhatFilesAsk
INVARIANT LeavesWhatFilesDescribe
CHECK_DEADLOCK FALSE
