SPECIFICATION Spec
CONSTANTS
  Clients <- MCOnePanelClients
  NoClient = NoClient
  Secrets = {"", "k1", "k2", "*1", "*2"}
  NoSecret = ""
  MaskOf <- MCMaskOf
  DefaultConfig <- MCDefault
  NoOverride = NoOverride
  Panels <- MCOnePanel
  ProviderIds = {"B", "C"}
  Upstreams <- MCUpstreams
  AliasNames <- MCAliasNames
  NewKeys = {"k2"}
  NewPorts = {9001}
  Overrides <- MCOverrides
  InitialFiles <- MCFiles
  ScriptBodies <- MCScriptBodies
  MaxEdits = 2
  MaxRequests = 2
  MaxDisturbances = 1
INVARIANTS
  FileHoldsConfig
PROPERTIES
  FreshSaveKeepsSecrets
  FreshSaveKeepsRoutes
  SaveRoutesAsShown
CHECK_DEADLOCK FALSE
