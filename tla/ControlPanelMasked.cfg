SPECIFICATION Spec
CONSTANTS
  Clients <- MCOnePanelClients
  NoClient = NoClient
  Secrets = {"", "k1", "k2", "*1", "*2"}
  NoSecret = ""
  MaskOf <- MCMaskOf
  DefaultConfig <- MCDefault
  NoOverride = NoOverride
  Panels <- MCOnePanel
  ProviderIds = {"C"}
  Upstreams <- MCUpstreams
  AliasNames <- MCAliasNames
  NewKeys = {"k2"}
  NewPorts = {9001}
  Overrides <- MCNoOverrides
  InitialFiles <- MCDefaultOnly
  ScriptBodies <- MCNoBodies
  MaxEdits = 1
  MaxRequests = 2
  MaxDisturbances = 0
INVARIANT MaskedKeysPreserved
CHECK_DEADLOCK FALSE
