\* One or two user containers, and room for the engine and a container of
\* another webhook before or after it.  Two hosts are allowed, one is not.
CONSTANTS
  MaxContainers = 3
  Configs <- MCConfigs
  Secrets <- MCSecrets
  Hosts = {"llm", "web", "elsewhere"}
  Numbers <- MCNumbers
  Rates <- MCRates
SPECIFICATION Spec
INVARIANTS
  InjectedOnce
  TrafficRouted
  TrustMounted
  EngineIdentified
  RejectionsKnown
  AllowedCallsWork
  ConfigEnforced
  EngineStarts
PROPERTY UserConfigKept
CHECK_DEADLOCK FALSE
