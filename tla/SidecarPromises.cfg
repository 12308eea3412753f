\* A valid identity, a CA to mount and a file to write, for pods with and without
\* volumes.
CONSTANTS
  MaxContainers = 3
  Configs <- MCFileAndCA
  Secrets <- MCSecrets
  Hosts = {"llm", "web", "elsewhere"}
  Numbers <- MCNumbers
  Rates <- MCRates
SPECIFICATION Spec
INVARIANT PatchDelivers
CHECK_DEADLOCK FALSE
