\* Clients may go away while they are being answered, on either path.
CONSTANTS
  Conns = {c1}
  Hosts = {h1, h2}
  NoHost = NoHost
  Allowed = {h1}
  MITMHosts = {h1}
  MaxRequests = 0
  RateLimited = FALSE
  MaxTokens = 2
  MaxUsage = 2
  FileMode = TRUE
  Interrupted = {"plain", "decrypted"}
  Redirects = FALSE
  MaxCalls = 3
SPECIFICATION Spec
INVARIANT EveryCallSettled
CHECK_DEADLOCK FALSE
