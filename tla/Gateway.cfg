\* Seconds, and 3600 parts to a token.  A pause of less than half a token of 1/min, and
\* one of ten seconds less than the day a leaf is cached: two reach past it,
\* and past the end of a CA that was loaded two days before it expires.
CONSTANTS
  One = 3600
  RateSpecs <- MCRateSpecs
  Pauses = {25, 86390}
  MaxAttempts = 3
  Conns = {c1, c2}
  Targets = {"dns", "ipv4", "ipv6"}
  CAValidities = {172800}
  MaxTokens = 3
  Counts = {1}
  Gaps = {}
  MaxReported = 3
  MaxPauses = 3
SYMMETRY ConnSymmetry
SPECIFICATION Spec
INVARIANTS
  NoSilentUnlimited
  BucketExact
  LeafStaysValid
  LeavesReused
  
PROPERTY ImplementsWindow
CHECK_DEADLOCK FALSE
