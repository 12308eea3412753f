\* Two emitting goroutines, two bodies and four chunks: room for a fault, a
\* restart, a record after it and a record that must link past both.
CONSTANTS
  Callers = {g1, g2}
  NoCaller = NoCaller
  Body = {b1, b2}
  NoEvent = NoEvent
  MaxLines = 4
  Faults = {"write", "fsync", "power"}
SPECIFICATION Spec
INVARIANTS
  TypeOK
  IntactPrefixVerifies
  LaterRecordsCommit
PROPERTY AppendOnly
CHECK_DEADLOCK FALSE
