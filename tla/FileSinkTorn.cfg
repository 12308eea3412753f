\* One goroutine is enough: the interruption does it.
CONSTANTS
  Callers = {g1}
  NoCaller = NoCaller
  Body = {b1}
  NoEvent = NoEvent
  MaxLines = 4
  Faults = {"power"}
SPECIFICATION Spec
INVARIANT OneVerifiableChain
CHECK_DEADLOCK FALSE
