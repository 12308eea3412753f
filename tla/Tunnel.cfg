\* Two bytes a direction: one may be in transit when the other side ends.
CONSTANT MaxBytes = 2
SPECIFICATION Spec
INVARIANT TypeOK
PROPERTIES
  QuietAfterEvent
  TeardownPropagates
CHECK_DEADLOCK FALSE
