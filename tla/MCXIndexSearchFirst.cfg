SPECIFICATION Spec
CONSTANTS
  Keys <- OneToThree
  Payloads <- OnePayload
  None <- NoPayload
  OpKeys = {1, 2}
  FirstExempt = TRUE
INVARIANT FirstPivotIsMinusInf
CHECK_DEADLOCK FALSE
