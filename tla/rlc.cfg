SPECIFICATION Spec
CONSTANTS
  Window = 2
  SduEnds <- LongFirst
  Grants <- OneOrTwo
  Ample <- Two
  Early = {FALSE}
  MaxRetx = 0
  MaxAir = 2
  MaxStatuses = 2
  MaxLosses = 1
VIEW LiveState
INVARIANTS NothingForgotten
PROPERTIES InSequenceDelivery DeliveredOrQuiet
CHECK_DEADLOCK FALSE
