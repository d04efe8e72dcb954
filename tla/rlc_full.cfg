SPECIFICATION Spec
CONSTANTS
  Window = 2
  SduEnds <- LongSecond
  Grants <- TooSmallToo
  Ample <- Two
  Early = {FALSE}
  MaxRetx = 1
  MaxAir = 2
  MaxStatuses = 2
  MaxLosses = 1
VIEW LiveState
PROPERTIES InSequenceDelivery
CHECK_DEADLOCK FALSE
