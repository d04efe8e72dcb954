SPECIFICATION FairSpec
CONSTANTS
  Rntis = {1, 2}
  TtiMod = 10
  RingSize = 5
  Workers = 3
  DlDelay = 0
  UlDelay = 4
  Msg3Delay = 2
  RarStart = 4
  RarWindow = 2
  PrachTtis = {1, 2}
  MbsfnTtis = {6}
  MaxLate = 1
  Msg3Size = 1
  NrbPucch = 1
  PrachOffset = 0
  PrachSize = 2
  MaxMsg3Prb = 3
  MaxRoom = 2
  Shortages = {"RB", "DCI"}
VIEW LiveState
INVARIANTS TypeOK Conserved Msg3Exclusive Msg3Kept
PROPERTIES RarEnds
