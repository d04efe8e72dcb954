SPECIFICATION Spec
CONSTANTS
  Rntis = {1}
  TtiMod = 16
  RingSize = 8
  Workers = 2
  DlDelay = 1
  UlDelay = 8
  Msg3Delay = 2
  RarStart = 3
  RarWindow = 3
  PrachTtis = {12}
  MbsfnTtis = {}
  MaxLate = 1
  Msg3Size = 1
  NrbPucch = 1
  PrachOffset = 0
  PrachSize = 2
  MaxMsg3Prb = 3
  MaxRoom = 1
  Shortages = {"RB"}
INVARIANTS ExpiredDiscarded
