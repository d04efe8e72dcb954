SPECIFICATION FairSpec
CONSTANTS
  Pids = {0, 1}
  TtiMod = 16
  DlDelay = 1
  UlDelay = 1
  OldAge = 3
  MaxRetx = 2
  DupTimeout = 1
  Sizes = {1, 2}
  Resizes = TRUE
  Workers = 2
  DciMissed = TRUE
  UciWrong = TRUE
  KeepDrx = TRUE
VIEW LiveState
CONSTRAINT Bounds
INVARIANTS TypeOK
PROPERTIES AckedIsDelivered DeliveredOnce FeedbackToSender FirstRetxAnswered TbEnds
