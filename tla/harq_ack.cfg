SPECIFICATION Spec
CONSTANTS
  Pids = {0, 1}
  TtiMod = 16
  DlDelay = 1
  UlDelay = 1
  OldAge = 3
  MaxRetx = 2
  DupTimeout = 2
  Sizes = {1}
  Resizes = FALSE
  Workers = 2
  DciMissed = FALSE
  UciWrong = FALSE
  KeepDrx = FALSE
PROPERTIES Delivers
