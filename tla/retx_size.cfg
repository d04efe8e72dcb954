SPECIFICATION Spec
CONSTANTS
  NofRbgs = 3
  SiNRbg = 1
  RarNRbg = 1
  MinCfi = 1
  MaxCfi = 2
  ExtraSymbol = 0
  SixPrbs = FALSE
  Users = {1, 2}
  Slices = {0, 1}
  Pids = {1}
  Masks <- TwoMasks
  Policies = {0}
  Needs <- SmallNeeds
  SlicingEnabled = TRUE
  GlobalPolicy = 0
  SchedThreshold = 0
  DciOutcomes = {TRUE, FALSE}
VIEW LiveSized
INVARIANT RetxKeepsSize
