SPECIFICATION Spec
CONSTANTS
  NofRbgs = 3
  SiNRbg = 1
  RarNRbg = 1
  MinCfi = 1
  MaxCfi = 2
  ExtraSymbol = 0
  SixPrbs = TRUE
  Users = {1, 2}
  Slices = {0, 1}
  Pids = {1, 2}
  Masks <- TwoMasks
  Policies = {0, 1}
  Needs <- SmallNeeds
  SlicingEnabled = TRUE
  GlobalPolicy = 0
  SchedThreshold = 0
  DciOutcomes = {TRUE, FALSE}
CONSTRAINT Bounds
VIEW LiveUnsliced
INVARIANTS TypeOK GridExclusive GridAccounts GrantsMatchHarq NewDataInSlice TtiMaskSound
           UnslicedKeepsSize PrachKeptFree
PROPERTIES RetxFirst
