SPECIFICATION Spec
CONSTANTS
  NofPrb = 6
  NrbPucch = 1
  PrachOffset = 2
  PrachSize = 2
  Users = {1, 2}
  MaxTx = 2
  Wants = {0, 2}
  Sizes <- TwoSizes
  Msg3Masks <- OneMsg3
  DciOutcomes = {TRUE, FALSE}
  Lossy = {1}
VIEW LiveState
INVARIANTS TypeOK UlExclusive RetxBeforeNew GrantObeyed
PROPERTIES NewDataTaken
