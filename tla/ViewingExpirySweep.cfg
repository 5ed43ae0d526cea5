SPECIFICATION FairSpec
CONSTANTS
  ProposalIds = {1, 2}
  ViewingIds = {2}
  BatchSize = 2
  MaxClock = 4
  MaxPoisoned = 2
  MaxFaults = 1
PROPERTIES
  SweepTriesEachOnce
  OverdueIsSettled
