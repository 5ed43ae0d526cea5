SPECIFICATION FairSpec
CONSTANTS
  Identities = {i1, i2}
  Outcomes = {"SATISFIED"}
  MaxRound = 1
  Files = {f1, f2}
  NoFile = none
  Slots = {s1}
  BatchSize = 1
  RecoveryDelay = 1
  ProcessingTimeout = 2
  Backoff = 1
  MaxClock = 3
  MaxScans = 0
  MaxFaults = 1
PROPERTIES
  AttemptsEnd
