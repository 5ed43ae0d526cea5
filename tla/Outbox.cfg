SPECIFICATION FairSpec
CONSTANTS
  Events = {1, 2}
  Dispatchers = {d1, d2}
  NoOne = NoOne
  BatchSize = 2
  MaxAttempts = 2
  Lease = 2
  Deadline = 2
  Backoff <- MCBackoff
  MaxFaults = 1
INVARIANTS
  OnlyPublishedIsDropped
PROPERTIES
  LeaseIsRespected
  Settles
