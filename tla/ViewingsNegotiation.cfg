SPECIFICATION SpecBoth
CONSTANTS
  MaxRounds = 3
  MaxClock = 3
  MaxRevision = 4
  MaxIssued = 3
  Duration = 1
  ResponseWindow = 2
  ChangeCutoff = 1
  CorrectionWindow = 1
  InterestWindow = 2
CHECK_DEADLOCK FALSE
INVARIANTS
  CommitmentsMatch
  PlaceIsJustified
  LegacyRowsAreSound
PROPERTIES
  DeadlinesAreKept
  EndedInterestStaysClosed
