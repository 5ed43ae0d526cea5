SPECIFICATION SpecProjection
CONSTANTS
  MaxRounds = 2
  MaxClock = 4
  MaxRevision = 4
  MaxIssued = 2
  Duration = 1
  ResponseWindow = 2
  ChangeCutoff = 1
  CorrectionWindow = 1
  InterestWindow = 1
CHECK_DEADLOCK FALSE
INVARIANTS
  NothingOutlivesTheProcess
  NobodyIsForgotten
  OffersAreHonoured
  OverviewsMatchMenu
PROPERTIES
  AskedOnce
  ChangesAreAnnounced
