SPECIFICATION Spec
CONSTANTS
  Applicants = {p1, p2, p3}
  Listings = {l1}
  Tries = {t1}
  Attempts <- MCAttempts
  ApplicantOf <- MCApplicantOf
  ListingOf <- MCListingOf
  Legacy = {}
  Limit = 1
  BatchSize = 1
  lax = lax
  strict = strict
  good = good
  poor = poor
  Criteria = {lax, strict}
  Profiles = {good, poor}
  NoProfile = NoProfile
  Null = Null
  Accepts <- MCAccepts
  Demanded <- MCDemanded
  Entered <- MCEntered
  CurationCooldown = 1
  ReapplyCooldown = 2
  MaxClock = 2
SYMMETRY Symmetry
CONSTRAINT Explored
INVARIANTS
  DiscoveryFindsTheEligible
  ActiveWithinLimit
  PagingPromotesTheSame
PROPERTIES
  QueueIsAppendOnly
  ImplementsQueue
