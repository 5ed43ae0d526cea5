SPECIFICATION Spec
CONSTANTS
  Identities = {i1}
  Outcomes = {"SATISFIED", "NOT_SATISFIED"}
  MaxRound = 2
  Files = {f1, f2}
  NoFile = none
  Slots = {s1}
  BatchSize = 1
  RecoveryDelay = 1
  ProcessingTimeout = 1
  Backoff = 1
  MaxClock = 1
  MaxScans = 2
  MaxFaults = 0
SYMMETRY Symmetry
INVARIANTS
  AcknowledgedThreatIsOut
  EvidenceIsSettled
  DocumentsOfferedAreAccepted
  VerificationCanProgress
