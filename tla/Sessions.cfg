SPECIFICATION Spec
CONSTANTS
  Sid = {s1}
  Token = {t1, t2}
  Socket = {k1}
  NoSid = none
CHECK_DEADLOCK FALSE
INVARIANTS
  SessionsProveThePassword
  RevokedHearsNothing
PROPERTIES
  RevokedIsDisconnected
