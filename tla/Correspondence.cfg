SPECIFICATION Spec
CONSTANTS
  MaxTransactions = 2
  MaxMessages = 2
  MaxNotifications = 2
  MaxTime = 1
  Retention = 1
  PageLimit = 1
  Never = never
CHECK_DEADLOCK FALSE
INVARIANTS
  StaleClientsAreTold
PROPERTIES
  OnlyEarlierIsRead
