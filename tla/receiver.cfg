SPECIFICATION FairSpec
CONSTANTS
  MaxSent = 5
  NakRetries = 2
  Holdoff = TRUE
  MayFree = TRUE
  Others = TRUE
INVARIANTS
  TypeOK
  TakenInOrder
  NeverBehind
  GapIsPursued
PROPERTIES
  GapResolved
  KeepsPromise
CHECK_DEADLOCK FALSE
