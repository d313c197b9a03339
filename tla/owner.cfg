SPECIFICATION FairSpec
CONSTANTS
  Members = {m1, m2}
  MaxSent = 3
  Late = FALSE
  Reorder = FALSE
INVARIANTS
  TypeOK
  KeptUntilVerified
  LedgerExact
PROPERTY
  BackDrains
CHECK_DEADLOCK FALSE
