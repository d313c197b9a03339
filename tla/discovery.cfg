SPECIFICATION DiscoverySpec
CONSTANTS
  Bits = 2
  Cids = {0, 1, 3}
  Lcomps = {l1, l2}
  Lists <- MCLists
  Events = {}
  OneEach = TRUE
  Copies = 2
  MaxUrls = 2
INVARIANTS
  AgentOpen
  Known
  MemberKnown
  AttsRead
CONSTRAINT
  Apart
CHECK_DEADLOCK FALSE
