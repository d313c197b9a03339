SPECIFICATION RlpSpec
CONSTANTS
 Multi=TRUE
 Protocols={p1,p2}
 Callbacks={c1}
 Groups={g1,g2,g3}
 MaxGroups=2
 Failing={"newSkt","evl_register","addMembership"}
 SpareMain=TRUE
 MaxFd=4
 MaxSubs=3
SYMMETRY Symmetry
INVARIANTS Served PackedReceived NothingKept
CHECK_DEADLOCK FALSE
