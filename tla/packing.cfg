SPECIFICATION DmpSpec
CONSTANTS
  Members <- MCMembers
  Bodies <- MCBodies
  Flags <- MCFlags
  Adspecs <- MCAdspecs
  DmpFlags = {{"on"}, {"reply"}}
  Sizes = {2}
  Modulus = 32
  Limit1 = 4
  Limit2 = 16
  MaxDmp = 2
  Users = {"sdt", "dmp"}
  Protos = {"DMP"}
  Room = 34
  MaxPackets = 2
  MaxHeld = 3
  RptFull = FALSE
  RptNoFlush = FALSE
  NoChan = NoChan
  Same = Same
CONSTRAINT FirstAndNext
INVARIANT AddressesMeant
PROPERTY SameMail
CHECK_DEADLOCK FALSE
