SPECIFICATION Spec
CONSTANTS
  Ldr = Ldr
  Flw = Flw
  Mids = {1}
  MaxChan = 2
  MaxAdds = 1
  AppCalls = {"addClient", "dropMember"}
  MaxApp = 1
  MaxWrap = 3
  AdHocRetries = 1
  MakRetries = 0
  AutoCon = TRUE
  SendFail = FALSE
  MayCrash = FALSE
INVARIANTS
  TypeOK
  HandshakeOrder
  NeverUntimed
  RecipChannelOwned
  ClientAgree
CHECK_DEADLOCK FALSE
