SPECIFICATION Spec
CONSTANTS
  Ldr = Ldr
  Flw = Flw
  Mids = {1}
  MaxChan = 3
  MaxAdds = 2
  AppCalls = {}
  MaxApp = 0
  MaxWrap = 1
  AdHocRetries = 1
  MakRetries = 0
  AutoCon = TRUE
  SendFail = FALSE
  MayCrash = TRUE
INVARIANTS
  PeersAgree
CHECK_DEADLOCK FALSE
