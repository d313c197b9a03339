SPECIFICATION FairSpec
CONSTANTS
  Ldr = Ldr
  Flw = Flw
  Mids = {1}
  MaxChan = 2
  MaxAdds = 1
  AppCalls = {"dropClient"}
  MaxApp = 1
  MaxWrap = 2
  AdHocRetries = 0
  MakRetries = 0
  AutoCon = FALSE
  SendFail = TRUE
  MayCrash = TRUE
PROPERTIES
  JoinDecided
  OrphanDropped
CHECK_DEADLOCK FALSE
