SPECIFICATION DeviceSpec
CONSTANTS
  Top = 16
  MaxRegions = 8
  Layouts = {}
  NULL = NULL
  Arrays = {1, 2}
  Proprefs <- MCProprefs
  Rules <- MCRules
  Params = {2}
  Ids = {"a"}
  hash <- MChash
  INITPOWER = 1
  Paths <- MCPaths
  Kinds = {"null", "net", "imm", "include", "alias", "setparam", "badtype"}
  Values = 3
  MaxProps = 5
  MaxWeight = 5
  Ranges = {}
  CommonData = FALSE
  OuterSteps = FALSE
  MaxServed = 0
  MaxBeside = 0
CONSTRAINT Small
INVARIANT NeverAborted
CHECK_DEADLOCK FALSE
