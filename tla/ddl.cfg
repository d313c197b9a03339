SPECIFICATION DeviceSpec
CONSTANTS
  Top = 16
  MaxRegions = 8
  Layouts = {}
  NULL = NULL
  Arrays = {1, 2, 3}
  Proprefs <- MCProprefs
  Rules <- MCRules
  Params = {2}
  Ids = {"a"}
  hash <- MChash
  INITPOWER = 1
  Paths <- MCPaths
  Kinds = {"null", "net", "imm", "include", "alias", "setparam", "badtype"}
  Values = 3
  MaxProps = 5
  MaxWeight = 4
  Ranges <- MCRanges
  CommonData = FALSE
  OuterSteps = FALSE
  MaxServed = 3
  MaxBeside = 4
CONSTRAINT Small
INVARIANTS
  Found
  DocumentOrder
  PointersResolve
  ValuesFit
  ElementsAgree
CHECK_DEADLOCK FALSE
