SPECIFICATION FairSpec
CONSTANTS
  None = None
  Nil = Nil
  Documents = {a, b}
  SameState = SameState
  Scenes <- ScenesDef
  Objects = {o1, o2}
  Ids = {x, y, z}
  MaxEdits = 3
  Names = {"n1"}
  TransportOf <- TransportOfDef
  Lists <- ListsDef
  Courses <- CoursesDef
INVARIANTS ActiveAsEnabled  GapIsRepaired AccountsAsConfigured NeighboursAsThere
PROPERTIES StopReturns
CHECK_DEADLOCK FALSE
