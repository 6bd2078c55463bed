CONSTANTS
  None = None
  Menus <- MCMenus
  Overlap = FALSE
SPECIFICATION Spec
INVARIANTS UpdatesKept ApplicationKnows BlockedStaysBlocked
 
CHECK_DEADLOCK FALSE
