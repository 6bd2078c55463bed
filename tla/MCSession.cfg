SPECIFICATION Spec
CONSTANTS
  Streams <- MCStreams
  Firsts <- MCFirsts
  Menus <- MCMenus
  Bare <- MCBare
  MaxTroubles = 1
INVARIANTS
  ToldOnce NeverDeaf  
PROPERTIES
  EndsWithTheDialog StopCompletes
CHECK_DEADLOCK FALSE
