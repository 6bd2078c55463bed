CONSTANTS
  None = None
  c1 = c1
  c2 = c2
  g1 = g1
  p1 = p1
  a1 = a1
  a2 = a2
  Contacts <- MCContacts
  Groups <- MCGroups
  Policies <- MCPolicies
  Accounts <- MCAccounts
  Scenes <- MCScenes
SPECIFICATION Spec
INVARIANTS BooksAgree EditsArrive
PROPERTIES Settles
CHECK_DEADLOCK FALSE
