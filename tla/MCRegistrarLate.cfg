SPECIFICATION LateSpec
CONSTANTS
  Requests = {r1, r2}
  Registrations = {g1, g2}
  NoRequest = NoRequest
  NoRegistration = NoRegistration
  Credentials = FALSE
  Codes = {"other"}
  Transport = "other"
  FinalCodes = {}
  Grants = {TRUE}
  MaxRoutes = 1
  MaxCommands = 1
  MaxSettings = 0
  MaxBacklog = 1
  MaxLag = 2
  MaxQueued = 2
INVARIANT OutcomeComesInTheEnd
CHECK_DEADLOCK FALSE
