SPECIFICATION FairSpec
CONSTANTS
  Requests = {r1, r2}
  Registrations = {g1, g2}
  NoRequest = NoRequest
  NoRegistration = NoRegistration
  Credentials = FALSE
  Codes = {"401", "other"}
  Transport = "other"
  FinalCodes = {"401"}
  Grants = {TRUE}
  MaxRoutes = 1
  MaxCommands = 1
  MaxSettings = 0
  MaxBacklog = 2
  MaxLag = 1
  MaxQueued = 2
PROPERTIES StopsForGood
