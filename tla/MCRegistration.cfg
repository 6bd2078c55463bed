SPECIFICATION MCFairSpec
CONSTANTS
  Requests = {r1, r2, r3}
  Registrations = {g1}
  NoRequest = NoRequest
  NoRegistration = NoRegistration
  Credentials = TRUE
  Codes = {"other"}
  Transport = "other"
  Grants = {TRUE, FALSE}
  MaxPosted = 2
INVARIANTS NothingLostSightOf
PROPERTIES ImplementsService CallsAreAnswered
