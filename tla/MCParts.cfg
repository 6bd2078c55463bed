SPECIFICATION MCSpec
CONSTANTS
  Messages = {m1, m2}
  m1 = m1
  m2 = m2
  MaxParts = 2
  Parts = 2
  MaxChunks = 3
  MaxServers = 1
  MaxHolds = 4
  MaxOffers = 2
  MaxSubscriptions = 3
  MaxChanges = 2
  MaxReferrals = 2
  MaxProgress = 2
  MaxTransfers = 2
  MaxAsks = 3
  Transports = {"udp", "tls"}
  MaxNetworks = 3
  Callers = {"a", "b"}
  Busy = {"a"}
  Played = {"a"}
  MaxPlays = 2
  MaxLoops = 2
INVARIANTS
  EachMessageOnce
  TransferOutcome
  HoldIsKept
  ConferenceAsWanted
  RequestAnswered
  TransferSettled
  NamesAsPublished
  HeardAsArranged
PROPERTIES
  ImplementsMediaStream
  EverythingReleased
CHECK_DEADLOCK FALSE
