SPECIFICATION FairLinkSpec
CONSTANTS
  Url = {u1}
  NoUrl = NoUrl
  RequestTimeout = 0
  HeartbeatPing = 1
  HeartbeatExpiry = 1
  MaxRequests = 2
  Apps = {"player", "other"}
  Configured = {"player"}
  MaxUnderWay = 2
  MaxSenders = 2
  MaxBody = 7
  Bodies <- MCBodies
  Tails <- MCTails
  Payloads <- MCPayloads
INVARIANTS
  AgreeWhenQuiet
  AdvertTellsTheTruth
  CodingIsExact
PROPERTY RequestsSettle
CHECK_DEADLOCK FALSE
