SPECIFICATION DlnaSpec
CONSTANTS
  Uri = {u1, u2, u3}
  Allowed = {u1, u2}
  None = None
  MaxSubscriptions = 2
  MaxSid = 3
  Value = {v1, v2}
  Coalesce = 2
  SeqLimit = 3
  MaxVariables = 1
  MaxLogged = 4
  MaxDirect = 3
INVARIANTS
  PlaysOnlyConsented
  NumbersTellLoss
PROPERTIES
  SubscribersCatchUp
CHECK_DEADLOCK FALSE
