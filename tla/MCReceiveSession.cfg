SPECIFICATION ReceiveSpec
CONSTANTS
  Folder = {"docs"}
  Name = {"a"}
  Place = {"docs"}
  Payload = {p1, p2}
  Size = {1, 2, 3}
  SizeLimit = 4
  Shape = {"good", "bad", "del"}
  Budget = 2
  MaxOffers = 2
  MaxEntries = 2
  MaxPublished = 2
  MaxTemp = 2
  MaxLeftover = 1
INVARIANTS
  BoundToItsPayload
  CountsAgree
PROPERTIES
  ReceiptsAreWhole
SYMMETRY PayloadSymmetry
CHECK_DEADLOCK FALSE
