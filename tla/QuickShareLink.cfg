SPECIFICATION FairSpec
CONSTANTS
  None = None
  Body = {b1, b2}
  Deadline = 1
  MaxTime = 2
  MaxFaults = 1
  MaxSealed = 2
  MaxPayloads = 1
INVARIANTS
  ConfirmedSawTheSame
  HonestPeersSurvive
  OpenedIsPrefix
PROPERTIES
  HandshakeSettles
CHECK_DEADLOCK FALSE
