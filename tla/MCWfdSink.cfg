SPECIFICATION FairSpec
CONSTANTS
  None = None
  SeqModulus = 4
  LossThreshold = 1
  Debounce = 1
  MaxPacket = 4
  MaxLost = 1
  LocalVideo <- MCLocalVideo
  LocalAudio <- MCLocalAudio
  RemoteVideo <- MCRemoteVideo
  RemoteAudio <- MCRemoteAudio
  KeepaliveInterval = 1
  SessionTimeout = 1
  MaxPending = 2
INVARIANTS
  PlaysWhatBothDeclared
  LossIsAccounted
PROPERTY SilentSourceEnds
CHECK_DEADLOCK FALSE
