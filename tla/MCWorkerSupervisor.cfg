SPECIFICATION FairSupervisor
CONSTANTS
  ProviderProfile = {"p"}
  Hash = {"h", "k"}
  NoHash = "none"
  Expected <- MCExpected
  Sandbox = {"p"}
  Mode = {"serve", "request_shell"}
  Probed = {"p"}
  Launch = {"ok", "failed"}
  MaxRestarts = 1
  Window = 1
  Tries = 2
  PipeSize = 1
  MaxWorkers = 2
  MaxClock = 1
  MaxRequests = 1
INVARIANTS
  RestartsAreBounded
  PollMissesNone
PROPERTIES
  CallsReturn
CHECK_DEADLOCK FALSE
