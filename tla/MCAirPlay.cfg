SPECIFICATION AirPlaySpec
CONSTANTS
    None = None
    MaxPayload = 6
    MaxPixels = 1
    MaxSessions = 2
    MaxConnections = 3
    MaxBody = 2
    MaxFrames = 2
    Budget = 3
    MaxOffered = 5
    MaxHeard = 3
    Rates = {0, 2, 3}
    Devices = {d1, d2, d3}
    MaxPaired = 2
    MaxClock = 2
    Requests <- MCRequests
    Frames <- MCFrames
    AudioRequests <- MCAudioRequests
    ControlRequests <- MCControlRequests
    KeySets <- MCKeySets
    Marks <- MCMarks
INVARIANTS
    ReservationsAreBounded
    NoFrameAfterGap
    FramesAreAccounted
    DurationIsKept
    FormatsAreExact
CHECK_DEADLOCK FALSE
