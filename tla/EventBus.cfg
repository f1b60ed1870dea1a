SPECIFICATION FairSpec
CONSTANTS
  MaxSeq = 6
  Size = {1, 2, 5}
  MaxEntries = 3
  MaxTotalBytes = 4
PROPERTIES
  ImplementsEventLog
  EveryEventReaches
CHECK_DEADLOCK FALSE
