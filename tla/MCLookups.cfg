SPECIFICATION OperationsSpec
CONSTANTS
  Answers <- Lists
  ATTEMPTS = 2
  MaxBytes = 2
  MaxDatagrams = 3
  Home <- TwoHosts
  Plans <- TwoPlans
  MaxWritten = 2
  MaxCarried = 1
  Versions = {1, 2}
  MaxJobs = 2
  MaxTroubles = 2
  Bases <- Drafts
  Written <- Entries
  MaxEdits = 2
INVARIANTS LookupsThroughTunnel
CHECK_DEADLOCK FALSE
