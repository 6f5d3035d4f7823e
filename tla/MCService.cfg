SPECIFICATION MCSpec
CONSTANTS
  Tunnels = {1, 2}
  Threads <- MCThreads
  Batched = {2}
  MaxEvents = 2
  Asks <- FileAsks
  MaxWrong = 1
INVARIANTS LevelFollowsFile 
PROPERTIES ProcessEnds ServiceRecovers
CHECK_DEADLOCK FALSE
