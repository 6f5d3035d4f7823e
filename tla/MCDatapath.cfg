SPECIFICATION DatapathSpec
CONSTANTS
  Clients = {"c1", "c2"}
  MSG1_LEN = 4
  MSG2_LEN = 3
  MAX_PAD = 1
  Numbers = {1, 2}
  MaxStarts = 2
  MaxAccepts = 2
  PERIOD = 4
  SYN_LEDGER_LEN = 1
  Places = {"here", "there"}
  MaxSkew = 2
  MaxSyns = 2
  MaxTime = 12
  mtu = 6
  OVERHEAD = 2
  Inner = {4, 6}
  Hops = {4, 5, 8}
  MIN_IPV4_MTU = 3
  MaxPorts = 2
  MaxSends = 2
  MaxChanges = 2
INVARIANTS RecordsRead PacketsDelivered KnocksAnswered FilterIsItsPredicate
   ConnectionsOpen OneStream  CountsWhatLeft
PROPERTIES  StreamFollowed
CHECK_DEADLOCK FALSE
