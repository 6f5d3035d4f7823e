SPECIFICATION Spec
CONSTANTS
  Endpoints <- MCEndpoints
  MaxAccounts = 3
  MaxRefusals = 1
  MaxEvents = 2

  
PROPERTIES
  FallsBack
CHECK_DEADLOCK FALSE
