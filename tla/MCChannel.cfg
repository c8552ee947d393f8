CONSTANTS
  p = p
  q = q
  r = r
  drv = drv
  a = a
  b = b
  Client <- MCClient
  Driver <- MCDriver
  Key <- MCKey
  Setups <- MCSetups
SPECIFICATION FairSpec
CHECK_DEADLOCK FALSE
INVARIANTS
  ExactlyOnce
  PerClientFifo
  RightItems
  BatchesFilled
PROPERTIES
  CallsReturn
