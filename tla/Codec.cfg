SPECIFICATION Spec
CONSTANTS
  TextLimit <- MCTextLimit
  CountLimit <- MCCountLimit
  LastType = 3
  LastDrain = 2
  Values <- MCValues
  Lost <- MCLost
  Trailing <- MCTrailing
  MaxText = 9
  MaxCount = 4
INVARIANTS DecodeInvertsEncode  DamagedIsRefused
CHECK_DEADLOCK FALSE
