CONSTANTS
  Ns_max = 20
  Lines = 2
  Cells = 2
  Ratio = 4
  MaxDisturbances = 2
  Value <- MCValue
  CurrentNs <- MCCurrentNs
SPECIFICATION EarlySpec
INVARIANT TapTypeOK
INVARIANT CellsInv
INVARIANT EchoesOnTime
PROPERTY ExactDelay
PROPERTY EveryLineIsADelayLine
