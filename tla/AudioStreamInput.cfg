CONSTANTS
  Depth = 4
  HalfPeriod = 25
  DW = 1
  Bits = 3
  BclkLeads <- MCBclkLeads
  Frames = 6
  EmptyLags <- MCEmptyLags
  Holds <- MCHolds
  LineBusy <- MCLineBusy
SPECIFICATION SerialSpec
INVARIANT InputReadWhileValid
