CONSTANTS
  Depth = 4
  HalfPeriod = 25
  DW = 1
  Bits = 3
  BclkLeads <- MCBclkLeads
  Frames = 6
  EmptyLags <- MCEmptyLags
  Holds <- MCHolds
  LineBusy <- MCLineBusy
SPECIFICATION FairSerialSpec
INVARIANT TypeOK
INVARIANT NoAdcBacklog
INVARIANT RightNeverUnderflows
INVARIANT Aligned
INVARIANT EverySampleTicked
INVARIANT OneTickPerSample
INVARIANT FewSteps
INVARIANT LineTakesItsSample
PROPERTY PlaysInOrder
PROPERTY NeverStalls
INVARIANT WordReceived
INVARIANT WordSent
PROPERTY EachFrameOnce
