CONSTANTS
  X = 8
  Delay = 5
  Input <- MCQuiet
SPECIFICATION Spec
INVARIANT LineIsBounded
INVARIANT LoopFits
INVARIANT OutputFits
