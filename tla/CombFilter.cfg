CONSTANTS
  X = 32
  Cells = 2
  MaxClocks = 3
  Input <- MCQuiet
  Damping <- MCDamping
  Decay <- MCDecay
SPECIFICATION Spec
INVARIANT FilterFits
INVARIANT LoopFits
INVARIANT LineIsBounded
INVARIANT OutputFits
