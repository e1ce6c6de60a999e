CONSTANTS
  X = 2
  N_LFCF = 11
  MaxClocks = 2
  Input <- MCInput
  Damping <- MCDamping
  Decay <- MCDecay
SPECIFICATION LinesSpec
PROPERTY TwoLinesAreOneQueue
