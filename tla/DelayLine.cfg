CONSTANTS
  Ns_max = 7
  s1 = s1
  s2 = s2
  Value <- MCValue
  CurrentNs <- MCCurrentNs
SYMMETRY SampleSymmetry
SPECIFICATION Spec
INVARIANT TypeOK
INVARIANT PipelineInv
INVARIANT NoReadDuringWrite
PROPERTY BusyTime
PROPERTY ImplementsSampleDelay
