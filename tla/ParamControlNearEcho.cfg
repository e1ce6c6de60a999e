CONSTANT Incr <- MCIncr
SPECIFICATION Spec
INVARIANT NearEchoFits
