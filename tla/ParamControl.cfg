CONSTANT Incr <- MCIncr
SPECIFICATION Spec
INVARIANT TypeOK
INVARIANT PreDelayFits
INVARIANT RefreshedInAPass
INVARIANT PreDelayFollows
INVARIANT ShownDelayIsTrue
INVARIANT DisplaysTell
