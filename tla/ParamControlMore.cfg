CONSTANT Incr <- MCIncr
SPECIFICATION Spec
PROPERTY MoreIsMore
