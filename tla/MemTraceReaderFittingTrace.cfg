SPECIFICATION Spec
CONSTANTS
    TraceLengths = {1, 2, 3}
    BufferLengths = {1, 2, 3, 4, 5, 6, 7}
    MaxRequests = 12
INVARIANT
    FittingTraceIsServed
