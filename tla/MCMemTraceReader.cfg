SPECIFICATION Spec
CONSTANTS
    TraceLengths = {1, 2, 3, 4}
    BufferLengths = {1, 2, 3, 4, 5, 6, 7}
    MaxRequests = 14
INVARIANTS
    TypeOK
    FirstPassExact
    PassCoversTrace
    NothingUninitialised
PROPERTY
    StreamingIsCyclic
