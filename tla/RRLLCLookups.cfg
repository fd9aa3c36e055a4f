SPECIFICATION Spec
CONSTANTS
    TraceLength = 2
    Lines <- MCLines
    ZeroLine = 0
    Traces <- MCTraces
    PageOf <- MCPageOf
    NLlcSets = 2
    NLlcWays = 2
    LlcSetOf <- MCLlcSetOf
    NRrcSets = 1
    NRrcWays = 2
    RrcSetOf <- MCRrcSetOf
INVARIANT
    LookupsAreEvictions
CHECK_DEADLOCK FALSE
