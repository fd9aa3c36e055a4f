SPECIFICATION Spec
CONSTANTS
    p1 = p1
    p2 = p2
    p3 = p3
    Pages = {p1, p2, p3}
    Zero = zero
    NPagesRequested = 2
    NBuckets = 3
    CellWriteEndurance = 3
    BitsPerPage = 2
    BitsPerLine = 2
    WfUnit = 4
    AverageWf = 1
    PageWfs <- PerPageWfs
    NIterationsChoices <- IterationChoices
    NPromotionsToEventTrace = 2
INVARIANT
    PageMapIteratorsValid
CHECK_DEADLOCK FALSE
