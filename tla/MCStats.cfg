SPECIFICATION SpecBoth
CONSTANTS
    TraceLengths = {1, 4}
    BufferLengths = {3, 5}
    MaxRequests = 6
    EntryChoices <- MCEntries
    LinesPerPage = 2
    NodeCounts = {2, 3}
INVARIANTS
    TypeOK
    PlacementByPolicy
    AccessesTally
    WritesTally
    ToolsAgree
CHECK_DEADLOCK FALSE
