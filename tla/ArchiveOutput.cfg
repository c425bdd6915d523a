SPECIFICATION FairSpec
CONSTANTS
    Name <- MCName
    OverlayPaths <- MCOverlay
    Removed <- MCRemoved
    Job <- MCJob
    Shipped = Shipped
    None = None
    PipeSize = 2
    DiagSize = 2
    MaxFlaws = 3
    MaxMembers = 3
INVARIANTS TypeOK OutputIsWhole FinishedIsInspected
PROPERTIES CallEnds CallProceeds
