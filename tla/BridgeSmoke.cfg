SPECIFICATION FairSpec
CONSTANTS
    Plan <- MCPlan
    MaxTries = 2
    None = None
INVARIANTS TypeOK CheckedAfterEnd NoServerLeft TrustProven
PROPERTIES EverythingEnds SmokeProceeds
