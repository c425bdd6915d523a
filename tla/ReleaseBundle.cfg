SPECIFICATION Spec
CONSTANTS
    archive = archive
    added = added
    r1 = r1
    r2 = r2
    r3 = r3
    c1 = c1
    c2 = c2
    Version <- MCVersion
    Content = {c1, c2}
    Decision = {adr}
    None = None
    Payload = {archive, added}
    Historical = {archive}
    Archive = {archive}
    Absent = Absent
    Candidate = {r1, r2, r3}
    Legacy = legacy
    Attempt = {1}
    MaxCreated = 4
    MaxFaults = 1
SYMMETRY MCSymmetry
INVARIANTS TypeOK AcceptedIsCreated CreatedIsAccepted IdentityIsImmutable HistoryAdvances CollisionStops
CHECK_DEADLOCK FALSE
