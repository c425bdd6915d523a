SPECIFICATION Spec
CONSTANTS
    Name = {"d", "e", "f", "g"}
    Path <- MCPath
    Lower <- MCLower
    Archive <- MCArchive
    MaxMembers = 3
INVARIANTS TypeOK LayeringCorrect RefusedForReason
PROPERTY Descends
