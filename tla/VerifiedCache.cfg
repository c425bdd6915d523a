SPECIFICATION FairSpec
CONSTANTS
    b1 = b1
    b2 = b2
    deb = deb
    keyring = keyring
    Builder = {b1, b2}
    Pid = {1, 2}
    Fetched = {deb}
    Extracted = {keyring}
    Package <- MCPackage
    Misdescribed = {}
    Size = 2
    Absent = Absent
    Wrong = Wrong
    InitialEntry <- MCAnyEntry
    MaxKills = 2
INVARIANTS TypeOK HeldIsPinned NoLitter
PROPERTIES StoreSpec CallsEnd
