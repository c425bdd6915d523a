SPECIFICATION Spec
CONSTANTS
    Builder = {b1, b2}
    Image <- MCImage
    Suite = {s1, s2}
    Snapshot = {n1, n2}
    Release = {r1, r2}
    Blob = {l1, l2, l3}
    Config = {c1, c2}
    Platform = {p1, p2}
    PlatformOf <- MCPlatformOf
    Holds <- MCHolds
    Path = {hostname, resolv, cache, overlay}
    Noise = {x1, x2}
    Fixup <- MCFixup
    Removal <- MCRemoval
    Seat = overlay
    Shim = {g1, g2}
    Absent = Absent
    Folder = Folder
    NoPockets = NoPockets
    NoArchive = NoArchive
    NoShim = NoShim
    Bootstrapped <- MCBootstrapped
    MaxStarts = 3
    s1 = s1
    s2 = s2
    n1 = n1
    n2 = n2
    r1 = r1
    r2 = r2
    hostname = hostname
    resolv = resolv
    cache = cache
    overlay = overlay
    x1 = x1
    x2 = x2
    ht = ht
    rt = rt
    b1 = b1
    b2 = b2
    g1 = g1
    g2 = g2
    l1 = l1
    l2 = l2
    l3 = l3
    c1 = c1
    c2 = c2
    p1 = p1
    p2 = p2
SYMMETRY Symmetry
INVARIANTS TypeOK NothingUnverified BaseIsReproducible OutputsAgree
CHECK_DEADLOCK FALSE
