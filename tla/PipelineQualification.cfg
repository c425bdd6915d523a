SPECIFICATION Spec
CONSTANTS
    t1 = t1
    t2 = t2
    f1 = f1
    f2 = f2
    v1 = v1
    v2 = v2
    None = None
    Base <- MCAnyBase
    Target = {t1, t2}
    Fp = {f1}
    Version = {v1, v2}
    Variant = {1, 2}
    MaxCommits = 3
    MaxReruns = 1
    MaxTagPushes = 1
SYMMETRY MCTargets
INVARIANTS BundleIsSmoked PublishedIsQualified
CHECK_DEADLOCK FALSE
