SPECIFICATION FairSpec
CONSTANTS
    t1 = t1
    t2 = t2
    f1 = f1
    f2 = f2
    v1 = v1
    v2 = v2
    None = None
    Base <- MCReleasedBase
    Target = {t1}
    Fp = {f1, f2}
    Version = {v1}
    Variant = {1}
    MaxCommits = 3
    MaxReruns = 0
    MaxTagPushes = 2
INVARIANT TypeOK
PROPERTIES LedgerSpec PipelineEnds
CHECK_DEADLOCK FALSE
