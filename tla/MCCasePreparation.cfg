\* Two rows a run, two runs over one cache, one fault.
CONSTANTS
    Kems = {k1, k2}
    AnyKem = AnyKem
    Sigs = {s1, s2, s3}
    Supported = {s1, s2}
    Marked <- MarkedCases
    k1 = k1
    k2 = k2
    s1 = s1
    s2 = s2
    s3 = s3
    Options <- AllOptions
    MaxRows = 2
    MaxRuns = 2
    MaxFaults = 1
SPECIFICATION Spec
INVARIANTS TypeOK FirmwareFits CacheCurrent RowsAccounted
PROPERTIES CachedCertsKept
CHECK_DEADLOCK FALSE
