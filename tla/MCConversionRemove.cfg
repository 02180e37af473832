SPECIFICATION Spec
CONSTANTS
    m1 = m1
    m2 = m2
    r1 = r1
    r2 = r2
    Movie = {m1, m2}
    Request = {r1, r2}
    MaxPanic = 1
    MaxFailure = 2
    MaxCrash = 1
    MaxDownload = 2
PROPERTY ConvertedRemoved
CHECK_DEADLOCK FALSE
