SPECIFICATION FairSpec
CONSTANTS
    f1 = f1
    r1 = r1
    r2 = r2
    File = {f1}
    Request = {r1, r2}
    Limit = 1
    ExpireHours = 1
    ExtendHours = 1
    ExpireDelay = 1
    ReportsBirth = TRUE
    MaxNow = 3
    MaxTouch = 2
    MaxLeak = 1
    MaxRace = 1
INVARIANTS
    TypeOK
    CountersExact
PROPERTIES
    OvershootNeedsRace
    ExpireSparesReaders
    ExpireInTime
    ExpiredGoes
