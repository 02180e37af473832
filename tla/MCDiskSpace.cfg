SPECIFICATION FairSpec
CONSTANTS
    f1 = f1
    f2 = f2
    File = {f1, f2}
    Size <- Sizes
    SpaceLimit = 4
    SpaceThreshold = 1
    SizeLimit = 0
    Reserve = 1
    LruCap = 3
    Mega = 10
    Piece = 15
    InitialSpace = 4
    MaxStart = 2
    MaxFailure = 1
INVARIANTS
    TypeOK
PROPERTIES
    
    UnusedGoFirst
    ShortageClearsIdle
