SPECIFICATION FairSpec
CONSTANTS
    w1 = w1
    w2 = w2
    Worker = {w1, w2}
    SlotsPerWorker = 1
    BatchSize = 2
    MaxTicket = 3
    MaxCrash = 1
    MaxFailure = 0
PROPERTIES
    EventuallyDequeued
    EventuallySaved
