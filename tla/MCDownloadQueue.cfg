SPECIFICATION Spec
CONSTANTS
    w1 = w1
    w2 = w2
    Worker = {w1, w2}
    SlotsPerWorker = 2
    BatchSize = 3
    MaxTicket = 4
    MaxCrash = 1
    MaxFailure = 1
SYMMETRY WorkerSymmetry
INVARIANTS
    TypeOK
    Fifo
    SingleConsumer
    RestartLoss
    CloseQuiesces
PROPERTIES
    ImplementsFifo
