SPECIFICATION Spec
CONSTANTS
    r1 = r1
    r2 = r2
    w1 = w1
    x1 = x1
    x2 = x2
    u1 = u1
    l1 = l1
    Requester = {r1, r2}
    Worker = {w1}
    Watcher = {x1, x2}
    User = {u1}
    Link = {l1}
    AutoDoc <- OneDocument
    RequestKind <- UserKinds
    Capacity = 2
    UserEnqueueLimit = 1
    LeachLimit = 1
    ConcurrencyLimit = 2
SYMMETRY ActorSymmetry
INVARIANTS
    TypeOK
    QueueCopies
    UserQueueBound
    QuotaBound
    NoLeakedSlot
PROPERTIES
    ImplementsList
