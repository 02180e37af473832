SPECIFICATION Spec
CONSTANTS
    r1 = r1
    w1 = w1
    x1 = x1
    u1 = u1
    l1 = l1
    l2 = l2
    Requester = {r1}
    Worker = {w1}
    Watcher = {x1}
    User = {u1}
    Link = {l1, l2}
    AutoDoc <- OneDocument
    RequestKind <- AllKinds
    Capacity = 2
    UserEnqueueLimit = 1
    LeachLimit = 1
    ConcurrencyLimit = 1
SYMMETRY LinkSymmetry
INVARIANT ConcurrencyHandled
