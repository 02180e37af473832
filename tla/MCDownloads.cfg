SPECIFICATION FairSpec
CONSTANTS
    d1 = d1
    l1 = l1
    l2 = l2
    n1 = n1
    Download = {d1}
    Link = {l1, l2}
    Name = {n1}
    NameOf <- SameName
    Magnet = {l2}
    Marked = {l1}
    MaxStart = 2
INVARIANTS
    TypeOK
    NoZombieEntry
PROPERTIES
    EntryLeavesList
    SlotReleased
    PartialGone
    MetaGone
