SPECIFICATION Spec
CONSTANTS
    d1 = d1
    d2 = d2
    l1 = l1
    l2 = l2
    n1 = n1
    Download = {d1, d2}
    Link = {l1, l2}
    Name = {n1}
    NameOf <- SameName
    Magnet = {}
    Marked = {l1}
    MaxStart = 2
INVARIANT WholeSpared
