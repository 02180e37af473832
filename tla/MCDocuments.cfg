SPECIFICATION FairSpec
CONSTANTS
    d1 = d1
    d2 = d2
    d3 = d3
    l1 = l1
    l2 = l2
    l3 = l3
    f1 = f1
    f2 = f2
    f3 = f3
    Slot <- Places
    Doc = {d1, d2, d3}
    Link = {l1, l2, l3}
    File = {f1, f2, f3}
    TypeOf <- Types
    FileOf <- Names
    Batch = 2
    MaxAsk = 2
    MaxRemoval = 1
    MaxFailure = 1
INVARIANTS
    TypeOK
PROPERTIES
    PresentKeepsLink
    LinksAgree
    FilesAgree
