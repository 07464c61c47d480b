SPECIFICATION FairSpec
CONSTANTS
    c1 = c1  c2 = c2  p1 = p1  p2 = p2  p3 = p3
    Cids = {c1}
    Clients = {p1, p2}
    MaxFaults = 1
    MaxAborts = 1
    NoCid = NoCid
INVARIANTS AckedIsStored AckedIsIndexed DeletedIsGone
PROPERTY NewTagIsIndexed
