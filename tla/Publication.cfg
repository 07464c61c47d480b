SPECIFICATION FairSpec
CONSTANTS
    p1 = p1  p2 = p2  a = a  w1 = w1  w2 = w2
    Pubs = {p1, p2}
    NoPub = NoPub
    QueueCap = 1
    Cids = {a}
    Requests <- MCRequests
    Workers = {w1}
    MaxDbFaults = 1
    MaxNetFaults = 1
    MaxRestarts = 1
INVARIANTS  AtMostOnce
PROPERTIES PublicationsProgress
