SPECIFICATION FairSpec
CONSTANTS
    c1 = c1  c2 = c2  l1 = l1  l2 = l2
    Cids = {c1}
    Labels = {l1}
    LabelsOf <- MCLabelsOf
    Callers = {"k1", "k2"}
    MaxFaults = 1
    MaxTotal = 2
    NoCid = NoCid
INVARIANTS PublishedIsListed  MetricsExact
PROPERTIES OrphansGo KeepsAnnouncing
