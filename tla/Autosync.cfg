SPECIFICATION FairSpec
CONSTANTS
    c1 = c1  c2 = c2  h1 = h1  h2 = h2  w1 = w1  w2 = w2
    Cids = {c1, c2}
    Valid = {c1}
    Peers = {"trusted", "stranger"}
    Trusted = {"trusted"}
    Descs <- MCDescs
    AllowedTypes <- MCAllowedTypes
    Referrers <- MCReferrers
    Handlers = {h1, h2}
    Workers = {w1, w2}
    QueueSize = 1
    MaxPullAttempts = 2
    MaxFaults = 2
    MaxLocalOps = 1
    MaxRestarts = 1
    NoCid = NoCid
    NoPeer = NoPeer
INVARIANTS OneJobPerCid OnlyVerified
PROPERTIES ImplementsSingleFlight InFlightIsReleased ContentArrives
