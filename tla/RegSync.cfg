SPECIFICATION SyncFairSpec
CONSTANTS
    s1 = s1  s2 = s2  c1 = c1  c2 = c2
    Syncs = {s1, s2}
    SyncClients = {c1, c2}
    NoSync = NoSync
    MaxDbFaults = 1
    MaxRestarts = 1
INVARIANTS InProgressIsActive
PROPERTIES DeletedIsNotRecreated 
