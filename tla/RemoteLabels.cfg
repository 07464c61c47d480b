SPECIFICATION FairSpec
CONSTANTS
    own = own  r1 = r1  l1 = l1  l2 = l2
    Records = {own, r1}
    Own = {own}
    Labels = {l1, l2}
    LabelsOf <- MCLabelsOf
    MaxAge = 0
    MaxLead = 1
    NotifyCap = 1
    MaxBlocked = 1
    MaxFaults = 1
    NoRecord = NoRecord
INVARIANTS WholeUnlessTorn
PROPERTIES FreshIsKept  SilentIsForgotten 
