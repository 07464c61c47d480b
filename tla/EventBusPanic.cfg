SPECIFICATION Spec
CONSTANTS
    e1 = e1  e2 = e2  e3 = e3  s1 = s1  s2 = s2  c1 = c1  c2 = c2
    Events <- MCEvents2
    Subs = {s1}
    Callers = {c1}
    Requests <- MCOneRequest
    LabelContains <- MCContains
    BufferSize = 1
    NoSub = NoSub
    NoResource = NoResource
    Unspecified = Unspecified
CHECK_DEADLOCK FALSE
INVARIANT NoPanic
