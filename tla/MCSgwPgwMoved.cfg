\* The runners take turns; one SGW modification moves the uplink tunnel,
\* so the merged request parses to a new CommonStateKey for the same SEID.
CONSTANTS
    x1 = x1  x2 = x2  y1 = y1  a1 = a1  u1 = u1  u2 = u2  d1 = d1
    c1 = c1  c2 = c2  ip1 = ip1
    SgwSeids <- MCSgwSeids
    PgwSeids <- MCPgwSeids
    SgwSers <- MCSgwSersMoved
    PgwSers <- MCPgwSers
    MaxSessions = 3
    CreateFails = FALSE
    Overlap = FALSE
    Absent = Absent  NoFarId = NoFarId  SpFteidNull = SpFteidNull
    Nil = Nil  NoObj = NoObj  FailedObj = FailedObj
SPECIFICATION Spec
INVARIANT CleanWhenReleased
