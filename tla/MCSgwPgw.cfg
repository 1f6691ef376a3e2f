\* The runners take turns (each role's callbacks in sequence, as when only
\* one request is in flight); SMF creates may fail.
CONSTANTS
    x1 = x1  x2 = x2  y1 = y1  a1 = a1  u1 = u1  u2 = u2  d1 = d1
    c1 = c1  c2 = c2  ip1 = ip1
    SgwSeids <- MCSgwSeidsTwo
    PgwSeids <- MCPgwSeids
    SgwSers <- MCSgwSers
    PgwSers <- MCPgwSers
    MaxSessions = 3
    CreateFails = TRUE
    Overlap = FALSE
    Absent = Absent  NoFarId = NoFarId  SpFteidNull = SpFteidNull
    Nil = Nil  NoObj = NoObj  FailedObj = FailedObj
SPECIFICATION Spec
INVARIANT TypeOK
INVARIANT UpfInSync
INVARIANT NoPanic
INVARIANT CleanWhenReleased
