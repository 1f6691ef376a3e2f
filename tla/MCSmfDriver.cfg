\* smf2's sgw() and pgw() run concurrently; every UPF request succeeds.
CONSTANTS
    x1 = x1  y1 = y1
    upfFteid = upfFteid  pgwCoreFteid = pgwCoreFteid  sgwCoreFteid = sgwCoreFteid
    eNbFteid = eNbFteid  eNb2Fteid = eNb2Fteid  ueIp = ueIp
    SgwScript <- MCSgwScript
    PgwScript <- MCPgwScript
    SgwSeid = x1
    PgwSeid = y1
    SgwSeids = {x1}
    PgwSeids = {y1}
    SgwSers <- MCSgwSers
    PgwSers <- MCPgwSers
    MaxSessions = 3
    CreateFails = FALSE
    Overlap = TRUE
    Delete = Delete
    Absent = Absent  NoFarId = NoFarId  SpFteidNull = SpFteidNull
    Nil = Nil  NoObj = NoObj  FailedObj = FailedObj
SPECIFICATION DriverSpec
INVARIANT CleanWhenReleased
