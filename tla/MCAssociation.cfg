CONSTANTS
    PeerSeids <- MCPeerSeids
    SeidPool <- MCSeidPool
    NodeIds = {n1}
    RecoveryTimes = {t1, t2}
    AppCause = AppCause
    AppRejects = TRUE
    NoName = NoName
    None = None
    NoResponse = NoResponse
SPECIFICATION Spec
INVARIANT TypeOK
INVARIANT StoreTracksApp
PROPERTY ReplyCarriesPeerSeid
