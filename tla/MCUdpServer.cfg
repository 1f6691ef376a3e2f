CONSTANTS
    p1 = p1
    p2 = p2
    Peers <- MCOnePeer
    MaxSends = 4
    SocketErrors = TRUE
    None = None
SPECIFICATION Spec
INVARIANT TypeOK
PROPERTY RequestsServed
CHECK_DEADLOCK FALSE
