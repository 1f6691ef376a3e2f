CONSTANTS
    p1 = p1
    p2 = p2
    Peers <- MCTwoPeers
    MaxSends = 3
    SocketErrors = FALSE
    None = None
SPECIFICATION Spec
PROPERTY RequestsServed
CHECK_DEADLOCK FALSE
