CONSTANTS
    GroupIeAttributeSets <- MCGroupIeAttributeSets
    MessageIeAttributeSets <- MCMessageIeAttributeSets
    IEInvalid = IEInvalid
    PeerMessages <- MCPeerMessages
    Strays <- MCStraysBadId
    Nil = Nil
SPECIFICATION Spec
INVARIANT
    NoPanic
