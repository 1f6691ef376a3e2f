CONSTANTS
    GroupIeAttributeSets <- MCGroupIeAttributeSets
    MessageIeAttributeSets <- MCMessageIeAttributeSets
    IEInvalid = IEInvalid
    PeerMessages <- MCPeerMessages
    Strays <- MCStraysWrap
    Nil = Nil
SPECIFICATION Spec
INVARIANT
    NoPanic
