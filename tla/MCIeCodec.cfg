CONSTANTS
    GroupIeAttributeSets <- MCGroupIeAttributeSets
    MessageIeAttributeSets <- MCMessageIeAttributeSets
    IEInvalid = IEInvalid
    PeerMessages <- MCPeerMessages
    Strays <- MCStrays
    Nil = Nil
SPECIFICATION Spec
INVARIANTS
    TypeOK
    RoundTrip
    ValuesReadBack
    RulesReferToCreatedFars
    NoPanic
