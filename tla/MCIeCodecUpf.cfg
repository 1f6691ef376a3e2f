CONSTANTS
    GroupIeAttributeSets <- MCGroupIeAttributeSets
    MessageIeAttributeSets <- MCMessageIeAttributeSets
    IEInvalid = IEInvalid
    PeerMessages = {}
    Strays <- MCStraysUpf
    Nil = Nil
SPECIFICATION Spec
INVARIANTS
    NoPanic
