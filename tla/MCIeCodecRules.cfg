\* cmd/smf's SGW-mode establishment (sgwPartialSER) alone.
CONSTANTS
    GroupIeAttributeSets <- MCGroupIeAttributeSets
    MessageIeAttributeSets <- MCMessageIeAttributeSets
    IEInvalid = IEInvalid
    PeerMessages <- MCSgwPartial
    Strays = {}
    Nil = Nil
SPECIFICATION Spec
INVARIANT
    RulesReferToCreatedFars
