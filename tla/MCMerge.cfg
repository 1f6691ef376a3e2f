CONSTANTS
    FarIds <- MCFarIds
    PdrIds <- MCPdrIds
    Vals <- MCVals
    ModVals <- MCModVals
    MaxModLen = 2
    MaxTargetLen = 3
    Nil = Nil
    Encoded = Encoded
    NoSession = NoSession
SPECIFICATION Spec
INVARIANTS
    TypeOK
    NoNilIdDereference
    MergeIdempotent
