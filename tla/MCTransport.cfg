\* Requestor and Responder over a lossy network, away from the wrap point;
\* the local endpoint may crash and restart with a start that misses every
\* number used before.
CONSTANTS
    Requests = {r1, r2}
    N1 = 2
    SeqBits = 24
    SeqStarts <- MCSeqStartsTwo
    NilChan = NilChan
    NoReply = NoReply
    Timeout = Timeout
    None = None
    Restarts = TRUE
    FreshStarts = TRUE
SPECIFICATION Spec
CHECK_DEADLOCK FALSE
INVARIANTS
    TypeOK
    ReplyMatchesRequest
    AtMostOnceSurfaced
    LiveEntriesHaveListeners
PROPERTIES
    CallerReturns
    ServiceSpec
