\* The local endpoint restarts and its getSeqStart() repeats a cached number.
CONSTANTS
    Requests = {r1, r2}
    N1 = 2
    SeqBits = 24
    SeqStarts <- MCSeqStartsLow
    NilChan = NilChan
    NoReply = NoReply
    Timeout = Timeout
    None = None
    Restarts = TRUE
    FreshStarts = FALSE
SPECIFICATION Spec
CHECK_DEADLOCK FALSE
INVARIANT ReplyMatchesRequest
