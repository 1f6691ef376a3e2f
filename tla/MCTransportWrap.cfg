\* The sequence counter passes the width of the header field (24 bits, one here).
CONSTANTS
    Requests = {r1, r2}
    N1 = 2
    SeqBits = 1
    SeqStarts <- MCSeqStartsWrap
    NilChan = NilChan
    NoReply = NoReply
    Timeout = Timeout
    None = None
    Restarts = FALSE
    FreshStarts = FALSE
SPECIFICATION Spec
CHECK_DEADLOCK FALSE
INVARIANT RepliesRoutable
