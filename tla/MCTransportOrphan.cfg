\* A reply and the retry timeout race for the same caller.
\* Requestor and Responder over a lossy network, away from the wrap point.
CONSTANTS
    Requests = {r1, r2}
    N1 = 2
    SeqBits = 24
    SeqStarts <- MCSeqStartsLow
    NilChan = NilChan
    NoReply = NoReply
    Timeout = Timeout
    None = None
    Restarts = FALSE
    FreshStarts = FALSE
SPECIFICATION Spec
INVARIANT NoOrphanedSend
CHECK_DEADLOCK FALSE
