---------------------------- MODULE MCTransport ----------------------------
(* Model-checking instance of Transport: two concurrent BlockingRequest    *)
(* callers, a retry loop of N1 attempts and a 24-bit header sequence      *)
(* number; the wrap-around run shrinks the field so the counter crosses   *)
(* it within the bound.                                                    *)
EXTENDS Transport

\* getSeqStart() returns a 24-bit value; starts far from the wrap point.
MCSeqStartsLow == {0}

\* Two starts far enough apart for the two requests of one incarnation.
MCSeqStartsTwo == {0, 2}

\* A start one below the wrap point of a one-bit field: the second request's
\* number no longer fits the header.
MCSeqStartsWrap == {1}

\* Checked by MCTransportWrap.cfg: every reply the peer has put on the
\* network for a request whose caller still waits can be routed to that
\* caller.  handleResponse looks the header's 24-bit number up in the table
\* enterRequest keyed by the 32-bit nextSequenceNumber.
RepliesRoutable ==
    \A m \in s2c :
        callerPc[m.req] = "waiting" => m.seq \in Keys /\ cInFlight[m.seq] = m.req

=============================================================================
