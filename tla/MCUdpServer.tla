---------------------------- MODULE MCUdpServer ----------------------------
EXTENDS UdpServer

CONSTANTS p1, p2

\* One SMF: the deployment cmd/upf is written for.
MCOnePeer == {p1}

\* A second source: another SMF, or the same SMF from a new source port.
MCTwoPeers == {p1, p2}
=============================================================================
