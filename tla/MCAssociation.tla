--------------------------- MODULE MCAssociation ---------------------------
EXTENDS Association

\* Two SMF SEIDs, so one session can be reused while another lives.
MCPeerSeids == {1, 2}

\* nextSeid() draws: one that collides with an SMF SEID, one that does not.
MCSeidPool == {2, 3}
=============================================================================
