------------------------------ MODULE MCSgwPgw ------------------------------
(* Model values for checking SgwPgw with TLC.                              *)
EXTENDS SgwPgw

CONSTANTS x1, x2, y1, a1, u1, u2, d1, c1, c2, ip1

\* One UE session: the SGW's access F-TEID a1, the uplink tunnel u1 and the
\* downlink tunnel d1 both gateways see, the eNodeB's F-TEIDs c1 and c2 and
\* the UE address ip1.
SgwReq(apdr, afar, cpdr, cfar) ==
    [access |-> [pdr |-> apdr, far |-> afar], core |-> [pdr |-> cpdr, far |-> cfar]]
PgwReq(ip, cfar, apdr) == [ueIp |-> ip, coreFar |-> cfar, accessPdr |-> apdr]

\* SGW requests: buffering (no eNodeB yet), attached, handed over to a new
\* eNodeB, and one whose access PDR lost its F-TEID.
MCSgwSers ==
    { SgwReq(a1, u1, d1, Absent), SgwReq(a1, u1, d1, c1),
      SgwReq(a1, u1, d1, c2), SgwReq(Absent, u1, d1, c1) }

\* PGW requests: complete, without a UE address, and without a core FAR.
MCPgwSers ==
    { PgwReq(ip1, d1, u1), PgwReq(Absent, d1, u1), PgwReq(ip1, Absent, u1) }

\* An SGW request that moves the uplink tunnel to u2.
MCSgwSersMoved == MCSgwSers \cup { SgwReq(a1, u2, d1, c1) }

MCSgwSeids == {x1}
MCSgwSeidsTwo == {x1, x2}
MCPgwSeids == {y1}
=============================================================================
