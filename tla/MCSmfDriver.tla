----------------------------- MODULE MCSmfDriver ----------------------------
(* session1 of src/cmd/smf2 and the requests sgw() and pgw() send, with    *)
(* doMobilityTransition and the -delete flag set.                         *)
EXTENDS SmfDriver

CONSTANTS x1, y1, upfFteid, pgwCoreFteid, sgwCoreFteid, eNbFteid, eNb2Fteid, ueIp

\* The SGW session as ParseSgwSER sees it: access PDR and FAR (PDR/FAR 1),
\* core PDR and FAR (PDR/FAR 2).
SgwReq(apdr, afar, cpdr, cfar) ==
    [access |-> [pdr |-> apdr, far |-> afar], core |-> [pdr |-> cpdr, far |-> cfar]]

\* sgwSessionCreate.  sgwSessionMobilityNewTunnel and ...RemoveTunnel add
\* and remove PDR/FAR 3, which ParseSgwSER does not read (it takes the first
\* access PDR); sgwSessionMobility moves the core FAR to eNb2.
SgwCreated == SgwReq(upfFteid, pgwCoreFteid, sgwCoreFteid, eNbFteid)
SgwMoved   == SgwReq(upfFteid, pgwCoreFteid, sgwCoreFteid, eNb2Fteid)

\* pgwSessionCreate: DecapPdr(pgwCore), EncapPdr(ueIp), EncapFar(sgwCore).
PgwCreated == [ueIp |-> ueIp, coreFar |-> sgwCoreFteid, accessPdr |-> pgwCoreFteid]

MCSgwScript == << SgwCreated, SgwCreated, SgwMoved, SgwMoved, Delete >>
MCPgwScript == << PgwCreated, Delete >>

MCSgwSers == {SgwCreated, SgwMoved}
MCPgwSers == {PgwCreated}
=============================================================================
