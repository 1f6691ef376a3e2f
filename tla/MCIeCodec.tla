----------------------------- MODULE MCIeCodec -----------------------------
EXTENDS IeCodec

(***************************************************************************)
(* The attribute sets of pfcp/groupieattributes.go, by type code.          *)
(***************************************************************************)
P      == [required |-> FALSE, multiple |-> FALSE, isID |-> FALSE]
Req    == [P EXCEPT !.required = TRUE]
Mul    == [P EXCEPT !.multiple = TRUE]
ReqMul == [Req EXCEPT !.multiple = TRUE]
IdReq  == [Req EXCEPT !.isID = TRUE]

\* A set: the types with special attributes, the others plain.
AttrSet(special, plain) == special @@ [t \in plain |-> P]

MCGroupIeAttributeSets ==
       1 :> AttrSet((56 :> IdReq) @@ (2 :> Req) @@ (109 :> Mul), {29, 95, 108, 81})
    @@ 3 :> AttrSet(108 :> IdReq, {4, 88, 44})
    @@ 6 :> AttrSet(81 :> IdReq, {31, 33, 37, 62, 64})
    @@ 85 :> AttrSet(88 :> IdReq, {})
    @@ 7 :> AttrSet(109 :> IdReq, {25, 26, 27, 124})
    @@ 2 :> AttrSet(20 :> Req, {21, 22, 93, 124, 23})
    @@ 4 :> AttrSet(<< >>, {42, 22, 84})
    @@ 8 :> AttrSet((56 :> IdReq) @@ (109 :> Mul), {29, 2, 95, 108, 21})
    @@ 10 :> AttrSet(108 :> IdReq, {4, 11, 44, 88})
    @@ 16 :> AttrSet(108 :> IdReq, {})
    @@ 15 :> AttrSet(56 :> IdReq, {})
    @@ 11 :> AttrSet(<< >>, {42, 22, 84, 49})

MCMessageIeAttributeSets ==
       1 :> AttrSet(96 :> Req, {192})
    @@ 2 :> AttrSet(96 :> Req, {})
    @@ 50 :> AttrSet((60 :> Req) @@ (57 :> Req) @@ (1 :> ReqMul) @@ (3 :> ReqMul)
                     @@ (6 :> Mul) @@ (7 :> Mul) @@ (85 :> Mul),
                     {113, 141, 159, 23, 257, 186})
    @@ 51 :> AttrSet((60 :> Req) @@ (8 :> Mul) @@ (19 :> Req), {57})
    @@ 52 :> AttrSet([t \in {10, 9, 16, 15, 3, 1} |-> Mul], {})
    @@ 53 :> AttrSet(19 :> Req, {})
    @@ 54 :> AttrSet(<< >>, {})
    @@ 55 :> AttrSet((19 :> Req) @@ (79 :> Mul), {})
    @@ 5 :> AttrSet((60 :> Req) @@ (96 :> Req), {89, 43})
    @@ 6 :> AttrSet((19 :> Req) @@ (60 :> Req) @@ (96 :> Req), {89, 43, 116})
    @@ 56 :> AttrSet(80 :> Mul, {39})
    @@ 57 :> AttrSet(19 :> Req, {})

(***************************************************************************)
(* Messages the SMF and the UPF build, and what their readers read back.   *)
(* Addresses are their four bytes, names their bytes, SEIDs their eight.   *)
(***************************************************************************)
Seid(n) == EncodeUint64(n)

MCSmfIp == << 10, 0, 0, 1 >>
MCUpfIp == << 10, 0, 0, 2 >>
MCUeIp == << 192, 168, 0, 9 >>
MCUpfName == << 117, 112, 102 >>

Tc(t) == [tc |-> t, id |-> Nil]
ById(t, i) == [tc |-> t, id |-> i]

\* A value a reader reads: down the path from the message root.
Read(path, kind, val) == [path |-> path, kind |-> kind, val |-> val]

NodeHdr(t, seq) == [type |-> t, seid |-> Nil, seq |-> seq, prio |-> Nil]
SessionHdr(t, seid, seq) == [type |-> t, seid |-> seid, seq |-> seq, prio |-> Nil]

\* smf.associationRequest, read by serviceAssociationSetupRequest.
MCAssociationRequest ==
  [hdr |-> NodeHdr(5, 1),
   ies |-> << IE_NodeIdIpV4(MCSmfIp), IE_RecoveryTimeStamp(1010101) >>,
   reads |-> { Read(<< Tc(60) >>, "nodeid", [ipv4 |-> MCSmfIp]),
               Read(<< Tc(96) >>, "u32", 1010101) }]

\* serviceAssociationSetupRequest's answer with a GTP-U address, read by
\* doRequest (cause).
MCAssociationResponse ==
  [hdr |-> NodeHdr(6, 1),
   ies |-> << IE_NodeIdFqdn(<< MCUpfName >>), IE_Cause(1),
              IE_RecoveryTimeStamp(2020202), IE_UpIpRsrcInfo(MCUpfIp) >>,
   reads |-> { Read(<< Tc(19) >>, "cause", 1),
               Read(<< Tc(60) >>, "nodeid", [fqdn |-> MCUpfName]) }]

\* The heartbeat request of cmd/smf, the answer of smf.heartbeatResponder.
MCHeartbeats ==
  { [hdr |-> NodeHdr(1, 70000), ies |-> << IE_RecoveryTimeStamp(1010101) >>,
     reads |-> { Read(<< Tc(96) >>, "u32", 1010101) }],
    [hdr |-> NodeHdr(2, 70000), ies |-> << IE_RecoveryTimeStamp(2020202) >>,
     reads |-> { Read(<< Tc(96) >>, "u32", 2020202) }] }

\* smf.baseSER with the PDRs and FARs of a cmd/smf2 session: an access PDR
\* with an F-TEID, a core PDR with a UE address, a FAR with an outer header.
MCEstablishment ==
  [hdr |-> SessionHdr(50, Seid(0), 5),
   ies |-> << IE_NodeIdIpV4(MCSmfIp), IE_FSeid(Seid(263), MCSmfIp),
              IE_CreatePdr(<< IE_PdrId(1),
                              IE_Pdi(<< IE_SourceInterface(0),
                                        IE_FTeid_IpV4(70000, MCSmfIp) >>),
                              IE_FarId(1) >>),
              IE_CreatePdr(<< IE_PdrId(2),
                              IE_Pdi(<< IE_SourceInterface(1),
                                        IE_UeIpAddress(MCUeIp) >>) >>),
              IE_CreateFar(<< IE_FarId(1), IE_ApplyAction(2),
                              IE_ForwardingParameters(
                                  << IE_DestinationInterface(0),
                                     IE_OuterHeaderCreation(9, MCSmfIp) >>) >>) >>,
   reads |-> { Read(<< Tc(57) >>, "fseid", [seid |-> Seid(263), ip |-> MCSmfIp]),
               Read(<< ById(1, 1), Tc(2), Tc(21) >>, "fteid", [teid |-> 70000, ip |-> MCSmfIp]),
               Read(<< ById(1, 1), Tc(2), Tc(20) >>, "iface", 0),
               Read(<< ById(1, 1), Tc(108) >>, "id", 1),
               Read(<< ById(1, 2), Tc(2), Tc(93) >>, "ueip", MCUeIp),
               Read(<< ById(3, 1), Tc(4), Tc(84) >>, "ohc", [teid |-> 9, ip |-> MCSmfIp]) }]

\* An establishment whose access PDR asks the UPF to choose the F-TEID.
MCEstablishmentChoose ==
  [hdr |-> SessionHdr(50, Seid(0), 6),
   ies |-> << IE_NodeIdIpV4(MCSmfIp), IE_FSeid(Seid(264), MCSmfIp),
              IE_CreatePdr(<< IE_PdrId(1),
                              IE_Pdi(<< IE_SourceInterface(0), IE_FTeid_Choose_IpV4 >>) >>),
              IE_CreateFar(<< IE_FarId(1) >>) >>,
   reads |-> { Read(<< ById(1, 1), Tc(2), Tc(21) >>, "fteid", [teid |-> Nil, ip |-> Nil]) }]

\* SessionEstablishmentRequest of encode_set1.go: two labels of node name
\* (shortened), QERs with gate status and bit rates, a network instance,
\* an empty Outer Header Removal.  The 2.56 Gbit/s downlink MBR is halved:
\* TLC's integers end at 2^31.
MCTestSetEstablishment ==
  LET ip   == << 162, 118, 51, 1 >>
      qer(id) == IE_CreateQer(<< IE_QerId(id), IE_GateStatus([ul |-> 0, dl |-> 0]),
                                 IE_Mbr([ul |-> 10000000, dl |-> 1280000000]),
                                 IE_Gbr([ul |-> 5000000, dl |-> 1280000000]),
                                 IE_Qfi(5) >>)
  IN
  [hdr |-> SessionHdr(50, Seid(1234), 3),
   ies |-> << IE_NodeIdFqdn(<< << 54, 50 >>, << 99, 117 >> >>),
              IE_FSeid(Seid(1), ip),
              IE_CreatePdr(<< IE_PdrId(0), IE_Precedence(64),
                              IE_Pdi(<< IE_SourceInterface(0), IE_FTeid_IpV4(1234, ip),
                                        IE_NetworkInstance(<< 115, 103, 105 >>), IE_Qfi(5) >>),
                              IE_OuterHeaderRemoval, IE_FarId(0), IE_QerId(1074069508) >>),
              IE_CreatePdr(<< IE_PdrId(32768), IE_Precedence(32),
                              IE_Pdi(<< IE_SourceInterface(1),
                                        IE_UeIpAddress(<< 14, 0, 0, 2 >>) >>),
                              IE_FarId(1073741824), IE_QerId(327684) >>),
              IE_CreateFar(<< IE_FarId(0), IE_ApplyAction(2),
                              IE_ForwardingParameters(<< IE_DestinationInterface(1) >>) >>),
              IE_CreateFar(<< IE_FarId(1073741824), IE_ApplyAction(3),
                              IE_ForwardingParameters(<< IE_DestinationInterface(0) >>) >>),
              qer(1074069508), qer(327684) >>,
   reads |-> { Read(<< ById(1, 0), Tc(2), Tc(21) >>, "fteid", [teid |-> 1234, ip |-> ip]),
               Read(<< ById(1, 0), Tc(2), Tc(20) >>, "iface", 0),
               Read(<< ById(1, 32768), Tc(2), Tc(20) >>, "iface", 1),
               Read(<< ById(1, 32768), Tc(2), Tc(93) >>, "ueip", << 14, 0, 0, 2 >>),
               Read(<< ById(7, 327684), Tc(109) >>, "id", 327684) }]

\* serviceSessionEstablishmentRequest's answer: node ID, Accepted, F-SEID.
MCEstablishmentResponse ==
  [hdr |-> SessionHdr(51, Seid(263), 5),
   ies |-> << IE_NodeIdFqdn(<< MCUpfName >>), IE_Cause(1), IE_FSeid(Seid(3), MCUpfIp) >>,
   reads |-> { Read(<< Tc(19) >>, "cause", 1),
               Read(<< Tc(57) >>, "fseid", [seid |-> Seid(3), ip |-> MCUpfIp]) }]

\* SessionModificationRequest of encode_set1.go, sent with a priority, with
\* the removal of a second PDR and FAR as cmd/smf2 sends it.
MCModification ==
  [hdr |-> [type |-> 52, seid |-> Seid(3), seq |-> 7, prio |-> 3],
   ies |-> << IE_UpdateFar(<< IE_FarId(1073741824), IE_ApplyAction(2),
                              IE_UpdateForwardingParameters(
                                  << IE_OuterHeaderCreation(1, << 162, 117, 1, 1 >>) >>) >>),
              IE_RemovePdr(<< IE_PdrId(2) >>), IE_RemoveFar(<< IE_FarId(2) >>) >>,
   reads |-> { Read(<< ById(10, 1073741824), Tc(11), Tc(84) >>, "ohc",
                    [teid |-> 1, ip |-> << 162, 117, 1, 1 >>]),
               Read(<< ById(15, 2), Tc(56) >>, "id", 2),
               Read(<< ById(16, 2), Tc(108) >>, "id", 2) }]

\* Session.Delete's request (no IEs) and the deletion answer of
\* encode_set1.go (cause Unspecified).
MCDeletions ==
  { [hdr |-> SessionHdr(54, Seid(3), 8), ies |-> << >>, reads |-> {}],
    [hdr |-> SessionHdr(55, Seid(263), 8), ies |-> << IE_Cause(64) >>,
     reads |-> { Read(<< Tc(19) >>, "cause", 64) }] }

(***************************************************************************)
(* What the SMF emulators send, built with pfcp/builder.                   *)
(***************************************************************************)
FTeid(ip, teid) == [teid |-> teid, ip |-> ip]

\* A built message as the Transport sends it: with its sequence number.
Sent(m, seq, reads) == [hdr |-> [m.hdr EXCEPT !.seq = seq], ies |-> m.ies, reads |-> reads]

\* Association.baseSER: header SEID 0, the node's address as Node ID and
\* F-SEID, then the session's rules.
BaseSER(nextSeid, nodeId, ies) ==
    NewSessionMessage(50, EncodeUint64(0),
                      << IE_NodeIdIpV4(nodeId), IE_FSeid(EncodeUint64(nextSeid), nodeId) >> \o ies)

\* Session.Modify: the rules under the peer's SEID.
Modify(peer, ies) == NewSessionMessage(52, EncodeUint64(peer), ies)

\* session1 of cmd/smf2.
s1SgwCore == FTeid(<< 172, 19, 0, 3 >>, 30001)
s1ENb     == FTeid(<< 172, 19, 0, 2 >>, 20001)
s1Upf     == FTeid(<< 172, 19, 0, 1 >>, 10001)
s1PgwCore == FTeid(<< 172, 19, 0, 4 >>, 40001)
s1UeIp    == << 10, 0, 100, 1 >>
eNb2Fteid          == FTeid(<< 172, 19, 0, 101 >>, 50001)
eNb2FteidTemporary == FTeid(<< 172, 19, 0, 101 >>, 50010)
upfFteidTemporary  == FTeid(<< 172, 19, 0, 2 >>, 20010)

\* FTeid.NextTeid.
NextTeid(f) == [f EXCEPT !.teid = @ + 1]

sgwSessionCreate ==
    << TunnelPdr(ModeCreate, RoleCore, s1SgwCore), TunnelFar(ModeCreate, RoleCore, s1ENb),
       TunnelPdr(ModeCreate, RoleAccess, s1Upf), TunnelFar(ModeCreate, RoleAccess, s1PgwCore) >>
xgwSessionModifyIdle == << BufferFar(ModeUpdate) >>
sgwSessionModifyActive == << TunnelFar(ModeUpdate, RoleCore, NextTeid(s1ENb)) >>
pgwSessionCreate ==
    << DecapPdr(ModeCreate, s1PgwCore), DecapFar(ModeCreate),
       EncapPdr(ModeCreate, s1UeIp), EncapFar(ModeCreate, s1SgwCore) >>
smfSessionCreate ==
    << DecapPdr(ModeCreate, s1Upf), DecapFar(ModeCreate),
       EncapPdr(ModeCreate, s1UeIp), EncapFar(ModeCreate, s1ENb) >>
smfSessionModifyActive == << EncapFar(ModeUpdate, NextTeid(s1ENb)) >>
sgwSessionMobility == << TunnelFar(ModeUpdate, RoleCore, eNb2Fteid) >>
sgwSessionMobilityNewTunnel ==
    << CustomOhcPdr(3, 3, ModeCreate, EnumAccess, upfFteidTemporary),
       CustomOhcFar(3, ModeCreate, EnumAccess, eNb2FteidTemporary) >>
sgwSessionMobilityRemoveTunnel == << IE_RemovePdr(<< IE_PdrId(3) >>), IE_RemoveFar(<< IE_FarId(3) >>) >>

\* The reads of ParseSgwSER / ParsePgwSER and of the UPF's handlers.
FteidOf(role, v) == Read(<< ById(1, role), Tc(2), Tc(21) >>, "fteid", v)
OhcOf(t, role, v) == Read(<< ById(t, role), Tc(4), Tc(84) >>, "ohc", v)

\* What cmd/upf's ParseUpfSER reads from the whole request.
UpfSession(access, ue, core) == Read(<< >>, "upf", [access |-> access, ue |-> ue, core |-> core])

MCSmf2Messages ==
  { Sent(BaseSER(1, MCSmfIp, sgwSessionCreate), 10,
         { FteidOf(RoleCore, s1SgwCore), FteidOf(RoleAccess, s1Upf),
           OhcOf(3, RoleCore, s1ENb), OhcOf(3, RoleAccess, s1PgwCore) }),
    Sent(BaseSER(2, MCSmfIp, pgwSessionCreate), 11,
         { FteidOf(RoleAccess, s1PgwCore), OhcOf(3, RoleCore, s1SgwCore),
           Read(<< ById(1, RoleCore), Tc(2), Tc(93) >>, "ueip", s1UeIp),
           Read(<< ById(1, RoleAccess), Tc(2), Tc(20) >>, "iface", EnumAccess) }),
    Sent(BaseSER(1, MCSmfIp, smfSessionCreate), 12,
         { FteidOf(RoleAccess, s1Upf), OhcOf(3, RoleCore, s1ENb),
           UpfSession(s1Upf, s1UeIp, s1ENb) }),
    Sent(Modify(3, xgwSessionModifyIdle), 13,
         { Read(<< ById(10, RoleCore), Tc(108) >>, "id", RoleCore) }),
    Sent(Modify(3, sgwSessionModifyActive), 14, { OhcOf(10, RoleCore, NextTeid(s1ENb)) }),
    Sent(Modify(3, smfSessionModifyActive), 15, { OhcOf(10, RoleCore, NextTeid(s1ENb)) }),
    Sent(Modify(3, sgwSessionMobility), 16, { OhcOf(10, RoleCore, eNb2Fteid) }),
    Sent(Modify(3, sgwSessionMobilityNewTunnel), 17,
         { FteidOf(3, upfFteidTemporary), OhcOf(3, 3, eNb2FteidTemporary) }),
    Sent(Modify(3, sgwSessionMobilityRemoveTunnel), 18,
         { Read(<< ById(15, 3), Tc(56) >>, "id", 3) }) }

\* ue_session_1 of cmd/smf: its SessionData gives these F-TEIDs.
ue1Seid == 50000
ue1Upf     == FTeid(<< 172, 19, 0, 2 >>, 10001)
ue1ENb     == FTeid(<< 172, 19, 0, 1 >>, 20001)
ue1SgwCore == FTeid(<< 172, 19, 0, 3 >>, 30001)
ue1PgwCore == FTeid(<< 172, 19, 0, 4 >>, 40001)
ue1NodeId  == << 115, 109, 102 >>   \* "smf"

\* UeSessionRequest.genericSER: an establishment with the FQDN Node ID and
\* the request's SEID as F-SEID, or a modification under that SEID.
genericSER(mode, ies) ==
    IF mode = ModeCreate
    THEN NewSessionMessage(50, EncodeUint64(0),
             << IE_NodeIdFqdn(<< ue1NodeId >>), IE_FSeid(EncodeUint64(ue1Seid), MCSmfIp) >> \o ies)
    ELSE NewSessionMessage(52, EncodeUint64(ue1Seid), ies)

completeUpfSER ==
    genericSER(ModeCreate, << DecapPdr(ModeCreate, ue1Upf), DecapFar(ModeCreate),
                              EncapPdr(ModeCreate, s1UeIp), EncapFar(ModeCreate, ue1ENb) >>)
partialUpfSER ==
    genericSER(ModeCreate, << DecapPdr(ModeCreate, ue1Upf), DecapFar(ModeCreate),
                              EncapPdr(ModeCreate, s1UeIp), BufferFar(ModeCreate) >>)
upfSMR == genericSER(ModeUpdate, << EncapFar(ModeUpdate, ue1ENb) >>)
sgwCompleteSER ==
    genericSER(ModeCreate, << TunnelPdr(ModeCreate, RoleCore, ue1SgwCore),
                              TunnelFar(ModeCreate, RoleCore, ue1ENb),
                              TunnelPdr(ModeCreate, RoleAccess, ue1Upf),
                              TunnelFar(ModeCreate, RoleAccess, ue1PgwCore) >>)
sgwPartialSER ==
    genericSER(ModeCreate, << TunnelPdr(ModeCreate, RoleCore, ue1SgwCore), BufferFar(ModeCreate),
                              TunnelPdr(ModeCreate, RoleAccess, ue1Upf), BufferFar(ModeCreate) >>)
sgwSMR1 == genericSER(ModeUpdate, << TunnelFar(ModeUpdate, RoleCore, ue1ENb) >>)
sgwSMR2 == genericSER(ModeUpdate, << TunnelFar(ModeUpdate, RoleAccess, ue1PgwCore) >>)
pgwCompleteSER ==
    genericSER(ModeCreate, << DecapPdr(ModeCreate, ue1PgwCore), DecapFar(ModeCreate),
                              EncapPdr(ModeCreate, s1UeIp), EncapFar(ModeCreate, ue1SgwCore) >>)

\* The requests of cmd/smf's three modes, sgwPartialSER aside (see
\* MCIeCodecRules.cfg).
MCSmfMessages ==
  { Sent(completeUpfSER, 20,
         { FteidOf(RoleAccess, ue1Upf), OhcOf(3, RoleCore, ue1ENb),
           Read(<< Tc(60) >>, "nodeid", [fqdn |-> ue1NodeId]),
           UpfSession(ue1Upf, s1UeIp, ue1ENb) }),
    Sent(partialUpfSER, 21, { FteidOf(RoleAccess, ue1Upf) }),
    Sent(upfSMR, 22, { OhcOf(10, RoleCore, ue1ENb) }),
    Sent(sgwCompleteSER, 23, { FteidOf(RoleCore, ue1SgwCore), OhcOf(3, RoleAccess, ue1PgwCore) }),
    Sent(sgwSMR1, 24, { OhcOf(10, RoleCore, ue1ENb) }),
    Sent(sgwSMR2, 25, { OhcOf(10, RoleAccess, ue1PgwCore) }),
    Sent(pgwCompleteSER, 26, { FteidOf(RoleAccess, ue1PgwCore), OhcOf(3, RoleCore, ue1SgwCore) }) }

\* cmd/smf's SGW-mode establishment: two Create FARs with the core role's ID.
MCSgwPartial == { Sent(sgwPartialSER, 27, { FteidOf(RoleCore, ue1SgwCore) }) }

MCPeerMessages ==
  { MCAssociationRequest, MCAssociationResponse, MCEstablishment,
    MCEstablishmentChoose, MCTestSetEstablishment, MCEstablishmentResponse,
    MCModification } \cup MCHeartbeats \cup MCDeletions \cup MCSmf2Messages \cup MCSmfMessages

StrayHeaders ==
  { NodeHdr(1, 0), [type |-> 50, seid |-> Seid(263), seq |-> 0, prio |-> 1] }

\* Short, length-mismatched and SEID-truncated datagrams.
BadHeaders ==
  { << 32 >>, << 32, 1, 0, 9, 0, 0, 0, 0 >>, << 33, 50, 0, 4, 0, 0, 0, 0 >> }

\* Well-framed datagrams whose payload is any byte string up to 5 long.
StraysOver(bytes) ==
  BadHeaders \cup { HeaderSerialise(h, p) : h \in StrayHeaders, p \in SeqOf(bytes, 5) }

\* Bytes 0..2 make type codes 1 and 2 (Create_PDR, PDI) and short lengths;
\* 128 makes vendor type codes and lengths past the buffer.
MCStrays == StraysOver({0, 1, 2, 128})

\* 255 also makes IE lengths of 0xff00 and above.
MCStraysHigh == StraysOver({0, 1, 2, 255})

\* A heartbeat carrying a Create PDR whose PDR ID is 3 bytes long.
MCStraysBadId == { HeaderSerialise(NodeHdr(1, 0), TLV(1, TLV(56, << 0, 0, 1 >>))) }

\* Establishments that pass Validate but not cmd/upf's ParseUpfSER: a PDR
\* whose Source Interface is 5, beyond the enumeration; a core PDR whose
\* FAR ID is 3 bytes long (Validate reads FAR IDs only in Create FAR).
UpfStray(pdr) ==
    Serialise(NewSessionMessage(50, Seid(0),
        << IE_NodeIdIpV4(MCSmfIp), IE_FSeid(Seid(9), MCSmfIp), IE_CreatePdr(pdr),
           IE_CreateFar(<< IE_FarId(1) >>) >>))

MCStraysUpf ==
  { UpfStray(<< IE_PdrId(1), IE_Pdi(<< IE_SourceInterface(5) >>) >>),
    UpfStray(<< IE_PdrId(2), IE_Pdi(<< IE_SourceInterface(1) >>), NewIeNode(108, << 0, 0, 1 >>) >>) }

MCStraysWrap == MCStraysHigh \cup MCStraysBadId \cup MCStraysUpf
=============================================================================
