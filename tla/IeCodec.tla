------------------------------ MODULE IeCodec ------------------------------
(***************************************************************************)
(* The PFCP wire codec of package pfcp, byte by byte: the message header   *)
(* (ParsePFCPHeader, rawPfcpMessageHeader.serialise) and the TLV tree of   *)
(* information elements (readIe, readIes, IeNode.serialise).  A datagram   *)
(* is a sequence of bytes 0..255; uint16 arithmetic is kept modulo 2^16.   *)
(* A parsed IE is a record [type, bytes, ies, id]: a group IE has its     *)
(* children in ies and no bytes, a basic IE its payload in bytes and no    *)
(* children; id is the IeID that Validate sets on an ID-keyed group.       *)
(*                                                                         *)
(* The codec is driven by the receive loop Transport.runLower: it takes    *)
(* one datagram from the UDP peer, parses it and hands the message on.     *)
(* Datagrams come from the SMF (Serialise of a message it built) or are    *)
(* stray bytes from anywhere on the network.  ParseValidate parses and     *)
(* validates it against the attribute sets; what the Responder, Requestor  *)
(* and handlers then do with it is modelled elsewhere (Transport,          *)
(* Association, Merge).  The properties read the values of a parsed        *)
(* message back through the Get chain, as the handlers do.                 *)
(***************************************************************************)
EXTENDS Naturals, Sequences, SequencesExt

CONSTANTS
    GroupIeAttributeSets,   \* groupIeAttributeSets: group type -> child type -> attributes
    MessageIeAttributeSets, \* MessageIeAttributeSets: message type -> IE type -> attributes
    PeerMessages,  \* messages the SMF or UPF builds: [hdr, ies, reads]
    Strays,        \* byte sequences that reach the port from elsewhere
    IEInvalid,     \* the IeID ParseID gives an IE type it has no reader for
    Nil

VARIABLES
    msg,       \* the datagram runLower holds, or Nil
    result,    \* the outcome of parsing it, or Nil
    crashed    \* a panic in runLower, which has no recover: the process dies

vars == <<msg, result, crashed>>

Wrap16(n) == n % 65536

\* binary.BigEndian.Uint16 of b[i], b[i+1] (1-based).
BE16(b, i) == b[i] * 256 + b[i + 1]

BE24(b, i) == (b[i] * 256 + b[i + 1]) * 256 + b[i + 2]

WriteBE16(u) == << (u \div 256) % 256, u % 256 >>

WriteBE24(u) == << (u \div 65536) % 256, (u \div 256) % 256, u % 256 >>

IsGroupIe(t) == t \in DOMAIN GroupIeAttributeSets

\* NewIeNode, NewGroupNode: a basic IE with its payload, a group IE with its
\* children; neither has an IeID until Validate sets one.
NewIeNode(t, b) == [type |-> t, bytes |-> b, ies |-> << >>, id |-> Nil]

NewGroupNode(t, s) == [type |-> t, bytes |-> << >>, ies |-> s, id |-> Nil]

Fail(s) == [status |-> s, ies |-> << >>]

Ok(ies) == [status |-> "ok", ies |-> ies]

\* Mutant: the rest of the slice starts one byte early.
ReadIeRestEarly(cur) ==
    LET t  == BE16(cur, 1)
        l  == BE16(cur, 3)
        hi == Wrap16(4 + l)
    IN  IF Len(cur) < 4 \/ t > 32767 \/ Wrap16(l + 4) > Len(cur)
        THEN [status |-> "err"]
        ELSE IF hi < 4 THEN [status |-> "panic"]
        ELSE [status |-> "ok",
              ie   |-> NewIeNode(t, SubSeq(cur, 5, hi)),
              rest |-> SubSeq(cur, hi, Len(cur))]

(***************************************************************************)
(* readIe: take one TLV off the front of cur.  length+4 and 4+length are   *)
(* uint16 expressions: for a length of 0xfffc or more they wrap, the       *)
(* bounds check passes and the slice [4:4+length] has high < low, which    *)
(* Go reports by a panic.                                                  *)
(***************************************************************************)
ReadIe(cur) ==
    LET t  == BE16(cur, 1)
        l  == BE16(cur, 3)
        hi == Wrap16(4 + l)
    IN  IF Len(cur) < 4 \/ t > 32767 \/ Wrap16(l + 4) > Len(cur)
        THEN [status |-> "err"]
        ELSE IF hi < 4 THEN [status |-> "panic"]
        ELSE [status |-> "ok",
              ie   |-> NewIeNode(t, SubSeq(cur, 5, hi)),
              rest |-> SubSeq(cur, hi + 1, Len(cur))]

(***************************************************************************)
(* readIes: read IEs until the slice is empty; a group IE's bytes are      *)
(* parsed recursively before the rest, and replaced by its children.  The  *)
(* first error or panic, in that order, ends the parse.                    *)
(***************************************************************************)
RECURSIVE ReadIes(_)
ReadIes(cur) ==
    IF cur = << >> THEN Ok(<< >>)
    ELSE LET r == ReadIe(cur)
         IN  IF r.status # "ok" THEN Fail(r.status)
             ELSE LET sub  == IF IsGroupIe(r.ie.type) THEN ReadIes(r.ie.bytes)
                              ELSE Ok(<< >>)
                      node == IF IsGroupIe(r.ie.type)
                              THEN [r.ie EXCEPT !.bytes = << >>, !.ies = sub.ies]
                              ELSE r.ie
                      more == ReadIes(r.rest)
                  IN  IF sub.status # "ok" THEN Fail(sub.status)
                      ELSE IF more.status # "ok" THEN Fail(more.status)
                      ELSE Ok(<< node >> \o more.ies)

(***************************************************************************)
(* IeNode.serialise and serialise: a node with children is written as a    *)
(* TLV around the serialisation of its children, any other node as a TLV   *)
(* around its bytes.  The two panics of IeNode.serialise (bytes and ies    *)
(* both set, a payload over 0xffff bytes) need nodes no message here has.  *)
(***************************************************************************)
TLV(t, payload) == WriteBE16(t) \o WriteBE16(Wrap16(Len(payload))) \o payload

RECURSIVE SerialiseIes(_)
SerialiseIes(ies) ==
    IF ies = << >> THEN << >>
    ELSE LET ie == Head(ies)
         IN  (IF ie.ies # << >> THEN TLV(ie.type, SerialiseIes(ie.ies))
              ELSE TLV(ie.type, ie.bytes))
             \o SerialiseIes(Tail(ies))

(***************************************************************************)
(* The header: flags (bit 0 SEID present, bit 1 message priority, version  *)
(* 1 in bits 5-7), message type, length of what follows the first four     *)
(* bytes, then SEID (8 bytes) if present, a 24-bit sequence number and a   *)
(* spare byte holding the priority in its high nibble.  The SEID is kept   *)
(* as its 8 bytes: Uint64 is a bijection onto them.                        *)
(***************************************************************************)
HeaderSerialise(h, payload) ==
    IF h.seid = Nil
    THEN << 32, h.type >> \o WriteBE16(Wrap16(4 + Len(payload)))
            \o WriteBE24(h.seq) \o << 0 >> \o payload
    ELSE << 33 + (IF h.prio # Nil THEN 2 ELSE 0), h.type >>
            \o WriteBE16(Wrap16(12 + Len(payload)))
            \o h.seid \o WriteBE24(h.seq)
            \o << IF h.prio # Nil THEN (h.prio * 16) % 256 ELSE 0 >> \o payload

Serialise(m) == HeaderSerialise(m.hdr, SerialiseIes(m.ies))

(***************************************************************************)
(* The encoders of encode_types.go for the IE values the applications read *)
(* back.  An IPv4 address is kept as its four bytes (Encode_IpV4 of an     *)
(* IPv4 netip.Addr writes them, ReadIpV4 reads them), a SEID as its eight. *)
(* A TEID is a uint32; the model's TEIDs stay below 2^31, TLC's bound.     *)
(***************************************************************************)
WriteBE32(u) == WriteBE16(u \div 65536) \o WriteBE16(u % 65536)

BE32(b, i) == BE16(b, i) * 65536 + BE16(b, i + 2)

EncodeUint8(u) == << u >>

\* Encode_FTeid_IpV4: flag V4, TEID, address.
EncodeFTeidIpV4(teid, ip) == << 1 >> \o WriteBE32(teid) \o ip

\* Encode_FTeid_Choose_IpV4: flags CH and V4 only.
EncodeFTeidChooseIpV4 == << 5 >>

\* Encode_FSeid: flag V4 (hard-coded), SEID, address.
EncodeFSeid(seid, ip) == << 2 >> \o seid \o ip

\* Mutant: the outer header description written as one byte, not two.
EncodeOuterHeaderCreationShort(teid, ip) == << 1 >> \o WriteBE32(teid) \o ip

\* Encode_OuterHeaderCreation: GTP-U/UDP/IPv4 description, TEID, address.
EncodeOuterHeaderCreation(teid, ip) == << 1, 0 >> \o WriteBE32(teid) \o ip

\* Encode_UeIpAddress_IpV4_Dst: flags SD and V4, address.
EncodeUeIpAddressIpV4Dst(ip) == << 6 >> \o ip

EncodeUint16(u) == WriteBE16(u)
\* Encode_Uint64 of a value below 2^31 (SEIDs in the models are small).
EncodeUint64(u) == << 0, 0, 0, 0 >> \o WriteBE32(u)

\* Encode_APN: a uint8 length, then that many bytes of the string.
EncodeAPN(s) == << Len(s) % 256 >> \o SubSeq(s, 1, Len(s) % 256)

\* Encode_FQDN: every label as Encode_APN writes it, one after the other.
EncodeFQDN(sx) == FlattenSeq([i \in DOMAIN sx |-> EncodeAPN(sx[i])])

\* Encode_NodeIdFqdn, Encode_NodeIdIpV4: the format byte (2 FQDN, 0 IPv4).
EncodeNodeIdFqdn(sx) == << 2 >> \o EncodeFQDN(sx)

EncodeNodeIdIpV4(ip) == << 0 >> \o ip

\* Encode_UserPlaneIpResourceInformation: flag V4, address.
EncodeUserPlaneIpResourceInformation(ip) == << 1 >> \o ip

\* Encode_ApplyAction: one flag bit per action (DROP 1, FORW 2, BUFF 3,
\* NOCP 4); any other action is written as 0.
EncodeApplyAction(a) ==
    EncodeUint8(IF a \in 1..4 THEN 2 ^ (a - 1) ELSE 0)

\* Encode_GateStatus: bit 2 for a closed uplink gate, bit 0 for downlink.
EncodeGateStatus(gs) ==
    EncodeUint8((IF gs.ul = 1 THEN 4 ELSE 0) + (IF gs.dl = 1 THEN 1 ELSE 0))

\* encodeBitRate, Encode_BitRates: the low 40 bits of each rate, uplink
\* first.  The model's rates stay below 2^31, so the top byte is 0.
EncodeBitRates(br) == << 0 >> \o WriteBE32(br.ul) \o << 0 >> \o WriteBE32(br.dl)

(***************************************************************************)
(* The IE constructors of encode.go: a type code and an encoded value, or  *)
(* a type code and children.                                               *)
(***************************************************************************)
IE_Cause(c)               == NewIeNode(19, EncodeUint8(c))
IE_RecoveryTimeStamp(u)   == NewIeNode(96, WriteBE32(u))
IE_NodeIdFqdn(sx)         == NewIeNode(60, EncodeNodeIdFqdn(sx))
IE_NodeIdIpV4(ip)         == NewIeNode(60, EncodeNodeIdIpV4(ip))
IE_FSeid(seid, ip)        == NewIeNode(57, EncodeFSeid(seid, ip))
IE_PdrId(u)               == NewIeNode(56, EncodeUint16(u))
IE_FarId(u)               == NewIeNode(108, WriteBE32(u))
IE_QerId(u)               == NewIeNode(109, WriteBE32(u))
IE_Precedence(u)          == NewIeNode(29, WriteBE32(u))
IE_SourceInterface(t)     == NewIeNode(20, EncodeUint8(t))
IE_FTeid_Choose_IpV4      == NewIeNode(21, EncodeFTeidChooseIpV4)
IE_FTeid_IpV4(teid, ip)   == NewIeNode(21, EncodeFTeidIpV4(teid, ip))
IE_NetworkInstance(s)     == NewIeNode(22, EncodeAPN(s))
IE_Qfi(q)                 == NewIeNode(124, EncodeUint8(q))
IE_GateStatus(gs)         == NewIeNode(25, EncodeGateStatus(gs))
IE_UeIpAddress(ip)        == NewIeNode(93, EncodeUeIpAddressIpV4Dst(ip))
IE_UpIpRsrcInfo(ip)       == NewIeNode(116, EncodeUserPlaneIpResourceInformation(ip))
IE_ApplyAction(a)         == NewIeNode(44, EncodeApplyAction(a))
IE_DestinationInterface(t) == NewIeNode(42, EncodeUint8(t))
IE_OuterHeaderCreation(teid, ip) == NewIeNode(84, EncodeOuterHeaderCreation(teid, ip))
IE_OuterHeaderRemoval     == NewIeNode(95, << >>)
IE_Mbr(br)                == NewIeNode(26, EncodeBitRates(br))
IE_Gbr(br)                == NewIeNode(27, EncodeBitRates(br))
IE_CreatePdr(s)           == NewGroupNode(1, s)
IE_Pdi(s)                 == NewGroupNode(2, s)
IE_CreateFar(s)           == NewGroupNode(3, s)
IE_ForwardingParameters(s) == NewGroupNode(4, s)
IE_CreateQer(s)           == NewGroupNode(7, s)
IE_UpdateFar(s)           == NewGroupNode(10, s)
IE_UpdateForwardingParameters(s) == NewGroupNode(11, s)
IE_RemovePdr(s)           == NewGroupNode(15, s)
IE_RemoveFar(s)           == NewGroupNode(16, s)
IE_UpdatePdr(s)           == NewGroupNode(9, s)

\* NewSessionMessage, NewNodeMessage: the sequence number is the
\* Transport's to set when it sends the message.
NewSessionMessage(t, seid, ies) ==
    [hdr |-> [type |-> t, seid |-> seid, seq |-> 0, prio |-> Nil], ies |-> ies]
NewNodeMessage(t, ies) ==
    [hdr |-> [type |-> t, seid |-> Nil, seq |-> 0, prio |-> Nil], ies |-> ies]

(***************************************************************************)
(* The rule builders of pfcp/builder (genreq.go) that the SMF emulators    *)
(* use.  An F-TEID is a record [teid, ip].  A role's PDR and FAR IDs are    *)
(* the role's number, so a session has one rule pair per role.             *)
(***************************************************************************)
NetworkInstanceName == << 105, 110, 116, 101, 114, 110, 101, 116 >>   \* "internet"
DefaultPdrPrecedence == 255
RoleAccess == 1
RoleCore == 2
ModeCreate == 1
ModeUpdate == 2
EnumAccess == 0
EnumCore == 1
EnumForw == 2
EnumBuff == 3

\* InterfaceRole.interfaces: the zero values for a role that is neither.
Interfaces(role) ==
    IF role = RoleCore THEN [dst |-> EnumAccess, src |-> EnumCore]
    ELSE IF role = RoleAccess THEN [dst |-> EnumCore, src |-> EnumAccess]
    ELSE [dst |-> 0, src |-> 0]

\* RequestMode.makePdr, makeFar (the callers pass only the two modes).
MakePdr(mode, s) == IF mode = ModeCreate THEN IE_CreatePdr(s) ELSE IE_UpdatePdr(s)
MakeFar(mode, s) == IF mode = ModeCreate THEN IE_CreateFar(s) ELSE IE_UpdateFar(s)

DecapPdr(mode, fteid) ==
    MakePdr(mode, << IE_PdrId(RoleAccess), IE_Precedence(DefaultPdrPrecedence),
                     IE_Pdi(<< IE_SourceInterface(EnumAccess),
                               IE_FTeid_IpV4(fteid.teid, fteid.ip),
                               IE_NetworkInstance(NetworkInstanceName) >>),
                     IE_OuterHeaderRemoval, IE_FarId(RoleAccess) >>)

\* Mutant: the decapsulating FAR takes the core role's ID, as BufferFar's does.
DecapFarCoreId(mode) ==
    MakeFar(mode, << IE_FarId(RoleCore), IE_ApplyAction(EnumForw),
                     IE_ForwardingParameters(<< IE_DestinationInterface(EnumCore),
                                               IE_NetworkInstance(NetworkInstanceName) >>) >>)

DecapFar(mode) ==
    MakeFar(mode, << IE_FarId(RoleAccess), IE_ApplyAction(EnumForw),
                     IE_ForwardingParameters(<< IE_DestinationInterface(EnumCore),
                                               IE_NetworkInstance(NetworkInstanceName) >>) >>)

EncapPdr(mode, ueIp) ==
    MakePdr(mode, << IE_PdrId(RoleCore), IE_Precedence(DefaultPdrPrecedence),
                     IE_Pdi(<< IE_SourceInterface(EnumCore),
                               IE_NetworkInstance(NetworkInstanceName),
                               IE_UeIpAddress(ueIp) >>),
                     IE_FarId(RoleCore) >>)

CustomOhcFar(farId, mode, destinationInterface, fteid) ==
    MakeFar(mode, << IE_FarId(farId), IE_ApplyAction(EnumForw),
                     IE_ForwardingParameters(<< IE_DestinationInterface(destinationInterface),
                                               IE_NetworkInstance(NetworkInstanceName),
                                               IE_OuterHeaderCreation(fteid.teid, fteid.ip) >>) >>)

CustomOhcPdr(pdrId, farId, mode, sourceInterface, fteid) ==
    MakePdr(mode, << IE_PdrId(pdrId), IE_Precedence(DefaultPdrPrecedence),
                     IE_Pdi(<< IE_SourceInterface(sourceInterface),
                               IE_FTeid_IpV4(fteid.teid, fteid.ip),
                               IE_NetworkInstance(NetworkInstanceName) >>),
                     IE_FarId(farId) >>)

\* EncapFar, TunnelPdr and TunnelFar build exactly what the Custom builders
\* build for the role's IDs and interfaces.
EncapFar(mode, fteid) == CustomOhcFar(RoleCore, mode, EnumAccess, fteid)
TunnelPdr(mode, role, fteid) == CustomOhcPdr(role, role, mode, Interfaces(role).src, fteid)
TunnelFar(mode, role, fteid) == CustomOhcFar(role, mode, Interfaces(role).dst, fteid)

\* Only used on downlinks: the FAR ID is the core role's.
BufferFar(mode) ==
    MakeFar(mode, << IE_FarId(RoleCore), IE_ApplyAction(EnumBuff),
                     IE_ForwardingParameters(<< IE_DestinationInterface(EnumAccess) >>) >>)

TestBit(b, k) == (b \div (2 ^ k)) % 2 = 1

Value(v) == [status |-> "ok", val |-> v]

\* DeserialiseU8 (the cause code).
DeserialiseU8(b) == IF Len(b) # 1 THEN [status |-> "err"] ELSE Value(b[1])

\* getFteid: choose (with or without CHID) has no TEID and no address.
GetFteid(b) ==
    IF Len(b) = 0 THEN [status |-> "err"]
    ELSE IF (Len(b) = 1 /\ b[1] = 5) \/ (Len(b) = 2 /\ b[1] = 13)
    THEN Value([teid |-> Nil, ip |-> Nil])
    ELSE IF Len(b) = 9 /\ b[1] = 1
    THEN Value([teid |-> BE32(b, 2), ip |-> SubSeq(b, 6, 9)])
    ELSE [status |-> "err"]

GetFSeid(b) ==
    IF Len(b) < 9 THEN [status |-> "err"]
    ELSE IF b[1] = 0 THEN Value([seid |-> SubSeq(b, 2, 9), ip |-> Nil])
    ELSE IF Len(b) = 13 /\ b[1] = 2
    THEN Value([seid |-> SubSeq(b, 2, 9), ip |-> SubSeq(b, 10, 13)])
    ELSE [status |-> "err"]

\* getOuterHeaderCreate and getUeIpAddress panic on any other form.
GetOuterHeaderCreate(b) ==
    IF Len(b) = 10 /\ b[1] = 1 /\ b[2] = 0
    THEN Value([teid |-> BE32(b, 3), ip |-> SubSeq(b, 7, 10)])
    ELSE [status |-> "panic"]

GetUeIpAddress(b) ==
    IF Len(b) = 5 /\ TestBit(b[1], 1) /\ TestBit(b[1], 2)
    THEN Value(SubSeq(b, 2, 5))
    ELSE [status |-> "panic"]

\* DeserialiseU32 (the recovery time stamp).
DeserialiseU32(b) == IF Len(b) # 4 THEN [status |-> "err"] ELSE Value(BE32(b, 1))

\* deserialiseUint, truncated to the uint32 IeID: an empty payload is 0;
\* 1, 2, 4 and 8 bytes are read big-endian (8 keeps its low 4 bytes); any
\* other length panics.
DeserialiseUint(b) ==
    IF Len(b) = 0 THEN Value(0)
    ELSE IF Len(b) \in {1, 2} THEN Value(IF Len(b) = 1 THEN b[1] ELSE BE16(b, 1))
    ELSE IF Len(b) = 4 THEN Value(BE32(b, 1))
    ELSE IF Len(b) = 8 THEN Value(BE32(b, 5))
    ELSE [status |-> "panic"]

\* IeNode.ParseID: PDR_ID, FAR_ID, BAR_ID, URR_ID and QER_ID are read by
\* deserialiseUint, any other type gives IEInvalid.
ParseID(ie) ==
    IF ie.type \in {56, 108, 88, 81, 109} THEN DeserialiseUint(ie.bytes)
    ELSE Value(IEInvalid)

\* readEnumInterface: one byte, Access (0) to 5G VN Internal (4).
ReadEnumInterface(b) ==
    IF Len(b) = 1 /\ b[1] <= 4 THEN Value(b[1]) ELSE [status |-> "err"]

\* showFQNString: when the first label fills the slice, the label; when it
\* is shorter, bytes[1:len-1] and the last byte, i.e. every byte after the
\* first length byte, later length bytes included; when it is longer, an
\* "apn bad name" string, returned as a success.  bytes[0] of an empty
\* slice panics.
ShowFQNString(b) ==
    IF b = << >> THEN [status |-> "panic"]
    ELSE IF b[1] <= Len(b) - 1 THEN Value([fqdn |-> Tail(b)])
    ELSE Value([badname |-> b])

\* showNodeIdString by the format byte.  ReadIpV4(bytes[1:5]) of an IE
\* shorter than 5 bytes reads past it into the receive buffer (the slice's
\* capacity); the model gives that outcome no value.
ShowNodeIdString(b) ==
    IF b = << >> THEN [status |-> "err"]
    ELSE CASE b[1] = 0 -> IF Len(b) >= 5 THEN Value([ipv4 |-> SubSeq(b, 2, 5)])
                          ELSE [status |-> "overread"]
           [] b[1] = 1 -> Value([hex |-> Tail(b)])
           [] b[1] = 2 -> ShowFQNString(Tail(b))
           [] OTHER    -> [status |-> "err"]

(***************************************************************************)
(* The Get chain of getters.go.  GetByTc moves to the first child of the   *)
(* type that has no IeID, GetById to the first child of the type whose     *)
(* IeID is the one asked for (Validate sets IeIDs on ID-keyed groups).  A  *)
(* step that finds nothing records a failure that later steps pass on.     *)
(* A path step is [tc, id]: GetByTc when id is Nil, else GetById.          *)
(***************************************************************************)
Getter(ie) == [status |-> "ok", ie |-> ie]

GetByTc(g, tc) ==
    IF g.status # "ok" THEN g
    ELSE LET i == SelectInSeq(g.ie.ies, LAMBDA c : c.type = tc /\ c.id = Nil)
         IN  IF i = 0 THEN [status |-> "err"] ELSE Getter(g.ie.ies[i])

GetById(g, tc, id) ==
    IF g.status # "ok" THEN g
    ELSE LET i == SelectInSeq(g.ie.ies, LAMBDA c : c.type = tc /\ c.id # Nil /\ c.id = id)
         IN  IF i = 0 THEN [status |-> "err"] ELSE Getter(g.ie.ies[i])

RECURSIVE GetPath(_, _)
GetPath(g, path) ==
    IF path = << >> THEN g
    ELSE LET s == Head(path)
         IN  GetPath(IF s.id = Nil THEN GetByTc(g, s.tc) ELSE GetById(g, s.tc, s.id),
                     Tail(path))

(***************************************************************************)
(* The Deserialise methods of Get: a prior failure is returned as an       *)
(* error, except by Inner(), which the interface readers call first and    *)
(* which panics on it; DeserialiseEnumInterface panics on a bad value too. *)
(***************************************************************************)
Deserialise(kind, g) ==
    IF g.status # "ok" THEN [status |-> IF kind = "iface" THEN "panic" ELSE "err"]
    ELSE CASE kind = "cause"  -> DeserialiseU8(g.ie.bytes)
           [] kind = "u32"    -> DeserialiseU32(g.ie.bytes)
           [] kind = "fseid"  -> GetFSeid(g.ie.bytes)
           [] kind = "fteid"  -> GetFteid(g.ie.bytes)
           [] kind = "ohc"    -> GetOuterHeaderCreate(g.ie.bytes)
           [] kind = "ueip"   -> GetUeIpAddress(g.ie.bytes)
           [] kind = "nodeid" -> ShowNodeIdString(g.ie.bytes)
           [] kind = "id"     -> LET r == ParseID(g.ie)
                                 IN  IF r.status = "ok" /\ r.val = IEInvalid
                                     THEN [status |-> "err"] ELSE r
           [] kind = "iface"  -> LET r == ReadEnumInterface(g.ie.bytes)
                                 IN  IF r.status # "ok" THEN [status |-> "panic"] ELSE r

\* PfcpMessage.Node: the message's IEs under a root of type 0.
Node(m) == NewGroupNode(0, m.ies)

(***************************************************************************)
(* The UPF application of cmd/upf: its establishment callback parses the   *)
(* session with GetByPredicate and the Get readers, logs the outcome and   *)
(* accepts.                                                                *)
(***************************************************************************)

\* pdrHasInterfaceType(t): the PDR's PDI Source Interface, read through
\* Inner() (a panic when either is missing) and DeserialiseEnumInterface.
PdrHasInterfaceType(t, g) ==
    LET r == Deserialise("iface", GetByTc(GetByTc(g, 2), 20))
    IN  IF r.status # "ok" THEN r ELSE Value(r.val = t)

\* GetByPredicate: the first child of type tc, IeID or not, for which the
\* predicate holds; a predicate that panics ends the search with the panic.
\* When no child matches, the Get is returned unchanged and without error:
\* the node searched stands in for the one asked for. The predicate is the
\* one cmd/upf passes, pdrHasInterfaceType(t), so it is given by t.
GetByPredicate(g, tc, t) ==
    IF g.status # "ok" THEN g
    ELSE LET ies  == g.ie.ies
             stop == {i \in DOMAIN ies :
                        ies[i].type = tc /\ PdrHasInterfaceType(t, Getter(ies[i])) # Value(FALSE)}
         IN  IF stop = {} THEN g
             ELSE IF PdrHasInterfaceType(t, Getter(ies[Min(stop)])).status = "panic" THEN [status |-> "panic"]
             ELSE Getter(ies[Min(stop)])

\* session.ParseSERSeid: the F-SEID the runner needs before the callback.
ParseSERSeid(root) == Deserialise("fseid", GetByTc(root, 57))

\* Mutant: the core FAR's outer header is read through Inner(), as
\* session.ParseUpfSER reads it.
OuterHeaderOfInner(g) ==
    IF g.status # "ok" THEN [status |-> "panic"] ELSE Deserialise("ohc", g)

\* cmd/upf ParseUpfSER reads the outer header through Get: a missing one is
\* an error.
OuterHeaderOf(g) == Deserialise("ohc", g)

\* ParseUpfSER: the access PDR's F-TEID, the core PDR's UE address and the
\* outer header of the FAR the core PDR names, each error returned in the
\* order the code meets it, and an F-TEID without address or TEID refused.
ParseUpfSER(root) ==
    LET access == GetByPredicate(root, 1, EnumAccess)
        core   == GetByPredicate(root, 1, EnumCore)
        farId  == Deserialise("id", GetByTc(core, 108))
        ue     == Deserialise("ueip", GetByTc(GetByTc(core, 2), 93))
        ohc    == OuterHeaderOf(GetByTc(GetByTc(GetById(root, 3, farId.val), 4), 84))
        fteid  == Deserialise("fteid", GetByTc(GetByTc(access, 2), 21))
    IN  IF "panic" \in {access.status, core.status} THEN [status |-> "panic"]
        ELSE IF farId.status # "ok" THEN farId
        ELSE IF ue.status # "ok" THEN ue
        ELSE IF ohc.status # "ok" THEN ohc
        ELSE IF fteid.status # "ok" THEN fteid
        ELSE IF Nil \in {fteid.val.ip, fteid.val.teid} THEN [status |-> "err"]
        ELSE Value([access |-> fteid.val, ue |-> ue.val, core |-> ohc.val])

\* Mutant: the priority is read without the shift out of the high nibble.
ParsePFCPHeaderNoShift(b) ==
    LET flags    == b[1]
        seidFlag == flags % 2 = 1
        mpFlag   == (flags \div 2) % 2 = 1
        hdr(seid, seq, prio) ==
            [type |-> b[2], seid |-> seid, seq |-> seq, prio |-> prio]
    IN  IF Len(b) < 8 \/ BE16(b, 3) + 4 # Len(b) THEN [status |-> "err"]
        ELSE IF ~seidFlag
        THEN [status |-> "ok", hdr |-> hdr(Nil, BE24(b, 5), Nil),
              bytes |-> SubSeq(b, 9, Len(b))]
        ELSE IF Len(b) < 16 THEN [status |-> "err"]
        ELSE [status |-> "ok",
              hdr |-> hdr(SubSeq(b, 5, 12), BE24(b, 13),
                          IF mpFlag THEN b[16] ELSE Nil),
              bytes |-> SubSeq(b, 17, Len(b))]

ParsePFCPHeader(b) ==
    LET flags    == b[1]
        seidFlag == flags % 2 = 1
        mpFlag   == (flags \div 2) % 2 = 1
        hdr(seid, seq, prio) ==
            [type |-> b[2], seid |-> seid, seq |-> seq, prio |-> prio]
    IN  IF Len(b) < 8 \/ BE16(b, 3) + 4 # Len(b) THEN [status |-> "err"]
        ELSE IF ~seidFlag
        THEN [status |-> "ok", hdr |-> hdr(Nil, BE24(b, 5), Nil),
              bytes |-> SubSeq(b, 9, Len(b))]
        ELSE IF Len(b) < 16 THEN [status |-> "err"]
        ELSE [status |-> "ok",
                       hdr |-> hdr(SubSeq(b, 5, 12), BE24(b, 13),
                                   IF mpFlag THEN b[16] \div 16 ELSE Nil),
                       bytes |-> SubSeq(b, 17, Len(b))]

(***************************************************************************)
(* Validate.  validateAttributeSet checks a list of IEs against an         *)
(* attribute set: every type allowed, no duplicate of a type that is not   *)
(* multiple, every required type present, and an ID when the set has one. *)
(* It reads every ID IE with ParseID on the way (the last one is the       *)
(* group's IeID), so a malformed ID panics whatever else is wrong.  The    *)
(* failures are collected in a string; the model keeps whether there was   *)
(* one.  IeNode.validate sets a group's IeID, then validates its children, *)
(* whether or not the group itself was allowed where it stands.            *)
(***************************************************************************)
ValidateAttributeSet(ies, set) ==
    LET found    == {i \in DOMAIN ies : ies[i].type \in DOMAIN set}
        idIes    == {i \in found : set[ies[i].type].isID /\ ~IsGroupIe(ies[i].type)}
        parsed   == [i \in idIes |-> ParseID(ies[i])]
        groupId  == IF idIes = {} THEN Nil ELSE parsed[Max(idIes)].val
        required == {t \in DOMAIN set : set[t].required}
        valid    ==
            /\ found = DOMAIN ies
            /\ \A i, j \in found : i < j /\ ies[i].type = ies[j].type
                                   => set[ies[i].type].multiple
            /\ \A i \in found : set[ies[i].type].isID => ~IsGroupIe(ies[i].type)
            /\ required \subseteq {ies[i].type : i \in found}
            /\ (\E t \in DOMAIN set : set[t].isID) => groupId # Nil
    IN  IF \E i \in idIes : parsed[i].status = "panic" THEN [status |-> "panic"]
        ELSE [status |-> IF valid THEN "ok" ELSE "err", id |-> groupId]

\* The worst of a set of outcomes: a panic ends the goroutine at once.
Worst(S) == IF "panic" \in S THEN "panic" ELSE IF "err" \in S THEN "err" ELSE "ok"

RECURSIVE ValidateIe(_)
ValidateIe(ie) ==
    IF ~IsGroupIe(ie.type) THEN [status |-> "ok", ie |-> ie]
    ELSE LET a    == ValidateAttributeSet(ie.ies, GroupIeAttributeSets[ie.type])
             kids == [i \in DOMAIN ie.ies |-> ValidateIe(ie.ies[i])]
         IN  IF a.status = "panic" THEN [status |-> "panic"]
             ELSE [status |-> Worst({a.status} \cup {kids[i].status : i \in DOMAIN kids}),
                   ie |-> [ie EXCEPT !.id = a.id,
                                     !.ies = [i \in DOMAIN kids |->
                                                IF kids[i].status = "panic" THEN ie.ies[i]
                                                ELSE kids[i].ie]]]

\* PfcpMessage.Validate: the top-level list against the message type's set
\* (an unknown type is an error), then every IE.
Validate(m) ==
    IF m.hdr.type \notin DOMAIN MessageIeAttributeSets THEN [status |-> "err"]
    ELSE LET a    == ValidateAttributeSet(m.ies, MessageIeAttributeSets[m.hdr.type])
             kids == [i \in DOMAIN m.ies |-> ValidateIe(m.ies[i])]
             st   == IF a.status = "panic" THEN "panic"
                     ELSE Worst({a.status} \cup {kids[i].status : i \in DOMAIN kids})
         IN  IF st # "ok" THEN [status |-> st]
             ELSE [status |-> "ok",
                   msg |-> [m EXCEPT !.ies = [i \in DOMAIN kids |-> kids[i].ie]]]

\* ParseValidate: the header, the payload's IEs, then Validate.
ParseMessage(b) ==
    LET h == ParsePFCPHeader(b)
        p == ReadIes(h.bytes)
    IN  IF h.status # "ok" THEN [status |-> h.status]
        ELSE IF p.status # "ok" THEN [status |-> p.status]
        ELSE Validate([hdr |-> h.hdr, ies |-> p.ies])

----------------------------------------------------------------------------
Init ==
    /\ msg = Nil
    /\ result = Nil
    /\ crashed = FALSE

\* The UDP peer hands runLower a datagram the associated SMF or UPF serialised.
ReceiveFromPeer(m) ==
    /\ msg = Nil /\ ~crashed
    /\ msg' = [from |-> "peer", sent |-> m, bytes |-> Serialise(m)]
    /\ UNCHANGED <<result, crashed>>

\* The UDP peer hands runLower bytes sent by anyone else.
ReceiveStray(d) ==
    /\ msg = Nil /\ ~crashed
    /\ msg' = [from |-> "stray", sent |-> Nil, bytes |-> d]
    /\ UNCHANGED <<result, crashed>>

\* runLower calls ParseValidate on the payload.
Parse ==
    /\ msg # Nil
    /\ result = Nil
    /\ result' = ParseMessage(msg.bytes)
    /\ crashed' = (result'.status = "panic")
    /\ UNCHANGED msg

\* runLower logs a rejected message, or hands a parsed one to the
\* Responder or Requestor, and goes back to the receive channel.
Dispatch ==
    /\ result # Nil
    /\ ~crashed
    /\ msg' = Nil
    /\ result' = Nil
    /\ UNCHANGED crashed

\* The receiving endpoint is cmd/upf's: its runner services an establishment
\* whose F-SEID ParseSERSeid reads by inserting it and calling the UPF
\* application's CallbackSessionEstablishmentRequest, which runs
\* ParseUpfSER, only logs its error, and accepts.
UpfEstablish ==
    /\ result # Nil
    /\ ~crashed
    /\ result.status = "ok" /\ result.msg.hdr.type = 50
    /\ ParseSERSeid(Getter(Node(result.msg))).status = "ok"
    /\ crashed' = (ParseUpfSER(Getter(Node(result.msg))).status = "panic")
    /\ msg' = Nil
    /\ result' = Nil

Next ==
    \/ \E m \in PeerMessages : ReceiveFromPeer(m)
    \/ \E d \in Strays : ReceiveStray(d)
    \/ Parse
    \/ Dispatch
    \/ UpfEstablish

Spec == Init /\ [][Next]_vars

----------------------------------------------------------------------------
Hdrs == [type : 0..255, seid : {Nil} \cup [1..8 -> 0..255],
         seq : 0..16777215, prio : {Nil} \cup 0..15]

TypeOK ==
    /\ msg = Nil \/ (msg.from \in {"peer", "stray"} /\ msg.bytes \in Seq(0..255))
    /\ result = Nil \/ result.status \in {"ok", "err", "panic"}
    /\ result # Nil /\ result.status = "ok" => result.msg.hdr \in Hdrs
    /\ crashed \in BOOLEAN

\* The IE tree with the IeIDs Validate sets cleared.
RECURSIVE WithoutIds(_)
WithoutIds(ies) ==
    [i \in DOMAIN ies |-> [ies[i] EXCEPT !.id = Nil, !.ies = WithoutIds(ies[i].ies)]]

\* Every message the SMF or UPF serialises passes ParseValidate and comes
\* back as exactly the header and IE tree it was built from: lengths,
\* offsets, nesting of grouped IEs and the header fields agree between the
\* encoder and the decoder, and the attribute sets accept what the
\* builders build.  (The IeIDs Validate adds are checked by the reads.)
RoundTrip ==
    (result # Nil /\ msg.from = "peer") =>
        /\ result.status = "ok"
        /\ result.msg.hdr = msg.sent.hdr
        /\ WithoutIds(result.msg.ies) = msg.sent.ies

\* Every value the peer encoded into a message is read back, by the Get
\* chain and the Deserialise method its reader uses, as the value encoded:
\* the encoders of encode.go and encode_types.go and the decoders of
\* ieshow.go and ie.go agree on flags, offsets and lengths, and a PDR, FAR
\* or QER is found by GetById under the ID its ID IE was built with, which
\* Validate read back with ParseID (a 2-byte PDR ID, 4-byte FAR and QER IDs).
\* The UPF application's ParseUpfSER (kind "upf") finds the access and core
\* PDRs by their Source Interface and the core FAR by the core PDR's FAR ID.
ValuesReadBack ==
    (result # Nil /\ msg.from = "peer" /\ result.status = "ok") =>
        \A r \in msg.sent.reads :
            LET g == GetPath(Getter(Node(result.msg)), r.path)
            IN  (IF r.kind = "upf" THEN ParseUpfSER(g) ELSE Deserialise(r.kind, g)) = Value(r.val)

\* No datagram, whatever its bytes, makes the parser, or the UPF runner's
\* establishment callback after it, panic: neither runLower nor the runner
\* goroutine has a recover, so a panic there ends the whole process.
NoPanic == ~crashed

\* The IDs of the Create FARs among a list of IEs, as Validate set them.
CreatedFarIds(ies) == {ies[i].id : i \in {i \in DOMAIN ies : ies[i].type = 3}}

\* Every establishment that reaches the parser creates each FAR once, and
\* every PDR it creates forwards to a FAR it creates: the builders give a
\* role's rules the role's number as ID, and a request that created two
\* FARs with one ID, or a PDR whose FAR is missing, would be stored by the
\* UPF (Validate checks neither) and leave the PDR's traffic without an
\* action.  Which establishments reach the parser is the model's choice:
\* cmd/smf's sgwPartialSER, built with BufferFar for both roles, breaks it.
RulesReferToCreatedFars ==
    (result # Nil /\ msg.from = "peer" /\ result.status = "ok" /\ result.msg.hdr.type = 50) =>
        LET ies  == result.msg.ies
            fars == {i \in DOMAIN ies : ies[i].type = 3}
        IN  /\ \A i, j \in fars : i # j => ies[i].id # ies[j].id
            /\ \A p \in {i \in DOMAIN ies : ies[i].type = 1} :
                   \A c \in Range(ies[p].ies) :
                       c.type = 108 => ParseID(c).val \in CreatedFarIds(ies)

=============================================================================
