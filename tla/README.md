# TLA+ models of pfcpcore

This directory holds TLA+ models of the PFCP stack in `src/` and of the
applications built on it. TLC configurations check them. Every action is
translated from the Go source. `PROJECT.json` maps each definition to the
lines it models, lists the runs and their mutants, and records the findings
and the hazards of the code.

## The system

| Part | Source | State | Operations |
|---|---|---|---|
| Codec | `pfcp/parsemessage.go`, `serialise.go`, `ie.go`, `getters.go`, `deserialise.go`, `ieshow.go`, `encode*.go`, `messageparser.go` | none (pure) | header parse and serialise (24-bit sequence number, optional SEID, priority), IE tree parse and serialise, the Get chain, typed encoders and decoders |
| Message tables and validator | `pfcp/messagetypes.go`, `validate.go`, `groupieattributes.go`, `ieattributes.go` | static tables | `IsRequest`/`IsResponse`, `Validate` against the attribute sets |
| Merge engine | `pfcp/mergemessage.go` | the stored IE tree (changed in place) | `MergeIes`: insert, replace, update (recursive) and delete of IEs |
| UDP server | `udpserver/udpservice.go` | `registeredPeers`, per-peer Send/Receive channels, `EventChannel` | receive loop, send loop, `sendWorker`, `Register`, `Unregister`, `Recirculate` |
| Reliable transport | `transport/*.go` | `Requestor.inFlight` (seq → reply channel), `nextSequenceNumber`; `Responder.inFlight` (seq → cached reply) | `enterRequest` plus one retry goroutine per request, `handleResponse`, `handleRequest`, `enterResponse`, `runLower` |
| Association state machine | `endpoint/pfcpfsm.go` | `PeerName`, `peerRecoveryTime` | a runner goroutine draining `RequestChan`, with one handler per request type |
| Session store | `session/statestore.go` | local SEID → (peer SEID, IE tree) | `Insert`, `Modify`, `Retrieve`, `Remove` |
| Applications | `cmd/upf`, `cmd/sgwpgw`, `session/application.go` | their own session maps | `CallbackSessionEstablishmentRequest`, `CallbackSessionDeletionRequest` |
| SGW/PGW aggregator | `cmd/sgwpgw/*.go` | `CommonState`: key → (SGW half, PGW half, UPF session object); SEID maps per role | merge the two halves of a UE session and drive one UPF session through the SMF library |
| SMF library | `smf/smf.go` | the SMF's next SEID, its sessions | `CreateAssociation`, `CreateSession`, `Modify`, `Delete` |
| Commands | `cmd/upf`, `cmd/sgwpgw`, `cmd/smf`, `cmd/smf2`, `cmd/codegen` | event loops | one association per new peer; SMF test drivers; code generation |

How they interact:
- The UDP server reads a datagram. A datagram from a registered peer goes to
  that peer's transport (`runLower`). A datagram from a new source becomes an
  event on `EventChannel`; the command's event loop registers the peer,
  recirculates the datagram and starts an association.
- `runLower` parses the datagram. A response completes a waiting
  `BlockingRequest`. A new request is recorded in the Responder and handed,
  over an unbuffered channel, to the association runner.
- The runner calls a handler. The handler changes the session store and calls
  the application. The runner answers through `EnterResponse`, which caches
  the serialised reply for retransmissions.
- In `cmd/sgwpgw`, two associations (one to the SGW-C, one to the PGW-C) feed
  one `CommonState`. It creates, modifies and deletes sessions at a UPF
  through the SMF library, and so through a third transport.

What makes the code hard:
- Goroutines share the transport tables under a mutex, but make blocking
  channel sends between lock sections.
- Retries race late replies; UDP duplicates, loses and reorders.
- A restarted peer reuses sequence numbers that the Responder cache never forgets.
- Event loops block on one peer while others keep sending.
- `CommonState` reads, unlocks, makes a blocking SMF request and writes
  back.
- Lengths and counters are fixed-width integers.

## Modules

Each `MC*.tla` module gives the constants of one module their values for TLC.

### Transport.tla (MCTransport.tla), RequestResponse.tla

This module covers the Requestor of one endpoint and the Responder of its
peer, with a network between them.

**State**
- The network is two sets of datagrams. Loss is an action, and reordering
  comes from the sets.
- Every goroutine is a program counter:
  - `callerPc` is the `BlockingRequest` caller;
  - `retryPc`/`retryN` are the retry goroutine of `enterRequest` and its
    counter;
  - `cDisp` is the local `runLower` in `handleResponse`;
  - `sDisp` is the remote `runLower` in `handleRequest`;
  - `runner` is the remote consumer, which calls `EnterResponse`.

**Steps**
- A step is what the code does between two blocking points or lock sections.
  `handleResponse` is therefore three steps: the blocking send (line 98), the
  unlocked `replyChannel = nil` (line 99) and the locked re-insert.
- Unbuffered channel sends are rendezvous.
- `Wire(k) = k % 2^SeqBits` is `writeBE24`. The table key is the full counter.

**Peer restart**
- `PeerRestart` crashes the local endpoint. The callers' calls end, the
  Requestor table is lost, and a new `getSeqStart()` is drawn from
  `SeqStarts`.
- With `FreshStarts` the new start misses every number used before. Without
  it, the start may repeat one.

**Refinement**
- `RequestResponse.tla` is the service the transport promises. A call returns
  once, with its own reply or a timeout. A request is handled at most once. A
  reply exists only for a handled request.
- `Transport` is shown to implement it through `INSTANCE RequestResponse WITH`
  a mapping from `callerPc`, `result` and `surfaced`.

### Association.tla (MCAssociation.tla)

This module covers the UPF's association runner, its handlers, the
`SessionStateStore` and an application.

**State**
- `peerName` and `peerRecoveryTime`.
- `store`: local SEID → peer SEID.
- `appSessions`: what the application accepted.
- `SeidCopyMode`, chosen in `Init`, covers both builds.

**The SMF**
- It sends one request at a time, of any type, header SEID and F-SEID.
- The content of a request is `"ok"` or `"bad"`. Bad means that a Node ID,
  Recovery Time Stamp or F-SEID does not decode, or that `MergeIes` fails.

**Actions**
- Each handler is one action. It includes its store calls, the application
  callback and the reply.
- `Dropped` is `runLower` rejecting a type that the message tables do not
  list.

### Merge.tla (MCMerge.tla)

This module covers the Session Modification pipeline on the IE list stored
for one session. `readIes` reads the tree, `Validate` checks it against the
attribute sets and fills in each group's `IeID`, and `MergeIes` applies it.

**Representation**
- An IE is a record: type, `IeID`, bytes and children.
- The attribute sets are those of `groupieattributes.go`.
- `MergeIes` is a `RECURSIVE` operator, and so is the update of a group.

**State**
- The stored list is changed by establishment, modification (a sequence of
  up to `MaxModLen` create, update and remove entries) and deletion.

### IeCodec.tla (MCIeCodec.tla)

This module covers the wire codec, byte by byte, driven by `runLower`.

**Representation**
- A datagram is a sequence of bytes.
- `uint16` arithmetic is taken modulo 2^16, as Go computes it.

**Codec operators**
- `ReadIe`/`ReadIes` (recursive into groups) and `SerialiseIes` are the TLV
  tree code of `ie.go`.
- `ParsePFCPHeader` and `HeaderSerialise` are the header code.
- `NewIeNode`/`NewGroupNode` and the `IE_*` constructors are `ie.go` and
  `encode.go`. The `Encode*` operators are the typed encoders of
  `encode_types.go`, including APN/FQDN, Node ID, Apply Action, Gate Status
  and the 40-bit bit rates.
- The `Get*` operators are the decoders of `ieshow.go`. Those decoders panic
  on unsupported forms, and the model gives those forms a `"panic"` result.
- `GetByTc`, `GetById` and `GetPath` are the Get chain of `getters.go`.
  `GetById` matches the IeID that validation stored in a group.
- `Deserialise` covers the Get readers of `deserialise.go`: cause, `uint32`,
  F-SEID, F-TEID, outer header, UE address, Node ID (`showNodeIdString`,
  `showFQNString`), `ParseID` and the source interface. `Inner()` panics
  after a failed lookup, and the model gives that a `"panic"` result too.
- `ValidateAttributeSet`, `ValidateIe` and `Validate` are `validate.go` and
  `PfcpMessage.Validate`. They reject unallowed or duplicated types,
  missing required types and a missing ID. They call `ParseID` on every
  ID IE, and `deserialiseUint` panics on lengths other than 0, 1, 2, 4
  and 8.
- MCIeCodec gives the attribute tables of `groupieattributes.go` in full.
- The rule builders of `pfcp/builder/genreq.go` (`DecapPdr`, `TunnelFar`,
  `BufferFar`, ...) are operators too. MCIeCodec builds with them every
  request of `cmd/smf2/sessions.go` and `cmd/smf/sgwpgwreq.go`, the way
  `baseSER`, `Session.Modify` and `genericSER` wrap them.
- `RulesReferToCreatedFars` checks one more thing of each parsed
  establishment: every Create FAR carries a distinct ID, and every FAR ID
  a Create PDR names is the ID of a Create FAR. Validate checks neither.
  codec_ok checks it over every establishment the emulators build except
  `sgwPartialSER`, which breaks it (see Findings).

**Steps**
- `ReceiveFromPeer` and `ReceiveStray` hand `runLower` a datagram.
- `Parse` is `ParseValidate`, including `Validate`. A panic there sets `crashed`,
  because `runLower` has no `recover`.
- `Dispatch` hands the message on. Merge and Transport model what happens to
  it next.
- `UpfEstablish` is the other way on for an establishment, when the
  receiver is `cmd/upf`. If `ParseSERSeid` reads the F-SEID, the runner
  calls the UPF application's callback, which runs `ParseUpfSER` and only
  logs its error. A panic there sets `crashed`, because the runner has no
  `recover` either.

**The UPF application**
- `GetByPredicate` returns the first child of the type for which the
  predicate holds. A predicate that panics ends the search with the panic.
  When nothing matches, it returns the node it searched, without an error.
- `PdrHasInterfaceType` is `pdrHasInterfaceType`, which reads through
  `Inner()`.
- `ParseUpfSER` follows `cmd/upf/parse.go` in order: both PDRs, then the
  core FAR ID, the UE address, the core FAR's outer header and the access
  F-TEID. It returns the first error it meets. An F-TEID without an address
  or TEID is refused.
- `ValuesReadBack` reads kind `"upf"` through `ParseUpfSER`.
  `completeUpfSER` (cmd/smf) and `smfSessionCreate` (cmd/smf2) must give
  back the F-TEIDs and UE address they were built with.

### UdpServer.tla (MCUdpServer.tla)

This module covers the UDP server with the `cmd/upf` event loop (`Start`) and
the goroutines that the loop creates for each peer: `runLower`, the
association runner and `sendWorker`.

**State**
- Every goroutine is a program counter, and every channel send is a
  rendezvous.
- Datagrams are `"request"` or `"garbage"`.

**What never happens**
- `Wait()` never returns, because the runner exits only when `RequestChan` is
  closed, and only `Drop` closes it, after `Wait()`.
- So `Drop` and `Unregister` have no action.

### SgwPgw.tla (MCSgwPgw.tla)

This module covers the `cmd/sgwpgw` aggregator.

**Parsing**
- `ParseSgwSER`/`ParsePgwSER` are `parse.go`, over requests abstracted to
  their F-TEIDs and UE address.
- They yield the `CommonStateKey` (uplink, downlink) and the half state.

**State**
- `m` is the CommonState: key → SGW half, PGW half and UPF object.
- `seidMap` holds each role's SEID → key.
- `upf` holds the UPF's sessions, as the SMF library's calls change them.

**Runners**
- Each role's association runner is one goroutine whose `pc` says which
  `CommonState` function it is in.
- `sessionCreate`, `sessionModify` and `sessionDelete` each read under the
  lock (`*Read`), then make the blocking SMF call and write back (`*Call`).
- `CreateFails` lets the UPF refuse a create.
- `Overlap` lets one role's callback start while the other role's runner
  is still inside a `CommonState` call. Without it the two runners take
  turns.

### SmfDriver.tla (MCSmfDriver.tla)

This module covers `cmd/smf2`: `sgw()` and `pgw()` run concurrently against
the two associations of `SgwPgw`.

**Extension**
- It `EXTENDS SgwPgw`.
- It adds each role's script position `step`.

**Script**
- Each step is a request the script sends, as the merged request that the
  association hands to the callback, or a Delete (`-delete`).

**Ordering**
- A role's next request waits for its runner to be idle, because the SMF
  waits for each answer.
- The two roles are not ordered against each other.

## Runs

| Run | cfg | Expect | What it checks |
|---|---|---|---|
| transport_ok | MCTransport.cfg | pass | `ReplyMatchesRequest`, `AtMostOnceSurfaced`, `LiveEntriesHaveListeners`, `CallerReturns`, `ServiceSpec`: over loss, reordering and restarts with fresh starts, each caller gets its own reply or a timeout. A reply channel left in the Requestor table always has a caller waiting on it, or is one step from being cleared, even when `handleResponse` re-inserts an entry the retry goroutine deleted. Retransmissions reach the consumer at most once. Every call returns. Transport refines RequestResponse. |
| transport_orphan | MCTransportOrphan.cfg | violation | `NoOrphanedSend`: a reply arriving just after the retry loop gave up blocks `handleResponse` forever. |
| transport_stale | MCTransportStale.cfg | violation | `ReplyMatchesRequest`: after a restart whose start repeats a number, a new request gets the old incarnation's cached reply. |
| association_ok | MCAssociation.cfg | pass | `StoreTracksApp`, `ReplyCarriesPeerSeid`: over both `SeidCopyMode` builds, the store holds only sessions the application accepted, and every session response carries the SMF SEID of its session. |
| merge_ok | MCMerge.cfg | pass | `NoNilIdDereference`, `MergeIdempotent`: a valid modification never dereferences a nil `IeID`, and re-merging an overwrite-only modification changes nothing. |
| merge_update_pdr | MCMergeUpdatePdr.cfg | violation | `ModificationOfExistingRuleApplied`: an Update PDR fails to merge, and the session is removed. |
| codec_ok | MCIeCodec.cfg | pass | `RoundTrip`, `ValuesReadBack`, `RulesReferToCreatedFars`, `NoPanic`: every message the SMF emulators (except `cmd/smf`'s `sgwPartialSER`), the UPF and `encode_set1.go` build parses back to the same header and IE tree. Its cause, F-SEID, F-TEID, outer header, UE address and IDs read back as encoded, and `cmd/upf`'s `ParseUpfSER` reads the session the SMF built for the UPF. Each of these establishments creates every FAR once, and creates every FAR its PDRs forward to; it does not cover `sgwPartialSER`, the one request that breaks this. Stray datagrams of up to 5 payload bytes are parsed alongside them, and none of it crashes the parser or the UPF's establishment callback. |
| codec_wrap | MCIeCodecWrap.cfg | violation | `NoPanic`: a 12-byte datagram whose IE declares length 0xffff panics `readIe`. A 3-byte PDR ID in a Create PDR panics `ParseID` (isolated by MCIeCodecParseId.cfg). A valid establishment with a Source Interface of 5 or a 3-byte FAR ID in its core PDR panics `cmd/upf`'s `ParseUpfSER` (isolated by MCIeCodecUpf.cfg). |
| udp_one_peer | MCUdpServer.cfg | pass | `RequestsServed`: with one SMF, stray garbage and failing socket calls, every request to a running association is answered unless the socket failed. |
| udp_second_peer | MCUdpServerTwoPeers.cfg | violation | `RequestsServed`: a datagram from a second source blocks `receive()` while `Start` sits in `Wait()`. |
| sgwpgw_ok | MCSgwPgw.cfg | pass | `UpfInSync`, `NoPanic`, `CleanWhenReleased`: with the runners taking turns, UPF sessions track the common state, the encoders never panic, and deleting everything empties the state. The write-back races need the runners to overlap; smf2_delete shows them. |
| smf2_delete | MCSmfDriver.cfg | violation | `CleanWhenReleased`: `cmd/smf2 -delete` can leave the UPF session open after both sessions are deleted. |

Each property of a passing run has a mutant in `PROJECT.json`: a plausible
bug in the mapped code that TLC catches under the run's own configuration.

### Findings (violation runs)

All of them are code bugs:
- **transport_orphan.** `handleResponse` sends on a reply channel without the
  lock. A caller that has already timed out never receives, so the peer's
  `runLower` blocks forever.
- **transport_stale.** Responder entries never expire and carry no
  incarnation. A restarted peer whose random start repeats a number gets the
  old reply.
- **merge_update_pdr.** `Update_PDR` has no `groupIeAttributeSets` entry, so
  it is read as a leaf without an ID. The merge fails, and the session is
  deleted.
- **codec_wrap.** `int(length+4)` is computed in `uint16` (`ie.go:73`).
  Lengths 0xfffc to 0xffff wrap past the check, and the slice panics in
  `runLower`. One datagram from anyone ends the UPF (or SMF) process.
  The same run's strays include a heartbeat whose Create PDR has a 3-byte
  PDR ID. Validation calls `ParseID`, and `deserialiseUint` panics
  (`ie.go:155`). `MCIeCodecParseId.cfg` checks `NoPanic` against that
  datagram alone and finds it violated.
  The strays also include two establishments that pass validation but not
  `cmd/upf`'s `ParseUpfSER`, which runs in the association runner without
  a `recover`. `pdrHasInterfaceType` reads a Source Interface of 5 through
  `DeserialiseEnumInterface`, which panics (`cmd/upf/parse.go:14`). The
  core PDR's 3-byte FAR ID reaches `deserialiseUint` through `ParseID`
  (`parse.go:24`). Validate reads IDs only where they key a group.
  `MCIeCodecUpf.cfg` checks `NoPanic` against these two alone.
- **udp_second_peer.** `Start` blocks in `Wait()` forever. A datagram from
  any second source then blocks `receive()` on the unbuffered `EventChannel`,
  and the first association is no longer served. `cmd/sgwpgw` has the same
  loop.
- **smf2_delete.** `sessionCreate` writes back a copy of `m[k]` it read before
  the blocking create. An SGW deletion in between is undone for the SGW half
  but not for the object, so the PGW deletion removes `m[k]` and
  `sessionDelete` finds nothing to delete at the UPF.

### Observations (no run spent)

These come from modelling or from short TLC runs. They were not kept as runs
because the run budget is spent on the cases above, or because one step
shows them:
- **Sequence numbers.** `nextSequenceNumber` is a `uint32`. `writeBE24`
  sends its low 24 bits, while the Requestor table is keyed by the full
  value. After at most 2^24 requests from the random 24-bit start, no reply
  matches, and every call times out although the peer handles it.
  `MCTransportWrap.cfg` shrinks the field to one bit and starts at 1.
  TLC finds `RepliesRoutable` (defined in MCTransport: every reply for a
  waiting caller can be routed to it) violated by the second request.
  transport_ok stays away from the wrap point, so none of its properties
  covers this.
- **Key-changing SGW modification.** A modification that moves the uplink
  tunnel gets a new key for a SEID that is already mapped. `update()` only
  logs the mismatch and keeps the old mapping, so the half under the new key
  outlives the session. `MCSgwPgwMoved.cfg` reproduces this: `CleanWhenReleased`
  fails in three requests. The design comment at `application.go:68-70`
  says that the state should move to the new key.
- **Re-inserted in-flight entry.** The same unlocked section of
  `handleResponse` that causes the orphaned send also re-inserts an entry
  that the retry goroutine has just deleted, so `inFlight` grows.
  transport_ok's `LiveEntriesHaveListeners` shows that such an entry is
  always the cleared one, which `handleResponse` ignores.
- **Association Release.** The type is in neither `requestMessageTypeCodes`
  nor the response list, so it is dropped and never answered.
- **Merge of an update without a target.** An UPDATE that has no target is
  appended as a base-type IE, although spec section 4.4 says that it fails
  with `MergeTargetMissing`.
- **Value decoders.** `getUeIpAddress` and `getOuterHeaderCreate` panic on
  forms other than IPv4-destination and GTP-U/IPv4. `cmd/sgwpgw` and
  `cmd/upf` call them on received establishments without a `recover`
  (the `cmd/upf` path is in codec_wrap).
- **`cmd/smf`'s SGW establishment.** `BufferFar` always takes the core
  role's FAR ID (`genreq.go:174`). `sgwPartialSER` uses it for both
  roles, so the request creates FAR 2 twice and no FAR 1, although its
  access PDR forwards to FAR 1. `sgwSMR2` then updates FAR 1, which does
  not exist. `MCIeCodecRules.cfg` checks `RulesReferToCreatedFars` against
  this request alone and finds it violated. codec_ok leaves this request
  out and checks every other request the emulators build.
- **Node ID decoding.** `showFQNString` indexes the first byte without a
  length check. A Node ID IE of the single byte 2 (FQDN, no name) passes
  validation and panics `serviceAssociationSetupRequest`
  (`pfcpfsm.go:49`). A name of several labels is returned with the inner
  length bytes left in it. The round trip of a one-label name (the UPF's
  own) reads back correctly.
- **Association checks.** Session requests are served before any Association
  Setup.

## Bounds

**Transport**
- Two requests, so that two callers and their retry goroutines interleave.
- `N1 = 2` attempts: a retransmission and a timeout both happen.
- `SeqBits = 24`. From the starts below, neither the counter nor a key
  comes near 2^24; the wrap is left to `MCTransportWrap.cfg`.
- The starts are `{0, 2}` for fresh restarts. The stale run uses `{0}`, so
  that a restart repeats a number.

**Association**
- Two SMF SEIDs and a random-SEID pool `{2, 3}` that overlaps them.
- One node id and two recovery times.

**Merge**
- Two FARs and one PDR.
- Distinct establishment and modification values, so that every replacement
  is visible.
- Modifications of up to 2 entries and stored lists of up to 3.

**IeCodec**
- Twenty-seven peer messages, covering:
  - the association request and response;
  - both heartbeats;
  - the `cmd/smf2` establishment and a choose-F-TEID establishment;
  - `encode_set1.go`'s establishment, modification and deletion;
  - every request `cmd/smf2` builds, and every request `cmd/smf` builds in
    its three modes except `sgwPartialSER`;
  - the establishment response.
  Between them they cover:
  - both header forms and a priority;
  - groups nested two deep, with ID lookup by `GetById`;
  - an empty basic IE;
  - every value the applications read.
  The 2.56 Gbit/s MBR of `encode_set1.go` is halved, because TLC's integers
  stop at 2^31.
- The strays are every payload of up to 5 bytes over `{0, 1, 2, 128}` under
  both headers, plus short and mismatched headers.
  - Bytes 1 and 2 make the group types Create PDR and PDI, so recursion
    happens.
  - Byte 128 makes vendor type codes and lengths past the buffer.
- The wrap run swaps 128 for 255, which makes lengths of 0xff00 and above.
  It adds one heartbeat with a malformed PDR ID, and the two establishments
  that `ParseUpfSER` panics on.
- TEIDs stay below 2^31, TLC's integer bound.

**UdpServer**
- One peer, up to 4 sends, and socket errors on.
- The second-peer run has two peers and 3 sends.

**SgwPgw**
- Two SGW SEIDs and one PGW SEID for one UE.
- Requests that carry each half or miss one, a buffering request (no
  downlink F-TEID) and a handover request.
- `MaxSessions = 3` SMF SEIDs.
- UPF creates that may fail.

**SmfDriver**
- `smf2`'s own scripts: a create, its repeat, two handover modifications
  and a delete for the SGW; a create and a delete for the PGW.

## Fairness and deadlock

- **Transport.** Weak fairness holds for every goroutine step: retry, dispatch
  and the remote consumer. Callers and the network get no fairness, so
  `CallerReturns` holds even if every datagram is lost. Deadlock checking is
  off, because once the finite workload ends every goroutine blocks on a
  receive, which is the code's idle state. The real blocking hazard is an
  invariant (`NoOrphanedSend`).
- **Association.** The runner has weak fairness, and deadlock checking is on.
- **UdpServer.** Every goroutine step of the server, the event loop and the
  per-peer goroutines has weak fairness. The senders get none. Deadlock
  checking is off, because the server idles blocked on the socket.
- **SgwPgw and SmfDriver.** Each role's runner has weak fairness (`WF` of its
  steps), as the Go scheduler runs a runnable goroutine.
- **Merge and IeCodec.** These check safety only.

## Not modelled

- **Association Drop.** `Drop()` racing `handleRequest` on a closed channel:
  `Drop` is unreachable from `Start` (see UdpServer).
- **SMF restart.** A restart seen in the heartbeat's recovery time is only
  logged. An SMF restart action in Association is the next step.
- **Lost UPF deletions in `cmd/sgwpgw`.** The model's UPF always applies a
  Delete. `sessionDelete` ignores a Delete error, and showing that would need
  the Transport loss model composed under SgwPgw.
- **`cmd/smf`.** Its flow (associate, establish, modify, delete) is the
  library's, covered by SmfDriver's shape. Its error check in `startEndpoint`
  tests the wrong `err`, so a failed establishment proceeds with SEID 0.
- **Left out on purpose.**
  - Formatting (`ieshow.go` show functions, `iedump.go`) and logging.
  - `peerStartTime`.
  - The code generator (`cmd/codegen`), which writes source at build time.
  - The pcap and address utilities and the demo in `session/session.go`,
    which are I/O. Only a test calls that file's `ParseUpfSER`. It reads
    through `Inner()`, as the `NoPanic` mutant `OuterHeaderOfInner` does.
