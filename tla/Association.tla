---------------------------- MODULE Association ----------------------------
(***************************************************************************)
(* The PFCP association state machine of src/endpoint/pfcpfsm.go as the    *)
(* UPF side runs it: the single runner goroutine draining the request      *)
(* channel, its handlers for association setup, heartbeat and the session  *)
(* life cycle, the SessionStateStore of src/session/statestore.go and the  *)
(* Application callbacks.  The transport below it is taken to hand each    *)
(* request up at most once (checked in Transport); what it hands up is     *)
(* decided by runLower: requestMessageTypeCodes and the validator's        *)
(* MessageIeAttributeSets.  The SMF peer sends one request at a time, of   *)
(* any type and with any header SEID, so stale and reused SEIDs occur.     *)
(*                                                                         *)
(* IE trees are abstracted to whether their content parses ("ok") or not  *)
(* ("bad"): a bad Association Setup or Heartbeat lacks a decodable Node ID *)
(* or Recovery Time Stamp, a bad Establishment a decodable F-SEID, a bad  *)
(* Modification is one MergeIes rejects.                                   *)
(***************************************************************************)
EXTENDS Naturals, FiniteSets, Functions, TLC

CONSTANTS
    PeerSeids,     \* SEIDs the SMF assigns (F-SEID of its establishment requests)
    SeidPool,      \* values nextSeid() may draw when SeidCopyMode is off
    NodeIds,       \* node ids the SMF may announce
    RecoveryTimes, \* recovery time stamps the SMF may announce
    AppCause,      \* the cause an Application callback returns with its error
    AppRejects,    \* whether the Application callbacks may return an error
    NoName,        \* PeerName before any Association Setup
    NoResponse,    \* marks a request the UPF dropped without answering
    None

ASSUME AppRejects \in BOOLEAN

\* Message type codes (pfcp/messagetypes.go).
Heartbeat == "Heartbeat"
AssociationSetup == "AssociationSetup"
AssociationRelease == "AssociationRelease"
SessionEstablishment == "SessionEstablishment"
SessionModification == "SessionModification"
SessionDeletion == "SessionDeletion"
PeerRequestTypes == {Heartbeat, AssociationSetup, AssociationRelease,
                     SessionEstablishment, SessionModification, SessionDeletion}

\* requestMessageTypeCodes: what runLower classifies as a request.
RequestMessageTypeCodes ==
    {Heartbeat, AssociationSetup, SessionEstablishment, SessionModification,
     SessionDeletion, "SessionReport"}

\* Request types with an entry in MessageIeAttributeSets, without which
\* Validate fails and ParseValidate rejects the message.
ValidatedRequestTypes ==
    {Heartbeat, AssociationSetup, SessionEstablishment, SessionModification,
     SessionDeletion, "SessionReport"}

\* Cause values (pfcp): Accepted, Unspecified, SessionContextNotFound.
Accepted == "Accepted"
Unspecified == "Unspecified"
SessionContextNotFound == "SessionContextNotFound"
Causes == {Accepted, Unspecified, SessionContextNotFound, AppCause}

LocalSeids == PeerSeids \cup SeidPool
HeaderSeids == LocalSeids \cup {0}

Request == [type : PeerRequestTypes, seid : HeaderSeids, content : {"ok", "bad"},
            nodeId : NodeIds, ts : RecoveryTimes, fseid : PeerSeids]
Response == [type : PeerRequestTypes, seid : HeaderSeids, cause : Causes,
             fseid : LocalSeids \cup {None}]

VARIABLES
    peerName,         \* PfcpAssociationState.PeerName
    peerRecoveryTime, \* PfcpAssociationState.peerRecoveryTime
    store,            \* SessionStateStore.sessions: local SEID -> peer SEID
    appSessions,      \* sessions the Application holds: accepted, not yet deleted
    inbox,            \* the request the SMF has sent and the UPF not yet handled
    outbox,           \* the UPF's response to it, or NoResponse if it was dropped
    established,      \* history: <<peer SEID, local SEID>> of accepted establishments
    SeidCopyMode      \* session.SeidCopyMode: fixed for a build (TRUE in the code)

vars == <<peerName, peerRecoveryTime, store, appSessions, inbox, outbox, established,
          SeidCopyMode>>

\* The local SEIDs Insert can hand out: the peer's own in copy mode.
SessionSeids == IF SeidCopyMode THEN PeerSeids ELSE LocalSeids

TypeOK ==
    /\ peerName \in NodeIds \cup {NoName}
    /\ peerRecoveryTime \in RecoveryTimes \cup {0}
    /\ DOMAIN store \subseteq SessionSeids
    /\ \A l \in DOMAIN store : store[l] \in LocalSeids
    /\ appSessions \subseteq SessionSeids
    /\ inbox \in Request \cup {None}
    /\ outbox \in Response \cup {NoResponse, None}
    /\ established \subseteq PeerSeids \X LocalSeids
    /\ SeidCopyMode \in BOOLEAN

Init ==
    /\ peerName = NoName
    /\ peerRecoveryTime = 0
    /\ store = << >>
    /\ appSessions = {}
    /\ inbox = None
    /\ outbox = None
    /\ established = {}
    \* A behaviour runs one build: the shipped one (copy mode) or the other.
    /\ SeidCopyMode \in BOOLEAN

-----------------------------------------------------------------------------
(* SessionStateStore.                                                      *)

\* Mutant: Remove leaves the entry in place.
RemoveNoop(l) == store

\* Remove(upfSeid): delete the entry.
Remove(l) == Restrict(store, DOMAIN store \ {l})

\* Modify(upfSeid, element): replace the payload, keep the stored peer SEID.
Modify(l) == [store EXCEPT ![l] = store[l]]

\* nextSeid(): a random SEID, drawn again while it is already in use.
NextSeids == SeidPool \ DOMAIN store

\* Mutant: Insert ignores SeidCopyMode and keeps its nextSeid().
InsertSeidsNoCopy(p) == NextSeids

\* Insert: the local SEID is the peer's in copy mode (an existing entry is
\* overwritten, only logged), else a nextSeid() not in the store.
InsertSeids(p) == IF SeidCopyMode THEN {p} ELSE NextSeids

-----------------------------------------------------------------------------
(* The SMF peer.                                                           *)

\* Bound: without copy mode the SMF opens no more sessions than SeidPool
\* offers local SEIDs (nextSeid() itself never runs out).
SeidPoolBound(m) ==
    m.type = SessionEstablishment /\ ~SeidCopyMode
        => Cardinality(DOMAIN store) < Cardinality(SeidPool)

\* smf.doRequest: one BlockingRequest at a time.
PeerSend ==
    /\ inbox = None /\ outbox = None
    /\ \E m \in Request : SeidPoolBound(m) /\ inbox' = m
    /\ UNCHANGED <<peerName, peerRecoveryTime, store, appSessions, outbox, established>>

\* The BlockingRequest returns: with the response, or with a timeout when
\* the request was dropped.
PeerReceive ==
    /\ outbox # None
    /\ outbox' = None
    /\ UNCHANGED <<peerName, peerRecoveryTime, store, appSessions, inbox, established>>

-----------------------------------------------------------------------------
(* runLower: ParseValidate and the request/response classification.        *)

\* A request type missing from either table is logged and dropped; the
\* peer's retransmissions meet the same fate.
Dropped ==
    /\ inbox # None
    /\ inbox.type \notin RequestMessageTypeCodes \cap ValidatedRequestTypes
    /\ inbox' = None
    /\ outbox' = NoResponse
    /\ UNCHANGED <<peerName, peerRecoveryTime, store, appSessions, established>>

\* A request that reaches the runner goroutine.
Routed == inbox # None /\ inbox.type \in RequestMessageTypeCodes \cap ValidatedRequestTypes

\* Mutant: the response header carries the SEID the request header carried.
ReplyHeaderSeid(cause, seid, fseid) ==
    outbox' = [type |-> inbox.type, seid |-> IF seid = 0 THEN 0 ELSE inbox.seid,
               cause |-> cause, fseid |-> fseid]

\* NewSessionMessage(type, seid, ies) passed to EnterResponse.
Reply(cause, seid, fseid) ==
    outbox' = [type |-> inbox.type, seid |-> seid, cause |-> cause, fseid |-> fseid]

-----------------------------------------------------------------------------
(* The runner's handlers, each followed by EnterResponse.                  *)

\* serviceAssociationSetupRequest: record node id and recovery time stamp.
ServiceAssociationSetupRequest ==
    /\ Routed /\ inbox.type = AssociationSetup
    /\ \/ /\ inbox.content = "ok"
          /\ peerName' = inbox.nodeId
          /\ peerRecoveryTime' = inbox.ts
          /\ Reply(Accepted, 0, None)
       \/ /\ inbox.content = "bad"
          /\ Reply(Unspecified, 0, None)
          /\ UNCHANGED <<peerName, peerRecoveryTime>>
    /\ inbox' = None
    /\ UNCHANGED <<store, appSessions, established>>

\* serviceHeartbeatRequest: a changed peer recovery time stamp is only logged.
ServiceHeartbeatRequest ==
    /\ Routed /\ inbox.type = Heartbeat
    /\ Reply(IF inbox.content = "ok" THEN Accepted ELSE Unspecified, 0, None)
    /\ inbox' = None
    /\ UNCHANGED <<peerName, peerRecoveryTime, store, appSessions, established>>

\* serviceSessionEstablishmentRequest: insert before the callback (which
\* needs the local SEID); remove again if the Application rejects.
ServiceSessionEstablishmentRequest ==
    /\ Routed /\ inbox.type = SessionEstablishment
    /\ \/ /\ inbox.content = "bad"
          /\ Reply(Unspecified, 0, None)
          /\ UNCHANGED <<store, appSessions, established>>
       \/ /\ inbox.content = "ok"
          /\ \E l \in InsertSeids(inbox.fseid) :
                \/ /\ store' = (l :> inbox.fseid) @@ store
                   /\ appSessions' = appSessions \cup {l}
                   /\ established' = established \cup {<<inbox.fseid, l>>}
                   /\ Reply(Accepted, inbox.fseid, l)
                \/ /\ AppRejects
                   /\ store' = Remove(l)
                   /\ Reply(AppCause, inbox.fseid, None)
                   /\ UNCHANGED <<appSessions, established>>
    /\ inbox' = None
    /\ UNCHANGED <<peerName, peerRecoveryTime>>

\* serviceSessionModificationRequest: look the header SEID up, merge into
\* the stored request, offer the result to the Application again.  A merge
\* error or a rejection removes the session.
ServiceSessionModificationRequest ==
    /\ Routed /\ inbox.type = SessionModification
    /\ LET l == inbox.seid IN
       \/ /\ l \notin DOMAIN store
          /\ Reply(SessionContextNotFound, 0, None)
          /\ UNCHANGED store
       \/ /\ l \in DOMAIN store
          /\ inbox.content = "bad"
          /\ store' = Remove(l)
          /\ Reply(Unspecified, store[l], None)
       \/ /\ l \in DOMAIN store
          /\ inbox.content = "ok"
          /\ \/ /\ AppRejects
                /\ store' = Remove(l)
                /\ Reply(AppCause, store[l], None)
             \/ /\ store' = Modify(l)
                /\ Reply(Accepted, store[l], None)
    /\ inbox' = None
    /\ UNCHANGED <<peerName, peerRecoveryTime, appSessions, established>>

\* serviceSessionDeletionRequest: remove first, then tell the Application;
\* its error only changes the cause.
ServiceSessionDeletionRequest ==
    /\ Routed /\ inbox.type = SessionDeletion
    /\ LET l == inbox.seid IN
       \/ /\ l \notin DOMAIN store
          /\ Reply(Unspecified, 0, None)
          /\ UNCHANGED <<store, appSessions>>
       \/ /\ l \in DOMAIN store
          /\ store' = Remove(l)
          /\ \/ /\ appSessions' = appSessions \ {l}
                /\ Reply(Accepted, store[l], None)
             \/ /\ AppRejects
                /\ Reply(AppCause, store[l], None)
                /\ UNCHANGED appSessions
    /\ inbox' = None
    /\ UNCHANGED <<peerName, peerRecoveryTime, established>>

\* serviceAssociationReleaseRequest (an empty response) has no action: the
\* runner's case for it is unreachable because runLower drops the type.
Runner ==
    \/ ServiceAssociationSetupRequest
    \/ ServiceHeartbeatRequest
    \/ ServiceSessionEstablishmentRequest
    \/ ServiceSessionModificationRequest
    \/ ServiceSessionDeletionRequest

Next == (PeerSend \/ PeerReceive \/ Dropped \/ Runner) /\ UNCHANGED SeidCopyMode

Spec == Init /\ [][Next]_vars /\ WF_vars(Runner \/ Dropped)

-----------------------------------------------------------------------------
(* Properties.                                                             *)

\* Every session in the store is one the Application holds: the store never
\* keeps a session whose establishment callback failed (the Remove after a
\* rejected CallbackSessionEstablishmentRequest), so a later Session
\* Deletion Request only calls CallbackSessionDeletionRequest for a session
\* the Application accepted and has not been told to delete.
StoreTracksApp == DOMAIN store \subseteq appSessions

\* Every session response the runner sends carries in its header the SEID
\* the SMF assigned to that session: the F-SEID of the establishment request
\* that created the local SEID named by the request header (the peer SEID
\* the store keeps through Insert, Modify and Remove).
ReplyCarriesPeerSeid ==
    [][ /\ inbox # None
        /\ inbox.type \in {SessionModification, SessionDeletion}
        /\ outbox' \in Response
        /\ outbox'.seid # 0
        => <<outbox'.seid, inbox.seid>> \in established ]_vars

=============================================================================
