------------------------------- MODULE SgwPgw -------------------------------
(***************************************************************************)
(* The SGW/PGW aggregator of src/cmd/sgwpgw: two association runners (one  *)
(* per role, StartXgwU) call the SgwPgwApplication callbacks, which feed   *)
(* the CommonState of session.go; CommonState drives UPF sessions through  *)
(* the SMF library (smf/smf.go) behind XgwSessionService.                  *)
(*                                                                         *)
(* A UE session is a key shared by one SGW and one PGW half session.  The  *)
(* half sessions' SEIDs are named by their key (ParseXgwSER always yields  *)
(* the same CommonStateKey for a SEID, or none); a half is a value, or Nil *)
(* when the parser returns a key but no half state (the typed-nil pointer  *)
(* update() stores).  The sgwSeid/pgwSeid fields of a CommonStateValue    *)
(* only feed Differs() and logging and are left out.                       *)
(*                                                                         *)
(* Each role's runner is one goroutine: its pc says which CommonState      *)
(* function it is in.  A lock section is one step; the blocking SMF        *)
(* requests that sessionCreate/sessionDelete/sessionModify make between    *)
(* two lock sections are the steps after the read.                        *)
(***************************************************************************)
EXTENDS Naturals, FiniteSets, Functions, TLC

CONSTANTS
    SgwSeids,      \* local SEIDs of the SGW association's sessions
    PgwSeids,      \* local SEIDs of the PGW association's sessions
    SgwSers,       \* merged SGW session requests (see ParseSgwSER)
    PgwSers,       \* merged PGW session requests (see ParsePgwSER)
    MaxSessions,   \* bound: SMF SEIDs that can be in use at once
    CreateFails,   \* whether CreateSession may return an error
    Overlap,       \* whether the two runners' callbacks may overlap
    Absent,        \* an F-TEID or UE address IE missing or not decodable
    NoFarId,       \* a PDR without a FAR ID
    SpFteidNull,   \* spFteidNull: the placeholder core FAR of a buffering SGW
    Nil, NoObj, FailedObj

ASSUME CreateFails \in BOOLEAN /\ Overlap \in BOOLEAN

Roles == {"sgw", "pgw"}
Seids == [r \in Roles |-> IF r = "sgw" THEN SgwSeids ELSE PgwSeids]

-----------------------------------------------------------------------------
(* The parsers.  A merged SGW request is abstracted to the F-TEIDs of its  *)
(* access and core PDR and FAR: [access |-> [pdr, far], core |-> [pdr,     *)
(* far]], an F-TEID being a value or Absent (coerce failing counts as      *)
(* Absent) and a FAR NoFarId when the PDR names none.  A merged PGW        *)
(* request is [ueIp, coreFar, accessPdr].  The key is the pair of tunnels  *)
(* both gateways see: uplink and downlink.                                 *)

\* ParseSgwSER: getPdrFar per interface; no FAR ID means neither F-TEID.
ParseSgwSER(ser) ==
    LET PdrFar(x) == IF ser[x].far = NoFarId THEN [pdr |-> Absent, far |-> Absent]
                                            ELSE ser[x]
        access == PdrFar("access")
        core == PdrFar("core")
    IN [key  |-> IF access.far # Absent /\ core.pdr # Absent
                 THEN [uplink |-> access.far, downlink |-> core.pdr] ELSE Nil,
        half |-> IF access.pdr # Absent
                 THEN [accessPdr |-> access.pdr,
                       coreFar |-> IF core.far # Absent THEN core.far ELSE SpFteidNull]
                 ELSE Nil]

\* ParsePgwSER: the UE address of the core PDR is the half; the key needs
\* both the core FAR's outer header and the access PDR's F-TEID.
ParsePgwSER(ser) ==
    [key  |-> IF ser.coreFar # Absent /\ ser.accessPdr # Absent
              THEN [uplink |-> ser.accessPdr, downlink |-> ser.coreFar] ELSE Nil,
     half |-> IF ser.ueIp # Absent THEN ser.ueIp ELSE Nil]

Parse(r, ser) == IF r = "sgw" THEN ParseSgwSER(ser) ELSE ParsePgwSER(ser)
Sers == [r \in Roles |-> IF r = "sgw" THEN SgwSers ELSE PgwSers]

\* CommonStateKeys and the half-session values the requests can yield.
Keys == ({ParseSgwSER(ser).key : ser \in SgwSers} \cup {ParsePgwSER(ser).key : ser \in PgwSers}) \ {Nil}
SgwHalves == {ParseSgwSER(ser).half : ser \in SgwSers} \ {Nil}
PgwHalves == {ParsePgwSER(ser).half : ser \in PgwSers} \ {Nil}

\* SMF local SEIDs.  baseSER increments nextSeid before each establishment,
\* so a new session's SEID is one no session uses; only equality between
\* SEIDs matters, so the model reuses SEIDs no longer referenced.
SmfSeids == 1..MaxSessions

\* A SessionObject: none, an XgwSessionObject with a live smf.Session
\* (named by its SMF SEID), or one with a nil Session (create failed).
Objs == SmfSeids \cup {NoObj, FailedObj}

\* CommonStateValue: the two halves and the SessionObject.
Csv == [sgw : SgwHalves \cup {Nil}, pgw : PgwHalves \cup {Nil}, obj : Objs]
EmptyCsv == [sgw |-> Nil, pgw |-> Nil, obj |-> NoObj]

Complete(csv) == csv.sgw # Nil /\ csv.pgw # Nil

VARIABLES
    sessions, \* per role: the SEIDs of the sessions its association holds
    seidMap,  \* sgwSeidMap / pgwSeidMap: SEID -> CommonStateKey
    m,        \* CommonState.m: key -> CommonStateValue
    pc,       \* per role: where its runner is in CommonState
    ev,       \* per role: sessionEvent's key, oldCsv and newCsv
    rd,       \* per role: the csv sessionCreate/Delete/Modify read
    upf,      \* the UPF's sessions: SMF SEID -> [sgw, pgw] it was given
    crashed   \* a panic in encodeSer/encodeSmr ended the process

vars == <<sessions, seidMap, m, pc, ev, rd, upf, crashed>>

Pcs == {"idle", "create", "createCall", "delete", "deleteCall",
        "modify", "modifyCall"}

TypeOK ==
    /\ \A r \in Roles : sessions[r] \subseteq Seids[r]
    /\ \A r \in Roles : DOMAIN seidMap[r] \subseteq Seids[r]
                         /\ \A x \in DOMAIN seidMap[r] : seidMap[r][x] \in Keys
    /\ DOMAIN m \subseteq Keys /\ \A k \in DOMAIN m : m[k] \in Csv
    /\ pc \in [Roles -> Pcs]
    /\ ev \in [Roles -> [key : Keys \cup {Nil}, old : Csv, new : Csv]]
    /\ rd \in [Roles -> Csv]
    /\ DOMAIN upf \subseteq SmfSeids
    /\ \A u \in DOMAIN upf : upf[u] \in [sgw : SgwHalves, pgw : PgwHalves]
    /\ crashed \in BOOLEAN

NoEvent == [key |-> Nil, old |-> EmptyCsv, new |-> EmptyCsv]

Init ==
    /\ sessions = [r \in Roles |-> {}]
    /\ seidMap = [r \in Roles |-> << >>]
    /\ m = << >>
    /\ pc = [r \in Roles |-> "idle"]
    /\ ev = [r \in Roles |-> NoEvent]
    /\ rd = [r \in Roles |-> EmptyCsv]
    /\ upf = << >>
    /\ crashed = FALSE

-----------------------------------------------------------------------------
(* Helpers.                                                                *)

Lookup(k) == IF k \in DOMAIN m THEN m[k] ELSE EmptyCsv

\* SMF SEIDs referenced by the UPF, the common state or a runner's copy.
UsedSeids ==
    DOMAIN upf \cup {m[k].obj : k \in DOMAIN m} \cup {rd[r].obj : r \in Roles}

\* baseSER: nextSeid += 1.
BaseSER == CHOOSE id \in SmfSeids \ UsedSeids : TRUE

\* A callback may start: the role's runner is idle, the process is alive,
\* and (without Overlap) the other runner is idle too.
MayStart(r) ==
    /\ ~crashed
    /\ pc[r] = "idle"
    /\ Overlap \/ \A o \in Roles : pc[o] = "idle"

\* Mutant: a csv with an object and a half gone is modified, not deleted.
SessionEventNoComplete(r, k, old, new) ==
    /\ pc' = [pc EXCEPT ![r] =
                IF old.obj = NoObj THEN (IF Complete(new) THEN "create" ELSE "idle")
                ELSE "modify"]
    /\ ev' = [ev EXCEPT ![r] = [key |-> k, old |-> old, new |-> new]]

\* sessionEvent: what the transition from oldCsv to newCsv requires.
SessionEvent(r, k, old, new) ==
    /\ pc' = [pc EXCEPT ![r] =
                IF old.obj = NoObj THEN (IF Complete(new) THEN "create" ELSE "idle")
                ELSE IF Complete(new) THEN "modify" ELSE "delete"]
    /\ ev' = [ev EXCEPT ![r] = [key |-> k, old |-> old, new |-> new]]

-----------------------------------------------------------------------------
(* The application callbacks and CommonState.update / remove.              *)

\* Mutant: the SEID is never entered in the role's SEID map.
UpdateNoSeidMap(r, x, k, h) ==
    LET old == Lookup(k)
        new == [old EXCEPT ![r] = h]
    IN /\ seidMap' = seidMap
       /\ m' = (k :> new) @@ m
       /\ SessionEvent(r, k, old, new)

\* update(): under the lock, map the SEID to the key unless it maps to one
\* already (a different key is only logged), store the half in m[key] (a
\* new csv if there was none); then sessionEvent on the old and new csv.
Update(r, x, k, h) ==
    LET old == Lookup(k)
        new == [old EXCEPT ![r] = h]
    IN /\ seidMap' = [seidMap EXCEPT ![r] = IF x \in DOMAIN @ THEN @ ELSE (x :> k) @@ @]
       /\ m' = (k :> new) @@ m
       /\ SessionEvent(r, k, old, new)

\* Mutant: the type switch stores a half under the other role.
CallbackSessionEstablishmentRequestSwapped(r, x, ser) ==
    /\ MayStart(r)
    /\ sessions' = [sessions EXCEPT ![r] = @ \cup {x}]
    /\ LET p == Parse(r, ser)
           o == CHOOSE o \in Roles : o # r
       IN IF p.key # Nil
          THEN /\ seidMap' = [seidMap EXCEPT ![r] = IF x \in DOMAIN @ THEN @ ELSE (x :> p.key) @@ @]
               /\ m' = (p.key :> [Lookup(p.key) EXCEPT ![o] = p.half]) @@ m
               /\ SessionEvent(r, p.key, Lookup(p.key), [Lookup(p.key) EXCEPT ![o] = p.half])
          ELSE UNCHANGED <<seidMap, m, pc, ev>>
    /\ UNCHANGED <<rd, upf, crashed>>

\* CallbackSessionEstablishmentRequest, called by the association for a new
\* session (SER) and with the merged request for a modified one (SMR):
\* ParseXgwSER, and update() when it yields a key.
CallbackSessionEstablishmentRequest(r, x, ser) ==
    /\ MayStart(r)
    /\ sessions' = [sessions EXCEPT ![r] = @ \cup {x}]
    /\ LET p == Parse(r, ser) IN
         IF p.key # Nil THEN Update(r, x, p.key, p.half)
                        ELSE UNCHANGED <<seidMap, m, pc, ev>>
    /\ UNCHANGED <<rd, upf, crashed>>

\* CallbackSessionDeletionRequest for a session of the association:
\* remove() logs if the SEID has no key; otherwise it drops the SEID and,
\* if m[key] exists, clears the role's half, deleting m[key] once both
\* halves are gone; then sessionEvent.
CallbackSessionDeletionRequest(r, x) ==
    /\ MayStart(r)
    /\ x \in sessions[r]
    /\ sessions' = [sessions EXCEPT ![r] = @ \ {x}]
    /\ IF x \in DOMAIN seidMap[r] /\ seidMap[r][x] \in DOMAIN m
       THEN LET k == seidMap[r][x]
                csv == [m[k] EXCEPT ![r] = Nil]
            IN /\ m' = IF csv.sgw = Nil /\ csv.pgw = Nil
                       THEN Restrict(m, DOMAIN m \ {k})
                       ELSE (k :> csv) @@ m
               /\ SessionEvent(r, k, m[k], csv)
       ELSE UNCHANGED <<m, pc, ev>>
    /\ seidMap' = [seidMap EXCEPT ![r] = Restrict(@, DOMAIN @ \ {x})]
    /\ UNCHANGED <<rd, upf, crashed>>

-----------------------------------------------------------------------------
(* sessionCreate: read m[k] under the lock, then (unlocked) delete a      *)
(* SessionObject already there, create the UPF session from the event's   *)
(* newCsv, and write the csv read before, with the new object, back.      *)

CreateRead(r) ==
    /\ ~crashed
    /\ pc[r] = "create"
    /\ LET k == ev[r].key IN
         IF k \in DOMAIN m
         THEN /\ rd' = [rd EXCEPT ![r] = m[k]]
              /\ pc' = [pc EXCEPT ![r] = "createCall"]
         ELSE /\ pc' = [pc EXCEPT ![r] = "idle"]
              /\ UNCHANGED rd
    /\ UNCHANGED <<sessions, seidMap, m, ev, upf, crashed>>

\* Session.Delete: a Session Deletion Request; the UPF drops the session.
SessionDelete(u, id) == Restrict(u, DOMAIN u \ {id})

\* XgwSessionObject.delete: only an object with a live Session sends one.
DeleteAtUpf(obj) == IF obj \in SmfSeids THEN SessionDelete(upf, obj) ELSE upf

\* encodeSer: the Create PDR/FAR IEs carry both halves.
EncodeSer(csv) == [sgw |-> csv.sgw, pgw |-> csv.pgw]

\* Association.CreateSession: baseSER picks the SEID and the UPF opens the
\* session with the encoded rules (doSessionEstablishmentRequest).
CreateSession(u, id, ies) == (id :> ies) @@ u

\* XgwSessionService.create: the object for the new session, or one with a
\* nil Session when CreateSession returned an error.
Create(ok, id) == IF ok THEN id ELSE FailedObj

\* sessionCreate after the read: delete a SessionObject already there,
\* create (encodeSer panics on a missing half), and write the csv read
\* before back with the new object.
CreateCall(r, ok) ==
    /\ ~crashed
    /\ pc[r] = "createCall"
    /\ ok \/ CreateFails
    /\ SmfSeids \ UsedSeids # {}
    /\ LET k == ev[r].key
           new == ev[r].new
           id == BaseSER
           kept == DeleteAtUpf(rd[r].obj)
       IN IF Complete(new)
          THEN /\ upf' = IF ok THEN CreateSession(kept, id, EncodeSer(new)) ELSE kept
               /\ m' = (k :> [rd[r] EXCEPT !.obj = Create(ok, id)]) @@ m
               /\ UNCHANGED crashed
          ELSE /\ upf' = kept
               /\ crashed' = TRUE
               /\ UNCHANGED m
    /\ pc' = [pc EXCEPT ![r] = "idle"]
    /\ rd' = [rd EXCEPT ![r] = EmptyCsv]
    /\ UNCHANGED <<sessions, seidMap, ev>>

-----------------------------------------------------------------------------
(* sessionDelete: read m[k]; if it holds a SessionObject, delete it at the *)
(* UPF (unlocked) and write the csv read before back with no object.       *)

DeleteRead(r) ==
    /\ ~crashed
    /\ pc[r] = "delete"
    /\ LET k == ev[r].key IN
         IF k \in DOMAIN m /\ m[k].obj # NoObj
         THEN /\ rd' = [rd EXCEPT ![r] = m[k]]
              /\ pc' = [pc EXCEPT ![r] = "deleteCall"]
         ELSE /\ pc' = [pc EXCEPT ![r] = "idle"]
              /\ UNCHANGED rd
    /\ UNCHANGED <<sessions, seidMap, m, ev, upf, crashed>>

DeleteCall(r) ==
    /\ ~crashed
    /\ pc[r] = "deleteCall"
    /\ upf' = DeleteAtUpf(rd[r].obj)
    /\ m' = (ev[r].key :> [rd[r] EXCEPT !.obj = NoObj]) @@ m
    /\ pc' = [pc EXCEPT ![r] = "idle"]
    /\ rd' = [rd EXCEPT ![r] = EmptyCsv]
    /\ UNCHANGED <<sessions, seidMap, ev, crashed>>

-----------------------------------------------------------------------------
(* sessionModify: read m[k]; if it holds a SessionObject, modify() it with *)
(* the event's old and new csv.  Nothing is written back.                  *)

ModifyRead(r) ==
    /\ ~crashed
    /\ pc[r] = "modify"
    /\ LET k == ev[r].key IN
         IF k \in DOMAIN m /\ m[k].obj # NoObj
         THEN /\ rd' = [rd EXCEPT ![r] = m[k]]
              /\ pc' = [pc EXCEPT ![r] = "modifyCall"]
         ELSE /\ pc' = [pc EXCEPT ![r] = "idle"]
              /\ UNCHANGED rd
    /\ UNCHANGED <<sessions, seidMap, m, ev, upf, crashed>>

\* Mutant: encodeSmr drops the SGW change as it drops the PGW change.
ModifyCallNoUpdate(r) ==
    /\ ~crashed
    /\ pc[r] = "modifyCall"
    /\ crashed' = ~(Complete(ev[r].old) /\ Complete(ev[r].new))
    /\ pc' = [pc EXCEPT ![r] = "idle"]
    /\ rd' = [rd EXCEPT ![r] = EmptyCsv]
    /\ UNCHANGED <<sessions, seidMap, m, ev, upf>>

\* encodeSmr (both csvs complete): an update for a changed SGW half (core
\* FAR, access PDR); a changed PGW half (core PDR) is only warned about.
EncodeSmr(old, new) == IF new.sgw # old.sgw THEN {new.sgw} ELSE {}

\* Session.Modify: the UPF applies the updates to a session it still has.
SessionModify(u, id, ies) ==
    IF id \in DOMAIN u /\ ies # {} THEN [u EXCEPT ![id].sgw = CHOOSE h \in ies : TRUE]
                                   ELSE u

\* XgwSessionObject.modify: encodeSmr first (it panics unless both csvs
\* have both halves), then Modify on a live Session with non-empty updates.
ModifyCall(r) ==
    /\ ~crashed
    /\ pc[r] = "modifyCall"
    /\ LET old == ev[r].old
           new == ev[r].new
           obj == rd[r].obj
       IN IF Complete(old) /\ Complete(new)
          THEN /\ upf' = IF obj \in SmfSeids THEN SessionModify(upf, obj, EncodeSmr(old, new))
                                             ELSE upf
               /\ UNCHANGED crashed
          ELSE /\ crashed' = TRUE
               /\ UNCHANGED upf
    /\ pc' = [pc EXCEPT ![r] = "idle"]
    /\ rd' = [rd EXCEPT ![r] = EmptyCsv]
    /\ UNCHANGED <<sessions, seidMap, m, ev>>

-----------------------------------------------------------------------------

Next ==
    \/ \E r \in Roles : \E x \in Seids[r] :
          \/ \E ser \in Sers[r] : CallbackSessionEstablishmentRequest(r, x, ser)
          \/ CallbackSessionDeletionRequest(r, x)
    \/ \E r \in Roles :
          \/ CreateRead(r)
          \/ \E ok \in BOOLEAN : CreateCall(r, ok)
          \/ DeleteRead(r) \/ DeleteCall(r)
          \/ ModifyRead(r) \/ ModifyCall(r)

\* Each runner goroutine finishes the CommonState call it is in; the
\* callbacks are the peers' requests and need not come.
RunnerSteps(r) ==
    \/ CreateRead(r) \/ \E ok \in BOOLEAN : CreateCall(r, ok)
    \/ DeleteRead(r) \/ DeleteCall(r) \/ ModifyRead(r) \/ ModifyCall(r)

Spec == Init /\ [][Next]_vars /\ \A r \in Roles : WF_vars(RunnerSteps(r))

-----------------------------------------------------------------------------
(* Properties.                                                             *)

\* When both runners are idle, the UPF agrees with the common state: a UE
\* session has a SessionObject exactly when it has both halves, and a live
\* session carries the SGW half the SMF last received (sessionEvent picks
\* create, modify or delete, and modify forwards SGW changes).
UpfInSync ==
    (\A r \in Roles : pc[r] = "idle") =>
        \A k \in DOMAIN m :
            /\ (m[k].obj # NoObj) <=> Complete(m[k])
            /\ m[k].obj \in SmfSeids =>
                   /\ m[k].obj \in DOMAIN upf
                   /\ upf[m[k].obj] = [sgw |-> m[k].sgw, pgw |-> m[k].pgw]

\* Once both associations have deleted all their sessions (and the runners
\* are idle), the common state is empty and the UPF holds no session: every
\* half stored by update() is cleared by the remove() of its SEID, and the
\* design comment of session.go says a withdrawn half removes the session
\* from the SMF.
CleanWhenReleased ==
    (\A r \in Roles : sessions[r] = {} /\ pc[r] = "idle") =>
        DOMAIN m = {} /\ DOMAIN upf = {}

\* encodeSer/encodeSmr never panic: sessionEvent only creates or modifies
\* when the new csv has both halves, and a csv with a SessionObject has both.
NoPanic == ~crashed

=============================================================================
