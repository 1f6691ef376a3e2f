-------------------------------- MODULE Merge --------------------------------
(***************************************************************************)
(* The IE tree pipeline of a Session Modification in pfcpcore: readIes    *)
(* (pfcp/ie.go) turns the received bytes into an IeNode tree, Validate    *)
(* (pfcp/parsemessage.go, pfcp/validate.go) checks it against the static   *)
(* attribute sets of pfcp/groupieattributes.go and fills in each group's   *)
(* IeID, and MergeIes (pfcp/mergemessage.go) applies it, in place, to the  *)
(* IE list stored for the session.  The state machine is the stored list   *)
(* of one session as the handlers of endpoint/pfcpfsm.go change it.        *)
(*                                                                         *)
(* An IE is a record: its type code, its IeID (Nil unless a validated     *)
(* group), its bytes (0 when empty, a value of Vals for a leaf, Encoded    *)
(* for the still-encoded children of a group) and its children.           *)
(***************************************************************************)
EXTENDS Integers, Sequences, FiniteSets, TLC

CONSTANTS
    FarIds,        \* FAR_ID values the SMF uses
    PdrIds,        \* PDR_ID values the SMF uses
    Vals,          \* values of the leaf IEs of an establishment
    ModVals,       \* values of the leaf IEs of a modification
    MaxModLen,     \* bound: IEs per Session Modification Request
    MaxTargetLen,  \* bound: length of the stored top-level IE list
    Nil,           \* the nil *IeID
    Encoded,       \* the non-empty bytes of an IE read from the wire
    NoSession      \* no session is stored

VARIABLE stored    \* the top-level IE list of the stored establishment

vars == <<stored>>

(***************************************************************************)
(* Attribute sets (groupieattributes.go): child type -> flags.             *)
(***************************************************************************)
NoAttr == [required |-> FALSE, multiple |-> FALSE, isID |-> FALSE,
           isUpdate |-> FALSE, isDelete |-> FALSE, baseIe |-> "none"]
Plain   == NoAttr
IdAttr  == [NoAttr EXCEPT !.required = TRUE, !.isID = TRUE]
ReqAttr == [NoAttr EXCEPT !.required = TRUE]

\* groupIeAttributeSets, the entries of the rules used here.  There is no
\* entry for Update_PDR.
GroupIeAttributeSets ==
    [ t \in {"Create_PDR", "PDI", "Create_FAR", "Forwarding_Parameters",
             "Update_FAR", "Remove_FAR", "Remove_PDR",
             "Update_Forwarding_Parameters"} |->
      CASE t = "Create_PDR" -> ("PDR_ID" :> IdAttr @@ "PDI" :> ReqAttr
                                @@ "Precedence" :> Plain @@ "FAR_ID" :> Plain)
        [] t = "PDI" -> ("Source_Interface" :> ReqAttr)
        [] t = "Create_FAR" -> ("FAR_ID" :> IdAttr
                                @@ "Forwarding_Parameters" :> Plain
                                @@ "Apply_Action" :> Plain)
        [] t = "Forwarding_Parameters" -> ("Destination_Interface" :> Plain)
        [] t = "Update_FAR" ->
              ("Forwarding_Parameters" :> Plain
               @@ "Update_Forwarding_Parameters" :>
                    [NoAttr EXCEPT !.isUpdate = TRUE,
                                   !.baseIe = "Forwarding_Parameters"]
               @@ "Apply_Action" :> Plain @@ "FAR_ID" :> IdAttr)
        [] t = "Remove_FAR" -> ("FAR_ID" :> IdAttr)
        [] t = "Remove_PDR" -> ("PDR_ID" :> IdAttr)
        [] t = "Update_Forwarding_Parameters" ->
              ("Destination_Interface" :> Plain) ]

Multi == [NoAttr EXCEPT !.multiple = TRUE]

\* MessageIeAttributeSets[PFCP_Session_Establishment_Request], its rules.
EstablishmentSet == "Create_PDR" :> [Multi EXCEPT !.required = TRUE]
                    @@ "Create_FAR" :> [Multi EXCEPT !.required = TRUE]

\* MessageIeAttributeSets[PFCP_Session_Modification_Request].
ModificationSet ==
    "Update_FAR" :> [Multi EXCEPT !.isUpdate = TRUE, !.baseIe = "Create_FAR"]
    @@ "Update_PDR" :> [Multi EXCEPT !.isUpdate = TRUE, !.baseIe = "Create_PDR"]
    @@ "Remove_FAR" :> [Multi EXCEPT !.isDelete = TRUE, !.baseIe = "Create_FAR"]
    @@ "Remove_PDR" :> [Multi EXCEPT !.isDelete = TRUE, !.baseIe = "Create_PDR"]
    @@ "Create_FAR" :> Multi
    @@ "Create_PDR" :> Multi

IsGroupIe(t) == t \in DOMAIN GroupIeAttributeSets

IeTypes == DOMAIN GroupIeAttributeSets \cup DOMAIN ModificationSet
           \cup {"PDR_ID", "FAR_ID", "Precedence", "Source_Interface",
                 "Apply_Action", "Destination_Interface", "null"}

(***************************************************************************)
(* The IEs the SMF builds (encode.go: NewIeNode, NewGroupNode).            *)
(***************************************************************************)
Leaf(t, v)   == [type |-> t, id |-> Nil, val |-> v, ies |-> <<>>]
Group(t, s)  == [type |-> t, id |-> Nil, val |-> 0, ies |-> s]
NullIe       == [type |-> "null", id |-> Nil, val |-> 0, ies |-> <<>>]
OptSeqs(S)   == {<<>>} \cup {<<x>> : x \in S}

CreatePdr(p) == Group("Create_PDR", <<Leaf("PDR_ID", p),
                        Group("PDI", <<Leaf("Source_Interface", 1)>>)>>)
CreateFars(V) ==
    { Group("Create_FAR", <<Leaf("FAR_ID", f)>> \o a \o fp) :
        f \in FarIds,
        a \in OptSeqs({Leaf("Apply_Action", v) : v \in V}),
        fp \in OptSeqs({Group("Forwarding_Parameters",
                              <<Leaf("Destination_Interface", v)>>) : v \in V}) }
UpdateFars ==
    { Group("Update_FAR", <<Leaf("FAR_ID", f)>> \o a \o u) :
        f \in FarIds,
        a \in OptSeqs({Leaf("Apply_Action", v) : v \in ModVals}),
        u \in OptSeqs({Group("Update_Forwarding_Parameters",
                             <<Leaf("Destination_Interface", v)>>) : v \in ModVals}) }
RemoveFars == { Group("Remove_FAR", <<Leaf("FAR_ID", f)>>) : f \in FarIds }
UpdatePdrs == { Group("Update_PDR", <<Leaf("PDR_ID", p), Leaf("Precedence", v)>>) :
                  p \in PdrIds, v \in ModVals }
RemovePdrs == { Group("Remove_PDR", <<Leaf("PDR_ID", p)>>) : p \in PdrIds }

\* Session Establishment Requests: one PDR and one FAR (the SMF's baseSER).
SentEstablishments == { <<CreatePdr(p), far>> : p \in PdrIds, far \in CreateFars(Vals) }
ModEntries == CreateFars(ModVals) \cup UpdateFars \cup RemoveFars
              \cup UpdatePdrs \cup RemovePdrs
SentModifications == UNION { [1..n -> ModEntries] : n \in 1..MaxModLen }

(***************************************************************************)
(* readIes: a type with an attribute set is read as a group, its bytes     *)
(* parsed into children and then cleared; any other IE keeps its bytes.    *)
(***************************************************************************)
OnWire(ie) == IF ie.ies = <<>> THEN ie.val ELSE Encoded

\* Mutant: readIes keeping the encoded bytes of a group (line 97 dropped).
ParsedGroupKeepsBytes(ie, kids) == [ie EXCEPT !.ies = kids]

ParsedGroup(ie, kids) == [ie EXCEPT !.val = 0, !.ies = kids]

RECURSIVE ReadIe(_)
ReadIe(ie) ==
    IF IsGroupIe(ie.type)
    THEN ParsedGroup([ie EXCEPT !.val = OnWire(ie)],
                     [i \in DOMAIN ie.ies |-> ReadIe(ie.ies[i])])
    ELSE [ie EXCEPT !.val = OnWire(ie), !.ies = <<>>]

ReadIes(s) == [i \in DOMAIN s |-> ReadIe(s[i])]

(***************************************************************************)
(* validateAttributeSet: allowed types, no duplicate non-multiple IE, all  *)
(* required types present, and the group's ID, the last isID child's.      *)
(***************************************************************************)
ParseID(ie) == ie.val

ValidateAttributeSet(ies, set) ==
    LET types  == { ies[i].type : i \in DOMAIN ies }
        idIdx  == { i \in DOMAIN ies : ies[i].type \in DOMAIN set
                                        /\ set[ies[i].type].isID }
        idRequired == \E t \in DOMAIN set : set[t].isID
    IN [ ok |-> /\ types \subseteq DOMAIN set
                /\ \A i, j \in DOMAIN ies :
                      (i # j /\ ies[i].type = ies[j].type) => set[ies[i].type].multiple
                /\ \A t \in DOMAIN set : set[t].required => t \in types
                /\ idRequired => idIdx # {},
         id |-> IF idIdx = {} THEN Nil
                ELSE ParseID(ies[CHOOSE i \in idIdx : \A k \in idIdx : k <= i]) ]

RECURSIVE ValidateIe(_)
ValidateIe(ie) ==
    IF ~IsGroupIe(ie.type) THEN [ok |-> TRUE, ie |-> ie]
    ELSE LET a    == ValidateAttributeSet(ie.ies, GroupIeAttributeSets[ie.type])
             kids == [i \in DOMAIN ie.ies |-> ValidateIe(ie.ies[i])]
         IN [ ok |-> a.ok /\ \A i \in DOMAIN kids : kids[i].ok,
              ie |-> [ie EXCEPT !.id = a.id,
                                !.ies = [i \in DOMAIN kids |-> kids[i].ie]] ]

\* PfcpMessage.Validate: the top-level list, then each IE.
Validate(ies, set) ==
    LET kids == [i \in DOMAIN ies |-> ValidateIe(ies[i])]
    IN [ ok  |-> ValidateAttributeSet(ies, set).ok /\ \A i \in DOMAIN kids : kids[i].ok,
         ies |-> [i \in DOMAIN kids |-> kids[i].ie] ]

\* ParseValidate of a request the SMF sent: the tree the handler is given.
Received(sent, set) == Validate(ReadIes(sent), set)

(***************************************************************************)
(* MergeIes (mergemessage.go 51-116).  The result is the error, or "none", *)
(* and the target list as the in-place updates left it.  "NilDeref" is the *)
(* panic of line 85 dereferencing a target's nil IeID.                     *)
(***************************************************************************)
Result(err, t) == [err |-> err, ies |-> t]

\* Line 85: the condition a target IE must meet; a nil target IeID is only
\* dereferenced when the update carries an ID.
Matches(x, code, id) == x.type = code /\ (id = Nil \/ x.id = Nil \/ x.id = id)

\* The first target IE the loop of line 84 stops at, 0 if none.
FirstMatch(t, code, id) ==
    LET js == { j \in DOMAIN t : Matches(t[j], code, id) }
    IN IF js = {} THEN 0 ELSE CHOOSE j \in js : \A k \in js : j <= k

\* Mutant: the deleted IE blanked in place rather than replaced by nullIe.
DeleteAtKeepType(t, j) == [t EXCEPT ![j] = Leaf(t[j].type, 0)]

\* Line 97: the deleted IE becomes the nullIe sentinel, kept in the list.
DeleteAt(t, j) == [t EXCEPT ![j] = NullIe]

\* Mutant: INSERT appending even when the target exists.
ReplaceAtAppends(t, j, ie) == Append(t, ie)

\* Line 99: INSERT replaces an existing target IE.
ReplaceAt(t, j, ie) == [t EXCEPT ![j] = ie]

\* Lines 105-110: no target; the update is retyped to the search key and
\* appended with its children as they are.
AppendAs(t, ie, code) == Append(t, [ie EXCEPT !.type = code])

\* Lines 56-82: the action and search key of one update IE.
ActionOf(ie, set) ==
    IF ie.type \in DOMAIN set
    THEN CASE set[ie.type].isDelete -> "delete"
           [] set[ie.type].isUpdate -> "update"
           [] OTHER                 -> "insert"
    ELSE IF ie.val = 0 /\ ie.ies = <<>> THEN "delete" ELSE "insert"

SearchKey(ie, set) ==
    IF ie.type \in DOMAIN set /\ (set[ie.type].isDelete \/ set[ie.type].isUpdate)
    THEN set[ie.type].baseIe ELSE ie.type

SearchId(ie, set) ==
    IF ie.type \in DOMAIN set /\ set[ie.type].multiple THEN ie.id ELSE Nil

RECURSIVE MergeIes(_, _, _), MergeIe(_, _, _)

MergeIes(t, u, set) ==
    IF u = <<>> THEN Result("none", t)
    ELSE LET r == MergeIe(t, Head(u), set)
         IN IF r.err # "none" THEN r ELSE MergeIes(r.ies, Tail(u), set)

MergeIe(t, ie, set) ==
    LET code   == SearchKey(ie, set)
        id     == SearchId(ie, set)
        action == ActionOf(ie, set)
        j      == FirstMatch(t, code, id)
    IN CASE ie.type \in DOMAIN set /\ set[ie.type].multiple /\ ie.id = Nil
              -> Result("IdMissing", t)
         [] j = 0 /\ action \in {"insert", "update"}
              -> Result("none", AppendAs(t, ie, code))
         [] j = 0
              -> Result("TargetMissing", t)
         [] id # Nil /\ t[j].id = Nil
              -> Result("NilDeref", t)
         [] action = "update" /\ ~IsGroupIe(ie.type)
              -> Result("SchemaMissing", t)
         [] action = "update"
              -> LET r == MergeIes(t[j].ies, ie.ies, GroupIeAttributeSets[ie.type])
                 IN Result(r.err, [t EXCEPT ![j].ies = r.ies])
         [] action = "delete"
              -> Result("none", DeleteAt(t, j))
         [] OTHER
              -> Result("none", ReplaceAt(t, j, ie))

(***************************************************************************)
(* The requests as the UPF's handlers receive them: those ParseValidate    *)
(* accepts (runLower drops the others).                                    *)
(***************************************************************************)
Establishments == { Received(s, EstablishmentSet).ies :
                      s \in { s \in SentEstablishments : Received(s, EstablishmentSet).ok } }
Modifications  == { Received(s, ModificationSet).ies :
                      s \in { s \in SentModifications : Received(s, ModificationSet).ok } }

(***************************************************************************)
(* The handlers of one session (pfcpfsm.go), the application accepting.    *)
(***************************************************************************)
Init == stored = NoSession

\* serviceSessionEstablishmentRequest: the validated tree is stored.
Establish ==
    /\ stored = NoSession
    /\ \E e \in Establishments : stored' = e

\* serviceSessionModificationRequest: MergeIes on the stored list in place;
\* on error the session is removed, else the merged list is kept.  A panic
\* ends the process and is left to NoNilIdDereference.
Modify ==
    /\ stored # NoSession
    /\ \E m \in Modifications :
         LET r == MergeIes(stored, m, ModificationSet)
         IN /\ r.err # "NilDeref"
            /\ Len(r.ies) <= MaxTargetLen
            /\ stored' = IF r.err = "none" THEN r.ies ELSE NoSession

\* serviceSessionDeletionRequest: the session is removed.
Delete ==
    /\ stored # NoSession
    /\ stored' = NoSession

Next == Establish \/ Modify \/ Delete

Spec == Init /\ [][Next]_vars

(***************************************************************************)
(* Properties                                                              *)
(***************************************************************************)
RECURSIVE WellFormed(_)
WellFormed(ie) ==
    /\ ie.type \in IeTypes
    /\ ie.id \in FarIds \cup PdrIds \cup {Nil}
    /\ ie.val \in Vals \cup ModVals \cup {0, Encoded}
    /\ IsGroupIe(ie.type) => ie.val = 0
    /\ ~IsGroupIe(ie.type) => ie.ies = <<>>
    /\ \A i \in DOMAIN ie.ies : WellFormed(ie.ies[i])

\* The stored list is a bounded list of IeNodes in which, as the IeNode type
\* says, a group holds children and no bytes and any other IE no children.
TypeOK ==
    \/ stored = NoSession
    \/ /\ DOMAIN stored = 1..Len(stored)
       /\ Len(stored) <= MaxTargetLen
       /\ \A i \in DOMAIN stored : WellFormed(stored[i])

\* The comparison of line 85 never dereferences a nil target IeID: whatever
\* sequence of modifications built the stored list (deletes leaving nullIe,
\* appended and retyped IEs), every valid modification merged into it finds
\* an ID on each same-typed target it compares an update ID with.
NoNilIdDereference ==
    stored # NoSession =>
        \A m \in Modifications : MergeIes(stored, m, ModificationSet).err # "NilDeref"

\* An update that only overwrites: no DELETE, and every UPDATE has a target.
OverwriteOnly(t, m) ==
    \A i \in DOMAIN m :
        /\ ActionOf(m[i], ModificationSet) # "delete"
        /\ ActionOf(m[i], ModificationSet) = "update" =>
              FirstMatch(t, SearchKey(m[i], ModificationSet),
                            SearchId(m[i], ModificationSet)) # 0

\* Merge idempotence (spec section 8): merging an overwrite-only
\* modification a second time into the list MergeIes produced leaves it as
\* it is, so a retransmitted modification the Responder cache missed does
\* not change the session again.
MergeIdempotent ==
    stored # NoSession =>
        \A m \in Modifications :
            LET once == MergeIes(stored, m, ModificationSet)
            IN (OverwriteOnly(stored, m) /\ once.err = "none")
                  => MergeIes(once.ies, m, ModificationSet) = once

\* The ID the SMF put into an IE it built.
SentId(ie) == LET k == CHOOSE k \in DOMAIN ie.ies : ie.ies[k].type \in {"FAR_ID", "PDR_ID"}
              IN ie.ies[k].val

\* Spec section 4.4: a Session Modification Request with one Update or
\* Remove IE naming, by its ID, a rule of the stored session is merged
\* without error (the merge fails only for a missing ID, schema or target).
ModificationOfExistingRuleApplied ==
    stored # NoSession =>
        \A s \in { s \in SentModifications : Len(s) = 1 } :
            LET r    == Received(s, ModificationSet)
                base == ModificationSet[s[1].type].baseIe
            IN ( /\ r.ok
                 /\ base # "none"
                 /\ \E j \in DOMAIN stored : stored[j].type = base
                                          /\ stored[j].id = SentId(s[1]) )
               => MergeIes(stored, r.ies, ModificationSet).err = "none"

=============================================================================
