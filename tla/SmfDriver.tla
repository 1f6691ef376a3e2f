----------------------------- MODULE SmfDriver ------------------------------
(***************************************************************************)
(* The repository's SMF emulator (src/cmd/smf2) driving the SGW/PGW        *)
(* aggregator: its sgw() and pgw() functions run concurrently (sgw in a    *)
(* goroutine, pgw in main) against the two associations of SgwPgw.  Each   *)
(* sends its requests one at a time and waits for the answer, which the    *)
(* association sends once the application callback has returned, so the   *)
(* next request of a role waits for that role's runner to be idle.         *)
(*                                                                         *)
(* A script step is the merged request the association hands to the       *)
(* callback after the SMF's request (see ParseSgwSER), or Delete.           *)
(***************************************************************************)
EXTENDS SgwPgw, Sequences

CONSTANTS
    SgwScript,    \* sgw(): its requests in order
    PgwScript,    \* pgw(): its requests in order
    Delete,       \* Session.Delete in a script
    SgwSeid,      \* the local SEID the SGW association gives sgw()'s session
    PgwSeid       \* the local SEID the PGW association gives pgw()'s session

Script == [r \in Roles |-> IF r = "sgw" THEN SgwScript ELSE PgwScript]
Seid == [r \in Roles |-> IF r = "sgw" THEN SgwSeid ELSE PgwSeid]

VARIABLE step   \* per role: the index of the script's next request

driverVars == <<vars, step>>

DriverInit == Init /\ step = [r \in Roles |-> 1]

\* The role's next request reaches its association, which calls back.
Request(r) ==
    /\ step[r] <= Len(Script[r])
    /\ LET req == Script[r][step[r]] IN
         IF req = Delete THEN CallbackSessionDeletionRequest(r, Seid[r])
                         ELSE CallbackSessionEstablishmentRequest(r, Seid[r], req)
    /\ step' = [step EXCEPT ![r] = @ + 1]

\* The scripts end; the aggregator stays up.
Done == \A r \in Roles : step[r] > Len(Script[r]) /\ pc[r] = "idle"

DriverNext ==
    \/ \E r \in Roles : Request(r)
    \/ \E r \in Roles : RunnerSteps(r) /\ UNCHANGED step
    \/ Done /\ UNCHANGED driverVars

DriverSpec == DriverInit /\ [][DriverNext]_driverVars
                         /\ \A r \in Roles : WF_driverVars(RunnerSteps(r))

=============================================================================
