-------------------------- MODULE RequestResponse --------------------------
(***************************************************************************)
(* What the reliable transport of src/transport promises its users: a     *)
(* BlockingRequest call returns exactly once, with the reply its own       *)
(* request got or with a timeout; the peer's request consumer handles a    *)
(* request at most once (spec sections 4.6 and 8: retry semantics and      *)
(* duplicate suppression), and a reply exists only for a handled request.  *)
(* A crash of the caller's process ends its waiting calls unanswered.      *)
(* Transport is checked to implement it.                                   *)
(***************************************************************************)
EXTENDS Naturals

CONSTANTS
    Requests,   \* the calls
    Timeout,    \* the timeout error a call may return
    NoAnswer    \* a call that has not returned

VARIABLES
    status,     \* per call: "idle", "waiting", "done"
    answer,     \* per call: what it returned
    handled     \* per call: times the peer's consumer took the request

vars == <<status, answer, handled>>

Init ==
    /\ status = [r \in Requests |-> "idle"]
    /\ answer = [r \in Requests |-> NoAnswer]
    /\ handled = [r \in Requests |-> 0]

Call(r) ==
    /\ status[r] = "idle"
    /\ status' = [status EXCEPT ![r] = "waiting"]
    /\ UNCHANGED <<answer, handled>>

\* The peer handles a request it was sent, once; possibly after the caller
\* already gave up.
Handle(r) ==
    /\ status[r] # "idle"
    /\ handled[r] = 0
    /\ handled' = [handled EXCEPT ![r] = 1]
    /\ UNCHANGED <<status, answer>>

Reply(r) ==
    /\ status[r] = "waiting"
    /\ handled[r] = 1
    /\ status' = [status EXCEPT ![r] = "done"]
    /\ answer' = [answer EXCEPT ![r] = r]
    /\ UNCHANGED handled

GiveUp(r) ==
    /\ status[r] = "waiting"
    /\ status' = [status EXCEPT ![r] = "done"]
    /\ answer' = [answer EXCEPT ![r] = Timeout]
    /\ UNCHANGED handled

\* The calling process crashes: the calls it was waiting on never return.
Crash ==
    /\ status' = [r \in Requests |-> IF status[r] = "waiting" THEN "done" ELSE status[r]]
    /\ UNCHANGED <<answer, handled>>

Next == Crash \/ \E r \in Requests : Call(r) \/ Handle(r) \/ Reply(r) \/ GiveUp(r)

\* A waiting call is not left waiting: it is answered or it times out.
Spec == Init /\ [][Next]_vars /\ \A r \in Requests : WF_vars(Reply(r) \/ GiveUp(r))

=============================================================================
