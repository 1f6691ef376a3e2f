----------------------------- MODULE Transport -----------------------------
(***************************************************************************)
(* The reliable PFCP transport of src/transport: the Requestor half of a   *)
(* local endpoint (BlockingRequest callers, one retry goroutine per        *)
(* request, the runLower dispatcher handling responses) talking over a     *)
(* lossy, reordering UDP network to the Responder half of a remote         *)
(* endpoint (its runLower dispatcher, the in-flight cache of replies and   *)
(* the single consumer goroutine of the request channel that answers with  *)
(* EnterResponse).                                                         *)
(*                                                                         *)
(* Every goroutine is a program counter; a step is what the code does      *)
(* between two blocking points or two lock sections.  An unbuffered Go     *)
(* channel send is a rendezvous action that needs the receiver waiting.    *)
(* Message contents are abstracted to the identity of the request they     *)
(* carry (a reply "to r" is the response the peer built for request r).    *)
(***************************************************************************)
EXTENDS Naturals, FiniteSets, Functions, TLC

CONSTANTS
    Requests,   \* the BlockingRequest calls of local callers
    N1,         \* attempts of the retry loop (transport.N1)
    SeqBits,    \* width of the sequence number field of the PFCP header (24)
    SeqStarts,  \* values getSeqStart() may return
    NilChan,    \* requestState.replyChannel == nil
    NoReply,    \* peerRequestState.reply == nil
    Timeout,    \* RequestReturn{err: "request failed with timeout"}
    None,       \* no value yet
    Restarts,   \* whether the local endpoint's process may crash and restart
    FreshStarts \* whether a restart's getSeqStart() avoids the peer's cached numbers

ASSUME /\ N1 \in Nat \ {0}
       /\ SeqBits \in Nat \ {0}
       /\ SeqStarts \subseteq 0 .. (2^SeqBits - 1)
       /\ Restarts \in BOOLEAN /\ FreshStarts \in BOOLEAN

VARIABLES
    nextSeq,    \* Requestor.nextSequenceNumber (uint32; never near 2^32 here)
    cInFlight,  \* Requestor.inFlight: key -> reply channel (a request) or NilChan
    callerPc,   \* BlockingRequest caller: "idle", "waiting" on <-replyChannel, "done"
    result,     \* what the caller received: a reply to some request, or Timeout
    reqKey,     \* sequence number enterRequest gave the request
    retryPc,    \* retry goroutine of enterRequest
    retryN,     \* its loop counter n
    cDisp,      \* local runLower: [pc, key, to, msg]
    c2s, s2c,   \* datagrams in the network, each way: [seq, req]
    sInFlight,  \* Responder.inFlight: wire sequence number -> cached reply or NoReply
    sDisp,      \* remote runLower: [pc, msg]
    runner,     \* remote consumer of the request channel: [pc, msg]
    surfaced    \* history: times each request was handed to the remote consumer (capped at 2)

vars == <<nextSeq, cInFlight, callerPc, result, reqKey, retryPc, retryN,
          cDisp, c2s, s2c, sInFlight, sDisp, runner, surfaced>>

requestorVars == <<nextSeq, cInFlight, callerPc, result, reqKey, retryPc, retryN, cDisp>>
responderVars == <<sInFlight, sDisp, runner, surfaced>>

\* writeBE24 in the header serialiser keeps the low SeqBits bits of the number.
Wire(k) == k % (2^SeqBits)

Datagram == [seq : 0 .. (2^SeqBits - 1), req : Requests]

Keys == DOMAIN cInFlight

\* The table holds a live reply channel under key k.
Live(k) == k \in Keys /\ cInFlight[k] # NilChan

TypeOK ==
    /\ nextSeq \in Nat
    /\ Keys \subseteq Nat
    /\ \A k \in Keys : cInFlight[k] \in Requests \cup {NilChan}
    /\ callerPc \in [Requests -> {"idle", "waiting", "done"}]
    /\ result \in [Requests -> Requests \cup {Timeout, None}]
    /\ reqKey \in [Requests -> Nat \cup {None}]
    /\ retryPc \in [Requests -> {"none", "send", "check", "timeout", "reap", "exit"}]
    /\ retryN \in [Requests -> 0 .. N1]
    /\ cDisp \in [pc : {"idle", "deliver", "clear", "reinsert"},
                  key : Nat \cup {None}, to : Requests \cup {None}, msg : Requests \cup {None}]
    /\ c2s \subseteq Datagram /\ s2c \subseteq Datagram
    /\ DOMAIN sInFlight \subseteq 0 .. (2^SeqBits - 1)
    /\ \A s \in DOMAIN sInFlight : sInFlight[s] \in Requests \cup {NoReply}
    /\ sDisp \in [pc : {"idle", "surface"}, msg : Datagram \cup {None}]
    /\ runner \in [pc : {"idle", "busy"}, msg : Datagram \cup {None}]
    /\ surfaced \in [Requests -> 0 .. 2]

Init ==
    /\ nextSeq \in SeqStarts
    /\ cInFlight = << >>
    /\ callerPc = [r \in Requests |-> "idle"]
    /\ result = [r \in Requests |-> None]
    /\ reqKey = [r \in Requests |-> None]
    /\ retryPc = [r \in Requests |-> "none"]
    /\ retryN = [r \in Requests |-> 0]
    /\ cDisp = [pc |-> "idle", key |-> None, to |-> None, msg |-> None]
    /\ c2s = {} /\ s2c = {}
    /\ sInFlight = << >>
    /\ sDisp = [pc |-> "idle", msg |-> None]
    /\ runner = [pc |-> "idle", msg |-> None]
    /\ surfaced = [r \in Requests |-> 0]

-----------------------------------------------------------------------------
(* Requestor: BlockingRequest and the retry goroutine of enterRequest.     *)

\* Mutant: enterRequest without r.nextSequenceNumber++.
EnterRequestNoIncrement(r) ==
    /\ callerPc[r] = "idle"
    /\ cInFlight' = (nextSeq :> r) @@ cInFlight
    /\ reqKey' = [reqKey EXCEPT ![r] = nextSeq]
    /\ callerPc' = [callerPc EXCEPT ![r] = "waiting"]
    /\ retryPc' = [retryPc EXCEPT ![r] = "send"]
    /\ retryN' = [retryN EXCEPT ![r] = N1]
    /\ UNCHANGED <<nextSeq, result, cDisp, c2s, s2c, responderVars>>

\* BlockingRequest -> enterRequest: under the mutex, record the reply channel
\* under nextSequenceNumber and increment it; start the retry goroutine; the
\* caller then blocks on its reply channel.
EnterRequest(r) ==
    /\ callerPc[r] = "idle"
    /\ cInFlight' = (nextSeq :> r) @@ cInFlight
    /\ reqKey' = [reqKey EXCEPT ![r] = nextSeq]
    /\ nextSeq' = nextSeq + 1
    /\ callerPc' = [callerPc EXCEPT ![r] = "waiting"]
    /\ retryPc' = [retryPc EXCEPT ![r] = "send"]
    /\ retryN' = [retryN EXCEPT ![r] = N1]
    /\ UNCHANGED <<result, cDisp, c2s, s2c, responderVars>>

\* Loop body, first half: serialise the message with its sequence number and
\* hand it to the UDP send channel; then sleep T1.
RetrySend(r) ==
    /\ retryPc[r] = "send"
    /\ c2s' = c2s \cup {[seq |-> Wire(reqKey[r]), req |-> r]}
    /\ retryPc' = [retryPc EXCEPT ![r] = "check"]
    /\ UNCHANGED <<nextSeq, cInFlight, callerPc, result, reqKey, retryN, cDisp, s2c, responderVars>>

\* The reply slot, read under the mutex after the sleep.
Answered(r) == reqKey[r] \in Keys /\ cInFlight[reqKey[r]] = NilChan

\* Mutant: the loop never decrements n.
RetryCheckNoDecrement(r) ==
    /\ retryPc[r] = "check"
    /\ \/ /\ Answered(r)
          /\ retryPc' = [retryPc EXCEPT ![r] = "reap"]
       \/ /\ ~Answered(r)
          /\ retryPc' = [retryPc EXCEPT ![r] = "send"]
    /\ UNCHANGED <<retryN, nextSeq, cInFlight, callerPc, result, reqKey, cDisp, c2s, s2c, responderVars>>

\* Mutant: the loop runs while n >= 0 (one attempt too many).
RetryCheckOffByOne(r) ==
    /\ retryPc[r] = "check"
    /\ \/ /\ Answered(r)
          /\ retryPc' = [retryPc EXCEPT ![r] = "reap"]
          /\ UNCHANGED retryN
       \/ /\ ~Answered(r)
          /\ retryN' = [retryN EXCEPT ![r] = @ - 1]
          /\ retryPc' = [retryPc EXCEPT ![r] = IF retryN[r] - 1 >= 0 THEN "send" ELSE "timeout"]
    /\ UNCHANGED <<nextSeq, cInFlight, callerPc, result, reqKey, cDisp, c2s, s2c, responderVars>>

\* Loop body, second half: a nil reply channel ends the loop (timedOut = false);
\* otherwise n is decremented and the loop resends while n > 0.
RetryCheck(r) ==
    /\ retryPc[r] = "check"
    /\ \/ /\ Answered(r)
          /\ retryPc' = [retryPc EXCEPT ![r] = "reap"]
          /\ UNCHANGED retryN
       \/ /\ ~Answered(r)
          /\ retryN' = [retryN EXCEPT ![r] = @ - 1]
          /\ retryPc' = [retryPc EXCEPT ![r] = IF retryN[r] - 1 > 0 THEN "send" ELSE "timeout"]
    /\ UNCHANGED <<nextSeq, cInFlight, callerPc, result, reqKey, cDisp, c2s, s2c, responderVars>>

\* timedOut: replyChannel <- RequestReturn{err}; an unbuffered send that
\* completes only when the caller receives it.
RetryTimeout(r) ==
    /\ retryPc[r] = "timeout"
    /\ callerPc[r] = "waiting"
    /\ result' = [result EXCEPT ![r] = Timeout]
    /\ callerPc' = [callerPc EXCEPT ![r] = "done"]
    /\ retryPc' = [retryPc EXCEPT ![r] = "reap"]
    /\ UNCHANGED <<nextSeq, cInFlight, reqKey, retryN, cDisp, c2s, s2c, responderVars>>

\* delete(r.inFlight, sequenceNumber) under the mutex; the goroutine exits.
RetryReap(r) ==
    /\ retryPc[r] = "reap"
    /\ cInFlight' = Restrict(cInFlight, Keys \ {reqKey[r]})
    /\ retryPc' = [retryPc EXCEPT ![r] = "exit"]
    /\ UNCHANGED <<nextSeq, callerPc, result, reqKey, retryN, cDisp, c2s, s2c, responderVars>>

-----------------------------------------------------------------------------
(* Requestor: runLower -> handleResponse for a datagram from the peer.     *)

\* Parse, then look the sequence number up under the mutex.  An unknown
\* number or a nil reply channel is logged and dropped; a live channel is
\* captured and the dispatcher goes on to send on it.
ClientReceive(m) ==
    /\ cDisp.pc = "idle"
    /\ s2c' = s2c \ {m}
    /\ \/ /\ ~Live(m.seq)
          /\ UNCHANGED cDisp
       \/ /\ Live(m.seq)
          /\ cDisp' = [pc |-> "deliver", key |-> m.seq, to |-> cInFlight[m.seq], msg |-> m.req]
    /\ UNCHANGED <<nextSeq, cInFlight, callerPc, result, reqKey, retryPc, retryN, c2s, responderVars>>

\* request.replyChannel <- RequestReturn{message}: unbuffered, outside the mutex.
ClientDeliver ==
    /\ cDisp.pc = "deliver"
    /\ callerPc[cDisp.to] = "waiting"
    /\ result' = [result EXCEPT ![cDisp.to] = cDisp.msg]
    /\ callerPc' = [callerPc EXCEPT ![cDisp.to] = "done"]
    /\ cDisp' = [cDisp EXCEPT !.pc = "clear"]
    /\ UNCHANGED <<nextSeq, cInFlight, reqKey, retryPc, retryN, c2s, s2c, responderVars>>

\* request.replyChannel = nil: a write to the shared requestState, outside the
\* mutex (the retry goroutine reads the same field under it).
ClientClear ==
    /\ cDisp.pc = "clear"
    /\ cInFlight' = [cInFlight EXCEPT ![cDisp.key] = NilChan]
    /\ cDisp' = [cDisp EXCEPT !.pc = "reinsert"]
    /\ UNCHANGED <<nextSeq, callerPc, result, reqKey, retryPc, retryN, c2s, s2c, responderVars>>

\* Mutant: request.replyChannel = nil is left out, so the request is put
\* back with its channel.
ClientReinsertKeepsChannel ==
    /\ cDisp.pc = "reinsert"
    /\ cInFlight' = (cDisp.key :> cDisp.to) @@ cInFlight
    /\ cDisp' = [pc |-> "idle", key |-> None, to |-> None, msg |-> None]
    /\ UNCHANGED <<nextSeq, callerPc, result, reqKey, retryPc, retryN, c2s, s2c, responderVars>>

\* r.inFlight[sequenceNumber] = request, under the mutex.
ClientReinsert ==
    /\ cDisp.pc = "reinsert"
    /\ cInFlight' = (cDisp.key :> NilChan) @@ cInFlight
    /\ cDisp' = [pc |-> "idle", key |-> None, to |-> None, msg |-> None]
    /\ UNCHANGED <<nextSeq, callerPc, result, reqKey, retryPc, retryN, c2s, s2c, responderVars>>

-----------------------------------------------------------------------------
(* Responder: runLower -> handleRequest, and the request consumer.         *)

\* Mutant: a request seen before but not yet answered is surfaced again.
ServerReceiveResurface(m) ==
    /\ sDisp.pc = "idle"
    /\ c2s' = c2s \ {m}
    /\ \/ /\ m.seq \in DOMAIN sInFlight
          /\ sInFlight[m.seq] # NoReply
          /\ s2c' = s2c \cup {[seq |-> m.seq, req |-> sInFlight[m.seq]]}
          /\ UNCHANGED <<sInFlight, sDisp>>
       \/ /\ IF m.seq \in DOMAIN sInFlight THEN sInFlight[m.seq] = NoReply ELSE TRUE
          /\ sInFlight' = (m.seq :> NoReply) @@ sInFlight
          /\ sDisp' = [pc |-> "surface", msg |-> m]
          /\ UNCHANGED s2c
    /\ UNCHANGED <<requestorVars, runner, surfaced>>

\* A request seen before is answered from the cache, or ignored while the
\* consumer has not answered it yet; a new one gets an empty entry under the
\* mutex and is then sent on the request channel.
ServerReceive(m) ==
    /\ sDisp.pc = "idle"
    /\ c2s' = c2s \ {m}
    /\ \/ /\ m.seq \in DOMAIN sInFlight
          /\ sInFlight[m.seq] = NoReply
          /\ UNCHANGED <<s2c, sInFlight, sDisp>>
       \/ /\ m.seq \in DOMAIN sInFlight
          /\ sInFlight[m.seq] # NoReply
          /\ s2c' = s2c \cup {[seq |-> m.seq, req |-> sInFlight[m.seq]]}
          /\ UNCHANGED <<sInFlight, sDisp>>
       \/ /\ m.seq \notin DOMAIN sInFlight
          /\ sInFlight' = (m.seq :> NoReply) @@ sInFlight
          /\ sDisp' = [pc |-> "surface", msg |-> m]
          /\ UNCHANGED s2c
    /\ UNCHANGED <<requestorVars, runner, surfaced>>

\* r.requestChannel <- PeerRequest{...}: unbuffered, taken by the consumer
\* goroutine when it is idle.
ServerSurface ==
    /\ sDisp.pc = "surface"
    /\ runner.pc = "idle"
    /\ runner' = [pc |-> "busy", msg |-> sDisp.msg]
    /\ surfaced' = [surfaced EXCEPT ![sDisp.msg.req] = IF @ < 2 THEN @ + 1 ELSE 2]
    /\ sDisp' = [pc |-> "idle", msg |-> None]
    /\ UNCHANGED <<requestorVars, c2s, s2c, sInFlight>>

\* The consumer builds its reply and calls EnterResponse: the entry is found
\* with no reply yet, the serialised reply is cached and sent.
RunnerRespond ==
    /\ runner.pc = "busy"
    /\ runner.msg.seq \in DOMAIN sInFlight
    /\ sInFlight[runner.msg.seq] = NoReply
    /\ sInFlight' = [sInFlight EXCEPT ![runner.msg.seq] = runner.msg.req]
    /\ s2c' = s2c \cup {runner.msg}
    /\ runner' = [pc |-> "idle", msg |-> None]
    /\ UNCHANGED <<requestorVars, c2s, sDisp, surfaced>>

-----------------------------------------------------------------------------
(* A crash of the local endpoint's process.                                *)

\* Wire numbers the earlier incarnations used: those in the peer's cache,
\* and those still travelling in the network.
UsedNumbers == { Wire(reqKey[r]) : r \in { r \in Requests : reqKey[r] # None } }

\* Starts a restart may draw: any, or only those whose next |Requests|
\* numbers miss every number used before (what a random 24-bit start is
\* relied on to give).
RestartStarts ==
    IF FreshStarts
    THEN { s \in SeqStarts :
             \A k \in 0 .. Cardinality(Requests) - 1 : Wire(s + k) \notin UsedNumbers }
    ELSE SeqStarts

\* The process ends and comes back: every goroutine of the old incarnation
\* is gone (its callers never return), and NewTransport builds a new
\* Requestor with an empty inFlight and nextSequenceNumber from
\* getSeqStart().  The peer's Responder keeps its cache, which has no expiry.
PeerRestart ==
    /\ Restarts
    /\ \E s \in RestartStarts : nextSeq' = s
    /\ cInFlight' = << >>
    /\ callerPc' = [r \in Requests |-> IF callerPc[r] = "waiting" THEN "done" ELSE callerPc[r]]
    /\ retryPc' = [r \in Requests |-> IF retryPc[r] = "none" THEN "none" ELSE "exit"]
    /\ cDisp' = [pc |-> "idle", key |-> None, to |-> None, msg |-> None]
    /\ UNCHANGED <<result, reqKey, retryN, c2s, s2c, responderVars>>

-----------------------------------------------------------------------------
(* The UDP network loses datagrams; it reorders them since it is a set.    *)

Lose ==
    \/ \E m \in c2s : c2s' = c2s \ {m} /\ UNCHANGED s2c
    \/ \E m \in s2c : s2c' = s2c \ {m} /\ UNCHANGED c2s

LoseStep == Lose /\ UNCHANGED <<requestorVars, responderVars>>

Next ==
    \/ \E r \in Requests :
          \/ EnterRequest(r) \/ RetrySend(r) \/ RetryCheck(r)
          \/ RetryTimeout(r) \/ RetryReap(r)
    \/ \E m \in s2c : ClientReceive(m)
    \/ ClientDeliver \/ ClientClear \/ ClientReinsert
    \/ \E m \in c2s : ServerReceive(m)
    \/ ServerSurface \/ RunnerRespond
    \/ LoseStep
    \/ PeerRestart

\* Every goroutine that can run eventually runs; callers need not call, and
\* the network owes nothing.
Fairness ==
    /\ \A r \in Requests :
          /\ WF_vars(RetrySend(r)) /\ WF_vars(RetryCheck(r))
          /\ WF_vars(RetryTimeout(r)) /\ WF_vars(RetryReap(r))
    /\ WF_vars(ClientDeliver) /\ WF_vars(ClientClear) /\ WF_vars(ClientReinsert)
    /\ WF_vars(ServerSurface) /\ WF_vars(RunnerRespond)

Spec == Init /\ [][Next]_vars /\ Fairness

-----------------------------------------------------------------------------
(* Properties.                                                             *)

\* A caller of BlockingRequest that receives a message receives the reply to
\* its own request, never one meant for another caller (handleResponse routes
\* by sequence number; enterRequest must give each request its own number).
ReplyMatchesRequest ==
    \A r \in Requests : result[r] \in {r, Timeout, None}

\* Retransmitted or reordered copies of a request are handed to the remote
\* request consumer at most once (handleRequest records the sequence number
\* before surfacing and replays the cached reply afterwards).
AtMostOnceSurfaced ==
    \A r \in Requests : surfaced[r] <= 1

\* Every reply channel the Requestor table still holds has a caller that
\* will take from it: the caller waits, or the channel is one step from
\* being cleared (handleResponse has delivered on it and not yet written
\* nil, or the retry goroutine has sent its timeout and not yet deleted the
\* entry).  handleResponse's nil write and re-insert (requestor.go:99-101)
\* may resurrect an entry the retry goroutine deleted, and a duplicate reply
\* routed to a live entry of a returned caller would block runLower.
LiveEntriesHaveListeners ==
    \A k \in Keys :
        cInFlight[k] # NilChan =>
            \/ callerPc[cInFlight[k]] = "waiting"
            \/ cDisp.pc = "clear" /\ cDisp.key = k
            \/ retryPc[cInFlight[k]] = "reap"

\* Every BlockingRequest returns: with the reply, or with the timeout error
\* after N1 attempts, whatever the network loses.
CallerReturns ==
    \A r \in Requests : callerPc[r] = "waiting" ~> callerPc[r] = "done"

\* No goroutine is left blocked sending on a reply channel whose caller has
\* already returned: neither the runLower dispatcher (handleResponse) nor the
\* retry goroutine (timeout error); either would block forever.
NoOrphanedSend ==
    /\ cDisp.pc = "deliver" => callerPc[cDisp.to] = "waiting"
    /\ \A r \in Requests : retryPc[r] = "timeout" => callerPc[r] = "waiting"

\* Transport implements RequestResponse: the caller's program counter and
\* result are the call's status and answer, and the number of times the
\* remote runLower surfaced a request is the number of times it was handled.
\* Each Transport step is a step of the service or leaves it unchanged, and
\* every call that waits returns.
Service == INSTANCE RequestResponse
               WITH status <- callerPc, answer <- result,
                    handled <- surfaced, NoAnswer <- None

ServiceSpec == Service!Spec

=============================================================================
