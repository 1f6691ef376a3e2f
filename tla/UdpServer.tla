----------------------------- MODULE UdpServer -----------------------------
(***************************************************************************)
(* The UDP server of src/udpserver/udpservice.go with the event loop that  *)
(* src/cmd/upf/main.go (Start) runs over it, and the per-peer goroutines   *)
(* that loop creates: runLower of the peer's Transport, the association    *)
(* runner of endpoint/pfcpfsm.go and the peer's sendWorker.                *)
(*                                                                         *)
(* Every goroutine is a program counter and every unbuffered channel send  *)
(* a rendezvous of two of them:                                            *)
(*   rxPc      receive(): reading the socket, or blocked sending an event  *)
(*             on EventChannel or a datagram on peer.Receive;              *)
(*   txPc      send(): ranging sendChannel, or blocked on EventChannel     *)
(*             after a write error;                                        *)
(*   loop      Start's range over EventChannel, Recirculate, and Wait();   *)
(*   lower     runLower per peer, holding the datagram it handles;         *)
(*   runner    the association runner per peer;                            *)
(*   worker    sendWorker per peer, holding the reply it forwards.         *)
(* Handlers and the Responder table are abstracted (Association and        *)
(* Transport model them): a valid request reaches the runner, which        *)
(* answers it through EnterResponse.  Datagrams are "request" or          *)
(* "garbage" (what ParseValidate rejects).                                 *)
(*                                                                         *)
(* Wait() returns only when the runner exits, the runner exits only when   *)
(* RequestChan is closed, and only Drop, after Wait(), closes it; so Wait  *)
(* never returns and Drop/Unregister are not reachable from Start.  They   *)
(* have no action.                                                         *)
(***************************************************************************)
EXTENDS Naturals, Sequences, FiniteSets

CONSTANTS
    Peers,        \* source addresses (IP:port) datagrams arrive from
    MaxSends,     \* bound: datagrams each peer sends
    SocketErrors, \* whether ReadFromUDPAddrPort / WriteToUDPAddrPort may fail
    None

ASSUME SocketErrors \in BOOLEAN /\ MaxSends \in Nat

Kinds == {"request", "garbage"}
NoDatagram == [peer |-> None, kind |-> None]
Datagrams == [peer : Peers, kind : Kinds]

VARIABLES
    socket,          \* per source: datagrams queued in the kernel, in order
    sends,           \* per source: datagrams sent so far (bounded)
    requests,        \* per source: requests sent so far
    answered,        \* per source: replies written to the socket
    rxPc, rxMsg,     \* receive() and the datagram or event it holds
    txPc,            \* send()
    registeredPeers, \* UdpServer.registeredPeers (keys)
    loop,            \* Start: [pc, msg]
    lower,           \* runLower per peer: "none", "idle" or the kind it holds
    runner,          \* association runner per peer: "none", "idle", "busy"
    worker,          \* sendWorker per peer: "none", "idle", "busy"
    socketFailed     \* history: a socket call has failed

vars == <<socket, sends, requests, answered, rxPc, rxMsg, txPc,
          registeredPeers, loop, lower, runner, worker, socketFailed>>

peerVars == <<lower, runner, worker>>

TypeOK ==
    /\ socket \in [Peers -> Seq(Kinds)]
    /\ sends \in [Peers -> 0..MaxSends]
    /\ requests \in [Peers -> 0..MaxSends]
    /\ answered \in [Peers -> 0..MaxSends]
    /\ rxPc \in {"read", "event", "deliver", "error", "exit"}
    /\ rxMsg \in Datagrams \cup {NoDatagram}
    /\ txPc \in {"idle", "error"}
    /\ registeredPeers \subseteq Peers
    /\ loop \in [pc : {"range", "recirculate", "wait"},
                 msg : Datagrams \cup {NoDatagram}]
    /\ lower \in [Peers -> {"none", "idle"} \cup Kinds]
    /\ runner \in [Peers -> {"none", "idle", "busy"}]
    /\ worker \in [Peers -> {"none", "idle", "busy"}]
    /\ socketFailed \in BOOLEAN

\* NewUDPServer starts receive() and send(); Start ranges EventChannel.
Init ==
    /\ socket = [a \in Peers |-> << >>]
    /\ sends = [a \in Peers |-> 0]
    /\ requests = [a \in Peers |-> 0]
    /\ answered = [a \in Peers |-> 0]
    /\ rxPc = "read"
    /\ rxMsg = NoDatagram
    /\ txPc = "idle"
    /\ registeredPeers = {}
    /\ loop = [pc |-> "range", msg |-> NoDatagram]
    /\ lower = [a \in Peers |-> "none"]
    /\ runner = [a \in Peers |-> "none"]
    /\ worker = [a \in Peers |-> "none"]
    /\ socketFailed = FALSE

-----------------------------------------------------------------------------
(* The remote peers.                                                       *)

\* An SMF sends a request when its previous one is answered (doRequest is
\* a BlockingRequest); anything else that reaches the port is garbage.
PeerSend(a, k) ==
    /\ sends[a] < MaxSends
    /\ k = "request" => requests[a] = answered[a]
    /\ socket' = [socket EXCEPT ![a] = Append(@, k)]
    /\ sends' = [sends EXCEPT ![a] = @ + 1]
    /\ requests' = IF k = "request" THEN [requests EXCEPT ![a] = @ + 1]
                                    ELSE requests
    /\ UNCHANGED <<answered, rxPc, rxMsg, txPc, registeredPeers, loop,
                   peerVars, socketFailed>>

-----------------------------------------------------------------------------
(* receive().                                                              *)

\* Mutant: the registeredPeers lookup misses, so every datagram becomes a
\* UdpEventNewPeer.
ReadNoLookup(a) ==
    /\ rxPc = "read"
    /\ socket[a] # << >>
    /\ rxMsg' = [peer |-> a, kind |-> Head(socket[a])]
    /\ socket' = [socket EXCEPT ![a] = Tail(@)]
    /\ rxPc' = "event"
    /\ UNCHANGED <<sends, requests, answered, txPc, registeredPeers, loop,
                   peerVars, socketFailed>>

\* ReadFromUDPAddrPort returns a datagram; an unregistered source becomes a
\* UdpEventNewPeer, a registered one goes to its Receive channel.
Read(a) ==
    /\ rxPc = "read"
    /\ socket[a] # << >>
    /\ rxMsg' = [peer |-> a, kind |-> Head(socket[a])]
    /\ socket' = [socket EXCEPT ![a] = Tail(@)]
    /\ rxPc' = IF a \notin registeredPeers THEN "event" ELSE "deliver"
    /\ UNCHANGED <<sends, requests, answered, txPc, registeredPeers, loop,
                   peerVars, socketFailed>>

\* ReadFromUDPAddrPort fails: receive() sends UdpEventNetworkError, then
\* breaks out of its loop.
ReadError ==
    /\ SocketErrors
    /\ rxPc = "read"
    /\ rxPc' = "error"
    /\ socketFailed' = TRUE
    /\ UNCHANGED <<socket, sends, requests, answered, rxMsg, txPc,
                   registeredPeers, loop, peerVars>>

\* peer.Receive <- msg: runLower of the peer takes it.
Deliver(a) ==
    /\ rxPc = "deliver"
    /\ rxMsg.peer = a
    /\ lower[a] = "idle"
    /\ lower' = [lower EXCEPT ![a] = rxMsg.kind]
    /\ rxPc' = "read"
    /\ rxMsg' = NoDatagram
    /\ UNCHANGED <<socket, sends, requests, answered, txPc, registeredPeers,
                   loop, runner, worker, socketFailed>>

-----------------------------------------------------------------------------
(* Start (cmd/upf/main.go), ranging over EventChannel.                      *)

\* Register: Send and Receive channels, the registeredPeers entry (written
\* without a lock; receive() is the only reader), go sendWorker.
Register(a) ==
    /\ registeredPeers' = registeredPeers \cup {a}
    /\ worker' = [worker EXCEPT ![a] = "idle"]

\* NewTransport: the Requestor and Responder tables, go runLower.
NewTransport(a) == lower' = [lower EXCEPT ![a] = "idle"]

\* PfcpEndpoint.Peer: Register, then a Transport over the new channels.
Peer(a) == Register(a) /\ NewTransport(a)

\* NewPfcpAssociationState: go runner(), then exit.Lock().
NewPfcpAssociationState(a) == runner' = [runner EXCEPT ![a] = "idle"]

\* case UdpEventNewPeer: localEndpoint.Peer(addr), then Recirculate(payload).
LoopNewPeer ==
    /\ loop.pc = "range"
    /\ rxPc = "event"
    /\ Peer(rxMsg.peer)
    /\ loop' = [pc |-> "recirculate", msg |-> rxMsg]
    /\ rxPc' = "read"
    /\ rxMsg' = NoDatagram
    /\ UNCHANGED <<socket, sends, requests, answered, txPc, runner,
                   socketFailed>>

\* Recirculate: peer.Receive <- payload, a send that races receive()'s own
\* deliveries to the same channel.  Then NewPfcpAssociationState, and
\* upfFsm.Wait() blocks on the exit lock.
LoopRecirculate ==
    /\ loop.pc = "recirculate"
    /\ LET a == loop.msg.peer IN
         /\ lower[a] = "idle"
         /\ lower' = [lower EXCEPT ![a] = loop.msg.kind]
         /\ NewPfcpAssociationState(a)
    /\ loop' = [pc |-> "wait", msg |-> NoDatagram]
    /\ UNCHANGED <<socket, sends, requests, answered, rxPc, rxMsg, txPc,
                   registeredPeers, worker, socketFailed>>

\* The goroutines blocked sending a UdpEventNetworkError.
ErrorSenders ==
    {g \in {"receive", "send"} : IF g = "receive" THEN rxPc = "error"
                                                 ELSE txPc = "error"}

\* case UdpEventNetworkError: logged.  receive() then exits its loop, send()
\* takes its next message.
LoopNetworkError ==
    /\ loop.pc = "range"
    /\ \E g \in ErrorSenders :
         /\ rxPc' = IF g = "receive" THEN "exit" ELSE rxPc
         /\ txPc' = IF g = "send" THEN "idle" ELSE txPc
    /\ UNCHANGED <<socket, sends, requests, answered, rxMsg, registeredPeers,
                   loop, peerVars, socketFailed>>

-----------------------------------------------------------------------------
(* The peer's goroutines.                                                  *)

\* runLower: ParseValidate rejects the datagram; it is logged and dropped.
LowerDiscard(a) ==
    /\ lower[a] = "garbage"
    /\ lower' = [lower EXCEPT ![a] = "idle"]
    /\ UNCHANGED <<socket, sends, requests, answered, rxPc, rxMsg, txPc,
                   registeredPeers, loop, runner, worker, socketFailed>>

\* runLower: handleRequest records the sequence number and surfaces the
\* request with r.requestChannel <- request: the runner takes it.
LowerHandle(a) ==
    /\ lower[a] = "request"
    /\ runner[a] = "idle"
    /\ lower' = [lower EXCEPT ![a] = "idle"]
    /\ runner' = [runner EXCEPT ![a] = "busy"]
    /\ UNCHANGED <<socket, sends, requests, answered, rxPc, rxMsg, txPc,
                   registeredPeers, loop, worker, socketFailed>>

\* Mutant: the runner keeps the request and sends its reply again.
RunnerReplyRepeats(a) ==
    /\ runner[a] = "busy"
    /\ worker[a] = "idle"
    /\ worker' = [worker EXCEPT ![a] = "busy"]
    /\ UNCHANGED <<socket, sends, requests, answered, rxPc, rxMsg, txPc,
                   registeredPeers, loop, lower, runner, socketFailed>>

\* The runner's handler builds the reply and EnterResponse sends it on the
\* peer's Send channel: sendWorker takes it.
RunnerReply(a) ==
    /\ runner[a] = "busy"
    /\ worker[a] = "idle"
    /\ runner' = [runner EXCEPT ![a] = "idle"]
    /\ worker' = [worker EXCEPT ![a] = "busy"]
    /\ UNCHANGED <<socket, sends, requests, answered, rxPc, rxMsg, txPc,
                   registeredPeers, loop, lower, socketFailed>>

-----------------------------------------------------------------------------
(* sendWorker forwards to sendChannel; send() writes the datagram.        *)

\* out <- m meets send(), and WriteToUDPAddrPort succeeds.
SendWrite(a) ==
    /\ worker[a] = "busy"
    /\ txPc = "idle"
    /\ worker' = [worker EXCEPT ![a] = "idle"]
    /\ answered' = [answered EXCEPT ![a] = @ + 1]
    /\ UNCHANGED <<socket, sends, requests, rxPc, rxMsg, txPc,
                   registeredPeers, loop, lower, runner, socketFailed>>

\* out <- m meets send(), the write fails, and send() blocks sending
\* UdpEventNetworkError on EventChannel.
SendWriteError(a) ==
    /\ SocketErrors
    /\ worker[a] = "busy"
    /\ txPc = "idle"
    /\ worker' = [worker EXCEPT ![a] = "idle"]
    /\ txPc' = "error"
    /\ socketFailed' = TRUE
    /\ UNCHANGED <<socket, sends, requests, answered, rxPc, rxMsg,
                   registeredPeers, loop, lower, runner>>

-----------------------------------------------------------------------------

Next ==
    \/ \E a \in Peers, k \in Kinds : PeerSend(a, k)
    \/ ReadError
    \/ LoopNewPeer
    \/ LoopRecirculate
    \/ LoopNetworkError
    \/ \E a \in Peers :
         \/ Read(a)
         \/ Deliver(a)
         \/ LowerDiscard(a)
         \/ LowerHandle(a)
         \/ RunnerReply(a)
         \/ SendWrite(a)
         \/ SendWriteError(a)

\* Every goroutine step is weakly fair: the Go scheduler runs a runnable
\* goroutine and the kernel hands a queued datagram to a waiting read.  The
\* peers and socket failures owe nothing.
Spec ==
    /\ Init /\ [][Next]_vars
    /\ WF_vars(LoopNewPeer) /\ WF_vars(LoopRecirculate)
    /\ WF_vars(LoopNetworkError)
    /\ \A a \in Peers :
         /\ WF_vars(Read(a)) /\ WF_vars(Deliver(a))
         /\ WF_vars(LowerDiscard(a)) /\ WF_vars(LowerHandle(a))
         /\ WF_vars(RunnerReply(a))
         /\ WF_vars(SendWrite(a) \/ SendWriteError(a))

-----------------------------------------------------------------------------
(* Properties.                                                             *)

\* Once a peer's association runner is running, every request the peer
\* sends is eventually answered, unless the socket has failed: receive()
\* hands each datagram of a registered source to the peer's runLower, the
\* runner answers through EnterResponse, and sendWorker and send() write
\* the reply (spec 4.5, 4.7: one association per peer, serviced by its own
\* runner).  Before the runner runs, Start's Recirculate and receive() race
\* for runLower; that race is left out of this property (see README).
RequestsServed ==
    \A a \in Peers :
        runner[a] # "none" /\ requests[a] > answered[a]
            ~> (requests[a] = answered[a] \/ socketFailed)

=============================================================================
