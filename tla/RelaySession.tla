---------------------------- MODULE RelaySession ----------------------------
(***************************************************************************)
(* One TCP-tunnel relay per terminated flow, from the dial to the close,   *)
(* across the three layers that share it:                                  *)
(*   - the terminator's connection (rust/sangfor-core/src/terminator.rs),  *)
(*     seen here only through the effects it asks for and the calls it     *)
(*     gets; Terminator.tla models it in full;                             *)
(*   - the plane's relay (relay.rs and the relay half of plane.rs), which  *)
(*     runs the gateway's handshake and holds what comes too early;        *)
(*   - the host's channel (rust/sangfor-host/src/host.rs): the connect     *)
(*     worker, the socket and the backlog the socket has not taken yet.    *)
(* The host applies the effects of one plane call, in order, before it     *)
(* makes the next call, so a call and its effects are one step.            *)
(*                                                                         *)
(* Dials and nodes connect on worker threads out of one budget.  The host  *)
(* keeps it as a counter of its own, beside the workers that it counts.    *)
(*                                                                         *)
(* A relay runs raw (the plane never asks for zero-RTT).  The client's     *)
(* bytes are numbered 1, 2, ...; Auth stands for the signed opening        *)
(* message.  The gateway is external.                                      *)
(***************************************************************************)
EXTENDS Naturals, Sequences, FiniteSets

CONSTANTS
    Dials,               \* correlation ids of the terminator's dials
    MaxBytes,            \* bound: bytes a client sends on one flow
    MaxReplies,          \* bound: bytes a gateway sends on one relay
    MaxPendingConnects   \* max_pending_connects

ASSUME RelayAssumption ==
    /\ MaxBytes \in Nat /\ MaxReplies \in Nat
    /\ MaxPendingConnects \in Nat

VARIABLES
    session,    \* dial -> the state of its three layers and of its gateway
    running,    \* the host loop has not been stopped
    connects_pending,  \* the host's count of connects in flight
    node_connects      \* connect workers that run for nodes

connects == <<connects_pending, node_connects>>
vars == <<session, running, connects>>

Auth == 0
Item == Nat
Bytes == Item \ {Auth}

Tcp == {"none", "dialing", "up", "draining", "gone"}
RelayState == {"none", "connecting", "handshaking", "open"}

Session ==
    [tcp : Tcp,                    \* the terminator's connection
     fin : BOOLEAN,                \* it has taken the client's FIN
     taken : Nat,                  \* client bytes it has acknowledged
     pending : Seq(Item),          \* pending_for_upstream
     relay : RelayState,           \* the plane's relay
     held : Seq(Item),             \* bytes held until the hello
     connect : {"none", "inflight", "settled"},
     chan : {"none", "open", "closed"},
     backlog : Seq(Item),          \* queued, not yet taken by the socket
     paused : BOOLEAN,             \* the host does not read the channel
     shut : BOOLEAN,               \* the write side is closed
     wire : Seq(Item),             \* what the gateway was sent
     hello : {"none", "accepted", "refused", "garbled"},
     replied : Nat,                \* bytes the gateway sent after its hello
     got : Nat]                    \* bytes the terminator was handed

NewSession ==
    [tcp |-> "none", fin |-> FALSE, taken |-> 0, pending |-> <<>>,
     relay |-> "none", held |-> <<>>, connect |-> "none", chan |-> "none",
     backlog |-> <<>>, paused |-> FALSE, shut |-> FALSE, wire |-> <<>>,
     hello |-> "none", replied |-> 0, got |-> 0]

FlowLives(s) == s.tcp \in {"dialing", "up", "draining"}

-----------------------------------------------------------------------------
(* Effects on one session.                                                 *)

(* RelaySend at the host: bytes for a dial without a channel are dropped.  *)
Queue(s, items) ==
    IF s.chan = "open" THEN [s EXCEPT !.backlog = @ \o items] ELSE s

(* RelaySend at the plane: held until the gateway's hello.                 *)
push_relay_send_eager(s, bytes) ==  \* mutant: does not wait for the hello
    IF s.relay = "none" THEN s ELSE Queue(s, bytes)
push_relay_send(s, bytes) ==
    CASE s.relay = "none" -> s
      [] s.relay = "open" -> Queue(s, bytes)
      [] OTHER            -> [s EXCEPT !.held = @ \o bytes]

(* RelayClose: the relay is forgotten and its channel, if any, dropped.    *)
RelayClose(s) ==
    [s EXCEPT !.relay = "none", !.held = <<>>, !.backlog = <<>>,
              !.chan = IF @ = "open" THEN "closed" ELSE @]

(* The terminator disposes of the connection of a dial.                    *)
Dispose_keeping(s) ==  \* mutant: the relay and its channel stay
    IF FlowLives(s) THEN [s EXCEPT !.tcp = "gone", !.pending = <<>>] ELSE s
Dispose(s) ==
    IF FlowLives(s)
    THEN RelayClose([s EXCEPT !.tcp = "gone", !.pending = <<>>])
    ELSE s

(* on_dial_failed: the relay is forgotten, the client is reset.            *)
on_dial_failed_aborted(s) ==  \* mutant: the relay is aborted, not removed
    Dispose([s EXCEPT !.relay = "aborted", !.held = <<>>])
on_dial_failed(s) == Dispose([s EXCEPT !.relay = "none", !.held = <<>>])

(* on_relay_closed: the relay is forgotten, the connection drains what it  *)
(* still owes the client.                                                  *)
on_relay_closed(s) ==
    [s EXCEPT !.relay = "none", !.held = <<>>,
              !.tcp = IF FlowLives(s) THEN "draining" ELSE @]

(* The channel ended under the host: the plane is told, then it is dropped *)
channel_ended(s) ==
    [on_relay_closed(s) EXCEPT !.chan = "closed", !.backlog = <<>>]

(* on_dial_connected: the opening message goes out first, and the bytes    *)
(* that waited for the dial queue up behind the hello.  A dial whose relay *)
(* is gone is only reported.                                               *)
on_dial_connected_dropping(s) ==  \* mutant: waiting bytes are dropped
    IF s.relay = "none" THEN s
    ELSE [Queue(s, <<Auth>>) EXCEPT !.relay = "handshaking", !.tcp = "up",
                                    !.pending = <<>>]
on_dial_connected(s) ==
    IF s.relay = "none" THEN s
    ELSE [Queue(s, <<Auth>>) EXCEPT
             !.relay = "handshaking", !.tcp = "up",
             !.held = @ \o s.pending, !.pending = <<>>]

(* The gateway's hello opens the relay and releases what was held.         *)
Opened_forgetful(s) == [s EXCEPT !.relay = "open", !.held = <<>>]  \* mutant
Opened(s) == [Queue(s, s.held) EXCEPT !.relay = "open", !.held = <<>>]

Admits(hello) == hello = "accepted"

-----------------------------------------------------------------------------
Init == /\ running = TRUE /\ session = [d \in Dials |-> NewSession]
        /\ connects_pending = 0 /\ node_connects = 0

Become(d, s) == session' = [session EXCEPT ![d] = s] /\ UNCHANGED running

Inflight == {d \in Dials : session[d].connect = "inflight"}

MayConnect == connects_pending < MaxPendingConnects

(* The counter goes up before a worker is spawned, and down when one has   *)
(* reported or could not be spawned.                                       *)
Less(n) == IF n > 0 THEN n - 1 ELSE 0

WorkerStarts ==
    connects_pending' = connects_pending + 1 /\ UNCHANGED node_connects
WorkerReports ==
    connects_pending' = Less(connects_pending) /\ UNCHANGED node_connects
WorkerRefused ==
    connects_pending' = Less(connects_pending + 1) /\ UNCHANGED node_connects

(* The terminator claims a SYN: the relay is registered and the host       *)
(* starts a connect worker.  It refuses when too many are in flight, and   *)
(* the system may refuse it the thread.                                    *)
Dial(d) ==
    LET s == [session[d] EXCEPT !.tcp = "dialing", !.relay = "connecting",
                                !.held = <<>>]
        refused == on_dial_failed([s EXCEPT !.connect = "settled"])
    IN  /\ running /\ session[d].tcp = "none"
        /\ \/ /\ MayConnect /\ Become(d, [s EXCEPT !.connect = "inflight"])
              /\ WorkerStarts
           \/ MayConnect /\ Become(d, refused) /\ WorkerRefused
           \/ ~MayConnect /\ Become(d, refused) /\ UNCHANGED connects

(* A client's bytes: kept while the dial is in flight, else relayed.       *)
ClientData(d) ==
    LET s == session[d]
        n == s.taken + 1
    IN  /\ running /\ FlowLives(s) /\ ~s.fin /\ n <= MaxBytes
        /\ Become(d,
             IF s.tcp = "dialing"
             THEN [s EXCEPT !.taken = n, !.pending = Append(@, n)]
             ELSE push_relay_send([s EXCEPT !.taken = n], <<n>>))
        /\ UNCHANGED connects

(* A client's FIN: RelayCloseWrite, which the host applies at once.        *)
ClientFin(d) ==
    LET s == session[d]
    IN  /\ running /\ FlowLives(s) /\ ~s.fin
        /\ Become(d, [s EXCEPT !.fin = TRUE,
                        !.shut = @ \/ (s.tcp # "dialing" /\ s.chan = "open")])
        /\ UNCHANGED connects

(* The connection ends: reset, idle, given up, or both FINs acknowledged.  *)
FlowEnds(d) == /\ running /\ FlowLives(session[d])
               /\ Become(d, Dispose(session[d])) /\ UNCHANGED connects

(* The terminator's queue fills, or drains again.                          *)
Throttle(d) ==
    LET s == session[d]
    IN  /\ running /\ s.tcp \in {"up", "draining"} /\ s.chan = "open"
        /\ Become(d, [s EXCEPT !.paused = ~@]) /\ UNCHANGED connects

(* A connect worker hands back an open socket; the poller may refuse it,   *)
(* and the plane may be unable to build the opening message.               *)
Connected(d) ==
    LET s == [session[d] EXCEPT !.connect = "settled", !.chan = "open"]
    IN  /\ running /\ session[d].connect = "inflight"
        /\ \/ Become(d, on_dial_connected(s))
           \/ Become(d, on_dial_failed([s EXCEPT !.chan = "closed"]))
           \/ s.relay # "none" /\ Become(d, Dispose(s))
        /\ WorkerReports

ConnectFailed(d) ==
    /\ running /\ session[d].connect = "inflight"
    /\ Become(d, on_dial_failed([session[d] EXCEPT !.connect = "settled"]))
    /\ WorkerReports

(* A node is dialled, or its worker reports: what that does to the node is *)
(* in Nodes.tla, here it takes its share of the budget.                    *)
NodeDials ==
    /\ running /\ MayConnect
    /\ connects_pending' = connects_pending + 1
    /\ node_connects' = node_connects + 1
    /\ UNCHANGED <<session, running>>

NodeReports ==
    /\ running /\ node_connects > 0
    /\ connects_pending' = Less(connects_pending)
    /\ node_connects' = node_connects - 1
    /\ UNCHANGED <<session, running>>

(* The socket takes the head of the backlog.                               *)
SocketWrites(d) ==
    LET s == session[d]
    IN  /\ running /\ s.chan = "open" /\ s.backlog # <<>> /\ ~s.shut
        /\ Become(d, [s EXCEPT !.wire = Append(@, Head(s.backlog)),
                               !.backlog = Tail(@)])
        /\ UNCHANGED connects

(* The gateway answers the opening message (external).                     *)
GatewayHello(d) ==
    LET s == session[d]
    IN  /\ running /\ s.chan = "open" /\ s.hello = "none" /\ s.wire # <<>>
        /\ \E h \in {"accepted", "refused", "garbled"} :
              Become(d, [s EXCEPT !.hello = h])
        /\ UNCHANGED connects

GatewayReplies(d) ==
    LET s == session[d]
    IN  /\ running /\ s.chan = "open" /\ s.hello = "accepted"
        /\ s.replied < MaxReplies
        /\ Become(d, [s EXCEPT !.replied = @ + 1]) /\ UNCHANGED connects

(* The host reads the channel: the hello with whatever follows it, or      *)
(* payload.  The first bytes open the relay and release what was held,     *)
(* ahead of the reply; a refusal or a malformed hello fails the dial.      *)
ReadChannel(d) ==
    LET s == session[d]
    IN  /\ running /\ s.chan = "open" /\ ~s.paused
        /\ \/ /\ s.relay = "handshaking" /\ Admits(s.hello)
              /\ \E n \in s.got .. s.replied :
                    Become(d, [Opened(s) EXCEPT !.got = n])
           \/ /\ s.relay = "handshaking" /\ s.hello # "none"
              /\ ~Admits(s.hello) /\ Become(d, Dispose(s))
           \/ /\ s.relay = "open"
              /\ \E n \in s.got + 1 .. s.replied :
                    Become(d, [s EXCEPT !.got = n])
        /\ UNCHANGED connects

(* The peer closes, or a read or a write fails.  A write on a side that    *)
(* was shut fails.                                                         *)
ChannelEnds(d) == /\ running /\ session[d].chan = "open"
                  /\ Become(d, channel_ended(session[d]))
                  /\ UNCHANGED connects

(* The host stops: the plane closes every flow, then every channel goes.   *)
Stop ==
    /\ running /\ running' = FALSE /\ UNCHANGED connects
    /\ session' = [d \in Dials |->
          [Dispose(session[d]) EXCEPT
             !.chan = IF @ = "open" THEN "closed" ELSE @, !.backlog = <<>>]]

Next ==
    \/ \E d \in Dials :
          \/ Dial(d) \/ ClientData(d) \/ ClientFin(d) \/ FlowEnds(d)
          \/ Throttle(d) \/ Connected(d) \/ ConnectFailed(d)
          \/ SocketWrites(d) \/ GatewayHello(d) \/ GatewayReplies(d)
          \/ ReadChannel(d) \/ ChannelEnds(d)
    \/ NodeDials \/ NodeReports \/ Stop

Spec == Init /\ [][Next]_vars

(* The socket takes what is queued, the loop reads what has arrived.       *)
FairSpec == Spec /\ \A d \in Dials : /\ WF_vars(SocketWrites(d))
                                     /\ WF_vars(ReadChannel(d))

-----------------------------------------------------------------------------
(* Properties.                                                             *)

TypeOK == /\ session \in [Dials -> Session] /\ running \in BOOLEAN
          /\ connects_pending \in Nat /\ node_connects \in Nat

(* No payload is on the wire, or queued for it, before the gateway has     *)
(* accepted the opening message and the plane has read that (relay.rs).    *)
NothingBeforeHello ==
    \A d \in Dials : LET s == session[d] IN
       \A i \in 1 .. Len(s.wire \o s.backlog) :
          (s.wire \o s.backlog)[i] # Auth => s.hello = "accepted"

(* The gateway sees one opening message and then the client's bytes from   *)
(* the first one on, in order and without a hole: held, pending and        *)
(* backlogged bytes never overtake one another.                            *)
WireInOrder ==
    \A d \in Dials : \A i \in 1 .. Len(session[d].wire) :
       session[d].wire[i] = i - 1

(* While a flow is up every byte the client had acknowledged is in exactly *)
(* one place on its way to the gateway.                                    *)
NothingLostWhileUp ==
    \A d \in Dials : LET s == session[d]
                         all == s.wire \o s.backlog \o s.held \o s.pending
       IN  s.tcp = "up" =>
              /\ Len(all) = s.taken + 1
              /\ \A i \in 1 .. Len(all) : all[i] = i - 1

(* A relay belongs to a live connection, and a connection whose dial has   *)
(* completed has its relay until its channel ends: no flow waits for a     *)
(* relay that no one will open.                                            *)
RelayHasFlow ==
    \A d \in Dials : LET s == session[d] IN
       /\ s.relay # "none" => s.tcp \in {"dialing", "up"}
       /\ s.tcp = "dialing" => s.relay = "connecting" /\ s.connect = "inflight"
       /\ s.tcp = "up" => s.relay \in {"handshaking", "open"} /\ s.chan = "open"

(* Held bytes wait for nothing but the hello: an open relay holds none.    *)
HeldOnlyForHello ==
    \A d \in Dials : session[d].held # <<>> => session[d].relay = "handshaking"

(* A refused relay never carries payload in either direction.              *)
RefusedCarriesNothing ==
    \A d \in Dials : LET s == session[d] IN
       s.hello \in {"refused", "garbled"} =>
          s.got = 0 /\ Len(s.wire) <= 1 /\ s.relay # "open"

(* The counter says how many workers there are: no dial that is closed     *)
(* under its worker, refused, failed or adopted late makes it drift from   *)
(* them, up (dials refused for ever) or down (workers without a bound).    *)
ConnectsCounted ==
    connects_pending = Cardinality(Inflight) + node_connects

(* The workers there are, for dials and nodes together, stay within the    *)
(* host's budget, though it looks at its counter only.                     *)
ConnectBudget == Cardinality(Inflight) + node_connects <= MaxPendingConnects

(* What the client sent reaches the gateway once the gateway accepted the  *)
(* relay, unless the client's side or the channel ends first.              *)
CarriedAfterHello ==
    \A d \in Dials, n \in 1 .. MaxBytes :
       (session[d].tcp = "up" /\ session[d].hello = "accepted"
          /\ session[d].taken >= n)
       ~> \/ Len(session[d].wire) > n
          \/ session[d].tcp # "up" \/ session[d].shut \/ session[d].paused
          \/ ~running
=============================================================================
