# Verification of the Sangfor tunnel

TLA+ models of the Rust tunnel of `flutter_sangfor`: the data plane
(`src/rust/sangfor-core`), the host loop it runs in (`sangfor-host`,
`sangfor-tun`), the daemon around it (`sangfor-tunneld`) and its C interface
(`sangfor-ffi`), with the configurations that model-check them and proofs.
`terminator.rs`, `plane.rs`, ... below are in `rust/sangfor-core/src/`,
`host.rs` and `channel.rs` in `rust/sangfor-host/src/`, `runtime.rs`,
`control.rs`, `netconfig.rs`, `service.rs` in `rust/sangfor-tunneld/src/`,
`lib.rs` is `rust/sangfor-ffi/src/lib.rs` unless said otherwise.

    tlc -config TermFlows.cfg MCTerminator.tla    # any run of PROJECT.json
    tlapm SupervisorProofs.tla                    # the proofs of a module

## 1. The system

A local stack (the kernel, through a TUN device) hands raw IP packets to the
tunnel. The data plane (`plane.rs`) routes each one: to a *node connection*,
which carries raw IP to the gateway under a per-flow token, or, when the
gateway would not forward it, to the *TCP terminator*, which plays the server
of that TCP connection and carries its bytes in a *relay* of the TCP tunnel.
The plane does no I/O. Every call returns a list of effects, which its host
applies: the single-threaded loop of `host.rs`, or a foreign program behind
the C interface. Sockets are opened by one short-lived thread per connect,
which reports back through a command queue. A daemon owns at most one such
session and starts and stops it for its control clients.

| component | state | operations | what is hard | what makes it correct |
|---|---|---|---|---|
| TCP terminator `terminator.rs` | vector of connections: sequence numbers, unacknowledged segments, send queue, bytes held for the dial, flags, timers | packet in, dial connected/failed, relay data/closed, tick, close | wrapping sequence numbers, loss, repetition, reordering, entries removed while an index is held, ends of both directions crossing, back-pressure | both byte streams whole and in order; what is acknowledged is kept; each dial released once; nothing hangs |
| Relay `relay.rs`, `plane.rs` | handshake state, held bytes | start, receive, send, flush, abort | the client's first flight is ready before the gateway is | nothing before the hello, then everything, in order |
| Host channels `host.rs`, `channel.rs` | channels and backlogs, connects in flight, pauses | connect, adopt, queue, flush, half-close, close | the result of a connect nobody wants any more; partial writes | channels match what the plane believes; budget kept |
| Node connections `plane.rs`, `l3.rs` | vector of nodes: state, decoder, misses, deadlines | open, handshake, frames, heartbeat, retry, close | late events, silent gateways, undecodable bytes, retries | drops are retried; no channel leaks; the dead are noticed |
| Flow table and auth `flow.rs`, `plane.rs` | vector of flows: state, cached packets, token, deadlines | create, cache, evict, expire, ask, answer, retry | late, repeated and missing answers; flows forgotten and created again | packets in order and once, with a token of their own flow; a silent gateway is given up |
| L3 and tunnel framing `l3.rs`, `tcp_tunnel.rs`, `packet.rs` | decoder buffers | push | partial reads, leftover bytes, faults | what is decoded does not depend on the chunks |
| Session plan, routes `plan.rs`, `route.rs` | immutable | parse, look up | several readings of one route table that must agree | a packet travels as it was published |
| Host loop `host.rs`, `device.rs`, `channel.rs` | poll tokens, packet queue, command queue, interests | poll, drain, pump, flush, stop | a bounded queue between threads, edge-triggered readiness, joins | no wake-up lost, packets accounted for, it ends when told |
| Daemon runtime `runtime.rs`, `control.rs`, `transport.rs`, `main.rs` | session, generation, inbox, report, clients | start, stop, exit, ended, hang-up | racing starts, sessions that end by themselves, late reports | one tunnel at a time, a report of its own, an answer for everyone |
| Daemon configuration `config.rs`, `netconfig.rs`, `service.rs` | none | merge, exclude, split, quote | boundaries of blocks, quoting twice | no route captures a node; a command line survives |
| FFI `lib.rs` | handle, two mutexes, callback, runtime thread | start, calls, write, stop | any thread may call; stop against the runtime thread | a call's effects stay together; silence after stop |
| Crypto, JSON, errors; TLS handshake; TUN system calls | none of interest | conversions | | |
| Dart packages (aTrust, EasyConnect, tunnel daemon client, terminator, proxies, devices), iOS, Android, OpenHarmony, Windows, Linux adapters | mirrors of the above, platform glue | | awaits between check and use | |

How they interact: stack -> plane (packet) -> terminator or flow table/node;
plane -> host (effects: connect, dial, send, pause, half-close, close, emit);
connect worker -> host (command) -> plane (connected, failed); socket -> host
-> plane (data, closed); clock -> plane (tick, at `next_deadline`); device
reader -> host (bounded queue, wake); control client -> supervisor (inbox) ->
session (stop handle) -> supervisor (`Ended`); session -> report -> clients.

PROJECT.json lists each component with its status, and the hazards of this
code at their lines with the properties about them.

## 2. Modules

| module | models | state in the code |
|---|---|---|
| `Terminator` | `terminator.rs` in full, and the sequence arithmetic of `packet.rs` | `connections` is `TcpTerminator::connections`, in its order; `next_dial`; `closed` |
| `RelayedFlow` | what a terminated flow promises its relay: the abstract specification `Terminator` implements | - |
| `RelaySession` | one relay through its three layers: the terminator's connection, `relay.rs` with the relay half of `plane.rs`, the channel in `host.rs` | `session[d]`: `tcp`, `pending` (terminator), `relay`, `held` (relay), `connect`, `chan`, `backlog`, `paused`, `shut` (host); `connects_pending`, the host's counter, beside the workers it counts |
| `Nodes` | the node half of `plane.rs` with the host's channels | `nodes` is `DataPlane::nodes`; `channel` the host's token table |
| `FlowAuth` | `flow.rs` and the flow half of `plane.rs` | `table` is `FlowTracker::flows`, `next_id`; `links` the Active nodes |
| `Framing` | what is read from the gateway: `HandshakeParser`, `FrameDecoder`, `split_incoming_packets`, `HandshakeDecoder`, `PayloadDecoder`, and the code of the plane and the relay that passes bytes from one to the next | `decoder`: the buffers and stage of one channel |
| `HostLoop` | `Host::run` with what it calls, the reader thread, a connect worker, the TLS channel, `HostHandle::stop` | `at`, `budget`: where the loop is; `queue`, `waker`, `running`; `channel`: a slot with its socket and TLS session |
| `Supervisor` | `supervise`, `spawn_session`, `dispatch`, the listener, the session workers and configurators | `inbox`, `session`, `generation`, `running`, `snapshot`, `listener`, `stdin_open`; `deaf`: the accept thread ended |
| `Ffi` | every call of `lib.rs`, `dispatch`, the runtime thread | `handle`, `callbacks` (the mutex and its holder), `handler`, `running`; `thread[t]`: where a thread is |
| `Setup` | decisions from documents: the interface's routes, the way of a packet, the logon task's command line | `case` and `answer`: the documents, and what was decided |
| `Tables` | how a vector is filtered in place (`Vec::retain`): used by `Terminator` and `FlowAuth` | - |
| `...Proofs` | theorems about the module they are named for, and their proofs; `TablesProofs` has those about `Tables` | - |
| `MC...` | the threads, keys, groups, dials and documents of the runs | - |

Each handler of the code is one action (its name is the code's, where there is
one), with everything it calls: `handle` in `Terminator` runs acknowledgement,
payload, FIN, flush and finish in the code's order, by index in the same vector,
so that what happens when an entry is removed half-way is what happens in the
code. In the data plane a call with its effects is one step, since the host's
loop is single-threaded and applies them before its next call; the connect
workers, the sockets, the gateway and the local stack take steps of their own,
anywhere between two calls. Where threads meet, the steps are smaller: in
`HostLoop` one drained item, one read, one flush or one stage of the loop is a
step; in `Ffi` taking the callback's mutex, each delivered effect and releasing
it are; in `Supervisor` each message, the two halves of a start and of a stop,
and each step of a client, a worker and a configurator.

Abstractions. Bytes are numbered by their place in their stream, so order, loss
and repetition show, and contents do not (`Framing` is the exception: there a
byte is a number, since lengths are read from the stream). Packets are records.
In `Terminator` and `Nodes` an armed timer may fire at any moment (no clock):
every order of timer and message is then possible, which covers all values of
the intervals; the idle deadline is always armed. `FlowAuth` compares deadlines
with one another, so it has a clock. In `Nodes` the codec is reduced to what
the node sees of it: a frame, not yet a frame, or bytes that are no frame,
after which the decoder is stuck (`l3.rs:165-173`: the buffer is not drained on
an error). In `FlowAuth` an answer that echoes no live id gives a description,
the set of flows it would fit: none (another `atype`, no `ip`), or some with
the two addresses of the flow it answers, that one among them (ports and
protocol are optional, `plane.rs:827-864`); the first flow of the table that
fits takes it. A token stands for the flow it was asked for and for whether its
answer left any choice (`exact`). Relays are raw: every caller dials without
zero-RTT (`relay.rs:19-21`). What a node connect does to its node is in
`Nodes`; in `RelaySession` it takes its share of the budget. In `HostLoop` one
channel stands for all, because the loop keeps nothing between two of them, a
call of the plane returns one effect of any kind, and any read or write may
fail, which ends the channel. In `Supervisor` of the report is kept which
session wrote the gateway's part of it last; the interface's part is left out
(observation 16). A loop may panic, which ends the process in a build that
aborts (the release profile, `rust/Cargo.toml:51`) and the thread alone in one
that unwinds: `Panics` says which builds are meant. In `Setup` addresses have
three bits, a node's name is not itself an address (`dial_host` passes such a
name on as it is, `plane.rs:248-250`), and a behaviour is one decision, from any
of the documents.

Variables that are not in the code record what the other side has seen:
`upstream` and `client` in `Terminator`; `taken`, `wire`, `hello`, `replied`,
`got` and `node_connects` in `RelaySession`; `gateway` in `Nodes`; `offered`, `carried` and the
fields `asked` and `answered` in `FlowAuth`; `delivered` and `wrote` in `Ffi`;
`taken` and `handled` in `HostLoop`; `told` in `Supervisor`. They are what the
properties compare the code's state with.

## 3. Runs

| run | distinct states | question |
|---|---|---|
| `TermFlows` | 74 k | Three families of clients (below). What reaches the relay is the client's stream, what is acknowledged is kept, the send queue and the unacknowledged segments are one gapless tail of the relay's stream, the FIN is behind all of it, each dial is released once, a reader gets everything, what waits for an acknowledgement gets it or is given up (a lost FIN excepted), and `Terminator` implements `RelayedFlow` |
| `Relays` | 780 k | Two relays and node connects, a budget of one connect: the layers agree, nothing precedes the hello, the wire carries the stream in order, nothing is lost while the flow is up, and what waited is carried |
| `NodeTable` | 42 k | Two groups: states and channels agree, idle silence and endless handshakes end, dropped groups come back |
| `FlowTable` | 1.55 M | One five-tuple over two connections, two, and three in a table of two, with answers that name a flow or fit several: packets in order and once, requests timed and one at a time, tokens of their own flow where the answer tells it, a silent gateway given up |
| `FfiCalls` | 60 k | Two threads of the host and the runtime thread: whole batches, no packet taken and reported declined, an end of `sangfor_stop` and silence after it |
| `Daemon` | 1.37 M | A client on stdin and one on the socket, two sessions that may fail, panic or end at any moment, a socket that may stop accepting: one tunnel, its own report, a supervisor somebody can reach (two named ends excepted), a verdict for everyone |
| `HostThreads` | 228 k | The loop, the reader, a connect, a socket that may fail and a thread that stops: packets accounted for, no sleep on packets, no readiness slept through, no pending bytes left, an end |
| `Framing` | 19 k | 288 streams cut into chunks in every way: what is decoded is what was sent, and nothing past a fault |
| `Setup` | 415 k | Every small interface document, route table and path: routes leave out the nodes and nothing else, packets travel as published, a command line quoted twice is read back |
| `FindShortHole`, `FindOtherFlow`, `FindReentry` | - | the findings of section 5 |

Every run has `CHECK_DEADLOCK FALSE`: these systems may stop (the session is
closed, the handle freed, the bounded clients have said everything).

Each property of a run comes with a *mutant*: a changed definition, the way a
plausible bug in that code would change it (a dropped guard, a swapped order, a
missing reset), under which the run finds the property violated. They are
defined in the modules next to what they change, and listed in PROJECT.json.

### Bounds and why they are enough

* *Sequence space* 32 instead of 2^32, initial numbers 30 and 31: both streams
  wrap within the first bytes. The signed distance needs only that what is in
  flight is less than half the space; `TerminatorAssumption` asks for that with
  a margin.
* *Families of clients.* A behaviour of `Terminator` starts from what each
  client may do (`Clients`), so one run covers three paths: one that keeps
  order, with a client that sends two bytes, closes its side, reads and is
  given three bytes; one that loses, repeats and reorders, with two bytes each
  way; and two flows side by side, for every pair of places in the vector, in
  front of and behind an entry that is removed. Segments are of one and two
  bytes with `MSS` 2, so the sending loop produces several, an ACK may cover one
  of two, and a segment may overlap what was received by a part of it. The
  thresholds of back-pressure are 2 and 1 bytes; windows are 0, or open.
* On the lossy path segments have one byte and there is no client FIN. With
  longer ones the code relays over a hole (`FindShortHole` is that family with
  lengths 1 and 2), and it takes a FIN wherever it stands (observation 1), so
  there `RelayedInOrder` and `AcknowledgedIsHeld` hold only without them. With
  two flows neither client closes, for what `FindOtherFlow` shows. `Proper` and
  `Apart` say this of `Clients`; TLC evaluates them (`PassingAssumption`), and
  they are the hypotheses of the theorems on the clients' streams (section 4).
* `Relays`: two bytes per client, one reply: bytes taken before the dial,
  before the hello and after it are different bytes. With a budget of one, a
  node's connect alone fills it. The theorems hold for every bound.
* `NodeTable`: a limit of two misses (so 0, 1 and 2 are different), a first
  connection, its replacement and one more.
* `FlowTable`: two attempts (so the last differs from the first), a cache of
  two, a table of two. Its starts trade time for flows: one five-tuple with
  time for a timeout, a retry wait and an expiry in either order; two with
  one step of the clock left; three with none, where eviction and answers
  settle what becomes of a flow. `Hosts` puts two of the flows between the same
  two addresses (`TwoAlike`), so a description may fit one, both or another.
  The two connections do the same things from the same start, so they are
  symmetric. `MaxIds`, `MaxRequests`, `MaxPackets`, `MaxTime` are bounds of the
  model only.
* `FfiCalls`: two threads and the runtime thread, batches of up to two effects
  (a first and a last), three calls besides start and close: a write, whose two
  readings of the counter may have a call of each other thread between them.
* `Daemon`: two generations (the stopped one and its replacement, with the late
  report of the first), three requests of two clients, so that two starts may
  race and a stop follow. With one client on the socket its limit of clients
  does not bind; a refused client asks nothing of the supervisor. `Panics` has
  both builds.
* `HostThreads`: `EitherHalf` takes four packets and no channel (one more than
  the queue holds), or a packet and a channel; a queue of three, drained one at
  a time; two records of two units, read one at a time, so that a read leaves
  decrypted bytes behind; a send of three units into a socket with room for
  one: it blocks twice.
* `Framing`: up to two blocks behind a handshake, payloads of up to three bytes
  with the code's limit set to three, and a fault (bad version, type, length,
  status) at every place; chunks from a byte to the whole stream.
* `Setup`: three bits of address give blocks of every prefix, nested, disjoint
  and equal to a node; two resources give every order of preference; two ports,
  names and their wildcard; arguments of up to three characters with every
  mixture of spaces, quotes and backslashes.

### Fairness

* `TermFlows`: weak fairness of a due retransmission (`next_deadline` reports
  every armed `retransmit_at`, and the host polls with that timeout and then
  calls `tick`). `AckedOrGivenUp` needs no more than that: in its family of
  clients that never read and its lossy paths nothing is assumed of the client
  or the path. It excepts one state by name (`Forgotten`): only FINs wait and
  the timer is disarmed (observation 3); whatever arms the timer ends the
  exception, and data left without a timer would be a violation. `DeliveredToReader`
  assumes a client that goes on reading and acknowledging with an open window:
  an assumption on the local stack, not on the code. The code has no
  zero-window probe, so without it delivery is not promised.
* `Relays`: weak fairness of the loop's reading and of the socket taking bytes;
  `CarriedAfterHello` excuses a flow that ended, was half-closed or paused.
* `NodeTable`: weak fairness of due retries, handshake deadlines and heartbeats
  (all in `next_deadline`), and of a connect worker's report: the connector has
  a timeout and the thread always sends its command. Nothing is assumed of the
  gateway.
* `FfiCalls`: weak fairness of each thread inside a call of the library, and of
  the runtime thread, which the operating system's scheduler gives; the
  callback of the host returns. No call is ever assumed to be made.
* `Daemon`: weak fairness of the supervisor's thread, and of a worker whose
  loop was told to stop (that it returns is `HostLoop`'s `StopEnds`). Nothing
  makes a client ask, a session end by itself or a configurator finish.
* `HostThreads`: weak fairness of the loop, the reader, a thread inside `stop`,
  and of a peer that reads what it is sent. A poll and a read of the device
  return within their intervals (`next_deadline`, the contract of
  `PacketDevice`).
* `FlowTable`, `Framing`, `Setup` have safety properties only.

## 4. Proofs

Seven modules, and a library two of them share, are proved about for every
value of their constants. Everywhere `Init => IInv`,
`IInv /\ [Next]_vars => IInv'` with a step per action, and `IInv => Inv` are
separate steps; none of the properties is inductive by itself, except
`ChannelMatchesState`.

**`RelaySessionProofs`**, from `RelayAssumption` (the bounds are natural
numbers): `SessionsWellTyped` (`TypeOK`), `LayersStayInStep` (`RelayHasFlow`),
`HelloComesFirst` (`NothingBeforeHello`), `GatewaySeesOrder` (`WireInOrder`),
`NothingIsLost` (`NothingLostWhileUp`), and three facts no run states:
`HelloReleasesHeld` (`HeldOnlyForHello`), `RefusedRelayIsMute`
(`RefusedCarriesNothing`), `ConnectsStayInBudget` (`ConnectsCounted` and
`ConnectBudget`).
`WireInOrder` speaks of the wire only; a byte gets there from the backlog,
there from what the relay held, and there from what the terminator kept during
the dial. The inductive invariant `IInv` says of every session (`Sound`) that
the layers agree (`LayersAgree`: which relay and channel go with each stage of
the terminator's connection); that only the terminator of a dial in flight and
a relay that shakes hands hold bytes, and before the gateway accepted at most
the opening message is on its way (`HoldersAgree`); and that every byte is in
its place (`InPlace`): wire, backlog and held bytes count on from the opening
message, and while the flow is up their lengths add up to what was taken.
Sessions touch one another only through the connect budget, so there is one
lemma per action about one sound session, `BecomeSound` lifts it to all of
them, and `NextSound` collects the actions. The host looks at a counter, not at
its workers: it counts up before the thread is spawned, down when one reports or
could not be spawned, and never below zero (`connects_pending`). What can go
wrong is that the two drift apart, so `ConnectsCounted` says that the counter is
the number of workers, of dials and nodes, that have not reported, and
`ConnectBudget` that these keep to the budget. Both come from `Counted`
(`CountInvariant`), where the set of dials in flight is finite and each step
moves counter and workers together: a dial that is closed under its worker is
counted down when the worker reports and not before.

**`NodesProofs`**, from `NodesAssumption`: `ChannelsFollowNodes`
(`ChannelMatchesState`) and `SilenceIsBounded` (`IdleSilenceEndsNode`). The
second needs what a node brings from the dial and the handshake (no miss, no
silence), that a write is fresh until the next heartbeat, and that the count of
misses runs at most one behind the silence; `WellKept` says so of one node, its
channel and its gateway. Every step but an opening and the tear-down concerns
one node: `NodeStep` lifts it.

**`FlowAuthProofs`**, from `FlowAssumption`: `RequestsAreTimed`
(`RequestedIsTimed`), `OrderIsKept` (`PacketsInOrder`),
`TokensStayWithTheirFlow` (`TokenOfItsFlow`), `AttemptsAreBounded`
(`SilenceGivesUp`) and the action property `AsksAreAlone` (`AsksOneAtATime`).
One invariant carries them, because each rests on flows being distinct, and an
answer finds its flow by an id the gateway echoes or by a description. `Sound`
says of a table that its flows are distinct, and of each flow that it is
settled for itself (`Settled`: its deadline, its attempts, its token), that its
cached packets are later than everything carried for it (`Waits`), and that a
request in flight with its id is its own, and one for its five-tuple not a
younger flow's (`Named`). `Around` says the same of what the gateway was sent.
`TokenOfItsFlow` asks of a token that it stay between its two hosts, and where
its answer was exact that it be of the packet's own five-tuple and of no younger
flow (`Rightful`); asked of every token it is false, by an answer that gives the
addresses alone (observation 10).
Each operation of the table keeps them (`EvictSound`, `GetOrCreateSound`,
`CacheSound`, `DispatchSound`, `ExpireSound`, ...) before the handlers are
composed of these. For `AsksOneAtATime` each operation also says which flow of
the new table continues which of the old (`Kin`), and that a flow newly asked
for was free (`Free`, `AskedAlone`).

**`TerminatorProofs`**, from `TerminatorAssumption`: `DialsAreReleasedOnce`
(`ReleasedOnce`), `SendBufferStaysIntact` (`SendBufferIntact`),
`OrderlyEndsAreComplete` (`OrderlyEndIsComplete`), the action property
`ReleasedIsQuiet` (what is released hears nothing more: no byte, no half-close,
no pause), `FlowsAreDistinct` (one connection per four-tuple), `WellFormed`
(`TypeOK`). One invariant, `Sound`, carries them all. For the clients' streams
there are `StreamsAreRelayedInOrder` (`RelayedInOrder`),
`AcknowledgedBytesAreHeld` (`AcknowledgedIsHeld`) and the refinement
`PromiseIsKept` (`KeepsPromise`: `Terminator` implements `RelayedFlow`), from
`Inward`, and these have two hypotheses, because the code does not keep the
properties without them:

* `Proper`: where the path reorders, a segment carries one byte at most and no
  FIN. Longer ones are relayed over a hole (`FindShortHole`), and a FIN is taken
  wherever it stands (observation 1).
* `[][Undisturbed \/ Meek]_vars`: a step that removes a connection leaves what
  the others have taken as it was, or the clients send neither byte nor FIN
  (`Meek`). `FindOtherFlow` is a step that does not: the rest of a packet is
  handled on the neighbour. It is a hypothesis about behaviours, so it admits
  any number of clients that send and close, as long as the slip of the index
  hits nobody. `ApartIsUndisturbed` proves it for clients of which one at most
  opens connections, or none sends (`Apart`), and `ApartInbound` states all
  three results from `Proper` and `Apart` alone.

The invariants, and how the operations keep them:

* *The table.* `ReleasedOnce` needs that no two connections share a dial or a
  four-tuple, and that dials not handed out have no relay; `Kept` says it of a
  table in the middle of a handler, `Whole` of one between two calls, where no
  closed entry is left.
* *The stream.* `Tiled` gives each unacknowledged segment its position in the
  stream (`Placed`): the SYN-ACK before the first byte, data at its bytes, the
  FIN behind the last. The segments lie end to end (`Chain`), the queue follows,
  `send_next` is the position behind what was sent (`Ahead`), and a FIN is there
  only when the queue is empty and the relay has ended. `Line` says what the
  client has: a prefix of the stream, with its FIN only behind all of it, and
  every packet under way carries bytes of the stream at their sequence numbers,
  so a late, repeated or retransmitted one does no harm. The client's half is
  needed: an acknowledgement may be an old one, and what the client takes
  (`TookLine`) is known from the sequence number alone.
* *The operations.* An operation on a live connection leaves the others alone,
  the table kept, and its stream going on whatever the client has got of it
  (`Goes`; `Continues` for the stream: `FlushedContinues`, `ReleasedContinues`,
  `RetransmitContinues`, `SynAckContinues`, `FinContinues`), and a handler is a
  chain of them (`Reaches`, `HandleReaches`). No lemma says *which* live
  connection, so the invariant holds through the index slip of `handle`
  (`FindOtherFlow`): the wrong neighbour may be worked on, but it is released
  once all the same, and its stream stays whole. The clean-up of all connections
  visits them by index; `VisitAllWhole` finds the least visit that would break
  the table.
* *The other direction.* `Inward` adds to `Sound`, for every connection
  (`Relayed`): the relay was given the first `a` bytes of its client, the
  connection holds those up to `m`, `receive_next` counts `m` and the FIN, and
  on a path that keeps order nothing of the client is under way (`m` is all it
  has sent, so the next segment is the next bytes). `Given` says of every dial,
  released ones too, that it was given a prefix, `Modest` what a client may have
  said. `FreshIs` is the heart: what `accept_payload` cuts from a segment is
  exactly the bytes behind `m` (`DifferenceTells` for the signed distance).
  `Shaken` is needed beside it: the first acknowledgement of a connection always
  completes the handshake, so no byte of a path that keeps order is dropped for
  an unfinished one; `Sound` has the SYN-ACK alone in flight until then
  (`Before`). A step either leaves what a connection has taken (`Leaves`), takes
  a segment at one of them (`Takes`) or opens one (`OpenInbound`); `Lands` says
  so of `accept`, index slip included.
* *The refinement.* `Advance` says what a step does to each relay: told nothing
  (`Heeds`), given more while it lives (`Grows`), or begun (`Begins`). With
  `Inward` before and after it is a step of `RelayedFlow` for every flow
  (`RelayKept`, `FlowSteps`), or a stutter.
* *The lemmas.* `AddTells`: two positions less than a sequence space apart with
  the same sequence number are one position (from `Residue` and `RemainderTells`
  about `%`, which the solver knows little of). `Segmented` cuts a queue into a
  chain (`SegmentedChain`). `FlattenSeq` is recursive; `ChainFlattens` says what
  it makes of a chain, and refutes a least counterexample in place of an
  induction. `TerminatorAssumption` keeps a flow, SYN and FIN included, below a
  quarter of the sequence space, so a stream that goes round it is outside
  these theorems.

**`TablesProofs`**: what `Retained` leaves of a table, for the two modules above:
entries of the old table, in their order, none twice, and every one that was to
be kept. That a finite set of indices can be enumerated in order is an
induction; the principle itself takes an operator and is out of reach, so
`AllEnumerable` takes the least size that fails (`Least`, from
`NatLessThanWellFounded` and `WFMin`) and refutes it.

**`HostLoopProofs`**, from `HostLoopAssumption`: `NoPacketLost`
(`PacketsAccounted`) and `SleepsDry` (`AsleepMeansDry`). `Packets` puts what
the plane was given, what is queued and what the reader holds in one rising
line, whose length with the shed ones is the number taken. `Awake` is how the
loop gets to its poll: by the drain that found the queue empty, and once an
effect has stopped it only with a wake due. `Threads` and `Wired` are the ranges of the rest.

**`FfiProofs`**, from `FfiAssumption`: `InterfaceTypes` (types),
`BatchesStayWhole` (`BatchesWhole`), `TakenStaysReported` (`TakenIsReported`)
and `StopSilences` (`SilentOnceStopped`). `BatchesWhole` speaks of the
deliveries so far; it needs that whoever delivers holds the callback's mutex
(`Locked`), that a call's effects belong to one thread (`OneOwner`), and where
in its batch the holder is (`Batches`). `TakenIsReported` needs that the
counter only grows and is at least what a thread read of it (`Counted`).
`StopSilences` needs that with the handle freed there is no handler left
(`Hushed`): the mutex that `sangfor_stop` takes to clear it is the one a
dispatch looks under.

**`SupervisorProofs`**, from `SupervisorAssumption`: `OneTunnelAtATime`
(`OneTunnel`), `ReportIsOwn` (`OwnReport`), `SomebodyCanReach`
(`NeverUnreachable`) and `ReleaseCanBeReached`. That a running loop is the session's needs that a
generation not begun has no worker (`Unstarted`), that a report in the inbox is
of a loop that is over (`LateReports`), and what a start in progress has done
(`Beginning`, `Starting`). `NeverUnreachable` has its own part of the
invariant, `Ways`: before the socket is opened nobody speaks on it
(`NotYetOpen`, `SocketsOpen`), stdin speaks until its end has been reported
(`StdinSpeaks`), a queued directive came from a way that is open
(`DirectivesReach`), a supervisor that serves somebody can be reached
(`Served`), and each message leaves a way or ends the loop (`Reachable`). That
is what the supervisor believes. Who can really send is a second invariant,
`Voices`: a session held is in its loop, has panicked or has its report in the
inbox, and stdin not yet reported closed has a client or its report there. The
property names what is left: behind an accept thread that ended, and behind a
loop that panicked without ending the process, the supervisor waits for nobody
(observations 19, 20). `ReleaseCanBeReached` has the assumption that no build
unwinds, and the first of the two only.

### Only model-checked, and why

* `RelayedInOrder`, `AcknowledgedIsHeld` and `KeepsPromise` without the
  hypotheses above: they are false then, and two runs show it.
* `Framing` and `Setup` compute by recursion over bytes, addresses and
  characters (`DecodedIsSent`, `RoutesLeaveOutOnlyNodes`, `CarriedAsPublished`,
  `CommandLineSurvives`), and induction over data is out of the proof system's
  reach.
* Every liveness property: it does not reason about fairness.

## 5. Where the code departs from what is said of it

With a run that shows it (PROJECT.json, `findings`, has the quotes):

* `FindShortHole`: behind a hole shorter than itself, a segment is cut and
  relayed (`terminator.rs:567-585`); the missing bytes never arrive and the
  relay's stream has a gap.
* `FindOtherFlow`: `handle` keeps its index although `acknowledge` may have
  removed the entry (`terminator.rs:513-518`); the rest of the packet is handled
  on the neighbour's connection.
* `FindReentry`: the mutex of the callback is held while the callback runs
  (`lib.rs:111-124`), so a host that calls back, as the comment on `run`
  (`lib.rs:640-642`) expects it to, waits for itself.

Observations made while modelling. The models behave this way where they cover
it, and no run is kept for them.

Terminator and relays:

1. A FIN is processed wherever it stands in the sequence space
   (`terminator.rs:534-540`): ahead of missing data it half-closes early.
2. A FIN during the dial is never passed on to the relay: `on_dial_connected`
   flushes the bytes but sends no half-close (`terminator.rs:333-347`, 545-550).
3. `flush` arms the timer before `maybe_finish` sends the FIN
   (`terminator.rs:678-689`): until some later call flushes again, a lost FIN
   is not repeated. `AckedOrGivenUp` excepts it.
4. A flow retires when its own FIN is acknowledged, with the client's half
   still open (`terminator.rs:809-813`).

Nodes and flows:

5. A heartbeat after any write counts as answered (`plane.rs:1059-1063`): a
   silent gateway is noticed only on an idle node. `IdleSilenceEndsNode` is
   what the code does promise.
6. A packet for a group whose first connection waits for its retry dials at
   once (`plane.rs:589-598`), and the retry, when due, may dial once more.
7. A malformed handshake closes its node without a retry (`plane.rs:637-648`).
8. A gateway that keeps answering "again" is asked without bound: `retry_auth`
   does not count (`plane.rs:816-825`). `SilenceGivesUp` is about a gateway
   that does not answer.
9. After a byte that is no frame the decoder fails on every later push
   (`l3.rs:165-173`), and frames completed by the same push are lost; the node
   stays up, deaf, until its heartbeats fail.
10. An answer that echoes no live id is taken by the first flow its description
    fits, and ports and protocol are optional there (`plane.rs:827-864`): an
    answer with the addresses alone may give a flow the token, the refusal or
    the retry of another between the same two hosts.

Host:

11. Closing a dial while its connect runs does nothing, and the channel that
    arrives later belongs to nobody (`host.rs:574-603`, 805-810,
    `plane.rs:493-505`).
12. A half-close shuts the write side at once, with bytes still held for the
    hello or in the backlog (`plane.rs:1243-1258`, `host.rs:786-793`); one whose
    flush would block is dropped with its error (`channel.rs:139-143`).
13. `pump` stops after `max_reads_per_event` reads, or at a pause; what the TLS
    session has decrypted by then is read only when the socket becomes readable
    again (`host.rs:639-677`). `InboundIsRead` is about what is in the socket.
14. `finish_flush` registers for writability by the slot's queue, not by the
    TLS session's: records that are sealed and not yet written wait for the next
    write or read (`host.rs:747-763`, 605-617). `PendingIsWritten` is about the
    queue. `lib.rs:29` of `sangfor-host` says both queues are bounded; the
    command queue is not (`host.rs:281`).
15. The device is to be closed only after its reader has stopped
    (`device.rs:29-30` of `sangfor-tun`), and `HostHandle::stop` closes it at
    once, to unblock that reader (`host.rs:214-218`). `HostLoop` has the reader
    inside a read when that happens.

Daemon:

16. The configurator of a stopped session is not joined: it may write its
    interface verdict into the report of the next one (`runtime.rs:801-813`
    after 559). `OwnReport` is about the gateway's part.
17. `Exit` returns how the last session ended by itself, whatever became of the
    one it stops (`runtime.rs:466-477`).
18. A client is told after 120 s that there was no answer (`runtime.rs:736`);
    its start, still in the inbox, may succeed afterwards.
19. A listener whose accept fails ends its thread, and `listener` stays `Some`:
    the daemon believes it can be reached (`transport.rs:203-206`).
    `NeverUnreachable` excepts this and the next by name.
20. A loop that panics in a build that unwinds ends its thread without a report
    (`runtime.rs:657-678`): `session` stays `Some`, and with stdin closed and no
    socket the supervisor waits for ever. The release profile aborts
    (`rust/Cargo.toml:51`), which ends the process instead.

C interface:

21. A packet the plane declined is reported as taken when another thread's call
    counts one between the two readings (`lib.rs:378-382`).
22. `sangfor_stop` is said to join the runtime thread (`lib.rs:595`,
    `sangfor.h:116`) and does not. `SilentOnceStopped` holds anyway.
23. Two calls release the plane's mutex before they dispatch
    (`lib.rs:379-381`, 643-656), so their effects may reach the host in the other
    order; the effects of `sangfor_stop` itself find no handler.

Framing and set-up:

24. `*.example` covers `badexample` too (`route.rs:154-164`: the dot is stripped
    before the comparison); `PayloadDecoder::is_finished` has no reader outside
    tests; candidates of a node that are host names cannot be left out of the
    routes (`netconfig.rs:100-116`).
25. `should_terminate` claims a flow by the published name *or* the address
    (`plane.rs:201-251`), and `find_tcp_route` signs it by the name alone when
    there is one (`plane.rs:1219-1224`): a name published on other ports makes a
    flow fail that its address would have carried. `CarriedAsPublished` says so.

## 6. Not modelled, and the plan

Not modelled because they hold no state of interest: crypto, JSON, building and
parsing of one header, the signed requests, the TLS handshake with its pinning,
the system calls of the TUN devices, platform glue. The Dart packages and the
iOS tunnel repeat the Rust data plane or drive it; EasyConnect is a second
protocol with its own TLS client.

Hazards no property covers, and why: a lost window update is never asked for
again (`terminator.rs:650`; the code promises nothing there); a pause that is
never taken back (`terminator.rs:669`: what the relay would still have sent is
unknown to the terminator's specification); a channel that arrives after its
dial was closed, a decoder that stays stuck, a name published on other ports
(observations 11, 9 and 25: the code does it); a flow whose request cannot be
built stays in every scan (`plane.rs:909`; requests are always built in
`FlowAuth`); effects of effects are appended behind those still queued
(`host.rs:854`; `RelaySession` takes a call and its effects as one step). A
session that ends by itself drops its host after its report: its tear-down may
overlap the next start, and `OneTunnel` is about host loops that run.

Left, most important first:

1. `DataPlane`: the composition of `Nodes` and `FlowAuth` behind
   `on_outbound_packet` (`plane.rs:330-389`): flows that outlive their node,
   packets of one group on another's node.
2. The queue of deferred effects of `Host::apply`, as a refinement of the
   one-step calls of `RelaySession`.
3. The Dart `tunnel_daemon.dart`: requests and restarts across awaits, against
   `Supervisor`.
4. Proofs: what two clients that close may do to one another in spite of the
   slip of the index, as an invariant weaker than `Relayed`; the steps of
   `RelaySession` against `RelayedFlow`.
