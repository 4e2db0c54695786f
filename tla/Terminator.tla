----------------------------- MODULE Terminator -----------------------------
(***************************************************************************)
(* The userspace TCP terminator, rust/sangfor-core/src/terminator.rs: a    *)
(* passive TCP endpoint for the flows the gateway does not forward as raw  *)
(* IP.  The local stack is the client of every connection; the bytes of a  *)
(* connection travel through one relay ("dial") of the TCP tunnel.         *)
(*                                                                         *)
(* `connections' is the code's vector, in its order: every handler works   *)
(* by index, so the order matters when an entry is removed half-way        *)
(* through a handler.  The local stack (client) and the far end of a dial  *)
(* (upstream) are external and are modelled by what they may do.           *)
(*                                                                         *)
(* Bytes are numbered: the i-th byte a client sends is i, the i-th byte a  *)
(* relay delivers is i.  Time is abstracted: a timer that is armed may     *)
(* fire at any moment, an idle deadline (always armed) likewise.           *)
(***************************************************************************)
EXTENDS Integers, Sequences, SequencesExt, FiniteSets, Tables

CONSTANTS
    Keys,               \* the four-tuples of the local stack's TCP flows
    SeqSpace,           \* size of the sequence space (2^32 in the code)
    ClientISS,          \* the client's initial sequence number
    OurISS,             \* the terminator's initial sequence number
    MSS,                \* maximum_segment_size
    Windows,            \* receive windows the client may advertise
    MaxRetransmits,     \* maximum_retransmits
    PauseAt, ResumeAt,  \* pause_upstream_at, resume_upstream_at
    Clients,            \* what the clients may do: a run starts from one of them
    ClientBytes,        \* bound: bytes a client sends on one connection
    RelayBytes,         \* bound: bytes a relay delivers on one dial
    ChunkLengths        \* lengths a relay's read may have

(* What a client may do: whether it opens connections, the bytes it and    *)
(* its relays send at most, the payload lengths of its segments and the    *)
(* windows it advertises, whether it ends its side with a FIN, whether its *)
(* path to the terminator loses, repeats and reorders, and whether it      *)
(* never stops reading.                                                    *)
Traits == [opens : BOOLEAN, bytes : 0 .. ClientBytes, replies : 0 .. RelayBytes,
           lengths : SUBSET (1 .. ClientBytes), windows : SUBSET Windows,
           closes : BOOLEAN, lossy : BOOLEAN, reads : BOOLEAN]

ASSUME TerminatorAssumption ==
    /\ IsFiniteSet(Keys)
    /\ SeqSpace \in Nat /\ SeqSpace > 4 * (1 + ClientBytes + RelayBytes)
    /\ ClientISS \in 0 .. SeqSpace - 1 /\ OurISS \in 0 .. SeqSpace - 1
    /\ MSS \in Nat \ {0} /\ Windows \subseteq Nat
    /\ MaxRetransmits \in Nat
    /\ ResumeAt \in Nat /\ PauseAt \in Nat /\ ResumeAt < PauseAt
    /\ ClientBytes \in Nat /\ RelayBytes \in Nat
    /\ ChunkLengths \subseteq Nat \ {0}
    /\ Clients \subseteq [Keys -> Traits]

VARIABLES
    connections,    \* sequence of connection records
    next_dial,      \* dials handed out so far
    closed,         \* close() has run
    wire,           \* key -> packets in flight towards the client
    upstream,       \* dial -> what the terminator told the relay, and heard
    client          \* key -> the local stack's endpoint, with its traits

vars == <<connections, next_dial, closed, wire, upstream, client>>

Dials == 1 .. Cardinality(Keys)
Smaller(a, b) == IF a <= b THEN a ELSE b
Larger(a, b) == IF a >= b THEN a ELSE b
Counting(a, b) == [i \in 1 .. Larger(0, b - a + 1) |-> a + i - 1]

-----------------------------------------------------------------------------
(* Sequence space.                                                         *)

sequence_add(base, value) == (base + value) % SeqSpace

(* Signed distance from `from' to `to': positive when `to' is ahead.       *)
sequence_difference(from, to) ==
    LET d == (to - from) % SeqSpace
    IN  IF d < SeqSpace \div 2 THEN d ELSE d - SeqSpace

-----------------------------------------------------------------------------
(* A handler maps a triple t = [conns, wire, up] to the next one; `i' is   *)
(* the index it works on.                                                  *)

Now == [conns |-> connections, wire |-> wire, up |-> upstream]

Commit(t) == connections' = t.conns /\ wire' = t.wire /\ upstream' = t.up

(* One operation on a connection: its record becomes c, packets leave for  *)
(* its client, and its relay, with what it was told, becomes u.            *)
Update(t, i, c, packets, u) ==
    LET was == t.conns[i]
    IN  [conns |-> [t.conns EXCEPT ![i] = c],
         wire |-> [t.wire EXCEPT ![was.key] = @ \cup packets],
         up |-> [t.up EXCEPT ![was.dial] = u]]

Put(t, i, c) == [t EXCEPT !.conns[i] = c]

(* Bound: as many dials as clients that open, be it twice for one of them. *)
MaxDials == Cardinality({k \in Keys : client[k].may.opens})

Packet(kind, seq, payload) == [kind |-> kind, seq |-> seq, payload |-> payload]

NoUpstream == [phase |-> "none", key |-> CHOOSE k \in Keys : TRUE,
               sent |-> <<>>, eof |-> FALSE, closes |-> 0,
               paused |-> FALSE, fed |-> 0]

(* Emit a segment that occupies sequence space and keep it unacknowledged. *)
emit(t, i, kind, seq, payload, length) ==
    LET c == t.conns[i]
        segment == [kind |-> kind, seq |-> seq, payload |-> payload,
                    length |-> length]
        sent == [c EXCEPT !.unacknowledged = Append(@, segment),
                          !.send_next = IF kind = "SYNACK" THEN @
                                        ELSE sequence_add(@, length)]
    IN  Update(t, i, sent, {Packet(kind, seq, payload)}, t.up[c.dial])

(* Tear one connection down: forget its buffers, close its relay, and      *)
(* answer with a reset when asked to.                                      *)
Disposed(c) == [c EXCEPT !.state = "Closed", !.retransmit_armed = FALSE,
                         !.unacknowledged = <<>>, !.send_queue = <<>>,
                         !.pending_for_upstream = <<>>]

dispose_silently(t, i, reset) ==  \* mutant: the relay is never told
    IF t.conns[i].state = "Closed" THEN t ELSE Put(t, i, Disposed(t.conns[i]))

dispose(t, i, reset) ==
    LET c == t.conns[i]
        rst == IF reset THEN {Packet("RST", c.send_next, <<>>)} ELSE {}
    IN  IF c.state = "Closed" THEN t
        ELSE Update(t, i, Disposed(c), rst, [t.up[c.dial] EXCEPT !.closes = @ + 1])

retain_live(t) ==
    [t EXCEPT !.conns = Retained(@, {i \in DOMAIN @ : @[i].state # "Closed"})]

(* The terminator's own FIN: the relay is done and all is acknowledged.    *)
Drained_of_flight(c) == c.unacknowledged = <<>>  \* mutant: queue forgotten
Drained(c) == c.send_queue = <<>> /\ c.unacknowledged = <<>>

maybe_finish(t, i) ==
    LET c == t.conns[i]
    IN  IF ~c.fin_sent /\ c.upstream_done /\ c.state # "Closed" /\ Drained(c)
        THEN emit(Put(t, i, [c EXCEPT !.fin_sent = TRUE]),
                  i, "FIN", c.send_next, <<>>, 1)
        ELSE t

(* The segments one run of the sending loop produces: as many queued bytes *)
(* as the window leaves room for, cut at the MSS.                          *)
Sendable(c) ==
    LET room == c.peer_window
                  - sequence_difference(c.send_unacknowledged, c.send_next)
    IN  Smaller(Larger(0, room), Len(c.send_queue))

Segmented(c) ==
    LET n == Sendable(c)
        at(j) == (j - 1) * MSS
        body(j) == SubSeq(c.send_queue, at(j) + 1, Smaller(at(j) + MSS, n))
    IN  [j \in 1 .. (n + MSS - 1) \div MSS |->
            [kind |-> "DATA", seq |-> sequence_add(c.send_next, at(j)),
             payload |-> body(j), length |-> Len(body(j))]]

(* What stays queued, and whether that is little enough to resume.         *)
Unsent_short(c) ==  \* mutant: one byte too many drained
    SubSeq(c.send_queue, Sendable(c) + 2, Len(c.send_queue))
Unsent(c) == SubSeq(c.send_queue, Sendable(c) + 1, Len(c.send_queue))

Resumes(c) == c.upstream_paused /\ Len(Unsent(c)) < ResumeAt

Flushed(c) ==
    LET kept == c.unacknowledged \o Segmented(c)
    IN  [c EXCEPT !.unacknowledged = kept,
                  !.send_next = sequence_add(@, Sendable(c)),
                  !.send_queue = Unsent(c),
                  !.upstream_paused = @ /\ ~Resumes(c),
                  !.retransmit_armed = kept # <<>>]

flush(t, i) ==
    LET c == t.conns[i]
        new == Segmented(c)
        packets == {Packet("DATA", new[j].seq, new[j].payload) : j \in DOMAIN new}
        sent == Update(t, i, Flushed(c), packets,
                       [t.up[c.dial] EXCEPT !.paused = @ /\ ~Resumes(c)])
    IN  IF ~c.handshake_complete THEN t
        ELSE IF c.upstream_done THEN maybe_finish(sent, i) ELSE sent

(* Bytes of the unacknowledged queue an ACK covers: a prefix of it.        *)
Covered(c, ack) ==
    LET end(j) == sequence_add(c.unacknowledged[j].seq, c.unacknowledged[j].length)
        held(j) == \A k \in 1 .. j : sequence_difference(ack, end(k)) <= 0
        upto == {j \in 0 .. Len(c.unacknowledged) : held(j)}
    IN  CHOOSE m \in upto : \A j \in upto : j <= m

Acceptable_short(c, ack) ==  \* mutant: an ACK of all that was sent is ignored
    /\ sequence_difference(c.send_unacknowledged, ack) >= 0
    /\ sequence_difference(c.send_next, ack) < 0
Acceptable(c, ack) ==
    /\ sequence_difference(c.send_unacknowledged, ack) >= 0
    /\ sequence_difference(c.send_next, ack) <= 0

(* An acceptable ACK releases the segments it covers.                      *)
Released(c, ack) ==
    LET n == Covered(c, ack)
        last == c.unacknowledged[n]
        una == IF n = 0 THEN c.send_unacknowledged
               ELSE sequence_add(last.seq, last.length)
    IN  [c EXCEPT !.unacknowledged = SubSeq(@, n + 1, Len(@)),
                  !.send_unacknowledged = una,
                  !.retransmits = IF n > 0 THEN 0 ELSE @,
                  !.handshake_complete =
                      @ \/ sequence_difference(una, sequence_add(OurISS, 1)) >= 0]

release(t, i, ack) == Put(t, i, Released(t.conns[i], ack))

(* What follows the release: a connection whose own FIN is acknowledged is *)
(* disposed of and removed at once, so index i then names its successor.   *)
settle(t, i) ==
    IF t.conns[i].fin_sent /\ t.conns[i].unacknowledged = <<>>
    THEN retain_live(dispose(t, i, FALSE))
    ELSE flush(t, i)

(* The payload of a segment: dropped, or its tail relayed (or held while   *)
(* the dial is in flight).  The code's comments call gap > 0 a hole and    *)
(* gap < 0 an overlap.                                                     *)
Fresh_or_repeated(gap, payload) ==  \* mutant: the first early return dropped
    IF -gap >= Len(payload) THEN <<>> ELSE payload
Fresh(gap, payload) ==
    IF gap > 0 \/ -gap >= Len(payload) THEN <<>>
    ELSE SubSeq(payload, 1 - gap, Len(payload))

Received_unadvanced(c, fresh) ==  \* mutant
    [c EXCEPT !.pending_for_upstream = IF c.upstream_connected THEN @ ELSE @ \o fresh]
Received(c, fresh) ==
    [c EXCEPT !.receive_next = sequence_add(@, Len(fresh)),
              !.pending_for_upstream = IF c.upstream_connected THEN @ ELSE @ \o fresh]

accept_payload(t, i, seq, payload) ==
    LET c == t.conns[i]
        fresh == Fresh(sequence_difference(seq, c.receive_next), payload)
    IN  Update(t, i, Received(c, fresh), {},
               [t.up[c.dial] EXCEPT !.sent =
                   IF c.upstream_connected THEN @ \o fresh ELSE @])

(* A FIN: half-close the relay the first time, if it is connected.         *)
Finished(c) ==
    [c EXCEPT !.receive_next = sequence_add(@, 1), !.inbound_closed = TRUE,
              !.state = IF @ = "Established" THEN "InboundClosed" ELSE @]

accept_fin_at_once(t, i) ==  \* mutant: half-closes a dial in flight
    LET c == t.conns[i]
    IN  Update(t, i, Finished(c), {}, [t.up[c.dial] EXCEPT !.eof = TRUE])

accept_fin(t, i) ==
    LET c == t.conns[i]
    IN  Update(t, i, Finished(c), {},
               [t.up[c.dial] EXCEPT
                   !.eof = @ \/ (~c.inbound_closed /\ c.upstream_connected)])

(* What follows the ACK of a segment, on whatever index i now names.       *)
(* Until the handshake is complete nothing else counts; a repeated SYN is  *)
(* only acknowledged again.                                                *)
Premature(c) == c.state = "SynReceived" /\ ~c.handshake_complete
Silent(c, seg) == Premature(c) \/ seg.syn

handle_rest(t, i, seg) ==
    LET est == Put(t, i, [t.conns[i] EXCEPT !.state =
                             IF @ = "SynReceived" THEN "Established" ELSE @])
        paid == IF seg.payload = <<>> THEN est
                ELSE accept_payload(est, i, seg.seq, seg.payload)
    IN  IF Premature(t.conns[i]) THEN t
        ELSE IF seg.syn THEN est
        ELSE IF seg.fin THEN accept_fin(paid, i) ELSE paid

(* A whole segment, stage by stage.                                        *)
handle(i, seg) ==
    \E heard \in {Put(Now, i, [connections[i] EXCEPT !.peer_window = seg.window])} :
       IF seg.rst THEN Commit(retain_live(dispose(heard, i, FALSE))) ELSE
       \E c \in {heard.conns[i]} :
       \E freed \in {IF seg.ack /\ Acceptable(c, seg.ackno)
                     THEN release(heard, i, seg.ackno) ELSE heard} :
       \E acked \in {IF ~seg.ack THEN freed
                     ELSE IF Acceptable(c, seg.ackno) THEN settle(freed, i)
                     ELSE IF sequence_difference(c.send_unacknowledged,
                                                 seg.ackno) < 0
                     THEN maybe_finish(freed, i) ELSE freed} :
          IF i > Len(acked.conns) THEN Commit(acked)
          ELSE \E body \in {handle_rest(acked, i, seg)} :
          \E flushed \in {IF Silent(acked.conns[i], seg) THEN body
                          ELSE flush(body, i)} :
             Commit(IF Silent(acked.conns[i], seg) THEN flushed
                    ELSE maybe_finish(flushed, i))

(* A new connection, its SYN-ACK, and the request to dial.                 *)
open(t, k, dial, window) ==
    LET c == [key |-> k, dial |-> dial, state |-> "SynReceived",
              receive_next |-> sequence_add(ClientISS, 1),
              send_next |-> sequence_add(OurISS, 1),
              send_unacknowledged |-> OurISS, peer_window |-> window,
              handshake_complete |-> FALSE, upstream_connected |-> FALSE,
              upstream_done |-> FALSE, inbound_closed |-> FALSE,
              upstream_paused |-> FALSE, fin_sent |-> FALSE,
              unacknowledged |-> <<>>, send_queue |-> <<>>,
              pending_for_upstream |-> <<>>,
              retransmit_armed |-> TRUE, retransmits |-> 0]
        added == [conns |-> Append(t.conns, c), wire |-> [t.wire EXCEPT ![k] = {}],
                  up |-> [t.up EXCEPT ![dial] =
                             [@ EXCEPT !.phase = "dialing", !.key = k]]]
    IN  emit(added, Len(added.conns), "SYNACK", OurISS, <<>>, 1)

IndexOfKey(k) == {i \in DOMAIN connections : connections[i].key = k}
IndexOfDial(d) == {i \in DOMAIN connections : connections[i].dial = d}

(* One packet of the local stack.  A packet of no connection that is not   *)
(* an opening SYN is not claimed and changes nothing here.                 *)
accept(seg) ==
    IF closed THEN UNCHANGED <<connections, next_dial, wire, upstream>>
    ELSE
    \/ \E i \in IndexOfKey(seg.key) :
          handle(i, seg) /\ UNCHANGED next_dial
    \/ /\ IndexOfKey(seg.key) = {} /\ seg.syn /\ ~seg.ack
       /\ next_dial < MaxDials
       /\ next_dial' = next_dial + 1
       /\ Commit(open(Now, seg.key, next_dial + 1, seg.window))
    \/ /\ IndexOfKey(seg.key) = {} /\ ~(seg.syn /\ ~seg.ack)
       /\ UNCHANGED <<connections, next_dial, wire, upstream>>

-----------------------------------------------------------------------------
(* The local stack.  It sends each byte for the first time in order; on a  *)
(* lossy path any segment may be lost and anything sent may arrive again,  *)
(* late or cut differently, with the acknowledgement it carried then.      *)

Idle(may) == [phase |-> IF may.opens THEN "idle" ELSE "gone", may |-> may,
              sent |-> 0, fin |-> FALSE, got |-> <<>>, gotFin |-> FALSE]

ClientAckno(k) == sequence_add(OurISS, 1 + Len(client[k].got)
                                  + IF client[k].gotFin THEN 1 ELSE 0)

StaleAcknos(k) ==
    {sequence_add(OurISS, 1 + n) : n \in 0 .. Len(client[k].got)}
       \cup {ClientAckno(k)}

Segment(k, from, n, fin, ackno, w) ==
    [key |-> k, syn |-> FALSE, ack |-> TRUE, rst |-> FALSE, fin |-> fin,
     seq |-> sequence_add(ClientISS, from), ackno |-> ackno,
     payload |-> Counting(from, from + n - 1), window |-> w]

SynSegment(k, w) ==
    [key |-> k, syn |-> TRUE, ack |-> FALSE, rst |-> FALSE, fin |-> FALSE,
     seq |-> ClientISS, ackno |-> 0, payload |-> <<>>, window |-> w]

Lost(k) == client[k].may.lossy /\ UNCHANGED <<connections, next_dial, wire, upstream>>

ClientSyn(k) ==
    /\ \/ client[k].phase \in {"idle", "synsent"}
       \/ client[k].may.lossy /\ IndexOfKey(k) # {}
    /\ client' = [client EXCEPT ![k].phase = IF @ = "idle" THEN "synsent" ELSE @]
    /\ \/ \E w \in client[k].may.windows : accept(SynSegment(k, w))
       \/ Lost(k)
    /\ UNCHANGED closed

(* New data, a FIN, or a bare acknowledgement that may move the window.    *)
ClientSend(k) ==
    /\ client[k].phase = "open"
    /\ \E n \in client[k].may.lengths \cup {0}, fin \in BOOLEAN, w \in client[k].may.windows :
          /\ client[k].sent + n <= client[k].may.bytes
          /\ fin => client[k].may.closes /\ ~client[k].fin
          /\ client[k].fin => n = 0
          /\ client' = [client EXCEPT ![k].sent = @ + n, ![k].fin = @ \/ fin]
          /\ \/ accept(Segment(k, client[k].sent + 1
                                   + (IF client[k].fin THEN 1 ELSE 0),
                               n, fin, ClientAckno(k), w))
             \/ Lost(k)
    /\ UNCHANGED closed

(* A segment arrives again, or late: any range sent, any ACK given.        *)
ClientResend(k) ==
    /\ client[k].may.lossy /\ client[k].phase = "open"
    /\ \E n \in client[k].may.lengths \cup {0}, from \in 1 .. client[k].sent + 1,
          ackno \in StaleAcknos(k), w \in client[k].may.windows :
          /\ from + n - 1 <= client[k].sent
          /\ n = 0 => from = client[k].sent + 1
          /\ \E fin \in BOOLEAN :
                /\ fin => client[k].fin /\ from + n - 1 = client[k].sent
                /\ accept(Segment(k, from, n, fin, ackno, w))
    /\ UNCHANGED <<client, closed>>

ClientReset(k) ==
    /\ client[k].phase \in {"synsent", "open"}
    /\ client' = [client EXCEPT ![k].phase = "gone"]
    /\ \/ \E w \in client[k].may.windows :
             accept([Segment(k, client[k].sent + 1, 0, FALSE,
                             ClientAckno(k), w) EXCEPT !.rst = TRUE])
       \/ Lost(k)
    /\ UNCHANGED closed

(* The client receives a packet: in-order data is taken, the rest dropped. *)
ClientReceive(k) ==
    /\ \E p \in wire[k] :
          LET c == client[k]
              expected == p.seq = ClientAckno(k) /\ c.phase = "open"
          IN  /\ client[k].may.lossy \/ \A q \in wire[k] :
                                sequence_difference(p.seq, q.seq) >= 0
              /\ wire' = [wire EXCEPT ![k] = @ \ {p}]
              /\ client' = [client EXCEPT ![k] =
                   IF p.kind = "RST" THEN [c EXCEPT !.phase = "gone"]
                   ELSE IF p.kind = "SYNACK" /\ c.phase = "synsent"
                        THEN [c EXCEPT !.phase = "open"]
                   ELSE IF p.kind = "DATA" /\ expected
                        THEN [c EXCEPT !.got = @ \o p.payload]
                   ELSE IF p.kind = "FIN" /\ expected
                        THEN [c EXCEPT !.gotFin = TRUE]
                   ELSE c]
    /\ UNCHANGED <<connections, next_dial, closed, upstream>>

PacketLost(k) ==
    /\ client[k].may.lossy
    /\ \E p \in wire[k] : wire' = [wire EXCEPT ![k] = @ \ {p}]
    /\ UNCHANGED <<connections, next_dial, closed, upstream, client>>

-----------------------------------------------------------------------------
(* The relay side of a dial and the timers.                                *)

on_dial_connected(d) ==
    /\ upstream[d].phase = "dialing"
    /\ \E i \in IndexOfDial(d) :
          LET c == connections[i]
              up == Update(Now, i, [c EXCEPT !.upstream_connected = TRUE,
                                             !.pending_for_upstream = <<>>], {},
                           [upstream[d] EXCEPT
                               !.phase = "connected",
                               !.sent = @ \o c.pending_for_upstream])
          IN  Commit(maybe_finish(flush(up, i), i))
    /\ UNCHANGED <<next_dial, closed, client>>

on_dial_failed(d) ==
    /\ upstream[d].phase \in {"dialing", "connected"}
    /\ \E i \in IndexOfDial(d) :
          LET failed == Update(Now, i, connections[i], {},
                               [upstream[d] EXCEPT !.phase = "ended"])
          IN  Commit(retain_live(dispose(failed, i, TRUE)))
    /\ UNCHANGED <<next_dial, closed, client>>

(* The host stops reading a paused relay.                                  *)
on_relay_data(d) ==
    /\ upstream[d].phase = "connected" /\ ~upstream[d].paused
    /\ \E i \in IndexOfDial(d), n \in ChunkLengths :
          LET fed == upstream[d].fed
              queued == Update(Now, i, [connections[i] EXCEPT !.send_queue =
                                           @ \o Counting(fed + 1, fed + n)], {},
                               [upstream[d] EXCEPT !.fed = fed + n])
              flushed == flush(queued, i)
              c == flushed.conns[i]
              pause == Len(c.send_queue) >= PauseAt /\ ~c.upstream_paused
          IN  /\ fed + n <= client[upstream[d].key].may.replies
              /\ Commit(IF pause
                        THEN Update(flushed, i, [c EXCEPT !.upstream_paused = TRUE],
                                    {}, [flushed.up[d] EXCEPT !.paused = TRUE])
                        ELSE flushed)
    /\ UNCHANGED <<next_dial, closed, client>>

on_relay_closed(d) ==
    /\ upstream[d].phase = "connected"
    /\ \E i \in IndexOfDial(d) :
          LET done == Update(Now, i, [connections[i] EXCEPT !.upstream_done = TRUE],
                             {}, [upstream[d] EXCEPT !.phase = "ended"])
          IN  Commit(retain_live(maybe_finish(flush(done, i), i)))
    /\ UNCHANGED <<next_dial, closed, client>>

(* The oldest unacknowledged segment goes out again.                       *)
Oldest(c) == IF c.unacknowledged = <<>> THEN {} ELSE
             LET s == Head(c.unacknowledged)
             IN  {Packet(s.kind, s.seq, s.payload)}

Retransmit_uncounted(t, i) ==  \* mutant: never gives up
    Update(t, i, t.conns[i], Oldest(t.conns[i]), t.up[t.conns[i].dial])
Retransmit(t, i) ==
    LET c == t.conns[i]
    IN  Update(t, i, [c EXCEPT !.retransmits = @ + 1], Oldest(c), t.up[c.dial])

(* One connection's timers, given which of its deadlines have passed.      *)
run_timers(t, i, due) ==
    LET c == t.conns[i]
    IN  IF due = "idle" THEN dispose(t, i, TRUE)
        ELSE IF due = "none" \/ ~c.retransmit_armed THEN t
        ELSE IF c.retransmits >= MaxRetransmits THEN dispose(t, i, TRUE)
        ELSE Retransmit(t, i)

(* One after the other, then the closed ones go.                           *)
visit(t, i, due) == IF due = "close" THEN dispose(t, i, FALSE)
                    ELSE run_timers(t, i, due)

visit_all(t, due) ==
    LET after[n \in 0 .. Len(t.conns)] ==
            IF n = 0 THEN t ELSE visit(after[n - 1], n, due[n])
    IN  retain_live(after[Len(t.conns)])

run_all_timers(due) ==
    /\ ~closed /\ connections # <<>>
    /\ Commit(visit_all(Now, due))
    /\ UNCHANGED <<next_dial, closed, client>>

tick ==
    \E due \in [DOMAIN connections -> {"none", "retransmit", "idle"}] :
       run_all_timers(due)

close ==
    /\ ~closed
    /\ closed' = TRUE
    /\ Commit(visit_all(Now, [i \in DOMAIN connections |-> "close"]))
    /\ UNCHANGED <<next_dial, client>>

-----------------------------------------------------------------------------
Init ==
    /\ connections = <<>> /\ next_dial = 0 /\ closed = FALSE
    /\ wire = [k \in Keys |-> {}]
    /\ upstream = [d \in Dials |-> NoUpstream]
    /\ \E may \in Clients : client = [k \in Keys |-> Idle(may[k])]

Next ==
    \/ \E k \in Keys : \/ ClientSyn(k) \/ ClientSend(k) \/ ClientResend(k)
                       \/ ClientReset(k) \/ ClientReceive(k) \/ PacketLost(k)
    \/ \E d \in Dials : \/ on_dial_connected(d) \/ on_dial_failed(d)
                        \/ on_relay_data(d) \/ on_relay_closed(d)
    \/ tick
    \/ close

Spec == Init /\ [][Next]_vars

(* The host calls tick once next_deadline has passed, so an armed          *)
(* retransmit timer fires unless it is disarmed first.                     *)
RetransmitDue(d) ==
    /\ \E i \in IndexOfDial(d) :
          connections[i].retransmit_armed /\ ~client[connections[i].key].may.reads
    /\ run_all_timers([i \in DOMAIN connections |->
          IF connections[i].dial = d THEN "retransmit" ELSE "none"])

(* A client that reads on takes what is in flight and opens its window.    *)
ClientReads(k) == client[k].may.reads /\ ClientReceive(k)

ClientAcknowledge(k) ==
    /\ client[k].may.reads /\ client[k].phase = "open"
    /\ \E w \in client[k].may.windows :
          /\ w > 0
          /\ accept(Segment(k, client[k].sent + 1
                               + (IF client[k].fin THEN 1 ELSE 0),
                            0, FALSE, ClientAckno(k), w))
    /\ UNCHANGED <<client, closed>>

(* Each kind of client with the fairness its promise needs, and no more:   *)
(* the timers need not run for a client that reads on.                     *)
FairSpec ==
    /\ Spec
    /\ \A d \in Dials : WF_vars(RetransmitDue(d))
    /\ \A k \in Keys : WF_vars(ClientReads(k)) /\ WF_vars(ClientAcknowledge(k))

-----------------------------------------------------------------------------
(* Properties.                                                             *)

Live(d) == IndexOfDial(d) # {}
ConnOf(d) == connections[CHOOSE i \in IndexOfDial(d) : TRUE]
DataOf(c) == FlattenSeq([j \in DOMAIN c.unacknowledged |->
                            c.unacknowledged[j].payload]) \o c.send_queue

(* Types: one record per live connection, dials handed out once.           *)
TypeOK ==
    /\ next_dial \in {0} \cup Dials /\ closed \in BOOLEAN
    /\ \A i \in DOMAIN connections :
          LET c == connections[i]
          IN  /\ c.key \in Keys /\ c.dial \in 1 .. next_dial
              /\ c.state \in {"SynReceived", "Established", "InboundClosed"}
              /\ {c.receive_next, c.send_next, c.send_unacknowledged}
                    \subseteq 0 .. SeqSpace - 1
              /\ c.peer_window \in Windows
              /\ c.retransmits \in 0 .. MaxRetransmits
              /\ {c.handshake_complete, c.upstream_connected, c.upstream_done,
                  c.inbound_closed, c.upstream_paused, c.fin_sent,
                  c.retransmit_armed} \subseteq BOOLEAN
    /\ \A d \in Dials :
          /\ upstream[d].phase \in {"none", "dialing", "connected", "ended"}
          /\ upstream[d].fed \in 0 .. RelayBytes

(* What a relay is given, with what is still held for it, is the client's  *)
(* stream from its first byte on: no hole, no repeat, no reordering        *)
(* (accept_payload, flush_pending_upstream).                               *)
RelayedInOrder ==
    \A d \in 1 .. next_dial :
       LET given == upstream[d].sent
             \o (IF Live(d) THEN ConnOf(d).pending_for_upstream ELSE <<>>)
       IN  given = Counting(1, Len(given))

(* The terminator acknowledges exactly what the relay was given or is held *)
(* for it, plus the client's FIN: an acknowledged byte is never lost, and  *)
(* none is given away that the client has not sent (with the types).       *)
AcknowledgedIsHeld ==
    /\ TypeOK
    /\ \A i \in DOMAIN connections :
          LET c == connections[i]
              kept == Len(upstream[c.dial].sent) + Len(c.pending_for_upstream)
          IN  /\ c.receive_next = sequence_add(ClientISS, 1 + kept
                     + IF c.inbound_closed THEN 1 ELSE 0)
              /\ kept <= client[c.key].sent

(* The unacknowledged segments and the queue together are the tail of what *)
(* the relay delivered, and every segment sits at the sequence number of   *)
(* its first byte, retransmitted ones included (emit, flush, acknowledge). *)
SendBufferIntact ==
    /\ \A i \in DOMAIN connections :
          LET c == connections[i]
              fed == upstream[c.dial].fed
              data == DataOf(c)
          IN  /\ data = Counting(fed - Len(data) + 1, fed)
              /\ \A j \in DOMAIN c.unacknowledged :
                    LET s == c.unacknowledged[j]
                    IN  s.kind = "DATA" =>
                           s.seq = sequence_add(OurISS, Head(s.payload))
    /\ \A k \in Keys : client[k].got = Counting(1, Len(client[k].got))

(* A client that sees the terminator's FIN in sequence has every byte the  *)
(* relay delivered before it ended (maybe_finish sends it when drained).   *)
OrderlyEndIsComplete ==
    \A d \in 1 .. next_dial :
       LET c == client[upstream[d].key]
       IN  Live(d) /\ c.gotFin =>
              /\ upstream[d].phase = "ended" /\ Len(c.got) = upstream[d].fed

(* Every dial is released exactly once, when its connection goes.          *)
ReleasedOnce ==
    \A d \in 1 .. next_dial :
       /\ upstream[d].closes = IF Live(d) THEN 0 ELSE 1
       /\ \A i, j \in IndexOfDial(d) : i = j

(* Every byte a relay delivers reaches a client that keeps reading, unless *)
(* the flow is released: an ACK that opens room always sends more (flush). *)
DeliveredToReader ==
    \A d \in Dials, n \in 1 .. RelayBytes :
       (/\ Live(d) /\ upstream[d].fed >= n
        /\ client[upstream[d].key].may.reads) ~>
          (~Live(d) \/ Len(client[upstream[d].key].got) >= n)

(* A SYN-ACK or data is acknowledged in the end or the flow is given up    *)
(* on: a client that went silent does not keep its dial for ever.  The     *)
(* exception is our own FIN, which maybe_finish sends when the timer is    *)
(* disarmed and which is sent again only if something else armed it.       *)
Forgotten(c) ==
    /\ ~c.retransmit_armed
    /\ \A j \in DOMAIN c.unacknowledged : c.unacknowledged[j].kind = "FIN"
AwaitsAck(d) == Live(d) /\ ~Forgotten(ConnOf(d)) /\ ConnOf(d).unacknowledged # <<>>
AckedOrGivenUp == \A d \in Dials : AwaitsAck(d) ~> ~AwaitsAck(d)

(* The flows as the relay sees them: the promise this module keeps.        *)
flows == [d \in Dials |->
   [phase |-> IF upstream[d].closes > 0 THEN "released"
              ELSE IF upstream[d].phase = "none" THEN "none" ELSE "open",
    offered |-> IF upstream[d].phase = "none" THEN 0
                ELSE client[upstream[d].key].sent,
    given |-> Len(upstream[d].sent), eof |-> upstream[d].eof]]

Promise == INSTANCE RelayedFlow WITH
    Flows <- Dials, MaxBytes <- ClientBytes, flow <- flows

KeepsPromise == Promise!FlowSpec

-----------------------------------------------------------------------------
(* The clients whose streams the theorems are about.                       *)

(* On a path that keeps no order a segment carries one byte at most, so it *)
(* fits the hole it fills, and none carries a FIN.                         *)
Proper ==
    \A may \in Clients, k \in Keys :
       may[k].lossy => may[k].lengths \subseteq {1} /\ ~may[k].closes

(* Clients that no removal disturbs: at most one of them opens             *)
(* connections, or none of them sends a byte or a FIN.                     *)
Apart ==
    \A may \in Clients :
       \/ Cardinality({k \in Keys : may[k].opens}) <= 1
       \/ \A k \in Keys : may[k].bytes = 0 /\ ~may[k].closes
=============================================================================
