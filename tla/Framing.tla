------------------------------ MODULE Framing ------------------------------
(***************************************************************************)
(* How a byte stream of the gateway becomes handshake results, frames and  *)
(* packets (l3.rs, packet.rs: one L3 node) or a hello and payload          *)
(* (tcp_tunnel.rs, relay.rs: one relay), whatever the chunks a read        *)
(* returns.  A byte is a number, and every length, status and type is in   *)
(* the place the code reads it from; a JSON document is one byte, its      *)
(* code.                                                                   *)
(*                                                                         *)
(* A stream is a sequence of pieces, each the bytes the gateway writes and *)
(* what they stand for.  It is chosen once, then fed in chunks of any      *)
(* size to the decoder the core runs.                                      *)
(***************************************************************************)
EXTENDS Integers, Sequences, SequencesExt

CONSTANTS
    MaxBlocks,   \* bound: blocks after the handshake in one stream
    MaxPayload   \* MAX_FRAME_PAYLOAD: the most a data frame carries

ASSUME FramingAssumption == MaxBlocks \in Nat /\ MaxPayload \in Nat \ {0}

VARIABLES
    stream,    \* the pieces the gateway writes, in order
    fed,       \* how many of its bytes have been read
    decoder,   \* the state of the core's parsers for this channel
    out        \* what they have handed on

vars == <<stream, fed, decoder, out>>

Version == 5                      \* PROTOCOL_VERSION
AuthMethod == 208
AuthHeader == 83
TcpHello == 129

AuthRequest == 19
DataRequest == 20
HeartbeatRequest == 21
AuthResponse == 147
DataResponse == 148
HeartbeatResponse == 149
SecondVip == 150
Commands == {AuthRequest, DataRequest, HeartbeatRequest, AuthResponse,
             DataResponse, HeartbeatResponse, SecondVip}
HasStatus(command) == command \in {AuthResponse, SecondVip}

Int16(high, low) == 256 * high + low
Length16(n) == <<n \div 256, n % 256>>
Bytes(n, byte) == [i \in 1 .. n |-> byte]
After(bytes, n) == SubSeq(bytes, n + 1, Len(bytes))
Before(bytes, n) == SubSeq(bytes, 1, n)

(***************************************************************************)
(* The L3 handshake.                                                       *)
(***************************************************************************)
Fresh ==
    [protocol |-> "l3", up |-> FALSE, phase |-> 0, length |-> 0,
     buffer |-> <<>>, stream |-> <<>>,
     zero |-> FALSE, framed |-> FALSE, finished |-> FALSE]

(* The bytes of a virtual-IP payload, by its address type.                 *)
VipLength(type) == CASE type = 1 -> 6 [] type = 4 -> 18 [] type = 5 -> 22

(* The addresses of such a payload, each by its first byte.                *)
Addresses(vip) ==
    CASE Len(vip) = 6 -> {vip[1]}
      [] Len(vip) = 18 -> {vip[1]}
      [] Len(vip) = 22 -> {vip[1], vip[5]}

(* What each phase of the sequence waits for, ...                          *)
Needed(d) ==
    CASE d.phase = 0 -> 2
      [] d.phase \in {1, 3} -> 4
      [] OTHER -> d.length

(* ... what it refuses ...                                                 *)
Refuses(d) ==
    LET b == d.buffer IN
    CASE d.phase = 0 -> b[1] # Version \/ b[2] # AuthMethod
      [] d.phase = 1 -> b[1] # AuthHeader \/ b[2] # 0
      [] d.phase = 2 -> d.length > 0 /\ b[1] # 0
      [] d.phase = 3 -> b[1] # Version \/ b[2] # 0 \/ b[4] \notin {1, 4, 5}
      [] OTHER -> FALSE

(* ... and the length it reads for the next.                               *)
NextLength(d) ==
    LET b == d.buffer IN
    CASE d.phase = 1 -> Int16(b[3], b[4])
      [] d.phase = 3 -> VipLength(b[4])
      [] OTHER -> d.length

Failed(d) == [d |-> d, out |-> <<>>, failed |-> TRUE]
Waits(d) == [d |-> d, out |-> <<>>, failed |-> FALSE]

RECURSIVE Handshake(_)
Handshake(d) ==
    IF Len(d.buffer) < Needed(d) THEN Waits(d)
    ELSE IF Refuses(d) THEN Failed(d)
    ELSE LET rest == After(d.buffer, Needed(d)) IN
         IF d.phase < 4
         THEN Handshake([d EXCEPT !.phase = @ + 1, !.length = NextLength(d),
                                  !.buffer = rest])
         ELSE [d |-> [d EXCEPT !.up = TRUE, !.buffer = rest],
               out |-> <<Addresses(Before(d.buffer, d.length))>>,
               failed |-> FALSE]

(***************************************************************************)
(* Frames, and the packets of the stream their payloads make.              *)
(***************************************************************************)
HeaderLength(command) == IF HasStatus(command) THEN 5 ELSE 4

(* The length of the frame the bytes begin with: 0 while it is not known   *)
(* or not there, -1 when they are no frame.                                *)
decode_one(b) ==
    IF Len(b) < 2 THEN 0
    ELSE IF b[1] # Version \/ b[2] \notin Commands THEN -1
    ELSE LET header == HeaderLength(b[2]) IN
         IF Len(b) < header THEN 0
         ELSE LET total == header + Int16(b[header - 1], b[header]) IN
              IF Len(b) < total THEN 0 ELSE total

decode_frame(b) ==
    LET header == HeaderLength(b[2]) IN
    [command |-> b[2], status |-> IF HasStatus(b[2]) THEN b[3] ELSE 0,
     payload |-> After(b, header)]

(* Every frame that is complete; a byte that is no frame loses those of    *)
(* the same chunk, which have left the buffer.                             *)
RECURSIVE Frames(_, _)
Frames(b, frames) ==
    LET n == decode_one(b) IN
    CASE n = 0 -> [frames |-> frames, rest |-> b, failed |-> FALSE]
      [] n = -1 -> [frames |-> <<>>, rest |-> b, failed |-> TRUE]
      [] OTHER -> Frames(After(b, n),
                         Append(frames, decode_frame(Before(b, n))))

(* The length of the packet a stream begins with: 0 while its header is    *)
(* not there, -1 when it is no packet.                                     *)
PacketLength(b) ==
    CASE b[1] \div 16 = 4 ->
           IF Len(b) < 4 THEN 0
           ELSE LET header == 4 * (b[1] % 16)
                    total == Int16(b[3], b[4])
                IN  IF header < 20 \/ total < header THEN -1 ELSE total
      [] b[1] \div 16 = 6 ->
           IF Len(b) < 6 THEN 0 ELSE 40 + Int16(b[5], b[6])
      [] OTHER -> -1

RECURSIVE split_incoming_packets(_, _)
split_incoming_packets(b, packets) ==
    IF b = <<>> THEN [packets |-> packets, rest |-> b]
    ELSE LET n == PacketLength(b) IN
         CASE n = -1 -> [packets |-> <<>>, rest |-> <<>>]
           [] n = 0 \/ Len(b) < n -> [packets |-> packets, rest |-> b]
           [] OTHER -> split_incoming_packets(After(b, n),
                                              Append(packets, Before(b, n)))

(* What one frame makes the plane hand on.                                 *)
handle_frame(d, frame) ==
    CASE frame.command = DataResponse ->
           LET split == split_incoming_packets(d.stream \o frame.payload, <<>>)
           IN  [d |-> [d EXCEPT !.stream = split.rest], out |-> split.packets]
      [] frame.command = SecondVip ->
           [d |-> d, out |-> IF frame.status = 0 /\ frame.payload # <<>>
                             THEN <<{frame.payload[1]}>> ELSE <<>>]
      [] frame.command = AuthResponse ->
           [d |-> d, out |-> <<<<frame.status>> \o frame.payload>>]
      [] frame.command = HeartbeatResponse -> [d |-> d, out |-> <<"alive">>]
      [] OTHER -> [d |-> d, out |-> <<>>]

(* A bad frame is reported and the node stays up.                          *)
consume_frames(d, chunk) ==
    LET read == Frames(d.buffer \o chunk, <<>>)
        start == [d |-> [d EXCEPT !.buffer = read.rest], out |-> <<>>]
        take(acc, frame) ==
            LET one == handle_frame(acc.d, frame)
            IN  [d |-> one.d, out |-> acc.out \o one.out]
        done == FoldLeft(take, start, read.frames)
    IN  [d |-> done.d, out |-> done.out, failed |-> FALSE]

consume_handshake_only(d, chunk) ==
    LET shaken == Handshake([d EXCEPT !.buffer = @ \o chunk])
    IN  IF shaken.d.up THEN [shaken EXCEPT !.d.buffer = <<>>] ELSE shaken

(* The bytes that follow the handshake go to the frame decoder at once.    *)
consume_handshake(d, chunk) ==
    LET shaken == Handshake([d EXCEPT !.buffer = @ \o chunk])
        leftover == shaken.d.buffer
        frames == consume_frames([shaken.d EXCEPT !.buffer = <<>>], leftover)
    IN  IF shaken.failed \/ ~shaken.d.up THEN shaken
        ELSE [frames EXCEPT !.out = shaken.out \o @]

(***************************************************************************)
(* The TCP tunnel.                                                         *)
(***************************************************************************)
(* A hello: how many bytes it takes (0 while incomplete, -1 when it is     *)
(* none), whether the gateway accepts, and whether it offers framed mode.  *)
parse_server_response(b) ==
    LET reply(n, accepts, reuse) ==
            [consumed |-> n, accepts |-> accepts, reuse |-> reuse]
        more == reply(0, FALSE, FALSE)
        bad == reply(-1, FALSE, FALSE)
    IN  IF Len(b) < 6 THEN more
        ELSE IF Before(b, 4) # <<Version, TcpHello, AuthHeader, 0>> THEN bad
        ELSE LET auth == Int16(b[5], b[6])
                 code == IF auth = 0 THEN 0 ELSE b[7]
                 at == 6 + auth
             IN  IF Len(b) < at + 4 THEN more
                 ELSE IF b[at + 1] # Version THEN bad
                 ELSE IF b[at + 2] # 0 THEN reply(at + 4, FALSE, FALSE)
                 ELSE IF b[at + 4] \notin {1, 4} THEN bad
                 ELSE LET n == at + 6 + (IF b[at + 4] = 1 THEN 4 ELSE 16) IN
                      IF Len(b) < n THEN more
                      ELSE reply(n, code = 0, b[at + 3] = 1)

(* The record the bytes begin with: 0, -1 as above; an end of stream takes *)
(* whatever has been read.                                                 *)
parse_data_frame(b) ==
    CASE Len(b) < 4 -> 0
      [] Len(b) >= 4 /\ (b[1] # 1 \/ b[2] \notin {0, 1}) -> -1
      [] Len(b) >= 4 /\ b[1] = 1 /\ b[2] = 1 -> Len(b)
      [] OTHER -> LET n == 4 + Int16(b[3], b[4])
                  IN  IF Len(b) < n THEN 0 ELSE n

data_frame(data) == <<1, 0>> \o Length16(Len(data)) \o data
eof_frame == <<1, 1, 0, 0>>

(* The pieces of a payload, as many as the frame limit asks for.           *)
RECURSIVE data_frames(_)
data_frames(data) ==
    IF data = <<>> THEN <<>>
    ELSE LET n == IF Len(data) < MaxPayload THEN Len(data) ELSE MaxPayload
         IN  <<Before(data, n)>> \o data_frames(After(data, n))

RECURSIVE Payloads(_, _)
Payloads(d, got) ==
    LET n == parse_data_frame(d.buffer)
        rest == [d EXCEPT !.buffer = After(d.buffer, n)]
    IN  CASE n = 0 -> [d |-> d, out |-> got, failed |-> FALSE]
          [] n = -1 -> [d |-> d, out |-> <<>>, failed |-> TRUE]
          [] n > 0 /\ d.buffer[2] = 1 ->
               [d |-> [rest EXCEPT !.finished = TRUE], out |-> got,
                failed |-> FALSE]
          [] OTHER -> Payloads(rest, got \o SubSeq(d.buffer, 5, n))

PayloadPush(d, chunk) ==
    CASE d.finished -> Waits(d)
      [] ~d.finished /\ ~d.framed -> [Waits(d) EXCEPT !.out = chunk]
      [] OTHER -> Payloads([d EXCEPT !.buffer = @ \o chunk], <<>>)

(* Relay::receive while the hello is awaited.  Framed mode takes the       *)
(* gateway's offer and a zero-RTT dial.                                    *)
Opening(d, chunk) ==
    LET b == d.buffer \o chunk
        hello == parse_server_response(b)
        open == [d EXCEPT !.up = TRUE, !.buffer = <<>>,
                          !.framed = d.zero /\ hello.reuse]
    IN  CASE hello.consumed = 0 -> Waits([d EXCEPT !.buffer = b])
          [] hello.consumed = -1 \/ ~hello.accepts -> Failed(d)
          [] OTHER -> PayloadPush(open, After(b, hello.consumed))

(***************************************************************************)
(* One read of the channel.  The owner of a failed decoder closes the      *)
(* channel and reads no more.                                              *)
(***************************************************************************)
Push(d, chunk) ==
    CASE d.protocol = "l3" /\ ~d.up -> consume_handshake(d, chunk)
      [] d.protocol = "l3" /\ d.up -> consume_frames(d, chunk)
      [] d.protocol = "tcp" /\ ~d.up -> Opening(d, chunk)
      [] d.protocol = "tcp" /\ d.up -> PayloadPush(d, chunk)

Wire(pieces) == FlattenSeq([i \in DOMAIN pieces |-> pieces[i].bytes])

Read(n) ==
    /\ ~decoder.failed
    /\ fed + n <= Len(Wire(stream.pieces))
    /\ LET got == Push(decoder.d, SubSeq(Wire(stream.pieces), fed + 1, fed + n))
       IN  /\ decoder' = [d |-> got.d, failed |-> got.failed]
           /\ out' = out \o got.out
    /\ fed' = fed + n
    /\ UNCHANGED stream

(***************************************************************************)
(* The streams: a handshake, then blocks of pieces.                        *)
(***************************************************************************)
Piece(bytes, means) == [bytes |-> bytes, means |-> means]

Shake(auth, type, vip) ==
    Piece(<<Version, AuthMethod, AuthHeader, 0>> \o Length16(Len(auth)) \o auth
            \o <<Version, 0, 0, type>> \o vip,
          <<Addresses(vip)>>)

Shakes ==
    {Shake(<<>>, 1, Bytes(6, 5)),
     Shake(<<0>>, 5, Bytes(4, 9) \o Bytes(18, 5))}

Frame(command, payload) ==
    <<Version, command>> \o Length16(Len(payload)) \o payload
StatusFrame(command, status, payload) ==
    <<Version, command, status>> \o Length16(Len(payload)) \o payload

(* A packet whose payload looks like a frame of its own.                   *)
Packet4 == <<69, 0, 0, 24>> \o Bytes(16, 0) \o <<Version, HeartbeatResponse, 0, 0>>
Packet6 == <<96, 0, 0, 0, 0, 1>> \o Bytes(35, 0)

Split(packet, n) ==
    <<Piece(Frame(DataResponse, Before(packet, n)), <<>>),
      Piece(Frame(DataResponse, After(packet, n)), <<packet>>)>>

Blocks ==
    {<<Piece(Frame(HeartbeatResponse, <<>>), <<"alive">>)>>,
     <<Piece(StatusFrame(AuthResponse, 0, <<Version>>), <<<<0, Version>>>>)>>,
     <<Piece(StatusFrame(SecondVip, 0, <<7>>), <<{7}>>)>>,
     <<Piece(StatusFrame(SecondVip, 1, <<7>>), <<>>)>>,
     <<Piece(Frame(DataRequest, <<1>>), <<>>)>>,
     <<Piece(Frame(DataResponse, <<9>>), <<>>)>>,
     <<Piece(Frame(DataResponse, Packet4 \o Packet6), <<Packet4, Packet6>>)>>}
    \cup {Split(Packet4, n) : n \in {1, 3, 20}}
    \cup {Split(Packet6, 5)}

Hello(auth, type, reuse) ==
    Piece(<<Version, TcpHello, AuthHeader, 0>> \o Length16(Len(auth)) \o auth
            \o <<Version, 0, reuse, type>>
            \o Bytes(IF type = 1 THEN 6 ELSE 18, 1), <<>>)

(* Payload that looks like a record, in the mode both ends agreed on.      *)
Payload == <<1, 1, 0, 0, 1, 0, 0>>
Raw == [i \in DOMAIN Payload |-> Piece(<<Payload[i]>>, <<Payload[i]>>)]
Framed ==
    LET data == data_frames(Payload)
    IN  [i \in DOMAIN data |-> Piece(data_frame(data[i]), data[i])]
        \o <<Piece(data_frame(<<>>), <<>>), Piece(eof_frame, <<>>),
             Piece(data_frame(<<3>>), <<>>)>>

(* A stream, of which the first n pieces are sound: past them it is        *)
(* refused, or holds bytes that are no frame.                              *)
Stream(protocol, zero, pieces, n) ==
    [protocol |-> protocol, zero |-> zero, pieces |-> pieces, sound |-> n]

L3Streams ==
    LET whole(pieces) == Stream("l3", FALSE, pieces, Len(pieces))
        alive == Piece(Frame(HeartbeatResponse, <<>>), <<"alive">>)
    IN  {whole(<<shake>> \o FlattenSeq(b)) :
            shake \in Shakes, b \in BoundedSeq(Blocks, MaxBlocks)}
        \cup {Stream("l3", FALSE, <<shake, alive, Piece(<<Version, 99>>, <<>>),
                                   alive>>, 2) : shake \in Shakes}
        \cup {Stream("l3", FALSE, <<Shake(<<1>>, 1, Bytes(6, 5)), alive>>, 0)}

TcpStreams ==
    LET mode(zero, reuse) == IF zero /\ reuse = 1 THEN Framed ELSE Raw
        whole(zero, pieces) == Stream("tcp", zero, pieces, Len(pieces))
        refusal == <<Version, TcpHello, AuthHeader, 0, 0, 0, Version, 2, 0, 0>>
    IN  {whole(zero, <<Hello(auth, type, reuse)>> \o mode(zero, reuse)) :
            zero \in BOOLEAN, auth \in {<<>>, <<0>>}, type \in {1, 4},
            reuse \in {0, 1}}
        \cup {Stream("tcp", TRUE, <<hello>> \o Raw, 0) :
                hello \in {Hello(<<1>>, 1, 0), Piece(refusal, <<>>)}}
        \cup {Stream("tcp", TRUE,
                     <<Hello(<<>>, 1, 1), Piece(data_frame(<<3>>), <<3>>),
                       Piece(<<7, 0, 0, 0>>, <<>>),
                       Piece(data_frame(<<3>>), <<3>>)>>, 2)}

Init ==
    /\ stream \in L3Streams \cup TcpStreams
    /\ fed = 0
    /\ decoder = [d |-> [Fresh EXCEPT !.protocol = stream.protocol,
                                      !.zero = stream.zero],
                  failed |-> FALSE]
    /\ out = <<>>

Next == \E n \in 1 .. Len(Wire(stream.pieces)) : Read(n)

Spec == Init /\ [][Next]_vars

-----------------------------------------------------------------------------
(* What the pieces read whole stand for.                                   *)
RECURSIVE Meant(_, _)
Meant(pieces, n) ==
    IF pieces = <<>> \/ Len(Head(pieces).bytes) > n THEN <<>>
    ELSE Head(pieces).means \o Meant(Tail(pieces), n - Len(Head(pieces).bytes))

Sound == Before(stream.pieces, stream.sound)

(* What is sound is decoded piece by piece as its bytes arrive, whatever   *)
(* the chunks: nothing is dropped where a handshake, a frame or a packet   *)
(* ends inside a chunk, nothing is handed on before it is whole, and no    *)
(* payload is taken for a header; and a refused dial, or a channel that    *)
(* goes wrong, hands nothing on past that place (FrameDecoder,             *)
(* HandshakeParser, HandshakeDecoder, PayloadDecoder,                      *)
(* split_incoming_packets).                                                *)
DecodedIsSent ==
    /\ fed <= Len(Wire(Sound)) =>
          ~decoder.failed /\ out = Meant(Sound, fed)
    /\ IsPrefix(out, Meant(Sound, fed))
=============================================================================
