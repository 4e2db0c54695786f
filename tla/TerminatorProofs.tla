--------------------------- MODULE TerminatorProofs ---------------------------
(***************************************************************************)
(* Theorems about the TCP terminator (Terminator.tla), for any number of   *)
(* flows, any clients and losses, any sizes and limits: the connections    *)
(* stay well-formed, every dial is released exactly once, what is released *)
(* hears nothing more, and what goes to the clients is the relay's stream, *)
(* whole and in order, with the FIN behind all of it.  What comes from the *)
(* clients is acknowledged, held and given to the relays whole and in      *)
(* order, as RelayedFlow promises them, for clients whose segments fit the *)
(* holes they fill (Proper) and as long as no removal disturbs another     *)
(* flow (Undisturbed, Apart): MCTerminator's other runs show that neither  *)
(* can be left out.                                                        *)
(*                                                                         *)
(* The handlers work by index on a vector from which entries are removed   *)
(* half-way, so the invariant (Kept, Flowing) is a predicate of a table:   *)
(* no two connections share a dial, a dial is released exactly when no     *)
(* live connection holds it, and what a connection holds is the tail of    *)
(* what its relay delivered.  Each operation is shown to keep it on a      *)
(* connection that is live, whichever it is, before the handlers are       *)
(* composed of them: the invariant holds through the index slip of handle. *)
(***************************************************************************)
EXTENDS Terminator, TablesProofs

Space == 0 .. SeqSpace - 1
Bytes == Seq(Int)
Unacknowledged == [kind : {"SYNACK", "DATA", "FIN"}, seq : Space,
                   payload : Bytes, length : Nat]
Conn == [key : Keys, dial : Dials,
         state : {"SynReceived", "Established", "InboundClosed", "Closed"},
         receive_next : Space, send_next : Space, send_unacknowledged : Space,
         peer_window : Windows, handshake_complete : BOOLEAN,
         upstream_connected : BOOLEAN, upstream_done : BOOLEAN,
         inbound_closed : BOOLEAN, upstream_paused : BOOLEAN,
         fin_sent : BOOLEAN, unacknowledged : Seq(Unacknowledged),
         send_queue : Bytes, pending_for_upstream : Bytes,
         retransmit_armed : BOOLEAN, retransmits : 0 .. MaxRetransmits]
Up == [phase : {"none", "dialing", "connected", "ended"}, key : Keys,
       sent : Bytes, eof : BOOLEAN, closes : Nat, paused : BOOLEAN,
       fed : 0 .. RelayBytes]

-----------------------------------------------------------------------------
(* The stream of a connection: the bytes its relay delivered, in order.    *)

(* Bytes of the first n, in their order and at their sequence number.      *)
Run(payload, seq, n) ==
    \E a, b \in 1 .. n : /\ a <= b /\ payload = Counting(a, b)
                         /\ seq = sequence_add(OurISS, a)

(* The positions a segment occupies: the SYN-ACK comes before the first    *)
(* byte, the FIN behind the last one the relay delivered.                  *)
Position(s, fed) == IF s.kind = "SYNACK" THEN 0
                    ELSE IF s.kind = "DATA" THEN s.payload[1] ELSE fed + 1
Ends(s, fed) == Position(s, fed) + s.length

Placed(s, fed, fin) ==
    /\ s.seq = sequence_add(OurISS, Position(s, fed))
    /\ s.kind = "DATA" => Run(s.payload, s.seq, fed) /\ s.length = Len(s.payload)
    /\ s.kind # "DATA" => s.payload = <<>> /\ s.length = 1
    /\ s.kind = "FIN" => fin

(* Segments laid end to end, up to a position.                             *)
Chain(q, fed, fin, upto) ==
    \A j \in 1 .. Len(q) :
       /\ Placed(q[j], fed, fin)
       /\ Ends(q[j], fed) = IF j = Len(q) THEN upto ELSE Position(q[j + 1], fed)

(* The position of what is sent next.                                      *)
Ahead(c, fed) == 1 + (fed - Len(c.send_queue)) + (IF c.fin_sent THEN 1 ELSE 0)

(* What a connection has sent and not seen acknowledged, then its queue,   *)
(* are the last of what its relay delivered; a FIN comes when that is all. *)
Tiled(c, u) ==
    /\ Len(c.send_queue) <= u.fed
    /\ c.send_queue = Counting(u.fed - Len(c.send_queue) + 1, u.fed)
    /\ c.send_next = sequence_add(OurISS, Ahead(c, u.fed))
    /\ c.fin_sent => c.upstream_done /\ c.send_queue = <<>>
    /\ c.upstream_done => u.phase = "ended"
    /\ Chain(c.unacknowledged, u.fed, c.fin_sent, Ahead(c, u.fed))

(* What a packet under way to the client carries.                          *)
Fits(p, n, fin) == /\ p.kind = "DATA" => Run(p.payload, p.seq, n)
                   /\ p.kind = "FIN" => fin /\ p.seq = sequence_add(OurISS, n + 1)

(* What a client has got of a stream of n bytes, and what is under way.    *)
Line(x, w, n, fin) ==
    /\ \E m \in 0 .. n : x.got = Counting(1, m) /\ (x.gotFin => fin /\ m = n)
    /\ \A p \in w : Fits(p, n, fin)

(* Until the client has acknowledged the SYN-ACK, nothing else is sent.    *)
Shook(c) ==
    ~c.handshake_complete => /\ c.send_unacknowledged = OurISS
                             /\ Len(c.unacknowledged) = 1
                             /\ c.unacknowledged[1].kind = "SYNACK"
Untouched(x) == x.got = <<>> /\ ~x.gotFin
Empty(packets) == \A p \in packets : p.kind \notin {"DATA", "FIN"}
Before(c, w, x) ==
    Shook(c) /\ (~c.handshake_complete => Untouched(x) /\ Empty(w))

Streaming(c, u, w, x) ==
    Tiled(c, u) /\ Line(x, w, u.fed, c.fin_sent) /\ Before(c, w, x)

(* A step of a connection and its relay, with the packets it sends, goes   *)
(* on with the stream, whatever the client has got of it.                  *)
Continues(c, u, d, v, packets) ==
    \A x, w : Streaming(c, u, w, x) => Streaming(d, v, w \cup packets, x)

(* Every connection's stream goes on from what its client has got (h), and *)
(* what is under way to a client is of the stream it has got a part of.    *)
Flowing(t, h) ==
    /\ \A i \in 1 .. Len(t.conns) : t.conns[i].state # "Closed" =>
          Streaming(t.conns[i], t.up[t.conns[i].dial],
                    t.wire[t.conns[i].key], h[t.conns[i].key])
    /\ \A k \in Keys : \E n \in 0 .. RelayBytes, fin \in BOOLEAN :
          Line(h[k], t.wire[k], n, fin)

Carries(t, u) == \A h : Flowing(t, h) => Flowing(u, h)

-----------------------------------------------------------------------------
(* A live connection holds its dial.                                       *)
Holds(t, d) ==
    \E i \in 1 .. Len(t.conns) : t.conns[i].dial = d /\ t.conns[i].state # "Closed"

(* What is under way, of every client.                                     *)
Wired(w) == w = [k \in Keys |-> w[k]]
Delivered(w, k, packets) == [w EXCEPT ![k] = @ \cup packets]

(* A table with n dials handed out.                                        *)
Kept(t, n) ==
    /\ n \in Nat /\ t = [conns |-> t.conns, wire |-> t.wire, up |-> t.up]
    /\ t.conns \in Seq(Conn) /\ t.up \in [Dials -> Up]
    /\ \A i \in 1 .. Len(t.conns) : t.conns[i].dial <= n
    /\ \A i, j \in 1 .. Len(t.conns) : i # j =>
          t.conns[i].dial # t.conns[j].dial /\ t.conns[i].key # t.conns[j].key
    /\ \A d \in Dials : t.up[d].closes = IF Holds(t, d) \/ d > n THEN 0 ELSE 1
    /\ \A i \in 1 .. Len(t.conns) : t.up[t.conns[i].dial].key = t.conns[i].key
    /\ \A d \in Dials : d > n => t.up[d].fed = 0
    /\ Wired(t.wire)

(* A dial that is released hears nothing more.                             *)
Quiet(t, u) == \A d \in Dials : t.up[d].closes > 0 => u.up[d] = t.up[d]

Onward(t, u) == Quiet(t, u) /\ Carries(t, u)

(* An operation on connection i leaves the others alone.                   *)
Alone(t, u, i) ==
    /\ Onward(t, u) /\ Len(u.conns) = Len(t.conns)
    /\ u.conns[i].dial = t.conns[i].dial /\ u.conns[i].key = t.conns[i].key
    /\ \A j \in 1 .. Len(t.conns) : j # i => u.conns[j] = t.conns[j]

Works(t, n, i) ==
    Kept(t, n) /\ i \in 1 .. Len(t.conns) /\ t.conns[i].state # "Closed"

LEMMA Constants ==
    /\ IsFiniteSet(Keys) /\ SeqSpace \in Nat /\ SeqSpace > 0
    /\ ClientISS \in Space /\ OurISS \in Space
    /\ MSS \in Nat \ {0} /\ Windows \subseteq Nat /\ MaxRetransmits \in Nat
    /\ ResumeAt \in Nat /\ PauseAt \in Nat
    /\ ClientBytes \in Nat /\ RelayBytes \in Nat
    /\ ChunkLengths \subseteq Nat \ {0} /\ Clients \subseteq [Keys -> Traits]
<1>1. SeqSpace \in Nat /\ ClientBytes \in Nat /\ RelayBytes \in Nat
      /\ SeqSpace > 4 * (1 + ClientBytes + RelayBytes)
  BY TerminatorAssumption
<1>2. SeqSpace > 0
  BY <1>1
<1>. QED  BY <1>2, TerminatorAssumption DEF Space

LEMMA DialsAre ==
    /\ Cardinality(Keys) \in Nat
    /\ \A d : d \in Dials <=> d \in Nat /\ 1 <= d /\ d <= Cardinality(Keys)
<1>1. Cardinality(Keys) \in Nat
  BY Constants, FS_CardinalityType
<1>. QED  BY <1>1 DEF Dials

-----------------------------------------------------------------------------
(* Sequence space.                                                         *)

LEMMA AddInSpace ==
    ASSUME NEW a \in Int, NEW b \in Int
    PROVE  sequence_add(a, b) \in Space
  BY Constants DEF sequence_add, Space

LEMMA DifferenceIsInt ==
    ASSUME NEW a \in Int, NEW b \in Int
    PROVE  sequence_difference(a, b) \in Int
<1>1. (b - a) % SeqSpace \in Int /\ SeqSpace \in Int
  BY Constants
<1>. QED  BY <1>1 DEF sequence_difference

(* Remainders: what equals a number up to multiples of S lies near it.     *)
LEMMA Division ==
    ASSUME NEW S \in Nat, S > 0, NEW a \in Int
    PROVE  /\ (a % S) \in 0 .. S - 1 /\ (a \div S) \in Int
           /\ a = S * (a \div S) + (a % S)
  OBVIOUS

LEMMA Multiple ==
    ASSUME NEW S \in Nat, S > 0, NEW p \in Int, NEW q \in Int,
           S * p - S * q < S, S * q - S * p < S
    PROVE  p = q
<1>1. S * (p - q) < S /\ S * (q - p) < S
  OBVIOUS
<1>2. CASE p - q >= 1
  <2>1. S * (p - q) >= S * 1
    BY <1>2
  <2>. QED  BY <1>1, <2>1
<1>3. CASE q - p >= 1
  <2>1. S * (q - p) >= S * 1
    BY <1>3
  <2>. QED  BY <1>1, <2>1
<1>. QED  BY <1>2, <1>3

LEMMA Residue ==
    ASSUME NEW S \in Nat, S > 0, NEW a \in Int, NEW q \in Int, NEW r \in 0 .. S - 1,
           a = S * q + r
    PROVE  (a % S) = r
<1>. DEFINE p == a \div S
            s == a % S
            x == S * p
            y == S * q
<1>1. /\ p \in Int /\ s \in 0 .. S - 1 /\ a = x + s
      /\ x \in Int /\ y \in Int /\ a = y + r
  BY Division
<1>. HIDE DEF s, x, y
<1>2. x - y < S /\ y - x < S
  BY <1>1
<1>. HIDE DEF p
<1>3. p = q
  BY <1>1, <1>2, Multiple DEF x, y
<1>4. x = y
  BY <1>3 DEF x, y
<1>5. s = r
  BY <1>1, <1>4
<1>. QED  BY <1>5 DEF s

LEMMA RemainderAdds ==
    ASSUME NEW S \in Nat, S > 0, NEW a \in Int, NEW b \in Int
    PROVE  (((a % S) + b) % S) = ((a + b) % S)
<1>. DEFINE q == a \div S
            r == a % S
            p == (r + b) \div S
            s == (r + b) % S
<1>1. r \in 0 .. S - 1 /\ q \in Int /\ a = S * q + r
  BY Division
<1>2. r + b \in Int
  BY <1>1
<1>. HIDE DEF r
<1>3. s \in 0 .. S - 1 /\ p \in Int /\ r + b = S * p + s
  BY <1>2, Division
<1>. HIDE DEF q, p, s
<1>4. a + b = S * (q + p) + s
  <2>1. S * (q + p) = S * q + S * p
    BY <1>1, <1>3
  <2>. QED  BY <1>1, <1>2, <1>3, <2>1
<1>5. a + b \in Int /\ q + p \in Int
  BY <1>1, <1>3
<1>6. ((a + b) % S) = s
  BY <1>3, <1>4, <1>5, Residue
<1>. QED  BY <1>6 DEF s, r

LEMMA RemainderTells ==
    ASSUME NEW S \in Nat, S > 0, NEW a \in Int, NEW b \in Int,
           (a % S) = (b % S), a - b < S, b - a < S
    PROVE  a = b
<1>. DEFINE q == a \div S
            r == a % S
            p == b \div S
<1>1. r \in 0 .. S - 1 /\ q \in Int /\ a = S * q + r
  BY Division
<1>2. p \in Int /\ b = S * p + r
  BY Division
<1>3. S * q \in Int /\ S * p \in Int /\ r \in Int
  BY <1>1, <1>2
<1>. HIDE DEF q, p, r
<1>4. S * q - S * p < S /\ S * p - S * q < S
  BY <1>1, <1>2, <1>3
<1>5. q = p
  BY <1>1, <1>2, <1>4, Multiple
<1>. QED  BY <1>1, <1>2, <1>5

(* n bytes cut at S: every piece but the last is full, and none is empty.  *)
LEMMA Pieces ==
    ASSUME NEW S \in Nat, S > 0, NEW n \in Nat
    PROVE  LET m == (n + S - 1) \div S
           IN  /\ m \in Nat /\ n <= m * S /\ (m = 0 => n = 0)
               /\ \A j \in 1 .. m :
                     /\ (j - 1) * S \in Nat /\ (j - 1) * S < n
                     /\ j * S = (j - 1) * S + S /\ (j < m => j * S < n)
<1>. DEFINE m == (n + S - 1) \div S
            r == (n + S - 1) % S
<1>1. n + S - 1 \in Nat
  OBVIOUS
<1>2. r \in 0 .. S - 1 /\ m \in Int /\ n + S - 1 = S * m + r
  BY <1>1, Division
<1>3. m \in Nat
  BY <1>1
<1>. HIDE DEF m, r
<1>4. S * m \in Int /\ S * m = m * S
  BY <1>2
<1>5. n <= m * S /\ m * S <= n + S - 1
  BY <1>2, <1>4
<1>6. ASSUME m = 0 PROVE n = 0
  <2>1. m * S = 0
    BY <1>6
  <2>. QED  BY <1>5, <2>1
<1>7. ASSUME NEW j \in 1 .. m
      PROVE  /\ (j - 1) * S \in Nat /\ (j - 1) * S < n
             /\ j * S = (j - 1) * S + S /\ (j < m => j * S < n)
  <2>1. j \in Nat /\ j - 1 \in Nat /\ m - j \in Nat
    BY <1>3, <1>7
  <2>2. (j - 1) * S \in Nat /\ j * S \in Nat /\ j * S = (j - 1) * S + S /\ m * S \in Nat
    BY <1>3, <2>1
  <2>3. j * S <= m * S
    <3>1. (m - j) * S \in Nat
      BY <2>1
    <3>2. m * S = j * S + (m - j) * S
      BY <1>3, <2>1
    <3>. QED  BY <2>2, <3>1, <3>2
  <2>4. ASSUME j < m PROVE j * S + S <= m * S
    <3>1. m - j - 1 \in Nat
      BY <1>3, <2>1, <2>4
    <3>2. (m - j - 1) * S \in Nat
      BY <3>1
    <3>3. m * S = j * S + S + (m - j - 1) * S
      BY <1>3, <2>1
    <3>. QED  BY <2>2, <3>2, <3>3
  <2>. QED  BY <1>5, <2>2, <2>3, <2>4
<1>. QED  BY <1>3, <1>5, <1>6, <1>7 DEF m

(* Sums in the sequence space, and what positions that lie within it of    *)
(* one another can be told by.                                             *)
LEMMA AddAdds ==
    ASSUME NEW a \in Int, NEW x \in Int, NEW y \in Int
    PROVE  sequence_add(sequence_add(a, x), y) = sequence_add(a, x + y)
<1>1. SeqSpace \in Nat /\ SeqSpace > 0 /\ a + x \in Int /\ a + x + y = a + (x + y)
  BY Constants
<1>2. ((((a + x) % SeqSpace) + y) % SeqSpace) = ((a + x + y) % SeqSpace)
  BY <1>1, RemainderAdds
<1>. QED  BY <1>1, <1>2 DEF sequence_add

LEMMA AddTells ==
    ASSUME NEW a \in Int, NEW x \in Int, NEW y \in Int,
           sequence_add(a, x) = sequence_add(a, y), x - y < SeqSpace, y - x < SeqSpace
    PROVE  x = y
<1>. DEFINE v == a + x
            w == a + y
<1>1. /\ SeqSpace \in Nat /\ SeqSpace > 0 /\ v \in Int /\ w \in Int
      /\ v - w < SeqSpace /\ w - v < SeqSpace /\ (v = w => x = y)
  BY Constants
<1>2. (v % SeqSpace) = (w % SeqSpace)
  BY DEF sequence_add
<1>. HIDE DEF v, w
<1>3. v = w
  BY <1>1, <1>2, RemainderTells
<1>. QED  BY <1>1, <1>3

(* The parts of a sequence of bytes.                                       *)
LEMMA Part ==
    ASSUME NEW S, NEW q \in Seq(S), NEW a \in Nat \ {0}, NEW b \in Int, b <= Len(q)
    PROVE  SubSeq(q, a, b) \in Seq(S)
<1>1. \A i \in a .. b : q[i] \in S
  BY ElementOfSeq
<1>. QED  BY <1>1, SubSeqProperties

LEMMA BytePart ==
    ASSUME NEW q \in Bytes, NEW a \in Nat \ {0}, NEW b \in Int, b <= Len(q)
    PROVE  SubSeq(q, a, b) \in Bytes /\ Len(SubSeq(q, a, b)) \in Nat
<1>1. SubSeq(q, a, b) \in Bytes
  BY Part DEF Bytes
<1>. QED  BY <1>1, LenProperties DEF Bytes

LEMMA ByteJoin ==
    ASSUME NEW p \in Bytes, NEW q \in Bytes
    PROVE  p \o q \in Bytes
  BY ConcatProperties DEF Bytes

LEMMA ByteLength ==
    ASSUME NEW q \in Bytes
    PROVE  Len(q) \in Nat
  BY LenProperties DEF Bytes

LEMMA CountingIsBytes ==
    ASSUME NEW a \in Int, NEW b \in Int
    PROVE  Counting(a, b) \in Bytes
<1>1. Larger(0, b - a + 1) \in Nat
  BY DEF Larger
<1>. DEFINE n == Larger(0, b - a + 1)
<1>2. Counting(a, b) = [i \in 1 .. n |-> a + i - 1]
  BY DEF Counting
<1>3. n \in Nat
  BY <1>1
<1>. HIDE DEF n
<1>4. \A i \in 1 .. n : a + i - 1 \in Int
  BY <1>3
<1>. QED  BY <1>2, <1>3, <1>4 DEF Bytes

-----------------------------------------------------------------------------
(* Bytes in their order.                                                   *)

LEMMA CountingIs ==
    ASSUME NEW a \in Int, NEW b \in Int, a <= b + 1
    PROVE  /\ Counting(a, b) \in Bytes /\ Len(Counting(a, b)) = b - a + 1
           /\ \A i \in 1 .. b - a + 1 : Counting(a, b)[i] = a + i - 1
<1>. DEFINE n == b - a + 1
<1>1. n \in Nat /\ Larger(0, n) = n
  BY DEF Larger
<1>2. Counting(a, b) = [i \in 1 .. n |-> a + i - 1]
  BY <1>1 DEF Counting
<1>. HIDE DEF n
<1>3. \A i \in 1 .. n : a + i - 1 \in Int
  BY <1>1
<1>4. [i \in 1 .. n |-> a + i - 1] \in Seq(Int) /\ Len([i \in 1 .. n |-> a + i - 1]) = n
  BY <1>1, <1>3
<1>. QED  BY <1>2, <1>4 DEF Bytes, n

LEMMA CountingNone ==
    ASSUME NEW a \in Int
    PROVE  Counting(a, a - 1) = <<>>
<1>1. Counting(a, a - 1) \in Bytes /\ Len(Counting(a, a - 1)) = 0
  BY CountingIs
<1>. QED  BY <1>1, EmptySeq DEF Bytes

LEMMA CountingJoins ==
    ASSUME NEW a \in Int, NEW b \in Int, NEW c \in Int, a <= b + 1, b <= c
    PROVE  Counting(a, b) \o Counting(b + 1, c) = Counting(a, c)
<1>. DEFINE p == Counting(a, b)
            q == Counting(b + 1, c)
            r == Counting(a, c)
<1>1. p \in Bytes /\ Len(p) = b - a + 1 /\ \A i \in 1 .. b - a + 1 : p[i] = a + i - 1
  BY CountingIs
<1>2. q \in Bytes /\ Len(q) = c - b /\ \A i \in 1 .. c - b : q[i] = b + i
  <2>. DEFINE d == b + 1
  <2>0. d \in Int /\ d <= c + 1
    OBVIOUS
  <2>1. /\ q \in Bytes /\ Len(q) = c - (b + 1) + 1
        /\ \A i \in 1 .. c - (b + 1) + 1 : q[i] = b + 1 + i - 1
    <3>. HIDE DEF d
    <3>1. /\ Counting(d, c) \in Bytes /\ Len(Counting(d, c)) = c - d + 1
          /\ \A i \in 1 .. c - d + 1 : Counting(d, c)[i] = d + i - 1
      BY <2>0, CountingIs
    <3>. QED  BY <3>1 DEF d
  <2>2. c - (b + 1) + 1 = c - b /\ \A i \in Int : b + 1 + i - 1 = b + i
    OBVIOUS
  <2>. HIDE DEF q
  <2>3. q \in Bytes /\ Len(q) = c - b /\ \A i \in 1 .. c - b : q[i] = b + 1 + i - 1
    BY <2>1, <2>2
  <2>. QED  BY <2>2, <2>3
<1>3. r \in Bytes /\ Len(r) = c - a + 1 /\ \A i \in 1 .. c - a + 1 : r[i] = a + i - 1
  <2>1. a <= c + 1
    OBVIOUS
  <2>. QED  BY <2>1, CountingIs
<1>. HIDE DEF p, q, r
<1>4. /\ p \o q \in Seq(Int) /\ Len(p \o q) = Len(p) + Len(q)
      /\ \A i \in 1 .. Len(p) + Len(q) :
            (p \o q)[i] = IF i <= Len(p) THEN p[i] ELSE q[i - Len(p)]
  <2>1. p \in Seq(Int) /\ q \in Seq(Int)
    BY <1>1, <1>2 DEF Bytes
  <2>. QED  BY <2>1, ConcatProperties
<1>5. Len(p \o q) = Len(r)
  BY <1>1, <1>2, <1>3, <1>4
<1>6. ASSUME NEW i \in 1 .. Len(r)
      PROVE  (p \o q)[i] = r[i]
  <2>1. i \in 1 .. c - a + 1 /\ i \in 1 .. Len(p) + Len(q) /\ r[i] = a + i - 1
    BY <1>1, <1>2, <1>3
  <2>2. CASE i <= Len(p)
    <3>1. i \in 1 .. b - a + 1 /\ (p \o q)[i] = p[i]
      BY <1>1, <1>4, <2>1, <2>2
    <3>. QED  BY <1>1, <2>1, <3>1
  <2>3. CASE ~(i <= Len(p))
    <3>1. i - Len(p) \in 1 .. c - b /\ i - Len(p) = i - (b - a + 1)
      BY <1>1, <2>1, <2>3
    <3>2. (p \o q)[i] = q[i - Len(p)] /\ q[i - Len(p)] = b + (i - Len(p))
      BY <1>2, <1>4, <2>1, <2>3, <3>1
    <3>. QED  BY <2>1, <3>1, <3>2
  <2>. QED  BY <2>2, <2>3
<1>7. p \o q = r
  BY <1>3, <1>4, <1>5, <1>6, SeqEqual DEF Bytes
<1>. QED  BY <1>7 DEF p, q, r

LEMMA CountingPart ==
    ASSUME NEW a \in Int, NEW b \in Int, a <= b + 1,
           NEW m \in Nat \ {0}, NEW n \in Int, m <= n + 1, n <= b - a + 1
    PROVE  SubSeq(Counting(a, b), m, n) = Counting(a + m - 1, a + n - 1)
<1>. DEFINE p == Counting(a, b)
            q == SubSeq(p, m, n)
            x == a + m - 1
            y == a + n - 1
            r == Counting(x, y)
<1>1. p \in Seq(Int) /\ Len(p) = b - a + 1 /\ \A i \in 1 .. b - a + 1 : p[i] = a + i - 1
  BY CountingIs DEF Bytes
<1>2. /\ x \in Int /\ y \in Int /\ x <= y + 1 /\ y - x + 1 = n - m + 1
  OBVIOUS
<1>. HIDE DEF x, y
<1>3. r \in Seq(Int) /\ Len(r) = y - x + 1 /\ \A i \in 1 .. y - x + 1 : r[i] = x + i - 1
  BY <1>2, CountingIs DEF Bytes
<1>. HIDE DEF p, r
<1>4. \A i \in m .. n : i \in 1 .. b - a + 1 /\ p[i] \in Int
  BY <1>1
<1>5. /\ q \in Seq(Int) /\ Len(q) = n - m + 1
      /\ \A i \in 1 .. n - m + 1 : q[i] = p[m + i - 1]
  <2>1. /\ q \in Seq(Int) /\ Len(q) = IF m <= n THEN n - m + 1 ELSE 0
        /\ \A i \in 1 .. n - m + 1 : q[i] = p[m + i - 1]
    BY <1>4, SubSeqProperties
  <2>. QED  BY <2>1
<1>. HIDE DEF q
<1>6. ASSUME NEW i \in 1 .. n - m + 1
      PROVE  q[i] = r[i]
  <2>1. m + i - 1 \in 1 .. b - a + 1 /\ i \in 1 .. y - x + 1
    BY <1>2
  <2>2. q[i] = a + (m + i - 1) - 1 /\ r[i] = x + i - 1
    BY <1>1, <1>3, <1>5, <2>1
  <2>. QED  BY <2>2 DEF x
<1>7. q = r
  BY <1>2, <1>3, <1>5, <1>6, SeqEqual
<1>. QED  BY <1>7 DEF p, q, r, x, y

(* A sequence of sequences laid end to end, given what its prefixes come   *)
(* to (FlattenSeq computes them one after the other).                      *)
Unrolls(g, seqs, L) ==
    /\ L \in Nat \ {0} /\ Len(seqs) = L
    /\ g = [i \in 1 .. L |-> g[i]] /\ g[1] = seqs[1]
    /\ \A i \in 2 .. L : g[i] = g[i - 1] \o seqs[i]

LEMMA Flattens ==
    ASSUME NEW seqs, NEW L, NEW g, Unrolls(g, seqs, L)
    PROVE  FlattenSeq(seqs) = g[L]
<1>0. /\ L \in Nat \ {0} /\ Len(seqs) = L
      /\ g = [i \in 1 .. L |-> g[i]] /\ g[1] = seqs[1]
      /\ \A i \in 2 .. L : g[i] = g[i - 1] \o seqs[i]
  BY DEF Unrolls
<1>. DEFINE Step(f, i) == IF i = 1 THEN seqs[i] ELSE f[i - 1] \o seqs[i]
            h == CHOOSE f : f = [i \in 1 .. L |-> Step(f, i)]
<1>1. FlattenSeq(seqs) = h[L]
  BY <1>0 DEF FlattenSeq
<1>2. g = [i \in 1 .. L |-> Step(g, i)]
  <2>1. ASSUME NEW i \in 1 .. L
        PROVE  g[i] = Step(g, i)
    <3>1. CASE i = 1
      BY <1>0, <3>1
    <3>2. CASE i # 1
      <4>1. i \in 2 .. L
        BY <1>0, <3>2
      <4>. QED  BY <1>0, <3>2, <4>1
    <3>. QED  BY <3>1, <3>2
  <2>. HIDE DEF Step
  <2>. QED  BY <1>0, <2>1
<1>3. h = [i \in 1 .. L |-> Step(h, i)]
  <2>. HIDE DEF Step
  <2>. QED  BY <1>2
<1>. HIDE DEF h
<1>. DEFINE Bad == {i \in 1 .. L : h[i] # g[i]}
<1>4. Bad = {}
  <2>. SUFFICES ASSUME Bad # {} PROVE FALSE
    OBVIOUS
  <2>1. Bad \in SUBSET Nat
    OBVIOUS
  <2>2. PICK i \in Bad : \A j \in Bad : i <= j
    BY <2>1, Least
  <2>3. i \in 1 .. L /\ h[i] # g[i] /\ h[i] = Step(h, i)
    <3>. HIDE DEF Step
    <3>. QED  BY <1>3, <2>2
  <2>4. i # 1
    BY <1>0, <2>3
  <2>5. i \in 2 .. L /\ i - 1 \in 1 .. L /\ ~(i <= i - 1)
    BY <1>0, <2>3, <2>4
  <2>6. h[i - 1] = g[i - 1]
    BY <2>2, <2>5
  <2>7. h[i] = h[i - 1] \o seqs[i] /\ g[i] = g[i - 1] \o seqs[i]
    BY <1>0, <2>3, <2>4, <2>5
  <2>. QED  BY <2>3, <2>6, <2>7
<1>5. L \in 1 .. L
  BY <1>0
<1>. QED  BY <1>1, <1>4, <1>5

-----------------------------------------------------------------------------
(* One connection.                                                         *)

LEMMA Fields ==
    ASSUME NEW c \in Conn
    PROVE  /\ c.key \in Keys /\ c.dial \in Dials
           /\ c.receive_next \in Int /\ c.send_next \in Int
           /\ c.send_unacknowledged \in Space /\ c.send_unacknowledged \in Int
           /\ c.peer_window \in Nat
           /\ c.unacknowledged \in Seq(Unacknowledged) /\ Len(c.unacknowledged) \in Nat
           /\ c.send_queue \in Bytes /\ Len(c.send_queue) \in Nat
           /\ c.pending_for_upstream \in Bytes
           /\ c.retransmits \in 0 .. MaxRetransmits
<1>1. Len(c.unacknowledged) \in Nat
  BY LenProperties DEF Conn
<1>2. Len(c.send_queue) \in Nat
  BY ByteLength DEF Conn
<1>3. c.receive_next \in Int /\ c.send_next \in Int /\ c.send_unacknowledged \in Int
  BY Constants DEF Conn, Space
<1>4. c.peer_window \in Nat
  BY Constants DEF Conn
<1>. QED  BY <1>1, <1>2, <1>3, <1>4 DEF Conn

LEMMA SendableTyped ==
    ASSUME NEW c \in Conn
    PROVE  Sendable(c) \in 0 .. Len(c.send_queue)
<1>. DEFINE r == c.peer_window
                    - sequence_difference(c.send_unacknowledged, c.send_next)
<1>1. r \in Int /\ Len(c.send_queue) \in Nat
  <2>1. c.send_unacknowledged \in Int /\ c.send_next \in Int /\ c.peer_window \in Int
    BY Fields
  <2>2. sequence_difference(c.send_unacknowledged, c.send_next) \in Int
    BY <2>1, DifferenceIsInt
  <2>. QED  BY <2>1, <2>2, Fields
<1>2. Sendable(c) = Smaller(Larger(0, r), Len(c.send_queue))
  BY DEF Sendable
<1>. HIDE DEF r
<1>. QED  BY <1>1, <1>2 DEF Smaller, Larger

LEMMA SegmentedTyped ==
    ASSUME NEW c \in Conn
    PROVE  Segmented(c) \in Seq(Unacknowledged)
<1>. DEFINE n == Sendable(c)
            m == (n + MSS - 1) \div MSS
            at(j) == (j - 1) * MSS
            body(j) == SubSeq(c.send_queue, at(j) + 1, Smaller(at(j) + MSS, n))
            segment(j) == [kind |-> "DATA", seq |-> sequence_add(c.send_next, at(j)),
                           payload |-> body(j), length |-> Len(body(j))]
<1>1. n \in Nat /\ n <= Len(c.send_queue) /\ MSS \in Nat \ {0}
      /\ c.send_next \in Int /\ c.send_queue \in Bytes /\ Len(c.send_queue) \in Nat
  BY SendableTyped, Fields, Constants
<1>. HIDE DEF n
<1>2. m \in Nat
  <2>1. n + MSS - 1 \in Nat
    BY <1>1
  <2>. QED  BY <1>1, <2>1
<1>3. ASSUME NEW j \in 1 .. m
      PROVE  segment(j) \in Unacknowledged
  <2>1. at(j) \in Nat
    <3>1. j - 1 \in Nat
      BY <1>2, <1>3
    <3>. QED  BY <1>1, <3>1
  <2>. HIDE DEF at, m
  <2>2. Smaller(at(j) + MSS, n) \in Int /\ Smaller(at(j) + MSS, n) <= Len(c.send_queue)
    BY <1>1, <2>1 DEF Smaller
  <2>3. body(j) \in Bytes /\ Len(body(j)) \in Nat
    <3>1. at(j) + 1 \in Nat \ {0}
      BY <2>1
    <3>. QED  BY <1>1, <2>2, <3>1, BytePart
  <2>4. sequence_add(c.send_next, at(j)) \in Space
    BY <1>1, <2>1, AddInSpace
  <2>. HIDE DEF body
  <2>. QED  BY <2>3, <2>4 DEF Unacknowledged
<1>4. Segmented(c) = [j \in 1 .. m |-> segment(j)]
  BY DEF Segmented, n
<1>. HIDE DEF m, segment
<1>. QED  BY <1>2, <1>3, <1>4

LEMMA UnsentTyped ==
    ASSUME NEW c \in Conn
    PROVE  Unsent(c) \in Bytes
<1>1. Sendable(c) \in Nat /\ c.send_queue \in Bytes /\ Len(c.send_queue) \in Nat
  BY SendableTyped, Fields
<1>2. Sendable(c) + 1 \in Nat \ {0}
  BY <1>1
<1>. QED  BY <1>1, <1>2, BytePart DEF Unsent

(* A connection goes on as d, for the same client and the same dial.       *)
Same(c, d) ==
    /\ d \in Conn /\ d.key = c.key /\ d.dial = c.dial
    /\ c.state # "Closed" => d.state # "Closed"

LEMMA FlushedTyped ==
    ASSUME NEW c \in Conn
    PROVE  Same(c, Flushed(c))
<1>. DEFINE kept == c.unacknowledged \o Segmented(c)
            next == sequence_add(c.send_next, Sendable(c))
            rest == Unsent(c)
            p == c.upstream_paused /\ ~Resumes(c)
            a == kept # <<>>
<1>1. kept \in Seq(Unacknowledged)
  BY Fields, SegmentedTyped, ConcatProperties
<1>2. next \in Space
  <2>1. Sendable(c) \in Int
    BY SendableTyped, Fields
  <2>. QED  BY <2>1, Fields, AddInSpace
<1>3. rest \in Bytes
  BY UnsentTyped
<1>4. p \in BOOLEAN /\ a \in BOOLEAN
  OBVIOUS
<1>5. Flushed(c) = [c EXCEPT !.unacknowledged = kept, !.send_next = next,
                             !.send_queue = rest, !.upstream_paused = p,
                             !.retransmit_armed = a]
  BY DEF Flushed
<1>. HIDE DEF kept, next, rest, p, a
<1>. DEFINE d == [c EXCEPT !.unacknowledged = kept, !.send_next = next,
                             !.send_queue = rest, !.upstream_paused = p,
                             !.retransmit_armed = a]
<1>6. d \in Conn
  BY <1>1, <1>2, <1>3, <1>4 DEF Conn
<1>7. d.key = c.key /\ d.dial = c.dial /\ d.state = c.state
  BY DEF Conn
<1>. QED  BY <1>5, <1>6, <1>7 DEF Same

LEMMA CoveredTyped ==
    ASSUME NEW c \in Conn, NEW ack
    PROVE  Covered(c, ack) \in 0 .. Len(c.unacknowledged)
<1>. DEFINE end(j) == sequence_add(c.unacknowledged[j].seq, c.unacknowledged[j].length)
            held(j) == \A k \in 1 .. j : sequence_difference(ack, end(k)) <= 0
            upto == {j \in 0 .. Len(c.unacknowledged) : held(j)}
<1>1. Covered(c, ack) = CHOOSE m \in upto : \A j \in upto : j <= m
  BY DEF Covered
<1>2. Len(c.unacknowledged) \in Nat
  BY Fields
<1>3. 0 \in upto
  <2>1. held(0)
    OBVIOUS
  <2>. QED  BY <1>2, <2>1
<1>4. upto \in SUBSET (0 .. Len(c.unacknowledged))
  OBVIOUS
<1>. HIDE DEF upto
<1>5. \E m \in upto : \A j \in upto : j <= m
  BY <1>2, <1>3, <1>4, Greatest
<1>. QED  BY <1>1, <1>4, <1>5

LEMMA ReleasedTyped ==
    ASSUME NEW c \in Conn, NEW ack
    PROVE  Same(c, Released(c, ack))
<1>. DEFINE n == Covered(c, ack)
            last == c.unacknowledged[n]
            una == IF n = 0 THEN c.send_unacknowledged
                   ELSE sequence_add(last.seq, last.length)
            rest == SubSeq(c.unacknowledged, n + 1, Len(c.unacknowledged))
            r == IF n > 0 THEN 0 ELSE c.retransmits
            h == c.handshake_complete
                   \/ sequence_difference(una, sequence_add(OurISS, 1)) >= 0
<1>1. n \in 0 .. Len(c.unacknowledged) /\ Len(c.unacknowledged) \in Nat
      /\ c.unacknowledged \in Seq(Unacknowledged) /\ c.send_unacknowledged \in Space
      /\ c.retransmits \in 0 .. MaxRetransmits /\ MaxRetransmits \in Nat
  BY CoveredTyped, Fields, Constants
<1>. HIDE DEF n
<1>2. una \in Space
  <2>1. CASE n = 0
    BY <1>1, <2>1
  <2>2. CASE n # 0
    <3>1. last \in Unacknowledged
      BY <1>1, <2>2, ElementOfSeq
    <3>2. last.seq \in Int /\ last.length \in Int
      BY <3>1, Constants DEF Unacknowledged, Space
    <3>. QED  BY <2>2, <3>2, AddInSpace
  <2>. QED  BY <2>1, <2>2
<1>3. rest \in Seq(Unacknowledged)
  BY <1>1, Part
<1>4. r \in 0 .. MaxRetransmits /\ h \in BOOLEAN
  BY <1>1
<1>. DEFINE d == [c EXCEPT !.unacknowledged = rest, !.send_unacknowledged = una,
                           !.retransmits = r, !.handshake_complete = h]
<1>5. Released(c, ack) = d
  BY DEF Released, n
<1>. HIDE DEF una, rest, r, h
<1>6. d \in Conn
  BY <1>2, <1>3, <1>4 DEF Conn
<1>7. d.key = c.key /\ d.dial = c.dial /\ d.state = c.state
  BY DEF Conn
<1>. QED  BY <1>5, <1>6, <1>7 DEF Same

LEMMA FreshTyped ==
    ASSUME NEW gap \in Int, NEW payload \in Bytes
    PROVE  Fresh(gap, payload) \in Bytes
<1>1. Len(payload) \in Nat
  BY ByteLength
<1>2. CASE gap > 0 \/ -gap >= Len(payload)
  BY <1>2 DEF Fresh, Bytes
<1>3. CASE ~(gap > 0 \/ -gap >= Len(payload))
  <2>1. 1 - gap \in Nat \ {0}
    BY <1>3
  <2>. QED  BY <1>1, <1>3, <2>1, BytePart DEF Fresh
<1>. QED  BY <1>2, <1>3

LEMMA ReceivedTyped ==
    ASSUME NEW c \in Conn, NEW fresh \in Bytes
    PROVE  Same(c, Received(c, fresh))
<1>. DEFINE next == sequence_add(c.receive_next, Len(fresh))
            held == IF c.upstream_connected THEN c.pending_for_upstream
                    ELSE c.pending_for_upstream \o fresh
            d == [c EXCEPT !.receive_next = next, !.pending_for_upstream = held]
<1>1. next \in Space
  BY ByteLength, Fields, AddInSpace
<1>2. held \in Bytes
  BY Fields, ByteJoin
<1>3. Received(c, fresh) = d
  BY DEF Received
<1>. HIDE DEF next, held
<1>4. d \in Conn /\ d.key = c.key /\ d.dial = c.dial /\ d.state = c.state
  BY <1>1, <1>2 DEF Conn
<1>. QED  BY <1>3, <1>4 DEF Same

LEMMA FinishedTyped ==
    ASSUME NEW c \in Conn
    PROVE  Same(c, Finished(c))
<1>. DEFINE next == sequence_add(c.receive_next, 1)
            s == IF c.state = "Established" THEN "InboundClosed" ELSE c.state
            d == [c EXCEPT !.receive_next = next, !.inbound_closed = TRUE, !.state = s]
<1>1. next \in Space
  BY Fields, AddInSpace
<1>2. Finished(c) = d
  BY DEF Finished
<1>3. s \in {"SynReceived", "Established", "InboundClosed", "Closed"}
      /\ (c.state # "Closed" => s # "Closed")
  BY DEF Conn
<1>. HIDE DEF next, s
<1>4. d \in Conn /\ d.key = c.key /\ d.dial = c.dial /\ d.state = s
  BY <1>1, <1>3 DEF Conn
<1>. QED  BY <1>2, <1>3, <1>4 DEF Same

LEMMA DisposedTyped ==
    ASSUME NEW c \in Conn
    PROVE  /\ Disposed(c) \in Conn /\ Disposed(c).state = "Closed"
           /\ Disposed(c).key = c.key /\ Disposed(c).dial = c.dial
<1>. DEFINE d == [c EXCEPT !.state = "Closed", !.retransmit_armed = FALSE,
                           !.unacknowledged = <<>>, !.send_queue = <<>>,
                           !.pending_for_upstream = <<>>]
<1>1. Disposed(c) = d
  BY DEF Disposed
<1>2. <<>> \in Bytes /\ <<>> \in Seq(Unacknowledged)
  BY DEF Bytes
<1>3. d \in Conn /\ d.state = "Closed" /\ d.key = c.key /\ d.dial = c.dial
  BY <1>2 DEF Conn
<1>. QED  BY <1>1, <1>3

LEMMA EmittedTyped ==
    ASSUME NEW c \in Conn, NEW kind \in {"SYNACK", "DATA", "FIN"}, NEW seq \in Space,
           NEW payload \in Bytes, NEW length \in Nat
    PROVE  LET segment == [kind |-> kind, seq |-> seq, payload |-> payload,
                           length |-> length]
           IN  Same(c, [c EXCEPT !.unacknowledged = Append(@, segment),
                                 !.send_next = IF kind = "SYNACK" THEN @
                                               ELSE sequence_add(@, length)])
<1>. DEFINE segment == [kind |-> kind, seq |-> seq, payload |-> payload,
                        length |-> length]
            q == Append(c.unacknowledged, segment)
            next == IF kind = "SYNACK" THEN c.send_next
                    ELSE sequence_add(c.send_next, length)
            d == [c EXCEPT !.unacknowledged = q, !.send_next = next]
<1>1. segment \in Unacknowledged
  BY DEF Unacknowledged
<1>. HIDE DEF segment
<1>2. q \in Seq(Unacknowledged)
  BY <1>1, Fields, AppendProperties
<1>3. next \in Space
  <2>1. c.send_next \in Space /\ c.send_next \in Int /\ length \in Int
    BY Fields DEF Conn
  <2>. QED  BY <2>1, AddInSpace
<1>. HIDE DEF q, next
<1>4. d \in Conn /\ d.key = c.key /\ d.dial = c.dial /\ d.state = c.state
  BY <1>2, <1>3 DEF Conn
<1>5. Same(c, d)
  BY <1>4 DEF Same
<1>. QED  BY <1>5 DEF d, q, next, segment

(* What single fields of a connection may become.                          *)
LEMMA FieldsKept ==
    ASSUME NEW c \in Conn
    PROVE  /\ Same(c, c)
           /\ Same(c, [c EXCEPT !.fin_sent = TRUE])
           /\ Same(c, [c EXCEPT !.upstream_paused = TRUE])
           /\ Same(c, [c EXCEPT !.upstream_done = TRUE])
           /\ Same(c, [c EXCEPT !.upstream_connected = TRUE,
                                !.pending_for_upstream = <<>>])
           /\ Same(c, [c EXCEPT !.state =
                          IF @ = "SynReceived" THEN "Established" ELSE @])
<1>1. <<>> \in Bytes
  BY DEF Bytes
<1>2. Same(c, c) /\ Same(c, [c EXCEPT !.fin_sent = TRUE])
      /\ Same(c, [c EXCEPT !.upstream_paused = TRUE])
      /\ Same(c, [c EXCEPT !.upstream_done = TRUE])
  BY DEF Same, Conn
<1>3. Same(c, [c EXCEPT !.upstream_connected = TRUE, !.pending_for_upstream = <<>>])
  BY <1>1 DEF Same, Conn
<1>4. Same(c, [c EXCEPT !.state = IF @ = "SynReceived" THEN "Established" ELSE @])
  BY DEF Same, Conn
<1>. QED  BY <1>2, <1>3, <1>4

LEMMA WindowKept ==
    ASSUME NEW c \in Conn, NEW w \in Windows
    PROVE  Same(c, [c EXCEPT !.peer_window = w])
  BY DEF Same, Conn

LEMMA QueueKept ==
    ASSUME NEW c \in Conn, NEW q \in Bytes
    PROVE  Same(c, [c EXCEPT !.send_queue = @ \o q])
<1>1. c.send_queue \o q \in Bytes
  BY Fields, ByteJoin
<1>. QED  BY <1>1 DEF Same, Conn

LEMMA RetransmitsKept ==
    ASSUME NEW c \in Conn, c.retransmits < MaxRetransmits
    PROVE  Same(c, [c EXCEPT !.retransmits = @ + 1])
<1>1. c.retransmits + 1 \in 0 .. MaxRetransmits
  BY Constants DEF Conn
<1>. QED  BY <1>1 DEF Same, Conn

-----------------------------------------------------------------------------
(* The stream of one connection.                                           *)

LEMMA RunIs ==
    ASSUME NEW payload, NEW seq, NEW n \in Nat, Run(payload, seq, n)
    PROVE  /\ payload \in Bytes /\ payload[1] \in 1 .. n /\ Len(payload) \in Nat \ {0}
           /\ payload[1] + Len(payload) - 1 <= n
           /\ payload = Counting(payload[1], payload[1] + Len(payload) - 1)
           /\ seq = sequence_add(OurISS, payload[1])
<1>1. PICK a \in 1 .. n, b \in 1 .. n :
         a <= b /\ payload = Counting(a, b) /\ seq = sequence_add(OurISS, a)
  BY DEF Run
<1>2. a \in Int /\ b \in Int /\ a <= b + 1 /\ 1 \in 1 .. b - a + 1
  BY <1>1
<1>3. /\ payload \in Bytes /\ Len(payload) = b - a + 1
      /\ \A i \in 1 .. b - a + 1 : payload[i] = a + i - 1
  BY <1>1, <1>2, CountingIs
<1>4. payload[1] = a
  BY <1>2, <1>3
<1>5. payload[1] + Len(payload) - 1 = b /\ Len(payload) \in Nat \ {0}
  BY <1>1, <1>2, <1>3, <1>4
<1>. QED  BY <1>1, <1>3, <1>4, <1>5

LEMMA RunMore ==
    ASSUME NEW payload, NEW seq, NEW n \in Nat, NEW m \in Nat, n <= m, Run(payload, seq, n)
    PROVE  Run(payload, seq, m)
<1>1. PICK a \in 1 .. n, b \in 1 .. n :
         a <= b /\ payload = Counting(a, b) /\ seq = sequence_add(OurISS, a)
  BY DEF Run
<1>2. a \in 1 .. m /\ b \in 1 .. m
  OBVIOUS
<1>. QED  BY <1>1, <1>2 DEF Run

(* Where a segment lies.                                                   *)
LEMMA PlacedIs ==
    ASSUME NEW s \in Unacknowledged, NEW fed \in Nat, NEW fin, Placed(s, fed, fin)
    PROVE  /\ Position(s, fed) \in 0 .. fed + 1 /\ s.length \in Nat \ {0}
           /\ Ends(s, fed) \in Nat \ {0} /\ Position(s, fed) < Ends(s, fed)
           /\ s.kind = "SYNACK" => /\ Position(s, fed) = 0 /\ Ends(s, fed) = 1
                                   /\ s.payload = <<>>
           /\ s.kind = "FIN" => /\ Position(s, fed) = fed + 1 /\ Ends(s, fed) = fed + 2
                                /\ s.payload = <<>>
           /\ s.kind = "DATA" =>
                 /\ 1 <= Position(s, fed) /\ Ends(s, fed) <= fed + 1
                 /\ s.payload = Counting(Position(s, fed), Ends(s, fed) - 1)
<1>1. s.kind \in {"SYNACK", "DATA", "FIN"}
  BY DEF Unacknowledged
<1>2. CASE s.kind = "DATA"
  <2>. DEFINE a == s.payload[1]
              l == Len(s.payload)
  <2>1. Position(s, fed) = a /\ s.length = l /\ Ends(s, fed) = a + l
    BY <1>2 DEF Placed, Position, Ends
  <2>2. Run(s.payload, s.seq, fed)
    BY <1>2 DEF Placed
  <2>3. /\ a \in 1 .. fed /\ l \in Nat \ {0} /\ a + l - 1 <= fed
        /\ s.payload = Counting(a, a + l - 1)
    BY <2>2, RunIs
  <2>. HIDE DEF a, l
  <2>. QED  BY <1>2, <2>1, <2>3
<1>3. CASE s.kind = "SYNACK"
  <2>1. Position(s, fed) = 0 /\ s.length = 1 /\ s.payload = <<>> /\ Ends(s, fed) = 0 + 1
    BY <1>3 DEF Placed, Position, Ends
  <2>. QED  BY <1>3, <2>1
<1>4. CASE s.kind = "FIN"
  <2>1. /\ Position(s, fed) = fed + 1 /\ s.length = 1 /\ s.payload = <<>>
        /\ Ends(s, fed) = fed + 1 + 1
    BY <1>4 DEF Placed, Position, Ends
  <2>. QED  BY <1>4, <2>1
<1>. QED  BY <1>1, <1>2, <1>3, <1>4

LEMMA ChainEmpty == \A fed, fin, upto : Chain(<<>>, fed, fin, upto)
<1>1. \A j \in 1 .. Len(<<>>) : FALSE
  OBVIOUS
<1>. QED  BY <1>1 DEF Chain

LEMMA ChainOne ==
    ASSUME NEW s, NEW fed, NEW fin, Placed(s, fed, fin)
    PROVE  Chain(<<s>>, fed, fin, Ends(s, fed))
<1>1. Len(<<s>>) = 1 /\ <<s>>[1] = s /\ \A j \in 1 .. 1 : j = 1
  OBVIOUS
<1>. QED  BY <1>1 DEF Chain

LEMMA ChainJoins ==
    ASSUME NEW p \in Seq(Unacknowledged), NEW q \in Seq(Unacknowledged),
           NEW fed, NEW fin, NEW mid, NEW upto,
           Chain(p, fed, fin, mid), Chain(q, fed, fin, upto),
           IF q = <<>> THEN mid = upto ELSE Position(q[1], fed) = mid
    PROVE  Chain(p \o q, fed, fin, upto)
<1>. DEFINE r == p \o q
            l == Len(p)
            m == Len(q)
<1>1. /\ r \in Seq(Unacknowledged) /\ Len(r) = l + m
      /\ \A i \in 1 .. l + m : r[i] = IF i <= l THEN p[i] ELSE q[i - l]
  BY ConcatProperties
<1>2. l \in Nat /\ m \in Nat /\ (q = <<>> <=> m = 0)
  BY LenProperties, EmptySeq
<1>3. /\ \A j \in 1 .. l : /\ Placed(p[j], fed, fin)
                           /\ Ends(p[j], fed) = IF j = l THEN mid ELSE Position(p[j + 1], fed)
      /\ \A j \in 1 .. m : /\ Placed(q[j], fed, fin)
                           /\ Ends(q[j], fed) = IF j = m THEN upto ELSE Position(q[j + 1], fed)
  BY DEF Chain
<1>. HIDE DEF r, l, m
<1>4. ASSUME NEW j \in 1 .. l + m
      PROVE  /\ Placed(r[j], fed, fin)
             /\ Ends(r[j], fed) = IF j = l + m THEN upto ELSE Position(r[j + 1], fed)
  <2>1. CASE j < l
    <3>1. /\ j \in 1 .. l /\ j + 1 \in 1 .. l + m /\ r[j] = p[j] /\ r[j + 1] = p[j + 1]
          /\ j # l /\ j # l + m
      BY <1>1, <1>2, <1>4, <2>1
    <3>. QED  BY <1>3, <3>1
  <2>2. CASE j = l /\ m = 0
    <3>1. j \in 1 .. l /\ r[j] = p[j] /\ j = l + m /\ mid = upto
      BY <1>1, <1>2, <1>4, <2>2
    <3>. QED  BY <1>3, <2>2, <3>1
  <2>3. CASE j = l /\ m # 0
    <3>1. /\ j \in 1 .. l /\ r[j] = p[j] /\ j # l + m /\ j + 1 \in 1 .. l + m
          /\ ~(j + 1 <= l) /\ j + 1 - l = 1
      BY <1>1, <1>2, <1>4, <2>3
    <3>2. r[j + 1] = q[1] /\ Position(q[1], fed) = mid
      BY <1>1, <1>2, <2>3, <3>1
    <3>. QED  BY <1>3, <2>3, <3>1, <3>2
  <2>4. CASE j > l
    <3>. DEFINE i == j - l
    <3>1. i \in 1 .. m /\ ~(j <= l) /\ (i = m <=> j = l + m)
      BY <1>2, <1>4, <2>4
    <3>2. r[j] = q[i]
      BY <1>1, <3>1
    <3>3. ASSUME i # m PROVE r[j + 1] = q[i + 1]
      <4>. DEFINE k == j + 1
      <4>1. k \in 1 .. l + m /\ ~(k <= l) /\ k - l = i + 1
        BY <1>2, <1>4, <2>4, <3>1, <3>3
      <4>. HIDE DEF i, k
      <4>2. r[k] = q[k - l]
        BY <1>1, <4>1
      <4>. QED  BY <4>1, <4>2 DEF k
    <3>. HIDE DEF i
    <3>. QED  BY <1>3, <3>1, <3>2, <3>3
  <2>. QED  BY <1>2, <1>4, <2>1, <2>2, <2>3, <2>4
<1>. QED  BY <1>1, <1>4 DEF Chain, r

(* What is released is a prefix: the rest is still laid end to end.        *)
LEMMA ChainRest ==
    ASSUME NEW q \in Seq(Unacknowledged), NEW fed, NEW fin, NEW upto,
           Chain(q, fed, fin, upto), NEW n \in 0 .. Len(q)
    PROVE  Chain(SubSeq(q, n + 1, Len(q)), fed, fin, upto)
<1>. DEFINE L == Len(q)
            r == SubSeq(q, n + 1, L)
<1>1. L \in Nat /\ n \in Nat /\ n <= L /\ n + 1 \in Int
  BY LenProperties
<1>2. \A j \in 1 .. L : /\ Placed(q[j], fed, fin)
                        /\ Ends(q[j], fed) = IF j = L THEN upto ELSE Position(q[j + 1], fed)
  BY DEF Chain
<1>3. \A i \in n + 1 .. L : q[i] \in Unacknowledged
  BY <1>1, ElementOfSeq
<1>4. Len(r) = L - n /\ \A i \in 1 .. L - n : r[i] = q[n + i]
  <2>. HIDE DEF L
  <2>1. /\ Len(r) = IF n + 1 <= L THEN L - (n + 1) + 1 ELSE 0
        /\ \A i \in 1 .. L - (n + 1) + 1 : r[i] = q[n + 1 + i - 1]
    BY <1>1, <1>3, SubSeqProperties
  <2>. HIDE DEF r
  <2>2. L - (n + 1) + 1 = L - n /\ \A i \in Int : n + 1 + i - 1 = n + i
    BY <1>1
  <2>3. \A i \in 1 .. L - n : r[i] = q[n + 1 + i - 1]
    BY <2>1, <2>2
  <2>4. Len(r) = L - n
    BY <1>1, <2>1
  <2>. QED  BY <2>2, <2>3, <2>4
<1>. HIDE DEF r, L
<1>5. ASSUME NEW j \in 1 .. L - n
      PROVE  /\ Placed(r[j], fed, fin)
             /\ Ends(r[j], fed) = IF j = L - n THEN upto ELSE Position(r[j + 1], fed)
  <2>. DEFINE i == n + j
  <2>1. i \in 1 .. L /\ r[j] = q[i] /\ (i = L <=> j = L - n)
    BY <1>1, <1>4, <1>5
  <2>2. ASSUME j # L - n PROVE r[j + 1] = q[i + 1]
    <3>1. j + 1 \in 1 .. L - n /\ n + (j + 1) = i + 1
      BY <1>1, <1>5, <2>2
    <3>. HIDE DEF i
    <3>. QED  BY <1>4, <3>1
  <2>. HIDE DEF i
  <2>. QED  BY <1>2, <2>1, <2>2
<1>. QED  BY <1>4, <1>5 DEF Chain, r, L

(* What the relay delivers later moves no segment, while there is no FIN.  *)
LEMMA ChainGrows ==
    ASSUME NEW q \in Seq(Unacknowledged), NEW fed \in Nat, NEW more \in Nat, fed <= more,
           NEW upto, Chain(q, fed, FALSE, upto)
    PROVE  Chain(q, more, FALSE, upto)
<1>1. ASSUME NEW j \in 1 .. Len(q)
      PROVE  /\ Placed(q[j], more, FALSE) /\ Position(q[j], more) = Position(q[j], fed)
             /\ Ends(q[j], more) = Ends(q[j], fed)
  <2>1. Placed(q[j], fed, FALSE)
    BY <1>1 DEF Chain
  <2>2. q[j].kind # "FIN" /\ q[j].kind \in {"SYNACK", "DATA", "FIN"}
    <3>1. q[j] \in Unacknowledged
      BY <1>1, ElementOfSeq
    <3>. QED  BY <2>1, <3>1 DEF Placed, Unacknowledged
  <2>3. Position(q[j], more) = Position(q[j], fed)
    BY <2>2 DEF Position
  <2>4. Run(q[j].payload, q[j].seq, fed) => Run(q[j].payload, q[j].seq, more)
    BY RunMore
  <2>. QED  BY <2>1, <2>2, <2>3, <2>4 DEF Placed, Ends
<1>2. ASSUME NEW j \in 1 .. Len(q)
      PROVE  Ends(q[j], more) = IF j = Len(q) THEN upto ELSE Position(q[j + 1], more)
  <2>1. j # Len(q) => j + 1 \in 1 .. Len(q)
    <3>1. Len(q) \in Nat
      BY LenProperties
    <3>. QED  BY <3>1
  <2>2. Ends(q[j], fed) = IF j = Len(q) THEN upto ELSE Position(q[j + 1], fed)
    BY DEF Chain
  <2>. QED  BY <1>1, <2>1, <2>2
<1>. QED  BY <1>1, <1>2 DEF Chain

(* Nothing of the stream changes.                                          *)
Alike(c, u, d, v) ==
    /\ d.send_queue = c.send_queue /\ d.send_next = c.send_next
    /\ d.fin_sent = c.fin_sent /\ d.unacknowledged = c.unacknowledged
    /\ d.send_unacknowledged = c.send_unacknowledged
    /\ d.handshake_complete = c.handshake_complete
    /\ c.upstream_done => d.upstream_done
    /\ d.upstream_done => c.upstream_done \/ v.phase = "ended"
    /\ v.fed = u.fed /\ (u.phase = "ended" => v.phase = "ended")

(* A connection whose handshake is not complete has sent its SYN-ACK.      *)
Early(c, d, packets) ==
    Shook(d) /\ (~d.handshake_complete => ~c.handshake_complete /\ Empty(packets))

LEMMA ContinuesBy ==
    ASSUME NEW c, NEW u, NEW d, NEW v, NEW packets,
           Tiled(c, u) /\ Shook(c) =>
              /\ Tiled(d, v) /\ v.fed = u.fed /\ (c.fin_sent => d.fin_sent)
              /\ \A p \in packets : Fits(p, v.fed, d.fin_sent)
              /\ Early(c, d, packets)
    PROVE  Continues(c, u, d, v, packets)
<1>. SUFFICES ASSUME NEW x, NEW w, Streaming(c, u, w, x)
              PROVE  Streaming(d, v, w \cup packets, x)
  BY DEF Continues
<1>1. /\ Tiled(d, v) /\ v.fed = u.fed /\ (c.fin_sent => d.fin_sent)
      /\ \A p \in packets : Fits(p, v.fed, d.fin_sent)
      /\ Early(c, d, packets)
  BY DEF Streaming, Before
<1>2. Line(x, w, u.fed, c.fin_sent) /\ Before(c, w, x)
  BY DEF Streaming
<1>3. \A p \in w : Fits(p, v.fed, d.fin_sent)
  BY <1>1, <1>2 DEF Line, Fits
<1>4. \E m \in 0 .. v.fed : x.got = Counting(1, m) /\ (x.gotFin => d.fin_sent /\ m = v.fed)
  BY <1>1, <1>2 DEF Line
<1>5. \A p \in w \cup packets : Fits(p, v.fed, d.fin_sent)
  BY <1>1, <1>3
<1>6. Before(d, w \cup packets, x)
  BY <1>1, <1>2 DEF Before, Early, Empty
<1>. QED  BY <1>1, <1>4, <1>5, <1>6 DEF Streaming, Line

LEMMA AlikeTiled ==
    ASSUME NEW c, NEW u, NEW d, NEW v, Alike(c, u, d, v), Tiled(c, u)
    PROVE  Tiled(d, v)
<1>1. Ahead(d, v.fed) = Ahead(c, u.fed)
  BY DEF Alike, Ahead
<1>. QED  BY <1>1 DEF Alike, Tiled

LEMMA AlikeContinues ==
    ASSUME NEW c, NEW u, NEW d, NEW v, Alike(c, u, d, v)
    PROVE  Continues(c, u, d, v, {})
<1>1. Tiled(c, u) => Tiled(d, v)
  BY AlikeTiled
<1>2. v.fed = u.fed /\ d.fin_sent = c.fin_sent
  BY DEF Alike
<1>3. Shook(c) => Early(c, d, {})
  BY DEF Alike, Early, Shook, Empty
<1>. QED  BY <1>1, <1>2, <1>3, ContinuesBy

(* What is sent again was sent before.                                     *)
LEMMA OldestFits ==
    ASSUME NEW c \in Conn, NEW u, Tiled(c, u), NEW p \in Oldest(c)
    PROVE  Fits(p, u.fed, c.fin_sent)
<1>. DEFINE q == c.unacknowledged
<1>1. q # <<>> /\ q \in Seq(Unacknowledged)
  BY Fields DEF Oldest
<1>2. Len(q) \in Nat /\ Len(q) > 0 /\ Head(q) = q[1]
  BY <1>1, EmptySeq
<1>3. p = Packet(q[1].kind, q[1].seq, q[1].payload)
  BY <1>1, <1>2 DEF Oldest
<1>4. Placed(q[1], u.fed, c.fin_sent)
  BY <1>2 DEF Tiled, Chain
<1>. HIDE DEF q
<1>5. p.kind = q[1].kind /\ p.seq = q[1].seq /\ p.payload = q[1].payload
  BY <1>3 DEF Packet
<1>. QED  BY <1>4, <1>5 DEF Placed, Fits, Position

(* The segments one run of the sending loop produces lie end to end from   *)
(* the first byte of the queue on.                                         *)
Starts(q, fed, from) == q = <<>> \/ Position(q[1], fed) = from

LEMMA SegmentedNone ==
    ASSUME NEW c \in Conn, Sendable(c) = 0
    PROVE  Segmented(c) = <<>>
<1>. DEFINE m == (Sendable(c) + MSS - 1) \div MSS
<1>1. MSS \in Nat /\ MSS > 0
  BY Constants
<1>2. /\ m \in Nat
      /\ \A j \in 1 .. m : (j - 1) * MSS < Sendable(c) /\ (j - 1) * MSS \in Nat
  BY <1>1, Pieces
<1>3. m = 0
  <2>1. ASSUME m # 0 PROVE FALSE
    <3>1. 1 \in 1 .. m
      BY <1>2, <2>1
    <3>2. (1 - 1) * MSS < 0 /\ (1 - 1) * MSS \in Nat
      BY <1>2, <3>1
    <3>. QED  BY <3>2
  <2>. QED  BY <2>1
<1>4. Segmented(c) \in Seq(Unacknowledged) /\ DOMAIN Segmented(c) = 1 .. m
  <2>1. DOMAIN Segmented(c) = 1 .. m
    BY DEF Segmented
  <2>. QED  BY <2>1, SegmentedTyped
<1>5. Len(Segmented(c)) = 0
  <2>1. Len(Segmented(c)) \in Nat /\ 1 .. Len(Segmented(c)) = 1 .. 0
    BY <1>3, <1>4, LenProperties
  <2>2. ASSUME Len(Segmented(c)) # 0 PROVE FALSE
    <3>1. 1 \in 1 .. Len(Segmented(c))
      BY <2>1, <2>2
    <3>. QED  BY <2>1, <3>1
  <2>. QED  BY <2>2
<1>. QED  BY <1>4, <1>5, EmptySeq

LEMMA SegmentedChain ==
    ASSUME NEW c \in Conn, NEW fed \in Nat, NEW from \in Nat \ {0},
           c.send_queue = Counting(from, fed), from <= fed + 1,
           c.send_next = sequence_add(OurISS, from), NEW fin
    PROVE  /\ Chain(Segmented(c), fed, fin, from + Sendable(c))
           /\ Starts(Segmented(c), fed, from)
           /\ \A j \in 1 .. Len(Segmented(c)) :
                 LET s == Segmented(c)[j]
                 IN  s.kind = "DATA" /\ Run(s.payload, s.seq, fed)
<1>. DEFINE n == Sendable(c)
            m == (n + MSS - 1) \div MSS
            at(j) == (j - 1) * MSS
            upto(j) == Smaller(at(j) + MSS, n)
            body(j) == SubSeq(c.send_queue, at(j) + 1, upto(j))
            segment(j) == [kind |-> "DATA", seq |-> sequence_add(c.send_next, at(j)),
                           payload |-> body(j), length |-> Len(body(j))]
            q == Segmented(c)
<1>1. /\ n \in Nat /\ n <= fed - from + 1 /\ MSS \in Nat /\ MSS > 0 /\ OurISS \in Int
      /\ from \in Int /\ fed \in Int
  <2>1. Len(c.send_queue) = fed - from + 1
    BY CountingIs
  <2>2. n \in 0 .. Len(c.send_queue) /\ Len(c.send_queue) \in Nat
    BY SendableTyped, Fields
  <2>. HIDE DEF n
  <2>. QED  BY <2>1, <2>2, Constants DEF Space
<1>2. q = [j \in 1 .. m |-> segment(j)]
  BY DEF Segmented
<1>. HIDE DEF n
<1>3. /\ m \in Nat /\ n <= m * MSS /\ (m = 0 => n = 0)
      /\ \A j \in 1 .. m : /\ at(j) \in Nat /\ at(j) < n
                           /\ j * MSS = at(j) + MSS /\ (j < m => j * MSS < n)
  BY <1>1, Pieces
<1>. HIDE DEF m, q, segment
<1>4. Len(q) = m /\ \A j \in 1 .. m : q[j] = segment(j)
  BY <1>2, <1>3
<1>5. ASSUME NEW j \in 1 .. m
      PROVE  /\ upto(j) \in Nat /\ at(j) < upto(j) /\ upto(j) <= n
             /\ upto(j) = IF j = m THEN n ELSE at(j + 1)
  <2>. DEFINE x == at(j)
              y == at(j + 1)
  <2>1. x \in Nat /\ x < n /\ (j < m => x + MSS < n) /\ (j = m => n <= x + MSS)
    <3>1. j = m => j * MSS = m * MSS
      OBVIOUS
    <3>. HIDE DEF at
    <3>. QED  BY <1>1, <1>3, <1>5, <3>1
  <2>2. y = x + MSS
    <3>1. j + 1 - 1 = j
      BY <1>5
    <3>2. y = j * MSS
      BY <3>1
    <3>3. j * MSS = x + MSS
      BY <1>3
    <3>. QED  BY <3>2, <3>3
  <2>. HIDE DEF x, y
  <2>3. Smaller(x + MSS, n) = IF j = m THEN n ELSE y
    BY <1>1, <1>3, <1>5, <2>1, <2>2 DEF Smaller
  <2>4. Smaller(x + MSS, n) \in Nat /\ x < Smaller(x + MSS, n) /\ Smaller(x + MSS, n) <= n
    BY <1>1, <2>1 DEF Smaller
  <2>. QED  BY <2>3, <2>4 DEF x, y
<1>6. ASSUME NEW j \in 1 .. m
      PROVE  /\ body(j) = Counting(from + at(j), from + upto(j) - 1)
             /\ sequence_add(c.send_next, at(j)) = sequence_add(OurISS, from + at(j))
             /\ from + at(j) \in 1 .. fed /\ from + upto(j) - 1 \in 1 .. fed
             /\ from + at(j) <= from + upto(j) - 1
  <2>. DEFINE x == at(j)
              y == upto(j)
  <2>1. x \in Nat /\ y \in Nat /\ x < y /\ y <= n
    BY <1>3, <1>5, <1>6
  <2>. HIDE DEF x, y
  <2>2. /\ x + 1 \in Nat \ {0} /\ y \in Int /\ x + 1 <= y + 1 /\ y <= fed - from + 1
        /\ from + (x + 1) - 1 = from + x
    BY <1>1, <2>1
  <2>3. SubSeq(c.send_queue, x + 1, y) = Counting(from + x, from + y - 1)
    <3>. DEFINE z == x + 1
    <3>1. z \in Nat \ {0} /\ z <= y + 1 /\ from + z - 1 = from + x
      BY <2>2
    <3>. HIDE DEF z
    <3>2. SubSeq(Counting(from, fed), z, y) = Counting(from + z - 1, from + y - 1)
      <4>1. /\ from \in Int /\ fed \in Int /\ from <= fed + 1 /\ z \in Nat \ {0}
            /\ y \in Int /\ z <= y + 1 /\ y <= fed - from + 1
        BY <1>1, <2>2, <3>1
      <4>. QED  BY <4>1, CountingPart
    <3>3. SubSeq(c.send_queue, z, y) = Counting(from + x, from + y - 1)
      BY <3>1, <3>2
    <3>. QED  BY <3>3 DEF z
  <2>4. sequence_add(c.send_next, x) = sequence_add(OurISS, from + x)
    BY <1>1, <2>1, AddAdds
  <2>5. from + x \in 1 .. fed /\ from + y - 1 \in 1 .. fed /\ from + x <= from + y - 1
    BY <1>1, <2>1
  <2>. QED  BY <2>3, <2>4, <2>5 DEF x, y
<1>7. ASSUME NEW j \in 1 .. m
      PROVE  /\ q[j].kind = "DATA" /\ Run(q[j].payload, q[j].seq, fed)
             /\ Placed(q[j], fed, fin) /\ Position(q[j], fed) = from + at(j)
             /\ Ends(q[j], fed) = from + upto(j)
  <2>. DEFINE x == from + at(j)
              y == from + upto(j) - 1
              s == q[j]
  <2>1. /\ s.kind = "DATA" /\ s.seq = sequence_add(OurISS, x) /\ s.payload = Counting(x, y)
        /\ s.length = Len(s.payload)
    <3>1. /\ body(j) = Counting(x, y)
          /\ sequence_add(c.send_next, at(j)) = sequence_add(OurISS, x)
      BY <1>6, <1>7
    <3>2. s = segment(j)
      BY <1>4, <1>7
    <3>. HIDE DEF s, x, y, at, body
    <3>3. /\ s.kind = "DATA" /\ s.seq = sequence_add(c.send_next, at(j))
          /\ s.payload = body(j) /\ s.length = Len(body(j))
      BY <3>2 DEF segment
    <3>. QED  BY <3>1, <3>3
  <2>2. x \in 1 .. fed /\ y \in 1 .. fed /\ x <= y
    BY <1>6, <1>7
  <2>3. x \in Int /\ upto(j) \in Int /\ from + upto(j) = y + 1
    BY <1>1, <1>5, <1>7, <2>2
  <2>. HIDE DEF x, y, s
  <2>4. Run(s.payload, s.seq, fed)
    BY <2>1, <2>2 DEF Run
  <2>5. s.payload[1] = x /\ Len(s.payload) = y - x + 1
    <3>1. x \in Int /\ y \in Int /\ x <= y + 1 /\ 1 \in 1 .. y - x + 1 /\ x + 1 - 1 = x
      BY <2>2
    <3>2. Len(Counting(x, y)) = y - x + 1 /\ Counting(x, y)[1] = x + 1 - 1
      BY <3>1, CountingIs
    <3>. QED  BY <2>1, <3>1, <3>2
  <2>6. Position(s, fed) = x
    BY <2>1, <2>5 DEF Position
  <2>7. Ends(s, fed) = y + 1
    <3>1. Ends(s, fed) = x + (y - x + 1)
      BY <2>1, <2>5, <2>6 DEF Ends
    <3>. QED  BY <2>2, <3>1
  <2>8. Placed(s, fed, fin)
    BY <2>1, <2>4, <2>6 DEF Placed
  <2>. QED  BY <2>1, <2>3, <2>4, <2>6, <2>7, <2>8 DEF x, s
<1>. HIDE DEF at, upto
<1>8. ASSUME NEW j \in 1 .. m
      PROVE  Ends(q[j], fed) = IF j = m THEN from + n ELSE Position(q[j + 1], fed)
  <2>1. CASE j = m
    BY <1>5, <1>7, <2>1
  <2>2. CASE j # m
    <3>1. j + 1 \in 1 .. m
      BY <1>3, <1>8, <2>2
    <3>2. Position(q[j + 1], fed) = from + at(j + 1)
      BY <1>7, <3>1
    <3>. QED  BY <1>5, <1>7, <2>2, <3>2
  <2>. QED  BY <2>1, <2>2
<1>9. Chain(q, fed, fin, from + n)
  BY <1>4, <1>7, <1>8 DEF Chain
<1>10. Starts(q, fed, from)
  <2>1. CASE m = 0
    <3>1. q = <<>>
      <4>1. q \in Seq(Unacknowledged)
        BY SegmentedTyped DEF q
      <4>. QED  BY <1>4, <2>1, <4>1, EmptySeq
    <3>. QED  BY <3>1 DEF Starts
  <2>2. CASE m # 0
    <3>1. 1 \in 1 .. m /\ at(1) = 0
      BY <1>1, <1>3, <2>2 DEF at
    <3>2. Position(q[1], fed) = from + 0
      BY <1>7, <3>1
    <3>. QED  BY <1>1, <3>2 DEF Starts
  <2>. QED  BY <2>1, <2>2
<1>. QED  BY <1>4, <1>7, <1>9, <1>10 DEF q, n

(* How far ahead a connection is.                                          *)
LEMMA AheadIs ==
    ASSUME NEW c \in Conn, NEW fed \in Nat, Len(c.send_queue) <= fed
    PROVE  /\ Ahead(c, fed) \in Nat \ {0}
           /\ ~c.fin_sent => /\ Ahead(c, fed) = fed - Len(c.send_queue) + 1
                             /\ Ahead(c, fed) <= fed + 1
           /\ c.fin_sent => Ahead(c, fed) = fed - Len(c.send_queue) + 2
<1>. DEFINE l == Len(c.send_queue)
<1>1. l \in Nat /\ l <= fed
  BY Fields
<1>2. CASE c.fin_sent
  <2>1. Ahead(c, fed) = 1 + (fed - l) + 1
    BY <1>2 DEF Ahead
  <2>. HIDE DEF l
  <2>2. 1 + (fed - l) + 1 \in Nat \ {0} /\ 1 + (fed - l) + 1 = fed - l + 2
    BY <1>1
  <2>. QED  BY <1>2, <2>1, <2>2 DEF l
<1>3. CASE ~c.fin_sent
  <2>1. Ahead(c, fed) = 1 + (fed - l) + 0
    BY <1>3 DEF Ahead
  <2>. HIDE DEF l
  <2>2. /\ 1 + (fed - l) + 0 \in Nat \ {0} /\ 1 + (fed - l) + 0 = fed - l + 1
        /\ fed - l + 1 <= fed + 1
    BY <1>1
  <2>. QED  BY <1>3, <2>1, <2>2 DEF l
<1>. QED  BY <1>2, <1>3

(* What flush puts on the wire.                                            *)
Sent(c) == {Packet("DATA", Segmented(c)[j].seq, Segmented(c)[j].payload) :
               j \in DOMAIN Segmented(c)}

LEMMA FlushedFields ==
    ASSUME NEW c \in Conn
    PROVE  LET d == Flushed(c)
           IN  /\ d.unacknowledged = c.unacknowledged \o Segmented(c)
               /\ d.send_next = sequence_add(c.send_next, Sendable(c))
               /\ d.send_queue = Unsent(c) /\ d.fin_sent = c.fin_sent
               /\ d.upstream_done = c.upstream_done
               /\ d.handshake_complete = c.handshake_complete
<1>. DEFINE kept == c.unacknowledged \o Segmented(c)
            next == sequence_add(c.send_next, Sendable(c))
            rest == Unsent(c)
            p == c.upstream_paused /\ ~Resumes(c)
            a == kept # <<>>
<1>1. Flushed(c) = [c EXCEPT !.unacknowledged = kept, !.send_next = next,
                             !.send_queue = rest, !.upstream_paused = p,
                             !.retransmit_armed = a]
  BY DEF Flushed
<1>. HIDE DEF kept, next, rest, p, a
<1>2. /\ Flushed(c).unacknowledged = kept /\ Flushed(c).send_next = next
      /\ Flushed(c).send_queue = rest /\ Flushed(c).fin_sent = c.fin_sent
      /\ Flushed(c).upstream_done = c.upstream_done
      /\ Flushed(c).handshake_complete = c.handshake_complete
  BY <1>1 DEF Conn
<1>. QED  BY <1>2 DEF kept, next, rest

LEMMA FlushedContinues ==
    ASSUME NEW c \in Conn, c.handshake_complete,
           NEW u \in Up, NEW v, v.fed = u.fed, v.phase = u.phase
    PROVE  Continues(c, u, Flushed(c), v, Sent(c))
<1>. DEFINE fed == u.fed
            n == Sendable(c)
            d == Flushed(c)
            q == Segmented(c)
            l == Len(c.send_queue)
            from == fed - l + 1
            a == Ahead(c, fed)
            b == Ahead(d, fed)
<1>. SUFFICES ASSUME Tiled(c, u)
              PROVE  /\ Tiled(d, v)
                     /\ \A p \in Sent(c) : Fits(p, v.fed, d.fin_sent)
  <2>1. d.fin_sent = c.fin_sent /\ Early(c, d, Sent(c))
    BY FlushedFields DEF Early, Shook
  <2>2. Tiled(c, u) /\ Shook(c) =>
           /\ Tiled(d, v) /\ v.fed = u.fed /\ (c.fin_sent => d.fin_sent)
           /\ \A p \in Sent(c) : Fits(p, v.fed, d.fin_sent)
           /\ Early(c, d, Sent(c))
    <3>. HIDE DEF d
    <3>. QED  BY <2>1
  <2>3. Continues(c, u, d, v, Sent(c))
    <3>. HIDE DEF d
    <3>. QED  BY <2>2, ContinuesBy
  <2>. QED  BY <2>3
<1>1. /\ fed \in Nat /\ l \in Nat /\ l <= fed /\ n \in Nat /\ n <= l /\ OurISS \in Int
      /\ c.send_next \in Int /\ c.send_next \in Space
  BY Fields, SendableTyped, Constants DEF Up, Tiled, Conn, Space
<1>2. /\ d.unacknowledged = c.unacknowledged \o q
      /\ d.send_next = sequence_add(c.send_next, n)
      /\ d.send_queue = Unsent(c) /\ d.fin_sent = c.fin_sent
      /\ d.upstream_done = c.upstream_done
  BY FlushedFields
<1>3. /\ c.send_queue = Counting(from, fed)
      /\ c.send_next = sequence_add(OurISS, a)
      /\ c.fin_sent => c.upstream_done /\ c.send_queue = <<>>
      /\ c.upstream_done => u.phase = "ended"
      /\ Chain(c.unacknowledged, fed, c.fin_sent, a)
  BY DEF Tiled
<1>4. from \in Nat \ {0} /\ from <= fed + 1 /\ a \in Nat /\ (~c.fin_sent => a = from)
  <2>1. a \in Nat \ {0} /\ (~c.fin_sent => a = fed - l + 1)
    BY <1>1, AheadIs
  <2>. HIDE DEF l, fed, a
  <2>. QED  BY <1>1, <2>1
<1>5. c.fin_sent => n = 0
  <2>1. c.fin_sent => l = 0
    BY <1>3
  <2>. HIDE DEF l, n
  <2>. QED  BY <1>1, <2>1
<1>6. c.unacknowledged \in Seq(Unacknowledged) /\ q \in Seq(Unacknowledged)
  BY Fields, SegmentedTyped
<1>7. d.send_queue = Counting(from + n, fed) /\ Len(d.send_queue) = l - n
  <2>1. SubSeq(Counting(from, fed), n + 1, l) = Counting(from + n, fed)
    <3>. DEFINE z == n + 1
    <3>1. /\ z \in Nat \ {0} /\ l \in Int /\ z <= l + 1 /\ l <= fed - from + 1
          /\ from + z - 1 = from + n /\ from + l - 1 = fed /\ from \in Int /\ fed \in Int
      <4>. HIDE DEF n, l, fed
      <4>. QED  BY <1>1
    <3>. HIDE DEF n, l, fed, from, z
    <3>2. SubSeq(Counting(from, fed), z, l) = Counting(from + z - 1, from + l - 1)
      <4>1. /\ from \in Int /\ fed \in Int /\ from <= fed + 1 /\ z \in Nat \ {0}
            /\ l \in Int /\ z <= l + 1 /\ l <= fed - from + 1
        BY <1>4, <3>1
      <4>. QED  BY <4>1, CountingPart
    <3>3. SubSeq(Counting(from, fed), z, l) = Counting(from + n, fed)
      BY <3>1, <3>2
    <3>. QED  BY <3>3 DEF z
  <2>2. Len(Counting(from + n, fed)) = l - n
    <3>. DEFINE z == from + n
    <3>1. z \in Int /\ fed \in Int /\ z <= fed + 1 /\ fed - z + 1 = l - n
      <4>. HIDE DEF n, l, fed
      <4>. QED  BY <1>1
    <3>. HIDE DEF z, n, l, fed
    <3>. QED  BY <3>1, CountingIs DEF z
  <2>. QED  BY <1>2, <1>3, <2>1, <2>2 DEF Unsent
<1>8. b = a + n /\ Len(d.send_queue) <= fed /\ from + n = fed - Len(d.send_queue) + 1
  <2>1. b = 1 + (fed - (l - n)) + (IF c.fin_sent THEN 1 ELSE 0)
        /\ a = 1 + (fed - l) + (IF c.fin_sent THEN 1 ELSE 0)
    BY <1>2, <1>7 DEF Ahead
  <2>. HIDE DEF n, l, fed, a, b, d
  <2>. QED  BY <1>1, <1>7, <2>1
<1>9. d.send_next = sequence_add(OurISS, b)
  <2>. HIDE DEF a, b, n
  <2>. QED  BY <1>1, <1>2, <1>3, <1>4, <1>8, AddAdds
<1>10. CASE c.fin_sent
  <2>1. n = 0 /\ q = <<>> /\ b = a /\ d.send_queue = <<>>
    <3>1. n = 0 /\ l = 0 /\ b = a
      <4>1. l = 0
        BY <1>3, <1>10
      <4>. HIDE DEF n, l, a, b
      <4>. QED  BY <1>4, <1>5, <1>8, <1>10, <4>1
    <3>2. q = <<>>
      BY <3>1, SegmentedNone
    <3>3. d.send_queue = Counting(fed + 1, fed)
      <4>1. from + n = fed + 1
        <5>. HIDE DEF n, l, fed
        <5>. QED  BY <1>1, <3>1
      <4>. QED  BY <1>7, <4>1
    <3>4. Counting(fed + 1, fed) = <<>>
      <4>. DEFINE z == fed + 1
      <4>1. z \in Int /\ z - 1 = fed
        <5>. HIDE DEF fed
        <5>. QED  BY <1>1
      <4>. HIDE DEF z
      <4>2. Counting(z, z - 1) = <<>>
        BY <4>1, CountingNone
      <4>. QED  BY <4>1, <4>2 DEF z
    <3>. QED  BY <3>1, <3>2, <3>3, <3>4
  <2>2. d.unacknowledged = c.unacknowledged
    BY <1>2, <1>6, <2>1, ConcatEmptySeq
  <2>3. Chain(d.unacknowledged, fed, d.fin_sent, b)
    BY <1>2, <1>3, <2>1, <2>2
  <2>4. Sent(c) = {}
    BY <2>1 DEF Sent
  <2>. HIDE DEF d, b, fed
  <2>5. Tiled(d, v)
    BY <1>2, <1>3, <1>7, <1>8, <1>9, <1>10, <2>1, <2>3 DEF Tiled, b, fed
  <2>. QED  BY <2>4, <2>5
<1>11. CASE ~c.fin_sent
  <2>1. a = from /\ c.send_next = sequence_add(OurISS, from)
    BY <1>3, <1>4, <1>11
  <2>. HIDE DEF from, fed, n
  <2>2. /\ Chain(q, fed, c.fin_sent, from + n) /\ Starts(q, fed, from)
        /\ \A j \in 1 .. Len(q) : q[j].kind = "DATA" /\ Run(q[j].payload, q[j].seq, fed)
    BY <1>1, <1>3, <1>4, <2>1, SegmentedChain DEF n
  <2>3. q = <<>> => n = 0
    <3>. SUFFICES ASSUME q = <<>> PROVE n = 0
      OBVIOUS
    <3>. DEFINE m == (n + MSS - 1) \div MSS
    <3>1. MSS \in Nat /\ MSS > 0
      BY Constants
    <3>2. m \in Nat /\ n <= m * MSS /\ (m = 0 => n = 0)
      BY <1>1, <3>1, Pieces
    <3>3. DOMAIN q = 1 .. m
      BY DEF Segmented, n
    <3>. HIDE DEF m
    <3>4. 1 .. m = {}
      BY <3>3
    <3>5. m = 0
      <4>1. m # 0 => 1 \in 1 .. m
        BY <3>2
      <4>. QED  BY <3>4, <4>1
    <3>. QED  BY <3>2, <3>5
  <2>4. IF q = <<>> THEN from = from + n ELSE Position(q[1], fed) = from
    BY <1>4, <2>2, <2>3 DEF Starts
  <2>5. Chain(c.unacknowledged \o q, fed, c.fin_sent, from + n)
    <3>. HIDE DEF q
    <3>1. Chain(c.unacknowledged, fed, c.fin_sent, from)
      BY <1>3, <2>1
    <3>. QED  BY <1>6, <2>2, <2>4, <3>1, ChainJoins
  <2>6. Chain(d.unacknowledged, fed, d.fin_sent, b)
    BY <1>2, <1>8, <2>1, <2>5
  <2>7. \A p \in Sent(c) : Fits(p, v.fed, d.fin_sent)
    <3>1. DOMAIN q = 1 .. Len(q)
      BY <1>6, LenProperties
    <3>2. \A p \in Sent(c) : \E j \in 1 .. Len(q) : p = Packet("DATA", q[j].seq, q[j].payload)
      BY <3>1 DEF Sent
    <3>. HIDE DEF q
    <3>3. \A p \in Sent(c) : p.kind = "DATA" /\ Run(p.payload, p.seq, fed)
      BY <2>2, <3>2 DEF Packet
    <3>. QED  BY <3>3 DEF Fits, fed
  <2>. HIDE DEF d, b
  <2>8. Tiled(d, v)
    BY <1>2, <1>3, <1>7, <1>8, <1>9, <1>11, <2>6 DEF Tiled, b, fed
  <2>. QED  BY <2>7, <2>8
<1>. QED  BY <1>10, <1>11

LEMMA ReleasedContinues ==
    ASSUME NEW c \in Conn, NEW ack, NEW u
    PROVE  Continues(c, u, Released(c, ack), u, {})
<1>. DEFINE n == Covered(c, ack)
            rest == SubSeq(c.unacknowledged, n + 1, Len(c.unacknowledged))
            d == Released(c, ack)
            last == c.unacknowledged[n]
            una == IF n = 0 THEN c.send_unacknowledged
                   ELSE sequence_add(last.seq, last.length)
            h == c.handshake_complete
                   \/ sequence_difference(una, sequence_add(OurISS, 1)) >= 0
<1>1. /\ d.unacknowledged = rest /\ d.send_next = c.send_next
      /\ d.send_queue = c.send_queue /\ d.fin_sent = c.fin_sent
      /\ d.upstream_done = c.upstream_done
      /\ d.send_unacknowledged = una /\ d.handshake_complete = h
  <2>. DEFINE r == IF n > 0 THEN 0 ELSE c.retransmits
  <2>1. d = [c EXCEPT !.unacknowledged = rest, !.send_unacknowledged = una,
                      !.retransmits = r, !.handshake_complete = h]
    BY DEF Released
  <2>. HIDE DEF rest, una, r, h, d
  <2>. QED  BY <2>1 DEF Conn
<1>2. c.unacknowledged \in Seq(Unacknowledged) /\ n \in 0 .. Len(c.unacknowledged)
  BY Fields, CoveredTyped
<1>3. ASSUME Tiled(c, u) PROVE Tiled(d, u)
  <2>1. Chain(c.unacknowledged, u.fed, c.fin_sent, Ahead(c, u.fed))
    BY <1>3 DEF Tiled
  <2>2. Chain(rest, u.fed, c.fin_sent, Ahead(c, u.fed))
    <3>. HIDE DEF n
    <3>. QED  BY <1>2, <2>1, ChainRest
  <2>. HIDE DEF d, rest, n
  <2>3. Ahead(d, u.fed) = Ahead(c, u.fed)
    BY <1>1 DEF Ahead
  <2>. QED  BY <1>1, <1>3, <2>2, <2>3 DEF Tiled
<1>4. ASSUME Tiled(c, u), Shook(c), ~d.handshake_complete
      PROVE  ~c.handshake_complete /\ n = 0
  <2>1. ~c.handshake_complete
    BY <1>1, <1>4
  <2>2. ~(sequence_difference(una, sequence_add(OurISS, 1)) >= 0)
    BY <1>1, <1>4
  <2>3. Len(c.unacknowledged) = 1 /\ c.unacknowledged[1].kind = "SYNACK"
    BY <1>4, <2>1 DEF Shook
  <2>4. CASE n # 0
    <3>1. n = 1
      <4>. HIDE DEF n
      <4>. QED  BY <1>2, <2>3, <2>4
    <3>2. una = sequence_add(OurISS, 1)
      <4>1. Placed(c.unacknowledged[1], u.fed, c.fin_sent)
        BY <1>4, <2>3 DEF Tiled, Chain
      <4>2. c.unacknowledged[1].seq = sequence_add(OurISS, 0) /\ c.unacknowledged[1].length = 1
        BY <2>3, <4>1 DEF Placed, Position
      <4>3. sequence_add(sequence_add(OurISS, 0), 1) = sequence_add(OurISS, 0 + 1)
        <5>1. OurISS \in Int /\ 0 \in Int /\ 1 \in Int
          BY Constants DEF Space
        <5>. QED  BY <5>1, AddAdds
      <4>. HIDE DEF n
      <4>. QED  BY <3>1, <4>2, <4>3
    <3>3. sequence_difference(una, una) = 0
      <4>. HIDE DEF una
      <4>1. una \in Int /\ SeqSpace \in Nat /\ SeqSpace > 1
        <5>1. sequence_add(OurISS, 1) \in Space
          BY Constants, AddInSpace DEF Space
        <5>2. SeqSpace \in Nat /\ SeqSpace > 1
          BY TerminatorAssumption
        <5>. QED  BY <3>2, <5>1, <5>2 DEF Space
      <4>2. una - una = 0 /\ 0 % SeqSpace = 0 /\ 0 < SeqSpace \div 2
        BY <4>1
      <4>. QED  BY <4>2 DEF sequence_difference
    <3>. QED  BY <2>2, <3>2, <3>3
  <2>. QED  BY <2>1, <2>4
<1>5. ASSUME n = 0
      PROVE  rest = c.unacknowledged
  <2>. DEFINE q == c.unacknowledged
  <2>. HIDE DEF q
  <2>1. q \in Seq(Unacknowledged)
    BY <1>2 DEF q
  <2>2. SubSeq(q, 0 + 1, Len(q)) = q
    BY <2>1
  <2>. QED  BY <1>5, <2>2 DEF q
<1>6. Tiled(c, u) /\ Shook(c) => Early(c, d, {})
  <2>. HIDE DEF d, n, rest, h
  <2>. QED  BY <1>1, <1>4, <1>5 DEF Early, Shook, Empty
<1>. HIDE DEF d
<1>. QED  BY <1>1, <1>3, <1>6, ContinuesBy DEF d

(* What a relay delivers goes to the end of the queue.                     *)
LEMMA QueuedContinues ==
    ASSUME NEW c \in Conn, NEW u \in Up, u.phase # "ended", NEW n \in Nat,
           NEW v, v.fed = u.fed + n
    PROVE  Continues(c, u, [c EXCEPT !.send_queue =
                               @ \o Counting(u.fed + 1, u.fed + n)], v, {})
<1>. DEFINE fed == u.fed
            more == u.fed + n
            q == c.send_queue
            l == Len(q)
            r == q \o Counting(fed + 1, more)
            d == [c EXCEPT !.send_queue = r]
<1>. SUFFICES ASSUME NEW x, NEW w, Streaming(c, u, w, x)
              PROVE  Streaming(d, v, w \cup {}, x)
  BY DEF Continues
<1>1. /\ fed \in Nat /\ more \in Nat /\ more = fed + n /\ fed <= more
      /\ q \in Bytes /\ l \in Nat /\ v.fed = more
  BY Fields DEF Up
<1>2. /\ d.send_queue = r /\ d.send_next = c.send_next /\ d.fin_sent = c.fin_sent
      /\ d.upstream_done = c.upstream_done /\ d.unacknowledged = c.unacknowledged
      /\ d.send_unacknowledged = c.send_unacknowledged
      /\ d.handshake_complete = c.handshake_complete
  <2>. HIDE DEF r
  <2>. QED  BY DEF Conn
<1>3. /\ l <= fed /\ q = Counting(fed - l + 1, fed)
      /\ c.send_next = sequence_add(OurISS, Ahead(c, fed))
      /\ ~c.fin_sent /\ ~c.upstream_done
      /\ Chain(c.unacknowledged, fed, c.fin_sent, Ahead(c, fed))
  BY DEF Streaming, Tiled
<1>4. c.fin_sent = FALSE /\ c.unacknowledged \in Seq(Unacknowledged)
  BY <1>3, Fields DEF Conn
<1>5. r = Counting(fed - l + 1, more) /\ Len(r) = l + n
  <2>. DEFINE a == fed - l + 1
  <2>1. /\ a \in Int /\ a <= fed + 1 /\ a <= more + 1 /\ more - a + 1 = l + n
        /\ fed \in Int /\ more \in Int
    <3>. HIDE DEF fed, more, l
    <3>. QED  BY <1>1, <1>3
  <2>. HIDE DEF a, fed, more, l, q
  <2>2. Counting(a, fed) \o Counting(fed + 1, more) = Counting(a, more)
    BY <1>1, <2>1, CountingJoins
  <2>3. r = Counting(a, more)
    BY <1>3, <2>2 DEF a
  <2>4. Len(Counting(a, more)) = more - a + 1
    BY <2>1, CountingIs
  <2>. QED  BY <2>1, <2>3, <2>4 DEF a
<1>. HIDE DEF r, d
<1>6. Ahead(d, more) = Ahead(c, fed)
  <2>. HIDE DEF l, fed, more
  <2>1. Ahead(d, more) = 1 + (more - (l + n)) + 0
    BY <1>2, <1>3, <1>5 DEF Ahead
  <2>2. Ahead(c, fed) = 1 + (fed - l) + 0
    BY <1>3 DEF Ahead, l, q
  <2>. QED  BY <1>1, <2>1, <2>2
<1>7. Chain(c.unacknowledged, more, FALSE, Ahead(c, fed))
  <2>. HIDE DEF fed, more
  <2>1. Chain(c.unacknowledged, fed, FALSE, Ahead(c, fed))
    BY <1>3, <1>4
  <2>. QED  BY <1>1, <1>4, <2>1, ChainGrows
<1>8. Tiled(d, v)
  <2>. DEFINE z == Len(d.send_queue)
  <2>1. z = l + n /\ z <= more /\ more - z + 1 = fed - l + 1
    <3>1. z = l + n
      BY <1>2, <1>5
    <3>. HIDE DEF z, l, fed, more
    <3>. QED  BY <1>1, <1>3, <3>1
  <2>2. d.send_queue = Counting(more - z + 1, more)
    BY <1>2, <1>5, <2>1
  <2>. HIDE DEF fed, more, l, q
  <2>. QED  BY <1>1, <1>2, <1>3, <1>4, <1>6, <1>7, <2>1, <2>2 DEF Tiled
<1>9. Line(x, w, v.fed, d.fin_sent)
  <2>. HIDE DEF fed, more
  <2>1. /\ \E m \in 0 .. fed : x.got = Counting(1, m) /\ (x.gotFin => c.fin_sent /\ m = fed)
        /\ \A p \in w : Fits(p, fed, c.fin_sent)
    BY DEF Streaming, Line, fed
  <2>2. ~x.gotFin
    BY <1>3, <2>1
  <2>3. \E m \in 0 .. more : x.got = Counting(1, m)
    <3>1. \A m \in 0 .. fed : m \in 0 .. more
      BY <1>1
    <3>. QED  BY <2>1, <3>1
  <2>4. ASSUME NEW p \in w PROVE Fits(p, more, d.fin_sent)
    <3>1. Fits(p, fed, c.fin_sent)
      BY <2>1
    <3>2. Run(p.payload, p.seq, fed) => Run(p.payload, p.seq, more)
      BY <1>1, RunMore
    <3>. QED  BY <1>3, <3>1, <3>2 DEF Fits
  <2>. QED  BY <1>1, <2>2, <2>3, <2>4 DEF Line
<1>10. Before(d, w \cup {}, x)
  BY <1>2 DEF Streaming, Before, Shook, Empty
<1>. QED  BY <1>8, <1>9, <1>10 DEF Streaming

(* The FIN comes behind the last byte the relay delivered.                 *)
LEMMA FinContinues ==
    ASSUME NEW c \in Conn, NEW u \in Up, c.upstream_done, Drained(c), ~c.fin_sent
    PROVE  LET s == [kind |-> "FIN", seq |-> c.send_next, payload |-> <<>>, length |-> 1]
           IN  Continues(c, u, [c EXCEPT !.fin_sent = TRUE, !.unacknowledged = <<s>>,
                                         !.send_next = sequence_add(@, 1)],
                         u, {Packet("FIN", c.send_next, <<>>)})
<1>. DEFINE s == [kind |-> "FIN", seq |-> c.send_next, payload |-> <<>>, length |-> 1]
            next == sequence_add(c.send_next, 1)
            q == <<s>>
            d == [c EXCEPT !.fin_sent = TRUE, !.unacknowledged = q, !.send_next = next]
            fed == u.fed
            p == Packet("FIN", c.send_next, <<>>)
<1>1. /\ d.fin_sent = TRUE /\ d.unacknowledged = q /\ d.send_next = next
      /\ d.send_queue = c.send_queue /\ d.upstream_done = c.upstream_done
      /\ d.handshake_complete = c.handshake_complete
  <2>. HIDE DEF q, next
  <2>. QED  BY DEF Conn
<1>2. s.kind = "FIN" /\ s.seq = c.send_next /\ s.payload = <<>> /\ s.length = 1
  OBVIOUS
<1>3. p.kind = "FIN" /\ p.seq = c.send_next
  BY DEF Packet
<1>4. c.send_queue = <<>> /\ fed \in Nat /\ OurISS \in Int
  BY Constants DEF Drained, Up, Space
<1>. HIDE DEF d
<1>5. ASSUME Tiled(c, u)
      PROVE  Tiled(d, u) /\ Fits(p, u.fed, d.fin_sent)
  <2>. HIDE DEF fed
  <2>1. c.send_next = sequence_add(OurISS, fed + 1)
    <3>1. c.send_next = sequence_add(OurISS, Ahead(c, fed))
      BY <1>5 DEF Tiled, fed
    <3>2. Ahead(c, fed) = 1 + (fed - 0) + 0
      BY <1>4 DEF Ahead
    <3>3. 1 + (fed - 0) + 0 = fed + 1
      BY <1>4
    <3>. QED  BY <3>1, <3>2, <3>3
  <2>2. next = sequence_add(OurISS, fed + 2)
    <3>. DEFINE z == fed + 1
    <3>1. z \in Int /\ z + 1 = fed + 2
      BY <1>4
    <3>. HIDE DEF z
    <3>2. sequence_add(sequence_add(OurISS, z), 1) = sequence_add(OurISS, z + 1)
      BY <1>4, <3>1, AddAdds
    <3>. QED  BY <2>1, <3>1, <3>2 DEF z
  <2>3. Ahead(d, fed) = fed + 2
    <3>1. Ahead(d, fed) = 1 + (fed - 0) + 1
      BY <1>1, <1>4 DEF Ahead
    <3>. QED  BY <1>4, <3>1
  <2>4. /\ Placed(s, fed, TRUE) /\ Ends(s, fed) = fed + 2
    <3>1. Position(s, fed) = fed + 1
      BY <1>2 DEF Position
    <3>2. Ends(s, fed) = fed + 1 + 1
      BY <1>2, <3>1 DEF Ends
    <3>. QED  BY <1>2, <1>4, <2>1, <3>1, <3>2 DEF Placed
  <2>. HIDE DEF s, q, next
  <2>5. Chain(q, fed, TRUE, fed + 2)
    <3>1. Chain(q, fed, TRUE, Ends(s, fed))
      BY <2>4, ChainOne DEF q
    <3>. QED  BY <2>4, <3>1
  <2>6. Tiled(d, u)
    BY <1>1, <1>4, <1>5, <2>2, <2>3, <2>5 DEF Tiled, fed
  <2>7. Fits(p, u.fed, d.fin_sent)
    BY <1>1, <1>3, <2>1 DEF Fits, fed
  <2>. QED  BY <2>6, <2>7
<1>6. Continues(c, u, d, u, {p})
  <2>. HIDE DEF p
  <2>1. Tiled(c, u) => /\ Tiled(d, u) /\ \A y \in {p} : Fits(y, u.fed, d.fin_sent)
    BY <1>5
  <2>2. Shook(c) => Early(c, d, {p})
    <3>1. ASSUME Shook(c) PROVE c.handshake_complete
      <4>1. c.unacknowledged = <<>> /\ Len(<<>>) = 0
        BY DEF Drained
      <4>. QED  BY <3>1, <4>1 DEF Shook
    <3>2. d.handshake_complete = c.handshake_complete
      BY <1>1
    <3>. QED  BY <3>1, <3>2 DEF Early, Shook
  <2>. QED  BY <1>1, <2>1, <2>2, ContinuesBy
<1>. QED  BY <1>6 DEF d, q, s, next, p

(* A connection that is new has its SYN-ACK, which comes before the first  *)
(* byte, on the wire.                                                      *)
LEMMA NewStreams ==
    ASSUME NEW c, NEW u, u.fed = 0, ~c.fin_sent, ~c.upstream_done,
           c.unacknowledged =
              <<[kind |-> "SYNACK", seq |-> OurISS, payload |-> <<>>, length |-> 1]>>,
           c.send_queue = <<>>, c.send_unacknowledged = OurISS,
           c.send_next = sequence_add(OurISS, 1), NEW x, Untouched(x)
    PROVE  Streaming(c, u, {Packet("SYNACK", OurISS, <<>>)}, x)
<1>. DEFINE s == [kind |-> "SYNACK", seq |-> OurISS, payload |-> <<>>, length |-> 1]
            p == Packet("SYNACK", OurISS, <<>>)
<1>1. Ahead(c, 0) = 1 /\ Len(<<>>) <= 0 /\ 0 - Len(<<>>) + 1 = 1
  <2>1. Len(<<>>) = 0 /\ 1 + (0 - 0) + 0 = 1
    OBVIOUS
  <2>. QED  BY <2>1 DEF Ahead
<1>2. Counting(1, 0) = <<>>
  BY CountingNone
<1>3. s.kind = "SYNACK" /\ s.seq = OurISS /\ s.payload = <<>> /\ s.length = 1
  OBVIOUS
<1>4. p.kind = "SYNACK"
  BY DEF Packet
<1>5. c.unacknowledged = <<s>>
  OBVIOUS
<1>6. /\ Placed(s, 0, c.fin_sent) /\ Ends(s, 0) = 1
  <2>1. Position(s, 0) = 0
    BY <1>3 DEF Position
  <2>2. OurISS = sequence_add(OurISS, 0)
    <3>1. OurISS \in 0 .. SeqSpace - 1 /\ SeqSpace \in Nat /\ SeqSpace > 0
      BY Constants DEF Space
    <3>2. OurISS + 0 = OurISS /\ OurISS % SeqSpace = OurISS
      BY <3>1
    <3>. QED  BY <3>2 DEF sequence_add
  <2>3. Ends(s, 0) = 0 + 1
    BY <1>3, <2>1 DEF Ends
  <2>. QED  BY <1>3, <2>1, <2>2, <2>3 DEF Placed
<1>. HIDE DEF s, p
<1>7. Chain(<<s>>, 0, c.fin_sent, 1)
  <2>1. Chain(<<s>>, 0, c.fin_sent, Ends(s, 0))
    BY <1>6, ChainOne
  <2>. QED  BY <1>6, <2>1
<1>8. Tiled(c, u)
  BY <1>1, <1>2, <1>5, <1>7 DEF Tiled
<1>9. Line(x, {p}, u.fed, c.fin_sent)
  <2>1. 0 \in 0 .. 0
    OBVIOUS
  <2>. QED  BY <1>2, <1>4, <2>1 DEF Line, Fits, Untouched
<1>10. Before(c, {p}, x)
  <2>1. Len(<<s>>) = 1 /\ <<s>>[1] = s
    OBVIOUS
  <2>. QED  BY <1>3, <1>4, <1>5, <2>1 DEF Before, Shook, Empty
<1>. QED  BY <1>8, <1>9, <1>10 DEF Streaming, p

(* What nothing of the stream hangs on.                                    *)
LEMMA AlikeKept ==
    ASSUME NEW c \in Conn, NEW u, NEW v, v.fed = u.fed,
           u.phase = "ended" => v.phase = "ended"
    PROVE  /\ \A w : Alike(c, u, [c EXCEPT !.peer_window = w], v)
           /\ \A s : Alike(c, u, [c EXCEPT !.state = s], v)
           /\ Alike(c, u, c, v)
           /\ Alike(c, u, [c EXCEPT !.upstream_paused = TRUE], v)
           /\ v.phase = "ended" => Alike(c, u, [c EXCEPT !.upstream_done = TRUE], v)
           /\ Alike(c, u, [c EXCEPT !.upstream_connected = TRUE,
                                    !.pending_for_upstream = <<>>], v)
           /\ \A m : Alike(c, u, [c EXCEPT !.retransmits = m], v)
           /\ \A r, b, s : Alike(c, u, [c EXCEPT !.receive_next = r, !.inbound_closed = b,
                                                 !.state = s], v)
           /\ \A r, q : Alike(c, u, [c EXCEPT !.receive_next = r,
                                              !.pending_for_upstream = q], v)
<1>1. /\ \A w : Alike(c, u, [c EXCEPT !.peer_window = w], v)
      /\ \A s : Alike(c, u, [c EXCEPT !.state = s], v)
  BY DEF Alike, Conn
<1>2. /\ Alike(c, u, c, v)
      /\ Alike(c, u, [c EXCEPT !.upstream_paused = TRUE], v)
      /\ v.phase = "ended" => Alike(c, u, [c EXCEPT !.upstream_done = TRUE], v)
  BY DEF Alike, Conn
<1>3. /\ Alike(c, u, [c EXCEPT !.upstream_connected = TRUE,
                               !.pending_for_upstream = <<>>], v)
      /\ \A m : Alike(c, u, [c EXCEPT !.retransmits = m], v)
  BY DEF Alike, Conn
<1>4. /\ \A r, b, s : Alike(c, u, [c EXCEPT !.receive_next = r, !.inbound_closed = b,
                                            !.state = s], v)
  BY DEF Alike, Conn
<1>5. \A r, q : Alike(c, u, [c EXCEPT !.receive_next = r,
                                      !.pending_for_upstream = q], v)
  BY DEF Alike, Conn
<1>. QED  BY <1>1, <1>2, <1>3, <1>4, <1>5

LEMMA RetransmitContinues ==
    ASSUME NEW c \in Conn, NEW u
    PROVE  Continues(c, u, [c EXCEPT !.retransmits = @ + 1], u, Oldest(c))
<1>. DEFINE d == [c EXCEPT !.retransmits = c.retransmits + 1]
<1>1. Alike(c, u, d, u)
  BY AlikeKept
<1>. HIDE DEF d
<1>2. Tiled(c, u) => /\ Tiled(d, u) /\ d.fin_sent = c.fin_sent
                     /\ \A p \in Oldest(c) : Fits(p, u.fed, d.fin_sent)
  <2>. SUFFICES ASSUME Tiled(c, u)
                PROVE  /\ Tiled(d, u) /\ d.fin_sent = c.fin_sent
                       /\ \A p \in Oldest(c) : Fits(p, u.fed, d.fin_sent)
    OBVIOUS
  <2>1. Tiled(d, u)
    BY <1>1, AlikeTiled
  <2>2. d.fin_sent = c.fin_sent
    BY <1>1 DEF Alike
  <2>. QED  BY <2>1, <2>2, OldestFits
<1>4. Shook(c) => Early(c, d, Oldest(c))
  <2>. SUFFICES ASSUME Shook(c), ~c.handshake_complete PROVE Empty(Oldest(c))
    BY <1>1 DEF Alike, Early, Shook
  <2>. DEFINE q == c.unacknowledged
  <2>1. Len(q) = 1 /\ q[1].kind = "SYNACK" /\ q \in Seq(Unacknowledged)
    BY Fields DEF Shook
  <2>2. q # <<>> /\ Head(q) = q[1]
    BY <2>1, EmptySeq
  <2>3. \A p \in Oldest(c) : p = Packet(q[1].kind, q[1].seq, q[1].payload)
    BY <2>2 DEF Oldest
  <2>. QED  BY <2>1, <2>3 DEF Empty, Packet
<1>3. Continues(c, u, d, u, Oldest(c))
  BY <1>2, <1>4, ContinuesBy
<1>. QED  BY <1>3 DEF d

-----------------------------------------------------------------------------
(* What a connection holds of its stream.                                  *)

(* The bytes of a segment, by their positions: none for SYN-ACK and FIN.   *)
First(s, fed) == Larger(1, Position(s, fed))
Past(s, fed) == Smaller(Ends(s, fed), fed + 1)

LEMMA PlacedBytes ==
    ASSUME NEW s \in Unacknowledged, NEW fed \in Nat, NEW fin, Placed(s, fed, fin)
    PROVE  /\ First(s, fed) \in Nat \ {0} /\ Past(s, fed) \in Nat \ {0}
           /\ First(s, fed) <= Past(s, fed)
           /\ s.payload = Counting(First(s, fed), Past(s, fed) - 1)
<1>. DEFINE a == Position(s, fed)
            b == Ends(s, fed)
<1>1. /\ s.kind \in {"SYNACK", "DATA", "FIN"}
      /\ a \in 0 .. fed + 1 /\ b \in Nat \ {0} /\ a < b
      /\ s.kind = "SYNACK" => a = 0 /\ b = 1 /\ s.payload = <<>>
      /\ s.kind = "FIN" => a = fed + 1 /\ b = fed + 2 /\ s.payload = <<>>
      /\ s.kind = "DATA" => /\ 1 <= a /\ b <= fed + 1 /\ s.payload = Counting(a, b - 1)
  BY PlacedIs DEF Unacknowledged
<1>2. First(s, fed) = Larger(1, a) /\ Past(s, fed) = Smaller(b, fed + 1)
  BY DEF First, Past
<1>. HIDE DEF a, b
<1>3. CASE s.kind = "DATA"
  <2>1. Larger(1, a) = a /\ Smaller(b, fed + 1) = b
    BY <1>1, <1>3 DEF Larger, Smaller
  <2>. QED  BY <1>1, <1>2, <1>3, <2>1
<1>4. CASE s.kind = "SYNACK"
  <2>1. Larger(1, a) = 1 /\ Smaller(b, fed + 1) = 1 /\ 1 - 1 = 0
    BY <1>1, <1>4 DEF Larger, Smaller
  <2>2. Counting(1, 1 - 1) = <<>>
    BY CountingNone
  <2>. QED  BY <1>1, <1>2, <1>4, <2>1, <2>2
<1>5. CASE s.kind = "FIN"
  <2>. DEFINE z == fed + 1
  <2>1. Larger(1, a) = z /\ Smaller(b, z) = z /\ z \in Nat \ {0} /\ z \in Int
    BY <1>1, <1>5 DEF Larger, Smaller
  <2>. HIDE DEF z
  <2>2. Counting(z, z - 1) = <<>>
    BY <2>1, CountingNone
  <2>. QED  BY <1>1, <1>2, <1>5, <2>1, <2>2 DEF z
<1>. QED  BY <1>1, <1>3, <1>4, <1>5

LEMMA ChainFlattens ==
    ASSUME NEW q \in Seq(Unacknowledged), q # <<>>, NEW fed \in Nat, NEW fin, NEW upto,
           Chain(q, fed, fin, upto)
    PROVE  /\ FlattenSeq([j \in DOMAIN q |-> q[j].payload])
                = Counting(First(q[1], fed), Past(q[Len(q)], fed) - 1)
           /\ First(q[1], fed) <= Past(q[Len(q)], fed)
           /\ First(q[1], fed) \in Nat \ {0}
<1>. DEFINE L == Len(q)
            parts == [j \in DOMAIN q |-> q[j].payload]
            a == First(q[1], fed)
            e(j) == Past(q[j], fed)
            g == [j \in 1 .. L |-> Counting(a, e(j) - 1)]
<1>1. L \in Nat \ {0} /\ DOMAIN q = 1 .. L
  BY LenProperties, EmptySeq
<1>. HIDE DEF L
<1>2. ASSUME NEW j \in 1 .. L
      PROVE  /\ First(q[j], fed) \in Nat \ {0} /\ e(j) \in Nat \ {0}
             /\ First(q[j], fed) <= e(j)
             /\ q[j].payload = Counting(First(q[j], fed), e(j) - 1)
  <2>1. q[j] \in Unacknowledged /\ Placed(q[j], fed, fin)
    BY <1>1, <1>2, ElementOfSeq DEF Chain, L
  <2>. QED  BY <2>1, PlacedBytes
<1>3. ASSUME NEW j \in 2 .. L
      PROVE  j - 1 \in 1 .. L /\ e(j - 1) = First(q[j], fed)
  <2>. DEFINE i == j - 1
  <2>1. i \in 1 .. L /\ i # L /\ i + 1 = j /\ j \in 1 .. L
    BY <1>1, <1>3
  <2>. HIDE DEF i
  <2>2. /\ Ends(q[i], fed) = Position(q[j], fed)
        /\ Placed(q[i], fed, fin) /\ Placed(q[j], fed, fin)
    BY <2>1 DEF Chain, L
  <2>3. q[i] \in Unacknowledged /\ q[j] \in Unacknowledged
    BY <2>1, ElementOfSeq DEF L
  <2>4. Ends(q[i], fed) \in Nat \ {0} /\ Position(q[j], fed) \in 0 .. fed + 1
    BY <2>2, <2>3, PlacedIs
  <2>5. Past(q[i], fed) = Ends(q[i], fed) /\ First(q[j], fed) = Position(q[j], fed)
    BY <2>2, <2>4 DEF Past, First, Smaller, Larger
  <2>. QED  BY <2>1, <2>2, <2>5 DEF i
<1>. HIDE DEF e, a
<1>4. a = First(q[1], fed) /\ a \in Nat \ {0} /\ a <= e(1)
  <2>1. 1 \in 1 .. L
    BY <1>1
  <2>. QED  BY <1>2, <2>1 DEF a
<1>. DEFINE Bad == {j \in 1 .. L : ~(a <= e(j))}
<1>5. Bad = {}
  <2>. SUFFICES ASSUME Bad # {} PROVE FALSE
    OBVIOUS
  <2>1. Bad \in SUBSET Nat
    OBVIOUS
  <2>9. PICK j : j \in Bad /\ \A i \in Bad : j <= i
    BY <2>1, Least
  <2>2. \A i \in 1 .. L : ~(a <= e(i)) => j <= i
    BY <2>9
  <2>3. j \in 1 .. L /\ ~(a <= e(j))
    BY <2>9
  <2>. HIDE DEF Bad
  <2>8. j # 1
    BY <1>4, <2>3
  <2>4. j \in 2 .. L
    BY <1>1, <2>3, <2>8
  <2>5. j - 1 \in 1 .. L /\ ~(j <= j - 1)
    BY <1>1, <2>4
  <2>6. a <= e(j - 1)
    BY <2>2, <2>5
  <2>7. e(j - 1) <= e(j) /\ e(j - 1) \in Nat /\ e(j) \in Nat
    BY <1>2, <1>3, <2>3, <2>4, <2>5
  <2>. QED  BY <1>4, <2>3, <2>6, <2>7
<1>6. ASSUME NEW j \in 2 .. L
      PROVE  g[j] = g[j - 1] \o parts[j]
  <2>. DEFINE x == First(q[j], fed)
              y == e(j) - 1
              w == x - 1
  <2>1. j \in 1 .. L /\ j - 1 \in 1 .. L /\ e(j - 1) = x
    BY <1>1, <1>3, <1>6
  <2>2. /\ a \in Int /\ w \in Int /\ y \in Int /\ a <= w + 1 /\ w <= y /\ w + 1 = x
    <3>1. a <= x
      <4>1. a <= e(j - 1)
        BY <1>5, <2>1
      <4>. QED  BY <2>1, <4>1
    <3>2. x \in Nat /\ e(j) \in Nat /\ x <= e(j)
      BY <1>2, <2>1
    <3>. HIDE DEF x
    <3>. QED  BY <1>4, <3>1, <3>2
  <2>3. g[j] = Counting(a, y) /\ g[j - 1] = Counting(a, w)
    BY <2>1
  <2>4. parts[j] = Counting(x, y)
    BY <1>1, <1>2, <2>1
  <2>. HIDE DEF g, parts, x, y, w
  <2>5. Counting(a, w) \o Counting(w + 1, y) = Counting(a, y)
    BY <2>2, CountingJoins
  <2>. QED  BY <2>2, <2>3, <2>4, <2>5
<1>7. g[1] = parts[1] /\ g[L] = Counting(a, e(L) - 1) /\ L \in 1 .. L /\ Len(parts) = L
  <2>1. 1 \in 1 .. L /\ L \in 1 .. L
    BY <1>1
  <2>2. parts[1] = Counting(a, e(1) - 1)
    BY <1>1, <1>2, <1>4, <2>1
  <2>3. Len(parts) = L
    BY <1>1
  <2>. QED  BY <2>1, <2>2, <2>3
<1>8. g = [j \in 1 .. L |-> g[j]]
  OBVIOUS
<1>. HIDE DEF g, parts
<1>9. FlattenSeq(parts) = g[L]
  <2>1. Unrolls(g, parts, L)
    BY <1>1, <1>6, <1>7, <1>8 DEF Unrolls
  <2>. QED  BY <2>1, Flattens
<1>10. a <= e(L)
  BY <1>5, <1>7
<1>. QED  BY <1>4, <1>7, <1>9, <1>10 DEF parts, a, e, L

LEMMA TiledData ==
    ASSUME NEW c \in Conn, NEW u \in Up, Tiled(c, u)
    PROVE  /\ DataOf(c) = Counting(u.fed - Len(DataOf(c)) + 1, u.fed)
           /\ \A j \in DOMAIN c.unacknowledged :
                 c.unacknowledged[j].kind = "DATA" =>
                    c.unacknowledged[j].seq
                       = sequence_add(OurISS, Head(c.unacknowledged[j].payload))
<1>. DEFINE fed == u.fed
            q == c.unacknowledged
            l == Len(c.send_queue)
            from == fed - l + 1
            flat == FlattenSeq([j \in DOMAIN q |-> q[j].payload])
            data == DataOf(c)
<1>1. /\ q \in Seq(Unacknowledged) /\ fed \in Nat /\ l \in Nat /\ l <= fed
      /\ c.send_queue = Counting(from, fed) /\ c.send_queue \in Bytes
      /\ Chain(q, fed, c.fin_sent, Ahead(c, fed))
      /\ c.fin_sent => c.send_queue = <<>>
  BY Fields DEF Tiled, Up
<1>2. data = flat \o c.send_queue
  BY DEF DataOf
<1>3. \E x \in Int : x <= fed + 1 /\ data = Counting(x, fed)
  <2>1. CASE q = <<>>
    <3>1. flat = <<>>
      <4>1. DOMAIN q = {} /\ [j \in {} |-> q[j].payload] = <<>>
        BY <2>1
      <4>2. flat = FlattenSeq(<<>>)
        BY <4>1
      <4>3. Len(<<>>) = 0
        OBVIOUS
      <4>. QED  BY <4>2, <4>3 DEF FlattenSeq
    <3>2. data = c.send_queue
      BY <1>1, <1>2, <3>1, ConcatEmptySeq DEF Bytes
    <3>3. from \in Int /\ from <= fed + 1
      <4>. HIDE DEF fed, l
      <4>. QED  BY <1>1
    <3>. QED  BY <1>1, <3>2, <3>3
  <2>2. CASE q # <<>>
    <3>. DEFINE a == First(q[1], fed)
                z == Past(q[Len(q)], fed)
    <3>1. flat = Counting(a, z - 1) /\ a <= z /\ a \in Nat \ {0}
      <4>. HIDE DEF q, fed
      <4>. QED  BY <1>1, <2>2, ChainFlattens
    <3>2. z = from
      <4>1. Ends(q[Len(q)], fed) = Ahead(c, fed)
        <5>1. Len(q) \in 1 .. Len(q)
          BY <1>1, <2>2, LenProperties, EmptySeq
        <5>. QED  BY <1>1, <5>1 DEF Chain
      <4>2. z = Smaller(Ahead(c, fed), fed + 1)
        BY <4>1 DEF Past
      <4>3. /\ Ahead(c, fed) \in Nat \ {0}
            /\ ~c.fin_sent => Ahead(c, fed) = fed - l + 1
            /\ c.fin_sent => Ahead(c, fed) = fed - l + 2
        BY <1>1, AheadIs
      <4>4. c.fin_sent => l = 0
        BY <1>1
      <4>. HIDE DEF fed, l, z
      <4>. QED  BY <1>1, <4>2, <4>3, <4>4 DEF Smaller
    <3>. DEFINE y == z - 1
    <3>3. /\ a \in Int /\ y \in Int /\ fed \in Int /\ a <= y + 1 /\ y <= fed
          /\ y + 1 = from /\ a <= fed + 1
      <4>. HIDE DEF fed, l, a, z
      <4>. QED  BY <1>1, <3>1, <3>2
    <3>4. flat = Counting(a, y)
      BY <3>1
    <3>. HIDE DEF fed, a, y, flat, from, data
    <3>5. Counting(a, y) \o Counting(y + 1, fed) = Counting(a, fed)
      BY <3>3, CountingJoins
    <3>6. data = Counting(a, fed)
      BY <1>1, <1>2, <3>3, <3>4, <3>5
    <3>. QED  BY <3>3, <3>6
  <2>. QED  BY <2>1, <2>2
<1>4. PICK x \in Int : x <= fed + 1 /\ data = Counting(x, fed)
  BY <1>3
<1>. HIDE DEF fed, data
<1>5. Len(data) = fed - x + 1
  BY <1>1, <1>4, CountingIs
<1>6. fed - Len(data) + 1 = x
  BY <1>1, <1>5
<1>7. ASSUME NEW j \in DOMAIN q, q[j].kind = "DATA"
      PROVE  q[j].seq = sequence_add(OurISS, Head(q[j].payload))
  <2>1. j \in 1 .. Len(q)
    BY <1>1, LenProperties
  <2>2. Run(q[j].payload, q[j].seq, fed)
    BY <1>1, <1>7, <2>1 DEF Chain, Placed
  <2>. DEFINE b == q[j].payload
  <2>3. q[j].seq = sequence_add(OurISS, b[1]) /\ b \in Bytes /\ Len(b) \in Nat \ {0}
    BY <1>1, <2>2, RunIs
  <2>. HIDE DEF b
  <2>4. Head(b) = b[1]
    <3>1. b # <<>>
      BY <2>3
    <3>. QED  BY <2>3, <3>1, EmptySeq DEF Bytes
  <2>. QED  BY <2>3, <2>4 DEF b
<1>. QED  BY <1>4, <1>6, <1>7 DEF fed, data

-----------------------------------------------------------------------------
(* The table.                                                              *)

Shaped(t) == t = [conns |-> t.conns, wire |-> t.wire, up |-> t.up]

Became(v, t, i, c, packets, u) ==
    /\ Shaped(v) /\ v.conns = [t.conns EXCEPT ![i] = c]
    /\ v.up = [t.up EXCEPT ![t.conns[i].dial] = u]
    /\ v.wire = Delivered(t.wire, t.conns[i].key, packets)

LEMMA UpdateParts ==
    ASSUME NEW t, NEW i, NEW c, NEW packets, NEW u
    PROVE  Became(Update(t, i, c, packets, u), t, i, c, packets, u)
  BY DEF Update, Became, Shaped, Delivered

Stored(v, t, i, c) == /\ Shaped(v) /\ v.conns = [t.conns EXCEPT ![i] = c]
                      /\ v.up = t.up /\ v.wire = t.wire

LEMMA PutParts ==
    ASSUME NEW t, Shaped(t), NEW i, NEW c
    PROVE  Stored(Put(t, i, c), t, i, c)
<1>. DEFINE q == [t.conns EXCEPT ![i] = c]
            v == Put(t, i, c)
<1>1. v = [conns |-> q, wire |-> t.wire, up |-> t.up]
  BY DEF Put, Shaped
<1>. HIDE DEF v, q
<1>2. v.conns = q /\ v.up = t.up /\ v.wire = t.wire
  BY <1>1
<1>3. Shaped(v)
  BY <1>1, <1>2 DEF Shaped
<1>. QED  BY <1>2, <1>3 DEF q, v, Stored

(* The invariant in terms of the connections and the relays.               *)
Changed(t, v, i, c, u, packets) ==
    /\ Shaped(v) /\ c \in Conn /\ u \in Up
    /\ c.key = t.conns[i].key /\ c.dial = t.conns[i].dial /\ u.key = c.key
    /\ u.closes = IF c.state = "Closed" THEN 1 ELSE 0
    /\ v.conns = [t.conns EXCEPT ![i] = c] /\ v.up = [t.up EXCEPT ![c.dial] = u]
    /\ v.wire = Delivered(t.wire, c.key, packets)
    /\ IF c.state = "Closed" THEN \A p \in packets : p.kind = "RST"
       ELSE Continues(t.conns[i], t.up[c.dial], c, u, packets)

(* What of the table a change leaves alone.                                *)
LEMMA Changes ==
    ASSUME NEW t, NEW n, NEW i, Works(t, n, i),
           NEW v, NEW c, NEW u, NEW packets, Changed(t, v, i, c, u, packets)
    PROVE  /\ v.conns \in Seq(Conn) /\ Len(v.conns) = Len(t.conns) /\ v.conns[i] = c
           /\ \A j \in 1 .. Len(t.conns) : j # i => v.conns[j] = t.conns[j]
           /\ v.up \in [Dials -> Up] /\ v.up[c.dial] = u /\ c.dial \in Dials
           /\ \A d \in Dials : d # c.dial => v.up[d] = t.up[d]
           /\ Wired(v.wire) /\ c.key \in Keys
           /\ v.wire[c.key] = t.wire[c.key] \cup packets
           /\ \A k \in Keys : k # c.key => v.wire[k] = t.wire[k]
<1>1. /\ t.conns \in Seq(Conn) /\ Len(t.conns) \in Nat /\ DOMAIN t.conns = 1 .. Len(t.conns)
      /\ i \in 1 .. Len(t.conns) /\ t.up \in [Dials -> Up]
      /\ Wired(t.wire)
  BY LenProperties DEF Works, Kept
<1>2. /\ c \in Conn /\ u \in Up
      /\ v.conns = [t.conns EXCEPT ![i] = c] /\ v.up = [t.up EXCEPT ![c.dial] = u]
      /\ v.wire = Delivered(t.wire, c.key, packets)
  BY DEF Changed
<1>3. c.dial \in Dials /\ c.key \in Keys
  BY <1>2, Fields
<1>4. /\ v.conns \in Seq(Conn) /\ Len(v.conns) = Len(t.conns) /\ v.conns[i] = c
      /\ \A j \in 1 .. Len(t.conns) : j # i => v.conns[j] = t.conns[j]
  BY <1>1, <1>2, ExceptSeq
<1>5. /\ v.up \in [Dials -> Up] /\ v.up[c.dial] = u
      /\ \A d \in Dials : d # c.dial => v.up[d] = t.up[d]
  BY <1>1, <1>2, <1>3
<1>6. /\ Wired(v.wire)
      /\ v.wire[c.key] = t.wire[c.key] \cup packets
      /\ \A k \in Keys : k # c.key => v.wire[k] = t.wire[k]
  <2>. DEFINE f == t.wire
              more == f[c.key] \cup packets
  <2>1. f = [k \in Keys |-> f[k]] /\ v.wire = [f EXCEPT ![c.key] = more]
    BY <1>1, <1>2 DEF Wired, Delivered
  <2>. HIDE DEF f, more
  <2>2. /\ Wired(v.wire) /\ v.wire[c.key] = more
        /\ \A k \in Keys : k # c.key => v.wire[k] = f[k]
    BY <1>3, <2>1 DEF Wired
  <2>. QED  BY <2>2 DEF f, more
<1>. QED  BY <1>3, <1>4, <1>5, <1>6

(* Every stream goes on, when that of the connection does.                 *)
LEMMA Carried ==
    ASSUME NEW t, NEW n, NEW i, Works(t, n, i),
           NEW v, NEW c, NEW u, NEW packets, Changed(t, v, i, c, u, packets)
    PROVE  Carries(t, v)
<1>. SUFFICES ASSUME NEW h, Flowing(t, h) PROVE Flowing(v, h)
  BY DEF Carries
<1>1. /\ c \in Conn /\ u \in Up
      /\ c.key = t.conns[i].key /\ c.dial = t.conns[i].dial
      /\ IF c.state = "Closed" THEN \A p \in packets : p.kind = "RST"
         ELSE Continues(t.conns[i], t.up[c.dial], c, u, packets)
  BY DEF Changed
<1>2. /\ Len(v.conns) = Len(t.conns) /\ v.conns[i] = c
      /\ \A j \in 1 .. Len(t.conns) : j # i => v.conns[j] = t.conns[j]
      /\ v.up[c.dial] = u /\ \A d \in Dials : d # c.dial => v.up[d] = t.up[d]
      /\ v.wire[c.key] = t.wire[c.key] \cup packets /\ c.key \in Keys
      /\ \A k \in Keys : k # c.key => v.wire[k] = t.wire[k]
  BY Changes
<1>3. /\ t.conns \in Seq(Conn) /\ i \in 1 .. Len(t.conns) /\ t.conns[i].state # "Closed"
      /\ \A j \in 1 .. Len(t.conns) : j # i =>
            t.conns[j].dial # c.dial /\ t.conns[j].key # c.key
  BY <1>1 DEF Works, Kept
<1>4. Streaming(t.conns[i], t.up[c.dial], t.wire[c.key], h[c.key])
  BY <1>1, <1>3 DEF Flowing
<1>5. c.state # "Closed" => Streaming(c, u, v.wire[c.key], h[c.key])
  BY <1>1, <1>2, <1>4 DEF Continues
<1>6. ASSUME NEW j \in 1 .. Len(v.conns), v.conns[j].state # "Closed"
      PROVE  Streaming(v.conns[j], v.up[v.conns[j].dial],
                       v.wire[v.conns[j].key], h[v.conns[j].key])
  <2>1. CASE j = i
    BY <1>2, <1>5, <1>6, <2>1
  <2>2. CASE j # i
    <3>1. v.conns[j] = t.conns[j] /\ j \in 1 .. Len(t.conns)
      BY <1>2, <2>2
    <3>2. t.conns[j].dial \in Dials /\ t.conns[j].key \in Keys
      BY <1>3, <3>1, ElementOfSeq, Fields
    <3>3. /\ v.up[t.conns[j].dial] = t.up[t.conns[j].dial]
          /\ v.wire[t.conns[j].key] = t.wire[t.conns[j].key]
      BY <1>2, <1>3, <2>2, <3>1, <3>2
    <3>4. Streaming(t.conns[j], t.up[t.conns[j].dial],
                    t.wire[t.conns[j].key], h[t.conns[j].key])
      BY <1>6, <3>1 DEF Flowing
    <3>. QED  BY <3>1, <3>3, <3>4
  <2>. QED  BY <2>1, <2>2
<1>7. ASSUME NEW k \in Keys
      PROVE  \E m \in 0 .. RelayBytes, fin \in BOOLEAN : Line(h[k], v.wire[k], m, fin)
  <2>1. PICK m \in 0 .. RelayBytes, fin \in BOOLEAN : Line(h[k], t.wire[k], m, fin)
    BY DEF Flowing
  <2>2. CASE k # c.key
    BY <1>2, <2>1, <2>2
  <2>3. CASE k = c.key /\ c.state # "Closed"
    <3>1. Line(h[k], v.wire[k], u.fed, c.fin_sent)
      BY <1>5, <2>3 DEF Streaming
    <3>2. u.fed \in 0 .. RelayBytes /\ c.fin_sent \in BOOLEAN
      BY <1>1 DEF Up, Conn
    <3>. QED  BY <3>1, <3>2
  <2>4. CASE k = c.key /\ c.state = "Closed"
    <3>1. \A p \in packets : Fits(p, m, fin)
      BY <1>1, <2>4 DEF Fits
    <3>2. v.wire[k] = t.wire[k] \cup packets
      BY <1>2, <2>4
    <3>3. Line(h[k], v.wire[k], m, fin)
      BY <2>1, <3>1, <3>2 DEF Line
    <3>. QED  BY <3>3
  <2>. QED  BY <2>2, <2>3, <2>4
<1>. QED  BY <1>6, <1>7 DEF Flowing

LEMMA Replaced ==
    ASSUME NEW t, NEW n, NEW i, Works(t, n, i),
           NEW v, NEW c, NEW u, NEW packets, Changed(t, v, i, c, u, packets)
    PROVE  Kept(v, n) /\ Alone(t, v, i) /\ v.conns[i] = c /\ v.up[c.dial] = u
<1>0. /\ Shaped(v) /\ c \in Conn /\ u \in Up
      /\ c.key = t.conns[i].key /\ c.dial = t.conns[i].dial /\ u.key = c.key
      /\ u.closes = IF c.state = "Closed" THEN 1 ELSE 0
      /\ v.conns = [t.conns EXCEPT ![i] = c] /\ v.up = [t.up EXCEPT ![c.dial] = u]
  BY DEF Changed
<1>1. /\ t.conns \in Seq(Conn) /\ Len(t.conns) \in Nat /\ DOMAIN t.conns = 1 .. Len(t.conns)
      /\ i \in 1 .. Len(t.conns) /\ t.conns[i].state # "Closed" /\ t.up \in [Dials -> Up]
  BY LenProperties DEF Works, Kept
<1>2. /\ v.conns \in Seq(Conn) /\ Len(v.conns) = Len(t.conns) /\ v.conns[i] = c
      /\ \A j \in 1 .. Len(t.conns) : j # i => v.conns[j] = t.conns[j]
  BY Changes
<1>3. c.dial \in Dials /\ v.up \in [Dials -> Up] /\ v.up[c.dial] = u
      /\ \A d \in Dials : d # c.dial => v.up[d] = t.up[d]
  BY Changes
<1>4. \A j \in 1 .. Len(v.conns) : /\ v.conns[j].dial = t.conns[j].dial
                                   /\ v.conns[j].key = t.conns[j].key
  BY <1>0, <1>2
<1>5. /\ \A j \in 1 .. Len(v.conns) : v.conns[j].dial <= n
      /\ \A j, k \in 1 .. Len(v.conns) : j # k =>
            v.conns[j].dial # v.conns[k].dial /\ v.conns[j].key # v.conns[k].key
  BY <1>0, <1>2, <1>4 DEF Works, Kept
<1>6. ASSUME NEW d \in Dials, d # c.dial
      PROVE  Holds(v, d) <=> Holds(t, d)
  BY <1>0, <1>1, <1>2, <1>4, <1>6 DEF Holds
<1>7. Holds(v, c.dial) <=> c.state # "Closed"
  <2>1. c.state # "Closed" => Holds(v, c.dial)
    BY <1>0, <1>1, <1>2 DEF Holds
  <2>2. \A j \in 1 .. Len(v.conns) : v.conns[j].dial = c.dial => j = i
    BY <1>0, <1>1, <1>2, <1>5
  <2>3. Holds(v, c.dial) => c.state # "Closed"
    BY <1>0, <1>2, <2>2 DEF Holds
  <2>. QED  BY <2>1, <2>3
<1>8. c.dial \in Nat /\ c.dial <= n
  BY <1>0, <1>1, <1>3, DialsAre DEF Works, Kept
<1>9. Holds(t, c.dial) /\ t.up[c.dial].closes = 0
  BY <1>0, <1>1, <1>3 DEF Works, Kept, Holds
<1>10. \A d \in Dials : v.up[d].closes = IF Holds(v, d) \/ d > n THEN 0 ELSE 1
  <2>1. ASSUME NEW d \in Dials
        PROVE  v.up[d].closes = IF Holds(v, d) \/ d > n THEN 0 ELSE 1
    <3>1. CASE d = c.dial
      <4>1. ~(c.dial > n)
        BY <1>0, <1>8 DEF Works, Kept
      <4>. QED  BY <1>0, <1>3, <1>7, <3>1, <4>1
    <3>2. CASE d # c.dial
      <4>1. v.up[d] = t.up[d] /\ (Holds(v, d) <=> Holds(t, d))
        BY <1>0, <1>3, <1>6, <3>2
      <4>. QED  BY <4>1 DEF Works, Kept
    <3>. QED  BY <3>1, <3>2
  <2>. QED  BY <2>1
<1>11. Onward(t, v)
  BY <1>0, <1>3, <1>9, Carried DEF Onward, Quiet
<1>12. ASSUME NEW j \in 1 .. Len(v.conns)
       PROVE  v.up[v.conns[j].dial].key = v.conns[j].key
  <2>1. CASE j = i
    BY <1>0, <1>2, <1>3, <2>1
  <2>2. CASE j # i
    <3>1. v.conns[j] = t.conns[j] /\ j \in 1 .. Len(t.conns)
      BY <1>2, <2>2
    <3>2. t.conns[j].dial \in Dials /\ t.conns[j].dial # c.dial
      BY <1>0, <1>1, <2>2, <3>1, ElementOfSeq, Fields DEF Works, Kept
    <3>. QED  BY <1>3, <3>1, <3>2 DEF Works, Kept
  <2>. QED  BY <2>1, <2>2
<1>13. \A d \in Dials : d > n => v.up[d].fed = 0
  <2>1. ~(c.dial > n)
    BY <1>0, <1>8 DEF Works, Kept
  <2>. QED  BY <1>3, <2>1 DEF Works, Kept
<1>14. Kept(v, n)
  <2>0. Wired(v.wire)
    BY Changes
  <2>1. n \in Nat /\ v = [conns |-> v.conns, wire |-> v.wire, up |-> v.up]
    BY <1>0 DEF Works, Kept, Shaped
  <2>. QED  BY <1>0, <1>2, <1>3, <1>5, <1>10, <1>12, <1>13, <2>0, <2>1 DEF Kept
<1>15. Alone(t, v, i)
  BY <1>0, <1>1, <1>2, <1>11 DEF Alone
<1>. QED  BY <1>0, <1>2, <1>3, <1>14, <1>15

(* What a live connection has at hand.                                     *)
LEMMA AtHand ==
    ASSUME NEW t, NEW n, NEW i, Works(t, n, i)
    PROVE  /\ Shaped(t) /\ t.conns \in Seq(Conn) /\ Len(t.conns) \in Nat
           /\ i \in 1 .. Len(t.conns) /\ t.conns[i] \in Conn
           /\ t.conns[i].dial \in Dials /\ t.conns[i].state # "Closed"
           /\ t.up \in [Dials -> Up] /\ t.up[t.conns[i].dial] \in Up
           /\ t.up[t.conns[i].dial].closes = 0
           /\ t.up[t.conns[i].dial].key = t.conns[i].key
           /\ Wired(t.wire)
<1>1. /\ Shaped(t) /\ t.conns \in Seq(Conn) /\ i \in 1 .. Len(t.conns)
      /\ t.conns[i].state # "Closed" /\ t.up \in [Dials -> Up]
      /\ \A d \in Dials : t.up[d].closes = IF Holds(t, d) \/ d > n THEN 0 ELSE 1
      /\ t.up[t.conns[i].dial].key = t.conns[i].key
      /\ Wired(t.wire)
  BY DEF Works, Kept, Shaped
<1>2. t.conns[i] \in Conn /\ Len(t.conns) \in Nat
  BY <1>1, ElementOfSeq, LenProperties
<1>3. t.conns[i].dial \in Dials
  BY <1>2, Fields
<1>4. Holds(t, t.conns[i].dial)
  BY <1>1 DEF Holds
<1>. QED  BY <1>1, <1>2, <1>3, <1>4

(* Connection i goes on.                                                   *)
Goes(t, u, n, i) == Works(u, n, i) /\ Alone(t, u, i)

LEMMA Stays ==
    ASSUME NEW t, NEW n, NEW i, Works(t, n, i)
    PROVE  Goes(t, t, n, i)
  BY DEF Goes, Alone, Onward, Quiet, Carries

LEMMA AloneThen ==
    ASSUME NEW t, NEW u, NEW v, NEW i, Alone(t, u, i), Alone(u, v, i)
    PROVE  Alone(t, v, i)
<1>1. Onward(t, v)
  BY DEF Alone, Onward, Quiet, Carries
<1>. QED  BY <1>1 DEF Alone

LEMMA GoesThen ==
    ASSUME NEW t, NEW u, NEW v, NEW n, NEW i, Goes(t, u, n, i), Goes(u, v, n, i)
    PROVE  Goes(t, v, n, i)
  BY AloneThen DEF Goes

(* What comes from the client and goes to its relay rests where it is: a   *)
(* connection, a relay, all of the table, all that is left of the table.   *)
Still(c, d) ==
    /\ d.key = c.key /\ d.dial = c.dial /\ d.receive_next = c.receive_next
    /\ d.inbound_closed = c.inbound_closed
    /\ d.upstream_connected = c.upstream_connected
    /\ c.handshake_complete => d.handshake_complete
    /\ d.state # "Closed" =>
          c.state # "Closed" /\ d.pending_for_upstream = c.pending_for_upstream

Heeds(u, v) == /\ v.key = u.key /\ v.sent = u.sent /\ v.eof = u.eof
               /\ v.phase = "none" <=> u.phase = "none"

Rests(t, u) ==
    /\ Len(u.conns) = Len(t.conns)
    /\ \A j \in 1 .. Len(t.conns) : Still(t.conns[j], u.conns[j])
    /\ \A d \in Dials : Heeds(t.up[d], u.up[d])

Remains(t, u) ==
    /\ \A j \in 1 .. Len(u.conns) :
          \E i \in 1 .. Len(t.conns) : Still(t.conns[i], u.conns[j])
    /\ \A d \in Dials : Heeds(t.up[d], u.up[d])

LEMMA RestsSelf == \A t : Rests(t, t)
  BY DEF Rests, Still, Heeds

LEMMA StillThen ==
    ASSUME NEW c, NEW d, NEW e, Still(c, d), Still(d, e)
    PROVE  Still(c, e)
  BY DEF Still

LEMMA HeedsThen ==
    ASSUME NEW u, NEW v, NEW w, Heeds(u, v), Heeds(v, w)
    PROVE  Heeds(u, w)
  BY DEF Heeds

LEMMA RestsThen ==
    ASSUME NEW t, NEW u, NEW v, Rests(t, u), Rests(u, v)
    PROVE  Rests(t, v)
<1>1. \A j \in 1 .. Len(t.conns) : Still(t.conns[j], v.conns[j])
  BY StillThen DEF Rests
<1>2. \A d \in Dials : Heeds(t.up[d], v.up[d])
  BY HeedsThen DEF Rests
<1>. QED  BY <1>1, <1>2 DEF Rests

LEMMA RemainsThen ==
    ASSUME NEW t, NEW u, NEW v, Rests(t, u) \/ Remains(t, u), Remains(u, v)
    PROVE  Remains(t, v)
<1>1. ASSUME NEW j \in 1 .. Len(v.conns)
      PROVE  \E i \in 1 .. Len(t.conns) : Still(t.conns[i], v.conns[j])
  <2>1. PICK k \in 1 .. Len(u.conns) : Still(u.conns[k], v.conns[j])
    BY DEF Remains
  <2>2. PICK i \in 1 .. Len(t.conns) : Still(t.conns[i], u.conns[k])
    BY DEF Remains, Rests
  <2>. QED  BY <2>1, <2>2, StillThen
<1>2. \A d \in Dials : Heeds(t.up[d], v.up[d])
  BY HeedsThen DEF Remains, Rests
<1>. QED  BY <1>1, <1>2 DEF Remains

LEMMA RestsRemains ==
    ASSUME NEW t, NEW u, Rests(t, u)
    PROVE  Remains(t, u)
  BY DEF Rests, Remains

LEMMA StillFields ==
    ASSUME NEW c \in Conn, c.state # "Closed"
    PROVE  /\ Still(c, c)
           /\ \A w : Still(c, [c EXCEPT !.peer_window = w])
           /\ \A q : Still(c, [c EXCEPT !.send_queue = q])
           /\ \A b : Still(c, [c EXCEPT !.upstream_paused = b])
           /\ \A b : Still(c, [c EXCEPT !.upstream_done = b])
           /\ \A n : Still(c, [c EXCEPT !.retransmits = n])
           /\ \A z : Still(c, [c EXCEPT !.state = z])
           /\ \A q, n : Still(c, [c EXCEPT !.fin_sent = TRUE, !.unacknowledged = q,
                                          !.send_next = n])
  BY DEF Still, Conn

LEMMA StillFlushed ==
    ASSUME NEW c \in Conn, c.state # "Closed"
    PROVE  Still(c, Flushed(c))
<1>. DEFINE kept == c.unacknowledged \o Segmented(c)
            next == sequence_add(c.send_next, Sendable(c))
            rest == Unsent(c)
            p == c.upstream_paused /\ ~Resumes(c)
            a == kept # <<>>
<1>1. Flushed(c) = [c EXCEPT !.unacknowledged = kept, !.send_next = next,
                             !.send_queue = rest, !.upstream_paused = p,
                             !.retransmit_armed = a]
  BY DEF Flushed
<1>. HIDE DEF kept, next, rest, p, a
<1>. QED  BY <1>1 DEF Still, Conn

LEMMA StillReleased ==
    ASSUME NEW c \in Conn, c.state # "Closed", NEW ack
    PROVE  Still(c, Released(c, ack))
<1>. DEFINE n == Covered(c, ack)
            rest == SubSeq(c.unacknowledged, n + 1, Len(c.unacknowledged))
            last == c.unacknowledged[n]
            una == IF n = 0 THEN c.send_unacknowledged
                   ELSE sequence_add(last.seq, last.length)
            h == c.handshake_complete
                   \/ sequence_difference(una, sequence_add(OurISS, 1)) >= 0
            r == IF n > 0 THEN 0 ELSE c.retransmits
<1>1. Released(c, ack) = [c EXCEPT !.unacknowledged = rest,
                                   !.send_unacknowledged = una,
                                   !.retransmits = r, !.handshake_complete = h]
  BY DEF Released
<1>2. c.handshake_complete => h
  OBVIOUS
<1>. HIDE DEF rest, una, r, h
<1>. QED  BY <1>1, <1>2 DEF Still, Conn

LEMMA StillDisposed ==
    ASSUME NEW c \in Conn
    PROVE  Still(c, Disposed(c))
  BY DEF Still, Disposed, Conn

(* The relay stays that of the client, is not released, and the stream     *)
(* goes on.                                                                *)
Onto(c, u, d, v, packets) ==
    v.closes = u.closes /\ v.key = u.key /\ Continues(c, u, d, v, packets)

LEMMA UpdateGoes ==
    ASSUME NEW t, NEW n, NEW i, Works(t, n, i), NEW c, Same(t.conns[i], c),
           NEW packets, NEW u \in Up, Onto(t.conns[i], t.up[t.conns[i].dial], c, u, packets)
    PROVE  LET v == Update(t, i, c, packets, u)
           IN  /\ Goes(t, v, n, i) /\ v.conns[i] = c /\ v.up[c.dial] = u
               /\ \A d \in Dials : d # c.dial => v.up[d] = t.up[d]
               /\ Still(t.conns[i], c) /\ Heeds(t.up[c.dial], u) => Rests(t, v)
<1>. DEFINE v == Update(t, i, c, packets, u)
<1>1. Became(v, t, i, c, packets, u)
  BY UpdateParts
<1>. HIDE DEF v
<1>2. /\ c \in Conn /\ c.key = t.conns[i].key /\ c.dial = t.conns[i].dial
      /\ c.state # "Closed" /\ u.closes = 0 /\ u.key = c.key
      /\ Continues(t.conns[i], t.up[t.conns[i].dial], c, u, packets)
  <2>1. /\ t.conns[i].state # "Closed" /\ t.up[t.conns[i].dial].closes = 0
        /\ t.up[t.conns[i].dial].key = t.conns[i].key
    BY AtHand
  <2>. QED  BY <2>1 DEF Same, Onto
<1>5. Changed(t, v, i, c, u, packets)
  BY <1>1, <1>2 DEF Changed, Became
<1>3. Kept(v, n) /\ Alone(t, v, i) /\ v.conns[i] = c /\ v.up[c.dial] = u
  BY <1>5, Replaced
<1>4. Works(v, n, i)
  BY <1>2, <1>3 DEF Works, Alone
<1>6. \A d \in Dials : d # c.dial => v.up[d] = t.up[d]
  BY <1>5, Changes
<1>7. Still(t.conns[i], c) /\ Heeds(t.up[c.dial], u) => Rests(t, v)
  <2>1. \A j \in 1 .. Len(t.conns) : j # i => Still(t.conns[j], v.conns[j])
    BY <1>3 DEF Alone, Still
  <2>2. \A d \in Dials : d # c.dial => Heeds(t.up[d], v.up[d])
    BY <1>6 DEF Heeds
  <2>. QED  BY <1>3, <2>1, <2>2 DEF Rests, Alone
<1>. QED  BY <1>3, <1>4, <1>6, <1>7 DEF Goes, v

LEMMA PutGoes ==
    ASSUME NEW t, NEW n, NEW i, Works(t, n, i), NEW c, Same(t.conns[i], c),
           Continues(t.conns[i], t.up[t.conns[i].dial], c, t.up[t.conns[i].dial], {})
    PROVE  LET v == Put(t, i, c)
           IN  /\ Goes(t, v, n, i) /\ v.conns[i] = c /\ v.up = t.up
               /\ Still(t.conns[i], c) => Rests(t, v)
<1>11. /\ t.up[t.conns[i].dial] \in Up /\ t.up[t.conns[i].dial].closes = 0
       /\ t.up[t.conns[i].dial].key = t.conns[i].key
       /\ t.up \in [Dials -> Up] /\ t.conns[i].dial \in Dials
  BY AtHand
<1>. DEFINE v == Put(t, i, c)
<1>9. Shaped(t)
  BY DEF Works, Kept, Shaped
<1>10. Stored(v, t, i, c)
  BY <1>9, PutParts
<1>. HIDE DEF v
<1>1. Shaped(v) /\ v.conns = [t.conns EXCEPT ![i] = c] /\ v.up = t.up
      /\ v.wire = t.wire
  BY <1>10 DEF Stored
<1>. DEFINE u == t.up[t.conns[i].dial]
<1>2. u \in Up /\ u.closes = 0 /\ v.up = [t.up EXCEPT ![t.conns[i].dial] = u]
      /\ u.key = t.conns[i].key
  <2>1. u \in Up /\ u.closes = 0 /\ u.key = t.conns[i].key
        /\ t.up \in [Dials -> Up] /\ t.conns[i].dial \in Dials
    BY <1>11
  <2>2. t.up = [t.up EXCEPT ![t.conns[i].dial] = u]
    <3>. DEFINE f == t.up
    <3>. HIDE DEF f
    <3>1. f = [f EXCEPT ![t.conns[i].dial] = f[t.conns[i].dial]]
      BY <2>1 DEF f
    <3>. QED  BY <3>1 DEF f
  <2>. QED  BY <1>1, <2>1, <2>2
<1>0. v.wire = Delivered(t.wire, t.conns[i].key, {})
  <2>1. t.wire = [k \in Keys |-> t.wire[k]]
    BY AtHand DEF Wired
  <2>. DEFINE f == t.wire
              k == t.conns[i].key
  <2>. HIDE DEF f, k
  <2>2. f = [f EXCEPT ![k] = @ \cup {}]
    BY <2>1 DEF f
  <2>. QED  BY <1>1, <2>2 DEF f, k, Delivered
<1>. HIDE DEF v
<1>3. /\ c \in Conn /\ c.key = t.conns[i].key /\ c.dial = t.conns[i].dial
      /\ c.state # "Closed"
  BY AtHand DEF Same
<1>4. Kept(v, n) /\ Alone(t, v, i) /\ v.conns[i] = c
  <2>1. Changed(t, v, i, c, u, {})
    <3>1. Continues(t.conns[i], t.up[c.dial], c, u, {})
      BY <1>3
    <3>. HIDE DEF u
    <3>. QED  BY <1>0, <1>1, <1>2, <1>3, <3>1 DEF Changed
  <2>. QED  BY <2>1, Replaced
<1>5. Works(v, n, i)
  BY <1>3, <1>4 DEF Works, Alone
<1>6. Still(t.conns[i], c) => Rests(t, v)
  BY <1>1, <1>4 DEF Rests, Alone, Still, Heeds
<1>. QED  BY <1>1, <1>4, <1>5, <1>6 DEF Goes, v

LEMMA FinishGoes ==
    ASSUME NEW t, NEW n, NEW i, Works(t, n, i)
    PROVE  Goes(t, maybe_finish(t, i), n, i) /\ Rests(t, maybe_finish(t, i))
<1>. DEFINE c == t.conns[i]
            s == [kind |-> "FIN", seq |-> c.send_next, payload |-> <<>>, length |-> 1]
            next == sequence_add(c.send_next, 1)
            d == [c EXCEPT !.fin_sent = TRUE, !.unacknowledged = <<s>>, !.send_next = next]
            packets == {Packet("FIN", c.send_next, <<>>)}
            u == t.up[c.dial]
            m == [c EXCEPT !.fin_sent = TRUE]
            p == Put(t, i, m)
            sent == [p.conns[i] EXCEPT !.unacknowledged = Append(@, s),
                                       !.send_next = IF "FIN" = "SYNACK" THEN @
                                                     ELSE sequence_add(@, 1)]
            e == emit(p, i, "FIN", c.send_next, <<>>, 1)
            v == Update(t, i, d, packets, u)
<1>1. /\ c \in Conn /\ u \in Up /\ i \in 1 .. Len(t.conns) /\ t.conns \in Seq(Conn)
      /\ Shaped(t) /\ t.conns = [j \in 1 .. Len(t.conns) |-> t.conns[j]]
  <2>1. /\ c \in Conn /\ u \in Up /\ i \in 1 .. Len(t.conns) /\ t.conns \in Seq(Conn)
        /\ Shaped(t)
    BY AtHand
  <2>. HIDE DEF c, u
  <2>. QED  BY <2>1, LenProperties
<1>. SUFFICES ASSUME c.unacknowledged = <<>>, c.send_queue = <<>>, c.upstream_done,
                     ~c.fin_sent
              PROVE  Goes(t, e, n, i) /\ Rests(t, e)
  <2>1. \/ /\ maybe_finish(t, i) = e /\ ~c.fin_sent
           /\ c.upstream_done /\ c.unacknowledged = <<>> /\ c.send_queue = <<>>
        \/ maybe_finish(t, i) = t
    BY DEF maybe_finish, Drained
  <2>. QED  BY <2>1, Stays, RestsSelf
<1>2. /\ p.conns = [t.conns EXCEPT ![i] = m] /\ p.up = t.up /\ p.wire = t.wire
      /\ p.conns[i] = m
  <2>. HIDE DEF m, c
  <2>1. p.conns = [t.conns EXCEPT ![i] = m] /\ p.up = t.up /\ p.wire = t.wire
    BY <1>1, PutParts DEF Stored
  <2>. HIDE DEF p
  <2>. QED  BY <1>1, <2>1
<1>3. sent = d /\ m.key = c.key /\ m.dial = c.dial
  <2>. HIDE DEF p, c, s, next
  <2>1. /\ m.unacknowledged = <<>> /\ m.send_next = c.send_next
        /\ m.key = c.key /\ m.dial = c.dial /\ c.unacknowledged = <<>>
    BY <1>1 DEF Conn
  <2>2. Append(m.unacknowledged, s) = <<s>>
    <3>1. Append(<<>>, s) = <<s>>
      OBVIOUS
    <3>. QED  BY <2>1, <3>1
  <2>3. sent = [m EXCEPT !.unacknowledged = Append(m.unacknowledged, s),
                         !.send_next = sequence_add(m.send_next, 1)]
    BY <1>2
  <2>4. sent = [m EXCEPT !.unacknowledged = <<s>>, !.send_next = next]
    BY <2>1, <2>2, <2>3 DEF next
  <2>. HIDE DEF sent
  <2>5. sent = d
    BY <1>1, <2>4 DEF Conn
  <2>. QED  BY <2>1, <2>5
<1>4. e = Update(p, i, sent, packets, p.up[m.dial])
  <2>. HIDE DEF p, c, m
  <2>. QED  BY <1>2 DEF emit
<1>5. e = v
  <2>. HIDE DEF p, m, sent, packets, d, e, v, u
  <2>1. e = [conns |-> [p.conns EXCEPT ![i] = d],
             wire |-> [t.wire EXCEPT ![c.key] = @ \cup packets],
             up |-> [t.up EXCEPT ![c.dial] = u]]
    BY <1>2, <1>3, <1>4 DEF Update, u
  <2>2. [p.conns EXCEPT ![i] = d] = [t.conns EXCEPT ![i] = d]
    BY <1>1, <1>2
  <2>. QED  BY <2>1, <2>2 DEF Update, v
<1>6. Continues(c, u, d, u, packets)
  BY <1>1, FinContinues DEF Drained
<1>7. Same(c, d)
  <2>1. s \in Unacknowledged /\ next \in Space
    <3>1. c.send_next \in Space /\ c.send_next \in Int
      <4>1. c \in Conn
        BY <1>1
      <4>. HIDE DEF c
      <4>. QED  BY <4>1, Fields DEF Conn
    <3>2. <<>> \in Bytes
      BY DEF Bytes
    <3>3. next \in Space
      BY <3>1, AddInSpace
    <3>. HIDE DEF c
    <3>4. s \in Unacknowledged
      BY <3>1, <3>2 DEF Unacknowledged
    <3>. QED  BY <3>3, <3>4
  <2>. HIDE DEF s, next, c
  <2>2. <<s>> \in Seq(Unacknowledged)
    BY <2>1
  <2>. DEFINE q == <<s>>
  <2>. HIDE DEF q
  <2>3. d = [c EXCEPT !.fin_sent = TRUE, !.unacknowledged = q, !.send_next = next]
        /\ q \in Seq(Unacknowledged)
    BY <2>2 DEF q
  <2>. HIDE DEF d
  <2>. QED  BY <1>1, <2>1, <2>3 DEF Same, Conn
<1>10. Still(c, d) /\ Heeds(u, u)
  <2>1. c.state # "Closed" /\ c \in Conn
    BY <1>1, AtHand
  <2>. HIDE DEF c, s, next, u
  <2>2. Still(c, d)
    BY <2>1, StillFields
  <2>. QED  BY <2>2 DEF Heeds
<1>. HIDE DEF d, packets
<1>8. Onto(c, u, d, u, packets)
  BY <1>6 DEF Onto
<1>9. Goes(t, v, n, i) /\ Rests(t, v)
  <2>1. d.dial = c.dial
    BY <1>7 DEF Same
  <2>2. Goes(t, v, n, i) /\ (Still(c, d) /\ Heeds(t.up[d.dial], u) => Rests(t, v))
    BY <1>1, <1>7, <1>8, UpdateGoes
  <2>. HIDE DEF v, c
  <2>3. Heeds(t.up[d.dial], u)
    BY <1>10, <2>1
  <2>. QED  BY <1>10, <2>2, <2>3
<1>. QED  BY <1>5, <1>9

LEMMA FlushGoes ==
    ASSUME NEW t, NEW n, NEW i, Works(t, n, i)
    PROVE  Goes(t, flush(t, i), n, i) /\ Rests(t, flush(t, i))
<1>. SUFFICES ASSUME t.conns[i].handshake_complete
              PROVE  Goes(t, flush(t, i), n, i) /\ Rests(t, flush(t, i))
  BY Stays, RestsSelf DEF flush
<1>. DEFINE c == t.conns[i]
            new == Segmented(c)
            packets == {Packet("DATA", new[j].seq, new[j].payload) : j \in DOMAIN new}
            u == [t.up[c.dial] EXCEPT !.paused = @ /\ ~Resumes(c)]
            sent == Update(t, i, Flushed(c), packets, u)
<1>1. Same(c, Flushed(c))
  BY AtHand, FlushedTyped
<1>2. u \in Up /\ Onto(c, t.up[c.dial], Flushed(c), u, packets)
      /\ Heeds(t.up[c.dial], u)
  <2>. DEFINE p == t.up[c.dial].paused /\ ~Resumes(c)
              was == t.up[c.dial]
              now == [was EXCEPT !.paused = p]
  <2>1. was \in Up /\ p \in BOOLEAN /\ c \in Conn
    BY AtHand
  <2>2. packets = Sent(c)
    BY DEF Sent
  <2>. HIDE DEF p, was, c, packets
  <2>3. /\ now \in Up /\ now.closes = was.closes /\ now.key = was.key
        /\ now.fed = was.fed /\ now.phase = was.phase /\ Heeds(was, now)
    BY <2>1 DEF Up, Heeds
  <2>. HIDE DEF now
  <2>5. c.handshake_complete
    BY DEF c
  <2>4. Onto(c, was, Flushed(c), now, packets)
    BY <2>1, <2>2, <2>3, <2>5, FlushedContinues DEF Onto
  <2>. QED  BY <2>3, <2>4 DEF p, was, now
<1>. HIDE DEF u, packets
<1>3. Goes(t, sent, n, i) /\ Rests(t, sent)
  <2>1. Still(c, Flushed(c)) /\ Flushed(c).dial = c.dial
    BY <1>1, AtHand, StillFlushed DEF Same
  <2>. QED  BY <1>1, <1>2, <2>1, UpdateGoes
<1>. HIDE DEF sent
<1>4. Goes(t, maybe_finish(sent, i), n, i) /\ Rests(t, maybe_finish(sent, i))
  <2>1. Works(sent, n, i)
    BY <1>3 DEF Goes
  <2>2. Goes(sent, maybe_finish(sent, i), n, i) /\ Rests(sent, maybe_finish(sent, i))
    BY <2>1, FinishGoes
  <2>. QED  BY <1>3, <2>2, GoesThen, RestsThen
<1>5. flush(t, i) \in {t, sent, maybe_finish(sent, i)}
  BY DEF flush, sent, u, packets
<1>. QED  BY <1>3, <1>4, <1>5, Stays, RestsSelf

LEMMA ReleaseGoes ==
    ASSUME NEW t, NEW n, NEW i, Works(t, n, i), NEW ack
    PROVE  /\ Goes(t, release(t, i, ack), n, i) /\ Rests(t, release(t, i, ack))
           /\ release(t, i, ack).conns[i] = Released(t.conns[i], ack)
<1>1. Same(t.conns[i], Released(t.conns[i], ack))
  BY AtHand, ReleasedTyped
<1>2. Continues(t.conns[i], t.up[t.conns[i].dial], Released(t.conns[i], ack),
                t.up[t.conns[i].dial], {})
  BY AtHand, ReleasedContinues
<1>3. Still(t.conns[i], Released(t.conns[i], ack))
  BY AtHand, StillReleased
<1>. QED  BY <1>1, <1>2, <1>3, PutGoes DEF release

(* What the local stack may send.                                          *)
Legal(seg) == /\ seg.key \in Keys /\ seg.window \in Windows
              /\ seg.seq \in Int /\ seg.payload \in Bytes

(* The payload of a segment, on its own.                                   *)
Halfway(c, u, d, v, seg) ==
    LET fresh == Fresh(sequence_difference(seg.seq, c.receive_next), seg.payload)
    IN  /\ d.receive_next = sequence_add(c.receive_next, Len(fresh))
        /\ d.inbound_closed = c.inbound_closed
        /\ d.upstream_connected = c.upstream_connected
        /\ d.pending_for_upstream = IF c.upstream_connected THEN c.pending_for_upstream
                                    ELSE c.pending_for_upstream \o fresh
        /\ d.key = c.key /\ d.dial = c.dial /\ v.key = u.key
        /\ v.phase = u.phase /\ v.eof = u.eof
        /\ v.sent = IF c.upstream_connected THEN u.sent \o fresh ELSE u.sent

(* It is all that connection i and its relay take of it.                   *)
Paid(t, v, i, seg) ==
    /\ Halfway(t.conns[i], t.up[t.conns[i].dial], v.conns[i], v.up[t.conns[i].dial], seg)
    /\ \A d \in Dials : d # t.conns[i].dial => v.up[d] = t.up[d]

(* And the FIN.                                                            *)
Ended(t, v, i) ==
    LET c == t.conns[i]
    IN  /\ v.conns[i] = Finished(c)
        /\ v.up[c.dial] = [t.up[c.dial] EXCEPT
                              !.eof = @ \/ (~c.inbound_closed /\ c.upstream_connected)]
        /\ \A d \in Dials : d # c.dial => v.up[d] = t.up[d]

(* What a connection and its relay make of a segment: of the payload what  *)
(* is not held yet, if it begins no later, and of the FIN.                 *)
Accepts(c, u, d, v, seg) ==
    LET fresh == Fresh(sequence_difference(seg.seq, c.receive_next), seg.payload)
    IN  /\ d.receive_next = sequence_add(c.receive_next,
                                         Len(fresh) + IF seg.fin THEN 1 ELSE 0)
        /\ d.inbound_closed <=> c.inbound_closed \/ seg.fin
        /\ d.pending_for_upstream = IF c.upstream_connected THEN c.pending_for_upstream
                                    ELSE c.pending_for_upstream \o fresh
        /\ v.sent = IF c.upstream_connected THEN u.sent \o fresh ELSE u.sent
        /\ v.eof <=> u.eof \/ (seg.fin /\ ~c.inbound_closed /\ c.upstream_connected)
        /\ d.upstream_connected = c.upstream_connected
        /\ d.key = c.key /\ d.dial = c.dial /\ v.key = u.key
        /\ v.phase = "none" <=> u.phase = "none"

(* One operation on connection i that accepts a segment for it.            *)
Takes(t, u, i, seg) ==
    /\ Len(u.conns) = Len(t.conns) /\ i \in 1 .. Len(t.conns)
    /\ Accepts(t.conns[i], t.up[t.conns[i].dial],
               u.conns[i], u.up[t.conns[i].dial], seg)
    /\ \A j \in 1 .. Len(t.conns) : j # i => Still(t.conns[j], u.conns[j])
    /\ \A d \in Dials : d # t.conns[i].dial => Heeds(t.up[d], u.up[d])

LEMMA PayloadGoes ==
    ASSUME NEW t, NEW n, NEW i, Works(t, n, i), NEW seg, Legal(seg)
    PROVE  LET v == accept_payload(t, i, seg.seq, seg.payload)
           IN  Goes(t, v, n, i) /\ Paid(t, v, i, seg)
<1>. DEFINE c == t.conns[i]
            fresh == Fresh(sequence_difference(seg.seq, c.receive_next), seg.payload)
            was == t.up[c.dial]
            u == [was EXCEPT !.sent = IF c.upstream_connected THEN @ \o fresh ELSE @]
<1>1. fresh \in Bytes
  <2>1. sequence_difference(seg.seq, c.receive_next) \in Int
    BY AtHand, Fields, DifferenceIsInt DEF Legal
  <2>. QED  BY <2>1, FreshTyped DEF Legal
<1>. HIDE DEF fresh
<1>2. Same(c, Received(c, fresh))
  BY <1>1, AtHand, ReceivedTyped
<1>3. u \in Up /\ Onto(c, was, Received(c, fresh), u, {})
  <2>1. was \in Up /\ was.sent \in Bytes /\ c \in Conn
    BY AtHand DEF Up
  <2>2. was.sent \o fresh \in Bytes
    BY <1>1, <2>1, ByteJoin
  <2>. HIDE DEF was, c
  <2>3. /\ u \in Up /\ u.closes = was.closes /\ u.key = was.key
        /\ u.fed = was.fed /\ u.phase = was.phase
    BY <2>1, <2>2 DEF Up
  <2>. HIDE DEF u
  <2>4. Alike(c, was, Received(c, fresh), u)
    <3>. DEFINE r == sequence_add(c.receive_next, Len(fresh))
                q == IF c.upstream_connected THEN c.pending_for_upstream
                     ELSE c.pending_for_upstream \o fresh
    <3>1. Received(c, fresh) = [c EXCEPT !.receive_next = r, !.pending_for_upstream = q]
      BY DEF Received
    <3>. HIDE DEF r, q
    <3>2. Alike(c, was, [c EXCEPT !.receive_next = r, !.pending_for_upstream = q], u)
      BY <2>1, <2>3, AlikeKept
    <3>. QED  BY <3>1, <3>2
  <2>. QED  BY <2>3, <2>4, AlikeContinues DEF Onto
<1>4. accept_payload(t, i, seg.seq, seg.payload) = Update(t, i, Received(c, fresh), {}, u)
  BY DEF accept_payload, fresh
<1>. HIDE DEF u
<1>. DEFINE v == Update(t, i, Received(c, fresh), {}, u)
<1>5. /\ Goes(t, v, n, i) /\ v.conns[i] = Received(c, fresh) /\ v.up[c.dial] = u
      /\ \A d \in Dials : d # c.dial => v.up[d] = t.up[d]
  <2>1. Received(c, fresh).dial = c.dial
    BY <1>2 DEF Same
  <2>. QED  BY <1>2, <1>3, <2>1, UpdateGoes
<1>. HIDE DEF v
<1>6. Halfway(c, was, v.conns[i], v.up[c.dial], seg)
  <2>1. c \in Conn /\ was \in Up /\ v.conns[i] = Received(c, fresh)
        /\ v.up[c.dial] = [was EXCEPT !.sent =
                              IF c.upstream_connected THEN @ \o fresh ELSE @]
    BY <1>5, AtHand DEF u
  <2>. HIDE DEF c, was
  <2>. QED  BY <2>1 DEF Halfway, Received, Conn, Up, fresh
<1>. QED  BY <1>4, <1>5, <1>6 DEF v, Paid

LEMMA FinGoes ==
    ASSUME NEW t, NEW n, NEW i, Works(t, n, i)
    PROVE  Goes(t, accept_fin(t, i), n, i) /\ Ended(t, accept_fin(t, i), i)
<1>. DEFINE c == t.conns[i]
            was == t.up[c.dial]
            u == [was EXCEPT !.eof = @ \/ (~c.inbound_closed /\ c.upstream_connected)]
<1>1. Same(c, Finished(c))
  BY AtHand, FinishedTyped
<1>2. u \in Up /\ Onto(c, was, Finished(c), u, {})
  <2>. DEFINE e == was.eof \/ (~c.inbound_closed /\ c.upstream_connected)
              now == [was EXCEPT !.eof = e]
  <2>1. was \in Up /\ e \in BOOLEAN /\ c \in Conn
    BY AtHand
  <2>. HIDE DEF e, was, c
  <2>2. /\ now \in Up /\ now.closes = was.closes /\ now.key = was.key
        /\ now.fed = was.fed /\ now.phase = was.phase
    BY <2>1 DEF Up
  <2>. HIDE DEF now
  <2>3. Alike(c, was, Finished(c), now)
    <3>. DEFINE r == sequence_add(c.receive_next, 1)
                z == IF c.state = "Established" THEN "InboundClosed" ELSE c.state
    <3>1. Finished(c) = [c EXCEPT !.receive_next = r, !.inbound_closed = TRUE, !.state = z]
      BY DEF Finished
    <3>. HIDE DEF r, z
    <3>2. Alike(c, was, [c EXCEPT !.receive_next = r, !.inbound_closed = TRUE,
                                  !.state = z], now)
      BY <2>1, <2>2, AlikeKept
    <3>. QED  BY <3>1, <3>2
  <2>4. Onto(c, was, Finished(c), now, {})
    BY <2>2, <2>3, AlikeContinues DEF Onto
  <2>. QED  BY <2>2, <2>4 DEF e, was, now
<1>3. accept_fin(t, i) = Update(t, i, Finished(c), {}, u)
  BY DEF accept_fin
<1>. HIDE DEF u
<1>. DEFINE v == Update(t, i, Finished(c), {}, u)
<1>4. /\ Goes(t, v, n, i) /\ v.conns[i] = Finished(c) /\ v.up[c.dial] = u
      /\ \A d \in Dials : d # c.dial => v.up[d] = t.up[d]
  <2>1. Finished(c).dial = c.dial
    BY <1>1 DEF Same
  <2>. QED  BY <1>1, <1>2, <2>1, UpdateGoes
<1>. HIDE DEF v
<1>. QED  BY <1>3, <1>4 DEF v, u, Ended

LEMMA RetransmitGoes ==
    ASSUME NEW t, NEW n, NEW i, Works(t, n, i), t.conns[i].retransmits < MaxRetransmits
    PROVE  Goes(t, Retransmit(t, i), n, i) /\ Rests(t, Retransmit(t, i))
<1>. DEFINE c == t.conns[i]
            u == t.up[c.dial]
            d == [c EXCEPT !.retransmits = @ + 1]
<1>1. c \in Conn /\ c.state # "Closed" /\ u \in Up /\ Same(c, d)
  BY AtHand, RetransmitsKept
<1>2. Onto(c, u, d, u, Oldest(c))
  BY <1>1, RetransmitContinues DEF Onto
<1>3. Still(c, d) /\ Heeds(u, u)
  BY <1>1, StillFields DEF Heeds
<1>4. Retransmit(t, i) = Update(t, i, d, Oldest(c), u) /\ d.dial = c.dial
  BY <1>1 DEF Retransmit, Same
<1>. HIDE DEF d, u
<1>. DEFINE v == Update(t, i, d, Oldest(c), u)
<1>5. Heeds(t.up[d.dial], u) /\ t.up[c.dial] = u
  BY <1>3, <1>4 DEF u
<1>6. Goes(t, v, n, i) /\ (Still(c, d) /\ Heeds(t.up[d.dial], u) => Rests(t, v))
  BY <1>1, <1>2, <1>5, UpdateGoes
<1>. HIDE DEF v
<1>. QED  BY <1>3, <1>4, <1>5, <1>6 DEF v

(* The relay of a connection that is disposed of is told so, once.         *)
LEMMA DisposeKeeps ==
    ASSUME NEW t, NEW n, NEW i, Works(t, n, i), NEW reset
    PROVE  /\ Kept(dispose(t, i, reset), n) /\ Alone(t, dispose(t, i, reset), i)
           /\ Rests(t, dispose(t, i, reset))
           /\ dispose(t, i, reset).conns[i].state = "Closed"
<1>. DEFINE c == t.conns[i]
            rst == IF reset THEN {Packet("RST", c.send_next, <<>>)} ELSE {}
            was == t.up[c.dial]
            u == [was EXCEPT !.closes = @ + 1]
            v == Update(t, i, Disposed(c), rst, u)
<1>1. /\ Disposed(c) \in Conn /\ Disposed(c).state = "Closed"
      /\ Disposed(c).key = c.key /\ Disposed(c).dial = c.dial
  BY AtHand, DisposedTyped
<1>2. u \in Up /\ u.closes = 1 /\ u.key = c.key /\ Heeds(was, u)
  <2>1. was \in Up /\ was.closes = 0 /\ was.key = c.key
    BY AtHand
  <2>. HIDE DEF was, c
  <2>. QED  BY <2>1 DEF Up, Heeds
<1>3. dispose(t, i, reset) = v
  BY AtHand DEF dispose
<1>0. \A p \in rst : p.kind = "RST"
  BY DEF Packet
<1>. HIDE DEF u, rst
<1>4. Became(v, t, i, Disposed(c), rst, u)
  BY UpdateParts
<1>. HIDE DEF v
<1>5. Changed(t, v, i, Disposed(c), u, rst)
  BY <1>0, <1>1, <1>2, <1>4 DEF Changed, Became
<1>6. Kept(v, n) /\ Alone(t, v, i) /\ v.conns[i] = Disposed(c) /\ v.up[c.dial] = u
  BY <1>1, <1>5, Replaced
<1>7. Rests(t, v)
  <2>1. \A d \in Dials : d # c.dial => v.up[d] = t.up[d]
    BY <1>1, <1>5, Changes
  <2>2. \A d \in Dials : Heeds(t.up[d], v.up[d])
    BY <1>2, <1>6, <2>1 DEF Heeds
  <2>3. Still(c, Disposed(c))
    BY AtHand, StillDisposed
  <2>4. \A j \in 1 .. Len(t.conns) : Still(t.conns[j], v.conns[j])
    BY <1>6, <2>3 DEF Alone, Still
  <2>. QED  BY <1>6, <2>2, <2>4 DEF Rests, Alone
<1>. QED  BY <1>1, <1>3, <1>6, <1>7

(* All of the table is live.                                               *)
Whole(t, n) == Kept(t, n) /\ \A i \in 1 .. Len(t.conns) : t.conns[i].state # "Closed"

LEMMA RetainWhole ==
    ASSUME NEW t, NEW n, Kept(t, n)
    PROVE  Whole(retain_live(t), n) /\ retain_live(t).up = t.up
           /\ Carries(t, retain_live(t)) /\ Remains(t, retain_live(t))
           /\ \A j \in 1 .. Len(retain_live(t).conns) :
                 \E k \in 1 .. Len(t.conns) : retain_live(t).conns[j] = t.conns[k]
<1>. DEFINE v == retain_live(t)
            keep == {i \in DOMAIN t.conns : t.conns[i].state # "Closed"}
            q == Retained(t.conns, keep)
<1>1. v = [conns |-> q, wire |-> t.wire, up |-> t.up]
  BY DEF retain_live, Kept
<1>2. /\ t.conns \in Seq(Conn) /\ DOMAIN t.conns = 1 .. Len(t.conns)
      /\ keep \in SUBSET (1 .. Len(t.conns))
  BY LenProperties DEF Kept
<1>3. \A S : t.conns \in Seq(S) => Drawn(q, S, t.conns, keep)
  BY <1>2, RetainedEntries
<1>4. Drawn(q, Conn, t.conns, keep)
  BY <1>2, <1>3
<1>5. /\ q \in Seq(Conn) /\ Len(q) \in Nat
      /\ \A i \in 1 .. Len(q) : \E j \in keep : q[i] = t.conns[j]
      /\ \A j \in keep : \E i \in 1 .. Len(q) : q[i] = t.conns[j]
      /\ \A i, j \in 1 .. Len(q) : i # j =>
            \E k, l \in 1 .. Len(t.conns) :
               k # l /\ q[i] = t.conns[k] /\ q[j] = t.conns[l]
  BY <1>4 DEF Drawn
<1>6. /\ \A j \in keep : j \in 1 .. Len(t.conns) /\ t.conns[j].state # "Closed"
      /\ \A j \in 1 .. Len(t.conns) : t.conns[j].state # "Closed" => j \in keep
  BY <1>2
<1>. HIDE DEF v, keep, q
<1>7. v.conns = q /\ v.up = t.up /\ v.wire = t.wire /\ Shaped(v)
  <2>1. v.conns = q /\ v.up = t.up /\ v.wire = t.wire
    BY <1>1
  <2>2. Shaped(v)
    BY <1>1, <2>1 DEF Shaped
  <2>. QED  BY <2>1, <2>2
<1>8. \A i \in 1 .. Len(q) : q[i].state # "Closed" /\ q[i].dial <= n
  <2>1. \A j \in 1 .. Len(t.conns) : t.conns[j].dial <= n
    BY DEF Kept
  <2>2. ASSUME NEW i \in 1 .. Len(q) PROVE q[i].state # "Closed" /\ q[i].dial <= n
    <3>1. PICK j \in keep : q[i] = t.conns[j]
      BY <1>5
    <3>. QED  BY <1>6, <2>1, <3>1
  <2>. QED  BY <2>2
<1>9. ASSUME NEW i \in 1 .. Len(q), NEW j \in 1 .. Len(q), i # j
      PROVE  q[i].dial # q[j].dial /\ q[i].key # q[j].key
  <2>1. PICK k \in 1 .. Len(t.conns), l \in 1 .. Len(t.conns) :
           k # l /\ q[i] = t.conns[k] /\ q[j] = t.conns[l]
    BY <1>5, <1>9
  <2>. QED  BY <2>1 DEF Kept
<1>10. ASSUME NEW d \in Dials
       PROVE  Holds(v, d) <=> Holds(t, d)
  <2>1. ASSUME Holds(v, d) PROVE Holds(t, d)
    <3>1. PICK i \in 1 .. Len(q) : q[i].dial = d
      BY <1>7, <2>1 DEF Holds
    <3>2. PICK j \in keep : q[i] = t.conns[j]
      BY <1>5
    <3>. QED  BY <1>6, <3>1, <3>2 DEF Holds
  <2>2. ASSUME Holds(t, d) PROVE Holds(v, d)
    <3>1. PICK j \in 1 .. Len(t.conns) : t.conns[j].dial = d /\ t.conns[j].state # "Closed"
      BY <2>2 DEF Holds
    <3>2. PICK i \in 1 .. Len(q) : q[i] = t.conns[j]
      BY <1>5, <1>6, <3>1
    <3>. QED  BY <1>7, <1>8, <3>1, <3>2 DEF Holds
  <2>. QED  BY <2>1, <2>2
<1>11. Kept(v, n)
  <2>1. n \in Nat /\ v = [conns |-> v.conns, wire |-> v.wire, up |-> v.up]
        /\ t.up \in [Dials -> Up]
    BY <1>7 DEF Kept, Shaped
  <2>2. \A d \in Dials : v.up[d].closes = IF Holds(v, d) \/ d > n THEN 0 ELSE 1
    BY <1>7, <1>10 DEF Kept
  <2>3. \A i \in 1 .. Len(q) : t.up[q[i].dial].key = q[i].key
    <3>1. ASSUME NEW i \in 1 .. Len(q) PROVE t.up[q[i].dial].key = q[i].key
      <4>1. PICK j \in keep : q[i] = t.conns[j]
        BY <1>5
      <4>. QED  BY <1>6, <4>1 DEF Kept
    <3>. QED  BY <3>1
  <2>4. /\ \A d \in Dials : d > n => v.up[d].fed = 0
        /\ Wired(v.wire)
    BY <1>7 DEF Kept
  <2>. QED  BY <1>5, <1>7, <1>8, <1>9, <2>1, <2>2, <2>3, <2>4 DEF Kept
<1>12. Carries(t, v)
  <2>. SUFFICES ASSUME NEW h, Flowing(t, h) PROVE Flowing(v, h)
    BY DEF Carries
  <2>1. ASSUME NEW i \in 1 .. Len(q)
        PROVE  Streaming(q[i], t.up[q[i].dial], t.wire[q[i].key], h[q[i].key])
    <3>1. PICK j \in keep : q[i] = t.conns[j]
      BY <1>5
    <3>. QED  BY <1>6, <3>1 DEF Flowing
  <2>. QED  BY <1>7, <2>1 DEF Flowing
<1>13. \A j \in 1 .. Len(v.conns) : \E k \in 1 .. Len(t.conns) : v.conns[j] = t.conns[k]
  <2>1. ASSUME NEW j \in 1 .. Len(q)
        PROVE  \E k \in 1 .. Len(t.conns) : q[j] = t.conns[k]
    <3>1. PICK k \in keep : q[j] = t.conns[k]
      BY <1>5
    <3>. QED  BY <1>6, <3>1
  <2>. QED  BY <1>7, <2>1
<1>14. Remains(t, v)
  <2>1. \A j \in 1 .. Len(v.conns) : \E k \in 1 .. Len(t.conns) :
           v.conns[j] = t.conns[k] /\ v.conns[j].state # "Closed"
    BY <1>7, <1>8, <1>13
  <2>. QED  BY <1>7, <2>1 DEF Remains, Still, Heeds
<1>. QED  BY <1>7, <1>8, <1>11, <1>12, <1>13, <1>14 DEF Whole, v

LEMMA TimersKeep ==
    ASSUME NEW t, NEW n, NEW i, Works(t, n, i), NEW due
    PROVE  /\ Kept(visit(t, i, due), n) /\ Alone(t, visit(t, i, due), i)
           /\ Rests(t, visit(t, i, due))
<1>1. \A reset : /\ Kept(dispose(t, i, reset), n) /\ Alone(t, dispose(t, i, reset), i)
                 /\ Rests(t, dispose(t, i, reset))
  BY DisposeKeeps
<1>2. Kept(t, n) /\ Alone(t, t, i) /\ Rests(t, t)
  BY Stays, RestsSelf DEF Goes, Works
<1>3. \/ t.conns[i].retransmits >= MaxRetransmits
      \/ /\ Kept(Retransmit(t, i), n) /\ Alone(t, Retransmit(t, i), i)
         /\ Rests(t, Retransmit(t, i))
  <2>1. t.conns[i].retransmits \in Int /\ MaxRetransmits \in Int
    BY AtHand, Fields, Constants
  <2>2. CASE t.conns[i].retransmits < MaxRetransmits
    BY <2>2, RetransmitGoes DEF Goes, Works
  <2>. QED  BY <2>1, <2>2
<1>. QED  BY <1>1, <1>2, <1>3 DEF visit, run_timers

(* The connections are visited one after the other.                        *)
LEMMA Visits ==
    ASSUME NEW t, NEW due, NEW L \in Nat
    PROVE  \E g : g = [m \in 0 .. L |-> IF m = 0 THEN t
                                        ELSE visit(g[m - 1], m, due[m])]
<1>. DEFINE At(g, m) == IF m = 0 THEN t ELSE visit(g[m - 1], m, due[m])
            Ok(k) == \E g : g = [m \in 0 .. k |-> At(g, m)]
            Bad == {k \in Nat : ~Ok(k)}
<1>. SUFFICES ASSUME Bad # {} PROVE FALSE
  OBVIOUS
<1>1. PICK k \in Bad : \A m \in Bad : k <= m
  BY Least
<1>2. k \in Nat /\ ~Ok(k)
  BY <1>1
<1>3. CASE k = 0
  <2>. DEFINE g == [m \in 0 .. 0 |-> t]
  <2>1. \A m \in 0 .. 0 : m = 0
    OBVIOUS
  <2>2. g = [m \in 0 .. 0 |-> At(g, m)]
    BY <2>1
  <2>3. Ok(0)
    BY <2>2
  <2>. QED  BY <1>2, <1>3, <2>3
<1>4. CASE k > 0
  <2>1. k - 1 \in Nat /\ ~(k <= k - 1)
    BY <1>2, <1>4
  <2>2. Ok(k - 1)
    BY <1>1, <2>1
  <2>3. PICK f : f = [m \in 0 .. k - 1 |-> At(f, m)]
    BY <2>2
  <2>. DEFINE g == [m \in 0 .. k |-> IF m = k THEN visit(f[k - 1], k, due[k]) ELSE f[m]]
  <2>4. ASSUME NEW m \in 0 .. k
        PROVE  g[m] = At(g, m)
    <3>1. CASE m = k
      <4>1. k - 1 \in 0 .. k /\ k - 1 # k /\ m # 0
        BY <1>2, <1>4, <3>1
      <4>. QED  BY <3>1, <4>1
    <3>2. CASE m # k /\ m # 0
      <4>1. m \in 0 .. k - 1 /\ m - 1 \in 0 .. k - 1 /\ m - 1 \in 0 .. k /\ m - 1 # k
        BY <1>2, <1>4, <3>2
      <4>2. g[m] = f[m] /\ g[m - 1] = f[m - 1]
        BY <3>2, <4>1
      <4>3. f[m] = visit(f[m - 1], m, due[m])
        BY <2>3, <3>2, <4>1
      <4>. QED  BY <3>2, <4>2, <4>3
    <3>3. CASE m # k /\ m = 0
      <4>1. 0 \in 0 .. k - 1
        BY <2>1
      <4>. QED  BY <2>3, <3>3, <4>1
    <3>. QED  BY <3>1, <3>2, <3>3
  <2>5. g = [m \in 0 .. k |-> g[m]]
    OBVIOUS
  <2>. HIDE DEF g
  <2>6. g = [m \in 0 .. k |-> At(g, m)]
    BY <2>4, <2>5
  <2>. QED  BY <1>2, <2>6
<1>. QED  BY <1>2, <1>3, <1>4

LEMMA VisitAllWhole ==
    ASSUME NEW t, NEW n, Whole(t, n), NEW due
    PROVE  Whole(visit_all(t, due), n) /\ Onward(t, visit_all(t, due))
           /\ Remains(t, visit_all(t, due))
<1>. DEFINE L == Len(t.conns)
            after == CHOOSE g : g = [m \in 0 .. L |-> IF m = 0 THEN t
                                        ELSE visit(g[m - 1], m, due[m])]
            v == after[L]
<1>1. L \in Nat
  BY LenProperties DEF Whole, Kept
<1>2. visit_all(t, due) = retain_live(v)
  BY DEF visit_all
<1>3. after = [m \in 0 .. L |-> IF m = 0 THEN t ELSE visit(after[m - 1], m, due[m])]
  <2>. HIDE DEF L
  <2>. QED  BY <1>1, Visits
<1>. HIDE DEF L, after
<1>4. after[0] = t /\ \A m \in 1 .. L : after[m] = visit(after[m - 1], m, due[m])
  BY <1>1, <1>3
<1>. DEFINE Well(m) == /\ Kept(after[m], n) /\ Onward(t, after[m]) /\ Rests(t, after[m])
                       /\ Len(after[m].conns) = L
                       /\ \A j \in 1 .. L : j > m => after[m].conns[j] = t.conns[j]
            Bad == {m \in 0 .. L : ~Well(m)}
<1>5. Bad = {}
  <2>. SUFFICES ASSUME Bad # {} PROVE FALSE
    OBVIOUS
  <2>1. Bad \in SUBSET Nat
    BY <1>1
  <2>2. PICK m \in Bad : \A k \in Bad : m <= k
    BY <2>1, Least
  <2>3. m \in 0 .. L /\ ~Well(m)
    BY <2>2
  <2>4. m # 0
    BY <1>4, <2>3, RestsSelf DEF Whole, Onward, Quiet, Carries, L
  <2>5. m \in 1 .. L /\ m - 1 \in 0 .. L /\ ~(m <= m - 1)
    BY <1>1, <2>3, <2>4
  <2>6. Well(m - 1)
    BY <2>2, <2>5
  <2>. DEFINE u == after[m - 1]
  <2>7. Works(u, n, m)
    <3>1. m > m - 1
      BY <2>5
    <3>2. u.conns[m] = t.conns[m] /\ Len(u.conns) = L
      BY <2>5, <2>6, <3>1
    <3>. QED  BY <2>5, <2>6, <3>2 DEF Works, Whole, L
  <2>. HIDE DEF u
  <2>8. /\ Kept(visit(u, m, due[m]), n) /\ Alone(u, visit(u, m, due[m]), m)
        /\ Rests(u, visit(u, m, due[m]))
    BY <2>7, TimersKeep
  <2>9. after[m] = visit(u, m, due[m])
    BY <1>4, <2>5 DEF u
  <2>10. Kept(after[m], n) /\ Alone(u, after[m], m) /\ Rests(u, after[m])
    BY <2>8, <2>9
  <2>11. Onward(t, u) /\ Len(u.conns) = L /\ Rests(t, u)
         /\ \A j \in 1 .. L : j > m - 1 => u.conns[j] = t.conns[j]
    BY <2>6 DEF u
  <2>12. Onward(t, after[m])
    BY <2>10, <2>11 DEF Onward, Quiet, Carries, Alone
  <2>13. \A j \in 1 .. L : j > m => after[m].conns[j] = t.conns[j]
    <3>1. \A j \in 1 .. L : j > m => j # m /\ j > m - 1
      BY <1>1, <2>5
    <3>. QED  BY <2>10, <2>11, <3>1 DEF Alone
  <2>14. Len(after[m].conns) = L
    BY <2>10, <2>11 DEF Alone
  <2>15. Rests(t, after[m])
    BY <2>10, <2>11, RestsThen
  <2>. QED  BY <2>3, <2>10, <2>12, <2>13, <2>14, <2>15
<1>6. Kept(v, n) /\ Onward(t, v) /\ Rests(t, v)
  BY <1>1, <1>5
<1>. HIDE DEF v
<1>7. Whole(retain_live(v), n) /\ retain_live(v).up = v.up /\ Carries(v, retain_live(v))
      /\ Remains(v, retain_live(v))
  BY <1>6, RetainWhole
<1>8. Onward(t, retain_live(v)) /\ Remains(t, retain_live(v))
  BY <1>6, <1>7, RemainsThen DEF Onward, Quiet, Carries
<1>. QED  BY <1>2, <1>7, <1>8

-----------------------------------------------------------------------------
(* The handlers.  All of the table is live between them.                   *)

Reaches(t, u, n) == Whole(u, n) /\ Onward(t, u)

LEMMA WholeWorks ==
    ASSUME NEW t, NEW n, Whole(t, n), NEW i \in 1 .. Len(t.conns)
    PROVE  Works(t, n, i) /\ Reaches(t, t, n)
  BY DEF Whole, Works, Reaches, Onward, Quiet, Carries

LEMMA GoesReaches ==
    ASSUME NEW t, NEW n, Whole(t, n), NEW i, NEW u, Goes(t, u, n, i)
    PROVE  Reaches(t, u, n) /\ Len(u.conns) = Len(t.conns)
<1>1. \A j \in 1 .. Len(u.conns) : u.conns[j].state # "Closed"
  BY DEF Goes, Works, Alone, Whole
<1>2. Kept(u, n) /\ Onward(t, u) /\ Len(u.conns) = Len(t.conns)
  BY DEF Goes, Works, Alone
<1>. QED  BY <1>1, <1>2 DEF Reaches, Whole

LEMMA ReachesThen ==
    ASSUME NEW t, NEW u, NEW v, NEW n, Reaches(t, u, n), Reaches(u, v, n)
    PROVE  Reaches(t, v, n)
  BY DEF Reaches, Onward, Quiet, Carries

(* Connection i is gone, and what is left is what it was.                  *)
Gone(t, u, i) ==
    /\ Remains(t, u)
    /\ \A j \in 1 .. Len(u.conns) : /\ u.conns[j].key # t.conns[i].key
                                    /\ u.conns[j].dial # t.conns[i].dial

LEMMA DisposeReaches ==
    ASSUME NEW t, NEW n, NEW i, Works(t, n, i), NEW reset
    PROVE  /\ Reaches(t, retain_live(dispose(t, i, reset)), n)
           /\ Gone(t, retain_live(dispose(t, i, reset)), i)
<1>. DEFINE u == dispose(t, i, reset)
<1>1. Kept(u, n) /\ Onward(t, u) /\ Rests(t, u)
  BY DisposeKeeps DEF Alone
<1>4. u.conns[i].state = "Closed" /\ i \in 1 .. Len(u.conns)
      /\ u.conns[i].key = t.conns[i].key /\ u.conns[i].dial = t.conns[i].dial
  BY AtHand, DisposeKeeps DEF Alone
<1>. HIDE DEF u
<1>2. Whole(retain_live(u), n) /\ retain_live(u).up = u.up /\ Carries(u, retain_live(u))
      /\ Remains(u, retain_live(u))
  BY <1>1, RetainWhole
<1>3. Onward(t, retain_live(u)) /\ Remains(t, retain_live(u))
  BY <1>1, <1>2, RemainsThen DEF Onward, Quiet, Carries
<1>5. ASSUME NEW j \in 1 .. Len(retain_live(u).conns)
      PROVE  /\ retain_live(u).conns[j].key # t.conns[i].key
             /\ retain_live(u).conns[j].dial # t.conns[i].dial
  <2>1. PICK k \in 1 .. Len(u.conns) : retain_live(u).conns[j] = u.conns[k]
    BY <1>1, RetainWhole
  <2>2. u.conns[k].state # "Closed"
    BY <1>2, <2>1 DEF Whole
  <2>3. k # i
    BY <1>4, <2>2
  <2>. QED  BY <1>1, <1>4, <2>1, <2>3 DEF Kept
<1>. QED  BY <1>2, <1>3, <1>5 DEF Reaches, Gone, u

LEMMA RestsGone ==
    ASSUME NEW t, NEW u, NEW v, NEW i, i \in 1 .. Len(t.conns), Rests(t, u), Gone(u, v, i)
    PROVE  Gone(t, v, i)
<1>1. u.conns[i].key = t.conns[i].key /\ u.conns[i].dial = t.conns[i].dial
  BY DEF Rests, Still
<1>2. Remains(t, v)
  BY RemainsThen DEF Gone
<1>. QED  BY <1>1, <1>2 DEF Gone

LEMMA SettleReaches ==
    ASSUME NEW t, NEW n, Whole(t, n), NEW i \in 1 .. Len(t.conns)
    PROVE  /\ Reaches(t, settle(t, i), n)
           /\ Gone(t, settle(t, i), i) \/ Rests(t, settle(t, i))
<1>1. Works(t, n, i)
  BY WholeWorks
<1>2. /\ Reaches(t, retain_live(dispose(t, i, FALSE)), n)
      /\ Gone(t, retain_live(dispose(t, i, FALSE)), i)
  BY <1>1, DisposeReaches
<1>3. Goes(t, flush(t, i), n, i) /\ Rests(t, flush(t, i))
  BY <1>1, FlushGoes
<1>4. Reaches(t, flush(t, i), n)
  BY <1>3, GoesReaches
<1>. QED  BY <1>2, <1>3, <1>4 DEF settle

LEMMA AddNothing ==
    ASSUME NEW r \in Space
    PROVE  sequence_add(r, 0) = r
  BY Constants DEF Space, sequence_add

(* The parts of handle_rest: a segment is left aside, or taken.            *)
LEMMA RestGoes ==
    ASSUME NEW t, NEW n, NEW i, Works(t, n, i), NEW seg, Legal(seg)
    PROVE  Goes(t, handle_rest(t, i, seg), n, i) /\
           IF Silent(t.conns[i], seg) THEN Rests(t, handle_rest(t, i, seg))
           ELSE Takes(t, handle_rest(t, i, seg), i, seg)
<1>. DEFINE c == t.conns[i]
            D == c.dial
            was == t.up[D]
            next == [c EXCEPT !.state = IF @ = "SynReceived" THEN "Established" ELSE @]
            est == Put(t, i, next)
            fresh == Fresh(sequence_difference(seg.seq, c.receive_next), seg.payload)
            paid == IF seg.payload = <<>> THEN est
                    ELSE accept_payload(est, i, seg.seq, seg.payload)
            fin == accept_fin(paid, i)
<1>1. /\ Works(t, n, i) /\ c \in Conn /\ c.state # "Closed" /\ D \in Dials /\ was \in Up
      /\ i \in 1 .. Len(t.conns)
  BY AtHand
<1>2. Goes(t, est, n, i) /\ est.conns[i] = next /\ est.up = t.up /\ Rests(t, est)
  <2>1. Same(c, next)
    BY <1>1, FieldsKept
  <2>2. Continues(c, was, next, was, {})
    <3>. DEFINE z == IF c.state = "SynReceived" THEN "Established" ELSE c.state
    <3>. HIDE DEF z
    <3>2. Alike(c, was, [c EXCEPT !.state = z], was)
      BY <1>1, AlikeKept
    <3>3. next = [c EXCEPT !.state = z]
      BY DEF z
    <3>. HIDE DEF next, c, was
    <3>. QED  BY <3>2, <3>3, AlikeContinues
  <2>3. Still(c, next)
    <3>. HIDE DEF c
    <3>. QED  BY <1>1, StillFields
  <2>. HIDE DEF next
  <2>. QED  BY <1>1, <2>1, <2>2, <2>3, PutGoes
<1>3. /\ next.key = c.key /\ next.dial = D /\ next.receive_next = c.receive_next
      /\ next.inbound_closed = c.inbound_closed
      /\ next.upstream_connected = c.upstream_connected
      /\ next.pending_for_upstream = c.pending_for_upstream
  <2>. HIDE DEF c
  <2>. QED  BY <1>1 DEF Conn
<1>. HIDE DEF est, next
<1>4. fresh \in Bytes /\ Len(fresh) \in Nat
  <2>1. sequence_difference(seg.seq, c.receive_next) \in Int
    BY <1>1, Fields, DifferenceIsInt DEF Legal
  <2>. QED  BY <2>1, FreshTyped, ByteLength DEF Legal
<1>5. /\ Goes(t, paid, n, i) /\ Halfway(c, was, paid.conns[i], paid.up[D], seg)
      /\ \A e \in Dials : e # D => paid.up[e] = t.up[e]
  <2>1. CASE seg.payload = <<>>
    <3>1. fresh = <<>>
      <4>1. sequence_difference(seg.seq, c.receive_next) \in Int
        BY <1>1, Fields, DifferenceIsInt DEF Legal
      <4>. QED  BY <2>1, <4>1 DEF Fresh
    <3>2. c.receive_next \in Space /\ c.pending_for_upstream \in Bytes /\ was.sent \in Bytes
      <4>. HIDE DEF c, was
      <4>. QED  BY <1>1 DEF Up, Conn
    <3>3. /\ sequence_add(c.receive_next, 0) = c.receive_next
          /\ c.pending_for_upstream \o <<>> = c.pending_for_upstream
          /\ was.sent \o <<>> = was.sent /\ Len(<<>>) = 0
      BY <3>2, AddNothing DEF Bytes
    <3>4. paid = est
      BY <2>1
    <3>. HIDE DEF c, was, fresh, paid
    <3>5. Halfway(c, was, est.conns[i], est.up[D], seg)
      BY <1>2, <1>3, <3>1, <3>3 DEF was, Halfway, fresh
    <3>. QED  BY <1>2, <3>4, <3>5
  <2>2. CASE seg.payload # <<>>
    <3>. DEFINE v == accept_payload(est, i, seg.seq, seg.payload)
    <3>1. Works(est, n, i) /\ est.conns[i].dial = D /\ est.up = t.up /\ est.up[D] = was
      BY <1>2, <1>3 DEF Goes
    <3>2. Goes(est, v, n, i) /\ Paid(est, v, i, seg)
      BY <3>1, PayloadGoes
    <3>. HIDE DEF v
    <3>3. Goes(t, v, n, i)
      BY <1>2, <3>2, GoesThen
    <3>. HIDE DEF c, was
    <3>4. Halfway(c, was, v.conns[i], v.up[D], seg)
      BY <1>2, <1>3, <3>1, <3>2 DEF Halfway, Paid
    <3>. QED  BY <2>2, <3>1, <3>2, <3>3, <3>4 DEF v, Paid
  <2>. QED  BY <2>1, <2>2
<1>. HIDE DEF paid
<1>. DEFINE Whole3(u) == /\ Goes(t, u, n, i)
                         /\ \A e \in Dials : e # D => u.up[e] = t.up[e]
                         /\ Accepts(c, was, u.conns[i], u.up[D], seg)
<1>6. ASSUME NEW u, Whole3(u)
      PROVE  Takes(t, u, i, seg)
  BY <1>1, <1>6 DEF Takes, Goes, Alone, Still, Heeds
<1>7. ASSUME ~seg.fin PROVE Goes(t, paid, n, i) /\ Takes(t, paid, i, seg)
  <2>1. Accepts(c, was, paid.conns[i], paid.up[D], seg)
    <3>1. Len(fresh) + 0 = Len(fresh)
      BY <1>4
    <3>. HIDE DEF c, was
    <3>. QED  BY <1>5, <1>7, <3>1 DEF Accepts, Halfway
  <2>. QED  BY <1>5, <1>6, <2>1
<1>8. ASSUME seg.fin PROVE Goes(t, fin, n, i) /\ Takes(t, fin, i, seg)
  <2>. DEFINE d == paid.conns[i]
              v == paid.up[D]
  <2>1. Works(paid, n, i) /\ d.dial = D /\ d \in Conn /\ v \in Up
    <3>1. Works(paid, n, i) /\ d.dial = D
      BY <1>5 DEF Goes, Alone
    <3>. HIDE DEF paid
    <3>. QED  BY <3>1, AtHand
  <2>2. /\ Goes(paid, fin, n, i) /\ fin.conns[i] = Finished(d)
        /\ fin.up[D] = [v EXCEPT !.eof = @ \/ (~d.inbound_closed /\ d.upstream_connected)]
        /\ \A e \in Dials : e # D => fin.up[e] = paid.up[e]
    <3>1. Goes(paid, fin, n, i) /\ Ended(paid, fin, i)
      BY <2>1, FinGoes
    <3>. HIDE DEF fin
    <3>. QED  BY <2>1, <3>1 DEF Ended
  <2>3. Goes(t, fin, n, i) /\ \A e \in Dials : e # D => fin.up[e] = t.up[e]
    BY <1>5, <2>2, GoesThen
  <2>4. sequence_add(sequence_add(c.receive_next, Len(fresh)), 1)
           = sequence_add(c.receive_next, Len(fresh) + 1)
    <3>1. c.receive_next \in Int
      BY <1>1, Fields, Constants DEF Space
    <3>. DEFINE l == Len(fresh)
                r == c.receive_next
    <3>2. l \in Int /\ r \in Int /\ 1 \in Int
      BY <1>4, <3>1
    <3>. HIDE DEF l, r
    <3>3. sequence_add(sequence_add(r, l), 1) = sequence_add(r, l + 1)
      BY <3>2, AddAdds
    <3>. QED  BY <3>3 DEF l, r
  <2>5. Accepts(c, was, fin.conns[i], fin.up[D], seg)
    <3>1. Halfway(c, was, d, v, seg) /\ fin.conns[i] = Finished(d)
          /\ fin.up[D] = [v EXCEPT !.eof = @ \/ (~d.inbound_closed /\ d.upstream_connected)]
      BY <1>5, <2>2
    <3>. HIDE DEF fin, c, was
    <3>2. /\ fin.conns[i].receive_next = sequence_add(c.receive_next, Len(fresh) + 1)
          /\ fin.conns[i].inbound_closed = TRUE
          /\ fin.conns[i].upstream_connected = c.upstream_connected
          /\ fin.conns[i].pending_for_upstream = IF c.upstream_connected
                                              THEN c.pending_for_upstream
                                              ELSE c.pending_for_upstream \o fresh
          /\ fin.conns[i].key = c.key /\ fin.conns[i].dial = D
      <4>. HIDE DEF fresh
      <4>. QED  BY <2>1, <2>4, <3>1 DEF Finished, Conn, Halfway, fresh
    <3>3. /\ fin.up[D].key = was.key /\ fin.up[D].phase = was.phase
          /\ fin.up[D].sent = IF c.upstream_connected THEN was.sent \o fresh ELSE was.sent
          /\ fin.up[D].eof = (was.eof \/ (~c.inbound_closed /\ c.upstream_connected))
      <4>. HIDE DEF fresh
      <4>. QED  BY <2>1, <3>1 DEF Up, Halfway, fresh
    <3>. QED  BY <1>8, <3>2, <3>3 DEF Accepts
  <2>. QED  BY <1>6, <2>3, <2>5
<1>9. handle_rest(t, i, seg) = IF Premature(c) THEN t ELSE IF seg.syn THEN est
                               ELSE IF seg.fin THEN fin ELSE paid
  BY DEF handle_rest, fin, paid, est, next
<1>. HIDE DEF fin, c
<1>10. CASE Silent(c, seg)
  <2>1. handle_rest(t, i, seg) \in {t, est}
    BY <1>9, <1>10 DEF Silent
  <2>. QED  BY <1>2, <1>10, <2>1, RestsSelf, Stays DEF c
<1>11. CASE ~Silent(c, seg)
  <2>1. handle_rest(t, i, seg) = IF seg.fin THEN fin ELSE paid
    BY <1>9, <1>11 DEF Silent
  <2>. QED  BY <1>7, <1>8, <1>11, <2>1 DEF c, fin
<1>. QED  BY <1>10, <1>11 DEF c

LEMMA RestsTakes ==
    ASSUME NEW t, NEW u, NEW v, NEW n, Whole(t, n), Whole(u, n), Whole(v, n),
           NEW i, NEW seg, Rests(t, u), Takes(u, v, i, seg)
    PROVE  Takes(t, v, i, seg)
<1>. DEFINE c == t.conns[i]
            d == u.conns[i]
            D == c.dial
<1>1. i \in 1 .. Len(t.conns) /\ i \in 1 .. Len(u.conns) /\ Len(v.conns) = Len(t.conns)
      /\ Still(c, d) /\ d.dial = D /\ d.state # "Closed"
  BY DEF Rests, Takes, Still, Whole
<1>2. D \in Dials
  BY <1>1, WholeWorks, AtHand
<1>3. Heeds(t.up[D], u.up[D]) /\ Accepts(d, u.up[D], v.conns[i], v.up[D], seg)
  BY <1>1, <1>2 DEF Rests, Takes
<1>4. Accepts(c, t.up[D], v.conns[i], v.up[D], seg)
  BY <1>1, <1>3 DEF Accepts, Still, Heeds
<1>5. \A j \in 1 .. Len(t.conns) : j # i => Still(t.conns[j], v.conns[j])
  BY StillThen DEF Rests, Takes
<1>6. \A e \in Dials : e # D => Heeds(t.up[e], v.up[e])
  BY <1>1, HeedsThen DEF Rests, Takes
<1>. QED  BY <1>1, <1>4, <1>5, <1>6 DEF Takes

LEMMA TakesRests ==
    ASSUME NEW t, NEW u, NEW v, NEW n, Whole(t, n), Whole(u, n), Whole(v, n),
           NEW i, NEW seg, Takes(t, u, i, seg), Rests(u, v)
    PROVE  Takes(t, v, i, seg)
<1>. DEFINE c == t.conns[i]
            d == u.conns[i]
            D == c.dial
<1>1. i \in 1 .. Len(t.conns) /\ i \in 1 .. Len(v.conns) /\ Len(v.conns) = Len(t.conns)
      /\ Still(d, v.conns[i]) /\ v.conns[i].state # "Closed"
  BY DEF Rests, Takes, Whole
<1>2. D \in Dials
  BY <1>1, WholeWorks, AtHand
<1>3. Heeds(u.up[D], v.up[D]) /\ Accepts(c, t.up[D], d, u.up[D], seg)
  BY <1>1, <1>2 DEF Rests, Takes
<1>4. Accepts(c, t.up[D], v.conns[i], v.up[D], seg)
  BY <1>1, <1>3 DEF Accepts, Still, Heeds
<1>5. \A j \in 1 .. Len(t.conns) : j # i => Still(t.conns[j], v.conns[j])
  BY StillThen DEF Rests, Takes
<1>6. \A e \in Dials : e # D => Heeds(t.up[e], v.up[e])
  BY <1>1, HeedsThen DEF Rests, Takes
<1>. QED  BY <1>1, <1>4, <1>5, <1>6 DEF Takes

(* The stages of handle.                                                   *)
Heard(i, seg) == Put(Now, i, [connections[i] EXCEPT !.peer_window = seg.window])

Freed(i, seg) ==
    IF seg.ack /\ Acceptable(Heard(i, seg).conns[i], seg.ackno)
    THEN release(Heard(i, seg), i, seg.ackno) ELSE Heard(i, seg)

Acked(i, seg) ==
    LET c == Heard(i, seg).conns[i]
        freed == Freed(i, seg)
    IN  IF ~seg.ack THEN freed
        ELSE IF Acceptable(c, seg.ackno) THEN settle(freed, i)
        ELSE IF sequence_difference(c.send_unacknowledged, seg.ackno) < 0
        THEN maybe_finish(freed, i) ELSE freed

Handled(t, i, seg) ==
    LET body == handle_rest(t, i, seg)
        flushed == IF Silent(t.conns[i], seg) THEN body ELSE flush(body, i)
    IN  IF Silent(t.conns[i], seg) THEN flushed ELSE maybe_finish(flushed, i)

LEMMA HandleIs ==
    ASSUME NEW i, NEW seg, handle(i, seg)
    PROVE  \/ Commit(retain_live(dispose(Heard(i, seg), i, FALSE)))
           \/ i > Len(Acked(i, seg).conns) /\ Commit(Acked(i, seg))
           \/ ~(i > Len(Acked(i, seg).conns)) /\ Commit(Handled(Acked(i, seg), i, seg))
<1>. DEFINE heard == Heard(i, seg)
            c == heard.conns[i]
            acked == Acked(i, seg)
            body == handle_rest(acked, i, seg)
            flushed == IF Silent(acked.conns[i], seg) THEN body ELSE flush(body, i)
            done == Handled(acked, i, seg)
            Free(h, d) == IF seg.ack /\ Acceptable(d, seg.ackno)
                          THEN release(h, i, seg.ackno) ELSE h
            Ack(f, d) == IF ~seg.ack THEN f
                         ELSE IF Acceptable(d, seg.ackno) THEN settle(f, i)
                         ELSE IF sequence_difference(d.send_unacknowledged,
                                                     seg.ackno) < 0
                         THEN maybe_finish(f, i) ELSE f
            Flushes(a, b) == IF Silent(a.conns[i], seg) THEN b ELSE flush(b, i)
            Closing(a, b) == \E g \in {Flushes(a, b)} :
                             Commit(IF Silent(a.conns[i], seg) THEN g
                                    ELSE maybe_finish(g, i))
            Rest(a) == IF i > Len(a.conns) THEN Commit(a)
                       ELSE \E b \in {handle_rest(a, i, seg)} : Closing(a, b)
            Middle(h) == \E d \in {h.conns[i]} : \E f \in {Free(h, d)} :
                            \E a \in {Ack(f, d)} : Rest(a)
<1>1. \E h \in {heard} : IF seg.rst THEN Commit(retain_live(dispose(h, i, FALSE)))
                         ELSE Middle(h)
  BY DEF handle, Heard
<1>. HIDE DEF heard, Middle
<1>2. Commit(retain_live(dispose(heard, i, FALSE))) \/ Middle(heard)
  BY <1>1
<1>. HIDE DEF Free, Ack, Rest
<1>3. Middle(heard) => Rest(Ack(Free(heard, c), c))
  BY DEF Middle
<1>4. Ack(Free(heard, c), c) = acked
  BY DEF Acked, Freed, Free, Ack, heard
<1>. HIDE DEF acked, Closing, c
<1>5. Middle(heard) => Rest(acked)
  BY <1>3, <1>4
<1>6. Rest(acked) = (IF i > Len(acked.conns) THEN Commit(acked)
                     ELSE \E b \in {body} : Closing(acked, b))
  BY DEF Rest
<1>7. Closing(acked, body) = (\E g \in {flushed} :
                              Commit(IF Silent(acked.conns[i], seg) THEN g
                                     ELSE maybe_finish(g, i)))
  BY DEF Closing
<1>10. done = IF Silent(acked.conns[i], seg) THEN flushed ELSE maybe_finish(flushed, i)
  BY DEF Handled
<1>. HIDE DEF Rest, body, done
<1>8. Rest(acked) => \/ i > Len(acked.conns) /\ Commit(acked)
                     \/ ~(i > Len(acked.conns)) /\ Closing(acked, body)
  BY <1>6
<1>. HIDE DEF flushed
<1>9. Closing(acked, body) => Commit(done)
  BY <1>7, <1>10
<1>. QED  BY <1>2, <1>5, <1>8, <1>9 DEF heard, acked, done

(* The acknowledgement of the SYN-ACK has not come yet, or not with this.  *)
Unready(i, seg) ==
    LET c == Heard(i, seg).conns[i]
    IN  /\ ~c.handshake_complete
        /\ ~(/\ seg.ack /\ Acceptable(c, seg.ackno)
             /\ Released(c, seg.ackno).handshake_complete)

(* What becomes of a segment: the connection goes, and perhaps the one the *)
(* index then names is given it, or it is taken, or it is left aside.      *)
Outcome(u, i, seg) ==
    \/ Gone(Now, u, i)
    \/ \E a : /\ Gone(Now, a, i) /\ i \in 1 .. Len(a.conns) /\ Whole(a, next_dial)
              /\ Takes(a, u, i, seg) \/ Rests(a, u)
    \/ ~seg.syn /\ Takes(Now, u, i, seg)
    \/ Rests(Now, u) /\ (seg.syn \/ Unready(i, seg))

LEMMA HandledGoes ==
    ASSUME NEW t, NEW n, NEW i, Works(t, n, i), Whole(t, n), NEW seg, Legal(seg)
    PROVE  /\ Goes(t, Handled(t, i, seg), n, i)
           /\ \/ Silent(t.conns[i], seg) /\ Rests(t, Handled(t, i, seg))
              \/ ~seg.syn /\ Takes(t, Handled(t, i, seg), i, seg)
<1>. DEFINE body == handle_rest(t, i, seg)
            flushed == flush(body, i)
            done == maybe_finish(flushed, i)
<1>1. /\ Goes(t, body, n, i)
      /\ IF Silent(t.conns[i], seg) THEN Rests(t, body) ELSE Takes(t, body, i, seg)
  BY RestGoes
<1>2. Handled(t, i, seg) = IF Silent(t.conns[i], seg) THEN body ELSE done
  BY DEF Handled
<1>. HIDE DEF body
<1>3. Goes(body, flushed, n, i) /\ Rests(body, flushed)
  BY <1>1, FlushGoes DEF Goes
<1>. HIDE DEF flushed
<1>4. Goes(flushed, done, n, i) /\ Rests(flushed, done)
  BY <1>3, FinishGoes DEF Goes
<1>. HIDE DEF done
<1>5. Goes(body, done, n, i) /\ Rests(body, done)
  BY <1>3, <1>4, GoesThen, RestsThen
<1>6. Goes(t, done, n, i)
  BY <1>1, <1>5, GoesThen
<1>7. ~Silent(t.conns[i], seg) => ~seg.syn /\ Takes(t, done, i, seg)
  <2>1. Whole(body, n) /\ Whole(done, n)
    BY <1>1, <1>6, GoesReaches DEF Reaches
  <2>. QED  BY <1>1, <1>5, <2>1, TakesRests DEF Silent
<1>. QED  BY <1>1, <1>2, <1>6, <1>7

(* Whatever connection the index names by now, a live one is worked on.    *)
LEMMA HandleReaches ==
    ASSUME Whole(Now, next_dial), NEW i \in 1 .. Len(connections),
           NEW seg, Legal(seg), handle(i, seg)
    PROVE  \E u : Reaches(Now, u, next_dial) /\ Commit(u) /\ Outcome(u, i, seg)
<1>. DEFINE n == next_dial
            heard == Heard(i, seg)
            freed == Freed(i, seg)
            acked == Acked(i, seg)
            done == Handled(acked, i, seg)
            reset == retain_live(dispose(heard, i, FALSE))
<1>1. Now.conns = connections /\ Works(Now, n, i) /\ i \in 1 .. Len(Now.conns)
  BY WholeWorks DEF Now
<1>2. Goes(Now, heard, n, i) /\ Rests(Now, heard)
  <2>. DEFINE c == connections[i]
              d == [c EXCEPT !.peer_window = seg.window]
              u == Now.up[c.dial]
  <2>1. Same(c, d)
    BY <1>1, AtHand, WindowKept DEF Legal
  <2>2. Alike(c, u, d, u)
    BY <1>1, AtHand, AlikeKept
  <2>4. c \in Conn /\ c.state # "Closed"
    BY <1>1, AtHand
  <2>5. Still(c, d)
    <3>. HIDE DEF c
    <3>. QED  BY <2>4, StillFields
  <2>3. Continues(c, u, d, u, {})
    BY <2>2, AlikeContinues
  <2>. HIDE DEF d
  <2>6. Goes(Now, Put(Now, i, d), n, i) /\ Rests(Now, Put(Now, i, d))
    BY <1>1, <2>1, <2>3, <2>5, PutGoes
  <2>. QED  BY <2>6 DEF Heard, d
<1>. HIDE DEF heard
<1>3. Reaches(Now, reset, n) /\ Gone(Now, reset, i)
  <2>1. Works(heard, n, i) /\ Reaches(Now, heard, n)
    BY <1>2, GoesReaches DEF Goes
  <2>2. Reaches(heard, reset, n) /\ Gone(heard, reset, i)
    BY <2>1, DisposeReaches
  <2>. QED  BY <1>1, <1>2, <2>1, <2>2, ReachesThen, RestsGone
<1>. HIDE DEF reset
<1>4. /\ Goes(Now, freed, n, i) /\ Rests(heard, freed) /\ Rests(Now, freed)
      /\ seg.ack /\ Acceptable(heard.conns[i], seg.ackno) =>
            freed.conns[i] = Released(heard.conns[i], seg.ackno)
  <2>1. Works(heard, n, i)
    BY <1>2 DEF Goes
  <2>. DEFINE r == release(heard, i, seg.ackno)
  <2>2. Goes(heard, r, n, i) /\ Rests(heard, r)
        /\ r.conns[i] = Released(heard.conns[i], seg.ackno)
    BY <2>1, ReleaseGoes
  <2>4. freed = IF seg.ack /\ Acceptable(heard.conns[i], seg.ackno) THEN r ELSE heard
    BY DEF Freed, heard
  <2>. HIDE DEF r
  <2>3. Goes(Now, r, n, i) /\ Rests(Now, r)
    BY <1>2, <2>2, GoesThen, RestsThen
  <2>. HIDE DEF freed
  <2>. QED  BY <1>2, <2>2, <2>3, <2>4, RestsSelf
<1>. HIDE DEF freed
<1>5. Reaches(Now, acked, n) /\ (Gone(Now, acked, i) \/ Rests(freed, acked))
  <2>1. Works(freed, n, i) /\ Reaches(Now, freed, n)
    BY <1>4, GoesReaches DEF Goes
  <2>2. Whole(freed, n) /\ i \in 1 .. Len(freed.conns)
    BY <2>1 DEF Reaches, Works
  <2>3. Reaches(freed, settle(freed, i), n)
        /\ (Gone(freed, settle(freed, i), i) \/ Rests(freed, settle(freed, i)))
    BY <2>2, SettleReaches
  <2>4. Goes(freed, maybe_finish(freed, i), n, i) /\ Rests(freed, maybe_finish(freed, i))
    BY <2>1, FinishGoes
  <2>5. Reaches(freed, maybe_finish(freed, i), n)
    BY <2>2, <2>4, GoesReaches
  <2>6. Reaches(Now, settle(freed, i), n) /\ Reaches(Now, maybe_finish(freed, i), n)
    BY <2>1, <2>3, <2>5, ReachesThen
  <2>7. Gone(freed, settle(freed, i), i) => Gone(Now, settle(freed, i), i)
    BY <1>1, <1>4, RestsGone
  <2>8. acked \in {freed, settle(freed, i), maybe_finish(freed, i)}
    BY DEF Acked, freed
  <2>. HIDE DEF acked
  <2>. QED  BY <2>1, <2>3, <2>4, <2>6, <2>7, <2>8, RestsSelf
<1>6. Len(acked.conns) \in Nat /\ i \in Nat /\ i >= 1
      /\ (Rests(freed, acked) => i \in 1 .. Len(acked.conns))
  <2>. HIDE DEF acked
  <2>1. Len(acked.conns) \in Nat
    BY <1>5, LenProperties DEF Reaches, Whole, Kept
  <2>2. Rests(freed, acked) => Len(acked.conns) = Len(Now.conns)
    BY <1>4 DEF Rests
  <2>. QED  BY <1>1, <2>1, <2>2
<1>. HIDE DEF acked
<1>7. ASSUME ~(i > Len(acked.conns))
      PROVE  /\ Reaches(Now, done, n)
             /\ \/ Silent(acked.conns[i], seg) /\ Rests(acked, done)
                \/ ~seg.syn /\ Takes(acked, done, i, seg)
             /\ Whole(acked, n) /\ Whole(done, n) /\ i \in 1 .. Len(acked.conns)
  <2>1. Whole(acked, n) /\ i \in 1 .. Len(acked.conns)
    BY <1>5, <1>6, <1>7 DEF Reaches
  <2>2. Works(acked, n, i)
    BY <2>1, WholeWorks
  <2>3. /\ Goes(acked, done, n, i)
        /\ \/ Silent(acked.conns[i], seg) /\ Rests(acked, done)
           \/ ~seg.syn /\ Takes(acked, done, i, seg)
    BY <2>1, <2>2, HandledGoes
  <2>. HIDE DEF done
  <2>4. Reaches(acked, done, n)
    BY <2>1, <2>3, GoesReaches
  <2>5. Reaches(Now, done, n)
    BY <1>5, <2>4, ReachesThen
  <2>. QED  BY <2>1, <2>3, <2>5 DEF Reaches
<1>8. ASSUME Rests(freed, acked), Silent(acked.conns[i], seg)
      PROVE  seg.syn \/ Unready(i, seg)
  <2>. SUFFICES ASSUME ~seg.syn PROVE Unready(i, seg)
    OBVIOUS
  <2>1. ~acked.conns[i].handshake_complete
    BY <1>8 DEF Silent, Premature
  <2>2. ~freed.conns[i].handshake_complete /\ ~heard.conns[i].handshake_complete
    <3>1. i \in 1 .. Len(heard.conns) /\ i \in 1 .. Len(freed.conns)
      BY <1>1, <1>2, <1>4 DEF Rests
    <3>. QED  BY <1>4, <1>8, <2>1, <3>1 DEF Rests, Still
  <2>. QED  BY <1>4, <2>2 DEF Unready, heard
<1>. HIDE DEF done
<1>9. CASE Commit(reset)
  BY <1>3, <1>9 DEF Outcome
<1>10. CASE i > Len(acked.conns) /\ Commit(acked)
  <2>1. Gone(Now, acked, i)
    BY <1>5, <1>6, <1>10
  <2>. QED  BY <1>5, <1>10, <2>1 DEF Outcome
<1>11. CASE ~(i > Len(acked.conns)) /\ Commit(done)
  <2>1. CASE Gone(Now, acked, i)
    <3>1. Outcome(done, i, seg)
      BY <1>7, <1>11, <2>1 DEF Outcome
    <3>. QED  BY <1>7, <1>11, <3>1
  <2>2. CASE Rests(freed, acked)
    <3>1. Rests(Now, acked)
      BY <1>4, <2>2, RestsThen
    <3>2. Silent(acked.conns[i], seg) /\ Rests(acked, done) =>
             Rests(Now, done) /\ (seg.syn \/ Unready(i, seg))
      BY <1>8, <2>2, <3>1, RestsThen
    <3>3. Takes(acked, done, i, seg) => Takes(Now, done, i, seg)
      BY <1>7, <1>11, <3>1, RestsTakes
    <3>4. Outcome(done, i, seg)
      BY <1>7, <1>11, <3>2, <3>3 DEF Outcome
    <3>. QED  BY <1>7, <1>11, <3>4
  <2>. QED  BY <1>5, <2>1, <2>2
<1>12. \/ Commit(reset)
       \/ i > Len(acked.conns) /\ Commit(acked)
       \/ ~(i > Len(acked.conns)) /\ Commit(done)
  BY HandleIs DEF reset, acked, done, heard
<1>. QED  BY <1>9, <1>10, <1>11, <1>12

(* A flow that is new: its record, once its SYN-ACK is sent.               *)
SynAck == [kind |-> "SYNACK", seq |-> OurISS, payload |-> <<>>, length |-> 1]
Bare(k, dial, window) ==
    [key |-> k, dial |-> dial, state |-> "SynReceived",
     receive_next |-> sequence_add(ClientISS, 1),
     send_next |-> sequence_add(OurISS, 1),
     send_unacknowledged |-> OurISS, peer_window |-> window,
     handshake_complete |-> FALSE, upstream_connected |-> FALSE,
     upstream_done |-> FALSE, inbound_closed |-> FALSE,
     upstream_paused |-> FALSE, fin_sent |-> FALSE,
     unacknowledged |-> <<>>, send_queue |-> <<>>,
     pending_for_upstream |-> <<>>,
     retransmit_armed |-> TRUE, retransmits |-> 0]
Opened(k, dial, window) ==
    [Bare(k, dial, window) EXCEPT !.unacknowledged = <<SynAck>>]
Opening(t, k, dial, window) ==
    [conns |-> Append(t.conns, Opened(k, dial, window)),
     wire |-> [t.wire EXCEPT ![k] = {Packet("SYNACK", OurISS, <<>>)}],
     up |-> [t.up EXCEPT ![dial] = [@ EXCEPT !.phase = "dialing", !.key = k]]]

LEMMA OpenIs ==
    ASSUME NEW t, t.conns \in Seq(Conn), t.up \in [Dials -> Up], Wired(t.wire),
           NEW k \in Keys, NEW dial \in Dials, NEW window
    PROVE  open(t, k, dial, window) = Opening(t, k, dial, window)
<1>. DEFINE b == Bare(k, dial, window)
            c == Opened(k, dial, window)
            p == Packet("SYNACK", OurISS, <<>>)
            L == Len(t.conns)
            q == Append(t.conns, b)
            clear == [t.wire EXCEPT ![k] = {}]
            u == [t.up[dial] EXCEPT !.phase = "dialing", !.key = k]
            up == [t.up EXCEPT ![dial] = u]
            added == [conns |-> q, wire |-> clear, up |-> up]
<1>1. open(t, k, dial, window) = emit(added, Len(q), "SYNACK", OurISS, <<>>, 1)
  BY DEF open, Bare
<1>2. L \in Nat /\ Len(q) = L + 1 /\ q[L + 1] = b /\ DOMAIN q = 1 .. L + 1
      /\ \A i \in 1 .. L : q[i] = t.conns[i]
  BY LenProperties
<1>3. b.key = k /\ b.dial = dial /\ b.unacknowledged = <<>>
  BY DEF Bare
<1>4. [b EXCEPT !.unacknowledged = Append(@, SynAck), !.send_next = @] = c
  <2>1. Append(<<>>, SynAck) = <<SynAck>>
    OBVIOUS
  <2>2. [b EXCEPT !.unacknowledged = <<SynAck>>, !.send_next = b.send_next]
           = [b EXCEPT !.unacknowledged = <<SynAck>>]
    <3>1. b = [f \in DOMAIN b |-> b[f]]
      BY DEF Bare
    <3>. HIDE DEF b
    <3>. QED  BY <3>1
  <2>. HIDE DEF b
  <2>. QED  BY <1>3, <2>1, <2>2 DEF Opened, b
<1>5. up[dial] = u /\ [up EXCEPT ![dial] = u] = up
  <2>1. up[dial] = u /\ DOMAIN up = Dials
    OBVIOUS
  <2>. HIDE DEF u
  <2>. QED  BY <2>1
<1>6. [clear EXCEPT ![k] = @ \cup {p}] = [t.wire EXCEPT ![k] = {p}]
  <2>. DEFINE f == t.wire
  <2>1. f = [j \in Keys |-> f[j]]
    BY DEF Wired
  <2>. HIDE DEF f, p
  <2>2. [[f EXCEPT ![k] = {}] EXCEPT ![k] = @ \cup {p}] = [f EXCEPT ![k] = {p}]
    BY <2>1
  <2>. QED  BY <2>2 DEF f
<1>7. [q EXCEPT ![L + 1] = c] = Append(t.conns, c)
  <2>. DEFINE T == Conn \cup {b, c}
  <2>1. t.conns \in Seq(T) /\ b \in T /\ c \in T
    BY DEF T
  <2>. HIDE DEF T, b, c
  <2>2. q \in Seq(T) /\ Append(t.conns, c) \in Seq(T)
        /\ Len(Append(t.conns, c)) = L + 1 /\ Append(t.conns, c)[L + 1] = c
        /\ \A i \in 1 .. L : Append(t.conns, c)[i] = t.conns[i]
    BY <2>1, AppendProperties
  <2>. DEFINE r == Append(t.conns, c)
              r2 == [q EXCEPT ![L + 1] = c]
  <2>. HIDE DEF r
  <2>3. L + 1 \in 1 .. Len(q)
    BY <1>2
  <2>4. r2 \in Seq(T) /\ Len(r2) = Len(q) /\ r2[L + 1] = c
        /\ \A i \in 1 .. Len(q) : i # L + 1 => r2[i] = q[i]
    <3>. HIDE DEF q, L
    <3>. QED  BY <2>1, <2>2, <2>3, ExceptSeq
  <2>. HIDE DEF r2
  <2>5. \A i \in 1 .. L + 1 : r[i] = r2[i]
    <3>. SUFFICES ASSUME NEW i \in 1 .. L + 1 PROVE r[i] = r2[i]
      OBVIOUS
    <3>1. CASE i = L + 1
      BY <2>2, <2>4, <3>1 DEF r
    <3>2. CASE i # L + 1
      <4>1. i \in 1 .. L
        BY <1>2, <3>2
      <4>. QED  BY <1>2, <2>2, <2>4, <3>2, <4>1 DEF r
    <3>. QED  BY <3>1, <3>2
  <2>6. r \in Seq(T) /\ Len(r) = L + 1 /\ Len(r2) = L + 1
    BY <1>2, <2>2, <2>4 DEF r
  <2>7. r = r2
    <3>. HIDE DEF L
    <3>. QED  BY <2>4, <2>5, <2>6, SeqEqual
  <2>. QED  BY <2>7 DEF r, r2
<1>8. emit(added, L + 1, "SYNACK", OurISS, <<>>, 1)
         = Update(added, L + 1, c, {p}, added.up[dial])
  <2>1. added.conns[L + 1] = b
    BY <1>2
  <2>. HIDE DEF added, c, p
  <2>2. [b EXCEPT !.unacknowledged = Append(@, SynAck),
                  !.send_next = IF "SYNACK" = "SYNACK" THEN @
                                ELSE sequence_add(@, 1)] = c
    BY <1>4
  <2>. HIDE DEF b
  <2>. QED  BY <1>3, <2>1, <2>2 DEF emit, SynAck, p
<1>9. Update(added, L + 1, c, {p}, added.up[dial])
         = [conns |-> Append(t.conns, c), wire |-> [t.wire EXCEPT ![k] = {p}], up |-> up]
  <2>1. added.conns = q /\ added.wire = clear /\ added.up = up
    OBVIOUS
  <2>2. added.conns[L + 1].key = k /\ added.conns[L + 1].dial = dial
    BY <1>2, <1>3
  <2>. HIDE DEF added, q, c, p, up, clear
  <2>. QED  BY <1>5, <1>6, <1>7, <2>1, <2>2 DEF Update
<1>. QED  BY <1>1, <1>2, <1>8, <1>9 DEF Opening

LEMMA OpenWhole ==
    ASSUME NEW t, NEW n, Whole(t, n), NEW k \in Keys, n + 1 \in Dials,
           \A i \in 1 .. Len(t.conns) : t.conns[i].key # k,
           NEW window \in Windows
    PROVE  Whole(open(t, k, n + 1, window), n + 1)
           /\ Quiet(t, open(t, k, n + 1, window))
           /\ \A h : Flowing(t, h) /\ h[k].got = <<>> /\ ~h[k].gotFin =>
                 Flowing(open(t, k, n + 1, window), h)
<1>. DEFINE dial == n + 1
            p == Packet("SYNACK", OurISS, <<>>)
            c == Opened(k, dial, window)
            q == Append(t.conns, c)
            was == t.up[dial]
            u == [was EXCEPT !.phase = "dialing", !.key = k]
            up == [t.up EXCEPT ![dial] = u]
            lines == [t.wire EXCEPT ![k] = {p}]
            added == [conns |-> q, wire |-> lines, up |-> up]
            L == Len(t.conns)
<1>2. /\ t.conns \in Seq(Conn) /\ L \in Nat /\ t.up \in [Dials -> Up] /\ n \in Nat
      /\ dial \in Dials
      /\ \A i \in 1 .. L : t.conns[i].dial <= n /\ t.conns[i].state # "Closed"
      /\ \A d \in Dials : t.up[d].closes = IF Holds(t, d) \/ d > n THEN 0 ELSE 1
      /\ \A i, j \in 1 .. L : i # j =>
            t.conns[i].dial # t.conns[j].dial /\ t.conns[i].key # t.conns[j].key
      /\ \A i \in 1 .. L : t.up[t.conns[i].dial].key = t.conns[i].key
      /\ \A d \in Dials : d > n => t.up[d].fed = 0
      /\ Wired(t.wire)
  BY LenProperties DEF Whole, Kept
<1>1. open(t, k, dial, window) = added
  <2>1. /\ t.conns \in Seq(Conn) /\ t.up \in [Dials -> Up] /\ Wired(t.wire)
        /\ dial \in Dials
    BY <1>2
  <2>2. added = Opening(t, k, dial, window)
    BY DEF Opening
  <2>. HIDE DEF dial, added
  <2>. QED  BY <2>1, <2>2, OpenIs
<1>3. c \in Conn /\ c.key = k /\ c.dial = dial /\ c.state = "SynReceived"
  <2>1. ClientISS \in Int /\ OurISS \in Int /\ OurISS \in Space
        /\ 0 \in 0 .. MaxRetransmits
    BY Constants DEF Space
  <2>2. sequence_add(ClientISS, 1) \in Space /\ sequence_add(OurISS, 1) \in Space
    BY <2>1, AddInSpace
  <2>3. <<>> \in Bytes /\ <<SynAck>> \in Seq(Unacknowledged)
    <3>1. SynAck \in Unacknowledged /\ <<>> \in Bytes
      BY <2>1 DEF Bytes, SynAck, Unacknowledged
    <3>. HIDE DEF SynAck
    <3>. QED  BY <3>1
  <2>. HIDE DEF dial, SynAck
  <2>. QED  BY <1>2, <2>1, <2>2, <2>3 DEF Conn, Opened, Bare
<1>0. /\ ~c.fin_sent /\ ~c.upstream_done /\ c.unacknowledged = <<SynAck>>
      /\ c.send_queue = <<>> /\ c.send_next = sequence_add(OurISS, 1)
      /\ c.send_unacknowledged = OurISS
  BY DEF Opened, Bare
<1>4. u \in Up /\ u.closes = 0 /\ was.closes = 0 /\ u.key = k /\ u.fed = 0
  <2>1. was \in Up /\ was.closes = 0 /\ was.fed = 0
    <3>1. dial > n
      BY <1>2
    <3>. HIDE DEF dial
    <3>. QED  BY <1>2, <3>1
  <2>. HIDE DEF was
  <2>. QED  BY <2>1 DEF Up
<1>21. /\ Wired(lines) /\ lines[k] = {p}
       /\ \A j \in Keys : j # k => lines[j] = t.wire[j]
  <2>. DEFINE f == t.wire
  <2>1. f = [j \in Keys |-> f[j]] /\ lines = [f EXCEPT ![k] = {p}]
    BY <1>2 DEF Wired
  <2>. HIDE DEF f, lines, p
  <2>2. /\ Wired(lines) /\ lines[k] = {p}
        /\ \A j \in Keys : j # k => lines[j] = f[j]
    BY <2>1 DEF Wired
  <2>. QED  BY <2>2 DEF f
<1>. HIDE DEF c, u, lines, p
<1>5. q \in Seq(Conn) /\ Len(q) = L + 1 /\ q[L + 1] = c
      /\ \A i \in 1 .. L : q[i] = t.conns[i]
  BY <1>2, <1>3, AppendProperties
<1>6. up \in [Dials -> Up] /\ up[dial] = u /\ \A d \in Dials : d # dial => up[d] = t.up[d]
  BY <1>2, <1>4
<1>7. added.conns = q /\ added.up = up /\ added.wire = lines /\ Shaped(added)
  BY DEF Shaped
<1>. HIDE DEF q, up, added, L
<1>8. \A i \in 1 .. Len(q) : i \in 1 .. L \/ i = L + 1
  BY <1>2, <1>5
<1>9. ASSUME NEW i \in 1 .. Len(q)
      PROVE  q[i].dial <= dial /\ q[i].state # "Closed"
  <2>1. CASE i \in 1 .. L
    <3>1. q[i] = t.conns[i] /\ t.conns[i] \in Conn /\ t.conns[i].dial <= n
          /\ t.conns[i].state # "Closed"
      BY <1>2, <1>5, <2>1, ElementOfSeq DEF L
    <3>2. t.conns[i].dial \in Nat /\ n \in Nat
      BY <1>2, <3>1, Fields, DialsAre
    <3>3. q[i].dial <= n + 1
      BY <3>1, <3>2
    <3>. QED  BY <3>1, <3>3
  <2>2. CASE i = L + 1
    BY <1>2, <1>3, <1>5, <2>2
  <2>. QED  BY <1>8, <2>1, <2>2
<1>10. \A i \in 1 .. L : q[i].dial # dial /\ q[i].key # k
  BY <1>2, <1>5 DEF L
<1>11. ASSUME NEW i \in 1 .. Len(q), NEW j \in 1 .. Len(q), i # j
       PROVE  q[i].dial # q[j].dial /\ q[i].key # q[j].key
  <2>1. CASE i \in 1 .. L /\ j \in 1 .. L
    BY <1>2, <1>5, <1>11, <2>1
  <2>2. CASE i = L + 1 /\ j \in 1 .. L
    BY <1>3, <1>5, <1>10, <2>2
  <2>3. CASE j = L + 1 /\ i \in 1 .. L
    BY <1>3, <1>5, <1>10, <2>3
  <2>. QED  BY <1>8, <1>11, <2>1, <2>2, <2>3
<1>12. ASSUME NEW d \in Dials, d # dial
       PROVE  Holds(added, d) <=> Holds(t, d)
  <2>1. ASSUME Holds(added, d) PROVE Holds(t, d)
    <3>1. PICK i \in 1 .. Len(q) : q[i].dial = d /\ q[i].state # "Closed"
      BY <1>7, <2>1 DEF Holds
    <3>2. i \in 1 .. L
      BY <1>3, <1>5, <1>8, <1>12, <3>1
    <3>. QED  BY <1>5, <3>1, <3>2 DEF Holds, L
  <2>2. ASSUME Holds(t, d) PROVE Holds(added, d)
    <3>1. PICK i \in 1 .. L : t.conns[i].dial = d /\ t.conns[i].state # "Closed"
      BY <2>2 DEF Holds, L
    <3>2. i \in 1 .. Len(q) /\ q[i] = t.conns[i]
      BY <1>2, <1>5, <3>1
    <3>. QED  BY <1>7, <3>1, <3>2 DEF Holds
  <2>. QED  BY <2>1, <2>2
<1>13. Holds(added, dial)
  <2>1. L + 1 \in 1 .. Len(q)
    BY <1>2, <1>5
  <2>. QED  BY <1>3, <1>5, <1>7, <2>1 DEF Holds
<1>14. \A d \in Dials : up[d].closes = IF Holds(added, d) \/ d > dial THEN 0 ELSE 1
  <2>1. ASSUME NEW d \in Dials, d # dial
        PROVE  d > n <=> d > dial
    BY <1>2, <2>1, DialsAre
  <2>2. ASSUME NEW d \in Dials
        PROVE  up[d].closes = IF Holds(added, d) \/ d > dial THEN 0 ELSE 1
    <3>1. CASE d = dial
      BY <1>4, <1>6, <1>13, <3>1
    <3>2. CASE d # dial
      <4>1. up[d] = t.up[d] /\ (Holds(added, d) <=> Holds(t, d)) /\ (d > n <=> d > dial)
        BY <1>6, <1>12, <2>1, <3>2
      <4>. QED  BY <1>2, <4>1
    <3>. QED  BY <3>1, <3>2
  <2>. QED  BY <2>2
<1>15. Whole(added, dial)
  <2>1. dial \in Nat
    BY <1>2
  <2>. HIDE DEF dial
  <2>2. added = [conns |-> added.conns, wire |-> added.wire, up |-> added.up]
    BY <1>7 DEF Shaped
  <2>4. ASSUME NEW i \in 1 .. Len(q) PROVE up[q[i].dial].key = q[i].key
    <3>1. CASE i \in 1 .. L
      <4>1. t.conns[i].dial \in Dials /\ q[i] = t.conns[i] /\ q[i].dial # dial
        BY <1>2, <1>5, <1>10, <3>1, ElementOfSeq, Fields DEF L
      <4>. QED  BY <1>2, <1>6, <3>1, <4>1
    <3>2. CASE i = L + 1
      BY <1>3, <1>4, <1>5, <1>6, <3>2
    <3>. QED  BY <1>8, <3>1, <3>2
  <2>5. \A d \in Dials : d > dial => up[d].fed = 0
    <3>1. \A d \in Dials : d > dial => d > n /\ d # dial
      BY <1>2, DialsAre DEF dial
    <3>. QED  BY <1>2, <1>6, <3>1
  <2>3. Kept(added, dial)
    BY <1>5, <1>6, <1>7, <1>9, <1>11, <1>14, <1>21, <2>1, <2>2, <2>4, <2>5 DEF Kept
  <2>. QED  BY <1>7, <1>9, <2>3 DEF Whole
<1>16. Quiet(t, added)
  BY <1>4, <1>6, <1>7 DEF Quiet
<1>22. ASSUME NEW h, Flowing(t, h), h[k].got = <<>>, ~h[k].gotFin
       PROVE  Flowing(added, h)
  <2>1. Streaming(c, u, {p}, h[k])
    BY <1>0, <1>4, <1>22, NewStreams DEF Untouched, SynAck, p
  <2>2. ASSUME NEW i \in 1 .. Len(q)
        PROVE  Streaming(q[i], up[q[i].dial], lines[q[i].key], h[q[i].key])
    <3>1. CASE i \in 1 .. L
      <4>1. /\ t.conns[i].dial \in Dials /\ t.conns[i].key \in Keys
            /\ q[i] = t.conns[i] /\ q[i].dial # dial /\ q[i].key # k
        BY <1>2, <1>5, <1>10, <3>1, ElementOfSeq, Fields DEF L
      <4>2. Streaming(t.conns[i], t.up[t.conns[i].dial],
                      t.wire[t.conns[i].key], h[t.conns[i].key])
        BY <1>2, <1>22, <3>1 DEF Flowing, L
      <4>. QED  BY <1>6, <1>21, <4>1, <4>2
    <3>2. CASE i = L + 1
      BY <1>3, <1>5, <1>6, <1>21, <2>1, <3>2
    <3>. QED  BY <1>8, <3>1, <3>2
  <2>3. ASSUME NEW j \in Keys
        PROVE  \E m \in 0 .. RelayBytes, fin \in BOOLEAN : Line(h[j], lines[j], m, fin)
    <3>1. CASE j # k
      BY <1>21, <1>22, <3>1 DEF Flowing
    <3>2. CASE j = k
      <4>1. Line(h[k], {p}, u.fed, c.fin_sent)
        BY <2>1 DEF Streaming
      <4>2. u.fed \in 0 .. RelayBytes /\ c.fin_sent \in BOOLEAN
        BY <1>3, <1>4 DEF Up, Conn
      <4>. QED  BY <1>21, <3>2, <4>1, <4>2
    <3>. QED  BY <3>1, <3>2
  <2>. QED  BY <1>7, <2>2, <2>3 DEF Flowing
<1>. QED  BY <1>1, <1>15, <1>16, <1>22 DEF dial

-----------------------------------------------------------------------------
(* The local stack.                                                        *)

Phases == {"idle", "synsent", "open", "gone"}
Endpoint(G) == [phase : Phases, may : Traits, sent : Nat, fin : BOOLEAN,
                got : G, gotFin : BOOLEAN]

(* A client has got nothing before its connection is open.                 *)
Unheard(cl) == \A k \in Keys : cl[k].phase \in {"idle", "synsent"} => Untouched(cl[k])

Locals(cl) == (\E G : cl \in [Keys -> Endpoint(G)]) /\ Unheard(cl)

Sound ==
    /\ Whole(Now, next_dial) /\ next_dial <= Cardinality(Keys)
    /\ closed \in BOOLEAN /\ Locals(client) /\ Flowing(Now, client)

(* What a step does to the table.                                          *)
Moved ==
    /\ Whole(Now, next_dial)' /\ Quiet(Now, Now')
    /\ next_dial' <= Cardinality(Keys) /\ Flowing(Now', client')

(* What the clients have got is what it was.                               *)
Hears(h, g) == \A k \in Keys : g[k].got = h[k].got /\ g[k].gotFin = h[k].gotFin

LEMMA FlowingSame ==
    ASSUME NEW t, NEW n, Kept(t, n), NEW h, NEW g, Hears(h, g), Flowing(t, h)
    PROVE  Flowing(t, g)
<1>1. ASSUME NEW k \in Keys, NEW w, NEW m, NEW fin, Line(h[k], w, m, fin)
      PROVE  Line(g[k], w, m, fin)
  BY <1>1 DEF Hears, Line
<1>2. \A i \in 1 .. Len(t.conns) : t.conns[i].key \in Keys
  <2>1. t.conns \in Seq(Conn)
    BY DEF Kept
  <2>. QED  BY <2>1, ElementOfSeq, Fields
<1>5. ASSUME NEW k \in Keys, NEW c, NEW w, Before(c, w, h[k])
      PROVE  Before(c, w, g[k])
  BY <1>5 DEF Hears, Before, Untouched
<1>3. \A i \in 1 .. Len(t.conns) : t.conns[i].state # "Closed" =>
         Streaming(t.conns[i], t.up[t.conns[i].dial],
                   t.wire[t.conns[i].key], g[t.conns[i].key])
  BY <1>1, <1>2, <1>5 DEF Flowing, Streaming
<1>4. \A k \in Keys : \E m \in 0 .. RelayBytes, fin \in BOOLEAN :
         Line(g[k], t.wire[k], m, fin)
  BY <1>1 DEF Flowing
<1>. QED  BY <1>3, <1>4 DEF Flowing

LEMMA SameHears ==
    ASSUME UNCHANGED client
    PROVE  Hears(client, client')
  BY DEF Hears

LEMMA Committed ==
    ASSUME NEW n, NEW u, Reaches(Now, u, n), Commit(u)
    PROVE  Now' = u
<1>1. u = [conns |-> u.conns, wire |-> u.wire, up |-> u.up]
  BY DEF Reaches, Whole, Kept
<1>. QED  BY <1>1 DEF Commit, Now

LEMMA CommitMoves ==
    ASSUME Sound, NEW u, Reaches(Now, u, next_dial), Commit(u), UNCHANGED next_dial,
           Hears(client, client')
    PROVE  Moved
<1>1. Now' = u
  BY Committed
<1>2. Whole(u, next_dial) /\ Quiet(Now, u) /\ Kept(u, next_dial) /\ Flowing(u, client)
  BY DEF Reaches, Onward, Carries, Sound, Whole
<1>3. Flowing(u, client')
  BY <1>2, FlowingSame
<1>. QED  BY <1>1, <1>2, <1>3 DEF Moved, Sound

LEMMA StillMoves ==
    ASSUME Sound, UNCHANGED <<connections, next_dial, wire, upstream>>,
           Hears(client, client')
    PROVE  Moved
<1>1. Now' = Now
  BY DEF Now
<1>2. Whole(Now, next_dial) /\ Kept(Now, next_dial) /\ Flowing(Now, client)
  BY DEF Sound, Whole
<1>3. Flowing(Now, client')
  BY <1>2, FlowingSame
<1>. QED  BY <1>1, <1>2, <1>3 DEF Moved, Sound, Quiet

LEMMA OwnTraits ==
    ASSUME Sound, NEW k \in Keys
    PROVE  /\ client[k].may.windows \subseteq Windows
           /\ client[k].may.lengths \subseteq 1 .. ClientBytes
           /\ client[k].may.replies \in 0 .. RelayBytes
           /\ client[k].sent \in Nat
<1>1. PICK G : client \in [Keys -> Endpoint(G)]
  BY DEF Sound, Locals
<1>2. client[k] \in Endpoint(G)
  BY <1>1
<1>3. client[k].may \in Traits /\ client[k].sent \in Nat
  BY <1>2 DEF Endpoint
<1>. QED  BY <1>3 DEF Traits

LEMMA SegmentLegal ==
    ASSUME NEW k \in Keys, NEW from \in Int, NEW n \in Int, NEW fin, NEW ackno,
           NEW w \in Windows
    PROVE  /\ Legal(Segment(k, from, n, fin, ackno, w))
           /\ Legal([Segment(k, from, n, fin, ackno, w) EXCEPT !.rst = TRUE])
           /\ ~Segment(k, from, n, fin, ackno, w).syn
           /\ ~[Segment(k, from, n, fin, ackno, w) EXCEPT !.rst = TRUE].syn
<1>1. sequence_add(ClientISS, from) \in Int
  BY Constants, AddInSpace DEF Space
<1>2. Counting(from, from + n - 1) \in Bytes
  BY CountingIsBytes
<1>. QED  BY <1>1, <1>2 DEF Legal, Segment

LEMMA SynLegal ==
    ASSUME NEW k \in Keys, NEW w \in Windows
    PROVE  Legal(SynSegment(k, w))
<1>1. ClientISS \in Int /\ <<>> \in Bytes
  BY Constants DEF Space, Bytes
<1>. QED  BY <1>1 DEF Legal, SynSegment

LEMMA AcceptMoves ==
    ASSUME Sound, NEW seg, Legal(seg), accept(seg), Hears(client, client'),
           seg.syn /\ IndexOfKey(seg.key) = {} => Untouched(client[seg.key])
    PROVE  Moved
<1>1. CASE closed
  BY <1>1, StillMoves DEF accept
<1>2. ASSUME NEW i \in IndexOfKey(seg.key), handle(i, seg), UNCHANGED next_dial
      PROVE  Moved
  <2>1. Whole(Now, next_dial) /\ i \in 1 .. Len(connections)
    BY LenProperties DEF Sound, Whole, Kept, Now, IndexOfKey
  <2>2. \E u : Reaches(Now, u, next_dial) /\ Commit(u)
    BY <1>2, <2>1, HandleReaches
  <2>. QED  BY <1>2, <2>2, CommitMoves
<1>3. ASSUME IndexOfKey(seg.key) = {}, seg.syn,
             next_dial < MaxDials, next_dial' = next_dial + 1,
             Commit(open(Now, seg.key, next_dial + 1, seg.window))
      PROVE  Moved
  <2>. DEFINE u == open(Now, seg.key, next_dial + 1, seg.window)
  <2>1. Whole(Now, next_dial) /\ next_dial \in Nat /\ Now.conns = connections
    BY DEF Sound, Whole, Kept, Now
  <2>2. MaxDials \in Nat /\ MaxDials <= Cardinality(Keys)
    <3>. DEFINE O == {k \in Keys : client[k].may.opens}
    <3>1. IsFiniteSet(O) /\ Cardinality(O) <= Cardinality(Keys)
      <4>1. O \in SUBSET Keys /\ IsFiniteSet(Keys)
        BY Constants
      <4>. HIDE DEF O
      <4>. QED  BY <4>1, FS_Subset
    <3>. HIDE DEF O
    <3>2. Cardinality(O) \in Nat
      BY <3>1, FS_CardinalityType
    <3>. QED  BY <3>1, <3>2 DEF MaxDials, O
  <2>3. next_dial + 1 \in Dials /\ next_dial + 1 <= Cardinality(Keys)
    BY <1>3, <2>1, <2>2, DialsAre
  <2>4. \A i \in 1 .. Len(Now.conns) : Now.conns[i].key # seg.key
    <3>1. DOMAIN connections = 1 .. Len(connections)
      BY <2>1, LenProperties DEF Whole, Kept
    <3>. QED  BY <1>3, <2>1, <3>1 DEF IndexOfKey
  <2>5. seg.key \in Keys /\ seg.window \in Windows
    BY DEF Legal
  <2>6. /\ Whole(u, next_dial + 1) /\ Quiet(Now, u)
        /\ \A h : Flowing(Now, h) /\ h[seg.key].got = <<>> /\ ~h[seg.key].gotFin =>
              Flowing(u, h)
    BY <2>1, <2>3, <2>4, <2>5, OpenWhole
  <2>7. Commit(u)
    BY <1>3
  <2>. HIDE DEF u
  <2>8. Now' = u
    <3>1. u = [conns |-> u.conns, wire |-> u.wire, up |-> u.up]
      BY <2>6 DEF Whole, Kept
    <3>. QED  BY <2>7, <3>1 DEF Commit, Now
  <2>9. Flowing(u, client')
    <3>1. Untouched(client[seg.key]) /\ Flowing(Now, client) /\ Kept(u, next_dial + 1)
      BY <1>3, <2>6 DEF Sound, Whole
    <3>2. Flowing(u, client)
      BY <2>6, <3>1 DEF Untouched
    <3>. QED  BY <3>1, <3>2, FlowingSame
  <2>. QED  BY <1>3, <2>3, <2>6, <2>8, <2>9 DEF Moved
<1>4. ASSUME UNCHANGED <<connections, next_dial, wire, upstream>>
      PROVE  Moved
  BY <1>4, StillMoves
<1>. QED  BY <1>1, <1>2, <1>3, <1>4 DEF accept

LEMMA LostMoves ==
    ASSUME Sound, NEW k \in Keys, Lost(k), Hears(client, client')
    PROVE  Moved
<1>1. UNCHANGED <<connections, next_dial, wire, upstream>>
  BY DEF Lost
<1>. QED  BY <1>1, StillMoves

LEMMA SynSteps ==
    ASSUME Sound, NEW k \in Keys, ClientSyn(k)
    PROVE  Moved /\ Locals(client)' /\ UNCHANGED closed
<1>1. PICK G : client \in [Keys -> Endpoint(G)]
  BY DEF Sound, Locals
<1>2. client' \in [Keys -> Endpoint(G)]
  BY <1>1 DEF ClientSyn, Endpoint, Phases
<1>4. Hears(client, client') /\ Unheard(client')
  BY <1>1 DEF ClientSyn, Endpoint, Hears, Unheard, Untouched, Sound, Locals
<1>3. Moved
  <2>1. ASSUME NEW w \in client[k].may.windows, accept(SynSegment(k, w))
        PROVE  Moved
    <3>. DEFINE seg == SynSegment(k, w)
    <3>1. Legal(seg)
      BY OwnTraits, SynLegal
    <3>2. IndexOfKey(k) = {} => Untouched(client[k])
      BY DEF ClientSyn, Sound, Locals, Unheard
    <3>3. seg.key = k
      BY DEF SynSegment
    <3>4. accept(seg)
      BY <2>1
    <3>. HIDE DEF seg
    <3>. QED  BY <1>4, <3>1, <3>2, <3>3, <3>4, AcceptMoves
  <2>2. CASE Lost(k)
    BY <1>4, <2>2, LostMoves
  <2>. QED  BY <2>1, <2>2 DEF ClientSyn
<1>. QED  BY <1>2, <1>3, <1>4 DEF ClientSyn, Locals

LEMMA SendSteps ==
    ASSUME Sound, NEW k \in Keys, ClientSend(k)
    PROVE  Moved /\ Locals(client)' /\ UNCHANGED closed
<1>1. PICK G : client \in [Keys -> Endpoint(G)]
  BY DEF Sound, Locals
<1>2. PICK n \in client[k].may.lengths \cup {0}, fin \in BOOLEAN,
           w \in client[k].may.windows :
         /\ client' = [client EXCEPT ![k].sent = @ + n, ![k].fin = @ \/ fin]
         /\ \/ accept(Segment(k, client[k].sent + 1 + (IF client[k].fin THEN 1 ELSE 0),
                              n, fin, ClientAckno(k), w))
            \/ Lost(k)
  BY DEF ClientSend
<1>3. n \in Nat /\ client[k].sent \in Nat /\ w \in Windows
  BY OwnTraits
<1>4. client' \in [Keys -> Endpoint(G)]
  <2>. DEFINE c == client[k]
              d == [c EXCEPT !.sent = @ + n, !.fin = @ \/ fin]
  <2>1. client' = [client EXCEPT ![k] = d]
    BY <1>2
  <2>2. d \in Endpoint(G)
    <3>1. c \in Endpoint(G) /\ c.sent + n \in Nat /\ (c.fin \/ fin) \in BOOLEAN
      BY <1>1, <1>3
    <3>. HIDE DEF c
    <3>. QED  BY <3>1 DEF Endpoint
  <2>. HIDE DEF d
  <2>. QED  BY <1>1, <2>1, <2>2
<1>6. Hears(client, client') /\ Unheard(client')
  <2>1. \A j \in Keys : /\ client'[j].got = client[j].got /\ client'[j].gotFin = client[j].gotFin
                       /\ client'[j].phase = client[j].phase
    BY <1>1, <1>2 DEF Endpoint
  <2>. QED  BY <2>1 DEF Hears, Unheard, Untouched, Sound, Locals
<1>5. Moved
  <2>. DEFINE from == client[k].sent + 1 + (IF client[k].fin THEN 1 ELSE 0)
              seg == Segment(k, from, n, fin, ClientAckno(k), w)
  <2>1. from \in Int /\ n \in Int
    BY <1>3
  <2>. HIDE DEF from
  <2>2. Legal(seg) /\ ~seg.syn
    BY <1>3, <2>1, SegmentLegal
  <2>3. accept(seg) \/ Lost(k)
    BY <1>2 DEF from
  <2>. HIDE DEF seg
  <2>4. CASE accept(seg)
    BY <1>6, <2>2, <2>4, AcceptMoves
  <2>5. CASE Lost(k)
    BY <1>6, <2>5, LostMoves
  <2>. QED  BY <2>3, <2>4, <2>5
<1>. QED  BY <1>4, <1>5, <1>6 DEF ClientSend, Locals

LEMMA ResendSteps ==
    ASSUME Sound, NEW k \in Keys, ClientResend(k)
    PROVE  Moved /\ Locals(client)' /\ UNCHANGED closed
<1>1. PICK n \in client[k].may.lengths \cup {0}, from \in 1 .. client[k].sent + 1,
           ackno \in StaleAcknos(k), w \in client[k].may.windows, fin \in BOOLEAN :
         accept(Segment(k, from, n, fin, ackno, w))
  BY DEF ClientResend
<1>2. n \in Int /\ from \in Int /\ w \in Windows
  BY OwnTraits
<1>3. Legal(Segment(k, from, n, fin, ackno, w)) /\ ~Segment(k, from, n, fin, ackno, w).syn
  BY <1>2, SegmentLegal
<1>5. Hears(client, client') /\ UNCHANGED client
  BY SameHears DEF ClientResend
<1>4. Moved
  BY <1>1, <1>3, <1>5, AcceptMoves
<1>. QED  BY <1>4, <1>5 DEF ClientResend, Sound, Locals

LEMMA ResetSteps ==
    ASSUME Sound, NEW k \in Keys, ClientReset(k)
    PROVE  Moved /\ Locals(client)' /\ UNCHANGED closed
<1>1. PICK G : client \in [Keys -> Endpoint(G)]
  BY DEF Sound, Locals
<1>2. client' \in [Keys -> Endpoint(G)]
  BY <1>1 DEF ClientReset, Endpoint, Phases
<1>7. Hears(client, client') /\ Unheard(client')
  BY <1>1 DEF ClientReset, Endpoint, Hears, Unheard, Untouched, Sound, Locals
<1>3. client[k].sent + 1 \in Int /\ 0 \in Int
  BY OwnTraits
<1>4. ASSUME NEW w \in client[k].may.windows,
             accept([Segment(k, client[k].sent + 1, 0, FALSE, ClientAckno(k), w)
                       EXCEPT !.rst = TRUE])
      PROVE  Moved
  <2>. DEFINE seg == [Segment(k, client[k].sent + 1, 0, FALSE, ClientAckno(k), w)
                        EXCEPT !.rst = TRUE]
  <2>1. w \in Windows
    BY OwnTraits
  <2>2. Legal(seg) /\ ~seg.syn
    BY <1>3, <2>1, SegmentLegal
  <2>. HIDE DEF seg
  <2>3. accept(seg)
    BY <1>4 DEF seg
  <2>. QED  BY <1>7, <2>2, <2>3, AcceptMoves
<1>5. Lost(k) => Moved
  BY <1>7, LostMoves
<1>6. Moved
  BY <1>4, <1>5 DEF ClientReset
<1>. QED  BY <1>2, <1>6, <1>7 DEF ClientReset, Locals

(* What a client makes of a packet: in-order bytes and the FIN behind them *)
(* are taken, everything else is dropped.                                  *)
Expected(x) == sequence_add(OurISS, 1 + Len(x.got) + IF x.gotFin THEN 1 ELSE 0)

Took(x, p, y) ==
    \/ y.got = x.got /\ (y.gotFin <=> x.gotFin)
    \/ /\ p.kind = "DATA" /\ p.seq = Expected(x)
       /\ y.got = x.got \o p.payload /\ (y.gotFin <=> x.gotFin)
    \/ p.kind = "FIN" /\ p.seq = Expected(x) /\ y.got = x.got

LEMMA TookLine ==
    ASSUME NEW x, NEW w, NEW n \in 0 .. RelayBytes, NEW fin, Line(x, w, n, fin),
           NEW p \in w, NEW y, Took(x, p, y)
    PROVE  Line(y, w \ {p}, n, fin)
<1>1. PICK m \in 0 .. n : x.got = Counting(1, m) /\ (x.gotFin => fin /\ m = n)
  BY DEF Line
<1>2. Fits(p, n, fin) /\ \A q \in w \ {p} : Fits(q, n, fin)
  BY DEF Line
<1>3. /\ n \in Nat /\ m \in Nat /\ m <= n /\ n <= RelayBytes /\ RelayBytes \in Nat
      /\ OurISS \in Int
  BY Constants DEF Space
<1>4. Len(x.got) = m
  <2>1. 1 <= m + 1 /\ m - 1 + 1 = m
    BY <1>3
  <2>. QED  BY <1>1, <1>3, <2>1, CountingIs
<1>5. /\ x.gotFin => Expected(x) = sequence_add(OurISS, n + 2)
      /\ ~x.gotFin => Expected(x) = sequence_add(OurISS, m + 1)
  <2>1. 1 + m + 1 = m + 2 /\ 1 + m + 0 = m + 1
    BY <1>3
  <2>. QED  BY <1>1, <1>4, <2>1 DEF Expected
<1>6. CASE y.got = x.got /\ (y.gotFin <=> x.gotFin)
  BY <1>1, <1>2, <1>6 DEF Line
<1>7. CASE /\ p.kind = "DATA" /\ p.seq = Expected(x)
           /\ y.got = x.got \o p.payload /\ (y.gotFin <=> x.gotFin)
  <2>1. PICK a \in 1 .. n, b \in 1 .. n : /\ a <= b /\ p.payload = Counting(a, b)
                                         /\ p.seq = sequence_add(OurISS, a)
    BY <1>2, <1>7 DEF Fits, Run
  <2>2. SeqSpace \in Nat /\ n + 1 < SeqSpace
    <3>1. SeqSpace \in Nat /\ SeqSpace > 4 * (1 + ClientBytes + RelayBytes)
          /\ ClientBytes \in Nat
      BY TerminatorAssumption
    <3>. QED  BY <1>3, <2>1, <3>1
  <2>3. ~x.gotFin
    <3>1. ASSUME x.gotFin PROVE FALSE
      <4>1. sequence_add(OurISS, a) = sequence_add(OurISS, n + 2)
        BY <1>5, <1>7, <2>1, <3>1
      <4>2. a - (n + 2) < SeqSpace /\ n + 2 - a < SeqSpace /\ a # n + 2
            /\ a \in Int /\ n + 2 \in Int
        BY <1>3, <2>1, <2>2
      <4>. QED  BY <1>3, <4>1, <4>2, AddTells
    <3>. QED  BY <3>1
  <2>4. a = m + 1
    <3>1. sequence_add(OurISS, a) = sequence_add(OurISS, m + 1)
      BY <1>5, <1>7, <2>1, <2>3
    <3>2. a - (m + 1) < SeqSpace /\ m + 1 - a < SeqSpace /\ a \in Int /\ m + 1 \in Int
      BY <1>3, <2>1, <2>2
    <3>. QED  BY <1>3, <3>1, <3>2, AddTells
  <2>5. y.got = Counting(1, b)
    <3>1. 1 \in Int /\ m \in Int /\ b \in Int /\ 1 <= m + 1 /\ m <= b
      BY <1>3, <2>1, <2>4
    <3>2. Counting(1, m) \o Counting(m + 1, b) = Counting(1, b)
      BY <3>1, CountingJoins
    <3>. QED  BY <1>1, <1>7, <2>1, <2>4, <3>2
  <2>6. b \in 0 .. n /\ ~y.gotFin
    BY <1>3, <1>7, <2>1, <2>3
  <2>. QED  BY <1>2, <2>5, <2>6 DEF Line
<1>8. CASE p.kind = "FIN" /\ p.seq = Expected(x) /\ y.got = x.got
  <2>1. fin /\ p.seq = sequence_add(OurISS, n + 1)
    BY <1>2, <1>8 DEF Fits
  <2>2. m = n
    <3>1. CASE x.gotFin
      BY <1>1, <3>1
    <3>2. CASE ~x.gotFin
      <4>1. sequence_add(OurISS, n + 1) = sequence_add(OurISS, m + 1)
        BY <1>5, <1>8, <2>1, <3>2
      <4>2. SeqSpace \in Nat /\ SeqSpace > 0 /\ SeqSpace > 4 * (1 + ClientBytes + RelayBytes)
            /\ ClientBytes \in Nat
        BY Constants, TerminatorAssumption
      <4>3. n + 1 - (m + 1) < SeqSpace /\ m + 1 - (n + 1) < SeqSpace
            /\ n + 1 \in Int /\ m + 1 \in Int
        BY <1>3, <4>2
      <4>4. n + 1 = m + 1
        BY <1>3, <4>1, <4>3, AddTells
      <4>. QED  BY <1>3, <4>4
    <3>. QED  BY <3>1, <3>2
  <2>. QED  BY <1>1, <1>2, <1>8, <2>1, <2>2 DEF Line
<1>. QED  BY <1>6, <1>7, <1>8 DEF Took

(* A packet that leaves the wire is nothing to the table, and what its     *)
(* client makes of it leaves the stream as it is.                          *)
LEMMA WireMoves ==
    ASSUME Sound, NEW k \in Keys, NEW p \in wire[k],
           wire' = [wire EXCEPT ![k] = @ \ {p}], Took(client[k], p, client'[k]),
           \A j \in Keys : j # k => client'[j] = client[j],
           UNCHANGED <<connections, next_dial, upstream>>
    PROVE  Moved
<1>. DEFINE t == Now
            u == [conns |-> connections, wire |-> wire', up |-> upstream]
<1>1. Now' = u
  BY DEF Now
<1>2. /\ u.conns = t.conns /\ u.up = t.up /\ Shaped(u)
      /\ t.wire = wire /\ u.wire = wire'
  BY DEF Now, Shaped
<1>3. Whole(t, next_dial) /\ Kept(t, next_dial) /\ Flowing(t, client)
  BY DEF Sound, Whole
<1>. HIDE DEF t, u
<1>4. \A d \in Dials : Holds(u, d) <=> Holds(t, d)
  BY <1>2 DEF Holds
<1>7. /\ Wired(u.wire) /\ u.wire[k] = t.wire[k] \ {p}
      /\ \A j \in Keys : j # k => u.wire[j] = t.wire[j]
  <2>1. t.wire = [j \in Keys |-> t.wire[j]] /\ u.wire = [t.wire EXCEPT ![k] = @ \ {p}]
    BY <1>2, <1>3 DEF Kept, Wired
  <2>. DEFINE f == t.wire
              g == u.wire
  <2>. HIDE DEF f, g
  <2>2. /\ Wired(g) /\ g[k] = f[k] \ {p} /\ \A j \in Keys : j # k => g[j] = f[j]
    <3>1. f = [j \in Keys |-> f[j]] /\ g = [f EXCEPT ![k] = f[k] \ {p}]
      BY <2>1 DEF f, g
    <3>. DEFINE left == f[k] \ {p}
    <3>. HIDE DEF left
    <3>2. f = [j \in Keys |-> f[j]] /\ g = [f EXCEPT ![k] = left]
      BY <3>1 DEF left
    <3>3. Wired(g) /\ g[k] = left /\ \A j \in Keys : j # k => g[j] = f[j]
      BY <3>2 DEF Wired
    <3>. QED  BY <3>3 DEF left
  <2>. QED  BY <2>2 DEF f, g
<1>5. Whole(u, next_dial)
  <2>1. Kept(u, next_dial)
    BY <1>2, <1>3, <1>4, <1>7 DEF Kept, Shaped
  <2>. QED  BY <1>2, <1>3, <2>1 DEF Whole
<1>6. Quiet(t, u)
  BY <1>2 DEF Quiet
<1>8. ASSUME NEW j \in Keys, NEW n \in 0 .. RelayBytes, NEW fin,
             Line(client[j], t.wire[j], n, fin)
      PROVE  Line(client'[j], u.wire[j], n, fin)
  <2>1. CASE j = k
    <3>1. p \in t.wire[k]
      BY <1>2
    <3>. QED  BY <1>7, <1>8, <2>1, <3>1, TookLine
  <2>2. CASE j # k
    BY <1>7, <1>8, <2>2
  <2>. QED  BY <2>1, <2>2
<1>12. ASSUME NEW j \in Keys, NEW c, Before(c, t.wire[j], client[j])
       PROVE  Before(c, u.wire[j], client'[j])
  <2>1. CASE j = k
    <3>1. p \in t.wire[k] /\ u.wire[k] \subseteq t.wire[k]
      BY <1>2, <1>7
    <3>. SUFFICES ASSUME ~c.handshake_complete
                  PROVE  Untouched(client'[j]) /\ Empty(u.wire[j])
      BY <1>12 DEF Before
    <3>2. Untouched(client[j]) /\ Empty(t.wire[j])
      BY <1>12 DEF Before
    <3>3. p.kind # "DATA" /\ p.kind # "FIN"
      BY <2>1, <3>1, <3>2 DEF Empty
    <3>. QED  BY <2>1, <3>1, <3>2, <3>3 DEF Empty, Untouched, Took
  <2>2. CASE j # k
    BY <1>7, <1>12, <2>2
  <2>. QED  BY <2>1, <2>2
<1>9. ASSUME NEW i \in 1 .. Len(t.conns), t.conns[i].state # "Closed"
      PROVE  Streaming(t.conns[i], t.up[t.conns[i].dial],
                       u.wire[t.conns[i].key], client'[t.conns[i].key])
  <2>1. t.conns[i].key \in Keys /\ t.up[t.conns[i].dial].fed \in 0 .. RelayBytes
    <3>1. t.conns[i] \in Conn /\ t.up \in [Dials -> Up]
      BY <1>3, ElementOfSeq DEF Kept
    <3>2. t.conns[i].key \in Keys /\ t.conns[i].dial \in Dials
      BY <3>1, Fields
    <3>. QED  BY <3>1, <3>2 DEF Up
  <2>2. Streaming(t.conns[i], t.up[t.conns[i].dial],
                  t.wire[t.conns[i].key], client[t.conns[i].key])
    BY <1>3, <1>9 DEF Flowing
  <2>. QED  BY <1>8, <1>12, <2>1, <2>2 DEF Streaming
<1>10. \A j \in Keys : \E n \in 0 .. RelayBytes, fin \in BOOLEAN :
          Line(client'[j], u.wire[j], n, fin)
  BY <1>3, <1>8 DEF Flowing
<1>11. Flowing(u, client')
  BY <1>2, <1>9, <1>10 DEF Flowing
<1>. QED  BY <1>1, <1>5, <1>6, <1>11 DEF Moved, Sound, t

LEMMA ReceiveSteps ==
    ASSUME Sound, NEW k \in Keys, ClientReceive(k)
    PROVE  Moved /\ Locals(client)' /\ UNCHANGED closed
<1>1. PICK G : client \in [Keys -> Endpoint(G)]
  BY DEF Sound, Locals
<1>. DEFINE c == client[k]
<1>2. PICK p \in wire[k] :
         /\ client' = [client EXCEPT ![k] =
            IF p.kind = "RST" THEN [c EXCEPT !.phase = "gone"]
            ELSE IF p.kind = "SYNACK" /\ c.phase = "synsent"
                 THEN [c EXCEPT !.phase = "open"]
            ELSE IF p.kind = "DATA" /\ (p.seq = ClientAckno(k) /\ c.phase = "open")
                 THEN [c EXCEPT !.got = @ \o p.payload]
            ELSE IF p.kind = "FIN" /\ (p.seq = ClientAckno(k) /\ c.phase = "open")
                 THEN [c EXCEPT !.gotFin = TRUE]
            ELSE c]
         /\ wire' = [wire EXCEPT ![k] = @ \ {p}]
  BY DEF ClientReceive
<1>. DEFINE new == c.got \o p.payload
            H == G \cup {new}
<1>3. c \in Endpoint(G) /\ c \in Endpoint(H)
  BY <1>1 DEF Endpoint
<1>. HIDE DEF c
<1>4. /\ [c EXCEPT !.phase = "gone"] \in Endpoint(H)
      /\ [c EXCEPT !.phase = "open"] \in Endpoint(H)
      /\ [c EXCEPT !.gotFin = TRUE] \in Endpoint(H)
  BY <1>3 DEF Endpoint, Phases
<1>5. [c EXCEPT !.got = @ \o p.payload] \in Endpoint(H)
  <2>1. new \in H
    OBVIOUS
  <2>. HIDE DEF H
  <2>2. [c EXCEPT !.got = new] \in Endpoint(H)
    BY <1>3, <2>1 DEF Endpoint
  <2>. QED  BY <2>2
<1>. DEFINE d == IF p.kind = "RST" THEN [c EXCEPT !.phase = "gone"]
                 ELSE IF p.kind = "SYNACK" /\ c.phase = "synsent"
                      THEN [c EXCEPT !.phase = "open"]
                 ELSE IF p.kind = "DATA" /\ (p.seq = ClientAckno(k) /\ c.phase = "open")
                      THEN [c EXCEPT !.got = @ \o p.payload]
                 ELSE IF p.kind = "FIN" /\ (p.seq = ClientAckno(k) /\ c.phase = "open")
                      THEN [c EXCEPT !.gotFin = TRUE]
                 ELSE c
<1>6. d \in Endpoint(H) /\ client' = [client EXCEPT ![k] = d]
  <2>1. client' = [client EXCEPT ![k] = d]
    BY <1>2
  <2>. HIDE DEF H
  <2>2. d \in Endpoint(H)
    BY <1>3, <1>4, <1>5
  <2>. QED  BY <2>1, <2>2
<1>9. Took(c, p, d) /\ (d.phase \in {"idle", "synsent"} => d = c)
  <2>1. ClientAckno(k) = Expected(c)
    BY DEF ClientAckno, Expected, c
  <2>2. CASE p.kind = "RST"
    BY <1>3, <2>2 DEF Took, Endpoint
  <2>3. CASE p.kind = "SYNACK"
    BY <1>3, <2>3 DEF Took, Endpoint
  <2>4. CASE p.kind = "DATA"
    BY <1>3, <2>1, <2>4 DEF Took, Endpoint
  <2>5. CASE p.kind = "FIN"
    BY <1>3, <2>1, <2>5 DEF Took, Endpoint
  <2>6. CASE p.kind \notin {"RST", "SYNACK", "DATA", "FIN"}
    BY <2>6 DEF Took
  <2>. QED  BY <2>2, <2>3, <2>4, <2>5, <2>6
<1>. HIDE DEF d
<1>. HIDE DEF H
<1>7. client \in [Keys -> Endpoint(H)]
  BY <1>1 DEF Endpoint, H
<1>8. client' \in [Keys -> Endpoint(H)]
  BY <1>6, <1>7
<1>10. client'[k] = d /\ \A j \in Keys : j # k => client'[j] = client[j]
  BY <1>6, <1>7
<1>11. Unheard(client')
  <2>1. Unheard(client)
    BY DEF Sound, Locals
  <2>. QED  BY <1>9, <1>10, <2>1 DEF Unheard, c
<1>12. Moved
  BY <1>2, <1>9, <1>10, WireMoves DEF ClientReceive, c
<1>. QED  BY <1>8, <1>11, <1>12 DEF ClientReceive, Locals

LEMMA PacketSteps ==
    ASSUME Sound, NEW k \in Keys, PacketLost(k)
    PROVE  Moved /\ Locals(client)' /\ UNCHANGED closed
<1>1. UNCHANGED <<connections, next_dial, upstream>> /\ UNCHANGED client /\ UNCHANGED closed
  BY DEF PacketLost
<1>2. PICK p \in wire[k] : wire' = [wire EXCEPT ![k] = @ \ {p}]
  BY DEF PacketLost
<1>3. Took(client[k], p, client'[k]) /\ \A j \in Keys : j # k => client'[j] = client[j]
  BY <1>1 DEF Took
<1>4. Moved
  BY <1>1, <1>2, <1>3, WireMoves
<1>. QED  BY <1>1, <1>4 DEF Sound, Locals

-----------------------------------------------------------------------------
(* The relays and the timers.                                              *)

LEMMA Served ==
    ASSUME Sound, NEW d \in Dials, NEW i \in IndexOfDial(d)
    PROVE  /\ Whole(Now, next_dial) /\ Works(Now, next_dial, i)
           /\ Now.conns = connections /\ Now.up = upstream
           /\ Now.conns[i] = connections[i] /\ Now.up[Now.conns[i].dial] = upstream[d]
           /\ connections[i] \in Conn /\ connections[i].dial = d
           /\ upstream[d] \in Up
<1>1. Now.conns = connections /\ Now.up = upstream
  BY DEF Now
<1>2. Whole(Now, next_dial)
  BY DEF Sound
<1>3. i \in 1 .. Len(Now.conns) /\ connections[i].dial = d
  BY <1>1, <1>2, LenProperties DEF IndexOfDial, Whole, Kept
<1>4. Works(Now, next_dial, i)
  BY <1>2, <1>3, WholeWorks
<1>5. Now.conns[i] \in Conn /\ Now.up[Now.conns[i].dial] \in Up
  BY <1>4, AtHand
<1>. QED  BY <1>1, <1>2, <1>3, <1>4, <1>5

(* A relay's news, its sending and its end keep the table.                 *)
LEMMA NewsGoes ==
    ASSUME Sound, NEW d \in Dials, NEW i \in IndexOfDial(d),
           NEW c, Same(connections[i], c),
           NEW u \in Up, Onto(connections[i], upstream[d], c, u, {})
    PROVE  LET t == Update(Now, i, c, {}, u)
           IN  /\ Goes(Now, t, next_dial, i)
               /\ Goes(Now, flush(t, i), next_dial, i)
               /\ Goes(Now, maybe_finish(flush(t, i), i), next_dial, i)
               /\ Rests(t, flush(t, i)) /\ Rests(t, maybe_finish(flush(t, i), i))
<1>. DEFINE t == Update(Now, i, c, {}, u)
<1>1. Goes(Now, t, next_dial, i)
  <2>1. Works(Now, next_dial, i) /\ Same(Now.conns[i], c)
        /\ Onto(Now.conns[i], Now.up[Now.conns[i].dial], c, u, {})
    BY Served
  <2>. QED  BY <2>1, UpdateGoes
<1>. HIDE DEF t
<1>2. Goes(Now, flush(t, i), next_dial, i) /\ Rests(t, flush(t, i))
  <2>1. Goes(t, flush(t, i), next_dial, i) /\ Rests(t, flush(t, i))
    BY <1>1, FlushGoes DEF Goes
  <2>. QED  BY <1>1, <2>1, GoesThen
<1>. DEFINE f == flush(t, i)
<1>. HIDE DEF f
<1>3. Goes(Now, maybe_finish(f, i), next_dial, i) /\ Rests(t, maybe_finish(f, i))
  <2>1. Goes(f, maybe_finish(f, i), next_dial, i) /\ Rests(f, maybe_finish(f, i))
    BY <1>2, FinishGoes DEF Goes, f
  <2>. QED  BY <1>2, <2>1, GoesThen, RestsThen DEF f
<1>. QED  BY <1>1, <1>2, <1>3 DEF t, f

LEMMA GoesMoves ==
    ASSUME Sound, NEW i, NEW u, Goes(Now, u, next_dial, i), Commit(u), UNCHANGED next_dial,
           UNCHANGED client
    PROVE  Moved
<1>1. Whole(Now, next_dial)
  BY DEF Sound
<1>2. Reaches(Now, u, next_dial)
  BY <1>1, GoesReaches
<1>. QED  BY <1>2, SameHears, CommitMoves

LEMMA ConnectedSteps ==
    ASSUME Sound, NEW d \in Dials, on_dial_connected(d)
    PROVE  Moved /\ UNCHANGED closed /\ UNCHANGED client
<1>. DEFINE c(i) == [connections[i] EXCEPT !.upstream_connected = TRUE,
                                           !.pending_for_upstream = <<>>]
            u(i) == [upstream[d] EXCEPT
                       !.phase = "connected",
                       !.sent = @ \o connections[i].pending_for_upstream]
            v(i) == maybe_finish(flush(Update(Now, i, c(i), {}, u(i)), i), i)
<1>1. PICK i \in IndexOfDial(d) : Commit(v(i))
  BY DEF on_dial_connected
<1>2. connections[i] \in Conn /\ upstream[d] \in Up
  BY Served
<1>3. Same(connections[i], c(i))
  BY <1>2, FieldsKept
<1>4. u(i) \in Up /\ Onto(connections[i], upstream[d], c(i), u(i), {})
  <2>. DEFINE q == upstream[d].sent \o connections[i].pending_for_upstream
              was == upstream[d]
  <2>1. was \in Up /\ q \in Bytes
    BY <1>2, Fields, ByteJoin DEF Up
  <2>. HIDE DEF q, was
  <2>. DEFINE new == [was EXCEPT !.phase = "connected", !.sent = q]
  <2>2. /\ new \in Up /\ new.closes = was.closes /\ new.key = was.key
        /\ new.fed = was.fed /\ new.phase = "connected"
    BY <2>1 DEF Up
  <2>. HIDE DEF new
  <2>3. was.phase # "ended"
    BY DEF on_dial_connected, was
  <2>4. Alike(connections[i], was, c(i), new)
    BY <1>2, <2>2, <2>3, AlikeKept
  <2>. HIDE DEF c
  <2>5. Onto(connections[i], was, c(i), new, {})
    BY <2>2, <2>4, AlikeContinues DEF Onto
  <2>. QED  BY <2>2, <2>5 DEF q, was, new
<1>5. UNCHANGED <<next_dial, closed, client>>
  BY DEF on_dial_connected
<1>. HIDE DEF c, u
<1>6. Goes(Now, v(i), next_dial, i)
  BY <1>3, <1>4, NewsGoes
<1>. HIDE DEF v
<1>. QED  BY <1>1, <1>5, <1>6, GoesMoves

LEMMA FailedSteps ==
    ASSUME Sound, NEW d \in Dials, on_dial_failed(d)
    PROVE  Moved /\ UNCHANGED closed /\ UNCHANGED client
<1>. DEFINE u == [upstream[d] EXCEPT !.phase = "ended"]
            failed(i) == Update(Now, i, connections[i], {}, u)
            v(i) == retain_live(dispose(failed(i), i, TRUE))
<1>1. PICK i \in IndexOfDial(d) : Commit(v(i))
  BY DEF on_dial_failed
<1>2. /\ Same(connections[i], connections[i]) /\ u \in Up
      /\ Onto(connections[i], upstream[d], connections[i], u, {})
  <2>1. connections[i] \in Conn /\ upstream[d] \in Up
    BY Served
  <2>2. /\ u \in Up /\ u.closes = upstream[d].closes /\ u.key = upstream[d].key
        /\ u.fed = upstream[d].fed /\ u.phase = "ended"
    BY <2>1 DEF Up
  <2>. HIDE DEF u
  <2>3. Alike(connections[i], upstream[d], connections[i], u)
    BY <2>1, <2>2, AlikeKept
  <2>4. Onto(connections[i], upstream[d], connections[i], u, {})
    BY <2>2, <2>3, AlikeContinues DEF Onto
  <2>. QED  BY <2>1, <2>2, <2>4, FieldsKept
<1>3. UNCHANGED <<next_dial, closed, client>>
  BY DEF on_dial_failed
<1>. HIDE DEF u
<1>4. Goes(Now, failed(i), next_dial, i)
  BY <1>2, NewsGoes
<1>. HIDE DEF failed
<1>5. Reaches(Now, v(i), next_dial)
  <2>1. Whole(Now, next_dial) /\ Works(failed(i), next_dial, i)
    BY <1>4 DEF Sound, Goes
  <2>2. Reaches(Now, failed(i), next_dial)
    BY <1>4, <2>1, GoesReaches
  <2>3. Reaches(failed(i), v(i), next_dial)
    BY <2>1, DisposeReaches
  <2>. QED  BY <2>2, <2>3, ReachesThen
<1>. HIDE DEF v
<1>. QED  BY <1>1, <1>3, <1>5, SameHears, CommitMoves

LEMMA DataSteps ==
    ASSUME Sound, NEW d \in Dials, on_relay_data(d)
    PROVE  Moved /\ UNCHANGED closed /\ UNCHANGED client
<1>. DEFINE fed == upstream[d].fed
            c(i, n) == [connections[i] EXCEPT !.send_queue = @ \o Counting(fed + 1, fed + n)]
            u(n) == [upstream[d] EXCEPT !.fed = fed + n]
            f(i, n) == flush(Update(Now, i, c(i, n), {}, u(n)), i)
            e(i, n) == f(i, n).conns[i]
            p(i, n) == Update(f(i, n), i, [e(i, n) EXCEPT !.upstream_paused = TRUE], {},
                              [f(i, n).up[d] EXCEPT !.paused = TRUE])
<1>1. PICK i \in IndexOfDial(d), n \in ChunkLengths :
         /\ fed + n <= client[upstream[d].key].may.replies
         /\ Commit(f(i, n)) \/ Commit(p(i, n))
  BY DEF on_relay_data
<1>2. connections[i] \in Conn /\ upstream[d] \in Up /\ n \in Nat /\ connections[i].dial = d
      /\ fed \in Nat
  BY Served, Constants DEF Up
<1>3. /\ u(n) \in Up /\ u(n).closes = upstream[d].closes
      /\ u(n).key = upstream[d].key /\ u(n).fed = fed + n
  <2>1. fed + n \in 0 .. RelayBytes
    <3>1. upstream[d].key \in Keys
      BY <1>2 DEF Up
    <3>2. client[upstream[d].key].may.replies \in 0 .. RelayBytes
      BY <3>1, OwnTraits
    <3>3. fed + n <= client[upstream[d].key].may.replies
      BY <1>1
    <3>4. fed \in Nat /\ n \in Nat
      BY <1>2
    <3>. DEFINE most == client[upstream[d].key].may.replies
    <3>5. most \in 0 .. RelayBytes /\ fed + n <= most /\ RelayBytes \in Nat
      BY <3>2, <3>3, Constants
    <3>. HIDE DEF fed, most
    <3>. QED  BY <3>4, <3>5
  <2>. HIDE DEF fed
  <2>. QED  BY <1>2, <2>1 DEF Up
<1>4. Same(connections[i], c(i, n))
  <2>1. Counting(fed + 1, fed + n) \in Bytes
    BY <1>2, CountingIsBytes
  <2>. QED  BY <1>2, <2>1, QueueKept
<1>5. UNCHANGED <<next_dial, closed, client>>
  BY DEF on_relay_data
<1>8. Onto(connections[i], upstream[d], c(i, n), u(n), {})
  <2>1. upstream[d].phase # "ended"
    BY DEF on_relay_data
  <2>. DEFINE new == u(n)
  <2>2. new.fed = fed + n
    BY <1>3
  <2>. HIDE DEF new
  <2>3. Continues(connections[i], upstream[d], c(i, n), new, {})
    BY <1>2, <2>1, <2>2, QueuedContinues
  <2>. HIDE DEF c, fed
  <2>. QED  BY <1>3, <2>3 DEF Onto, new
<1>. HIDE DEF c, u
<1>6. Goes(Now, f(i, n), next_dial, i)
  BY <1>3, <1>4, <1>8, NewsGoes
<1>. HIDE DEF f, fed
<1>7. Goes(Now, p(i, n), next_dial, i)
  <2>1. Works(f(i, n), next_dial, i) /\ e(i, n).dial = d
    BY <1>2, <1>6, Served DEF Goes, Alone
  <2>2. e(i, n) \in Conn /\ f(i, n).up[d] \in Up
    BY <2>1, AtHand
  <2>3. Same(e(i, n), [e(i, n) EXCEPT !.upstream_paused = TRUE])
    BY <2>2, FieldsKept
  <2>. DEFINE w == [f(i, n).up[d] EXCEPT !.paused = TRUE]
              was == f(i, n).up[d]
              to == [e(i, n) EXCEPT !.upstream_paused = TRUE]
  <2>4. w \in Up /\ Onto(e(i, n), was, to, w, {})
    <3>1. /\ w \in Up /\ w.closes = was.closes /\ w.key = was.key
          /\ w.fed = was.fed /\ w.phase = was.phase
      <4>1. was \in Up
        BY <2>2
      <4>. HIDE DEF was
      <4>2. LET x == [was EXCEPT !.paused = TRUE]
            IN  /\ x \in Up /\ x.closes = was.closes /\ x.key = was.key
                /\ x.fed = was.fed /\ x.phase = was.phase
        BY <4>1 DEF Up
      <4>. QED  BY <4>2 DEF was
    <3>. HIDE DEF w, was
    <3>2. Alike(e(i, n), was, to, w)
      BY <2>2, <3>1, AlikeKept
    <3>. HIDE DEF to
    <3>. QED  BY <3>1, <3>2, AlikeContinues DEF Onto
  <2>. HIDE DEF w
  <2>5. Goes(f(i, n), Update(f(i, n), i, [e(i, n) EXCEPT !.upstream_paused = TRUE], {}, w),
             next_dial, i)
    BY <2>1, <2>3, <2>4, UpdateGoes
  <2>6. Goes(f(i, n), p(i, n), next_dial, i)
    BY <2>5 DEF w
  <2>. HIDE DEF p
  <2>. QED  BY <1>6, <2>6, GoesThen
<1>. HIDE DEF p
<1>. QED  BY <1>1, <1>5, <1>6, <1>7, GoesMoves

LEMMA EndSteps ==
    ASSUME Sound, NEW d \in Dials, on_relay_closed(d)
    PROVE  Moved /\ UNCHANGED closed /\ UNCHANGED client
<1>. DEFINE u == [upstream[d] EXCEPT !.phase = "ended"]
            c(i) == [connections[i] EXCEPT !.upstream_done = TRUE]
            g(i) == maybe_finish(flush(Update(Now, i, c(i), {}, u), i), i)
<1>1. PICK i \in IndexOfDial(d) : Commit(retain_live(g(i)))
  BY DEF on_relay_closed
<1>2. /\ Same(connections[i], c(i)) /\ u \in Up
      /\ Onto(connections[i], upstream[d], c(i), u, {})
  <2>1. connections[i] \in Conn /\ upstream[d] \in Up
    BY Served
  <2>2. /\ u \in Up /\ u.closes = upstream[d].closes /\ u.key = upstream[d].key
        /\ u.fed = upstream[d].fed /\ u.phase = "ended"
    BY <2>1 DEF Up
  <2>. HIDE DEF u
  <2>3. Alike(connections[i], upstream[d], c(i), u)
    BY <2>1, <2>2, AlikeKept
  <2>5. Same(connections[i], c(i))
    BY <2>1, FieldsKept
  <2>. HIDE DEF c
  <2>4. Onto(connections[i], upstream[d], c(i), u, {})
    BY <2>2, <2>3, AlikeContinues DEF Onto
  <2>. QED  BY <2>2, <2>4, <2>5
<1>3. UNCHANGED <<next_dial, closed, client>>
  BY DEF on_relay_closed
<1>. HIDE DEF u, c
<1>4. Goes(Now, g(i), next_dial, i)
  BY <1>2, NewsGoes
<1>. HIDE DEF g
<1>5. Kept(g(i), next_dial) /\ Onward(Now, g(i))
  BY <1>4 DEF Goes, Works, Alone
<1>6. Whole(retain_live(g(i)), next_dial) /\ retain_live(g(i)).up = g(i).up
      /\ Carries(g(i), retain_live(g(i)))
  BY <1>5, RetainWhole
<1>7. Reaches(Now, retain_live(g(i)), next_dial)
  BY <1>5, <1>6 DEF Reaches, Onward, Quiet, Carries
<1>. QED  BY <1>1, <1>3, <1>7, SameHears, CommitMoves

LEMMA VisitSteps ==
    ASSUME Sound, NEW due, Commit(visit_all(Now, due)), UNCHANGED <<next_dial, client>>
    PROVE  Moved
<1>1. Reaches(Now, visit_all(Now, due), next_dial)
  BY VisitAllWhole DEF Sound, Reaches
<1>. QED  BY <1>1, SameHears, CommitMoves

-----------------------------------------------------------------------------
(* The theorems.                                                           *)

LEMMA StepMoves ==
    ASSUME Sound, Next
    PROVE  Moved /\ Locals(client)' /\ closed' \in BOOLEAN
<1>1. ASSUME NEW k \in Keys,
             \/ ClientSyn(k) \/ ClientSend(k) \/ ClientResend(k)
             \/ ClientReset(k) \/ ClientReceive(k) \/ PacketLost(k)
      PROVE  Moved /\ Locals(client)' /\ closed' \in BOOLEAN
  <2>1. Moved /\ Locals(client)' /\ UNCHANGED closed
    BY <1>1, SynSteps, SendSteps, ResendSteps, ResetSteps, ReceiveSteps, PacketSteps
  <2>. QED  BY <2>1 DEF Sound
<1>2. ASSUME NEW d \in Dials,
             \/ on_dial_connected(d) \/ on_dial_failed(d)
             \/ on_relay_data(d) \/ on_relay_closed(d)
      PROVE  Moved /\ Locals(client)' /\ closed' \in BOOLEAN
  <2>1. Moved /\ UNCHANGED closed /\ UNCHANGED client
    BY <1>2, ConnectedSteps, FailedSteps, DataSteps, EndSteps
  <2>. QED  BY <2>1 DEF Sound, Locals
<1>3. CASE tick
  <2>1. PICK due : Commit(visit_all(Now, due))
    BY <1>3 DEF tick, run_all_timers
  <2>2. UNCHANGED <<next_dial, closed, client>>
    BY <1>3 DEF tick, run_all_timers
  <2>3. Moved
    BY <2>1, <2>2, VisitSteps
  <2>. QED  BY <2>2, <2>3 DEF Sound, Locals
<1>4. CASE close
  <2>1. /\ Commit(visit_all(Now, [i \in DOMAIN connections |-> "close"]))
        /\ UNCHANGED <<next_dial, client>> /\ closed' = TRUE
    BY <1>4 DEF close
  <2>2. Moved
    BY <2>1, VisitSteps
  <2>. QED  BY <2>1, <2>2 DEF Sound, Locals
<1>. QED  BY <1>1, <1>2, <1>3, <1>4 DEF Next

LEMMA SoundInit == Init => Sound
<1>. SUFFICES ASSUME Init PROVE Sound
  OBVIOUS
<1>1. /\ connections = <<>> /\ next_dial = 0 /\ closed = FALSE
      /\ upstream = [d \in Dials |-> NoUpstream]
  BY DEF Init
<1>2. /\ upstream \in [Dials -> Up]
      /\ \A d \in Dials : upstream[d].closes = 0 /\ upstream[d].fed = 0
  <2>1. ASSUME NEW d \in Dials
        PROVE  NoUpstream \in Up
    <3>1. Keys # {}
      <4>1. CASE Keys = {}
        <5>1. Cardinality(Keys) = 0
          BY <4>1, FS_EmptySet
        <5>. QED  BY <5>1, DialsAre
      <4>. QED  BY <4>1
    <3>2. (CHOOSE k \in Keys : TRUE) \in Keys
      BY <3>1
    <3>3. 0 \in 0 .. RelayBytes /\ 0 \in Nat /\ <<>> \in Bytes
      BY Constants DEF Bytes
    <3>. QED  BY <3>2, <3>3 DEF NoUpstream, Up
  <2>. QED  BY <1>1, <2>1 DEF NoUpstream
<1>3. Locals(client) /\ \A k \in Keys : Untouched(client[k])
  <2>1. PICK may \in Clients : client = [k \in Keys |-> Idle(may[k])]
    BY DEF Init
  <2>2. \A k \in Keys : may[k] \in Traits
    BY <2>1, Constants
  <2>3. \A k \in Keys : Idle(may[k]) \in Endpoint({<<>>})
    BY <2>2 DEF Idle, Endpoint, Phases
  <2>4. client \in [Keys -> Endpoint({<<>>})]
    BY <2>1, <2>3
  <2>5. \A k \in Keys : Untouched(client[k])
    BY <2>1 DEF Idle, Untouched
  <2>. QED  BY <2>4, <2>5 DEF Locals, Unheard
<1>7. Wired(wire) /\ \A k \in Keys : wire[k] = {}
  BY DEF Init, Wired
<1>4. Kept(Now, 0)
  <2>. DEFINE t == Now
  <2>1. t = [conns |-> t.conns, wire |-> t.wire, up |-> t.up]
        /\ t.conns = <<>> /\ t.up = upstream /\ Wired(t.wire)
    BY <1>1, <1>7 DEF Now
  <2>. HIDE DEF t
  <2>2. t.conns \in Seq(Conn) /\ Len(t.conns) = 0
    BY <2>1
  <2>3. \A d \in Dials : d > 0
    BY DialsAre
  <2>4. \A i \in 1 .. Len(t.conns) : FALSE
    BY <2>2
  <2>5. \A d \in Dials : t.up[d].closes = IF Holds(t, d) \/ d > 0 THEN 0 ELSE 1
    BY <1>2, <2>1, <2>3
  <2>6. Kept(t, 0)
    BY <1>2, <2>1, <2>2, <2>4, <2>5 DEF Kept
  <2>. QED  BY <2>6 DEF t
<1>5. Whole(Now, 0)
  <2>1. Len(Now.conns) = 0
    BY <1>1 DEF Now
  <2>2. \A i \in 1 .. Len(Now.conns) : FALSE
    BY <2>1
  <2>. QED  BY <1>4, <2>2 DEF Whole
<1>6. 0 <= Cardinality(Keys)
  BY DialsAre
<1>8. Flowing(Now, client)
  <2>1. \A k \in Keys : Line(client[k], wire[k], 0, FALSE)
    <3>1. 0 \in 0 .. 0 /\ Counting(1, 0) = <<>>
      BY CountingNone
    <3>. QED  BY <1>3, <1>7, <3>1 DEF Line, Untouched
  <2>2. 0 \in 0 .. RelayBytes /\ FALSE \in BOOLEAN
    BY Constants
  <2>3. \A i \in 1 .. Len(Now.conns) : FALSE
    <3>1. Len(Now.conns) = 0
      BY <1>1 DEF Now
    <3>. QED  BY <3>1
  <2>4. Now.wire = wire
    BY DEF Now
  <2>. QED  BY <2>1, <2>2, <2>3, <2>4 DEF Flowing
<1>. QED  BY <1>1, <1>3, <1>5, <1>6, <1>8 DEF Sound

LEMMA StillSound ==
    ASSUME Sound, UNCHANGED vars
    PROVE  Sound' /\ Quiet(Now, Now')
<1>1. Moved
  BY StillMoves, SameHears DEF vars
<1>. QED  BY <1>1 DEF Moved, Sound, Locals, vars

LEMMA SoundAlways == Spec => []Sound
<1>1. Init => Sound
  BY SoundInit
<1>2. Sound /\ [Next]_vars => Sound'
  <2>. SUFFICES ASSUME Sound, [Next]_vars PROVE Sound'
    OBVIOUS
  <2>1. CASE Next
    BY <2>1, StepMoves DEF Moved, Sound
  <2>2. CASE UNCHANGED vars
    BY <2>2, StillSound
  <2>. QED  BY <2>1, <2>2
<1>. QED  BY <1>1, <1>2, PTL DEF Spec

(* What Sound says of a connection and of a dial.                          *)
LEMMA SoundFacts ==
    ASSUME Sound
    PROVE  /\ next_dial \in Nat /\ DOMAIN connections = 1 .. Len(connections)
           /\ connections \in Seq(Conn) /\ upstream \in [Dials -> Up]
           /\ \A i \in DOMAIN connections :
                 /\ connections[i] \in Conn /\ connections[i].state # "Closed"
                 /\ connections[i].dial <= next_dial
           /\ \A i, j \in DOMAIN connections : i # j =>
                 /\ connections[i].dial # connections[j].dial
                 /\ connections[i].key # connections[j].key
           /\ \A d \in Dials :
                 upstream[d].closes = IF Live(d) \/ d > next_dial THEN 0 ELSE 1
<1>. DEFINE t == Now
<1>1. t.conns = connections /\ t.up = upstream
  BY DEF Now
<1>2. Whole(t, next_dial)
  BY DEF Sound
<1>. HIDE DEF t
<1>3. DOMAIN connections = 1 .. Len(connections)
      /\ \A i \in 1 .. Len(connections) : connections[i] \in Conn
  BY <1>1, <1>2, LenProperties, ElementOfSeq DEF Whole, Kept
<1>4. \A d \in Dials : Holds(t, d) <=> Live(d)
  BY <1>1, <1>2, <1>3 DEF Holds, Live, IndexOfDial, Whole
<1>. QED  BY <1>1, <1>2, <1>3, <1>4 DEF Whole, Kept

(* What Sound says of the stream of a connection and of what its client    *)
(* has got.                                                                *)
LEMMA SoundStreams ==
    ASSUME Sound
    PROVE  /\ \A i \in DOMAIN connections :
                 LET c == connections[i]
                     u == upstream[c.dial]
                 IN  /\ u \in Up /\ u.key = c.key /\ c.key \in Keys
                     /\ Streaming(c, u, wire[c.key], client[c.key])
           /\ \A k \in Keys : \E m \in Nat : client[k].got = Counting(1, m)
<1>. DEFINE t == Now
<1>1. t.conns = connections /\ t.up = upstream /\ t.wire = wire
  BY DEF Now
<1>2. Whole(t, next_dial) /\ Kept(t, next_dial) /\ Flowing(t, client)
  BY DEF Sound, Whole
<1>. HIDE DEF t
<1>3. /\ \A i \in 1 .. Len(connections) :
            /\ Streaming(connections[i], upstream[connections[i].dial],
                         wire[connections[i].key], client[connections[i].key])
            /\ upstream[connections[i].dial].key = connections[i].key
      /\ \A k \in Keys : \E n \in 0 .. RelayBytes, fin \in BOOLEAN :
            Line(client[k], wire[k], n, fin)
  BY <1>1, <1>2 DEF Flowing, Whole, Kept
<1>4. ASSUME NEW i \in DOMAIN connections
      PROVE  LET c == connections[i]
                 u == upstream[c.dial]
             IN  /\ u \in Up /\ u.key = c.key /\ c.key \in Keys
                 /\ Streaming(c, u, wire[c.key], client[c.key])
  <2>1. /\ i \in 1 .. Len(connections) /\ connections[i] \in Conn
        /\ upstream \in [Dials -> Up]
    BY SoundFacts
  <2>2. connections[i].dial \in Dials /\ connections[i].key \in Keys
    BY <2>1, Fields
  <2>. QED  BY <1>3, <2>1, <2>2
<1>5. \A k \in Keys : \E m \in Nat : client[k].got = Counting(1, m)
  <2>1. \A n \in 0 .. RelayBytes : \A m \in 0 .. n : m \in Nat
    OBVIOUS
  <2>. QED  BY <1>3, <2>1 DEF Line
<1>. QED  BY <1>4, <1>5

(* What Sound says of the types.                                           *)
LEMMA SoundTypes == Sound => TypeOK
<1>. SUFFICES ASSUME Sound PROVE TypeOK
  OBVIOUS
<1>1. next_dial \in {0} \cup Dials /\ closed \in BOOLEAN
  BY SoundFacts, DialsAre DEF Sound
<1>2. ASSUME NEW i \in DOMAIN connections
      PROVE  LET c == connections[i]
             IN  /\ c.key \in Keys /\ c.dial \in 1 .. next_dial
                 /\ c.state \in {"SynReceived", "Established", "InboundClosed"}
                 /\ {c.receive_next, c.send_next, c.send_unacknowledged}
                       \subseteq 0 .. SeqSpace - 1
                 /\ c.peer_window \in Windows
                 /\ c.retransmits \in 0 .. MaxRetransmits
                 /\ {c.handshake_complete, c.upstream_connected, c.upstream_done,
                     c.inbound_closed, c.upstream_paused, c.fin_sent,
                     c.retransmit_armed} \subseteq BOOLEAN
  <2>. DEFINE c == connections[i]
  <2>1. c \in Conn /\ c.state # "Closed" /\ c.dial <= next_dial /\ next_dial \in Nat
    BY SoundFacts
  <2>. HIDE DEF c
  <2>2. c.dial \in 1 .. next_dial
    BY <2>1, DialsAre DEF Conn
  <2>3. {c.handshake_complete, c.upstream_connected, c.upstream_done,
         c.inbound_closed, c.upstream_paused, c.fin_sent,
         c.retransmit_armed} \subseteq BOOLEAN
    BY <2>1 DEF Conn
  <2>4. /\ c.key \in Keys
        /\ c.state \in {"SynReceived", "Established", "InboundClosed"}
        /\ {c.receive_next, c.send_next, c.send_unacknowledged}
              \subseteq 0 .. SeqSpace - 1
        /\ c.peer_window \in Windows /\ c.retransmits \in 0 .. MaxRetransmits
    BY <2>1 DEF Conn, Space
  <2>. QED  BY <2>2, <2>3, <2>4 DEF c
<1>3. \A d \in Dials :
         /\ upstream[d].phase \in {"none", "dialing", "connected", "ended"}
         /\ upstream[d].fed \in 0 .. RelayBytes
  BY SoundFacts DEF Up
<1>. QED  BY <1>1, <1>2, <1>3 DEF TypeOK

(* The records of the connections and the relays stay well-formed, and no  *)
(* connection counts more retransmissions than it is granted.              *)
THEOREM WellFormed == Spec => []TypeOK
  BY SoundTypes, SoundAlways, PTL

(* Every dial handed out is held by one connection or has been released    *)
(* exactly once, whatever the clients do, whatever is lost and whichever   *)
(* connection the index of handle names after a removal (dispose).         *)
THEOREM DialsAreReleasedOnce == Spec => []ReleasedOnce
<1>1. Sound => ReleasedOnce
  <2>. SUFFICES ASSUME Sound, NEW d \in 1 .. next_dial
                PROVE  /\ upstream[d].closes = IF Live(d) THEN 0 ELSE 1
                       /\ \A i, j \in IndexOfDial(d) : i = j
    BY DEF ReleasedOnce
  <2>. DEFINE most == Cardinality(Keys)
  <2>1. d \in Dials /\ ~(d > next_dial)
    <3>1. next_dial \in Nat /\ next_dial <= most /\ most \in Nat
      BY SoundFacts, DialsAre DEF Sound
    <3>2. Dials = 1 .. most
      BY DEF Dials
    <3>. HIDE DEF most
    <3>. QED  BY <3>1, <3>2
  <2>2. \A i, j \in IndexOfDial(d) : i = j
    BY SoundFacts DEF IndexOfDial
  <2>. QED  BY <2>1, <2>2, SoundFacts
<1>. QED  BY <1>1, SoundAlways, PTL

(* What a connection still has to deliver is the tail of what its relay    *)
(* delivered, every byte of it at its sequence number, and every client    *)
(* has got the bytes of its stream from the first on, none twice and none  *)
(* left out: through segments cut at the MSS, windows that close, acks     *)
(* that arrive late, retransmissions and packets lost (flush, acknowledge, *)
(* run_timers).                                                            *)
THEOREM SendBufferStaysIntact == Spec => []SendBufferIntact
<1>1. Sound => SendBufferIntact
  <2>. SUFFICES ASSUME Sound PROVE SendBufferIntact
    OBVIOUS
  <2>1. ASSUME NEW i \in DOMAIN connections
        PROVE  LET c == connections[i]
                   fed == upstream[c.dial].fed
                   data == DataOf(c)
               IN  /\ data = Counting(fed - Len(data) + 1, fed)
                   /\ \A j \in DOMAIN c.unacknowledged :
                         LET s == c.unacknowledged[j]
                         IN  s.kind = "DATA" =>
                                s.seq = sequence_add(OurISS, Head(s.payload))
    <3>1. /\ connections[i] \in Conn /\ upstream[connections[i].dial] \in Up
          /\ Tiled(connections[i], upstream[connections[i].dial])
      BY SoundFacts, SoundStreams DEF Streaming
    <3>. QED  BY <3>1, TiledData
  <2>2. ASSUME NEW k \in Keys
        PROVE  client[k].got = Counting(1, Len(client[k].got))
    <3>1. PICK m \in Nat : client[k].got = Counting(1, m)
      BY SoundStreams
    <3>2. 1 \in Int /\ m \in Int /\ 1 <= m + 1 /\ m - 1 + 1 = m
      OBVIOUS
    <3>3. Len(client[k].got) = m
      BY <3>1, <3>2, CountingIs
    <3>. QED  BY <3>1, <3>3
  <2>. QED  BY <2>1, <2>2 DEF SendBufferIntact
<1>. QED  BY <1>1, SoundAlways, PTL

(* A client that has seen the end of its stream while the connection lives *)
(* has every byte its relay delivered, and the relay had ended: the FIN    *)
(* never overtakes a byte (maybe_finish), whatever is sent again.          *)
THEOREM OrderlyEndsAreComplete == Spec => []OrderlyEndIsComplete
<1>1. Sound => OrderlyEndIsComplete
  <2>. SUFFICES ASSUME Sound, NEW d \in 1 .. next_dial, Live(d),
                       client[upstream[d].key].gotFin
                PROVE  /\ upstream[d].phase = "ended"
                       /\ Len(client[upstream[d].key].got) = upstream[d].fed
    BY DEF OrderlyEndIsComplete
  <2>1. PICK i \in DOMAIN connections : connections[i].dial = d
    BY DEF Live, IndexOfDial
  <2>. DEFINE c == connections[i]
              u == upstream[d]
              x == client[u.key]
  <2>2. /\ u \in Up /\ u.key = c.key
        /\ Streaming(c, u, wire[c.key], client[c.key])
    BY <2>1, SoundStreams
  <2>3. Tiled(c, u) /\ Line(x, wire[c.key], u.fed, c.fin_sent) /\ x.gotFin
    BY <2>2 DEF Streaming
  <2>. HIDE DEF c, u, x
  <2>4. PICK m \in 0 .. u.fed : x.got = Counting(1, m) /\ c.fin_sent /\ m = u.fed
    BY <2>3 DEF Line
  <2>5. u.phase = "ended"
    BY <2>3, <2>4 DEF Tiled
  <2>6. Len(x.got) = m
    <3>1. 1 \in Int /\ m \in Int /\ 1 <= m + 1 /\ m - 1 + 1 = m
      BY <2>2, <2>4 DEF Up
    <3>2. Len(Counting(1, m)) = m
      BY <3>1, CountingIs
    <3>. QED  BY <2>4, <3>2
  <2>. QED  BY <2>4, <2>5, <2>6 DEF u, x
<1>. QED  BY <1>1, SoundAlways, PTL

(* A client's flow is one connection: two of the table never share a       *)
(* four-tuple, so the index accept finds is the only one.                  *)
OnePerFlow == \A i, j \in DOMAIN connections :
                 connections[i].key = connections[j].key => i = j

THEOREM FlowsAreDistinct == Spec => []OnePerFlow
<1>1. Sound => OnePerFlow
  BY SoundFacts DEF OnePerFlow
<1>. QED  BY <1>1, SoundAlways, PTL

(* After its release a relay hears nothing more: no byte, no half-close,   *)
(* no pause and no second close, and none of its news is taken.            *)
ReleasedStaysQuiet ==
    \A d \in Dials : upstream[d].closes > 0 => upstream'[d] = upstream[d]

THEOREM ReleasedIsQuiet == Spec => [][ReleasedStaysQuiet]_vars
<1>1. Sound /\ [Next]_vars => [ReleasedStaysQuiet]_vars
  <2>. SUFFICES ASSUME Sound, Next PROVE ReleasedStaysQuiet
    OBVIOUS
  <2>1. Quiet(Now, Now')
    BY StepMoves DEF Moved
  <2>2. Now.up = upstream /\ Now'.up = upstream'
    BY DEF Now
  <2>. QED  BY <2>1, <2>2 DEF Quiet, ReleasedStaysQuiet
<1>. QED  BY <1>1, SoundAlways, PTL DEF Spec
-----------------------------------------------------------------------------
(* What comes from the client: acknowledged, held, and given to its relay. *)

LEMMA DifferenceTells ==
    ASSUME NEW a \in Int, NEW x \in Int, NEW y \in Int,
           4 * (y - x) < SeqSpace, 4 * (x - y) < SeqSpace
    PROVE  sequence_difference(sequence_add(a, x), sequence_add(a, y)) = y - x
<1>. DEFINE S == SeqSpace
            h == S \div 2
            p == sequence_add(a, x)
            q == sequence_add(a, y)
            e == y - x
            d == (q - p) % S
<1>1. /\ S \in Nat /\ S > 4 /\ e \in Int /\ 4 * e < S /\ 4 * (0 - e) < S
  <2>1. S \in Nat /\ S > 4 * (1 + ClientBytes + RelayBytes)
        /\ ClientBytes \in Nat /\ RelayBytes \in Nat
    BY TerminatorAssumption
  <2>. HIDE DEF S
  <2>2. 4 * (1 + ClientBytes + RelayBytes) >= 4
    BY <2>1
  <2>. QED  BY <2>1, <2>2 DEF S
<1>2. PICK i \in Int : a + x = S * i + p
  <2>1. a + x \in Int
    OBVIOUS
  <2>2. a + x = S * ((a + x) \div S) + p /\ (a + x) \div S \in Int
    BY <1>1, <2>1, Division DEF sequence_add
  <2>. QED  BY <2>2
<1>3. PICK j \in Int : a + y = S * j + q
  <2>1. a + y \in Int
    OBVIOUS
  <2>2. a + y = S * ((a + y) \div S) + q /\ (a + y) \div S \in Int
    BY <1>1, <2>1, Division DEF sequence_add
  <2>. QED  BY <2>2
<1>4. p \in Int /\ q \in Int
  <2>1. p \in Space /\ q \in Space
    BY AddInSpace
  <2>. QED  BY <2>1, Constants DEF Space
<1>5. S * i \in Int /\ S * j \in Int /\ S * (i - j) \in Int /\ S * (i - j) = S * i - S * j
      /\ i - j \in Int /\ S * (i - j - 1) = S * (i - j) - S
  BY <1>1
<1>. DEFINE k == i - j
<1>6. q - p = S * k + e
  <2>. DEFINE m == S * i
              n == S * j
  <2>1. S * k = m - n /\ m \in Int /\ n \in Int /\ a + x = m + p /\ a + y = n + q
    BY <1>2, <1>3, <1>5
  <2>. HIDE DEF m, n, k, S, p, q
  <2>2. q - p = m - n + (y - x)
    BY <1>4, <2>1
  <2>. QED  BY <2>1, <2>2
<1>7. h \in Int /\ S = 2 * h + (S % 2) /\ (S % 2) \in 0 .. 1
  BY <1>1
<1>8. CASE e >= 0
  <2>1. e \in 0 .. S - 1
    <3>. HIDE DEF S, e
    <3>. QED  BY <1>1, <1>8
  <2>2. d = e
    <3>. HIDE DEF S, e, k, p, q
    <3>1. q - p \in Int /\ k \in Int /\ S > 0
      BY <1>1, <1>4, <1>5 DEF k
    <3>2. ((q - p) % S) = e
      BY <1>1, <1>6, <2>1, <3>1, Residue
    <3>. QED  BY <3>2
  <2>3. e < h
    <3>. HIDE DEF S, e, h
    <3>. QED  BY <1>1, <1>7
  <2>. HIDE DEF e, h
  <2>. QED  BY <2>2, <2>3 DEF sequence_difference, e, h
<1>9. CASE e < 0
  <2>1. e + S \in 0 .. S - 1
    <3>. HIDE DEF S, e
    <3>. QED  BY <1>1, <1>9
  <2>2. q - p = S * (k - 1) + (e + S)
    <3>. DEFINE m == S * k
    <3>1. m \in Int /\ S * (k - 1) = m - S
      BY <1>5
    <3>. HIDE DEF k, m, S, e, p, q
    <3>2. q - p = m + e
      BY <1>6 DEF m
    <3>. QED  BY <1>1, <1>4, <3>1, <3>2
  <2>3. d = e + S
    <3>. DEFINE r == e + S
                l == k - 1
    <3>. HIDE DEF S, e, p, q
    <3>1. q - p \in Int /\ l \in Int /\ S > 0 /\ q - p = S * l + r /\ r \in 0 .. S - 1
      BY <1>1, <1>4, <1>5, <2>1, <2>2
    <3>. HIDE DEF r, l
    <3>2. ((q - p) % S) = r
      BY <1>1, <3>1, Residue
    <3>. QED  BY <3>2 DEF r
  <2>. DEFINE r == e + S
  <2>4. ~(r < h) /\ r - S = e
    <3>. HIDE DEF S, e, h
    <3>. QED  BY <1>1, <1>7
  <2>6. d = r
    BY <2>3
  <2>5. (IF d < h THEN d ELSE d - S) = e
    <3>. HIDE DEF d, e, h, S, r
    <3>. QED  BY <2>6, <2>4
  <2>. QED  BY <2>5 DEF sequence_difference
<1>. HIDE DEF e
<1>. QED  BY <1>1, <1>8, <1>9 DEF e

(* The relay was given the first a bytes and the connection holds those up *)
(* to m for it, all that it acknowledged; the FIN comes behind the last    *)
(* byte, and on a path that keeps order nothing is on its way.             *)
Relayed(c, u, x, over, a, m) ==
    /\ a <= m /\ m <= x.sent
    /\ u.sent = Counting(1, a) /\ c.pending_for_upstream = Counting(a + 1, m)
    /\ c.upstream_connected => a = m
    /\ c.receive_next = sequence_add(ClientISS, 1 + m + IF c.inbound_closed THEN 1 ELSE 0)
    /\ c.inbound_closed => x.fin /\ m = x.sent
    /\ u.eof => c.inbound_closed /\ c.upstream_connected
    /\ over \/ x.may.lossy \/ (m = x.sent /\ (c.inbound_closed <=> x.fin))

Taking(c, u, x, over) == \E a, m \in Nat : Relayed(c, u, x, over, a, m)

(* Every live connection has taken a part of its client's stream (h).      *)
Inbound(t, h, over) ==
    \A i \in 1 .. Len(t.conns) : t.conns[i].state # "Closed" =>
       Taking(t.conns[i], t.up[t.conns[i].dial], h[t.conns[i].key], over)

(* The next segment of a client, once it has become y: the next bytes and  *)
(* the FIN behind them, or, when its path keeps no order, one it has sent. *)
Offer(x, y, seg) ==
    \E from, n \in Nat :
       /\ seg.seq = sequence_add(ClientISS, from)
       /\ seg.payload = Counting(from, from + n - 1)
       /\ IF x.may.lossy
          THEN /\ 1 <= from /\ from + n <= y.sent + 1 /\ n <= 1
               /\ x.sent <= y.sent /\ ~seg.fin /\ ~x.fin /\ ~y.fin
          ELSE /\ from = x.sent + 1 + IF x.fin THEN 1 ELSE 0
               /\ y.sent = x.sent + n /\ (x.fin => n = 0)
               /\ (y.fin <=> x.fin \/ seg.fin) /\ (seg.fin => ~x.fin)

(* It hands over the bytes behind the m-th one, up to the k-th.           *)
Hands(c, x, y, seg, m, k) ==
    /\ m <= k /\ k <= y.sent
    /\ Fresh(sequence_difference(seg.seq, c.receive_next), seg.payload)
          = Counting(m + 1, k)
    /\ c.inbound_closed => k = m /\ ~seg.fin /\ y.fin /\ y.sent = m
    /\ seg.fin => y.fin /\ y.sent = k
    /\ x.may.lossy \/ (k = y.sent /\ (c.inbound_closed \/ seg.fin <=> y.fin))

LEMMA FreshIs ==
    ASSUME NEW c, NEW u, NEW x, NEW y, NEW seg, NEW a \in Nat, NEW m \in Nat,
           x.sent \in Nat, y.sent \in 0 .. ClientBytes, seg.fin \in BOOLEAN,
           Offer(x, y, seg), Relayed(c, u, x, FALSE, a, m)
    PROVE  \E k \in Nat : Hands(c, x, y, seg, m, k)
<1>. DEFINE f == IF c.inbound_closed THEN 1 ELSE 0
            gap == sequence_difference(seg.seq, c.receive_next)
<1>1. PICK from \in Nat, n \in Nat :
       /\ seg.seq = sequence_add(ClientISS, from)
       /\ seg.payload = Counting(from, from + n - 1)
       /\ IF x.may.lossy
          THEN /\ 1 <= from /\ from + n <= y.sent + 1 /\ n <= 1
               /\ x.sent <= y.sent /\ ~seg.fin /\ ~x.fin /\ ~y.fin
          ELSE /\ from = x.sent + 1 + IF x.fin THEN 1 ELSE 0
               /\ y.sent = x.sent + n /\ (x.fin => n = 0)
               /\ (y.fin <=> x.fin \/ seg.fin) /\ (seg.fin => ~x.fin)
  BY DEF Offer
<1>2. /\ m <= x.sent /\ (c.inbound_closed => x.fin /\ m = x.sent)
      /\ c.receive_next = sequence_add(ClientISS, 1 + m + f)
      /\ x.may.lossy \/ (m = x.sent /\ (c.inbound_closed <=> x.fin))
  BY DEF Relayed
<1>3. /\ SeqSpace \in Nat /\ SeqSpace > 4 * (1 + ClientBytes + RelayBytes)
      /\ ClientBytes \in Nat /\ RelayBytes \in Nat /\ ClientISS \in Int
  BY TerminatorAssumption
<1>4. f \in 0 .. 1 /\ (x.may.lossy => f = 0) /\ (~x.may.lossy => from = 1 + m + f)
  BY <1>1, <1>2
<1>5. 4 * (1 + m + f - from) < SeqSpace /\ 4 * (from - (1 + m + f)) < SeqSpace
      /\ 1 + m + f \in Int /\ from \in Int
  <2>. HIDE DEF f
  <2>1. CASE x.may.lossy
    <3>1. m \in 0 .. ClientBytes /\ from \in 1 .. ClientBytes + 1 /\ f = 0
      BY <1>1, <1>2, <1>3, <1>4, <2>1
    <3>. QED  BY <1>3, <3>1
  <2>2. CASE ~x.may.lossy
    BY <1>3, <1>4, <2>2
  <2>. QED  BY <2>1, <2>2
<1>6. gap = 1 + m + f - from
  <2>. DEFINE p == 1 + m + f
  <2>1. p \in Int /\ 4 * (p - from) < SeqSpace /\ 4 * (from - p) < SeqSpace
    BY <1>5
  <2>. HIDE DEF p
  <2>2. sequence_difference(sequence_add(ClientISS, from), sequence_add(ClientISS, p))
           = p - from
    BY <1>3, <1>5, <2>1, DifferenceTells
  <2>. QED  BY <1>1, <1>2, <2>2 DEF p
<1>. HIDE DEF f, gap
<1>7. seg.payload \in Bytes /\ Len(seg.payload) = n
  <2>. DEFINE l == from + n - 1
  <2>1. l \in Int /\ from \in Int /\ from <= l + 1 /\ l - from + 1 = n
    OBVIOUS
  <2>. HIDE DEF l
  <2>2. Counting(from, l) \in Bytes /\ Len(Counting(from, l)) = l - from + 1
    BY <2>1, CountingIs
  <2>. QED  BY <1>1, <2>1, <2>2 DEF l
<1>8. Counting(m + 1, m) = <<>>
  <2>. DEFINE l == m + 1
  <2>1. l \in Int /\ l - 1 = m
    OBVIOUS
  <2>. HIDE DEF l
  <2>2. Counting(l, m) = <<>>
    BY <2>1, CountingNone
  <2>. QED  BY <2>2 DEF l
<1>9. CASE n = 0 \/ gap # 0
  <2>1. x.may.lossy => n <= 1
    BY <1>1
  <2>2. ~x.may.lossy => gap = 0 /\ n = 0
    BY <1>4, <1>6, <1>9
  <2>3. Fresh(gap, seg.payload) = <<>>
    <3>1. gap > 0 \/ -gap >= n
      BY <1>4, <1>6, <1>9, <2>1, <2>2
    <3>. QED  BY <1>7, <3>1 DEF Fresh
  <2>4. /\ m <= y.sent
        /\ c.inbound_closed => ~seg.fin /\ y.fin /\ y.sent = m
        /\ seg.fin => y.fin /\ y.sent = m
        /\ x.may.lossy \/ (m = y.sent /\ (c.inbound_closed \/ seg.fin <=> y.fin))
    BY <1>1, <1>2, <2>2
  <2>5. m <= m
    OBVIOUS
  <2>6. Hands(c, x, y, seg, m, m)
    BY <1>8, <2>3, <2>4, <2>5 DEF gap, Hands
  <2>. QED  BY <2>6
<1>10. CASE n # 0 /\ gap = 0
  <2>1. ~c.inbound_closed /\ ~x.fin /\ f = 0
    BY <1>1, <1>2, <1>10 DEF f
  <2>2. from = m + 1 /\ m + n \in Nat /\ from + n - 1 = m + n
    BY <1>6, <1>10, <2>1
  <2>3. Fresh(gap, seg.payload) = seg.payload
    <3>1. Fresh(gap, seg.payload) = SubSeq(seg.payload, 1, Len(seg.payload))
      <4>1. ~(0 > 0) /\ ~(-0 >= n) /\ 1 - 0 = 1
        BY <1>10
      <4>. QED  BY <1>7, <1>10, <4>1 DEF Fresh
    <3>2. seg.payload \in Seq(Int)
      BY <1>7 DEF Bytes
    <3>3. SubSeq(seg.payload, 1, Len(seg.payload)) = seg.payload
      <4>. DEFINE q == seg.payload
                  r == SubSeq(q, 1, Len(q))
      <4>1. q \in Seq(Int) /\ Len(q) \in Nat \ {0} /\ \A i \in 1 .. Len(q) : q[i] \in Int
        BY <1>7, <1>10, <3>2, ElementOfSeq
      <4>. HIDE DEF q
      <4>2. /\ r \in Seq(Int) /\ Len(r) = Len(q)
            /\ \A i \in 1 .. Len(q) : r[i] = q[i]
        <5>. DEFINE L == Len(q)
        <5>1. /\ r \in Seq(Int) /\ Len(r) = IF 1 <= L THEN L - 1 + 1 ELSE 0
              /\ \A i \in 1 .. L - 1 + 1 : r[i] = q[1 + i - 1]
          <6>1. 1 \in Int /\ L \in Int /\ \A i \in 1 .. L : q[i] \in Int
            BY <4>1
          <6>. HIDE DEF L
          <6>. QED  BY <6>1, SubSeqProperties DEF L
        <5>. HIDE DEF r
        <5>2. L \in Nat \ {0} /\ L - 1 + 1 = L /\ \A i \in Int : 1 + i - 1 = i
          BY <4>1
        <5>. HIDE DEF L
        <5>. QED  BY <5>1, <5>2 DEF L
      <4>. HIDE DEF r
      <4>3. r = q
        BY <4>1, <4>2, SeqEqual
      <4>. QED  BY <4>3 DEF r, q
    <3>. QED  BY <3>1, <3>3
  <2>4. seg.payload = Counting(m + 1, m + n)
    BY <1>1, <2>2
  <2>5. /\ m <= m + n /\ m + n <= y.sent
        /\ seg.fin => y.fin /\ y.sent = m + n
        /\ x.may.lossy \/ (m + n = y.sent /\ (c.inbound_closed \/ seg.fin <=> y.fin))
    BY <1>1, <1>2, <1>10, <2>1, <2>2
  <2>. DEFINE k == m + n
  <2>6. k \in Nat /\ Fresh(gap, seg.payload) = Counting(m + 1, k)
    BY <2>2, <2>3, <2>4
  <2>7. Hands(c, x, y, seg, m, k)
    BY <2>1, <2>5, <2>6 DEF gap, Hands
  <2>. QED  BY <2>6, <2>7
<1>. QED  BY <1>9, <1>10

LEMMA AcceptsTaking ==
    ASSUME NEW c \in Conn, NEW u \in Up, NEW d, NEW v, NEW x, NEW y, NEW seg,
           x.sent \in Nat, y.sent \in 0 .. ClientBytes, seg.fin \in BOOLEAN,
           y.may = x.may, Offer(x, y, seg), Taking(c, u, x, FALSE),
           Accepts(c, u, d, v, seg)
    PROVE  /\ Taking(d, v, y, FALSE) /\ (u.eof => v.eof)
           /\ Len(u.sent) \in Nat /\ Len(v.sent) \in Nat /\ Len(u.sent) <= Len(v.sent)
<1>1. PICK a \in Nat, m \in Nat : Relayed(c, u, x, FALSE, a, m)
  BY DEF Taking
<1>. DEFINE fresh == Fresh(sequence_difference(seg.seq, c.receive_next), seg.payload)
            b == IF c.upstream_connected THEN TRUE ELSE FALSE
            f == IF c.inbound_closed THEN 1 ELSE 0
            e == IF seg.fin THEN 1 ELSE 0
<1>12. PICK k \in Nat : Hands(c, x, y, seg, m, k)
  BY <1>1, FreshIs
<1>2. /\ m <= k /\ k <= y.sent /\ fresh = Counting(m + 1, k)
      /\ c.inbound_closed => k = m /\ ~seg.fin /\ y.fin /\ y.sent = m
      /\ seg.fin => y.fin /\ y.sent = k
      /\ x.may.lossy \/ (k = y.sent /\ (c.inbound_closed \/ seg.fin <=> y.fin))
  BY <1>12 DEF Hands
<1>3. /\ d.receive_next = sequence_add(c.receive_next, Len(fresh) + e)
      /\ d.inbound_closed <=> c.inbound_closed \/ seg.fin
      /\ d.pending_for_upstream = IF c.upstream_connected THEN c.pending_for_upstream
                                  ELSE c.pending_for_upstream \o fresh
      /\ v.sent = IF c.upstream_connected THEN u.sent \o fresh ELSE u.sent
      /\ v.eof <=> u.eof \/ (seg.fin /\ ~c.inbound_closed /\ c.upstream_connected)
      /\ d.upstream_connected = c.upstream_connected
  BY DEF Accepts
<1>. HIDE DEF fresh
<1>4. /\ a <= m /\ u.sent = Counting(1, a) /\ c.pending_for_upstream = Counting(a + 1, m)
      /\ c.upstream_connected => a = m
      /\ c.receive_next = sequence_add(ClientISS, 1 + m + f)
      /\ u.eof => c.inbound_closed /\ c.upstream_connected
  BY <1>1 DEF Relayed
<1>5. fresh \in Bytes /\ Len(fresh) = k - m
  <2>. DEFINE l == m + 1
  <2>1. l \in Int /\ k \in Int /\ l <= k + 1 /\ k - l + 1 = k - m
    BY <1>2
  <2>. HIDE DEF l
  <2>2. Counting(l, k) \in Bytes /\ Len(Counting(l, k)) = k - l + 1
    BY <2>1, CountingIs
  <2>. QED  BY <1>2, <2>1, <2>2 DEF l
<1>6. \A i \in Nat : Counting(1, i) \in Bytes /\ Len(Counting(1, i)) = i
  <2>1. \A i \in Nat : 1 <= i + 1 /\ i \in Int /\ i - 1 + 1 = i
    OBVIOUS
  <2>. QED  BY <2>1, CountingIs
<1>7. d.receive_next = sequence_add(ClientISS, 1 + k + IF d.inbound_closed THEN 1 ELSE 0)
  <2>1. ClientISS \in Int
    BY TerminatorAssumption
  <2>. DEFINE p == 1 + m + f
              q == Len(fresh) + e
              r == 1 + k + IF d.inbound_closed THEN 1 ELSE 0
  <2>2. f \in Int /\ e \in Int /\ p \in Int /\ q \in Int /\ p + q = r
    BY <1>2, <1>3, <1>5
  <2>. HIDE DEF p, q, r
  <2>3. sequence_add(sequence_add(ClientISS, p), q) = sequence_add(ClientISS, p + q)
    BY <2>1, <2>2, AddAdds
  <2>. QED  BY <1>3, <1>4, <2>2, <2>3 DEF p, q, r
<1>8. y.may.lossy \/ (k = y.sent /\ (d.inbound_closed <=> y.fin))
  BY <1>2, <1>3
<1>9. d.inbound_closed => y.fin /\ k = y.sent
  BY <1>2, <1>3
<1>10. v.eof => d.inbound_closed /\ d.upstream_connected
  BY <1>3, <1>4
<1>11. CASE c.upstream_connected
  <2>1. u.sent \o fresh = Counting(1, k)
    <3>1. Counting(1, m) \o Counting(m + 1, k) = Counting(1, k)
      <4>1. 1 \in Int /\ m \in Int /\ k \in Int /\ 1 <= m + 1 /\ m <= k
        BY <1>2
      <4>. QED  BY <1>2, <4>1, CountingJoins
    <3>. QED  BY <1>2, <1>4, <1>11, <3>1
  <2>2. Counting(m + 1, m) = Counting(k + 1, k)
    <3>1. \A i \in Nat : Counting(i + 1, i) = <<>>
      <4>. SUFFICES ASSUME NEW i \in Nat PROVE Counting(i + 1, i) = <<>>
        OBVIOUS
      <4>. DEFINE l == i + 1
      <4>1. l \in Int /\ l - 1 = i
        OBVIOUS
      <4>. HIDE DEF l
      <4>2. Counting(l, i) = <<>>
        BY <4>1, CountingNone
      <4>. QED  BY <4>2 DEF l
    <3>. QED  BY <3>1
  <2>3. /\ v.sent = Counting(1, k) /\ d.pending_for_upstream = Counting(k + 1, k)
    BY <1>3, <1>4, <1>11, <2>1, <2>2
  <2>4. Relayed(d, v, y, FALSE, k, k)
    <3>1. k <= k
      OBVIOUS
    <3>. QED  BY <1>2, <1>3, <1>7, <1>8, <1>9, <1>10, <2>3, <3>1 DEF Relayed
  <2>5. Len(u.sent) = m /\ Len(v.sent) = k
    BY <1>4, <1>6, <1>11, <2>3
  <2>6. Len(u.sent) \in Nat /\ Len(v.sent) \in Nat /\ Len(u.sent) <= Len(v.sent)
    BY <1>2, <2>5
  <2>. QED  BY <1>3, <2>4, <2>6 DEF Taking
<1>13. CASE ~c.upstream_connected
  <2>1. c.pending_for_upstream \o fresh = Counting(a + 1, k)
    <3>. DEFINE l == a + 1
    <3>1. l \in Int /\ m \in Int /\ k \in Int /\ l <= m + 1 /\ m <= k
      BY <1>2, <1>4
    <3>. HIDE DEF l
    <3>2. Counting(l, m) \o Counting(m + 1, k) = Counting(l, k)
      BY <1>2, <3>1, CountingJoins
    <3>. QED  BY <1>2, <1>4, <3>2 DEF l
  <2>2. v.sent = Counting(1, a) /\ d.pending_for_upstream = Counting(a + 1, k) /\ a <= k
        /\ ~d.upstream_connected
    BY <1>2, <1>3, <1>4, <1>13, <2>1
  <2>3. Relayed(d, v, y, FALSE, a, k)
    BY <1>2, <1>7, <1>8, <1>9, <1>10, <2>2 DEF Relayed
  <2>4. Len(u.sent) = a /\ Len(v.sent) = a
    BY <1>4, <1>6, <2>2
  <2>5. Len(u.sent) \in Nat /\ Len(v.sent) \in Nat /\ Len(u.sent) <= Len(v.sent)
    BY <2>4
  <2>. QED  BY <1>3, <2>3, <2>5 DEF Taking
<1>. QED  BY <1>11, <1>13

-----------------------------------------------------------------------------
(* The first acknowledgement completes the handshake.                      *)

LEMMA ShakenBy ==
    ASSUME NEW d \in Conn, d.send_unacknowledged = OurISS,
           d.send_next = sequence_add(OurISS, 1), Len(d.unacknowledged) = 1,
           d.unacknowledged[1].seq = OurISS, d.unacknowledged[1].length = 1
    PROVE  /\ Acceptable(d, sequence_add(OurISS, 1))
           /\ Released(d, sequence_add(OurISS, 1)).handshake_complete
<1>. DEFINE ack == sequence_add(OurISS, 1)
<1>1. OurISS \in Int /\ SeqSpace \in Int /\ SeqSpace > 4
      /\ sequence_add(OurISS, 0) = OurISS
  <2>1. OurISS \in Space /\ SeqSpace \in Nat /\ OurISS \in Int
        /\ SeqSpace > 4 * (1 + ClientBytes + RelayBytes)
        /\ ClientBytes \in Nat /\ RelayBytes \in Nat
    BY TerminatorAssumption DEF Space
  <2>2. SeqSpace > 4
    BY <2>1
  <2>. QED  BY <2>1, <2>2, AddNothing
<1>2. sequence_difference(OurISS, ack) = 1 /\ sequence_difference(ack, ack) = 0
  <2>1. /\ 4 * (1 - 0) < SeqSpace /\ 4 * (0 - 1) < SeqSpace /\ 4 * (1 - 1) < SeqSpace
        /\ 0 \in Int /\ 1 \in Int /\ 1 - 0 = 1 /\ 1 - 1 = 0
    BY <1>1
  <2>2. sequence_difference(sequence_add(OurISS, 0), sequence_add(OurISS, 1)) = 1 - 0
    BY <1>1, <2>1, DifferenceTells
  <2>3. sequence_difference(sequence_add(OurISS, 1), sequence_add(OurISS, 1)) = 1 - 1
    BY <1>1, <2>1, DifferenceTells
  <2>. QED  BY <1>1, <2>1, <2>2, <2>3
<1>3. Acceptable(d, ack)
  BY <1>2 DEF Acceptable
<1>4. Covered(d, ack) = 1
  <2>. DEFINE end(j) == sequence_add(d.unacknowledged[j].seq, d.unacknowledged[j].length)
              held(j) == \A k \in 1 .. j : sequence_difference(ack, end(k)) <= 0
              upto == {j \in 0 .. Len(d.unacknowledged) : held(j)}
  <2>1. held(1) /\ held(0)
    BY <1>2
  <2>2. upto = {0, 1}
    <3>. HIDE DEF held
    <3>. QED  BY <2>1
  <2>3. Covered(d, ack) = CHOOSE m \in upto : \A j \in upto : j <= m
    BY DEF Covered
  <2>. HIDE DEF upto
  <2>4. \A m \in upto : (\A j \in upto : j <= m) => m = 1
    BY <2>2
  <2>5. 1 \in upto /\ \A j \in upto : j <= 1
    BY <2>2
  <2>. QED  BY <2>3, <2>4, <2>5
<1>5. Released(d, ack).handshake_complete
  <2>. DEFINE n == Covered(d, ack)
              rest == SubSeq(d.unacknowledged, n + 1, Len(d.unacknowledged))
              last == d.unacknowledged[n]
              una == IF n = 0 THEN d.send_unacknowledged
                     ELSE sequence_add(last.seq, last.length)
              h == d.handshake_complete \/ sequence_difference(una, ack) >= 0
              r == IF n > 0 THEN 0 ELSE d.retransmits
  <2>1. Released(d, ack) = [d EXCEPT !.unacknowledged = rest,
                                     !.send_unacknowledged = una,
                                     !.retransmits = r, !.handshake_complete = h]
    BY DEF Released
  <2>2. h
    BY <1>2, <1>4
  <2>. HIDE DEF rest, una, r, h
  <2>. QED  BY <2>1, <2>2 DEF Conn
<1>. QED  BY <1>3, <1>5

(* What a client acknowledges that has got nothing.                        *)
Prompt(seg) == seg.ack /\ (Untouched(client[seg.key]) => seg.ackno = sequence_add(OurISS, 1))

LEMMA Shaken ==
    ASSUME Sound, NEW i \in 1 .. Len(connections), NEW seg,
           Legal(seg), connections[i].key = seg.key, Prompt(seg)
    PROVE  ~Unready(i, seg)
<1>. DEFINE c == connections[i]
            u == upstream[c.dial]
            d == [c EXCEPT !.peer_window = seg.window]
<1>. SUFFICES ASSUME ~Heard(i, seg).conns[i].handshake_complete
              PROVE  /\ seg.ack /\ Acceptable(Heard(i, seg).conns[i], seg.ackno)
                     /\ Released(Heard(i, seg).conns[i], seg.ackno).handshake_complete
  BY DEF Unready
<1>1. c \in Conn /\ u \in Up /\ Streaming(c, u, wire[c.key], client[c.key])
      /\ i \in DOMAIN Now.conns /\ Now.conns = connections
  BY SoundFacts, SoundStreams DEF Now
<1>2. Heard(i, seg).conns[i] = d
  <2>1. Heard(i, seg) = [Now EXCEPT !.conns[i] = d]
    BY DEF Heard, Put
  <2>. HIDE DEF d
  <2>. QED  BY <1>1, <2>1 DEF Now
<1>3. d \in Conn /\ d.handshake_complete = c.handshake_complete
      /\ d.send_next = c.send_next /\ d.unacknowledged = c.unacknowledged
      /\ d.send_unacknowledged = c.send_unacknowledged
  <2>1. seg.window \in Windows
    BY DEF Legal
  <2>. HIDE DEF c
  <2>. QED  BY <1>1, <2>1 DEF Conn
<1>4. ~c.handshake_complete
  BY <1>2, <1>3
<1>5. /\ Untouched(client[c.key]) /\ c.send_unacknowledged = OurISS
      /\ Len(c.unacknowledged) = 1 /\ c.unacknowledged[1].kind = "SYNACK"
      /\ Tiled(c, u)
  BY <1>1, <1>4 DEF Streaming, Before, Shook
<1>. HIDE DEF c, d, u
<1>6. /\ c.unacknowledged[1].seq = OurISS /\ c.unacknowledged[1].length = 1
      /\ c.send_next = sequence_add(OurISS, 1)
  <2>. DEFINE s == c.unacknowledged[1]
  <2>1. Placed(s, u.fed, c.fin_sent) /\ Ends(s, u.fed) = Ahead(c, u.fed)
        /\ c.send_next = sequence_add(OurISS, Ahead(c, u.fed))
    BY <1>5 DEF Tiled, Chain
  <2>2. Position(s, u.fed) = 0 /\ s.length = 1 /\ s.seq = sequence_add(OurISS, 0)
    BY <1>5, <2>1 DEF Placed, Position
  <2>3. Ahead(c, u.fed) = 1
    BY <2>1, <2>2 DEF Ends
  <2>4. sequence_add(OurISS, 0) = OurISS
    BY TerminatorAssumption, AddNothing DEF Space
  <2>. QED  BY <2>1, <2>2, <2>3, <2>4
<1>7. seg.ack /\ seg.ackno = sequence_add(OurISS, 1)
  BY <1>5 DEF Prompt, c
<1>. QED  BY <1>2, <1>3, <1>5, <1>6, <1>7, ShakenBy

-----------------------------------------------------------------------------
(* What is left of a table, untouched.                                     *)
Taken(c, u) == <<c.receive_next, c.inbound_closed, c.upstream_connected,
                 c.pending_for_upstream, u.sent, u.eof>>

Steady(c, d) ==
    /\ d.key = c.key /\ d.dial = c.dial /\ d.receive_next = c.receive_next
    /\ d.inbound_closed = c.inbound_closed
    /\ d.upstream_connected = c.upstream_connected
    /\ d.pending_for_upstream = c.pending_for_upstream

Leaves(t, u) ==
    /\ \A j \in 1 .. Len(u.conns) :
          \E i \in 1 .. Len(t.conns) : Steady(t.conns[i], u.conns[j])
    /\ \A d \in Dials : Heeds(t.up[d], u.up[d])

(* A step that removes a connection leaves the others as they were.        *)
Undisturbed ==
    \A i \in DOMAIN connections :
       (\A j \in DOMAIN connections' : connections'[j].dial # connections[i].dial) =>
          \A k \in DOMAIN connections, j \in DOMAIN connections' :
             connections'[j].dial = connections[k].dial =>
                Taken(connections'[j], upstream'[connections'[j].dial])
                   = Taken(connections[k], upstream[connections[k].dial])

(* A segment that carries nothing.                                         *)
Mute(seg) == seg.payload = <<>> /\ ~seg.fin

LEMMA RemainsLeaves ==
    ASSUME NEW t, NEW u, NEW n, Whole(u, n), Remains(t, u)
    PROVE  Leaves(t, u)
  BY DEF Remains, Leaves, Still, Steady, Whole

LEMMA LeavesThen ==
    ASSUME NEW t, NEW u, NEW v, Leaves(t, u), Leaves(u, v)
    PROVE  Leaves(t, v)
<1>1. ASSUME NEW j \in 1 .. Len(v.conns)
      PROVE  \E i \in 1 .. Len(t.conns) : Steady(t.conns[i], v.conns[j])
  <2>1. PICK k \in 1 .. Len(u.conns) : Steady(u.conns[k], v.conns[j])
    BY DEF Leaves
  <2>2. PICK i \in 1 .. Len(t.conns) : Steady(t.conns[i], u.conns[k])
    BY DEF Leaves
  <2>. QED  BY <2>1, <2>2 DEF Steady
<1>2. \A d \in Dials : Heeds(t.up[d], v.up[d])
  BY HeedsThen DEF Leaves
<1>. QED  BY <1>1, <1>2 DEF Leaves

LEMMA MuteAccepts ==
    ASSUME NEW c \in Conn, NEW u \in Up, NEW d, NEW v, NEW seg, Legal(seg), Mute(seg),
           d.inbound_closed \in BOOLEAN, v.eof \in BOOLEAN, Accepts(c, u, d, v, seg)
    PROVE  Steady(c, d) /\ Heeds(u, v)
<1>. DEFINE gap == sequence_difference(seg.seq, c.receive_next)
<1>1. gap \in Int
  BY Fields, DifferenceIsInt DEF Legal
<1>. HIDE DEF gap
<1>2. Fresh(gap, <<>>) = <<>>
  BY <1>1 DEF Fresh
<1>3. /\ c.receive_next \in Space /\ c.pending_for_upstream \in Seq(Int)
      /\ u.sent \in Seq(Int) /\ c.inbound_closed \in BOOLEAN /\ u.eof \in BOOLEAN
  BY DEF Conn, Up, Bytes
<1>4. /\ sequence_add(c.receive_next, Len(<<>>) + 0) = c.receive_next
      /\ c.pending_for_upstream \o <<>> = c.pending_for_upstream
      /\ u.sent \o <<>> = u.sent
  <2>1. Len(<<>>) + 0 = 0
    OBVIOUS
  <2>. QED  BY <1>3, <2>1, AddNothing
<1>5. /\ d.receive_next = c.receive_next /\ d.pending_for_upstream = c.pending_for_upstream
      /\ v.sent = u.sent /\ (d.inbound_closed <=> c.inbound_closed) /\ (v.eof <=> u.eof)
      /\ d.upstream_connected = c.upstream_connected
      /\ d.key = c.key /\ d.dial = c.dial /\ v.key = u.key
      /\ v.phase = "none" <=> u.phase = "none"
  BY <1>2, <1>4 DEF Accepts, Mute, gap
<1>6. d.inbound_closed = c.inbound_closed /\ v.eof = u.eof
  BY <1>3, <1>5
<1>. QED  BY <1>5, <1>6 DEF Steady, Heeds

LEMMA WholeParts ==
    ASSUME NEW t, NEW n, Whole(t, n)
    PROVE  /\ n \in Nat /\ DOMAIN t.conns = 1 .. Len(t.conns) /\ Len(t.conns) \in Nat
           /\ t.up \in [Dials -> Up]
           /\ \A i \in 1 .. Len(t.conns) :
                 /\ t.conns[i] \in Conn /\ t.conns[i].state # "Closed"
                 /\ t.conns[i].dial \in Dials /\ t.conns[i].key \in Keys
                 /\ t.conns[i].dial <= n
                 /\ t.up[t.conns[i].dial] \in Up
                 /\ t.up[t.conns[i].dial].closes = 0
                 /\ t.up[t.conns[i].dial].key = t.conns[i].key
           /\ \A i, j \in 1 .. Len(t.conns) : i # j =>
                 t.conns[i].dial # t.conns[j].dial /\ t.conns[i].key # t.conns[j].key
           /\ \A d \in Dials : d <= n /\ t.up[d].closes = 0 =>
                 \E i \in 1 .. Len(t.conns) : t.conns[i].dial = d
<1>1. Kept(t, n) /\ \A i \in 1 .. Len(t.conns) : t.conns[i].state # "Closed"
  BY DEF Whole
<1>2. /\ n \in Nat /\ DOMAIN t.conns = 1 .. Len(t.conns) /\ Len(t.conns) \in Nat
      /\ t.up \in [Dials -> Up] /\ \A i \in 1 .. Len(t.conns) : t.conns[i].dial <= n
  BY <1>1, LenProperties DEF Kept
<1>3. ASSUME NEW i \in 1 .. Len(t.conns)
      PROVE  /\ t.conns[i] \in Conn
             /\ t.conns[i].dial \in Dials /\ t.conns[i].key \in Keys
             /\ t.up[t.conns[i].dial] \in Up
             /\ t.up[t.conns[i].dial].closes = 0
             /\ t.up[t.conns[i].dial].key = t.conns[i].key
  <2>1. Works(t, n, i)
    BY WholeWorks
  <2>2. t.conns[i] \in Conn
    BY <2>1, AtHand
  <2>. QED  BY <2>1, <2>2, AtHand, Fields
<1>4. ASSUME NEW d \in Dials, d <= n, t.up[d].closes = 0
      PROVE  \E i \in 1 .. Len(t.conns) : t.conns[i].dial = d
  <2>1. d \in Nat /\ ~(d > n)
    BY <1>2, <1>4, DialsAre
  <2>. QED  BY <1>1, <1>4, <2>1 DEF Kept, Holds
<1>. QED  BY <1>1, <1>2, <1>3, <1>4 DEF Kept

LEMMA MuteTakes ==
    ASSUME NEW t, NEW u, NEW n, Whole(t, n), Whole(u, n), NEW i, NEW seg, Legal(seg),
           Mute(seg), Takes(t, u, i, seg)
    PROVE  Leaves(t, u)
<1>. DEFINE D == t.conns[i].dial
<1>1. /\ i \in 1 .. Len(t.conns) /\ Len(u.conns) = Len(t.conns)
      /\ Accepts(t.conns[i], t.up[D], u.conns[i], u.up[D], seg)
      /\ \A j \in 1 .. Len(t.conns) : j # i => Still(t.conns[j], u.conns[j])
      /\ \A d \in Dials : d # D => Heeds(t.up[d], u.up[d])
  BY DEF Takes
<1>2. /\ t.conns[i] \in Conn /\ t.up[D] \in Up
      /\ u.conns[i].inbound_closed \in BOOLEAN /\ u.up[D].eof \in BOOLEAN
  <2>1. t.conns[i] \in Conn /\ t.up[D] \in Up /\ D \in Dials
    BY <1>1, WholeParts
  <2>2. u.conns[i] \in Conn /\ u.up \in [Dials -> Up]
    BY <1>1, WholeParts
  <2>3. u.up[D] \in Up
    BY <2>1, <2>2
  <2>. QED  BY <2>1, <2>2, <2>3 DEF Conn, Up
<1>3. Steady(t.conns[i], u.conns[i]) /\ Heeds(t.up[D], u.up[D])
  BY <1>1, <1>2, MuteAccepts
<1>4. \A j \in 1 .. Len(u.conns) : Steady(t.conns[j], u.conns[j])
  BY <1>1, <1>3 DEF Still, Steady, Whole
<1>. QED  BY <1>1, <1>3, <1>4 DEF Leaves

(* The index slips to another connection, which stays undisturbed.         *)
LEMMA SlipLeaves ==
    ASSUME Sound, NEW i \in 1 .. Len(connections), NEW a, NEW u, NEW seg, Legal(seg),
           Whole(u, next_dial), Commit(u),
           Gone(Now, a, i), i \in 1 .. Len(a.conns), Whole(a, next_dial),
           Takes(a, u, i, seg) \/ Rests(a, u), Undisturbed \/ Mute(seg)
    PROVE  /\ Leaves(Now, u)
           /\ \A j \in 1 .. Len(u.conns) : u.conns[j].key # connections[i].key
<1>. DEFINE n == next_dial
<1>1. /\ Now.conns = connections /\ Now.up = upstream /\ Whole(Now, n)
      /\ connections' = u.conns /\ upstream' = u.up
      /\ DOMAIN connections = 1 .. Len(connections)
  BY SoundFacts DEF Now, Commit, Sound
<1>2. Leaves(Now, a)
  BY RemainsLeaves DEF Gone
<1>3. /\ Len(u.conns) = Len(a.conns) /\ DOMAIN u.conns = 1 .. Len(u.conns)
      /\ \A j \in 1 .. Len(u.conns) : u.conns[j].key = a.conns[j].key
                                     /\ u.conns[j].dial = a.conns[j].dial
  BY WholeParts DEF Takes, Rests, Accepts, Still
<1>4. \A j \in 1 .. Len(u.conns) : u.conns[j].key # connections[i].key
                                  /\ u.conns[j].dial # connections[i].dial
  BY <1>1, <1>3 DEF Gone
<1>5. CASE Rests(a, u)
  <2>1. Leaves(a, u)
    BY <1>5, RestsRemains, RemainsLeaves
  <2>. QED  BY <1>2, <1>4, <2>1, LeavesThen
<1>6. CASE Takes(a, u, i, seg) /\ Mute(seg)
  <2>1. Leaves(a, u)
    BY <1>6, MuteTakes
  <2>. QED  BY <1>2, <1>4, <2>1, LeavesThen
<1>7. CASE Takes(a, u, i, seg) /\ Undisturbed
  <2>. DEFINE D == a.conns[i].dial
  <2>1. PICK k \in 1 .. Len(connections) : Still(connections[k], a.conns[i])
    BY <1>1 DEF Gone, Remains
  <2>2. /\ Accepts(a.conns[i], a.up[D], u.conns[i], u.up[D], seg)
        /\ u.conns[i].dial = D /\ connections[k].dial = D /\ D \in Dials
        /\ u.conns[i].key = a.conns[i].key /\ a.conns[i].key = connections[k].key
    BY <1>3, <1>7, <2>1, WholeParts DEF Takes, Still
  <2>3. Taken(u.conns[i], u.up[D]) = Taken(connections[k], upstream[D])
    <3>1. \A j \in DOMAIN connections' : connections'[j].dial # connections[i].dial
      BY <1>1, <1>3, <1>4
    <3>2. k \in DOMAIN connections /\ i \in DOMAIN connections /\ i \in DOMAIN connections'
      BY <1>1, <1>3
    <3>3. connections'[i].dial = connections[k].dial =>
             Taken(connections'[i], upstream'[connections'[i].dial])
                = Taken(connections[k], upstream[connections[k].dial])
      BY <1>7, <3>1, <3>2 DEF Undisturbed
    <3>. QED  BY <1>1, <2>2, <3>3
  <2>4. Steady(connections[k], u.conns[i])
    BY <2>2, <2>3 DEF Steady, Taken
  <2>5. Heeds(upstream[D], u.up[D])
    <3>1. Heeds(upstream[D], a.up[D])
      BY <1>1, <1>2, <2>2 DEF Leaves
    <3>. QED  BY <2>2, <2>3, <3>1 DEF Heeds, Taken, Accepts
  <2>6. ASSUME NEW j \in 1 .. Len(u.conns)
        PROVE  \E m \in 1 .. Len(connections) : Steady(connections[m], u.conns[j])
    <3>1. CASE j = i
      BY <2>4, <3>1
    <3>2. CASE j # i
      <4>1. Still(a.conns[j], u.conns[j]) /\ j \in 1 .. Len(a.conns)
        BY <1>3, <1>7, <3>2 DEF Takes
      <4>2. PICK m \in 1 .. Len(connections) : Still(connections[m], a.conns[j])
        BY <1>1, <4>1 DEF Gone, Remains
      <4>3. Still(connections[m], u.conns[j])
        BY <4>1, <4>2, StillThen
      <4>. QED  BY <4>3 DEF Still, Steady, Whole
    <3>. QED  BY <3>1, <3>2
  <2>7. ASSUME NEW d \in Dials
        PROVE  Heeds(upstream[d], u.up[d])
    <3>1. CASE d = D
      BY <2>5, <3>1
    <3>2. CASE d # D
      <4>1. Heeds(a.up[d], u.up[d]) /\ Heeds(upstream[d], a.up[d])
        BY <1>1, <1>2, <1>7, <3>2 DEF Takes, Leaves
      <4>. QED  BY <4>1, HeedsThen
    <3>. QED  BY <3>1, <3>2
  <2>. QED  BY <1>1, <1>4, <2>6, <2>7 DEF Leaves
<1>. QED  BY <1>5, <1>6, <1>7

(* What becomes of a segment: the table stays as it is, but for what goes, *)
(* or one connection takes it, or a new one is opened for it.              *)
Lands(seg) ==
    \/ /\ UNCHANGED next_dial /\ Leaves(Now, Now')
       /\ \/ closed \/ Mute(seg) \/ ~Prompt(seg)
          \/ \A j \in 1 .. Len(Now.conns)' : Now'.conns[j].key # seg.key
    \/ /\ ~closed /\ UNCHANGED next_dial
       /\ \E i \in 1 .. Len(connections) :
             connections[i].key = seg.key /\ Takes(Now, Now', i, seg)
    \/ /\ ~closed /\ seg.syn /\ IndexOfKey(seg.key) = {}
       /\ next_dial < MaxDials /\ next_dial' = next_dial + 1
       /\ Now' = Opening(Now, seg.key, next_dial + 1, seg.window)

LEMMA LeavesSelf ==
    ASSUME Sound, UNCHANGED <<connections, upstream>>
    PROVE  Leaves(Now, Now')
<1>1. Now'.conns = connections /\ Now'.up = upstream
      /\ Now.conns = connections /\ Now.up = upstream
  BY DEF Now
<1>. QED  BY <1>1 DEF Leaves, Steady, Heeds

LEMMA Room ==
    ASSUME Sound
    PROVE  MaxDials \in Nat /\ (next_dial < MaxDials => next_dial + 1 \in Dials)
<1>1. next_dial \in Nat
  BY SoundFacts
<1>2. MaxDials \in Nat /\ MaxDials <= Cardinality(Keys)
  <2>. DEFINE O == {k \in Keys : client[k].may.opens}
  <2>1. IsFiniteSet(O) /\ Cardinality(O) <= Cardinality(Keys)
    <3>1. O \in SUBSET Keys /\ IsFiniteSet(Keys)
      BY Constants
    <3>. HIDE DEF O
    <3>. QED  BY <3>1, FS_Subset
  <2>. HIDE DEF O
  <2>2. Cardinality(O) \in Nat
    BY <2>1, FS_CardinalityType
  <2>. QED  BY <2>1, <2>2 DEF MaxDials, O
<1>. QED  BY <1>1, <1>2, DialsAre

LEMMA AcceptLands ==
    ASSUME Sound, NEW seg, Legal(seg), accept(seg), seg.syn => Mute(seg),
           Undisturbed \/ Mute(seg)
    PROVE  Lands(seg)
<1>. DEFINE n == next_dial
<1>1. /\ Now.conns = connections /\ Now.up = upstream /\ Whole(Now, n)
      /\ DOMAIN connections = 1 .. Len(connections)
  BY SoundFacts DEF Now, Sound
<1>2. ASSUME UNCHANGED <<connections, next_dial, wire, upstream>>,
             closed \/ IndexOfKey(seg.key) = {}
      PROVE  Lands(seg)
  <2>1. Leaves(Now, Now') /\ Now'.conns = connections
    BY <1>2, LeavesSelf DEF Now
  <2>2. IndexOfKey(seg.key) = {} =>
           \A j \in 1 .. Len(Now.conns)' : Now'.conns[j].key # seg.key
    BY <1>1, <1>2, <2>1 DEF IndexOfKey
  <2>. QED  BY <1>2, <2>1, <2>2 DEF Lands
<1>3. ASSUME ~closed, NEW i \in IndexOfKey(seg.key), handle(i, seg), UNCHANGED next_dial
      PROVE  Lands(seg)
  <2>1. i \in 1 .. Len(connections) /\ connections[i].key = seg.key
    BY <1>1 DEF IndexOfKey
  <2>2. PICK u : Reaches(Now, u, n) /\ Commit(u) /\ Outcome(u, i, seg)
    BY <1>1, <1>3, <2>1, HandleReaches
  <2>3. Now' = u /\ Whole(u, n)
    BY <2>2, Committed DEF Reaches
  <2>4. ASSUME Leaves(Now, u),
               \/ Mute(seg) \/ ~Prompt(seg)
               \/ \A j \in 1 .. Len(u.conns) : u.conns[j].key # seg.key
        PROVE  Lands(seg)
    BY <1>3, <2>3, <2>4 DEF Lands
  <2>5. CASE Gone(Now, u, i)
    <3>1. Leaves(Now, u)
      BY <2>3, <2>5, RemainsLeaves DEF Gone
    <3>2. \A j \in 1 .. Len(u.conns) : u.conns[j].key # seg.key
      BY <1>1, <2>1, <2>5 DEF Gone
    <3>. QED  BY <2>4, <3>1, <3>2
  <2>6. ASSUME NEW a, Gone(Now, a, i), i \in 1 .. Len(a.conns), Whole(a, next_dial),
               Takes(a, u, i, seg) \/ Rests(a, u)
        PROVE  Lands(seg)
    <3>1. /\ Leaves(Now, u)
          /\ \A j \in 1 .. Len(u.conns) : u.conns[j].key # connections[i].key
      BY <2>1, <2>2, <2>3, <2>6, SlipLeaves
    <3>. QED  BY <2>1, <2>4, <3>1
  <2>7. CASE Takes(Now, u, i, seg)
    BY <1>3, <2>1, <2>3, <2>7 DEF Lands
  <2>8. CASE Rests(Now, u) /\ (seg.syn \/ Unready(i, seg))
    <3>1. Leaves(Now, u)
      BY <2>3, <2>8, RestsRemains, RemainsLeaves
    <3>2. Unready(i, seg) => ~Prompt(seg)
      BY <2>1, Shaken
    <3>. QED  BY <2>4, <2>8, <3>1, <3>2
  <2>. QED  BY <2>2, <2>5, <2>6, <2>7, <2>8 DEF Outcome
<1>4. ASSUME ~closed, IndexOfKey(seg.key) = {}, seg.syn,
             next_dial < MaxDials, next_dial' = next_dial + 1,
             Commit(open(Now, seg.key, next_dial + 1, seg.window))
      PROVE  Lands(seg)
  <2>. DEFINE u == Opening(Now, seg.key, next_dial + 1, seg.window)
  <2>1. next_dial + 1 \in Dials /\ seg.key \in Keys
    BY <1>4, Room DEF Legal
  <2>2. Now.conns \in Seq(Conn) /\ Now.up \in [Dials -> Up] /\ Wired(Now.wire)
    BY <1>1 DEF Whole, Kept
  <2>3. open(Now, seg.key, next_dial + 1, seg.window) = u
    BY <2>1, <2>2, OpenIs
  <2>4. u = [conns |-> u.conns, wire |-> u.wire, up |-> u.up]
    BY DEF Opening
  <2>5. Commit(u)
    BY <1>4, <2>3
  <2>. HIDE DEF u
  <2>6. Now' = u
    BY <2>4, <2>5 DEF Commit, Now
  <2>. QED  BY <1>4, <2>6 DEF Lands, u
<1>. QED  BY <1>2, <1>3, <1>4 DEF accept

-----------------------------------------------------------------------------
(* A client says nothing new, or it says more.                             *)
Said(x, y) == y.sent = x.sent /\ y.fin = x.fin /\ y.may = x.may
Grown(x, y) ==
    y.may = x.may /\ x.sent <= y.sent /\ (x.fin => y.fin /\ y.sent = x.sent)

(* What a client may have said.                                            *)
Modest(x) ==
    /\ x.sent \in 0 .. ClientBytes /\ x.fin \in BOOLEAN /\ x.sent <= x.may.bytes
    /\ x.phase \in {"idle", "synsent"} => x.sent = 0 /\ ~x.fin
    /\ x.fin => x.may.closes
    /\ x.may.lossy => x.may.lengths \subseteq {1} /\ ~x.may.closes

(* What the relays were given of the client's stream, n dials handed out.  *)
Given(t, n) ==
    \A d \in Dials :
       /\ t.up[d].phase = "none" <=> d > n
       /\ d > n => t.up[d].sent = <<>> /\ ~t.up[d].eof
       /\ \E a \in 0 .. ClientBytes : t.up[d].sent = Counting(1, a)

(* A relay is given more, or a dial begins.                                *)
Grows(u, v) ==
    /\ v.key = u.key /\ v.closes = 0 /\ u.phase # "none" /\ v.phase # "none"
    /\ u.eof => v.eof
    /\ Len(u.sent) \in Nat /\ Len(v.sent) \in Nat /\ Len(u.sent) <= Len(v.sent)
Begins(u, v) ==
    /\ u.phase = "none" /\ v.phase # "none" /\ v.closes = 0
    /\ v.sent = <<>> /\ ~v.eof

(* What becomes of the dials when n of them, then m, are handed out.       *)
Advance(t, u, n, m) ==
    \/ m = n /\ \A d \in Dials : Heeds(t.up[d], u.up[d]) \/ Grows(t.up[d], u.up[d])
    \/ /\ m = n + 1 /\ m \in Dials /\ Begins(t.up[m], u.up[m])
       /\ \A d \in Dials : d # m => Heeds(t.up[d], u.up[d])

LEMMA SteadyTaking ==
    ASSUME NEW c, NEW u, NEW d, NEW v, NEW x, NEW y, NEW o, NEW p,
           x.sent \in Nat, y.sent \in Nat, Taking(c, u, x, o), Steady(c, d), Heeds(u, v),
           Grown(x, y), o => p, p \/ x.may.lossy \/ Said(x, y)
    PROVE  Taking(d, v, y, p)
<1>1. PICK a \in Nat, m \in Nat : Relayed(c, u, x, o, a, m)
  BY DEF Taking
<1>2. /\ d.pending_for_upstream = c.pending_for_upstream /\ v.sent = u.sent
      /\ d.upstream_connected = c.upstream_connected /\ v.eof = u.eof
      /\ d.receive_next = c.receive_next /\ d.inbound_closed = c.inbound_closed
  BY DEF Steady, Heeds
<1>3. m <= y.sent /\ (c.inbound_closed => y.fin /\ m = y.sent)
  BY <1>1 DEF Relayed, Grown
<1>4. p \/ y.may.lossy \/ (m = y.sent /\ (c.inbound_closed <=> y.fin))
  BY <1>1 DEF Relayed, Grown, Said
<1>5. Relayed(d, v, y, p, a, m)
  BY <1>1, <1>2, <1>3, <1>4 DEF Relayed
<1>. QED  BY <1>5 DEF Taking

LEMMA LeavesInbound ==
    ASSUME NEW t, NEW u, NEW n, Whole(t, n), Whole(u, n), Leaves(t, u),
           NEW h, NEW g, NEW o, NEW p, o => p, Inbound(t, h, o),
           \A k \in Keys : /\ h[k].sent \in Nat /\ g[k].sent \in Nat /\ Grown(h[k], g[k])
                           /\ \/ p \/ h[k].may.lossy \/ Said(h[k], g[k])
                              \/ \A j \in 1 .. Len(u.conns) : u.conns[j].key # k
    PROVE  Inbound(u, g, p)
<1>1. SUFFICES ASSUME NEW j \in 1 .. Len(u.conns)
               PROVE  Taking(u.conns[j], u.up[u.conns[j].dial], g[u.conns[j].key], p)
  BY DEF Inbound
<1>. DEFINE d == u.conns[j]
<1>2. PICK i \in 1 .. Len(t.conns) : Steady(t.conns[i], d)
  BY DEF Leaves
<1>. DEFINE c == t.conns[i]
<1>3. /\ c.state # "Closed" /\ d.dial = c.dial /\ d.key = c.key
      /\ c.dial \in Dials /\ c.key \in Keys
  BY <1>2, WholeParts DEF Steady
<1>4. Taking(c, t.up[c.dial], h[c.key], o)
  BY <1>3 DEF Inbound
<1>5. Heeds(t.up[c.dial], u.up[c.dial])
  BY <1>3 DEF Leaves
<1>6. /\ h[c.key].sent \in Nat /\ g[c.key].sent \in Nat /\ Grown(h[c.key], g[c.key])
      /\ p \/ h[c.key].may.lossy \/ Said(h[c.key], g[c.key])
  BY <1>3
<1>8. Steady(c, d)
  BY <1>2
<1>. DEFINE x == h[c.key]
            y == g[c.key]
            was == t.up[c.dial]
            now == u.up[c.dial]
<1>. HIDE DEF c, d, x, y, was, now
<1>9. /\ x.sent \in Nat /\ y.sent \in Nat /\ Taking(c, was, x, o) /\ Heeds(was, now)
      /\ Grown(x, y) /\ (p \/ x.may.lossy \/ Said(x, y))
  BY <1>4, <1>5, <1>6 DEF x, y, was, now
<1>7. Taking(d, now, y, p)
  BY <1>8, <1>9, SteadyTaking
<1>. QED  BY <1>3, <1>7 DEF d, now, y

(* One client says the next segment, the others nothing.                   *)
Says(seg, h, g) ==
    /\ Offer(h[seg.key], g[seg.key], seg) /\ seg.fin \in BOOLEAN
    /\ \A k \in Keys : /\ h[k].sent \in Nat /\ g[k].sent \in 0 .. ClientBytes
                       /\ Grown(h[k], g[k])
                       /\ k # seg.key => Said(h[k], g[k])

LEMMA TakesInbound ==
    ASSUME NEW t, NEW u, NEW n, Whole(t, n), Whole(u, n), Given(t, n),
           NEW i \in 1 .. Len(t.conns), NEW seg, Takes(t, u, i, seg),
           t.conns[i].key = seg.key, NEW h, NEW g, Inbound(t, h, FALSE), Says(seg, h, g)
    PROVE  Inbound(u, g, FALSE) /\ Advance(t, u, n, n)
<1>. DEFINE c == t.conns[i]
            D == c.dial
            K == seg.key
<1>1. /\ c \in Conn /\ c.state # "Closed" /\ D \in Dials /\ K \in Keys /\ t.up[D] \in Up
      /\ D <= n /\ n \in Nat
  BY WholeParts
<1>2. /\ Len(u.conns) = Len(t.conns) /\ Accepts(c, t.up[D], u.conns[i], u.up[D], seg)
      /\ \A j \in 1 .. Len(t.conns) : j # i => Still(t.conns[j], u.conns[j])
      /\ \A d \in Dials : d # D => Heeds(t.up[d], u.up[d])
  BY DEF Takes
<1>3. Taking(c, t.up[D], h[K], FALSE)
  BY <1>1 DEF Inbound
<1>4. /\ h[K].sent \in Nat /\ g[K].sent \in 0 .. ClientBytes /\ g[K].may = h[K].may
  BY <1>1 DEF Says, Grown
<1>5. u.conns[i].dial = D /\ u.conns[i].key = K /\ u.up[D].key = t.up[D].key
      /\ (u.up[D].phase = "none" <=> t.up[D].phase = "none")
  BY <1>2 DEF Accepts
<1>6. /\ Taking(u.conns[i], u.up[D], g[K], FALSE) /\ (t.up[D].eof => u.up[D].eof)
      /\ Len(t.up[D].sent) \in Nat /\ Len(u.up[D].sent) \in Nat
      /\ Len(t.up[D].sent) <= Len(u.up[D].sent)
  <2>. DEFINE d == u.conns[i]
              v == u.up[D]
              was == t.up[D]
              x == h[K]
              y == g[K]
  <2>. HIDE DEF c, d, v, was, x, y
  <2>1. /\ Offer(x, y, seg) /\ c \in Conn /\ was \in Up /\ x.sent \in Nat
        /\ y.sent \in 0 .. ClientBytes /\ y.may = x.may
        /\ Taking(c, was, x, FALSE) /\ Accepts(c, was, d, v, seg)
        /\ seg.fin \in BOOLEAN
    BY <1>1, <1>2, <1>3, <1>4 DEF Says, d, v, was, x, y
  <2>2. /\ Taking(d, v, y, FALSE) /\ (was.eof => v.eof)
        /\ Len(was.sent) \in Nat /\ Len(v.sent) \in Nat
        /\ Len(was.sent) <= Len(v.sent)
    BY <2>1, AcceptsTaking
  <2>. QED  BY <2>2 DEF d, v, was, y
<1>7. ASSUME NEW j \in 1 .. Len(u.conns)
      PROVE  Taking(u.conns[j], u.up[u.conns[j].dial], g[u.conns[j].key], FALSE)
  <2>1. CASE j = i
    BY <1>5, <1>6, <2>1
  <2>2. CASE j # i
    <3>. DEFINE e == t.conns[j]
                k == e.key
    <3>8. j \in 1 .. Len(t.conns)
      BY <1>2
    <3>9. e.dial # D /\ k # K
      BY <2>2, <3>8, WholeParts
    <3>1. /\ e.state # "Closed" /\ e.dial \in Dials /\ k \in Keys
          /\ e.dial # D /\ k # K /\ u.conns[j].state # "Closed"
      BY <3>8, <3>9, WholeParts
    <3>2. Steady(e, u.conns[j])
      BY <1>2, <2>2, <3>1 DEF Still, Steady
    <3>3. Heeds(t.up[e.dial], u.up[e.dial])
      BY <1>2, <3>1
    <3>4. Taking(e, t.up[e.dial], h[k], FALSE)
      BY <1>2, <3>1 DEF Inbound
    <3>5. /\ h[k].sent \in Nat /\ g[k].sent \in Nat /\ Grown(h[k], g[k])
          /\ Said(h[k], g[k])
      <4>1. \A b \in 0 .. ClientBytes : b \in Nat
        OBVIOUS
      <4>. QED  BY <3>1, <4>1 DEF Says
    <3>6. u.conns[j].dial = e.dial /\ u.conns[j].key = k
      BY <3>2 DEF Steady
    <3>. DEFINE d == u.conns[j]
                v == u.up[e.dial]
                was == t.up[e.dial]
                x == h[k]
                y == g[k]
    <3>. HIDE DEF e, d, v, was, x, y
    <3>10. /\ Taking(e, was, x, FALSE) /\ Steady(e, d) /\ Heeds(was, v)
           /\ x.sent \in Nat /\ y.sent \in Nat /\ Grown(x, y) /\ Said(x, y)
      BY <3>2, <3>3, <3>4, <3>5 DEF d, v, was, x, y
    <3>7. Taking(d, v, y, FALSE)
      BY <3>10, SteadyTaking
    <3>. QED  BY <3>6, <3>7 DEF d, v, y
  <2>. QED  BY <2>1, <2>2
<1>8. Grows(t.up[D], u.up[D])
  <2>1. t.up[D].phase # "none"
    BY <1>1, DialsAre DEF Given
  <2>2. u.up[D].closes = 0
    <3>1. i \in 1 .. Len(u.conns)
      BY <1>2
    <3>. HIDE DEF D
    <3>. QED  BY <1>5, <3>1, WholeParts
  <2>. QED  BY <1>5, <1>6, <2>1, <2>2 DEF Grows
<1>. QED  BY <1>2, <1>7, <1>8 DEF Inbound, Advance

LEMMA OpenInbound ==
    ASSUME NEW t, NEW n, Whole(t, n), Given(t, n), n + 1 \in Dials, NEW k \in Keys,
           NEW w, NEW h, NEW g, Inbound(t, h, FALSE),
           \A j \in Keys : h[j].sent \in Nat /\ g[j].sent \in Nat /\ Said(h[j], g[j]),
           g[k].sent = 0, ~g[k].fin
    PROVE  /\ Inbound(Opening(t, k, n + 1, w), g, FALSE)
           /\ Advance(t, Opening(t, k, n + 1, w), n, n + 1)
<1>. DEFINE m == n + 1
            u == Opening(t, k, m, w)
            new == Opened(k, m, w)
            L == Len(t.conns)
<1>1. n \in Nat /\ t.conns \in Seq(Conn) /\ t.up \in [Dials -> Up] /\ L \in Nat
      /\ \A i \in 1 .. L : t.conns[i].dial # m
  <2>1. n \in Nat /\ t.conns \in Seq(Conn) /\ t.up \in [Dials -> Up]
        /\ \A i \in 1 .. L : t.conns[i].dial <= n /\ t.conns[i].dial \in Dials
    BY WholeParts DEF Whole, Kept
  <2>. QED  BY <2>1, LenProperties, DialsAre
<1>2. /\ Len(u.conns) = L + 1 /\ u.conns[L + 1] = new
      /\ \A i \in 1 .. L : u.conns[i] = t.conns[i]
  <2>1. u.conns = Append(t.conns, new)
    BY DEF Opening
  <2>. HIDE DEF new
  <2>. QED  BY <1>1, <2>1, AppendProperties
<1>3. /\ u.up[m].phase = "dialing" /\ u.up[m].sent = t.up[m].sent
      /\ u.up[m].eof = t.up[m].eof /\ u.up[m].closes = t.up[m].closes
      /\ \A d \in Dials : d # m => u.up[d] = t.up[d]
  <2>. DEFINE v == [t.up[m] EXCEPT !.phase = "dialing", !.key = k]
  <2>1. u.up = [t.up EXCEPT ![m] = v]
    BY DEF Opening
  <2>2. t.up[m] \in Up /\ m \in Dials
    BY <1>1
  <2>. HIDE DEF m
  <2>3. /\ v.phase = "dialing" /\ v.sent = t.up[m].sent
        /\ v.eof = t.up[m].eof /\ v.closes = t.up[m].closes
    BY <2>2 DEF Up
  <2>. HIDE DEF v
  <2>. QED  BY <1>1, <2>1, <2>2, <2>3
<1>4. /\ t.up[m].phase = "none" /\ t.up[m].sent = <<>> /\ ~t.up[m].eof
      /\ t.up[m].closes = 0
  <2>1. m > n /\ m \in Dials
    BY <1>1
  <2>2. t.up[m].closes = 0
    BY <2>1 DEF Whole, Kept
  <2>. HIDE DEF m
  <2>. QED  BY <2>1, <2>2 DEF Given
<1>5. new.dial = m /\ new.key = k /\ new.state # "Closed"
      /\ new.pending_for_upstream = <<>> /\ ~new.upstream_connected
      /\ new.receive_next = sequence_add(ClientISS, 1) /\ ~new.inbound_closed
  BY DEF Opened, Bare
<1>. HIDE DEF u, new
<1>6. Taking(new, u.up[m], g[k], FALSE)
  <2>1. Counting(1, 0) = <<>> /\ Counting(0 + 1, 0) = <<>>
    <3>1. 1 \in Int /\ 1 - 1 = 0 /\ 0 + 1 = 1
      OBVIOUS
    <3>. QED  BY <3>1, CountingNone
  <2>2. 1 + 0 + 0 = 1
    OBVIOUS
  <2>. HIDE DEF m
  <2>3. Relayed(new, u.up[m], g[k], FALSE, 0, 0)
    BY <1>3, <1>4, <1>5, <2>1, <2>2 DEF Relayed
  <2>. QED  BY <2>3 DEF Taking
<1>7. ASSUME NEW j \in 1 .. Len(u.conns)
      PROVE  Taking(u.conns[j], u.up[u.conns[j].dial], g[u.conns[j].key], FALSE)
  <2>1. CASE j = L + 1
    BY <1>2, <1>5, <1>6, <2>1
  <2>2. CASE j # L + 1
    <3>1. j \in 1 .. L
      BY <1>1, <1>2, <2>2
    <3>. DEFINE e == t.conns[j]
    <3>2. e.state # "Closed" /\ e.dial \in Dials /\ e.key \in Keys /\ e.dial # m
      BY <1>1, <3>1, WholeParts
    <3>3. Taking(e, t.up[e.dial], h[e.key], FALSE)
      BY <3>1, <3>2 DEF Inbound
    <3>4. u.conns[j] = e /\ u.up[e.dial] = t.up[e.dial]
      BY <1>2, <1>3, <3>1, <3>2
    <3>. HIDE DEF e
    <3>5. Steady(e, e) /\ Heeds(t.up[e.dial], t.up[e.dial])
      BY DEF Steady, Heeds
    <3>6. Grown(h[e.key], g[e.key])
      BY <3>2 DEF Said, Grown
    <3>7. Taking(e, t.up[e.dial], g[e.key], FALSE)
      BY <3>2, <3>3, <3>5, <3>6, SteadyTaking
    <3>. QED  BY <3>4, <3>7
  <2>. QED  BY <2>1, <2>2
<1>8. Advance(t, u, n, m)
  <2>1. Begins(t.up[m], u.up[m])
    BY <1>3, <1>4 DEF Begins
  <2>2. \A d \in Dials : d # m => Heeds(t.up[d], u.up[d])
    BY <1>3 DEF Heeds
  <2>. QED  BY <2>1, <2>2 DEF Advance
<1>. QED  BY <1>7, <1>8 DEF Inbound, u

-----------------------------------------------------------------------------
(* The steps, from the client's side to its relay.                         *)

(* Every live connection has taken a part of its client's stream, and the  *)
(* relays were given parts of it.                                          *)
Inward ==
    /\ Sound /\ Given(Now, next_dial) /\ \A k \in Keys : Modest(client[k])
    /\ Inbound(Now, client, closed)

(* What a step does to that, apart from the clients.                       *)
Passes == Inbound(Now, client, closed)' /\ Advance(Now, Now', next_dial, next_dial')

(* What a client may say next.                                             *)
Spoken(seg, x, y) ==
    /\ Grown(x, y) /\ seg.fin \in BOOLEAN
    /\ IF Mute(seg) THEN Said(x, y) ELSE Offer(x, y, seg) /\ ~seg.syn
    /\ Said(x, y) \/ x.may.lossy \/ Prompt(seg)
    /\ seg.syn /\ IndexOfKey(seg.key) = {} => y.sent = 0 /\ ~y.fin

LEMMA LeavesPasses ==
    ASSUME Inward, Moved, UNCHANGED next_dial, Leaves(Now, Now'), closed => closed',
           \A k \in Keys : /\ client'[k].sent \in Nat /\ Grown(client[k], client'[k])
                           /\ \/ closed' \/ client[k].may.lossy
                              \/ Said(client[k], client'[k])
                              \/ \A j \in 1 .. Len(Now.conns)' : Now'.conns[j].key # k
    PROVE  Passes
<1>. DEFINE t == Now
            u == Now'
            h == client
            g == client'
            n == next_dial
            p == closed'
            o == closed
<1>1. Whole(t, n) /\ Whole(u, n) /\ Inbound(t, h, o)
  BY DEF Inward, Sound, Moved
<1>2. \A k \in Keys : /\ h[k].sent \in Nat /\ g[k].sent \in Nat /\ Grown(h[k], g[k])
                      /\ \/ p \/ h[k].may.lossy \/ Said(h[k], g[k])
                         \/ \A j \in 1 .. Len(u.conns) : u.conns[j].key # k
  BY OwnTraits DEF Inward
<1>3. Leaves(t, u) /\ (o => p)
  OBVIOUS
<1>5. Advance(t, u, n, next_dial')
  BY DEF Advance, Leaves
<1>. HIDE DEF t, u, h, g, n, p, o
<1>4. Inbound(u, g, p)
  BY <1>1, <1>2, <1>3, LeavesInbound
<1>. QED  BY <1>4, <1>5 DEF Passes, t, u, g, n, p

LEMMA AcceptPasses ==
    ASSUME Inward, Moved, NEW seg, Legal(seg), accept(seg), UNCHANGED closed,
           Spoken(seg, client[seg.key], client'[seg.key]),
           \A k \in Keys : Modest(client'[k]) /\ (k # seg.key => Said(client[k], client'[k])),
           Undisturbed \/ Mute(seg)
    PROVE  Passes
<1>. DEFINE K == seg.key
<1>1. Sound /\ Whole(Now, next_dial) /\ Given(Now, next_dial) /\ K \in Keys
      /\ Inbound(Now, client, closed)
  BY DEF Inward, Sound, Legal
<1>2. \A k \in Keys : /\ client[k].sent \in Nat /\ client'[k].sent \in 0 .. ClientBytes
                      /\ client'[k].sent \in Nat /\ Grown(client[k], client'[k])
                      /\ k # K => Said(client[k], client'[k])
  <2>1. ASSUME NEW k \in Keys
        PROVE  /\ client[k].sent \in Nat /\ client'[k].sent \in 0 .. ClientBytes
               /\ client'[k].sent \in Nat
    <3>1. client[k].sent \in Nat /\ client'[k].sent \in 0 .. ClientBytes
      BY <1>1, OwnTraits DEF Modest
    <3>2. \A e \in 0 .. ClientBytes : e \in Nat
      OBVIOUS
    <3>. QED  BY <3>1, <3>2
  <2>2. ASSUME NEW k \in Keys
        PROVE  Grown(client[k], client'[k])
    <3>1. CASE k = K
      BY <3>1 DEF Spoken
    <3>2. CASE k # K
      BY <2>1, <3>2 DEF Said, Grown
    <3>. QED  BY <3>1, <3>2
  <2>. QED  BY <2>1, <2>2
<1>7. ~closed => closed = FALSE /\ closed' = FALSE
  BY <1>1 DEF Sound
<1>3. Lands(seg)
  <2>1. seg.syn => Mute(seg)
    BY DEF Spoken
  <2>. QED  BY <1>1, <2>1, AcceptLands
<1>4. ASSUME UNCHANGED next_dial, Leaves(Now, Now'),
             \/ closed \/ Mute(seg) \/ ~Prompt(seg)
             \/ \A j \in 1 .. Len(Now.conns)' : Now'.conns[j].key # K
      PROVE  Passes
  <2>1. \/ closed' \/ client[K].may.lossy \/ Said(client[K], client'[K])
        \/ \A j \in 1 .. Len(Now.conns)' : Now'.conns[j].key # K
    BY <1>4 DEF Spoken
  <2>2. ASSUME NEW k \in Keys
        PROVE  \/ closed' \/ client[k].may.lossy \/ Said(client[k], client'[k])
               \/ \A j \in 1 .. Len(Now.conns)' : Now'.conns[j].key # k
    <3>1. CASE k = K
      BY <2>1, <3>1
    <3>2. CASE k # K
      BY <1>2, <3>2
    <3>. QED  BY <3>1, <3>2
  <2>. QED  BY <1>2, <1>4, <2>2, LeavesPasses
<1>5. ASSUME ~closed, UNCHANGED next_dial, NEW i \in 1 .. Len(connections),
             connections[i].key = K, Takes(Now, Now', i, seg)
      PROVE  Passes
  <2>1. Whole(Now', next_dial) /\ Now.conns = connections
    BY <1>5 DEF Moved, Now
  <2>2. CASE Mute(seg)
    <3>1. Leaves(Now, Now')
      BY <1>1, <1>5, <2>1, <2>2, MuteTakes
    <3>. QED  BY <1>4, <1>5, <2>2, <3>1
  <2>3. CASE ~Mute(seg)
    <3>. DEFINE t == Now
                u == Now'
                h == client
                g == client'
                n == next_dial
    <3>1. /\ Whole(t, n) /\ Whole(u, n) /\ Given(t, n) /\ i \in 1 .. Len(t.conns)
          /\ Takes(t, u, i, seg) /\ t.conns[i].key = seg.key
          /\ Inbound(t, h, FALSE)
      BY <1>1, <1>5, <1>7, <2>1 DEF Spoken
    <3>2. Says(seg, h, g)
      BY <1>2, <2>3 DEF Says, Spoken
    <3>. HIDE DEF t, u, h, g, n
    <3>4. Inbound(u, g, FALSE) /\ Advance(t, u, n, n)
      BY <3>1, <3>2, TakesInbound
    <3>. QED  BY <1>5, <1>7, <3>4 DEF Passes, t, u, g, n
  <2>. QED  BY <2>2, <2>3
<1>6. ASSUME ~closed, seg.syn, IndexOfKey(K) = {},
             next_dial < MaxDials, next_dial' = next_dial + 1,
             Now' = Opening(Now, K, next_dial + 1, seg.window)
      PROVE  Passes
  <2>. DEFINE t == Now
              u == Opening(Now, K, next_dial + 1, seg.window)
              h == client
              g == client'
              n == next_dial
              w == seg.window
  <2>1. n + 1 \in Dials
    BY <1>1, <1>6, Room
  <2>2. g[K].sent = 0 /\ ~g[K].fin /\ Said(h[K], g[K])
    BY <1>6 DEF Spoken
  <2>3. ASSUME NEW k \in Keys
        PROVE  h[k].sent \in Nat /\ g[k].sent \in Nat /\ Said(h[k], g[k])
    <3>1. CASE k = K
      BY <1>2, <2>2, <3>1
    <3>2. CASE k # K
      BY <1>2, <3>2
    <3>. QED  BY <3>1, <3>2
  <2>4. Whole(t, n) /\ Given(t, n) /\ Inbound(t, h, FALSE) /\ K \in Keys
    BY <1>1, <1>6, <1>7
  <2>5. u = Opening(t, K, n + 1, w)
    OBVIOUS
  <2>. HIDE DEF t, u, h, g, n, w, K
  <2>6. Inbound(u, g, FALSE) /\ Advance(t, u, n, n + 1)
    BY <2>1, <2>2, <2>3, <2>4, <2>5, OpenInbound
  <2>. QED  BY <1>6, <1>7, <2>6 DEF Passes, t, u, g, n
<1>. QED  BY <1>3, <1>4, <1>5, <1>6 DEF Lands

(* The clients say nothing new, or more, and no more than they may.        *)
Speak == \A k \in Keys : Modest(client'[k]) /\ Grown(client[k], client'[k])

(* No client sends a byte or a FIN.                                        *)
Meek == \A k \in Keys : client[k].may.bytes = 0 /\ ~client[k].may.closes

LEMMA SaidModest ==
    ASSUME NEW x, NEW y, Modest(x), Said(x, y),
           y.phase \in {"idle", "synsent"} => x.phase \in {"idle", "synsent"}
    PROVE  Modest(y) /\ Grown(x, y)
<1>1. \A e \in 0 .. ClientBytes : e <= e
  BY Constants
<1>. QED  BY <1>1 DEF Modest, Said, Grown

LEMMA MuteSegment ==
    ASSUME NEW k, NEW from \in Int, NEW n, NEW fin, NEW ackno, NEW w, n = 0, ~fin
    PROVE  Mute(Segment(k, from, n, fin, ackno, w))
           /\ Mute([Segment(k, from, n, fin, ackno, w) EXCEPT !.rst = TRUE])
<1>1. from + n - 1 = from - 1
  OBVIOUS
<1>2. Counting(from, from + n - 1) = <<>>
  BY <1>1, CountingNone
<1>. QED  BY <1>2 DEF Mute, Segment

LEMMA LostPasses ==
    ASSUME Inward, Moved, NEW k \in Keys, Lost(k), Speak, UNCHANGED closed,
           \A j \in Keys : j # k => Said(client[j], client'[j])
    PROVE  Passes
<1>1. UNCHANGED next_dial /\ Leaves(Now, Now')
  BY LeavesSelf DEF Lost, Inward
<1>2. \A e \in 0 .. ClientBytes : e \in Nat
  OBVIOUS
<1>3. \A j \in Keys : /\ client'[j].sent \in Nat /\ Grown(client[j], client'[j])
                      /\ client[j].may.lossy \/ Said(client[j], client'[j])
  BY <1>2 DEF Speak, Modest, Lost
<1>. QED  BY <1>1, <1>3, LeavesPasses

LEMMA SynPasses ==
    ASSUME Inward, Moved, NEW k \in Keys, ClientSyn(k)
    PROVE  Passes /\ Speak
<1>1. PICK G : client \in [Keys -> Endpoint(G)]
  BY DEF Inward, Sound, Locals
<1>2. \A j \in Keys : /\ Said(client[j], client'[j])
                      /\ client'[j].phase \in {"idle", "synsent"} =>
                            client[j].phase \in {"idle", "synsent"}
  BY <1>1 DEF ClientSyn, Endpoint, Said
<1>3. Speak
  BY <1>2, SaidModest DEF Inward, Speak
<1>4. ASSUME NEW w \in client[k].may.windows, accept(SynSegment(k, w))
      PROVE  Passes
  <2>. DEFINE seg == SynSegment(k, w)
  <2>1. /\ seg.key = k /\ seg.payload = <<>> /\ seg.fin = FALSE /\ seg.syn
        /\ Legal(seg) /\ UNCHANGED closed
    BY OwnTraits, SynLegal DEF SynSegment, Inward, ClientSyn
  <2>2. accept(seg)
    BY <1>4
  <2>. HIDE DEF seg
  <2>3. Mute(seg) /\ seg.fin \in BOOLEAN
    BY <2>1 DEF Mute
  <2>4. IndexOfKey(k) = {} => client'[k].sent = 0 /\ ~client'[k].fin
    BY <1>2 DEF ClientSyn, Inward, Modest, Said
  <2>5. Spoken(seg, client[seg.key], client'[seg.key])
    BY <1>2, <1>3, <2>1, <2>3, <2>4 DEF Spoken, Speak
  <2>. QED  BY <1>2, <1>3, <2>1, <2>2, <2>3, <2>5, AcceptPasses DEF Speak
<1>5. CASE Lost(k)
  BY <1>2, <1>3, <1>5, LostPasses DEF ClientSyn
<1>. QED  BY <1>3, <1>4, <1>5 DEF ClientSyn

LEMMA ResetPasses ==
    ASSUME Inward, Moved, NEW k \in Keys, ClientReset(k)
    PROVE  Passes /\ Speak
<1>1. PICK G : client \in [Keys -> Endpoint(G)]
  BY DEF Inward, Sound, Locals
<1>2. \A j \in Keys : /\ Said(client[j], client'[j])
                      /\ client'[j].phase \in {"idle", "synsent"} =>
                            client[j].phase \in {"idle", "synsent"}
  BY <1>1 DEF ClientReset, Endpoint, Said
<1>3. Speak
  BY <1>2, SaidModest DEF Inward, Speak
<1>4. ASSUME NEW w \in client[k].may.windows,
             accept([Segment(k, client[k].sent + 1, 0, FALSE, ClientAckno(k), w)
                       EXCEPT !.rst = TRUE])
      PROVE  Passes
  <2>. DEFINE from == client[k].sent + 1
              seg == [Segment(k, from, 0, FALSE, ClientAckno(k), w) EXCEPT !.rst = TRUE]
  <2>1. from \in Int /\ w \in Windows /\ 0 \in Int
    BY OwnTraits DEF Inward
  <2>2. seg.key = k /\ seg.fin = FALSE /\ UNCHANGED closed
    BY DEF Segment, ClientReset
  <2>3. accept(seg)
    BY <1>4
  <2>. HIDE DEF from
  <2>4. Legal(seg) /\ ~seg.syn /\ Mute(seg)
    BY <2>1, SegmentLegal, MuteSegment
  <2>. HIDE DEF seg
  <2>5. Spoken(seg, client[seg.key], client'[seg.key])
    BY <1>2, <1>3, <2>2, <2>4 DEF Spoken, Speak
  <2>. QED  BY <1>2, <1>3, <2>2, <2>3, <2>4, <2>5, AcceptPasses DEF Speak
<1>5. CASE Lost(k)
  BY <1>2, <1>3, <1>5, LostPasses DEF ClientReset
<1>. QED  BY <1>3, <1>4, <1>5 DEF ClientReset

LEMMA SendSays ==
    ASSUME Inward, NEW k \in Keys, NEW n \in client[k].may.lengths \cup {0},
           NEW fin \in BOOLEAN, client[k].sent + n <= client[k].may.bytes,
           fin => client[k].may.closes /\ ~client[k].fin, client[k].fin => n = 0,
           client[k].phase = "open",
           client' = [client EXCEPT ![k].sent = @ + n, ![k].fin = @ \/ fin]
    PROVE  /\ Speak /\ \A j \in Keys : j # k => Said(client[j], client'[j])
           /\ n = 0 /\ ~fin => Said(client[k], client'[k])
           /\ \A ackno, w : LET from == client[k].sent + 1
                                          + (IF client[k].fin THEN 1 ELSE 0)
                            IN  Offer(client[k], client'[k],
                                      Segment(k, from, n, fin, ackno, w))
<1>. DEFINE x == client[k]
            y == client'[k]
            from == x.sent + 1 + (IF x.fin THEN 1 ELSE 0)
<1>1. PICK G : client \in [Keys -> Endpoint(G)]
  BY DEF Inward, Sound, Locals
<1>2. /\ y.sent = x.sent + n /\ (y.fin <=> x.fin \/ fin) /\ y.fin \in BOOLEAN
      /\ y.may = x.may /\ y.phase = x.phase /\ x.sent \in Nat /\ n \in Nat
      /\ x.may.bytes \in 0 .. ClientBytes /\ ClientBytes \in Nat
      /\ \A j \in Keys : j # k => client'[j] = client[j]
  <2>1. x \in Endpoint(G) /\ n \in Nat
    BY <1>1, OwnTraits DEF Inward
  <2>2. x.may.bytes \in 0 .. ClientBytes /\ x.sent \in Nat /\ x.fin \in BOOLEAN
    BY <2>1 DEF Endpoint, Traits
  <2>3. y = [x EXCEPT !.sent = @ + n, !.fin = @ \/ fin]
        /\ \A j \in Keys : j # k => client'[j] = client[j]
    BY <1>1
  <2>. HIDE DEF x, y
  <2>4. /\ y.sent = x.sent + n /\ y.fin = (x.fin \/ fin)
        /\ y.may = x.may /\ y.phase = x.phase
    BY <2>1, <2>3 DEF Endpoint
  <2>. QED  BY <2>1, <2>2, <2>3, <2>4, Constants
<1>3. /\ Modest(x) /\ x.phase = "open" /\ x.sent + n <= x.may.bytes
      /\ (fin => x.may.closes /\ ~x.fin) /\ (x.fin => n = 0)
      /\ n \in x.may.lengths \cup {0}
  BY DEF Inward
<1>4. \A j \in Keys : j # k => Said(client[j], client'[j])
  BY <1>2 DEF Said
<1>. HIDE DEF x, y
<1>5. Modest(y) /\ Grown(x, y)
  <2>1. y.sent \in 0 .. ClientBytes /\ y.sent <= y.may.bytes /\ x.sent <= y.sent
    BY <1>2, <1>3
  <2>2. y.fin => y.may.closes
    BY <1>2, <1>3 DEF Modest
  <2>3. x.fin => y.fin /\ y.sent = x.sent
    BY <1>2, <1>3
  <2>. QED  BY <1>2, <1>3, <2>1, <2>2, <2>3 DEF Modest, Grown
<1>6. ASSUME NEW j \in Keys
      PROVE  Modest(client'[j]) /\ Grown(client[j], client'[j])
  <2>1. CASE j = k
    BY <1>5, <2>1 DEF x, y
  <2>2. CASE j # k
    BY <1>2, <1>4, <2>2, SaidModest DEF Inward
  <2>. QED  BY <2>1, <2>2
<1>7. n = 0 /\ ~fin => Said(x, y)
  <2>1. x.fin \in BOOLEAN
    BY <1>3 DEF Modest
  <2>. QED  BY <1>2, <2>1 DEF Said
<1>8. ASSUME NEW ackno, NEW w
      PROVE  Offer(x, y, Segment(k, from, n, fin, ackno, w))
  <2>. DEFINE seg == Segment(k, from, n, fin, ackno, w)
  <2>1. from \in Nat /\ 1 <= from /\ (~x.fin => from = x.sent + 1)
    BY <1>2
  <2>. HIDE DEF from
  <2>2. /\ seg.seq = sequence_add(ClientISS, from)
        /\ seg.payload = Counting(from, from + n - 1) /\ seg.fin = fin
    BY DEF Segment
  <2>. HIDE DEF seg
  <2>3. CASE x.may.lossy
    <3>1. n <= 1 /\ ~fin /\ ~x.fin
      BY <1>3, <2>3 DEF Modest
    <3>2. 1 <= from /\ from + n <= y.sent + 1 /\ x.sent <= y.sent
      BY <1>2, <2>1, <3>1
    <3>3. ~y.fin /\ ~seg.fin
      BY <1>2, <2>2, <3>1
    <3>. QED  BY <1>2, <2>1, <2>2, <2>3, <3>1, <3>2, <3>3 DEF Offer, seg
  <2>4. CASE ~x.may.lossy
    <3>1. from = x.sent + 1 + IF x.fin THEN 1 ELSE 0
      BY DEF from
    <3>2. /\ y.sent = x.sent + n /\ (x.fin => n = 0)
          /\ (y.fin <=> x.fin \/ seg.fin) /\ (seg.fin => ~x.fin)
      BY <1>2, <1>3, <2>2
    <3>. QED  BY <1>2, <2>1, <2>2, <2>4, <3>1, <3>2 DEF Offer, seg
  <2>. QED  BY <2>3, <2>4 DEF seg
<1>. QED  BY <1>4, <1>6, <1>7, <1>8 DEF x, y, Speak

LEMMA SendPasses ==
    ASSUME Inward, Moved, NEW k \in Keys, ClientSend(k), Undisturbed \/ Meek
    PROVE  Passes /\ Speak
<1>1. PICK n \in client[k].may.lengths \cup {0}, fin \in BOOLEAN,
           w \in client[k].may.windows :
         /\ client[k].sent + n <= client[k].may.bytes
         /\ fin => client[k].may.closes /\ ~client[k].fin
         /\ client[k].fin => n = 0
         /\ client' = [client EXCEPT ![k].sent = @ + n, ![k].fin = @ \/ fin]
         /\ \/ accept(Segment(k, client[k].sent + 1 + (IF client[k].fin THEN 1 ELSE 0),
                              n, fin, ClientAckno(k), w))
            \/ Lost(k)
  BY DEF ClientSend
<1>. DEFINE from == client[k].sent + 1 + (IF client[k].fin THEN 1 ELSE 0)
            seg == Segment(k, from, n, fin, ClientAckno(k), w)
<1>2. /\ Speak /\ \A j \in Keys : j # k => Said(client[j], client'[j])
      /\ n = 0 /\ ~fin => Said(client[k], client'[k])
      /\ Offer(client[k], client'[k], seg)
  <2>1. client[k].phase = "open"
    BY DEF ClientSend
  <2>. QED  BY <1>1, <2>1, SendSays
<1>3. from \in Int /\ n \in Nat /\ w \in Windows /\ client[k].sent \in Nat
  BY OwnTraits DEF Inward
<1>4. UNCHANGED closed
  BY DEF ClientSend
<1>5. CASE Lost(k)
  BY <1>2, <1>4, <1>5, LostPasses
<1>6. CASE accept(seg)
  <2>1. Legal(seg) /\ ~seg.syn /\ (n = 0 /\ ~fin => Mute(seg))
    <3>. HIDE DEF from
    <3>1. n \in Int
      BY <1>3
    <3>2. Legal(seg) /\ ~seg.syn
      BY <1>3, <3>1, SegmentLegal
    <3>3. n = 0 /\ ~fin => Mute(seg)
      BY <1>3, MuteSegment
    <3>. HIDE DEF seg
    <3>. QED  BY <3>2, <3>3
  <2>2. /\ seg.key = k /\ seg.fin = fin /\ seg.ack /\ seg.ackno = ClientAckno(k)
        /\ seg.payload = Counting(from, from + n - 1)
    BY DEF Segment
  <2>3. Mute(seg) => n = 0 /\ ~fin
    <3>. DEFINE l == from + n - 1
    <3>1. l \in Int /\ from <= l + 1 /\ l - from + 1 = n
      <4>. HIDE DEF from
      <4>. QED  BY <1>3
    <3>. HIDE DEF l
    <3>2. Len(Counting(from, l)) = l - from + 1
      <4>. HIDE DEF from
      <4>. QED  BY <1>3, <3>1, CountingIs
    <3>3. Len(<<>>) = 0
      OBVIOUS
    <3>. QED  BY <2>2, <3>1, <3>2, <3>3 DEF Mute, l
  <2>4. Prompt(seg)
    <3>1. Len(<<>>) = 0 /\ 1 + 0 + 0 = 1
      OBVIOUS
    <3>2. Untouched(client[k]) => ClientAckno(k) = sequence_add(OurISS, 1)
      BY <3>1 DEF Untouched, ClientAckno
    <3>. HIDE DEF seg
    <3>. QED  BY <2>2, <3>2 DEF Prompt
  <2>5. Undisturbed \/ Mute(seg)
    <3>1. Meek => n = 0 /\ ~fin
      BY <1>1, <1>3 DEF Meek
    <3>. HIDE DEF seg
    <3>. QED  BY <2>1, <3>1
  <2>. HIDE DEF seg, from
  <2>6. Spoken(seg, client[seg.key], client'[seg.key])
    <3>1. Grown(client[k], client'[k])
      BY <1>2 DEF Speak
    <3>2. IF Mute(seg) THEN Said(client[k], client'[k])
          ELSE Offer(client[k], client'[k], seg) /\ ~seg.syn
      BY <1>2, <2>1, <2>3
    <3>. QED  BY <2>1, <2>2, <2>4, <3>1, <3>2 DEF Spoken
  <2>. QED  BY <1>2, <1>4, <1>6, <2>1, <2>2, <2>5, <2>6, AcceptPasses DEF Speak
<1>. QED  BY <1>1, <1>2, <1>5, <1>6

LEMMA ResendPasses ==
    ASSUME Inward, Moved, NEW k \in Keys, ClientResend(k), Undisturbed \/ Meek
    PROVE  Passes /\ Speak
<1>. DEFINE x == client[k]
<1>1. PICK n \in client[k].may.lengths \cup {0}, from \in 1 .. client[k].sent + 1,
           ackno \in StaleAcknos(k), w \in client[k].may.windows, fin \in BOOLEAN :
         /\ from + n - 1 <= client[k].sent /\ (fin => client[k].fin)
         /\ accept(Segment(k, from, n, fin, ackno, w))
  BY DEF ClientResend
<1>2. n \in Nat /\ from \in Nat /\ 1 <= from /\ w \in Windows /\ x.sent \in Nat
  BY OwnTraits DEF Inward
<1>3. UNCHANGED <<client, closed>> /\ x.may.lossy
  BY DEF ClientResend
<1>4. Modest(x) /\ ~x.fin /\ n <= 1 /\ ~fin
  BY <1>1, <1>3 DEF Inward, Modest
<1>5. Speak /\ \A j \in Keys : Said(client[j], client'[j])
  <2>1. \A j \in Keys : Said(client[j], client'[j]) /\ client'[j].phase = client[j].phase
    BY <1>3 DEF Said
  <2>. QED  BY <2>1, SaidModest DEF Inward, Speak
<1>. DEFINE seg == Segment(k, from, n, fin, ackno, w)
<1>6. /\ seg.key = k /\ seg.fin = fin /\ seg.seq = sequence_add(ClientISS, from)
      /\ seg.payload = Counting(from, from + n - 1)
  BY DEF Segment
<1>7. Legal(seg) /\ ~seg.syn /\ (n = 0 => Mute(seg))
  <2>1. from \in Int /\ n \in Int
    BY <1>2
  <2>. QED  BY <1>2, <1>4, <2>1, SegmentLegal, MuteSegment
<1>8. accept(seg)
  BY <1>1
<1>. HIDE DEF seg, x
<1>9. Offer(x, x, seg)
  <2>1. from + n <= x.sent + 1 /\ x.sent <= x.sent
    BY <1>1, <1>2 DEF x
  <2>. QED  BY <1>2, <1>3, <1>4, <1>6, <2>1 DEF Offer
<1>10. Undisturbed \/ Mute(seg)
  <2>1. Meek => n = 0
    <3>1. Meek => x.sent <= 0
      BY <1>4 DEF Meek, Modest, x
    <3>. QED  BY <1>1, <1>2, <3>1 DEF x
  <2>. QED  BY <1>7, <2>1
<1>11. Spoken(seg, client[seg.key], client'[seg.key])
  <2>1. client[seg.key] = x /\ client'[seg.key] = x
    BY <1>3, <1>6 DEF x
  <2>2. Grown(x, x) /\ Said(x, x)
    BY <1>2 DEF Grown, Said
  <2>3. seg.fin \in BOOLEAN
    BY <1>6
  <2>. QED  BY <1>7, <1>9, <2>1, <2>2, <2>3 DEF Spoken
<1>. QED  BY <1>3, <1>5, <1>7, <1>8, <1>10, <1>11, AcceptPasses DEF Speak

LEMMA SamePasses ==
    ASSUME Inward, Moved, UNCHANGED next_dial, Leaves(Now, Now'), closed => closed',
           \A k \in Keys : /\ Said(client[k], client'[k])
                           /\ client'[k].phase \in {"idle", "synsent"} =>
                                 client[k].phase \in {"idle", "synsent"}
    PROVE  Passes /\ Speak
<1>1. Speak
  BY SaidModest DEF Inward, Speak
<1>2. \A e \in 0 .. ClientBytes : e \in Nat
  OBVIOUS
<1>3. \A k \in Keys : client'[k].sent \in Nat /\ Grown(client[k], client'[k])
  BY <1>1, <1>2 DEF Speak, Modest
<1>4. Passes
  BY <1>3, LeavesPasses
<1>. QED  BY <1>1, <1>4

LEMMA ReceivePasses ==
    ASSUME Inward, Moved, NEW k \in Keys, ClientReceive(k) \/ PacketLost(k)
    PROVE  Passes /\ Speak
<1>1. UNCHANGED <<connections, next_dial, closed, upstream>>
  BY DEF ClientReceive, PacketLost
<1>2. Leaves(Now, Now')
  BY <1>1, LeavesSelf DEF Inward
<1>3. PICK G : client \in [Keys -> Endpoint(G)]
  BY DEF Inward, Sound, Locals
<1>4. ASSUME NEW j \in Keys
      PROVE  /\ Said(client[j], client'[j])
             /\ client'[j].phase \in {"idle", "synsent"} =>
                   client[j].phase \in {"idle", "synsent"}
  <2>1. CASE PacketLost(k)
    BY <2>1 DEF PacketLost, Said
  <2>2. CASE ClientReceive(k)
    <3>. DEFINE c == client[k]
    <3>1. PICK p : client' = [client EXCEPT ![k] =
            IF p.kind = "RST" THEN [c EXCEPT !.phase = "gone"]
            ELSE IF p.kind = "SYNACK" /\ c.phase = "synsent"
                 THEN [c EXCEPT !.phase = "open"]
            ELSE IF p.kind = "DATA" /\ (p.seq = ClientAckno(k) /\ c.phase = "open")
                 THEN [c EXCEPT !.got = @ \o p.payload]
            ELSE IF p.kind = "FIN" /\ (p.seq = ClientAckno(k) /\ c.phase = "open")
                 THEN [c EXCEPT !.gotFin = TRUE]
            ELSE c]
      BY <2>2 DEF ClientReceive
    <3>2. c \in Endpoint(G)
      BY <1>3
    <3>3. CASE j # k
      BY <1>3, <3>1, <3>3 DEF Said
    <3>4. CASE j = k
      <4>1. \/ client'[j] = [c EXCEPT !.phase = "gone"]
            \/ client'[j] = [c EXCEPT !.phase = "open"]
            \/ \E q : client'[j] = [c EXCEPT !.got = q]
            \/ client'[j] = [c EXCEPT !.gotFin = TRUE]
            \/ client'[j] = c
        BY <1>3, <3>1, <3>4
      <4>. HIDE DEF c
      <4>2. /\ client'[j].sent = c.sent /\ client'[j].fin = c.fin /\ client'[j].may = c.may
            /\ client'[j].phase \in {"gone", "open", c.phase}
        BY <3>2, <4>1 DEF Endpoint
      <4>. QED  BY <3>4, <4>2 DEF Said, c
    <3>. QED  BY <3>3, <3>4
  <2>. QED  BY <2>1, <2>2
<1>. QED  BY <1>1, <1>2, <1>4, SamePasses

LEMMA RemainsPasses ==
    ASSUME Inward, Moved, NEW u, Reaches(Now, u, next_dial), Commit(u), Remains(Now, u),
           UNCHANGED <<next_dial, client>>, closed => closed'
    PROVE  Passes /\ Speak
<1>1. Now' = u
  BY Committed
<1>2. Leaves(Now, u)
  BY RemainsLeaves DEF Reaches
<1>3. \A k \in Keys : /\ Said(client[k], client'[k])
                      /\ client'[k].phase \in {"idle", "synsent"} =>
                            client[k].phase \in {"idle", "synsent"}
  BY DEF Said
<1>. QED  BY <1>1, <1>2, <1>3, SamePasses

LEMMA FailedPasses ==
    ASSUME Inward, Moved, NEW d \in Dials, on_dial_failed(d)
    PROVE  Passes /\ Speak
<1>. DEFINE u == [upstream[d] EXCEPT !.phase = "ended"]
            failed(i) == Update(Now, i, connections[i], {}, u)
            v(i) == retain_live(dispose(failed(i), i, TRUE))
<1>1. PICK i \in IndexOfDial(d) : Commit(v(i))
  BY DEF on_dial_failed
<1>. DEFINE c == connections[i]
<1>2. Sound /\ Whole(Now, next_dial) /\ Works(Now, next_dial, i) /\ Now.conns[i] = c
      /\ Now.up[c.dial] = upstream[d] /\ c.dial = d /\ c \in Conn /\ upstream[d] \in Up
  BY Served DEF Inward
<1>3. u \in Up /\ Same(c, c) /\ Still(c, c) /\ Heeds(upstream[d], u)
      /\ Onto(c, upstream[d], c, u, {})
  <2>1. /\ u \in Up /\ u.closes = upstream[d].closes /\ u.key = upstream[d].key
        /\ u.fed = upstream[d].fed /\ u.phase = "ended"
        /\ u.sent = upstream[d].sent /\ u.eof = upstream[d].eof
        /\ upstream[d].phase # "none"
    BY <1>2 DEF Up, on_dial_failed
  <2>. HIDE DEF u, c
  <2>2. Alike(c, upstream[d], c, u)
    BY <1>2, <2>1, AlikeKept
  <2>3. Onto(c, upstream[d], c, u, {})
    BY <2>1, <2>2, AlikeContinues DEF Onto
  <2>4. Heeds(upstream[d], u)
    BY <2>1 DEF Heeds
  <2>. QED  BY <1>2, <2>1, <2>3, <2>4, FieldsKept DEF Still
<1>4. UNCHANGED <<next_dial, closed, client>>
  BY DEF on_dial_failed
<1>. HIDE DEF u
<1>5. Goes(Now, failed(i), next_dial, i) /\ Rests(Now, failed(i))
  BY <1>2, <1>3, UpdateGoes
<1>. HIDE DEF failed
<1>6. Reaches(Now, v(i), next_dial) /\ Remains(Now, v(i))
  <2>1. Works(failed(i), next_dial, i) /\ Reaches(Now, failed(i), next_dial)
    BY <1>2, <1>5, GoesReaches DEF Goes
  <2>2. Reaches(failed(i), v(i), next_dial) /\ Remains(failed(i), v(i))
    BY <2>1, DisposeReaches DEF Gone
  <2>. QED  BY <1>5, <2>1, <2>2, ReachesThen, RemainsThen
<1>. HIDE DEF v
<1>. QED  BY <1>1, <1>4, <1>6, RemainsPasses

LEMMA EndPasses ==
    ASSUME Inward, Moved, NEW d \in Dials, on_relay_closed(d)
    PROVE  Passes /\ Speak
<1>. DEFINE u == [upstream[d] EXCEPT !.phase = "ended"]
            e(i) == [connections[i] EXCEPT !.upstream_done = TRUE]
            t(i) == Update(Now, i, e(i), {}, u)
            g(i) == maybe_finish(flush(t(i), i), i)
<1>1. PICK i \in IndexOfDial(d) : Commit(retain_live(g(i)))
  BY DEF on_relay_closed
<1>. DEFINE c == connections[i]
<1>2. Sound /\ Whole(Now, next_dial) /\ Works(Now, next_dial, i) /\ Now.conns[i] = c
      /\ Now.up[c.dial] = upstream[d] /\ c.dial = d /\ c \in Conn /\ upstream[d] \in Up
      /\ c.state # "Closed" /\ e(i).dial = d
  BY Served DEF Inward, Works, Conn
<1>3. u \in Up /\ Same(c, e(i)) /\ Still(c, e(i)) /\ Heeds(upstream[d], u)
      /\ Onto(c, upstream[d], e(i), u, {})
  <2>1. /\ u \in Up /\ u.closes = upstream[d].closes /\ u.key = upstream[d].key
        /\ u.fed = upstream[d].fed /\ u.phase = "ended"
        /\ u.sent = upstream[d].sent /\ u.eof = upstream[d].eof
        /\ upstream[d].phase # "none"
    BY <1>2 DEF Up, on_relay_closed
  <2>. HIDE DEF u
  <2>2. Alike(c, upstream[d], e(i), u)
    BY <1>2, <2>1, AlikeKept
  <2>5. Same(c, e(i)) /\ Still(c, e(i))
    <3>. HIDE DEF c
    <3>. QED  BY <1>2, FieldsKept, StillFields DEF c
  <2>. HIDE DEF e, c
  <2>3. Onto(c, upstream[d], e(i), u, {})
    BY <2>1, <2>2, AlikeContinues DEF Onto
  <2>4. Heeds(upstream[d], u)
    BY <2>1 DEF Heeds
  <2>. QED  BY <2>1, <2>3, <2>4, <2>5
<1>4. UNCHANGED <<next_dial, closed, client>>
  BY DEF on_relay_closed
<1>. HIDE DEF u, e
<1>5. Rests(Now, t(i)) /\ Goes(Now, g(i), next_dial, i) /\ Rests(t(i), g(i))
  <2>1. Rests(Now, t(i))
    BY <1>2, <1>3, UpdateGoes
  <2>2. Goes(Now, g(i), next_dial, i) /\ Rests(t(i), g(i))
    BY <1>2, <1>3, NewsGoes
  <2>. QED  BY <2>1, <2>2
<1>. HIDE DEF t, g
<1>6. Reaches(Now, retain_live(g(i)), next_dial) /\ Remains(Now, retain_live(g(i)))
  <2>1. Rests(Now, g(i)) /\ Kept(g(i), next_dial) /\ Onward(Now, g(i))
    BY <1>5, RestsThen DEF Goes, Works, Alone
  <2>2. Whole(retain_live(g(i)), next_dial) /\ retain_live(g(i)).up = g(i).up
        /\ Carries(g(i), retain_live(g(i))) /\ Remains(g(i), retain_live(g(i)))
    BY <2>1, RetainWhole
  <2>. QED  BY <2>1, <2>2, RemainsThen DEF Reaches, Onward, Quiet, Carries
<1>. QED  BY <1>1, <1>4, <1>6, RemainsPasses

LEMMA VisitPasses ==
    ASSUME Inward, Moved, NEW due, Commit(visit_all(Now, due)),
           UNCHANGED <<next_dial, client>>, closed => closed'
    PROVE  Passes /\ Speak
<1>1. Reaches(Now, visit_all(Now, due), next_dial) /\ Remains(Now, visit_all(Now, due))
  BY VisitAllWhole DEF Inward, Sound, Reaches
<1>. QED  BY <1>1, RemainsPasses

LEMMA DataPasses ==
    ASSUME Inward, Moved, NEW d \in Dials, on_relay_data(d)
    PROVE  Passes /\ Speak
<1>. DEFINE fed == upstream[d].fed
            c(i, n) == [connections[i] EXCEPT !.send_queue = @ \o Counting(fed + 1, fed + n)]
            u(n) == [upstream[d] EXCEPT !.fed = fed + n]
            t(i, n) == Update(Now, i, c(i, n), {}, u(n))
            f(i, n) == flush(t(i, n), i)
            e(i, n) == f(i, n).conns[i]
            was(i, n) == f(i, n).up[d]
            w(i, n) == [was(i, n) EXCEPT !.paused = TRUE]
            to(i, n) == [e(i, n) EXCEPT !.upstream_paused = TRUE]
            p(i, n) == Update(f(i, n), i, to(i, n), {}, w(i, n))
<1>1. PICK i \in IndexOfDial(d), n \in ChunkLengths :
         /\ fed + n <= client[upstream[d].key].may.replies
         /\ Commit(f(i, n)) \/ Commit(p(i, n))
  BY DEF on_relay_data
<1>. DEFINE b == connections[i]
<1>2. /\ Sound /\ Whole(Now, next_dial) /\ Works(Now, next_dial, i) /\ Now.conns[i] = b
      /\ Now.up[b.dial] = upstream[d] /\ b.dial = d /\ b \in Conn /\ upstream[d] \in Up
      /\ b.state # "Closed" /\ n \in Nat /\ fed \in Nat
  BY Served, Constants DEF Inward, Works, Up
<1>3. fed + n \in 0 .. RelayBytes
  <2>1. upstream[d].key \in Keys
    BY <1>2 DEF Up
  <2>. DEFINE most == client[upstream[d].key].may.replies
  <2>2. most \in 0 .. RelayBytes /\ fed + n <= most /\ RelayBytes \in Nat
    BY <1>1, <1>2, <2>1, OwnTraits, Constants
  <2>. HIDE DEF fed, most
  <2>. QED  BY <1>2, <2>2
<1>4. /\ u(n) \in Up /\ u(n).closes = upstream[d].closes /\ u(n).key = upstream[d].key
      /\ u(n).fed = fed + n /\ Heeds(upstream[d], u(n))
  <2>. HIDE DEF fed
  <2>. QED  BY <1>2, <1>3 DEF Up, Heeds
<1>5. Same(b, c(i, n)) /\ Still(b, c(i, n)) /\ c(i, n).dial = d
  <2>. DEFINE q == b.send_queue \o Counting(fed + 1, fed + n)
  <2>1. Counting(fed + 1, fed + n) \in Bytes
    BY <1>2, CountingIsBytes
  <2>2. Same(b, c(i, n))
    BY <1>2, <2>1, QueueKept
  <2>3. c(i, n) = [b EXCEPT !.send_queue = q]
    OBVIOUS
  <2>. HIDE DEF b, q, c
  <2>4. Still(b, [b EXCEPT !.send_queue = q]) /\ [b EXCEPT !.send_queue = q].dial = b.dial
    BY <1>2, StillFields DEF Conn
  <2>. QED  BY <1>2, <2>2, <2>3, <2>4
<1>6. Onto(b, upstream[d], c(i, n), u(n), {})
  <2>1. upstream[d].phase # "ended"
    BY DEF on_relay_data
  <2>. DEFINE new == u(n)
  <2>2. new.fed = fed + n
    BY <1>4
  <2>. HIDE DEF new
  <2>3. Continues(b, upstream[d], c(i, n), new, {})
    BY <1>2, <2>1, <2>2, QueuedContinues
  <2>. HIDE DEF c, fed
  <2>. QED  BY <1>4, <2>3 DEF Onto, new
<1>7. UNCHANGED <<next_dial, closed, client>>
  BY DEF on_relay_data
<1>. HIDE DEF c, u
<1>8. Rests(Now, t(i, n))
  BY <1>2, <1>4, <1>5, <1>6, UpdateGoes
<1>9. Goes(Now, f(i, n), next_dial, i) /\ Rests(t(i, n), f(i, n))
  BY <1>2, <1>4, <1>5, <1>6, NewsGoes
<1>. HIDE DEF t
<1>10. Goes(Now, f(i, n), next_dial, i) /\ Rests(Now, f(i, n))
  BY <1>8, <1>9, RestsThen
<1>. HIDE DEF f, fed
<1>11. Goes(Now, p(i, n), next_dial, i) /\ Rests(Now, p(i, n))
  <2>1. Works(f(i, n), next_dial, i) /\ e(i, n).dial = d
    BY <1>2, <1>10 DEF Goes, Alone
  <2>2. e(i, n) \in Conn /\ was(i, n) \in Up /\ e(i, n).state # "Closed"
    BY <2>1, AtHand
  <2>3. Same(e(i, n), to(i, n)) /\ Still(e(i, n), to(i, n)) /\ to(i, n).dial = d
    <3>. HIDE DEF e
    <3>. QED  BY <2>1, <2>2, FieldsKept, StillFields DEF Conn
  <2>4. /\ w(i, n) \in Up /\ w(i, n).closes = was(i, n).closes
        /\ w(i, n).key = was(i, n).key /\ w(i, n).fed = was(i, n).fed
        /\ w(i, n).phase = was(i, n).phase /\ Heeds(was(i, n), w(i, n))
    <3>. HIDE DEF was
    <3>. QED  BY <2>2 DEF Up, Heeds
  <2>. HIDE DEF w, was
  <2>5. Alike(e(i, n), was(i, n), to(i, n), w(i, n))
    BY <2>2, <2>4, AlikeKept
  <2>. HIDE DEF to
  <2>6. Onto(e(i, n), was(i, n), to(i, n), w(i, n), {})
    BY <2>4, <2>5, AlikeContinues DEF Onto
  <2>7. Goes(f(i, n), p(i, n), next_dial, i) /\ Rests(f(i, n), p(i, n))
    BY <2>1, <2>3, <2>4, <2>6, UpdateGoes DEF was
  <2>. HIDE DEF p, e
  <2>. QED  BY <1>10, <2>7, GoesThen, RestsThen
<1>. HIDE DEF p
<1>12. ASSUME NEW v, Goes(Now, v, next_dial, i), Rests(Now, v), Commit(v)
       PROVE  Passes /\ Speak
  <2>1. Reaches(Now, v, next_dial)
    BY <1>2, <1>12, GoesReaches
  <2>2. Remains(Now, v)
    BY <1>12, RestsRemains
  <2>. QED  BY <1>7, <1>12, <2>1, <2>2, RemainsPasses
<1>. QED  BY <1>1, <1>10, <1>11, <1>12

(* What is held for a relay is given to it, and it has all of it.          *)
LEMMA ConnectedTaking ==
    ASSUME NEW c \in Conn, NEW u \in Up, NEW x, NEW o, Taking(c, u, x, o)
    PROVE  Taking([c EXCEPT !.upstream_connected = TRUE, !.pending_for_upstream = <<>>],
                  [u EXCEPT !.phase = "connected",
                            !.sent = u.sent \o c.pending_for_upstream], x, o)
<1>. DEFINE q == u.sent \o c.pending_for_upstream
            d == [c EXCEPT !.upstream_connected = TRUE, !.pending_for_upstream = <<>>]
            v == [u EXCEPT !.phase = "connected", !.sent = q]
<1>1. PICK a \in Nat, m \in Nat : Relayed(c, u, x, o, a, m)
  BY DEF Taking
<1>2. q = Counting(1, m)
  <2>1. 1 \in Int /\ a \in Int /\ m \in Int /\ 1 <= a + 1 /\ a <= m
    BY <1>1 DEF Relayed
  <2>2. Counting(1, a) \o Counting(a + 1, m) = Counting(1, m)
    BY <2>1, CountingJoins
  <2>. QED  BY <1>1, <2>2 DEF Relayed
<1>3. <<>> = Counting(m + 1, m)
  <2>. DEFINE l == m + 1
  <2>1. l \in Int /\ l - 1 = m
    OBVIOUS
  <2>. HIDE DEF l
  <2>2. Counting(l, m) = <<>>
    BY <2>1, CountingNone
  <2>. QED  BY <2>2 DEF l
<1>4. /\ d.upstream_connected = TRUE /\ d.pending_for_upstream = <<>>
      /\ d.receive_next = c.receive_next /\ d.inbound_closed = c.inbound_closed
  BY DEF Conn
<1>5. v.sent = q /\ v.eof = u.eof
  <2>. HIDE DEF q
  <2>. QED  BY DEF Up
<1>. HIDE DEF d, v, q
<1>6. m <= m
  OBVIOUS
<1>7. Relayed(d, v, x, o, m, m)
  BY <1>1, <1>2, <1>3, <1>4, <1>5, <1>6 DEF Relayed
<1>. QED  BY <1>7 DEF Taking, d, v, q

LEMMA ConnectedPasses ==
    ASSUME Inward, Moved, NEW d \in Dials, on_dial_connected(d)
    PROVE  Passes /\ Speak
<1>. DEFINE e(i) == [connections[i] EXCEPT !.upstream_connected = TRUE,
                                           !.pending_for_upstream = <<>>]
            u(i) == [upstream[d] EXCEPT
                       !.phase = "connected",
                       !.sent = upstream[d].sent \o connections[i].pending_for_upstream]
            t(i) == Update(Now, i, e(i), {}, u(i))
            v(i) == maybe_finish(flush(t(i), i), i)
<1>1. PICK i \in IndexOfDial(d) : Commit(v(i))
  BY DEF on_dial_connected
<1>. DEFINE c == connections[i]
            n == next_dial
            q == upstream[d].sent \o c.pending_for_upstream
<1>2. /\ Sound /\ Whole(Now, n) /\ Works(Now, n, i) /\ Now.conns[i] = c
      /\ Now.up[c.dial] = upstream[d] /\ c.dial = d /\ c \in Conn /\ upstream[d] \in Up
      /\ c.state # "Closed" /\ Now.up = upstream /\ Now.conns = connections
      /\ i \in 1 .. Len(Now.conns)
  BY Served DEF Inward, Works
<1>3. Same(c, e(i)) /\ e(i).dial = d /\ e(i).key = c.key
  <2>1. Same(c, e(i))
    BY <1>2, FieldsKept
  <2>. QED  BY <1>2, <2>1 DEF Same
<1>4. /\ u(i) \in Up /\ u(i).closes = upstream[d].closes /\ u(i).key = upstream[d].key
      /\ u(i).fed = upstream[d].fed /\ u(i).phase = "connected" /\ u(i).sent = q
      /\ u(i).eof = upstream[d].eof /\ upstream[d].phase = "dialing"
      /\ Len(upstream[d].sent) \in Nat /\ Len(q) \in Nat /\ Len(upstream[d].sent) <= Len(q)
  <2>1. q \in Bytes /\ upstream[d].sent \in Bytes /\ c.pending_for_upstream \in Bytes
    BY <1>2, Fields, ByteJoin DEF Up
  <2>2. /\ Len(upstream[d].sent) \in Nat /\ Len(q) \in Nat
        /\ Len(upstream[d].sent) <= Len(q)
    <3>. DEFINE a == upstream[d].sent
                b == c.pending_for_upstream
    <3>1. a \in Seq(Int) /\ b \in Seq(Int)
      BY <2>1 DEF Bytes
    <3>. HIDE DEF a, b
    <3>2. Len(a) \in Nat /\ Len(b) \in Nat /\ Len(a \o b) = Len(a) + Len(b)
      BY <3>1
    <3>3. Len(a) \in Nat /\ Len(a \o b) \in Nat /\ Len(a) <= Len(a \o b)
      BY <3>2
    <3>. QED  BY <3>3 DEF a, b
  <2>3. upstream[d].phase = "dialing"
    BY DEF on_dial_connected
  <2>. HIDE DEF q
  <2>4. u(i) = [upstream[d] EXCEPT !.phase = "connected", !.sent = q]
    BY DEF q
  <2>. HIDE DEF u
  <2>. QED  BY <1>2, <2>1, <2>2, <2>3, <2>4 DEF Up
<1>5. Onto(c, upstream[d], e(i), u(i), {})
  <2>. DEFINE was == upstream[d]
              new == u(i)
  <2>1. /\ new \in Up /\ new.closes = was.closes /\ new.key = was.key
        /\ new.fed = was.fed /\ new.phase = "connected" /\ was.phase # "ended"
        /\ was \in Up
    BY <1>2, <1>4
  <2>. HIDE DEF new, was
  <2>2. Alike(c, was, e(i), new)
    BY <1>2, <2>1, AlikeKept
  <2>. HIDE DEF e, c
  <2>3. Onto(c, was, e(i), new, {})
    BY <2>1, <2>2, AlikeContinues DEF Onto
  <2>. QED  BY <2>3 DEF was, new
<1>6. UNCHANGED <<next_dial, closed, client>>
  BY DEF on_dial_connected
<1>7. \A x, o : Taking(c, upstream[d], x, o) => Taking(e(i), u(i), x, o)
  BY <1>2, ConnectedTaking
<1>. HIDE DEF e, u, q
<1>8. /\ Goes(Now, t(i), n, i) /\ t(i).conns[i] = e(i) /\ t(i).up[d] = u(i)
      /\ \A b \in Dials : b # d => t(i).up[b] = upstream[b]
  BY <1>2, <1>3, <1>4, <1>5, UpdateGoes
<1>9. Goes(Now, v(i), n, i) /\ Rests(t(i), v(i))
  BY <1>2, <1>3, <1>4, <1>5, NewsGoes
<1>. HIDE DEF t, v
<1>10. Whole(t(i), n) /\ Whole(v(i), n) /\ Reaches(Now, v(i), n)
  BY <1>2, <1>8, <1>9, GoesReaches DEF Reaches
<1>11. Now' = v(i)
  BY <1>1, <1>10, Committed
<1>12. Inbound(t(i), client, closed)
  <2>. DEFINE s == t(i)
  <2>1. /\ Len(s.conns) = Len(connections) /\ s.conns[i] = e(i) /\ s.up[d] = u(i)
        /\ \A j \in 1 .. Len(connections) : j # i => s.conns[j] = connections[j]
    BY <1>2, <1>8 DEF Goes, Alone
  <2>. HIDE DEF s
  <2>2. ASSUME NEW j \in 1 .. Len(s.conns)
        PROVE  Taking(s.conns[j], s.up[s.conns[j].dial], client[s.conns[j].key], closed)
    <3>1. Inbound(Now, client, closed) /\ j \in 1 .. Len(Now.conns)
      BY <1>2, <2>1 DEF Inward
    <3>2. CASE j = i
      <4>1. Taking(c, upstream[d], client[c.key], closed)
        BY <1>2, <3>1, <3>2 DEF Inbound
      <4>. QED  BY <1>3, <1>7, <2>1, <3>2, <4>1
    <3>3. CASE j # i
      <4>. DEFINE b == connections[j]
      <4>1. b.dial # d /\ b.dial \in Dials /\ b.state # "Closed"
        BY <1>2, <3>1, <3>3, WholeParts
      <4>2. Taking(b, upstream[b.dial], client[b.key], closed)
        BY <1>2, <3>1, <4>1 DEF Inbound
      <4>3. s.conns[j] = b /\ s.up[b.dial] = upstream[b.dial]
        BY <1>2, <1>8, <2>1, <3>1, <3>3, <4>1 DEF s
      <4>. HIDE DEF b
      <4>. QED  BY <4>2, <4>3
    <3>. QED  BY <3>2, <3>3
  <2>. QED  BY <2>2 DEF Inbound, s
<1>13. Inbound(v(i), client, closed)
  <2>. DEFINE s == t(i)
              r == v(i)
              h == client
              o == closed
  <2>1. Whole(s, n) /\ Whole(r, n) /\ Inbound(s, h, o)
    BY <1>10, <1>12
  <2>2. Leaves(s, r)
    BY <1>9, <1>10, RestsRemains, RemainsLeaves
  <2>3. \A k \in Keys : /\ h[k].sent \in Nat /\ Grown(h[k], h[k]) /\ Said(h[k], h[k])
    BY <1>2, OwnTraits DEF Grown, Said
  <2>. HIDE DEF s, r, h, o, n
  <2>4. Inbound(r, h, o)
    BY <2>1, <2>2, <2>3, LeavesInbound
  <2>. QED  BY <2>4 DEF r, h, o
<1>14. Advance(Now, v(i), n, n)
  <2>. DEFINE r == v(i)
  <2>1. \A b \in Dials : Heeds(t(i).up[b], r.up[b])
    BY <1>9 DEF Rests
  <2>2. \A b \in Dials : b # d => Heeds(upstream[b], r.up[b])
    BY <1>8, <2>1
  <2>3. Heeds(u(i), r.up[d])
    BY <1>8, <2>1
  <2>4. r.up[d].closes = 0
    <3>1. i \in 1 .. Len(r.conns) /\ r.conns[i].dial = d
      BY <1>2, <1>9 DEF Goes, Alone, Works
    <3>. HIDE DEF r
    <3>. QED  BY <1>10, <3>1, WholeParts DEF r
  <2>. HIDE DEF r
  <2>5. Grows(upstream[d], r.up[d])
    BY <1>4, <2>3, <2>4 DEF Heeds, Grows
  <2>. QED  BY <1>2, <2>2, <2>5 DEF Advance, r
<1>15. Passes
  BY <1>6, <1>11, <1>13, <1>14 DEF Passes
<1>16. Speak
  <2>1. \A k \in Keys : Said(client[k], client'[k]) /\ client'[k] = client[k]
    BY <1>6 DEF Said
  <2>. QED  BY <2>1, SaidModest DEF Inward, Speak
<1>. QED  BY <1>15, <1>16

LEMMA GivenThen ==
    ASSUME Inward, Moved, Passes, Speak
    PROVE  Given(Now', next_dial')
<1>. DEFINE t == Now
            u == Now'
            n == next_dial
            m == next_dial'
            g == client'
            p == closed'
<1>1. /\ Given(t, n) /\ Whole(t, n) /\ Whole(u, m) /\ Inbound(u, g, p) /\ Advance(t, u, n, m)
      /\ \A k \in Keys : g[k].sent \in 0 .. ClientBytes
  BY DEF Inward, Sound, Moved, Passes, Speak, Modest
<1>. HIDE DEF t, u, n, m, g, p
<1>2. n \in Nat /\ m \in Nat /\ m \in {n, n + 1}
  BY <1>1, WholeParts DEF Advance
<1>3. ASSUME NEW d \in Dials
      PROVE  /\ u.up[d].phase = "none" <=> d > m
             /\ d > m => u.up[d].sent = <<>> /\ ~u.up[d].eof
             /\ \E a \in 0 .. ClientBytes : u.up[d].sent = Counting(1, a)
  <2>1. /\ t.up[d].phase = "none" <=> d > n
        /\ d > n => t.up[d].sent = <<>> /\ ~t.up[d].eof
        /\ \E a \in 0 .. ClientBytes : t.up[d].sent = Counting(1, a)
    BY <1>1 DEF Given
  <2>2. d \in Nat
    BY DialsAre
  <2>3. CASE Heeds(t.up[d], u.up[d]) /\ ~(m = n + 1 /\ d = m)
    <3>1. d > m <=> d > n
      BY <1>2, <2>2, <2>3
    <3>. QED  BY <2>1, <2>3, <3>1 DEF Heeds
  <2>4. CASE m = n /\ Grows(t.up[d], u.up[d])
    <3>1. ~(d > m) /\ u.up[d].phase # "none" /\ u.up[d].closes = 0 /\ d <= m
      BY <1>2, <2>1, <2>2, <2>4 DEF Grows
    <3>2. PICK i \in 1 .. Len(u.conns) : u.conns[i].dial = d
      BY <1>1, <3>1, WholeParts
    <3>. DEFINE k == u.conns[i].key
    <3>3. k \in Keys /\ u.conns[i].state # "Closed"
      BY <1>1, WholeParts
    <3>4. Taking(u.conns[i], u.up[d], g[k], p)
      BY <1>1, <3>2, <3>3 DEF Inbound
    <3>5. g[k].sent \in 0 .. ClientBytes
      BY <1>1, <3>3
    <3>. HIDE DEF k
    <3>6. PICK a \in Nat, b \in Nat : /\ a <= b /\ b <= g[k].sent
                                      /\ u.up[d].sent = Counting(1, a)
      BY <3>4 DEF Taking, Relayed
    <3>7. a \in 0 .. ClientBytes
      BY <3>5, <3>6, Constants
    <3>. QED  BY <3>1, <3>6, <3>7
  <2>5. CASE m = n + 1 /\ d = m
    <3>1. Begins(t.up[d], u.up[d])
      BY <1>1, <1>2, <2>5 DEF Advance
    <3>2. ~(d > m)
      BY <1>2, <2>5
    <3>3. Counting(1, 0) = <<>> /\ 0 \in 0 .. ClientBytes
      <4>1. 1 \in Int /\ 1 - 1 = 0
        OBVIOUS
      <4>. QED  BY <4>1, CountingNone, Constants
    <3>. QED  BY <3>1, <3>2, <3>3 DEF Begins
  <2>. QED  BY <1>1, <1>2, <2>3, <2>4, <2>5 DEF Advance
<1>4. Given(u, m)
  BY <1>3 DEF Given
<1>. QED  BY <1>4 DEF u, m

LEMMA StepPasses ==
    ASSUME Inward, Next, Undisturbed \/ Meek
    PROVE  Moved /\ Passes /\ Speak
<1>1. Moved
  BY StepMoves DEF Inward
<1>2. ASSUME NEW k \in Keys,
             \/ ClientSyn(k) \/ ClientSend(k) \/ ClientResend(k)
             \/ ClientReset(k) \/ ClientReceive(k) \/ PacketLost(k)
      PROVE  Passes /\ Speak
  BY <1>1, <1>2, SynPasses, SendPasses, ResendPasses, ResetPasses, ReceivePasses
<1>3. ASSUME NEW d \in Dials,
             \/ on_dial_connected(d) \/ on_dial_failed(d)
             \/ on_relay_data(d) \/ on_relay_closed(d)
      PROVE  Passes /\ Speak
  BY <1>1, <1>3, ConnectedPasses, FailedPasses, DataPasses, EndPasses
<1>4. CASE tick
  <2>1. PICK due : Commit(visit_all(Now, due))
    BY <1>4 DEF tick, run_all_timers
  <2>2. UNCHANGED <<next_dial, closed, client>>
    BY <1>4 DEF tick, run_all_timers
  <2>. QED  BY <1>1, <2>1, <2>2, VisitPasses
<1>5. CASE close
  <2>1. /\ Commit(visit_all(Now, [i \in DOMAIN connections |-> "close"]))
        /\ UNCHANGED <<next_dial, client>> /\ closed' = TRUE
    BY <1>5 DEF close
  <2>. QED  BY <1>1, <2>1, VisitPasses
<1>. QED  BY <1>1, <1>2, <1>3, <1>4, <1>5 DEF Next

LEMMA InwardSteps ==
    ASSUME Inward, [Next]_vars, Undisturbed \/ Meek \/ UNCHANGED vars
    PROVE  Inward'
<1>1. CASE UNCHANGED vars
  <2>1. Sound' /\ Now' = Now
    BY <1>1, StillSound DEF Inward, Now, vars
  <2>. QED  BY <1>1, <2>1 DEF Inward, vars
<1>2. CASE Next /\ (Undisturbed \/ Meek)
  <2>1. Moved /\ Passes /\ Speak
    BY <1>2, StepPasses
  <2>2. Sound'
    BY <1>2, StepMoves DEF Inward, Moved, Sound
  <2>3. Given(Now', next_dial')
    BY <2>1, GivenThen
  <2>. QED  BY <2>1, <2>2, <2>3 DEF Inward, Passes, Speak
<1>. QED  BY <1>1, <1>2

-----------------------------------------------------------------------------
(* The clients' streams, in a run.                                         *)

LEMMA InwardInit ==
    ASSUME Proper, Init
    PROVE  Inward
<1>1. Sound
  BY SoundInit
<1>2. /\ connections = <<>> /\ next_dial = 0
      /\ upstream = [d \in Dials |-> NoUpstream]
  BY DEF Init
<1>3. Given(Now, next_dial)
  <2>1. Now.up = upstream /\ \A d \in Dials : d > 0
    BY DialsAre DEF Now
  <2>2. Counting(1, 0) = <<>> /\ 0 \in 0 .. ClientBytes
    <3>1. 1 \in Int /\ 1 - 1 = 0
      OBVIOUS
    <3>. QED  BY <3>1, CountingNone, Constants
  <2>. QED  BY <1>2, <2>1, <2>2 DEF Given, NoUpstream
<1>4. \A k \in Keys : Modest(client[k])
  <2>1. PICK may \in Clients : client = [k \in Keys |-> Idle(may[k])]
    BY DEF Init
  <2>2. ASSUME NEW k \in Keys
        PROVE  Modest(Idle(may[k]))
    <3>. DEFINE x == may[k]
    <3>1. x \in Traits /\ (x.lossy => x.lengths \subseteq {1} /\ ~x.closes)
      BY <2>1, Constants DEF Proper
    <3>2. 0 \in 0 .. ClientBytes /\ 0 <= x.bytes
      BY <3>1, Constants DEF Traits
    <3>. HIDE DEF x
    <3>. QED  BY <3>1, <3>2 DEF Idle, Modest, x
  <2>. QED  BY <2>1, <2>2
<1>5. Inbound(Now, client, closed)
  <2>1. Len(Now.conns) = 0
    BY <1>2 DEF Now
  <2>2. \A i \in 1 .. Len(Now.conns) : FALSE
    BY <2>1
  <2>. QED  BY <2>2 DEF Inbound
<1>. QED  BY <1>1, <1>3, <1>4, <1>5 DEF Inward

LEMMA InwardAlways == Proper => (Spec /\ [][Undisturbed \/ Meek]_vars => []Inward)
<1>. SUFFICES ASSUME Proper
              PROVE  Spec /\ [][Undisturbed \/ Meek]_vars => []Inward
  OBVIOUS
<1>1. Init => Inward
  BY InwardInit
<1>2. Inward /\ [Next]_vars /\ [Undisturbed \/ Meek]_vars => Inward'
  BY InwardSteps
<1>. QED  BY <1>1, <1>2, PTL DEF Spec

(* What Inward says of a connection: the bytes its relay was given and     *)
(* those it holds are the first m of its client, all it acknowledged.      *)
LEMMA InwardFacts ==
    ASSUME Inward, NEW i \in DOMAIN connections
    PROVE  LET c == connections[i]
               u == upstream[c.dial]
               x == client[c.key]
           IN  \E m \in Nat :
                 /\ u.sent \o c.pending_for_upstream = Counting(1, m) /\ m <= x.sent
                 /\ Len(Counting(1, m)) = m
                 /\ Len(u.sent) + Len(c.pending_for_upstream) = m
                 /\ Len(u.sent) \in Nat /\ Len(u.sent) <= m
                 /\ c.receive_next = sequence_add(ClientISS, 1 + m
                                        + IF c.inbound_closed THEN 1 ELSE 0)
                 /\ u.eof => Len(u.sent) = x.sent /\ x.fin
<1>. DEFINE c == connections[i]
            u == upstream[c.dial]
            x == client[c.key]
<1>1. Taking(c, u, x, closed) /\ x.sent \in Nat
  <2>1. /\ Now.conns = connections /\ Now.up = upstream /\ i \in 1 .. Len(connections)
        /\ c.state # "Closed" /\ Whole(Now, next_dial)
    BY SoundFacts DEF Inward, Sound, Now
  <2>2. c.key \in Keys
    BY <2>1, WholeParts
  <2>. QED  BY <2>1, <2>2, OwnTraits DEF Inward, Inbound
<1>. HIDE DEF c, u, x
<1>2. PICK a \in Nat, m \in Nat : Relayed(c, u, x, closed, a, m)
  BY <1>1 DEF Taking
<1>3. /\ a <= m /\ m <= x.sent
      /\ u.sent = Counting(1, a) /\ c.pending_for_upstream = Counting(a + 1, m)
      /\ c.receive_next = sequence_add(ClientISS, 1 + m + IF c.inbound_closed THEN 1 ELSE 0)
      /\ u.eof => a = m /\ x.fin /\ m = x.sent
  BY <1>2 DEF Relayed
<1>4. /\ Len(Counting(1, a)) = a /\ Len(Counting(1, m)) = m
      /\ Len(Counting(a + 1, m)) = m - a
      /\ Counting(1, a) \o Counting(a + 1, m) = Counting(1, m)
  <2>1. \A j \in Nat : 1 \in Int /\ 1 <= j + 1 /\ j \in Int /\ j - 1 + 1 = j
    OBVIOUS
  <2>2. Len(Counting(1, a)) = a /\ Len(Counting(1, m)) = m
    BY <2>1, CountingIs
  <2>3. Len(Counting(a + 1, m)) = m - a
    <3>. DEFINE l == a + 1
    <3>1. l \in Int /\ m \in Int /\ l <= m + 1 /\ m - l + 1 = m - a
      BY <1>3
    <3>. HIDE DEF l
    <3>2. Len(Counting(l, m)) = m - l + 1
      BY <3>1, CountingIs
    <3>. QED  BY <3>1, <3>2 DEF l
  <2>4. Counting(1, a) \o Counting(a + 1, m) = Counting(1, m)
    BY <1>3, <2>1, CountingJoins
  <2>. QED  BY <2>2, <2>3, <2>4
<1>5. Len(u.sent) + Len(c.pending_for_upstream) = m /\ Len(u.sent) \in Nat
      /\ Len(u.sent) <= m /\ (u.eof => Len(u.sent) = x.sent /\ x.fin)
  <2>1. Len(u.sent) = a /\ Len(c.pending_for_upstream) = m - a
    BY <1>3, <1>4
  <2>2. a + (m - a) = m
    OBVIOUS
  <2>. QED  BY <1>3, <2>1, <2>2
<1>. QED  BY <1>3, <1>4, <1>5 DEF c, u, x

LEMMA InwardRelayed == Inward => RelayedInOrder
<1>. SUFFICES ASSUME Inward, NEW d \in 1 .. next_dial
              PROVE  LET given == upstream[d].sent
                           \o (IF Live(d) THEN ConnOf(d).pending_for_upstream ELSE <<>>)
                     IN  given = Counting(1, Len(given))
  BY DEF RelayedInOrder
<1>1. d \in Dials
  <2>. DEFINE most == Cardinality(Keys)
  <2>1. next_dial \in Nat /\ next_dial <= most /\ most \in Nat
    BY SoundFacts, DialsAre DEF Inward, Sound
  <2>2. Dials = 1 .. most
    BY DEF Dials
  <2>. HIDE DEF most
  <2>. QED  BY <2>1, <2>2
<1>2. CASE Live(d)
  <2>1. PICK i \in DOMAIN connections : connections[i].dial = d /\ ConnOf(d) = connections[i]
    BY <1>2 DEF Live, ConnOf, IndexOfDial
  <2>2. PICK m \in Nat : /\ upstream[d].sent \o ConnOf(d).pending_for_upstream = Counting(1, m)
                         /\ Len(Counting(1, m)) = m
    BY <2>1, InwardFacts
  <2>. QED  BY <1>2, <2>2
<1>3. CASE ~Live(d)
  <2>1. PICK a \in 0 .. ClientBytes : upstream[d].sent = Counting(1, a)
    BY <1>1 DEF Inward, Given, Now
  <2>2. 1 \in Int /\ a \in Int /\ 1 <= a + 1 /\ a - 1 + 1 = a
    OBVIOUS
  <2>3. Counting(1, a) \in Seq(Int) /\ Len(Counting(1, a)) = a
    BY <2>2, CountingIs DEF Bytes
  <2>4. Counting(1, a) \o <<>> = Counting(1, a)
    BY <2>3
  <2>. QED  BY <1>3, <2>1, <2>3, <2>4
<1>. QED  BY <1>2, <1>3

LEMMA InwardHeld == Inward => AcknowledgedIsHeld
<1>. SUFFICES ASSUME Inward PROVE AcknowledgedIsHeld
  OBVIOUS
<1>1. TypeOK
  BY SoundTypes DEF Inward
<1>2. ASSUME NEW i \in DOMAIN connections
      PROVE  LET c == connections[i]
                 kept == Len(upstream[c.dial].sent) + Len(c.pending_for_upstream)
             IN  /\ c.receive_next = sequence_add(ClientISS, 1 + kept
                        + IF c.inbound_closed THEN 1 ELSE 0)
                 /\ kept <= client[c.key].sent
  BY InwardFacts
<1>. QED  BY <1>1, <1>2 DEF AcknowledgedIsHeld

-----------------------------------------------------------------------------
(* The promise to the relays (RelayedFlow), step by step.                  *)

(* A flow of the promise, from a relay and the clients.                    *)
View(u, h) ==
    [phase |-> IF u.closes > 0 THEN "released"
               ELSE IF u.phase = "none" THEN "none" ELSE "open",
     offered |-> IF u.phase = "none" THEN 0 ELSE h[u.key].sent,
     given |-> Len(u.sent), eof |-> u.eof]

(* What Inward says of a relay and of the client it belongs to.            *)
Owed(u, x) ==
    /\ u \in Up /\ (u.phase = "none" => u.closes = 0 /\ u.sent = <<>> /\ ~u.eof)
    /\ Len(u.sent) \in 0 .. ClientBytes /\ x.sent \in 0 .. ClientBytes
    /\ u.phase # "none" /\ u.closes = 0 =>
          Len(u.sent) <= x.sent /\ (u.eof => Len(u.sent) = x.sent /\ x.fin)

(* A step of the promise, of one flow.                                     *)
Kept_by(f, g) ==
    \/ g = f
    \/ f.phase = "none" /\ g.phase = "open" /\ g.given = 0 /\ ~g.eof
    \/ /\ f.phase = "open" /\ g.phase = "open" /\ f.offered <= g.offered
       /\ f.given <= g.given /\ g.given <= g.offered
       /\ (f.eof => g = f) /\ (g.eof => g.given = g.offered)
    \/ /\ f.phase # "none" /\ g.phase = "released"
       /\ g.given = f.given /\ g.eof = f.eof /\ f.offered <= g.offered

LEMMA FlowsView == flows = [d \in Dials |-> View(upstream[d], client)]
                   /\ \A d \in Dials : flows[d] = View(upstream[d], client)
  BY DEF flows, View

LEMMA OwedView ==
    ASSUME NEW u, NEW h, Owed(u, h[u.key])
    PROVE  View(u, h) \in Promise!FlowState
<1>1. 0 \in 0 .. ClientBytes /\ u.eof \in BOOLEAN
  BY Constants DEF Owed, Up
<1>. QED  BY <1>1 DEF Owed, View, Promise!FlowState

LEMMA InwardOwed ==
    ASSUME Inward, NEW d \in Dials
    PROVE  /\ Owed(upstream[d], client[upstream[d].key])
           /\ upstream[d].phase = "none" <=> d > next_dial
<1>. DEFINE u == upstream[d]
            x == client[u.key]
<1>1. /\ u \in Up /\ u.key \in Keys
      /\ u.closes = IF Live(d) \/ d > next_dial THEN 0 ELSE 1
      /\ u.phase = "none" <=> d > next_dial
      /\ d > next_dial => u.sent = <<>> /\ ~u.eof
      /\ x.sent \in 0 .. ClientBytes
      /\ \E a \in 0 .. ClientBytes : u.sent = Counting(1, a)
  <2>1. u \in Up /\ u.closes = IF Live(d) \/ d > next_dial THEN 0 ELSE 1
    BY SoundFacts DEF Inward
  <2>2. u.key \in Keys
    BY <2>1 DEF Up
  <2>. QED  BY <2>1, <2>2 DEF Inward, Given, Now, Modest
<1>2. Len(u.sent) \in 0 .. ClientBytes
  <2>1. PICK a \in 0 .. ClientBytes : u.sent = Counting(1, a)
    BY <1>1
  <2>2. 1 \in Int /\ a \in Int /\ 1 <= a + 1 /\ a - 1 + 1 = a
    OBVIOUS
  <2>3. Len(Counting(1, a)) = a
    BY <2>2, CountingIs
  <2>. QED  BY <2>1, <2>3
<1>3. ASSUME u.phase # "none", u.closes = 0
      PROVE  Len(u.sent) <= x.sent /\ (u.eof => Len(u.sent) = x.sent /\ x.fin)
  <2>1. Live(d)
    BY <1>1, <1>3
  <2>2. PICK i \in DOMAIN connections : connections[i].dial = d
    BY <2>1 DEF Live, IndexOfDial
  <2>3. u.key = connections[i].key
    BY <2>2, SoundStreams DEF Inward
  <2>4. PICK m \in Nat : /\ m <= x.sent /\ Len(u.sent) <= m
                         /\ u.eof => Len(u.sent) = x.sent /\ x.fin
    BY <2>2, <2>3, InwardFacts
  <2>5. \A e \in 0 .. ClientBytes : e \in Int
    OBVIOUS
  <2>. HIDE DEF u, x
  <2>. QED  BY <1>1, <1>2, <2>4, <2>5
<1>4. u.phase = "none" => u.closes = 0 /\ u.sent = <<>> /\ ~u.eof
  BY <1>1
<1>. QED  BY <1>1, <1>2, <1>3, <1>4 DEF Owed

Owing == \A d \in Dials : Owed(upstream[d], client[upstream[d].key])

LEMMA InwardOwes == Inward => Owing
  BY InwardOwed DEF Owing

LEMMA RelayKept ==
    ASSUME NEW u, NEW v, NEW h, NEW g, Owed(u, h[u.key]), Owed(v, g[v.key]),
           Grown(h[u.key], g[u.key]), u.closes > 0 => v = u,
           Heeds(u, v) \/ Grows(u, v) \/ Begins(u, v)
    PROVE  Kept_by(View(u, h), View(v, g))
<1>. DEFINE a == View(u, h)
            b == View(v, g)
            x == h[u.key]
            y == g[v.key]
<1>1. /\ a.phase = IF u.closes > 0 THEN "released"
                   ELSE IF u.phase = "none" THEN "none" ELSE "open"
      /\ a.offered = (IF u.phase = "none" THEN 0 ELSE x.sent)
      /\ a.given = Len(u.sent) /\ a.eof = u.eof
      /\ b.phase = IF v.closes > 0 THEN "released"
                   ELSE IF v.phase = "none" THEN "none" ELSE "open"
      /\ b.offered = (IF v.phase = "none" THEN 0 ELSE y.sent)
      /\ b.given = Len(v.sent) /\ b.eof = v.eof
      /\ b = [phase |-> b.phase, offered |-> b.offered, given |-> b.given, eof |-> b.eof]
      /\ a = [phase |-> a.phase, offered |-> a.offered, given |-> a.given, eof |-> a.eof]
  BY DEF View
<1>2. /\ u \in Up /\ v \in Up /\ u.closes \in Nat /\ v.closes \in Nat
      /\ u.eof \in BOOLEAN /\ v.eof \in BOOLEAN
      /\ Len(u.sent) \in Nat /\ Len(v.sent) \in Nat /\ x.sent \in Nat /\ y.sent \in Nat
  <2>1. \A e \in 0 .. ClientBytes : e \in Nat
    OBVIOUS
  <2>. QED  BY <2>1 DEF Owed, Up
<1>3. ~Begins(u, v) => v.key = u.key /\ Grown(x, y)
  BY DEF Heeds, Grows
<1>. HIDE DEF a, b, x, y
<1>4. CASE u.closes > 0
  <2>1. v = u /\ u.phase # "none" /\ ~Begins(u, v)
    BY <1>2, <1>4 DEF Owed, Begins
  <2>2. Grown(x, y)
    BY <1>3, <2>1
  <2>3. x.sent <= y.sent
    BY <2>2 DEF Grown
  <2>4. a.phase # "none" /\ b.phase = "released" /\ b.given = a.given /\ b.eof = a.eof
        /\ a.offered <= b.offered
    BY <1>1, <1>4, <2>1, <2>3
  <2>5. Kept_by(a, b)
    BY <2>4 DEF Kept_by
  <2>. QED  BY <2>5 DEF a, b
<1>5. CASE u.phase = "none"
  <2>1. u.closes = 0 /\ u.sent = <<>> /\ ~u.eof /\ ~Grows(u, v)
    BY <1>5 DEF Owed, Grows
  <2>2. CASE Heeds(u, v)
    <3>1. v.phase = "none" /\ v.sent = u.sent /\ v.eof = u.eof /\ v.closes = 0
      BY <1>5, <2>2 DEF Heeds, Owed
    <3>2. b.phase = a.phase /\ b.offered = a.offered /\ b.given = a.given /\ b.eof = a.eof
      BY <1>1, <1>5, <2>1, <3>1
    <3>3. b = a
      BY <1>1, <3>2
    <3>4. Kept_by(a, b)
      BY <3>3 DEF Kept_by
    <3>. QED  BY <3>4 DEF a, b
  <2>3. CASE Begins(u, v)
    <3>1. v.phase # "none" /\ v.closes = 0 /\ v.sent = <<>> /\ ~v.eof
      BY <2>3 DEF Begins
    <3>2. ~(0 > 0) /\ Len(<<>>) = 0
      OBVIOUS
    <3>3. a.phase = "none" /\ b.phase = "open" /\ b.given = 0 /\ ~b.eof
      BY <1>1, <1>5, <2>1, <3>1, <3>2
    <3>4. Kept_by(a, b)
      BY <3>3 DEF Kept_by
    <3>. QED  BY <3>4 DEF a, b
  <2>. QED  BY <2>1, <2>2, <2>3
<1>6. CASE u.closes = 0 /\ u.phase # "none"
  <2>1. ~Begins(u, v) /\ v.phase # "none" /\ (Heeds(u, v) \/ Grows(u, v))
    BY <1>6 DEF Begins, Heeds, Grows
  <2>2. Grown(x, y) /\ x.sent <= y.sent /\ (x.fin => y.sent = x.sent)
    BY <1>3, <2>1 DEF Grown
  <2>3. /\ Len(u.sent) <= Len(v.sent) /\ (u.eof => v.eof)
        /\ v.closes = 0 \/ Heeds(u, v)
    <3>1. \A e \in Nat : e <= e
      OBVIOUS
    <3>. QED  BY <1>2, <2>1, <3>1 DEF Heeds, Grows
  <2>4. ~(0 > 0) /\ a.phase = "open" /\ a.offered = x.sent /\ b.offered = y.sent
    BY <1>1, <1>6, <2>1
  <2>5. CASE v.closes = 0
    <3>1. b.phase = "open"
      BY <1>1, <2>1, <2>4, <2>5
    <3>2. /\ Len(v.sent) <= y.sent /\ (v.eof => Len(v.sent) = y.sent)
          /\ Len(u.sent) <= x.sent /\ (u.eof => Len(u.sent) = x.sent /\ x.fin)
      BY <1>6, <2>1, <2>5 DEF Owed, x, y
    <3>3. ASSUME u.eof
          PROVE  b = a
      <4>1. y.sent = x.sent /\ Len(u.sent) = x.sent /\ Len(v.sent) = y.sent
        BY <2>2, <2>3, <3>2, <3>3
      <4>2. v.eof = u.eof
        BY <1>2, <2>3, <3>3
      <4>3. b.offered = a.offered /\ b.given = a.given /\ b.eof = a.eof /\ b.phase = a.phase
        BY <1>1, <2>4, <3>1, <4>1, <4>2
      <4>. QED  BY <1>1, <4>3
    <3>4. /\ a.offered <= b.offered /\ a.given <= b.given /\ b.given <= b.offered
          /\ a.eof => b = a
          /\ b.eof => b.given = b.offered
      BY <1>1, <2>2, <2>3, <2>4, <3>2, <3>3
    <3>5. Kept_by(a, b)
      BY <2>4, <3>1, <3>4 DEF Kept_by
    <3>. QED  BY <3>5 DEF a, b
  <2>6. CASE v.closes # 0
    <3>1. Heeds(u, v) /\ v.closes > 0
      BY <1>2, <2>3, <2>6
    <3>2. v.sent = u.sent /\ v.eof = u.eof
      BY <3>1 DEF Heeds
    <3>3. a.phase # "none" /\ b.phase = "released" /\ b.given = a.given /\ b.eof = a.eof
          /\ a.offered <= b.offered
      BY <1>1, <2>2, <2>4, <3>1, <3>2
    <3>4. Kept_by(a, b)
      BY <3>3 DEF Kept_by
    <3>. QED  BY <3>4 DEF a, b
  <2>. QED  BY <2>5, <2>6
<1>. QED  BY <1>2, <1>4, <1>5, <1>6

LEMMA FlowSteps ==
    ASSUME Inward, Inward', Moved, Passes, Speak
    PROVE  Promise!FlowNext
<1>1. ASSUME NEW d \in Dials
      PROVE  /\ flows[d] = View(upstream[d], client)
             /\ flows'[d] = View(upstream'[d], client')
             /\ View(upstream'[d], client') \in Promise!FlowState
             /\ Kept_by(flows[d], flows'[d])
  <2>1. /\ flows[d] = View(upstream[d], client)
        /\ flows'[d] = View(upstream'[d], client')
    BY DEF flows, View
  <2>2. Owed(upstream[d], client[upstream[d].key])
    BY InwardOwed
  <2>3. Owed(upstream'[d], client'[upstream'[d].key])
    <3>1. Inward' => Owing'
      BY InwardOwes, PTL
    <3>. QED  BY <3>1 DEF Owing
  <2>4. upstream[d].closes > 0 => upstream'[d] = upstream[d]
    BY DEF Moved, Quiet, Now
  <2>5. \/ Heeds(upstream[d], upstream'[d]) \/ Grows(upstream[d], upstream'[d])
        \/ Begins(upstream[d], upstream'[d])
    <3>1. Now.up = upstream /\ Now'.up = upstream'
      BY DEF Now
    <3>. QED  BY <3>1 DEF Passes, Advance
  <2>6. Grown(client[upstream[d].key], client'[upstream[d].key])
    <3>1. upstream[d].key \in Keys
      BY <2>2 DEF Owed, Up
    <3>. QED  BY <3>1 DEF Speak
  <2>7. View(upstream'[d], client') \in Promise!FlowState
    BY <2>3, OwedView
  <2>8. Kept_by(View(upstream[d], client), View(upstream'[d], client'))
    BY <2>2, <2>3, <2>4, <2>5, <2>6, RelayKept
  <2>. QED  BY <2>1, <2>7, <2>8
<1>2. flows' \in [Dials -> Promise!FlowState]
  <2>1. flows' = [d \in Dials |-> View(upstream'[d], client')]
    BY DEF flows, View
  <2>. QED  BY <1>1, <2>1
<1>. QED  BY <1>1, <1>2 DEF Promise!FlowNext, Promise!Opens, Promise!Carries,
                            Promise!Releases, Kept_by

LEMMA FlowStarts == Init => Promise!FlowInit
<1>. SUFFICES ASSUME Init PROVE Promise!FlowInit
  OBVIOUS
<1>1. \A d \in Dials : upstream[d] = NoUpstream
  BY DEF Init
<1>2. \A d \in Dials : View(upstream[d], client)
                          = [phase |-> "none", offered |-> 0, given |-> 0, eof |-> FALSE]
  <2>1. ~(0 > 0) /\ Len(<<>>) = 0
    OBVIOUS
  <2>2. /\ NoUpstream.phase = "none" /\ NoUpstream.sent = <<>>
        /\ NoUpstream.eof = FALSE /\ NoUpstream.closes = 0
    BY DEF NoUpstream
  <2>. QED  BY <1>1, <2>1, <2>2 DEF View
<1>. QED  BY <1>2, FlowsView DEF Promise!FlowInit

(* What the clients may do is settled at the start.                        *)
Settled ==
    /\ \E may \in Clients : \A k \in Keys : client[k].may = may[k]
    /\ next_dial <= MaxDials

LEMMA MaxDialsIs ==
    ASSUME NEW may, \A k \in Keys : client[k].may = may[k]
    PROVE  MaxDials = Cardinality({k \in Keys : may[k].opens}) /\ MaxDials \in Nat
<1>1. {k \in Keys : client[k].may.opens} = {k \in Keys : may[k].opens}
  OBVIOUS
<1>2. {k \in Keys : may[k].opens} \subseteq Keys /\ IsFiniteSet(Keys)
  BY TerminatorAssumption
<1>3. Cardinality({k \in Keys : may[k].opens}) \in Nat
  BY <1>2, FS_Subset, FS_CardinalityType
<1>. QED  BY <1>1, <1>3 DEF MaxDials

LEMMA AcceptDials ==
    ASSUME NEW seg, accept(seg)
    PROVE  next_dial' = next_dial \/ (next_dial < MaxDials /\ next_dial' = next_dial + 1)
  BY DEF accept

LEMMA NextDials ==
    ASSUME Next
    PROVE  next_dial' = next_dial \/ (next_dial < MaxDials /\ next_dial' = next_dial + 1)
<1>1. ASSUME NEW k \in Keys,
             \/ ClientSyn(k) \/ ClientSend(k) \/ ClientResend(k)
             \/ ClientReset(k) \/ ClientReceive(k) \/ PacketLost(k)
      PROVE  next_dial' = next_dial \/ (next_dial < MaxDials /\ next_dial' = next_dial + 1)
  BY <1>1, AcceptDials DEF ClientSyn, ClientSend, ClientResend, ClientReset, ClientReceive,
                           PacketLost, Lost
<1>2. ASSUME NEW d \in Dials,
             \/ on_dial_connected(d) \/ on_dial_failed(d)
             \/ on_relay_data(d) \/ on_relay_closed(d)
      PROVE  next_dial' = next_dial
  BY <1>2 DEF on_dial_connected, on_dial_failed, on_relay_data, on_relay_closed
<1>3. CASE tick
  BY <1>3 DEF tick, run_all_timers
<1>4. CASE close
  BY <1>4 DEF close
<1>. QED  BY <1>1, <1>2, <1>3, <1>4 DEF Next

(* Where there is one dial at most, a step that removes the connection     *)
(* leaves none.                                                            *)
LEMMA OneDial ==
    ASSUME Sound, Moved, next_dial \in Nat, next_dial' \in 0 .. 1,
           next_dial <= next_dial'
    PROVE  Undisturbed
<1>. SUFFICES ASSUME NEW i \in DOMAIN connections, NEW j \in DOMAIN connections',
                     connections'[j].dial # connections[i].dial
              PROVE  FALSE
  BY DEF Undisturbed
<1>1. /\ connections[i].dial \in Dials /\ connections[i].dial <= next_dial
      /\ connections'[j].dial \in Dials /\ connections'[j].dial <= next_dial'
  <2>1. /\ Whole(Now, next_dial) /\ Now.conns = connections
        /\ Whole(Now', next_dial') /\ Now'.conns = connections'
    BY DEF Sound, Moved, Now
  <2>. QED  BY <2>1, WholeParts
<1>2. connections[i].dial \in Nat \ {0} /\ connections'[j].dial \in Nat \ {0}
  BY <1>1, DialsAre
<1>. QED  BY <1>1, <1>2

LEMMA ApartInit ==
    ASSUME Init
    PROVE  Settled
<1>1. PICK may \in Clients : client = [k \in Keys |-> Idle(may[k])]
  BY DEF Init
<1>2. \A k \in Keys : client[k].may = may[k]
  BY <1>1 DEF Idle
<1>3. next_dial = 0 /\ MaxDials \in Nat
  BY <1>2, MaxDialsIs DEF Init
<1>. QED  BY <1>2, <1>3 DEF Settled

LEMMA ApartSteps ==
    ASSUME Apart, Inward, Settled, [Next]_vars
    PROVE  Settled' /\ (Undisturbed \/ Meek \/ UNCHANGED vars)
<1>1. CASE UNCHANGED vars
  <2>1. MaxDials' = MaxDials
    BY <1>1 DEF vars, MaxDials
  <2>. QED  BY <1>1, <2>1 DEF vars, Settled
<1>2. CASE Next
  <2>1. PICK may \in Clients : \A k \in Keys : client[k].may = may[k]
    BY DEF Settled
  <2>2. MaxDials = Cardinality({k \in Keys : may[k].opens}) /\ MaxDials \in Nat
    BY <2>1, MaxDialsIs
  <2>3. next_dial \in Nat /\ next_dial <= MaxDials
    BY SoundFacts DEF Inward, Settled
  <2>4. next_dial' = next_dial \/ (next_dial < MaxDials /\ next_dial' = next_dial + 1)
    BY <1>2, NextDials
  <2>5. next_dial' \in Nat /\ next_dial' <= MaxDials /\ next_dial <= next_dial'
    BY <2>2, <2>3, <2>4
  <2>6. Undisturbed \/ Meek
    <3>1. CASE MaxDials <= 1
      <4>1. next_dial' \in 0 .. 1
        BY <2>2, <2>5, <3>1
      <4>2. Moved
        BY <1>2, StepMoves DEF Inward
      <4>. QED  BY <2>3, <2>5, <4>1, <4>2, OneDial DEF Inward
    <3>2. CASE ~(MaxDials <= 1)
      <4>1. \A k \in Keys : may[k].bytes = 0 /\ ~may[k].closes
        BY <2>2, <3>2 DEF Apart
      <4>. QED  BY <2>1, <4>1 DEF Meek
    <3>. QED  BY <3>1, <3>2
  <2>7. \A k \in Keys : client'[k].may = may[k]
    BY <1>2, <2>1, <2>6, StepPasses DEF Speak, Grown
  <2>8. MaxDials' = MaxDials
    <3>1. {k \in Keys : client'[k].may.opens} = {k \in Keys : client[k].may.opens}
      BY <2>1, <2>7
    <3>. QED  BY <3>1 DEF MaxDials
  <2>. QED  BY <2>5, <2>6, <2>7, <2>8 DEF Settled
<1>. QED  BY <1>1, <1>2

(* Clients that are apart: no step that removes a connection disturbs the  *)
(* others, so the hypothesis of the theorems below is met.                 *)
THEOREM ApartIsUndisturbed ==
    Proper /\ Apart => (Spec => [][Undisturbed \/ Meek]_vars)
<1>. SUFFICES ASSUME Proper, Apart
              PROVE  Spec => [][Undisturbed \/ Meek]_vars
  OBVIOUS
<1>1. Init => Inward /\ Settled
  BY InwardInit, ApartInit
<1>2. Inward /\ Settled /\ [Next]_vars
        => (Inward /\ Settled)' /\ [Undisturbed \/ Meek]_vars
  <2>. SUFFICES ASSUME Inward, Settled, [Next]_vars
                PROVE  (Inward /\ Settled)' /\ [Undisturbed \/ Meek]_vars
    OBVIOUS
  <2>1. Settled' /\ (Undisturbed \/ Meek \/ UNCHANGED vars)
    BY ApartSteps
  <2>2. Inward'
    BY <2>1, InwardSteps
  <2>. QED  BY <2>1, <2>2
<1>. QED  BY <1>1, <1>2, PTL DEF Spec

(* What a relay was given, with what is still held for it, is the client's *)
(* stream from its first byte on, none left out, none twice, none before   *)
(* its time: through segments repeated, cut and out of order, dials that   *)
(* connect late and releases at any moment (accept_payload,                *)
(* flush_pending_upstream), as long as no removal disturbs another flow.   *)
THEOREM StreamsAreRelayedInOrder ==
    Proper => (Spec /\ [][Undisturbed \/ Meek]_vars => []RelayedInOrder)
<1>. SUFFICES ASSUME Proper
              PROVE  Spec /\ [][Undisturbed \/ Meek]_vars => []RelayedInOrder
  OBVIOUS
<1>1. Spec /\ [][Undisturbed \/ Meek]_vars => []Inward
  BY InwardAlways
<1>. QED  BY <1>1, InwardRelayed, PTL

(* Every byte the terminator has acknowledged was given to the relay or is *)
(* held for it, and none was acknowledged that the client has not sent;    *)
(* its FIN counts once, behind the last byte (handle, accept_payload).      *)
THEOREM AcknowledgedBytesAreHeld ==
    Proper => (Spec /\ [][Undisturbed \/ Meek]_vars => []AcknowledgedIsHeld)
<1>. SUFFICES ASSUME Proper
              PROVE  Spec /\ [][Undisturbed \/ Meek]_vars => []AcknowledgedIsHeld
  OBVIOUS
<1>1. Spec /\ [][Undisturbed \/ Meek]_vars => []Inward
  BY InwardAlways
<1>. QED  BY <1>1, InwardHeld, PTL

(* The terminator implements what the relays are promised (RelayedFlow):   *)
(* every step opens flows, carries some bytes of what a client offered,    *)
(* half-closes behind the last of them or releases, and nothing else.      *)
THEOREM PromiseIsKept ==
    Proper => (Spec /\ [][Undisturbed \/ Meek]_vars => KeepsPromise)
<1>. SUFFICES ASSUME Proper
              PROVE  Spec /\ [][Undisturbed \/ Meek]_vars => KeepsPromise
  OBVIOUS
<1>1. Spec /\ [][Undisturbed \/ Meek]_vars => []Inward
  BY InwardAlways
<1>2. Init => Promise!FlowInit
  BY FlowStarts
<1>3. Inward /\ [Next]_vars /\ [Undisturbed \/ Meek]_vars => [Promise!FlowNext]_flows
  <2>. SUFFICES ASSUME Inward, [Next]_vars, [Undisturbed \/ Meek]_vars
                PROVE  [Promise!FlowNext]_flows
    OBVIOUS
  <2>1. CASE UNCHANGED vars
    BY <2>1 DEF vars, flows
  <2>2. CASE Next /\ (Undisturbed \/ Meek)
    BY <2>2, StepPasses, InwardSteps, FlowSteps
  <2>. QED  BY <2>1, <2>2
<1>. QED  BY <1>1, <1>2, <1>3, PTL DEF Spec, KeepsPromise, Promise!FlowSpec

(* Both invariants and the promise, for one client that opens connections  *)
(* or any number of them that only listen: of the constants alone.         *)
THEOREM ApartInbound ==
    Proper /\ Apart => (Spec => []RelayedInOrder /\ []AcknowledgedIsHeld /\ KeepsPromise)
<1>. SUFFICES ASSUME Proper, Apart
              PROVE  Spec => []RelayedInOrder /\ []AcknowledgedIsHeld /\ KeepsPromise
  OBVIOUS
<1>1. Spec => [][Undisturbed \/ Meek]_vars
  BY ApartIsUndisturbed
<1>2. /\ Spec /\ [][Undisturbed \/ Meek]_vars => []RelayedInOrder
      /\ Spec /\ [][Undisturbed \/ Meek]_vars => []AcknowledgedIsHeld
      /\ Spec /\ [][Undisturbed \/ Meek]_vars => KeepsPromise
  BY StreamsAreRelayedInOrder, AcknowledgedBytesAreHeld, PromiseIsKept
<1>. QED  BY <1>1, <1>2, PTL
=============================================================================
