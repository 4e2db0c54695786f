--------------------------- MODULE HostLoopProofs ---------------------------
(***************************************************************************)
(* Theorems about the host's event loop (HostLoop.tla), for every queue,   *)
(* limit and bound: no packet of the device is lost, repeated or overtaken *)
(* on its way to the plane, and the loop does not go to sleep on packets   *)
(* it has.                                                                 *)
(*                                                                         *)
(* The invariant has three parts.  Packets: what the plane got, what waits *)
(* in the queue and what the reader holds are one rising line of packets,  *)
(* whose length with the shed ones is the number taken.  Awake: the loop   *)
(* sleeps dry, and is stopped while it drains before its poll only with a  *)
(* wake due, so that it does not sleep on the packets it leaves.           *)
(* Wired: what a channel holds is bounded by what its peer and the plane   *)
(* sent (the types of the run's invariant need this).                      *)
(***************************************************************************)
EXTENDS HostLoop, SequenceTheorems, TLAPS

Packet == 1 .. bounds.packets
Held == IF reader.at = "send" THEN <<reader.packet>> ELSE <<>>
Line == (handled \o queue) \o Held

Rising(s) == \A i \in 1 .. Len(s) - 1 : s[i] < s[i + 1]
UpTo(s, n) == \A i \in 1 .. Len(s) : s[i] <= n

Packets ==
    /\ bounds.packets \in Nat
    /\ reader.at \in {"read", "send", "wake", "ended"}
    /\ reader \in [at : {"read", "send", "wake", "ended"},
                   packet : 0 .. bounds.packets]
    /\ reader.at = "send" => reader.packet \in Packet
    /\ taken \in 0 .. bounds.packets /\ dropped \in Nat
    /\ queue \in Seq(Packet) /\ handled \in Seq(Packet)
    /\ Rising(Line) /\ UpTo(Line, taken) /\ Len(Line) + dropped = taken

(* The drain before the poll is the only way to it; an effect that stops   *)
(* the loop there has left a wake.  The poll leads to the other drain.     *)
Awake ==
    /\ again /\ at \in {"commands", "packets"} /\ stopped => waker
    /\ at = "pump" => ~again
    /\ at = "poll" /\ ~waker => queue = <<>> \/ reader.at = "wake"

Places == {"commands", "packets", "poll", "pump", "tick", "check", "finish",
           "join", "done"}
WorkerAt == {"none", "connecting", "connected", "failed", "over"}
StopperAt == {"out", "close", "wake", "done"}
Most == Max({MaxPackets, MaxReads})
Bound == [packets : Nat, connects : {0, 1}]

Threads ==
    /\ bounds \in Bound /\ at \in Places /\ again \in BOOLEAN
    /\ stopped \in BOOLEAN /\ running \in BOOLEAN /\ closed \in BOOLEAN
    /\ waker \in BOOLEAN /\ worker \in WorkerAt /\ stopper \in StopperAt
    /\ budget \in Nat /\ budget <= Most

Slot == [open : BOOLEAN, paused : BOOLEAN, inbound : Nat,
         decrypted : 0 .. RecordUnits, eof : BOOLEAN, pending : Nat,
         sealed : 0 .. 1, room : 0 .. Room, event : BOOLEAN,
         interest : SUBSET {"readable", "writable"}]

(* A channel that holds what a records and s sends may leave in it.        *)
Fits(slot, a, s) ==
    /\ slot \in Slot /\ slot.inbound <= a
    /\ slot.pending + slot.sealed <= s * SendUnits

Wired ==
    /\ arrived \in Nat /\ arrived <= Records /\ sent \in Nat /\ sent <= Sends
    /\ Fits(channel, arrived, sent)

IInv == Threads /\ Packets /\ Awake /\ Wired

-----------------------------------------------------------------------------
(* Arithmetic.                                                             *)

LEMMA Numbers ==
    /\ Records \in Nat /\ Sends \in Nat /\ SendUnits \in Nat /\ Room \in Nat
    /\ RecordUnits \in Nat /\ RecordUnits >= 1
    /\ MaxPackets \in Nat /\ MaxReads \in Nat
    /\ Bounds \subseteq [packets : Nat, connects : {0, 1}]
  BY HostLoopAssumption

LEMMA MaxOfTwo ==
    ASSUME NEW a \in Nat, NEW b \in Nat
    PROVE  Max({a, b}) \in Nat /\ a <= Max({a, b}) /\ b <= Max({a, b})
<1>1. \E x \in {a, b} : \A y \in {a, b} : x >= y
  <2>1. CASE a >= b
    BY <2>1
  <2>2. CASE b >= a
    BY <2>2
  <2>. QED  BY <2>1, <2>2
<1>2. Max({a, b}) \in {a, b} /\ \A y \in {a, b} : Max({a, b}) >= y
  BY <1>1 DEF Max
<1>. QED  BY <1>2

LEMMA MinOfTwo ==
    ASSUME NEW a \in Nat, NEW b \in Nat
    PROVE  Min({a, b}) \in Nat /\ Min({a, b}) <= a /\ Min({a, b}) <= b
<1>1. \E x \in {a, b} : \A y \in {a, b} : x <= y
  <2>1. CASE a <= b
    BY <2>1
  <2>2. CASE b <= a
    BY <2>2
  <2>. QED  BY <2>1, <2>2
<1>2. Min({a, b}) \in {a, b} /\ \A y \in {a, b} : Min({a, b}) <= y
  BY <1>1 DEF Min
<1>. QED  BY <1>2

LEMMA Products ==
    ASSUME NEW a \in Nat, NEW b \in Nat, a <= b, NEW u \in Nat
    PROVE  /\ a * u \in Nat /\ b * u \in Nat /\ a * u <= b * u
           /\ (a + 1) * u = a * u + u
<1>1. PICK d \in Nat : b = a + d
  <2>1. b - a \in Nat /\ b = a + (b - a)
    OBVIOUS
  <2>. QED  BY <2>1
<1>2. a * u \in Nat /\ d * u \in Nat /\ b * u = a * u + d * u
  BY <1>1
<1>. QED  BY <1>2

-----------------------------------------------------------------------------
(* The line of packets.                                                    *)

(* The head of the queue moves to the end of what was handled.             *)
LEMMA MovedUp ==
    ASSUME NEW S, NEW h \in Seq(S), NEW q \in Seq(S), q # <<>>
    PROVE  /\ Append(h, Head(q)) \in Seq(S) /\ Tail(q) \in Seq(S)
           /\ Append(h, Head(q)) \o Tail(q) = h \o q
<1>. DEFINE h2 == Append(h, Head(q))
            t == Tail(q)
<1>1. /\ Len(h) \in Nat /\ Len(q) \in Nat /\ Len(q) >= 1
  BY LenProperties, EmptySeq
<1>2. /\ Head(q) \in S /\ t \in Seq(S) /\ Len(t) = Len(q) - 1
      /\ \A i \in 1 .. Len(t) : t[i] = q[i + 1]
  BY HeadTailProperties
<1>3. Head(q) = q[1]
  OBVIOUS
<1>4. /\ h2 \in Seq(S) /\ Len(h2) = Len(h) + 1
      /\ \A i \in 1 .. Len(h) : h2[i] = h[i]
      /\ h2[Len(h) + 1] = q[1]
  BY <1>2, <1>3, AppendProperties
<1>. HIDE DEF h2, t
<1>5. /\ h \o q \in Seq(S) /\ Len(h \o q) = Len(h) + Len(q)
      /\ \A i \in 1 .. Len(h) + Len(q) :
            (h \o q)[i] = IF i <= Len(h) THEN h[i] ELSE q[i - Len(h)]
  BY ConcatProperties
<1>6. /\ h2 \o t \in Seq(S) /\ Len(h2 \o t) = Len(h2) + Len(t)
      /\ \A i \in 1 .. Len(h2) + Len(t) :
            (h2 \o t)[i] = IF i <= Len(h2) THEN h2[i] ELSE t[i - Len(h2)]
  BY <1>2, <1>4, ConcatProperties
<1>7. Len(h2 \o t) = Len(h \o q) /\ Len(h2) + Len(t) = Len(h) + Len(q)
  BY <1>1, <1>2, <1>4, <1>5, <1>6
<1>8. ASSUME NEW i \in 1 .. Len(h \o q) PROVE (h2 \o t)[i] = (h \o q)[i]
  <2>0. i \in 1 .. Len(h) + Len(q) /\ i \in 1 .. Len(h2) + Len(t) /\ i \in Nat
    BY <1>1, <1>5, <1>7
  <2>1. CASE i <= Len(h)
    <3>1. i \in 1 .. Len(h) /\ i <= Len(h2)
      BY <2>0, <2>1, <1>1, <1>4
    <3>. QED  BY <2>0, <2>1, <3>1, <1>4, <1>5, <1>6
  <2>2. CASE i = Len(h) + 1
    <3>1. ~(i <= Len(h)) /\ i <= Len(h2) /\ i - Len(h) = 1
      BY <2>2, <1>1, <1>4
    <3>. QED  BY <2>0, <2>2, <3>1, <1>4, <1>5, <1>6
  <2>3. CASE i > Len(h) + 1
    <3>1. /\ ~(i <= Len(h)) /\ ~(i <= Len(h2)) /\ i - Len(h2) \in 1 .. Len(t)
          /\ (i - Len(h2)) + 1 = i - Len(h)
      BY <2>0, <2>3, <1>1, <1>2, <1>4
    <3>. QED  BY <2>0, <3>1, <1>2, <1>5, <1>6
  <2>. QED  BY <2>0, <2>1, <2>2, <2>3, <1>1
<1>9. h2 \o t = h \o q
  BY <1>5, <1>6, <1>7, <1>8, SeqEqual
<1>. QED  BY <1>2, <1>4, <1>9 DEF h2, t

(* What the reader held goes to the end of the queue.                      *)
LEMMA Queued ==
    ASSUME NEW S, NEW h \in Seq(S), NEW q \in Seq(S), NEW x \in S
    PROVE  /\ Append(q, x) \in Seq(S)
           /\ (h \o Append(q, x)) \o <<>> = (h \o q) \o <<x>>
<1>1. <<x>> \in Seq(S) /\ Append(q, x) \in Seq(S)
  BY AppendProperties
<1>2. Append(q, x) = q \o <<x>>
  BY AppendIsConcat
<1>3. h \o Append(q, x) \in Seq(S)
  BY <1>1, ConcatProperties
<1>4. (h \o Append(q, x)) \o <<>> = h \o Append(q, x)
  BY <1>3, ConcatEmptySeq
<1>5. (h \o q) \o <<x>> = h \o (q \o <<x>>)
  BY <1>1, ConcatAssociative
<1>. QED  BY <1>1, <1>2, <1>4, <1>5

(* A packet of the next number is put at the end.                          *)
LEMMA Longer ==
    ASSUME NEW s \in Seq(Nat), NEW n \in Nat, Rising(s), UpTo(s, n)
    PROVE  /\ Rising(s \o <<n + 1>>) /\ UpTo(s \o <<n + 1>>, n + 1)
           /\ Len(s \o <<n + 1>>) = Len(s) + 1
<1>. DEFINE u == s \o <<n + 1>>
<1>1. <<n + 1>> \in Seq(Nat) /\ Len(<<n + 1>>) = 1 /\ <<n + 1>>[1] = n + 1
  BY AppendProperties
<1>2. Len(s) \in Nat /\ \A i \in 1 .. Len(s) : s[i] \in Nat
  BY LenProperties, ElementOfSeq
<1>3. /\ Len(u) = Len(s) + 1
      /\ \A i \in 1 .. Len(s) + 1 :
            u[i] = IF i <= Len(s) THEN s[i] ELSE <<n + 1>>[i - Len(s)]
  BY <1>1, ConcatProperties
<1>4. /\ \A i \in 1 .. Len(s) : u[i] = s[i]
      /\ u[Len(s) + 1] = n + 1
  BY <1>1, <1>2, <1>3
<1>. HIDE DEF u
<1>5. Rising(u)
  <2>. SUFFICES ASSUME NEW i \in 1 .. Len(u) - 1 PROVE u[i] < u[i + 1]
    BY DEF Rising
  <2>1. i \in 1 .. Len(s) /\ i \in Nat
    BY <1>2, <1>3
  <2>2. CASE i = Len(s)
    BY <2>1, <2>2, <1>2, <1>4 DEF UpTo
  <2>3. CASE i < Len(s)
    <3>1. i \in 1 .. Len(s) - 1 /\ i + 1 \in 1 .. Len(s)
      BY <2>1, <2>3, <1>2
    <3>. QED  BY <2>1, <3>1, <1>4 DEF Rising
  <2>. QED  BY <2>1, <2>2, <2>3, <1>2
<1>6. UpTo(u, n + 1)
  <2>. SUFFICES ASSUME NEW i \in 1 .. Len(u) PROVE u[i] <= n + 1
    BY DEF UpTo
  <2>1. i \in 1 .. Len(s) \/ i = Len(s) + 1
    BY <1>2, <1>3
  <2>2. CASE i \in 1 .. Len(s)
    <3>1. s[i] \in Nat /\ s[i] <= n
      BY <2>2, <1>2 DEF UpTo
    <3>. QED  BY <2>2, <3>1, <1>4
  <2>. QED  BY <2>1, <2>2, <1>4
<1>. QED  BY <1>3, <1>5, <1>6 DEF u

(* The last packet of the line is shed.                                    *)
LEMMA Shorter ==
    ASSUME NEW s \in Seq(Nat), NEW x \in Nat, NEW n \in Nat,
           Rising(s \o <<x>>), UpTo(s \o <<x>>, n)
    PROVE  Rising(s) /\ UpTo(s, n) /\ Len(s \o <<x>>) = Len(s) + 1
<1>. DEFINE u == s \o <<x>>
<1>1. <<x>> \in Seq(Nat) /\ Len(<<x>>) = 1
  BY AppendProperties
<1>2. Len(s) \in Nat
  BY LenProperties
<1>3. /\ Len(u) = Len(s) + 1
      /\ \A i \in 1 .. Len(s) + 1 :
            u[i] = IF i <= Len(s) THEN s[i] ELSE <<x>>[i - Len(s)]
  BY <1>1, ConcatProperties
<1>4. \A i \in 1 .. Len(s) : u[i] = s[i] /\ i \in 1 .. Len(u)
  BY <1>2, <1>3
<1>5. Rising(u) /\ UpTo(u, n)
  OBVIOUS
<1>. HIDE DEF u
<1>6. UpTo(s, n)
  BY <1>4, <1>5 DEF UpTo
<1>7. ASSUME NEW i \in 1 .. Len(s) - 1 PROVE s[i] < s[i + 1]
  <2>1. i \in 1 .. Len(s) /\ i + 1 \in 1 .. Len(s) /\ i \in 1 .. Len(u) - 1
    BY <1>2, <1>3
  <2>2. u[i] < u[i + 1]
    BY <2>1, <1>5 DEF Rising
  <2>. QED  BY <2>1, <2>2, <1>4
<1>. QED  BY <1>3, <1>6, <1>7 DEF Rising, u

-----------------------------------------------------------------------------
(* Channels.                                                               *)

LEMMA ClosedFits ==
    ASSUME NEW a \in Nat, NEW s \in Nat
    PROVE  Fits(NoChannel, a, s)
<1>1. 0 <= s * SendUnits
  BY Numbers, Products
<1>2. NoChannel \in Slot
  BY Numbers DEF NoChannel, Slot
<1>. QED  BY <1>1, <1>2 DEF Fits, NoChannel

LEMMA ReregisteredFits ==
    ASSUME NEW slot, NEW a \in Nat, NEW s \in Nat, Fits(slot, a, s)
    PROVE  Fits(reregister(slot), a, s)
<1>. DEFINE n == interest(slot)
            f == Ready(slot, n)
<1>1. n \in SUBSET {"readable", "writable"}
  BY DEF interest
<1>2. f \in BOOLEAN
  BY DEF Ready
<1>3. slot \in Slot
  BY DEF Fits
<1>4. reregister(slot) = [slot EXCEPT !.interest = n, !.event = f]
  BY DEF reregister
<1>. HIDE DEF n, f
<1>5. [slot EXCEPT !.interest = n, !.event = f] \in Slot
  BY <1>1, <1>2, <1>3 DEF Slot
<1>. QED  BY <1>3, <1>4, <1>5 DEF Fits, Slot

LEMMA FlushedFits ==
    ASSUME NEW slot, NEW a \in Nat, NEW s \in Nat, Fits(slot, a, s)
    PROVE  Fits(finish_flush(slot), a, s)
<1>. DEFINE all == slot.sealed + slot.pending
            out == Min({all, slot.room})
            left == all - out
            sealed == IF left > 0 THEN 1 ELSE 0
<1>1. slot \in Slot /\ slot.inbound <= a
  BY DEF Fits
<1>2. all \in Nat /\ slot.room \in Nat /\ slot.room <= Room
  BY <1>1, Numbers DEF Slot
<1>3. out \in Nat /\ out <= all /\ out <= slot.room
  BY <1>2, MinOfTwo
<1>4. left \in Nat /\ left <= all /\ slot.room - out \in 0 .. Room
  BY <1>2, <1>3, Numbers
<1>5. sealed \in 0 .. 1 /\ left - sealed \in Nat /\ (left - sealed) + sealed = left
  BY <1>4
<1>6. all <= s * SendUnits /\ s * SendUnits \in Nat
  BY <1>1, Numbers, Products DEF Fits, Slot
<1>7. Flushed(slot) = [slot EXCEPT !.sealed = sealed, !.pending = left - sealed,
                                   !.room = slot.room - out]
  BY DEF Flushed
<1>. HIDE DEF all, out, left, sealed
<1>8. /\ Flushed(slot) \in Slot /\ Flushed(slot).inbound = slot.inbound
      /\ Flushed(slot).pending = left - sealed /\ Flushed(slot).sealed = sealed
  BY <1>1, <1>4, <1>5, <1>7 DEF Slot
<1>9. left <= s * SendUnits
  BY <1>2, <1>4, <1>6
<1>10. Fits(Flushed(slot), a, s)
  BY <1>1, <1>5, <1>8, <1>9 DEF Fits
<1>. QED  BY <1>10, ReregisteredFits DEF finish_flush

(* A send adds its units to the queue of the channel.                      *)
LEMMA SentFits ==
    ASSUME NEW slot, NEW a \in Nat, NEW s \in Nat, Fits(slot, a, s)
    PROVE  Fits([slot EXCEPT !.pending = @ + SendUnits], a, s + 1)
<1>. DEFINE u == [slot EXCEPT !.pending = @ + SendUnits]
<1>1. slot \in Slot /\ slot.pending \in Nat /\ slot.sealed \in 0 .. 1
  BY DEF Fits, Slot
<1>2. s * SendUnits \in Nat /\ (s + 1) * SendUnits = s * SendUnits + SendUnits
  BY Numbers, Products
<1>3. /\ u \in Slot /\ u.inbound = slot.inbound /\ u.sealed = slot.sealed
      /\ u.pending = slot.pending + SendUnits
  BY <1>1, Numbers DEF Slot
<1>. HIDE DEF u
<1>4. slot.pending + slot.sealed <= s * SendUnits
  BY DEF Fits
<1>5. u.pending + u.sealed <= (s + 1) * SendUnits
  BY <1>1, <1>2, <1>3, <1>4, Numbers
<1>6. u.inbound <= a
  BY <1>3 DEF Fits
<1>. QED  BY <1>3, <1>5, <1>6 DEF Fits, u

(* A read takes a unit, of a record taken from the socket if need be.      *)
LEMMA ReadFits ==
    ASSUME NEW slot, NEW a \in Nat, NEW s \in Nat, Fits(slot, a, s),
           slot.decrypted + slot.inbound > 0
    PROVE  Fits(Read(slot), a, s)
<1>1. slot \in Slot /\ slot.inbound <= a
  BY DEF Fits
<1>2. slot.decrypted \in 0 .. RecordUnits /\ slot.inbound \in Nat
  BY <1>1 DEF Slot
<1>3. CASE slot.decrypted > 0
  <2>1. Read(slot) = [slot EXCEPT !.decrypted = slot.decrypted - 1]
    BY <1>3 DEF Read
  <2>2. slot.decrypted - 1 \in 0 .. RecordUnits
    BY <1>2, <1>3, Numbers
  <2>. QED  BY <1>1, <2>1, <2>2 DEF Fits, Slot
<1>4. CASE ~(slot.decrypted > 0)
  <2>1. Read(slot) = [slot EXCEPT !.inbound = slot.inbound - 1,
                                  !.decrypted = RecordUnits - 1]
    BY <1>4 DEF Read
  <2>2. /\ slot.inbound - 1 \in Nat /\ slot.inbound - 1 <= a
        /\ RecordUnits - 1 \in 0 .. RecordUnits
    BY <1>1, <1>2, <1>4, Numbers
  <2>. QED  BY <1>1, <2>1, <2>2 DEF Fits, Slot
<1>. QED  BY <1>3, <1>4

LEMMA AppliedFits ==
    ASSUME NEW slot, NEW a \in Nat, NEW s \in Nat, Fits(slot, a, s),
           NEW effect \in ChannelEffects
    PROVE  Fits(Applied(slot, effect), a, IF effect = "send" THEN s + 1 ELSE s)
<1>1. CASE effect = "send"
  <2>1. Fits([slot EXCEPT !.pending = @ + SendUnits], a, s + 1) /\ s + 1 \in Nat
    BY SentFits
  <2>2. Fits(finish_flush([slot EXCEPT !.pending = @ + SendUnits]), a, s + 1)
    BY <2>1, FlushedFits
  <2>. QED  BY <1>1, <2>2 DEF Applied
<1>2. ASSUME NEW paused \in BOOLEAN
      PROVE  Fits(reregister([slot EXCEPT !.paused = paused]), a, s)
  <2>1. Fits([slot EXCEPT !.paused = paused], a, s)
    BY DEF Fits, Slot
  <2>. QED  BY <2>1, ReregisteredFits
<1>3. CASE effect = "pause"
  BY <1>2, <1>3 DEF Applied
<1>4. CASE effect = "resume"
  BY <1>2, <1>4 DEF Applied
<1>5. CASE effect = "close"
  BY <1>5, ClosedFits DEF Applied
<1>6. CASE effect = "none"
  BY <1>6 DEF Applied
<1>. QED  BY <1>1, <1>3, <1>4, <1>5, <1>6 DEF ChannelEffects

(* An effect of the plane, applied to a channel that fits.                 *)
LEMMA ApplyHereWired ==
    ASSUME NEW slot, arrived \in Nat, arrived <= Records, sent \in Nat,
           sent <= Sends, Fits(slot, arrived, sent), NEW next, NEW over,
           ApplyHere(slot, next, over), arrived' = arrived
    PROVE  Wired'
<1>1. ASSUME NEW effect \in ChannelEffects, effect = "send" => sent < Sends,
             sent' = IF effect = "send" THEN sent + 1 ELSE sent,
             channel' = Applied(slot, effect)
      PROVE  Wired'
  <2>1. Fits(channel', arrived, sent')
    BY <1>1, AppliedFits
  <2>2. sent' \in Nat /\ sent' <= Sends
    BY <1>1, Numbers
  <2>. QED  BY <2>1, <2>2 DEF Wired
<1>2. CASE channel' = slot /\ sent' = sent
  BY <1>2 DEF Wired
<1>. QED  BY <1>1, <1>2 DEF ApplyHere

LEMMA ApplyWired ==
    ASSUME NEW slot, arrived \in Nat, arrived <= Records, sent \in Nat,
           sent <= Sends, Fits(slot, arrived, sent), NEW next, NEW over,
           Apply(slot, next, over), arrived' = arrived
    PROVE  Wired'
<1>1. CASE ApplyHere(slot, next, over)
  BY <1>1, ApplyHereWired
<1>2. CASE channel' = slot /\ sent' = sent
  BY <1>2 DEF Wired
<1>. QED  BY <1>1, <1>2 DEF Apply

(* What it does to the threads.                                            *)
LEMMA ApplyHereThreads ==
    ASSUME NEW slot, NEW next, NEW over, ApplyHere(slot, next, over), Threads
    PROVE  /\ stopped' \in BOOLEAN /\ running' \in BOOLEAN
           /\ closed' \in BOOLEAN /\ waker' \in BOOLEAN /\ (waker => waker')
           /\ \/ at' = next /\ stopped' = stopped
              \/ at' = over /\ waker' = TRUE
  BY DEF ApplyHere, Threads, Fatal

LEMMA ApplyThreads ==
    ASSUME NEW slot, NEW next, NEW over, Apply(slot, next, over), Threads
    PROVE  /\ worker' \in WorkerAt /\ stopped' \in BOOLEAN /\ running' \in BOOLEAN
           /\ closed' \in BOOLEAN /\ waker' \in BOOLEAN /\ (waker => waker')
           /\ \/ at' = next /\ stopped' = stopped
              \/ at' = over /\ waker' = TRUE
<1>1. CASE ApplyHere(slot, next, over) /\ UNCHANGED worker
  BY <1>1, ApplyHereThreads DEF Threads
<1>2. CASE /\ Connecting /\ channel' = slot /\ at' = next
           /\ UNCHANGED <<sent, stopped, running, closed, waker>>
  BY <1>2 DEF Threads, Connecting, WorkerAt
<1>. QED  BY <1>1, <1>2 DEF Apply

-----------------------------------------------------------------------------
(* The three parts, step by step.                                          *)

(* Steps that do not touch the channel.                                    *)
LEMMA SameChannel ==
    ASSUME Wired, UNCHANGED <<channel, arrived, sent>>
    PROVE  Wired'
  BY DEF Wired, Fits

LEMMA NewChannel ==
    ASSUME Wired, Fits(channel', arrived, sent), UNCHANGED <<arrived, sent>>
    PROVE  Wired'
  BY DEF Wired

LEMMA WiredKept == IInv /\ [Next]_vars => Wired'
<1>. SUFFICES ASSUME IInv, [Next]_vars PROVE Wired'
  OBVIOUS
<1>0. /\ Wired /\ arrived \in Nat /\ arrived <= Records /\ sent \in Nat
      /\ sent <= Sends /\ Fits(channel, arrived, sent) /\ channel \in Slot
  BY DEF IInv, Wired, Fits
<1>1. CASE DrainCommand
  <2>. DEFINE fresh == reregister([NoChannel EXCEPT !.open = TRUE])
  <2>1. Fits(NoChannel, arrived, sent)
    BY <1>0, ClosedFits
  <2>2. Fits(fresh, arrived, sent)
    <3>1. Fits([NoChannel EXCEPT !.open = TRUE], arrived, sent)
      BY <2>1 DEF Fits, Slot
    <3>. QED  BY <1>0, <3>1, ReregisteredFits
  <2>. HIDE DEF fresh
  <2>3. \E slot \in {fresh, NoChannel} : ApplyHere(slot, at, at)
    BY <1>1 DEF DrainCommand, fresh
  <2>4. arrived' = arrived
    BY <1>1 DEF DrainCommand
  <2>. QED  BY <1>0, <2>1, <2>2, <2>3, <2>4, ApplyHereWired
<1>2. CASE DrainPacket
  BY <1>0, <1>2, ApplyWired DEF DrainPacket
<1>3. CASE PollReturns
  <2>1. Fits([channel EXCEPT !.event = FALSE], arrived, sent)
    BY <1>0 DEF Fits, Slot
  <2>. QED  BY <1>0, <1>3, <2>1, NewChannel DEF PollReturns
<1>4. CASE PumpRead
  <2>1. Fits(Read(channel), arrived, sent)
    BY <1>0, <1>4, ReadFits DEF PumpRead
  <2>. QED  BY <1>0, <1>4, <2>1, ApplyWired DEF PumpRead
<1>5. CASE PumpEnd \/ PumpFails \/ Joined
  <2>1. Fits(NoChannel, arrived, sent)
    BY <1>0, ClosedFits
  <2>2. CASE PumpEnd \/ PumpFails
    BY <1>0, <2>1, <2>2, ApplyWired DEF PumpEnd, PumpFails
  <2>3. CASE Joined
    BY <1>0, <2>1, <2>3, NewChannel DEF Joined
  <2>. QED  BY <1>5, <2>2, <2>3
<1>6. CASE PumpFlush
  <2>1. Fits(channel', arrived, sent)
    BY <1>0, <1>6, FlushedFits DEF PumpFlush
  <2>. QED  BY <1>0, <1>6, <2>1, NewChannel DEF PumpFlush
<1>7. CASE Tick
  BY <1>0, <1>7, ApplyWired DEF Tick
<1>8. CASE Arrives
  <2>. DEFINE n == channel.inbound + 1
              e == channel.event \/ "readable" \in channel.interest
  <2>1. channel' = [channel EXCEPT !.inbound = n, !.event = e]
    BY <1>8 DEF Arrives
  <2>2. n \in Nat /\ n <= arrived + 1 /\ e \in BOOLEAN
    BY <1>0 DEF Fits, Slot
  <2>. HIDE DEF n, e
  <2>3. Fits(channel', arrived + 1, sent)
    BY <1>0, <2>1, <2>2 DEF Fits, Slot
  <2>4. arrived + 1 \in Nat /\ arrived + 1 <= Records
    BY <1>0, <1>8, Numbers DEF Arrives
  <2>. QED  BY <1>0, <1>8, <2>3, <2>4 DEF Wired, Arrives
<1>9. CASE PeerEnds
  <2>. DEFINE e == channel.event \/ "readable" \in channel.interest
  <2>1. channel' = [channel EXCEPT !.eof = TRUE, !.event = e] /\ e \in BOOLEAN
    BY <1>0, <1>9 DEF PeerEnds, Slot
  <2>. HIDE DEF e
  <2>2. Fits(channel', arrived, sent)
    BY <1>0, <2>1 DEF Fits, Slot
  <2>. QED  BY <1>0, <1>9, <2>2, NewChannel DEF PeerEnds
<1>10. CASE PeerReads
  <2>. DEFINE e == channel.event \/ "writable" \in channel.interest
  <2>1. /\ channel' = [channel EXCEPT !.room = Room, !.event = e]
        /\ e \in BOOLEAN /\ Room \in 0 .. Room
    BY <1>0, <1>10, Numbers DEF PeerReads, Slot
  <2>. HIDE DEF e
  <2>2. Fits(channel', arrived, sent)
    BY <1>0, <2>1 DEF Fits, Slot
  <2>. QED  BY <1>0, <1>10, <2>2, NewChannel DEF PeerReads
<1>11. CASE \/ CommandsDrained \/ PacketsDrained \/ PacketsLeft \/ Continue
            \/ Finish \/ PollFails
  BY <1>0, <1>11, SameChannel DEF CommandsDrained, PacketsDrained, PacketsLeft,
     Continue, Finish, PollFails, socket
<1>12. CASE \/ ReadPacket \/ Reading \/ ConnectEnds \/ ConnectWakes \/ StopFlag
            \/ StopCalled \/ UNCHANGED vars
  BY <1>0, <1>12, SameChannel DEF ReadPacket, Reading, SendPacket, ReaderWakes,
     ReaderEnds, ConnectEnds, ConnectWakes, StopFlag, StopCalled, StopDevice,
     StopWakes, vars, socket
<1>. QED  BY <1>1, <1>2, <1>3, <1>4, <1>5, <1>6, <1>7, <1>8, <1>9, <1>10, <1>11,
             <1>12 DEF Next, Looping

(* The loop never takes more than it may where it is.                      *)
LEMMA BudgetLeft ==
    /\ 0 <= Most /\ MaxPackets <= Most /\ MaxReads <= Most
    /\ MaxPackets \in Nat /\ MaxReads \in Nat /\ 0 \in Nat
    /\ Threads /\ budget > 0 => budget - 1 \in Nat /\ budget - 1 <= Most
<1>1. Most \in Nat /\ MaxPackets <= Most /\ MaxReads <= Most
  BY Numbers, MaxOfTwo DEF Most
<1>2. Threads => budget \in Nat /\ budget <= Most
  BY DEF Threads
<1>. QED  BY <1>1, <1>2, Numbers

(* Steps of the loop: where they lead, what they leave to take.            *)
LEMMA LoopStep ==
    ASSUME Threads, at' \in Places, budget' \in Nat, budget' <= Most,
           again' \in BOOLEAN, UNCHANGED <<bounds, stopper>>,
           stopped' \in BOOLEAN, running' \in BOOLEAN, closed' \in BOOLEAN,
           waker' \in BOOLEAN, worker' \in WorkerAt
    PROVE  Threads'
  BY DEF Threads

(* Steps of the other threads.                                             *)
LEMMA OtherStep ==
    ASSUME Threads, UNCHANGED <<bounds, at, again, budget, stopped>>,
           running' \in BOOLEAN, closed' \in BOOLEAN, waker' \in BOOLEAN,
           worker' \in WorkerAt, stopper' \in StopperAt
    PROVE  Threads'
  BY DEF Threads

LEMMA ThreadsKept == IInv /\ [Next]_vars => Threads'
<1>. SUFFICES ASSUME Threads, [Next]_vars PROVE Threads'
  BY DEF IInv
<1>0. /\ stopped \in BOOLEAN /\ running \in BOOLEAN /\ closed \in BOOLEAN
      /\ waker \in BOOLEAN /\ worker \in WorkerAt /\ stopper \in StopperAt
      /\ at \in Places /\ again \in BOOLEAN
  BY DEF Threads
<1>1. CASE DrainCommand
  <2>1. worker' \in WorkerAt /\ budget' = 0 /\ UNCHANGED <<lap, stopper>>
    BY <1>1 DEF DrainCommand, WorkerAt
  <2>2. \E slot : ApplyHere(slot, at, at)
    BY <1>1 DEF DrainCommand
  <2>3. /\ stopped' \in BOOLEAN /\ running' \in BOOLEAN
        /\ closed' \in BOOLEAN /\ waker' \in BOOLEAN /\ at' = at
    BY <2>2, ApplyHereThreads
  <2>. QED  BY <1>0, <2>1, <2>3, BudgetLeft, LoopStep DEF lap
<1>2. CASE CommandsDrained
  <2>1. at' \in Places /\ budget' = MaxPackets
    BY <1>2 DEF CommandsDrained, Goto, Places
  <2>. QED  BY <1>0, <1>2, <2>1, BudgetLeft, LoopStep
            DEF CommandsDrained, device, lap, socket
<1>3. CASE PacketsDrained \/ PacketsLeft
  <2>1. at' \in Places /\ budget' = 0
    BY <1>3 DEF PacketsDrained, PacketsLeft, Goto, Next_place, Places
  <2>2. waker' \in BOOLEAN /\ UNCHANGED <<lap, stopped, running, device, socket, stopper>>
    BY <1>0, <1>3 DEF PacketsDrained, PacketsLeft
  <2>. QED  BY <1>0, <2>1, <2>2, BudgetLeft, LoopStep DEF device, lap, socket
<1>4. CASE DrainPacket
  <2>1. budget' \in Nat /\ budget' <= Most
    BY <1>4, BudgetLeft DEF DrainPacket
  <2>. DEFINE next == IF stopped THEN Next_place ELSE "packets"
  <2>2. Next_place \in Places /\ next \in Places
    BY DEF Next_place, Places
  <2>4. Apply(channel, next, Next_place)
    BY <1>4 DEF DrainPacket
  <2>. HIDE DEF next
  <2>3. /\ worker' \in WorkerAt /\ stopped' \in BOOLEAN /\ running' \in BOOLEAN
        /\ closed' \in BOOLEAN /\ waker' \in BOOLEAN /\ at' \in Places
    BY <2>2, <2>4, ApplyThreads
  <2>. QED  BY <1>0, <1>4, <2>1, <2>3, LoopStep DEF DrainPacket, lap
<1>5. CASE PollReturns
  <2>1. at' \in Places /\ (budget' = MaxReads \/ budget' = 0)
    BY <1>5 DEF PollReturns, Goto, Places
  <2>. QED  BY <1>0, <1>5, <2>1, BudgetLeft, LoopStep DEF PollReturns, device
<1>6. CASE PollFails
  <2>1. at' \in Places /\ budget' = 0
    BY <1>6 DEF PollFails, Goto, Places
  <2>2. /\ stopped' \in BOOLEAN /\ running' \in BOOLEAN /\ closed' \in BOOLEAN
        /\ waker' \in BOOLEAN
    BY <1>6 DEF PollFails, Fatal
  <2>3. UNCHANGED <<lap, socket, stopper>>
    BY <1>6 DEF PollFails
  <2>. QED  BY <1>0, <2>1, <2>2, <2>3, BudgetLeft, LoopStep DEF lap, socket
<1>7. CASE PumpRead
  <2>1. budget' \in Nat /\ budget' <= Most
    BY <1>7, BudgetLeft DEF PumpRead, Readable
  <2>. DEFINE next == IF stopped THEN "commands" ELSE "pump"
  <2>2. "commands" \in Places /\ next \in Places
    BY DEF Places
  <2>4. Apply(Read(channel), next, "commands")
    BY <1>7 DEF PumpRead
  <2>. HIDE DEF next
  <2>3. /\ worker' \in WorkerAt /\ stopped' \in BOOLEAN /\ running' \in BOOLEAN
        /\ closed' \in BOOLEAN /\ waker' \in BOOLEAN /\ at' \in Places
    BY <2>2, <2>4, ApplyThreads
  <2>. QED  BY <1>0, <1>7, <2>1, <2>3, LoopStep DEF PumpRead, lap
<1>8. CASE PumpEnd \/ PumpFails \/ PumpFlush
  <2>1. CASE PumpFlush
    <3>1. at' \in Places /\ budget' = 0
      BY <2>1 DEF PumpFlush, Goto, Places
    <3>2. UNCHANGED <<lap, stopped, running, waker, device, worker, stopper>>
      BY <2>1 DEF PumpFlush
    <3>. QED  BY <1>0, <3>1, <3>2, BudgetLeft, LoopStep DEF device, lap
  <2>2. CASE PumpEnd \/ PumpFails
    <3>1. /\ Apply(NoChannel, "commands", "commands") /\ budget' = 0
          /\ UNCHANGED <<lap, stopper>>
      BY <2>2 DEF PumpEnd, PumpFails
    <3>2. /\ worker' \in WorkerAt /\ stopped' \in BOOLEAN /\ running' \in BOOLEAN
          /\ closed' \in BOOLEAN /\ waker' \in BOOLEAN /\ at' = "commands"
      BY <3>1, ApplyThreads
    <3>3. at' \in Places
      BY <3>2 DEF Places
    <3>. QED  BY <3>1, <3>2, <3>3, <1>0, BudgetLeft, LoopStep DEF lap
  <2>. QED  BY <1>8, <2>1, <2>2
<1>9. CASE Tick
  <2>1. /\ worker' \in WorkerAt /\ stopped' \in BOOLEAN /\ running' \in BOOLEAN
        /\ closed' \in BOOLEAN /\ waker' \in BOOLEAN /\ at' = "check"
    BY <1>9, ApplyThreads DEF Tick
  <2>2. at' \in Places /\ budget' = 0
    BY <1>9, <2>1 DEF Places, Tick
  <2>. QED  BY <1>0, <1>9, <2>1, <2>2, BudgetLeft, LoopStep DEF Tick, lap
<1>10. CASE Continue
  <2>1. at' \in Places /\ budget' = 0
    BY <1>10 DEF Continue, Goto, Places
  <2>. QED  BY <1>0, <1>10, <2>1, BudgetLeft, LoopStep DEF Continue, device, socket
<1>11. CASE Finish
  <2>1. at' \in Places /\ budget' = 0
    BY <1>11 DEF Finish, Goto, Places
  <2>. QED  BY <1>0, <1>11, <2>1, BudgetLeft, LoopStep DEF Finish, device, lap, socket
<1>12. CASE Joined
  <2>1. at' \in Places /\ budget' = 0
    BY <1>12 DEF Joined, Goto, Places
  <2>. QED  BY <1>0, <1>12, <2>1, BudgetLeft, LoopStep DEF Joined, device, lap
<1>13. CASE ReadPacket \/ SendPacket \/ ReaderWakes \/ ReaderEnds
  <2>1. waker' \in BOOLEAN
    BY <1>0, <1>13 DEF ReadPacket, SendPacket, ReaderWakes, ReaderEnds
  <2>2. UNCHANGED <<loop, running, closed, socket, stopper>>
    BY <1>13 DEF ReadPacket, SendPacket, ReaderWakes, ReaderEnds
  <2>. QED  BY <1>0, <2>1, <2>2, OtherStep DEF loop, lap, socket
<1>14. CASE ConnectEnds \/ ConnectWakes
  <2>1. waker' \in BOOLEAN /\ worker' \in WorkerAt
    BY <1>0, <1>14 DEF ConnectEnds, ConnectWakes, WorkerAt, socket
  <2>2. UNCHANGED <<loop, running, device, stopper>>
    BY <1>14 DEF ConnectEnds, ConnectWakes
  <2>. QED  BY <1>0, <2>1, <2>2, OtherStep DEF loop, lap, device
<1>15. CASE StopFlag \/ StopDevice \/ StopWakes
  <2>1. /\ running' \in BOOLEAN /\ closed' \in BOOLEAN /\ waker' \in BOOLEAN
        /\ stopper' \in StopperAt
    BY <1>0, <1>15 DEF StopFlag, StopDevice, StopWakes, StopperAt, device
  <2>2. UNCHANGED <<loop, socket>>
    BY <1>15 DEF StopFlag, StopDevice, StopWakes
  <2>. QED  BY <1>0, <2>1, <2>2, OtherStep DEF loop, lap, socket
<1>16. CASE Arrives \/ PeerEnds \/ PeerReads \/ UNCHANGED vars
  <2>1. UNCHANGED <<loop, running, waker, device, worker, stopper>>
    BY <1>16 DEF Arrives, PeerEnds, PeerReads, vars, socket
  <2>. QED  BY <1>0, <2>1, OtherStep DEF loop, lap, device
<1>. QED  BY <1>1, <1>2, <1>3, <1>4, <1>5, <1>6, <1>7, <1>8, <1>9, <1>10, <1>11,
             <1>12, <1>13, <1>14, <1>15, <1>16
          DEF Next, Looping, Reading, StopCalled

-----------------------------------------------------------------------------
(* Steps that leave the packets where they are.                            *)
LEMMA SamePackets ==
    ASSUME Packets, UNCHANGED <<bounds, taken, queue, handled, dropped>>,
           \/ reader' = reader
           \/ /\ reader.at # "send" /\ reader'.at \in {"read", "ended"}
              /\ reader' = [at |-> reader'.at, packet |-> 0]
    PROVE  Packets'
<1>1. CASE reader' = reader
  <2>1. Packet' = Packet /\ Held' = Held /\ Line' = Line
    BY <1>1 DEF Packet, Held, Line
  <2>. QED  BY <1>1, <2>1 DEF Packets
<1>2. CASE /\ reader.at # "send" /\ reader'.at \in {"read", "ended"}
           /\ reader' = [at |-> reader'.at, packet |-> 0]
  <2>1. Packet' = Packet /\ Held' = Held /\ Line' = Line
    BY <1>2 DEF Packet, Held, Line
  <2>2. /\ reader' \in [at : {"read", "send", "wake", "ended"},
                        packet : 0 .. bounds.packets]
        /\ reader'.at \in {"read", "send", "wake", "ended"}
        /\ reader'.at # "send"
    BY <1>2 DEF Packets
  <2>. QED  BY <2>1, <2>2 DEF Packets
<1>. QED  BY <1>1, <1>2

(* The line, and its parts, are packets.                                   *)
LEMMA Lines ==
    ASSUME Packets
    PROVE  /\ handled \in Seq(Packet) /\ queue \in Seq(Packet)
           /\ handled \o queue \in Seq(Packet) /\ Packet \subseteq Nat
           /\ handled \o queue \in Seq(Nat)
           /\ reader.at # "send" => Line = handled \o queue
           /\ reader.at = "send" => /\ reader.packet \in Packet
                                    /\ Line = (handled \o queue) \o <<reader.packet>>
<1>1. /\ handled \in Seq(Packet) /\ queue \in Seq(Packet) /\ Packet \subseteq Nat
      /\ reader.at = "send" => reader.packet \in Packet
  BY DEF Packets, Packet
<1>2. handled \o queue \in Seq(Packet)
  BY <1>1, ConcatProperties
<1>3. handled \o queue \in Seq(Nat)
  BY <1>1, <1>2, SeqMonotonic
<1>4. (handled \o queue) \o <<>> = handled \o queue
  BY <1>2, ConcatEmptySeq
<1>. QED  BY <1>1, <1>2, <1>3, <1>4 DEF Line, Held

(* The reader takes the next packet.                                       *)
LEMMA PacketRead == ASSUME Packets, ReadPacket PROVE Packets'
<1>. DEFINE s == handled \o queue
            n == taken + 1
<1>1. /\ s \in Seq(Nat) /\ Line = s /\ Rising(s) /\ UpTo(s, taken)
      /\ Len(s) + dropped = taken /\ taken \in Nat /\ dropped \in Nat
  <2>1. s \in Seq(Nat) /\ Line = s
    BY Lines DEF ReadPacket
  <2>2. taken \in 0 .. bounds.packets /\ bounds.packets \in Nat
    BY DEF Packets
  <2>3. taken \in Nat
    BY <2>2
  <2>4. Rising(Line) /\ UpTo(Line, taken) /\ Len(Line) + dropped = taken
        /\ dropped \in Nat
    BY DEF Packets
  <2>. QED  BY <2>1, <2>3, <2>4
<1>2. /\ reader' = [at |-> "send", packet |-> n] /\ taken' = n
      /\ n \in 1 .. bounds.packets /\ n \in 0 .. bounds.packets
      /\ bounds.packets \in Nat
  BY DEF ReadPacket, Packets
<1>3. UNCHANGED <<bounds, queue, handled, dropped>>
  BY DEF ReadPacket, loop, lap
<1>4. Line' = s \o <<n>> /\ Packet' = Packet
  BY <1>2, <1>3 DEF Line, Held, Packet
<1>5. Rising(s \o <<n>>) /\ UpTo(s \o <<n>>, n) /\ Len(s \o <<n>>) = Len(s) + 1
  BY <1>1, Longer
<1>6. Len(s) \in Nat /\ Len(s) + 1 + dropped = n
  BY <1>1, LenProperties
<1>. HIDE DEF s, n
<1>7. Rising(Line') /\ UpTo(Line', taken') /\ Len(Line') + dropped' = taken'
  BY <1>2, <1>3, <1>4, <1>5, <1>6
<1>8. /\ reader'.at = "send" /\ reader'.packet \in Packet'
      /\ reader' \in [at : {"read", "send", "wake", "ended"},
                      packet : 0 .. bounds.packets]
  BY <1>2, <1>4 DEF Packet
<1>9. queue' \in Seq(Packet') /\ handled' \in Seq(Packet')
  BY <1>3, <1>4 DEF Packets
<1>10. bounds'.packets \in Nat /\ taken' \in 0 .. bounds'.packets /\ dropped' \in Nat
  BY <1>1, <1>2, <1>3
<1>. QED  BY <1>3, <1>7, <1>8, <1>9, <1>10 DEF Packets

(* It queues the packet, or sheds it when the queue is full.               *)
LEMMA PacketSent == ASSUME Packets, SendPacket PROVE Packets'
<1>. DEFINE s == handled \o queue
            x == reader.packet
<1>1. /\ x \in Packet /\ Line = s \o <<x>> /\ handled \in Seq(Packet)
      /\ queue \in Seq(Packet) /\ s \in Seq(Nat) /\ x \in Nat
  BY Lines DEF SendPacket
<1>2. /\ Rising(s \o <<x>>) /\ UpTo(s \o <<x>>, taken)
      /\ Len(s \o <<x>>) + dropped = taken /\ taken \in Nat /\ dropped \in Nat
  BY <1>1 DEF Packets
<1>3. UNCHANGED <<bounds, taken, handled>> /\ Packet' = Packet
  BY DEF SendPacket, loop, lap, Packet
<1>4. CASE /\ queue' = Append(queue, x) /\ dropped' = dropped
           /\ reader' = [at |-> "wake", packet |-> 0]
  <2>1. /\ queue' \in Seq(Packet)
        /\ (handled \o queue') \o <<>> = s \o <<x>>
    BY <1>1, <1>4, Queued
  <2>2. Line' = s \o <<x>>
    BY <1>3, <1>4, <2>1 DEF Line, Held
  <2>3. /\ reader' \in [at : {"read", "send", "wake", "ended"},
                        packet : 0 .. bounds.packets]
        /\ reader'.at = "wake"
    BY <1>4 DEF Packets
  <2>. HIDE DEF s, x
  <2>4. Rising(Line') /\ UpTo(Line', taken') /\ Len(Line') + dropped' = taken'
    BY <1>2, <1>3, <1>4, <2>2
  <2>. QED  BY <1>1, <1>3, <1>4, <2>1, <2>3, <2>4 DEF Packets
<1>5. CASE /\ queue' = queue /\ dropped' = dropped + 1
           /\ reader' = [at |-> "read", packet |-> 0]
  <2>1. Rising(s) /\ UpTo(s, taken) /\ Len(s \o <<x>>) = Len(s) + 1
    BY <1>1, <1>2, Shorter
  <2>2. Len(s) \in Nat /\ Len(s) + (dropped + 1) = taken /\ dropped + 1 \in Nat
    BY <1>1, <1>2, <2>1, LenProperties
  <2>3. Line' = s
    <3>1. s \o <<>> = s
      BY <1>1, ConcatEmptySeq
    <3>. QED  BY <1>3, <1>5, <3>1 DEF Line, Held
  <2>4. /\ reader' \in [at : {"read", "send", "wake", "ended"},
                        packet : 0 .. bounds.packets]
        /\ reader'.at = "read"
    BY <1>5 DEF Packets
  <2>. HIDE DEF s, x
  <2>5. Rising(Line') /\ UpTo(Line', taken') /\ Len(Line') + dropped' = taken'
    BY <1>3, <1>5, <2>1, <2>2, <2>3
  <2>. QED  BY <1>1, <1>3, <1>5, <2>2, <2>4, <2>5 DEF Packets
<1>. QED  BY <1>4, <1>5 DEF SendPacket, Shed

(* The loop hands the oldest packet to the plane.                          *)
LEMMA PacketDrained == ASSUME Packets, DrainPacket PROVE Packets'
<1>1. /\ handled \in Seq(Packet) /\ queue \in Seq(Packet) /\ queue # <<>>
  BY DEF Packets, DrainPacket
<1>2. /\ handled' = Append(handled, Head(queue)) /\ queue' = Tail(queue)
      /\ UNCHANGED <<bounds, reader, taken, dropped>>
  BY DEF DrainPacket, lap
<1>3. /\ handled' \in Seq(Packet) /\ queue' \in Seq(Packet)
      /\ handled' \o queue' = handled \o queue
  BY <1>1, <1>2, MovedUp
<1>4. Line' = Line /\ Packet' = Packet
  BY <1>2, <1>3 DEF Line, Held, Packet
<1>. QED  BY <1>2, <1>3, <1>4 DEF Packets

LEMMA PacketsKept == IInv /\ [Next]_vars => Packets'
<1>. SUFFICES ASSUME Packets, [Next]_vars PROVE Packets'
  BY DEF IInv
<1>1. CASE ReaderEnds
  BY <1>1, SamePackets DEF ReaderEnds, loop, lap
<1>2. CASE ReaderWakes
  BY <1>2, SamePackets DEF ReaderWakes, loop, lap
<1>3. CASE \/ DrainCommand \/ CommandsDrained \/ PacketsDrained \/ PacketsLeft
           \/ PollReturns \/ PollFails \/ PumpRead \/ PumpEnd \/ PumpFlush
           \/ PumpFails
  <2>1. UNCHANGED <<bounds, taken, queue, handled, dropped, reader>>
    BY <1>3 DEF DrainCommand, CommandsDrained, PacketsDrained, PacketsLeft,
       PollReturns, PollFails, PumpRead, PumpEnd, PumpFlush, PumpFails, lap, device
  <2>. QED  BY <2>1, SamePackets
<1>4. CASE \/ Tick \/ Continue \/ Finish \/ Joined \/ ConnectEnds \/ ConnectWakes
           \/ StopFlag \/ StopDevice \/ StopWakes
  <2>1. UNCHANGED <<bounds, taken, queue, handled, dropped, reader>>
    BY <1>4 DEF Tick, Continue, Finish, Joined, ConnectEnds, ConnectWakes,
       StopFlag, StopDevice, StopWakes, loop, lap, device
  <2>. QED  BY <2>1, SamePackets
<1>5. CASE Arrives \/ PeerEnds \/ PeerReads \/ UNCHANGED vars
  <2>1. UNCHANGED <<bounds, taken, queue, handled, dropped, reader>>
    BY <1>5 DEF Arrives, PeerEnds, PeerReads, vars, loop, lap, device
  <2>. QED  BY <2>1, SamePackets
<1>. QED  BY <1>1, <1>2, <1>3, <1>4, <1>5, PacketRead, PacketSent, PacketDrained
          DEF Next, Looping, Reading, StopCalled

-----------------------------------------------------------------------------
(* Steps that neither move the loop nor use up a wake.                     *)
LEMMA StillAwake ==
    ASSUME Awake, UNCHANGED <<at, again, stopped>>, waker => waker',
           \/ waker'
           \/ queue' = queue /\ (reader.at = "wake" => reader'.at = "wake")
           \/ reader'.at = "wake"
    PROVE  Awake'
  BY DEF Awake

LEMMA AwakeKept == IInv /\ [Next]_vars => Awake'
<1>. SUFFICES ASSUME Awake, Threads, [Next]_vars PROVE Awake'
  BY DEF IInv
<1>1. CASE DrainCommand
  <2>1. at = "commands" /\ UNCHANGED <<lap, reader, queue>>
    BY <1>1 DEF DrainCommand
  <2>2. at' = at /\ (waker => waker') /\ (stopped' = stopped \/ waker')
    <3>1. \E slot : ApplyHere(slot, at, at)
      BY <1>1 DEF DrainCommand
    <3>. QED  BY <3>1, ApplyHereThreads
  <2>. QED  BY <2>1, <2>2 DEF Awake, lap
<1>2. CASE CommandsDrained
  BY <1>2 DEF CommandsDrained, Goto, Awake, lap
<1>3. CASE PacketsDrained
  BY <1>3 DEF PacketsDrained, Goto, Next_place, Awake, lap, device
<1>4. CASE PacketsLeft
  BY <1>4 DEF PacketsLeft, Goto, Next_place, Awake, lap
<1>5. CASE DrainPacket
  <2>. DEFINE next == IF stopped THEN Next_place ELSE "packets"
  <2>1. Apply(channel, next, Next_place) /\ again' = again /\ at = "packets"
    BY <1>5 DEF DrainPacket, lap
  <2>2. /\ waker => waker'
        /\ \/ at' = next /\ stopped' = stopped
           \/ at' = Next_place /\ waker'
    <3>. HIDE DEF next
    <3>. QED  BY <2>1, ApplyThreads
  <2>. QED  BY <2>1, <2>2 DEF Awake, Next_place
<1>6. CASE PollReturns
  BY <1>6 DEF PollReturns, Goto, Awake
<1>7. CASE PumpRead
  <2>. DEFINE next == IF stopped THEN "commands" ELSE "pump"
  <2>1. Apply(Read(channel), next, "commands") /\ again' = again /\ at = "pump"
    BY <1>7 DEF PumpRead, lap
  <2>2. at' \in {"commands", "pump"}
    <3>1. at' = next \/ at' = "commands"
      <4>. HIDE DEF next
      <4>. QED  BY <2>1, ApplyThreads
    <3>. QED  BY <3>1
  <2>. QED  BY <2>1, <2>2 DEF Awake
<1>8. CASE PumpEnd \/ PumpFails \/ PumpFlush
  <2>1. CASE PumpFlush
    BY <2>1 DEF PumpFlush, Goto, Awake, lap
  <2>2. CASE PumpEnd \/ PumpFails
    <3>1. /\ Apply(NoChannel, "commands", "commands") /\ at = "pump"
          /\ again' = again
      BY <2>2 DEF PumpEnd, PumpFails, lap
    <3>2. at' = "commands"
      BY <3>1, ApplyThreads
    <3>. QED  BY <3>1, <3>2 DEF Awake
  <2>. QED  BY <1>8, <2>1, <2>2
<1>9. CASE Tick
  <2>1. at' = "check"
    BY <1>9, ApplyThreads DEF Tick
  <2>. QED  BY <2>1 DEF Awake
<1>10. CASE Continue
  BY <1>10 DEF Continue, Goto, Awake
<1>11. CASE Finish \/ Joined \/ PollFails
  BY <1>11 DEF Finish, Joined, PollFails, Goto, Awake
<1>12. CASE ReadPacket \/ ReaderEnds
  <2>1. /\ UNCHANGED <<at, again, stopped, waker, queue>>
        /\ reader.at # "wake"
    BY <1>12 DEF ReadPacket, ReaderEnds, loop, lap
  <2>. QED  BY <2>1, StillAwake
<1>13. CASE ReaderWakes
  <2>1. UNCHANGED <<at, again, stopped>> /\ waker'
    BY <1>13 DEF ReaderWakes, loop, lap
  <2>. QED  BY <2>1, StillAwake
<1>14. CASE SendPacket
  <2>1. /\ UNCHANGED <<at, again, stopped, waker>> /\ reader.at # "wake"
        /\ reader'.at = "wake" \/ queue' = queue
    BY <1>14 DEF SendPacket, Shed, loop, lap
  <2>. QED  BY <2>1, StillAwake
<1>15. CASE ConnectEnds \/ StopFlag \/ StopDevice
  <2>1. UNCHANGED <<at, again, stopped, waker, queue, reader>>
    BY <1>15 DEF ConnectEnds, StopFlag, StopDevice, loop, lap, device
  <2>. QED  BY <2>1, StillAwake
<1>16. CASE ConnectWakes \/ StopWakes
  <2>1. UNCHANGED <<at, again, stopped>> /\ waker'
    BY <1>16 DEF ConnectWakes, StopWakes, loop, lap
  <2>. QED  BY <2>1, StillAwake
<1>17. CASE Arrives \/ PeerEnds \/ PeerReads \/ UNCHANGED vars
  <2>1. UNCHANGED <<at, again, stopped, waker, queue, reader>>
    BY <1>17 DEF Arrives, PeerEnds, PeerReads, vars, loop, lap, device
  <2>. QED  BY <2>1, StillAwake
<1>. QED  BY <1>1, <1>2, <1>3, <1>4, <1>5, <1>6, <1>7, <1>8, <1>9, <1>10, <1>11,
             <1>12, <1>13, <1>14, <1>15, <1>16, <1>17
          DEF Next, Looping, Reading, StopCalled

-----------------------------------------------------------------------------
LEMMA InitSound == Init => IInv
<1>. SUFFICES ASSUME Init PROVE IInv
  OBVIOUS
<1>1. bounds \in Bound /\ bounds.packets \in Nat
  BY Numbers DEF Init, Bound
<1>2. Threads
  BY <1>1, BudgetLeft DEF Init, Threads, Places, WorkerAt, StopperAt
<1>3. Packets
  <2>1. <<>> \in Seq(Packet) /\ <<>> \in Seq(Nat) /\ Len(<<>>) = 0
    BY EmptySeq
  <2>2. Held = <<>> /\ handled = <<>> /\ queue = <<>>
    BY DEF Init, Held
  <2>3. Line = <<>>
    BY <2>1, <2>2, ConcatEmptySeq DEF Line
  <2>4. Rising(Line) /\ UpTo(Line, 0) /\ Len(Line) = 0
    BY <2>1, <2>3 DEF Rising, UpTo
  <2>5. /\ reader \in [at : {"read", "send", "wake", "ended"},
                       packet : 0 .. bounds.packets]
        /\ reader.at = "read"
    BY <1>1 DEF Init
  <2>6. taken = 0 /\ dropped = 0
    BY DEF Init
  <2>. QED  BY <1>1, <2>1, <2>2, <2>4, <2>5, <2>6 DEF Packets
<1>4. Awake
  BY DEF Init, Awake
<1>5. Wired
  BY Numbers, ClosedFits DEF Init, Wired
<1>. QED  BY <1>2, <1>3, <1>4, <1>5 DEF IInv

LEMMA Invariant == Spec => []IInv
<1>1. IInv /\ [Next]_vars => IInv'
  BY ThreadsKept, PacketsKept, AwakeKept, WiredKept DEF IInv
<1>. QED  BY <1>1, InitSound, PTL DEF Spec

(* The types, of which the bound of a channel's queue needs the most.      *)
LEMMA Types == IInv => TypeOK
<1>. SUFFICES ASSUME IInv PROVE TypeOK
  OBVIOUS
<1>1. budget \in 0 .. Max({MaxPackets, MaxReads})
  BY Numbers, MaxOfTwo DEF IInv, Threads, Most
<1>2. /\ arrived \in 0 .. Records /\ sent \in 0 .. Sends /\ channel \in Slot
      /\ channel.inbound <= Records
  BY Numbers DEF IInv, Wired, Fits, Slot
<1>3. channel.pending \in Nat /\ channel.pending <= Sends * SendUnits
      /\ Sends * SendUnits \in Nat
  <2>1. /\ sent * SendUnits \in Nat /\ Sends * SendUnits \in Nat
        /\ sent * SendUnits <= Sends * SendUnits
    BY Numbers, Products DEF IInv, Wired
  <2>2. /\ channel.pending \in Nat /\ channel.sealed \in 0 .. 1
        /\ channel.pending + channel.sealed <= sent * SendUnits
    BY <1>2 DEF IInv, Wired, Fits, Slot
  <2>. QED  BY <2>1, <2>2
<1>4. channel.inbound \in 0 .. Records /\ channel.pending \in 0 .. Sends * SendUnits
  BY <1>2, <1>3, Numbers DEF Slot
<1>5. channel \in [open : BOOLEAN, paused : BOOLEAN, inbound : 0 .. Records,
                   decrypted : 0 .. RecordUnits, eof : BOOLEAN,
                   pending : 0 .. Sends * SendUnits, sealed : 0 .. 1,
                   room : 0 .. Room, event : BOOLEAN,
                   interest : SUBSET {"readable", "writable"}]
  BY ONLY <1>2, <1>4 DEF Slot
<1>6. dropped \in 0 .. bounds.packets
  <2>1. Line \in Seq(Nat)
    <3>1. Held \in Seq(Nat) /\ handled \o queue \in Seq(Nat)
      BY Lines DEF IInv, Held
    <3>. QED  BY <3>1, ConcatProperties DEF Line
  <2>. QED  BY <2>1, LenProperties DEF IInv, Packets
<1>7. {queue, handled} \subseteq Seq(1 .. bounds.packets)
  BY DEF IInv, Packets, Packet
<1>. QED  BY <1>1, <1>2, <1>5, <1>6, <1>7
          DEF TypeOK, IInv, Threads, Packets, Places, WorkerAt, StopperAt

(* A packet of the device reaches the plane once and in its order, waits,  *)
(* or is counted as shed, however the reader and the loop interleave       *)
(* (spawn_reader and drain_packets, host.rs).                              *)
THEOREM NoPacketLost == Spec => []PacketsAccounted
<1>1. IInv => PacketsAccounted
  BY Types DEF PacketsAccounted, IInv, Packets, Rising, Line, Held
<1>. QED  BY <1>1, Invariant, PTL

(* The loop does not sleep in its poll on packets that wait: a wake is due *)
(* or on its way, also when it took all it may take before the poll or     *)
(* was stopped by an effect of the plane (run and drain_packets, host.rs). *)
THEOREM SleepsDry == Spec => []AsleepMeansDry
<1>1. IInv => AsleepMeansDry
  BY DEF IInv, Awake, AsleepMeansDry
<1>. QED  BY <1>1, Invariant, PTL
=============================================================================
