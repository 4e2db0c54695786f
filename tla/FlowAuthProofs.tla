--------------------------- MODULE FlowAuthProofs ---------------------------
(***************************************************************************)
(* Theorems about the flow table and per-flow authentication               *)
(* (FlowAuth.tla), for any five-tuples, limits, timeouts and bounds: a     *)
(* request is timed and alone, a flow's packets keep their order, a token  *)
(* is that of its flow as far as the answer named it, and a gateway that   *)
(* is silent is given up.                                                  *)
(*                                                                         *)
(* One invariant carries all of them, because the order of the packets and *)
(* the owner of a token rest on flows being distinct, and an answer finds  *)
(* its flow by an id the gateway echoes or by its description of it: what  *)
(* is in flight must never name another flow, nor a younger one.  It is a  *)
(* predicate of a table (Sound), so that each operation of the table is    *)
(* shown to keep it before the handlers are composed of them.              *)
(*                                                                         *)
(* The table is a sequence that flows leave anywhere: what a retain leaves *)
(* of it is in TablesProofs.tla.                                           *)
(***************************************************************************)
EXTENDS FlowAuth, TablesProofs

Ascending(s) == \A i, j \in 1 .. Len(s) : i < j => s[i] < s[j]

(* One flow for itself.  Until it is answered, it was asked for once for   *)
(* each timeout and once more while a request is out.                      *)
Timed(f) ==
    /\ f.state = "Pending" => (f.requested <=> f.deadline # Never)
    /\ f.state = "Authenticated" => f.deadline = Never
Patient(f) ==
    /\ f.timeouts < MaxAttempts
    /\ ~f.answered =>
          /\ f.state = "Pending"
          /\ f.asked = f.timeouts + (IF f.requested THEN 1 ELSE 0)
Entitled(f) ==
    f.state = "Authenticated" =>
       f.pending = <<>> /\ Rightful(f.token, f.id, f.key)
Settled(f) ==
    /\ f \in Flow /\ Len(f.pending) <= MaxPending /\ Ascending(f.pending)
    /\ Timed(f) /\ Patient(f) /\ Entitled(f)

(* What waits in a flow, next to what was sent and what was carried.       *)
Waits(f, off, car) ==
    \A p \in 1 .. Len(f.pending) :
       /\ f.pending[p] <= off[f.key]
       /\ \A c \in 1 .. Len(car[f.key]) : car[f.key][c].packet < f.pending[p]

(* A flow and what is in flight: a request that echoes its id is its own,  *)
(* one for its five-tuple is not of a younger flow.                        *)
Named(f, nid, rq) ==
    /\ f.id \in 1 .. nid
    /\ \A r \in rq : /\ r.id = f.id => r.key = f.key
                     /\ r.key = f.key => r.id <= f.id

Distinct(t) ==
    \A i, j \in 1 .. Len(t) : i # j => t[i].id # t[j].id /\ t[i].key # t[j].key

Sound(t, nid, off, car, rq) ==
    /\ t \in Seq(Flow) /\ Len(t) <= MaxFlows /\ Distinct(t)
    /\ \A i \in 1 .. Len(t) :
          Settled(t[i]) /\ Waits(t[i], off, car) /\ Named(t[i], nid, rq)

Carried == [packet : Nat, token : Token, flow : Nat]

(* What the gateway was sent of a five-tuple.                              *)
Delivered(k, off, car) ==
    /\ car[k] \in Seq(Carried)
    /\ \A i, j \in 1 .. Len(car[k]) : i < j => car[k][i].packet < car[k][j].packet
    /\ \A i \in 1 .. Len(car[k]) :
          /\ car[k][i].packet <= off[k]
          /\ Rightful(car[k][i].token, car[k][i].flow, k)

Around(nid, off, car, rq) ==
    /\ nid \in Nat /\ nid <= MaxIds
    /\ off \in [Keys -> Nat] /\ DOMAIN car = Keys
    /\ \A k \in Keys : Delivered(k, off, car)
    /\ \A r \in rq : r.id \in 1 .. nid /\ r.key \in Keys

IInv ==
    /\ links \subseteq Links /\ now \in Nat
    /\ Sound(table, next_id, offered, carried, requests)
    /\ Around(next_id, offered, carried, requests)

-----------------------------------------------------------------------------
(* The table's operations.                                                 *)

LEMMA Constants ==
    /\ MaxFlows \in Nat /\ MaxFlows >= 1 /\ MaxPending \in Nat
    /\ MaxAttempts \in Nat /\ MaxAttempts >= 1
    /\ AuthTimeout \in Nat /\ AuthTimeout >= 1 /\ RetryWait \in Nat /\ Ttl \in Nat
    /\ MaxIds \in Nat /\ MaxTime \in Nat
    /\ Starts \subseteq [now : 1 .. MaxTime, offered : [Keys -> 0 .. MaxPackets]]
  BY FlowAssumption

(* What a retain leaves of a table of flows.                               *)
LEMMA RetainedFlows ==
    ASSUME NEW t \in Seq(Flow), NEW keep \in SUBSET (1 .. Len(t))
    PROVE  LET u == Retained(t, keep)
           IN  /\ u \in Seq(Flow) /\ Len(u) = Cardinality(keep)
               /\ Len(u) \in Nat /\ Len(u) <= Len(t)
               /\ \A i \in 1 .. Len(u) : \E j \in keep : u[i] = t[j]
               /\ \A i, j \in 1 .. Len(u) : i # j =>
                     \E k, l \in 1 .. Len(t) : k # l /\ u[i] = t[k] /\ u[j] = t[l]
<1>1. \A S : t \in Seq(S) => Drawn(Retained(t, keep), S, t, keep)
  BY RetainedEntries
<1>2. Drawn(Retained(t, keep), Flow, t, keep)
  BY <1>1
<1>. QED  BY <1>2 DEF Drawn

(* A retain keeps a sound table sound.                                     *)
LEMMA RetainSound ==
    ASSUME NEW t, NEW nid, NEW off, NEW car, NEW rq, Sound(t, nid, off, car, rq),
           NEW keep \in SUBSET (1 .. Len(t))
    PROVE  Sound(Retained(t, keep), nid, off, car, rq)
<1>. DEFINE u == Retained(t, keep)
<1>0. t \in Seq(Flow) /\ Len(t) \in Nat /\ Len(t) <= MaxFlows
  BY LenProperties DEF Sound
<1>1. /\ u \in Seq(Flow) /\ Len(u) \in Nat /\ Len(u) <= Len(t)
      /\ \A i \in 1 .. Len(u) : \E j \in keep : u[i] = t[j]
      /\ \A i, j \in 1 .. Len(u) : i # j =>
            \E k, l \in 1 .. Len(t) : k # l /\ u[i] = t[k] /\ u[j] = t[l]
  BY <1>0, RetainedFlows
<1>. HIDE DEF u
<1>2. Distinct(u)
  <2>. SUFFICES ASSUME NEW i \in 1 .. Len(u), NEW j \in 1 .. Len(u), i # j
                PROVE  u[i].id # u[j].id /\ u[i].key # u[j].key
    BY DEF Distinct
  <2>1. PICK k \in 1 .. Len(t), l \in 1 .. Len(t) :
           k # l /\ u[i] = t[k] /\ u[j] = t[l]
    BY <1>1
  <2>. QED  BY <2>1 DEF Sound, Distinct
<1>3. \A i \in 1 .. Len(u) :
         Settled(u[i]) /\ Waits(u[i], off, car) /\ Named(u[i], nid, rq)
  BY <1>1 DEF Sound
<1>4. Len(u) <= MaxFlows
  BY <1>0, <1>1, Constants
<1>. QED  BY <1>1, <1>2, <1>3, <1>4 DEF Sound, u

LEMMA WithoutSound ==
    ASSUME NEW t, NEW nid, NEW off, NEW car, NEW rq, Sound(t, nid, off, car, rq),
           NEW i
    PROVE  Sound(Without(t, i), nid, off, car, rq)
<1>1. DOMAIN t = 1 .. Len(t)
  BY LenProperties DEF Sound
<1>. QED  BY <1>1, RetainSound DEF Without

LEMMA WithoutShorter ==
    ASSUME NEW t \in Seq(Flow), NEW i \in 1 .. Len(t)
    PROVE  Len(Without(t, i)) = Len(t) - 1
<1>1. DOMAIN t = 1 .. Len(t) /\ Len(t) \in Nat
  BY LenProperties
<1>2. IsFiniteSet(1 .. Len(t)) /\ Cardinality(1 .. Len(t)) = Len(t)
  BY <1>1, IndexSet
<1>3. Cardinality((1 .. Len(t)) \ {i}) = Len(t) - 1
  BY <1>2, FS_RemoveElement
<1>. QED  BY <1>1, <1>3, RetainedFlows DEF Without

(* Of several flows one is the least recently seen.                        *)
LEMMA OldestThere ==
    ASSUME NEW t \in Seq(Flow), t # <<>>
    PROVE  Oldest(t) \in 1 .. Len(t)
<1>. DEFINE Seen == {t[i].last_seen : i \in 1 .. Len(t)}
<1>1. Len(t) \in Nat /\ Len(t) >= 1 /\ DOMAIN t = 1 .. Len(t)
  BY LenProperties, EmptySeq
<1>2. ASSUME NEW i \in 1 .. Len(t) PROVE t[i].last_seen \in Nat
  <2>1. t[i] \in Flow
    BY ElementOfSeq
  <2>. QED  BY <2>1 DEF Flow
<1>3. Seen \in SUBSET Nat /\ t[1].last_seen \in Seen
  BY <1>1, <1>2
<1>4. PICK n \in Seen : \A m \in Seen : n <= m
  BY <1>3, Least
<1>. DEFINE At == {i \in 1 .. Len(t) : t[i].last_seen = n}
<1>5. At \in SUBSET Nat /\ At # {}
  BY <1>4
<1>6. PICK i \in At : \A j \in At : i <= j
  BY <1>5, Least
<1>7. ASSUME NEW j \in 1 .. Len(t)
      PROVE  \/ t[i].last_seen < t[j].last_seen
             \/ t[i].last_seen = t[j].last_seen /\ i <= j
  <2>1. t[i].last_seen = n /\ n <= t[j].last_seen /\ n \in Nat
    BY <1>3, <1>4, <1>6
  <2>2. CASE t[j].last_seen = n
    BY <1>6, <2>1, <2>2
  <2>3. CASE t[j].last_seen # n
    BY <1>2, <2>1, <2>3
  <2>. QED  BY <2>2, <2>3
<1>8. \E k \in DOMAIN t : \A j \in DOMAIN t :
         \/ t[k].last_seen < t[j].last_seen
         \/ t[k].last_seen = t[j].last_seen /\ k <= j
  BY <1>1, <1>6, <1>7
<1>9. Oldest(t) \in DOMAIN t
  BY <1>8 DEF Oldest
<1>. QED  BY <1>1, <1>9

LEMMA EvictSound ==
    ASSUME NEW t, NEW nid, NEW off, NEW car, NEW rq, Sound(t, nid, off, car, rq)
    PROVE  /\ Sound(Evict(t), nid, off, car, rq) /\ Len(Evict(t)) < MaxFlows
           /\ \A i \in 1 .. Len(Evict(t)) : \E j \in 1 .. Len(t) : Evict(t)[i] = t[j]
<1>1. t \in Seq(Flow) /\ Len(t) \in Nat /\ Len(t) <= MaxFlows /\ DOMAIN t = 1 .. Len(t)
  BY LenProperties DEF Sound
<1>2. CASE Len(t) >= MaxFlows
  <2>1. Evict(t) = Without(t, Oldest(t))
    BY <1>2 DEF Evict
  <2>2. Oldest(t) \in 1 .. Len(t)
    BY <1>1, <1>2, Constants, EmptySeq, OldestThere
  <2>3. Len(Without(t, Oldest(t))) = Len(t) - 1
    BY <1>1, <2>2, WithoutShorter
  <2>4. \A i \in 1 .. Len(Without(t, Oldest(t))) :
           \E j \in 1 .. Len(t) : Without(t, Oldest(t))[i] = t[j]
    BY <1>1, RetainedFlows DEF Without
  <2>. QED  BY <1>1, <2>1, <2>3, <2>4, WithoutSound, Constants
<1>3. CASE ~(Len(t) >= MaxFlows)
  BY <1>1, <1>3, Constants DEF Evict
<1>. QED  BY <1>2, <1>3

-----------------------------------------------------------------------------
(* Tables whose flows change in place.                                     *)

(* A flow of a sound table.                                                *)
LEMMA FlowThere ==
    ASSUME NEW t, NEW nid, NEW off, NEW car, NEW rq, Sound(t, nid, off, car, rq)
    PROVE  /\ t \in Seq(Flow) /\ Len(t) \in Nat /\ Len(t) <= MaxFlows
           /\ DOMAIN t = 1 .. Len(t)
           /\ \A i \in 1 .. Len(t) :
                 /\ t[i] \in Flow /\ t[i].id \in Nat /\ t[i].key \in Keys
                 /\ t[i].id \in 1 .. nid
                 /\ Settled(t[i]) /\ Waits(t[i], off, car) /\ Named(t[i], nid, rq)
<1>1. t \in Seq(Flow) /\ Len(t) \in Nat /\ Len(t) <= MaxFlows /\ DOMAIN t = 1 .. Len(t)
  BY LenProperties DEF Sound
<1>2. ASSUME NEW i \in 1 .. Len(t)
      PROVE  /\ t[i] \in Flow /\ t[i].id \in Nat /\ t[i].key \in Keys
             /\ t[i].id \in 1 .. nid
             /\ Settled(t[i]) /\ Waits(t[i], off, car) /\ Named(t[i], nid, rq)
  <2>1. Settled(t[i]) /\ Waits(t[i], off, car) /\ Named(t[i], nid, rq)
    BY DEF Sound
  <2>2. t[i] \in Flow
    BY <2>1 DEF Settled
  <2>3. t[i].id \in Nat /\ t[i].key \in Keys
    BY <2>2 DEF Flow
  <2>4. t[i].id \in 1 .. nid
    BY <2>1 DEF Named
  <2>. QED  BY <2>1, <2>2, <2>3, <2>4
<1>. QED  BY <1>1, <1>2

LEMMA MapSound ==
    ASSUME NEW t, NEW nid, NEW off, NEW car, NEW rq, Sound(t, nid, off, car, rq),
           NEW nid2, NEW off2, NEW car2, NEW rq2,
           NEW u \in Seq(Flow), Len(u) = Len(t),
           \A i \in 1 .. Len(t) :
              /\ u[i].id = t[i].id /\ u[i].key = t[i].key
              /\ Settled(u[i]) /\ Waits(u[i], off2, car2) /\ Named(u[i], nid2, rq2)
    PROVE  Sound(u, nid2, off2, car2, rq2)
<1>1. Distinct(u)
  BY DEF Sound, Distinct
<1>. QED  BY <1>1 DEF Sound

(* A function on the indices of a table is a table.                        *)
LEMMA MapFlows ==
    ASSUME NEW t \in Seq(Flow), NEW u, DOMAIN u = DOMAIN t,
           u = [i \in DOMAIN u |-> u[i]],
           \A i \in 1 .. Len(t) : u[i] \in Flow
    PROVE  u \in Seq(Flow) /\ Len(u) = Len(t)
<1>1. Len(t) \in Nat /\ DOMAIN t = 1 .. Len(t)
  BY LenProperties
<1>2. u \in [1 .. Len(t) -> Flow]
  BY <1>1
<1>. QED  BY <1>1, <1>2

(* A flow next to the one it was, for what AsksOneAtATime is about.        *)
Free(f) == ~f.requested \/ now >= f.deadline
Kin(g, f) ==
    /\ g.id = f.id /\ g.asked = f.asked
    /\ Free(g) => Free(f)

(* Marks that no invariant is about: when a flow was seen, when it goes.   *)
Seen(f) == [f EXCEPT !.last_seen = now, !.expires_at = now + Ttl]

LEMMA SeenSettled ==
    ASSUME now \in Nat, NEW f, Settled(f)
    PROVE  /\ Settled(Seen(f)) /\ Seen(f) \in Flow /\ Kin(Seen(f), f)
           /\ Seen(f).id = f.id /\ Seen(f).key = f.key
           /\ Seen(f).pending = f.pending
<1>. DEFINE g == Seen(f)
<1>1. f \in Flow /\ now + Ttl \in Nat
  BY Constants DEF Settled
<1>2. g \in Flow
  BY <1>1 DEF Flow, Seen
<1>3. /\ g.id = f.id /\ g.key = f.key /\ g.pending = f.pending
      /\ g.state = f.state /\ g.token = f.token /\ g.requested = f.requested
      /\ g.deadline = f.deadline /\ g.timeouts = f.timeouts
      /\ g.asked = f.asked /\ g.answered = f.answered
  BY <1>1 DEF Flow, Seen
<1>. HIDE DEF g
<1>4. Timed(g) /\ Patient(g) /\ Entitled(g)
  BY <1>3 DEF Settled, Timed, Patient, Entitled
<1>5. Settled(g)
  BY <1>2, <1>3, <1>4 DEF Settled
<1>6. Kin(g, f)
  BY <1>3 DEF Kin, Free
<1>. QED  BY <1>2, <1>3, <1>5, <1>6 DEF g

LEMMA ObserveSound ==
    ASSUME now \in Nat, NEW k, NEW t, NEW nid, NEW off, NEW car, NEW rq,
           Sound(t, nid, off, car, rq)
    PROVE  /\ Sound(observe(t, k), nid, off, car, rq)
           /\ Len(observe(t, k)) = Len(t)
           /\ \A i \in 1 .. Len(t) :
                 /\ observe(t, k)[i].id = t[i].id
                 /\ observe(t, k)[i].key = t[i].key
                 /\ Kin(observe(t, k)[i], t[i])
<1>. DEFINE u == observe(t, k)
<1>1. /\ t \in Seq(Flow) /\ Len(t) \in Nat /\ DOMAIN t = 1 .. Len(t)
      /\ \A i \in 1 .. Len(t) : /\ t[i] \in Flow /\ Settled(t[i])
                                /\ Waits(t[i], off, car) /\ Named(t[i], nid, rq)
  BY FlowThere
<1>2. DOMAIN u = DOMAIN t /\ u = [i \in DOMAIN u |-> u[i]]
  BY DEF observe
<1>3. ASSUME NEW i \in 1 .. Len(t)
      PROVE  /\ Settled(u[i]) /\ u[i] \in Flow /\ Kin(u[i], t[i])
             /\ u[i].id = t[i].id /\ u[i].key = t[i].key
             /\ u[i].pending = t[i].pending
  <2>1. u[i] = IF t[i].key = k THEN Seen(t[i]) ELSE t[i]
    BY <1>1 DEF observe, Seen
  <2>2. Settled(t[i]) /\ t[i] \in Flow
    BY <1>1
  <2>. HIDE DEF u
  <2>3. CASE t[i].key = k
    <3>1. u[i] = Seen(t[i])
      BY <2>1, <2>3
    <3>. QED  BY <2>2, <3>1, SeenSettled
  <2>4. CASE t[i].key # k
    <3>1. u[i] = t[i]
      BY <2>1, <2>4
    <3>. QED  BY <2>2, <3>1 DEF Kin
  <2>. QED  BY <2>3, <2>4
<1>. HIDE DEF u
<1>4. u \in Seq(Flow) /\ Len(u) = Len(t)
  BY <1>1, <1>2, <1>3, MapFlows
<1>5. \A i \in 1 .. Len(t) : Waits(u[i], off, car) /\ Named(u[i], nid, rq)
  BY <1>1, <1>3 DEF Waits, Named
<1>6. Sound(u, nid, off, car, rq)
  BY <1>3, <1>4, <1>5, MapSound
<1>. QED  BY <1>3, <1>4, <1>6 DEF u

(* A new flow: no id in use or in flight is its own.                       *)
LEMMA NewSound ==
    ASSUME now \in Nat, NEW k \in Keys, NEW t,
           Sound(t, next_id, offered, carried, requests), Len(t) < MaxFlows,
           Around(next_id, offered, carried, requests), IndexOfKey(t, k) = {}
    PROVE  Sound(Append(t, NewFlow(k)), next_id + 1, offered, carried, requests)
<1>. DEFINE n == NewFlow(k)
            u == Append(t, n)
            nid == next_id + 1
<1>1. /\ t \in Seq(Flow) /\ Len(t) \in Nat /\ DOMAIN t = 1 .. Len(t)
      /\ \A i \in 1 .. Len(t) :
            /\ t[i] \in Flow /\ t[i].id \in 1 .. next_id /\ Settled(t[i])
            /\ Waits(t[i], offered, carried) /\ Named(t[i], next_id, requests)
  BY FlowThere
<1>2. next_id \in Nat /\ \A r \in requests : r.id \in 1 .. next_id
  BY DEF Around
<1>3. <<>> \in Seq(Nat) /\ Len(<<>>) = 0 /\ NoToken \in Token
  BY DEF NoToken, Token
<1>4. n \in Flow
  BY <1>2, <1>3, Constants DEF NewFlow, Flow, FreshId, Never
<1>5. Settled(n)
  <2>1. n.pending = <<>> /\ Ascending(n.pending)
    BY <1>3 DEF NewFlow, Ascending
  <2>2. Timed(n) /\ Patient(n) /\ Entitled(n)
    BY Constants DEF NewFlow, Timed, Patient, Entitled, Never
  <2>. QED  BY <1>3, <1>4, <2>1, <2>2, Constants DEF Settled
<1>6. n.id = nid /\ n.key = k /\ n.pending = <<>>
  BY DEF NewFlow, FreshId
<1>7. Waits(n, offered, carried)
  BY <1>3, <1>6 DEF Waits
<1>8. Named(n, nid, requests)
  BY <1>2, <1>6 DEF Named
<1>. HIDE DEF n
<1>9. /\ u \in Seq(Flow) /\ Len(u) = Len(t) + 1 /\ u[Len(t) + 1] = n
      /\ \A i \in 1 .. Len(t) : u[i] = t[i]
  BY <1>1, <1>4, AppendProperties
<1>10. \A i \in 1 .. Len(t) : Named(t[i], nid, requests)
  BY <1>1, <1>2 DEF Named
<1>. HIDE DEF u
<1>11. \A i \in 1 .. Len(u) : i \in 1 .. Len(t) \/ i = Len(t) + 1
  BY <1>1, <1>9
<1>12. \A i \in 1 .. Len(u) :
          Settled(u[i]) /\ Waits(u[i], offered, carried) /\ Named(u[i], nid, requests)
  <2>. HIDE DEF nid
  <2>. QED  BY <1>1, <1>5, <1>7, <1>8, <1>9, <1>10, <1>11
<1>13. \A i \in 1 .. Len(t) : t[i].id # nid /\ t[i].key # k
  BY <1>1, <1>2 DEF IndexOfKey
<1>14. Distinct(u)
  <2>. SUFFICES ASSUME NEW i \in 1 .. Len(u), NEW j \in 1 .. Len(u), i # j
                PROVE  u[i].id # u[j].id /\ u[i].key # u[j].key
    BY DEF Distinct
  <2>1. CASE i \in 1 .. Len(t) /\ j \in 1 .. Len(t)
    BY <1>9, <2>1 DEF Sound, Distinct
  <2>2. CASE i \in 1 .. Len(t) /\ j = Len(t) + 1
    BY <1>6, <1>9, <1>13, <2>2
  <2>3. CASE i = Len(t) + 1 /\ j \in 1 .. Len(t)
    BY <1>6, <1>9, <1>13, <2>3
  <2>. QED  BY <1>11, <2>1, <2>2, <2>3
<1>15. Len(u) <= MaxFlows
  BY <1>1, <1>9, Constants
<1>. QED  BY <1>9, <1>12, <1>14, <1>15 DEF Sound, u, n

-----------------------------------------------------------------------------
(* The table's surroundings.                                               *)

(* More ids handed out, more packets sent and fewer requests in flight.    *)
LEMMA SoundGrows ==
    ASSUME NEW t, NEW nid \in Nat, NEW off \in [Keys -> Nat], NEW car, NEW rq,
           Sound(t, nid, off, car, rq),
           NEW nid2 \in Nat, nid <= nid2,
           NEW off2 \in [Keys -> Nat], \A k \in Keys : off[k] <= off2[k],
           NEW rq2 \in SUBSET rq
    PROVE  Sound(t, nid2, off2, car, rq2)
<1>1. /\ t \in Seq(Flow) /\ Len(t) \in Nat
      /\ \A i \in 1 .. Len(t) :
            /\ t[i] \in Flow /\ t[i].key \in Keys /\ Settled(t[i])
            /\ Waits(t[i], off, car) /\ Named(t[i], nid, rq)
  BY FlowThere
<1>2. ASSUME NEW i \in 1 .. Len(t)
      PROVE  Waits(t[i], off2, car) /\ Named(t[i], nid2, rq2)
  <2>1. Named(t[i], nid2, rq2)
    BY <1>1 DEF Named
  <2>2. \A p \in 1 .. Len(t[i].pending) : t[i].pending[p] \in Nat
    <3>1. t[i].pending \in Seq(Nat)
      BY <1>1 DEF Flow
    <3>. QED  BY <3>1, ElementOfSeq
  <2>3. t[i].key \in Keys /\ Waits(t[i], off, car)
    BY <1>1
  <2>4. off[t[i].key] \in Nat /\ off2[t[i].key] \in Nat
        /\ off[t[i].key] <= off2[t[i].key]
    BY <2>3
  <2>5. Waits(t[i], off2, car)
    BY <2>2, <2>3, <2>4 DEF Waits
  <2>. QED  BY <2>1, <2>5
<1>. QED  BY <1>1, <1>2 DEF Sound

LEMMA AroundGrows ==
    ASSUME NEW nid, NEW off, NEW car, NEW rq, Around(nid, off, car, rq),
           NEW nid2 \in Nat, nid <= nid2, nid2 <= MaxIds,
           NEW off2 \in [Keys -> Nat], \A k \in Keys : off[k] <= off2[k],
           NEW rq2 \in SUBSET rq
    PROVE  Around(nid2, off2, car, rq2)
<1>1. /\ nid \in Nat /\ off \in [Keys -> Nat] /\ DOMAIN car = Keys
      /\ \A k \in Keys : Delivered(k, off, car)
      /\ \A r \in rq : r.id \in 1 .. nid /\ r.key \in Keys
  BY DEF Around
<1>2. ASSUME NEW k \in Keys PROVE Delivered(k, off2, car)
  <2>1. off[k] \in Nat /\ off2[k] \in Nat /\ off[k] <= off2[k] /\ Delivered(k, off, car)
    BY <1>1
  <2>2. car[k] \in Seq(Carried)
    BY <2>1 DEF Delivered
  <2>3. \A i \in 1 .. Len(car[k]) : car[k][i].packet \in Nat
    <3>1. \A i \in 1 .. Len(car[k]) : car[k][i] \in Carried
      BY <2>2, ElementOfSeq
    <3>. QED  BY <3>1 DEF Carried
  <2>4. \A i \in 1 .. Len(car[k]) : car[k][i].packet <= off2[k]
    BY <2>1, <2>3 DEF Delivered
  <2>. QED  BY <2>1, <2>4 DEF Delivered
<1>3. \A r \in rq2 : r.id \in 1 .. nid2 /\ r.key \in Keys
  BY <1>1
<1>. QED  BY <1>1, <1>2, <1>3 DEF Around

(* What is sent to the gateway on top: newer packets, in order, each with  *)
(* a token of their five-tuple.                                            *)
LEMMA DeliveredMore ==
    ASSUME NEW k, NEW off, NEW car, Delivered(k, off, car),
           NEW s \in Seq(Carried),
           \A i \in 1 .. Len(s) :
              /\ s[i].packet <= off[k]
              /\ Rightful(s[i].token, s[i].flow, k)
              /\ \A c \in 1 .. Len(car[k]) : car[k][c].packet < s[i].packet
              /\ \A j \in 1 .. Len(s) : i < j => s[i].packet < s[j].packet,
           NEW car2, car2[k] = car[k] \o s
    PROVE  Delivered(k, off, car2)
<1>. DEFINE q == car[k]
            u == car2[k]
<1>1. q \in Seq(Carried) /\ Len(q) \in Nat /\ Len(s) \in Nat
  BY LenProperties DEF Delivered
<1>2. /\ \A i, j \in 1 .. Len(q) : i < j => q[i].packet < q[j].packet
      /\ \A i \in 1 .. Len(q) :
            /\ q[i].packet <= off[k]
            /\ Rightful(q[i].token, q[i].flow, k)
  BY DEF Delivered
<1>3. u \in Seq(Carried) /\ Len(u) = Len(q) + Len(s)
  BY <1>1, ConcatProperties
<1>4. \A i \in 1 .. Len(q) : u[i] = q[i]
  BY <1>1, ConcatProperties
<1>5. \A i \in 1 .. Len(s) : u[Len(q) + i] = s[i]
  BY <1>1, ConcatProperties
<1>6. \A i \in 1 .. Len(u) : i \in 1 .. Len(q) \/ i - Len(q) \in 1 .. Len(s)
  BY <1>1, <1>3
<1>. HIDE DEF u, q
<1>7. \A i \in 1 .. Len(u) : i - Len(q) \in 1 .. Len(s) => u[i] = s[i - Len(q)]
  BY <1>1, <1>3, <1>5
<1>8. ASSUME NEW i \in 1 .. Len(u)
      PROVE  /\ u[i].packet <= off[k]
             /\ Rightful(u[i].token, u[i].flow, k)
  BY <1>2, <1>4, <1>6, <1>7
<1>9. ASSUME NEW i \in 1 .. Len(u), NEW j \in 1 .. Len(u), i < j
      PROVE  u[i].packet < u[j].packet
  <2>1. CASE i \in 1 .. Len(q) /\ j \in 1 .. Len(q)
    BY <1>2, <1>4, <1>9, <2>1
  <2>2. CASE i \in 1 .. Len(q) /\ j - Len(q) \in 1 .. Len(s)
    <3>1. u[i] = q[i] /\ u[j] = s[j - Len(q)]
      BY <1>4, <1>7, <2>2
    <3>2. q[i].packet < s[j - Len(q)].packet
      BY <2>2 DEF q
    <3>. QED  BY <3>1, <3>2
  <2>3. CASE i - Len(q) \in 1 .. Len(s) /\ j - Len(q) \in 1 .. Len(s)
    <3>1. u[i] = s[i - Len(q)] /\ u[j] = s[j - Len(q)]
      BY <1>7, <2>3
    <3>2. i - Len(q) < j - Len(q)
      BY <1>1, <1>3, <1>9
    <3>. QED  BY <2>3, <3>1, <3>2
  <2>4. CASE i - Len(q) \in 1 .. Len(s) /\ j \in 1 .. Len(q)
    BY <1>1, <1>3, <1>9, <2>4
  <2>. QED  BY <1>6, <2>1, <2>2, <2>3, <2>4
<1>. QED  BY <1>3, <1>8, <1>9 DEF Delivered, u

-----------------------------------------------------------------------------
(* The handlers' steps on the table.                                       *)

(* Flows of a table next to the table before: each is one of those, with   *)
(* as many requests sent for it, or is new.                                *)
From(u, t, nid) ==
    \A j \in 1 .. Len(u) :
       u[j].id > nid \/ \E i \in 1 .. Len(t) : Kin(u[j], t[i])

(* A table in which a flow of the five-tuple was found or made.            *)
Provided(u, k) ==
    /\ From(u, table, next_id)
    /\ \E nid \in {next_id, next_id + 1} :
          /\ Sound(u, nid, offered, carried, requests)
          /\ \A i \in IndexOfKey(u, k) :
                nid = IF u[i].id > next_id THEN u[i].id ELSE next_id

LEMMA GetOrCreateSound ==
    ASSUME now \in Nat, NEW k \in Keys,
           Sound(table, next_id, offered, carried, requests),
           Around(next_id, offered, carried, requests)
    PROVE  Provided(observe(get_or_create(table, k), k), k)
<1>. DEFINE live == remove_expired(table)
            v == get_or_create(table, k)
            u == observe(v, k)
            keep == {i \in DOMAIN table : now <= table[i].expires_at}
            made == Append(Evict(live), NewFlow(k))
<1>. SUFFICES Provided(u, k)
  OBVIOUS
<1>1. next_id \in Nat
  BY DEF Around
<1>2. DOMAIN table = 1 .. Len(table) /\ table \in Seq(Flow)
  BY FlowThere
<1>3. /\ Sound(live, next_id, offered, carried, requests)
      /\ \A i \in 1 .. Len(live) : \E j \in 1 .. Len(table) : live[i] = table[j]
  <2>1. live = Retained(table, keep) /\ keep \in SUBSET (1 .. Len(table))
    BY <1>2 DEF remove_expired
  <2>. HIDE DEF live, keep
  <2>2. Sound(Retained(table, keep), next_id, offered, carried, requests)
    BY <2>1, RetainSound
  <2>3. \A i \in 1 .. Len(Retained(table, keep)) :
           \E j \in keep : Retained(table, keep)[i] = table[j]
    BY <1>2, <2>1, RetainedFlows
  <2>. QED  BY <2>1, <2>2, <2>3
<1>4. v = IF IndexOfKey(live, k) # {} THEN live ELSE made
  BY DEF get_or_create
<1>. HIDE DEF live, v, made
<1>5. \A f : Kin(f, f)
  BY DEF Kin
<1>6. CASE IndexOfKey(live, k) # {}
  <2>1. v = live
    BY <1>4, <1>6
  <2>2. Sound(v, next_id, offered, carried, requests)
    BY <1>3, <2>1
  <2>3. /\ Sound(u, next_id, offered, carried, requests) /\ Len(u) = Len(v)
        /\ \A i \in 1 .. Len(v) : Kin(u[i], v[i])
    BY <2>2, ObserveSound
  <2>. HIDE DEF u
  <2>4. From(u, table, next_id)
    BY <1>3, <2>1, <2>3 DEF From
  <2>5. \A i \in IndexOfKey(u, k) :
           next_id = IF u[i].id > next_id THEN u[i].id ELSE next_id
    <3>1. /\ DOMAIN u = 1 .. Len(u)
          /\ \A i \in 1 .. Len(u) : u[i].id \in 1 .. next_id
      BY <2>3, FlowThere
    <3>. QED  BY <1>1, <3>1 DEF IndexOfKey
  <2>. QED  BY <2>3, <2>4, <2>5 DEF Provided
<1>7. CASE IndexOfKey(live, k) = {}
  <2>. DEFINE e == Evict(live)
  <2>1. v = made
    BY <1>4, <1>7
  <2>2. /\ Sound(e, next_id, offered, carried, requests) /\ Len(e) < MaxFlows
        /\ \A i \in 1 .. Len(e) : \E j \in 1 .. Len(live) : e[i] = live[j]
    BY <1>3, EvictSound
  <2>3. DOMAIN live = 1 .. Len(live)
    BY <1>3, FlowThere
  <2>. HIDE DEF e
  <2>4. e \in Seq(Flow) /\ Len(e) \in Nat /\ DOMAIN e = 1 .. Len(e)
    BY <2>2, FlowThere
  <2>5. IndexOfKey(e, k) = {}
    BY <1>7, <2>2, <2>3, <2>4 DEF IndexOfKey
  <2>6. made = Append(e, NewFlow(k))
    BY DEF made, e
  <2>7. Sound(made, next_id + 1, offered, carried, requests)
    BY <2>2, <2>5, <2>6, NewSound
  <2>8. /\ Len(made) = Len(e) + 1 /\ made[Len(e) + 1] = NewFlow(k)
        /\ \A i \in 1 .. Len(e) : made[i] = e[i]
    <3>1. made \in Seq(Flow)
      BY <2>7 DEF Sound
    <3>. QED  BY <2>4, <2>6
  <2>9. NewFlow(k).id = next_id + 1 /\ NewFlow(k).key = k
    BY DEF NewFlow, FreshId
  <2>. u = observe(made, k)
    BY <2>1
  <2>. HIDE DEF u
  <2>10. /\ Sound(u, next_id + 1, offered, carried, requests) /\ Len(u) = Len(made)
         /\ \A i \in 1 .. Len(made) : /\ u[i].id = made[i].id
                                       /\ u[i].key = made[i].key
                                       /\ Kin(u[i], made[i])
    BY <2>7, ObserveSound
  <2>11. \A i \in 1 .. Len(made) : i \in 1 .. Len(e) \/ i = Len(e) + 1
    BY <2>4, <2>8
  <2>12. From(u, table, next_id)
    <3>. SUFFICES ASSUME NEW j \in 1 .. Len(u)
                  PROVE  \/ u[j].id > next_id
                         \/ \E i \in 1 .. Len(table) : Kin(u[j], table[i])
      BY DEF From
    <3>1. CASE j \in 1 .. Len(e)
      <4>1. \E i \in 1 .. Len(table) : made[j] = table[i]
        BY <1>3, <2>2, <2>8, <3>1
      <4>. QED  BY <2>10, <4>1
    <3>2. CASE j = Len(e) + 1
      BY <1>1, <2>8, <2>9, <2>10, <3>2
    <3>. QED  BY <2>10, <2>11, <3>1, <3>2
  <2>13. \A i \in IndexOfKey(u, k) :
            next_id + 1 = IF u[i].id > next_id THEN u[i].id ELSE next_id
    <3>. SUFFICES ASSUME NEW i \in IndexOfKey(u, k)
                  PROVE  u[i].id = next_id + 1
      BY <1>1
    <3>1. DOMAIN u = 1 .. Len(u)
      BY <2>10, FlowThere
    <3>2. i \in 1 .. Len(made) /\ made[i].key = k
      BY <2>10, <3>1 DEF IndexOfKey
    <3>3. i \notin 1 .. Len(e)
      BY <2>4, <2>5, <2>8, <3>2 DEF IndexOfKey
    <3>4. i = Len(e) + 1
      BY <2>11, <3>2, <3>3
    <3>. QED  BY <2>8, <2>9, <2>10, <3>2, <3>4
  <2>. QED  BY <2>10, <2>12, <2>13 DEF Provided
<1>. QED  BY <1>6, <1>7

(* One flow changes.                                                       *)
LEMMA UpdateSound ==
    ASSUME NEW t, NEW nid, NEW off, NEW car, NEW rq, Sound(t, nid, off, car, rq),
           NEW i \in 1 .. Len(t), NEW u \in Seq(Flow), Len(u) = Len(t),
           \A j \in 1 .. Len(t) : j # i => u[j] = t[j],
           u[i].id = t[i].id, u[i].key = t[i].key, Settled(u[i]),
           Waits(u[i], off, car)
    PROVE  Sound(u, nid, off, car, rq)
<1>1. \A j \in 1 .. Len(t) : /\ Settled(t[j]) /\ Waits(t[j], off, car)
                             /\ Named(t[j], nid, rq)
  BY FlowThere
<1>2. ASSUME NEW j \in 1 .. Len(t)
      PROVE  /\ u[j].id = t[j].id /\ u[j].key = t[j].key
             /\ Settled(u[j]) /\ Waits(u[j], off, car) /\ Named(u[j], nid, rq)
  BY <1>1 DEF Named
<1>. QED  BY <1>2, MapSound

(* More is carried of a five-tuple whose flow holds nothing.               *)
LEMMA CarriedSound ==
    ASSUME NEW t, NEW nid, NEW off, NEW car, NEW rq, Sound(t, nid, off, car, rq),
           NEW i \in 1 .. Len(t), t[i].pending = <<>>,
           NEW car2, \A k \in Keys : k # t[i].key => car2[k] = car[k]
    PROVE  Sound(t, nid, off, car2, rq)
<1>1. /\ t \in Seq(Flow) /\ Len(t) <= MaxFlows /\ Distinct(t)
      /\ \A j \in 1 .. Len(t) :
            /\ t[j].key \in Keys /\ Settled(t[j]) /\ Waits(t[j], off, car)
            /\ Named(t[j], nid, rq)
  BY FlowThere DEF Sound
<1>2. ASSUME NEW j \in 1 .. Len(t) PROVE Waits(t[j], off, car2)
  <2>1. CASE j = i
    <3>1. Len(t[j].pending) = 0
      BY <2>1
    <3>. QED  BY <3>1 DEF Waits
  <2>2. CASE j # i
    <3>1. car2[t[j].key] = car[t[j].key]
      BY <1>1, <2>2 DEF Distinct
    <3>. QED  BY <1>1, <3>1 DEF Waits
  <2>. QED  BY <2>1, <2>2
<1>. QED  BY <1>1, <1>2 DEF Sound

(* The same flows, each next to what it was.                               *)
KinOf(u, t) == Len(u) = Len(t) /\ \A j \in 1 .. Len(t) : Kin(u[j], t[j])

(* The local stack's next packet of a five-tuple.                          *)
Offers(k, p, off, off2) ==
    /\ off \in [Keys -> Nat] /\ off2 \in [Keys -> Nat]
    /\ p = off[k] + 1 /\ off2[k] = p /\ \A l \in Keys : off[l] <= off2[l]

(* A packet joins those that wait in a flow: it is the newest.             *)
LEMMA CacheSound ==
    ASSUME NEW t, NEW nid \in Nat, NEW off, NEW car, NEW rq,
           Sound(t, nid, off, car, rq), NEW i \in 1 .. Len(t),
           NEW k, k = t[i].key, Delivered(k, off, car), t[i].state = "Pending",
           NEW p, NEW off2, Offers(k, p, off, off2)
    PROVE  /\ Sound(cache_packet(t, i, p), nid, off2, car, rq)
           /\ KinOf(cache_packet(t, i, p), t)
<1>. DEFINE f == t[i]
            u == cache_packet(t, i, p)
            g == [f EXCEPT !.pending = Append(@, p)]
<1>1. /\ t \in Seq(Flow) /\ Len(t) \in Nat /\ DOMAIN t = 1 .. Len(t)
      /\ f \in Flow /\ k \in Keys /\ Settled(f) /\ Waits(f, off, car)
  BY FlowThere
<1>2. /\ off[k] \in Nat /\ p \in Nat /\ off2[k] = p /\ off[k] < p
      /\ \A l \in Keys : off[l] <= off2[l]
      /\ off \in [Keys -> Nat] /\ off2 \in [Keys -> Nat]
  BY <1>1 DEF Offers
<1>0. Sound(t, nid, off2, car, rq)
  <2>1. /\ nid \in Nat /\ nid <= nid /\ rq \in SUBSET rq
        /\ off \in [Keys -> Nat] /\ off2 \in [Keys -> Nat]
        /\ \A l \in Keys : off[l] <= off2[l]
        /\ Sound(t, nid, off, car, rq)
    BY <1>2
  <2>. QED  BY ONLY <2>1, SoundGrows
<1>3. CASE Len(f.pending) >= MaxPending
  <2>1. u = t
    BY <1>3 DEF cache_packet
  <2>2. \A j \in 1 .. Len(t) : Kin(t[j], t[j])
    BY DEF Kin
  <2>. HIDE DEF u
  <2>. QED  BY <1>0, <2>1, <2>2 DEF u, KinOf
<1>4. CASE ~(Len(f.pending) >= MaxPending)
  <2>1. u = [t EXCEPT ![i] = g]
    BY <1>1, <1>4 DEF cache_packet
  <2>2. f.pending \in Seq(Nat) /\ Len(f.pending) \in Nat
    BY <1>1, LenProperties DEF Flow
  <2>3. g \in Flow
    <3>1. Append(f.pending, p) \in Seq(Nat)
      BY <1>2, <2>2, AppendProperties
    <3>. HIDE DEF f
    <3>. QED  BY <1>1, <3>1 DEF Flow
  <2>4. /\ g.id = f.id /\ g.key = k /\ g.pending = Append(f.pending, p)
        /\ g.state = f.state /\ g.token = f.token /\ g.requested = f.requested
        /\ g.deadline = f.deadline /\ g.timeouts = f.timeouts
        /\ g.asked = f.asked /\ g.answered = f.answered
    BY <1>1 DEF Flow
  <2>. DEFINE n == Len(f.pending)
  <2>5. /\ Len(g.pending) = n + 1 /\ g.pending[n + 1] = p
        /\ \A x \in 1 .. n : g.pending[x] = f.pending[x] /\ f.pending[x] \in Nat
    <3>1. \A x \in 1 .. n : f.pending[x] \in Nat
      BY <2>2, ElementOfSeq
    <3>. HIDE DEF g, f
    <3>2. /\ Len(Append(f.pending, p)) = n + 1 /\ Append(f.pending, p)[n + 1] = p
          /\ \A x \in 1 .. n : Append(f.pending, p)[x] = f.pending[x]
      BY <1>2, <2>2, AppendProperties
    <3>. QED  BY <2>4, <3>1, <3>2
  <2>. HIDE DEF g, f
  <2>6. \A x \in 1 .. n + 1 : x \in 1 .. n \/ x = n + 1
    BY <2>2
  <2>7. \A x \in 1 .. n : g.pending[x] < p
    <3>. SUFFICES ASSUME NEW x \in 1 .. n PROVE g.pending[x] < p
      OBVIOUS
    <3>1. f.pending[x] <= off[k]
      BY <1>1 DEF Waits, f
    <3>2. g.pending[x] = f.pending[x] /\ f.pending[x] \in Nat
      BY <2>5
    <3>. QED  BY <1>2, <3>1, <3>2
  <2>8. Ascending(g.pending)
    <3>1. Ascending(f.pending)
      BY <1>1 DEF Settled
    <3>. SUFFICES ASSUME NEW x \in 1 .. n + 1, NEW y \in 1 .. n + 1, x < y
                  PROVE  g.pending[x] < g.pending[y]
      BY <2>5 DEF Ascending
    <3>3. x \in 1 .. n
      BY <2>2
    <3>4. CASE y = n + 1
      BY <2>5, <2>7, <3>3, <3>4
    <3>5. CASE y \in 1 .. n
      BY <2>5, <3>1, <3>3, <3>5 DEF Ascending
    <3>. QED  BY <2>6, <3>4, <3>5
  <2>9. Waits(g, off2, car)
    <3>1. ASSUME NEW x \in 1 .. n + 1 PROVE g.pending[x] <= off2[k]
      <4>1. p \in Nat /\ off2[k] = p
        BY <1>2
      <4>2. CASE x \in 1 .. n
        <5>1. g.pending[x] \in Nat /\ g.pending[x] < p
          BY <2>5, <2>7, <4>2
        <5>. QED  BY <4>1, <5>1
      <4>3. CASE x = n + 1
        BY <2>5, <4>1, <4>3
      <4>. QED  BY <2>6, <4>2, <4>3
    <3>2. \A c \in 1 .. Len(car[k]) : car[k][c].packet < p
      <4>1. \A c \in 1 .. Len(car[k]) : car[k][c].packet \in Nat
                                         /\ car[k][c].packet <= off[k]
        <5>1. \A c \in 1 .. Len(car[k]) : car[k][c] \in Carried
          BY ElementOfSeq DEF Delivered
        <5>. QED  BY <5>1 DEF Carried, Delivered
      <4>. QED  BY <1>2, <4>1
    <3>3. \A x \in 1 .. n, c \in 1 .. Len(car[k]) : car[k][c].packet < g.pending[x]
      BY <1>1, <2>5 DEF Waits, f
    <3>4. \A x \in 1 .. n + 1, c \in 1 .. Len(car[k]) :
             car[k][c].packet < g.pending[x]
      BY <2>5, <2>6, <3>2, <3>3
    <3>. QED  BY <2>4, <2>5, <3>1, <3>4 DEF Waits
  <2>10. Settled(g)
    <3>1. Timed(g) /\ Patient(g) /\ Entitled(g)
      <4>1. f.state = "Pending"
        BY DEF f
      <4>. QED  BY <1>1, <2>4, <4>1 DEF Settled, Timed, Patient, Entitled
    <3>2. Len(g.pending) <= MaxPending
      BY <1>4, <2>2, <2>5, Constants
    <3>. QED  BY <2>3, <2>8, <3>1, <3>2 DEF Settled
  <2>11. /\ u \in Seq(Flow) /\ Len(u) = Len(t)
         /\ u[i] = g /\ \A j \in 1 .. Len(t) : j # i => u[j] = t[j]
    <3>1. t \in Seq(Flow) /\ i \in 1 .. Len(t) /\ g \in Flow
      BY <1>1, <2>3
    <3>2. u = [t EXCEPT ![i] = g]
      BY <2>1
    <3>. HIDE DEF u
    <3>3. /\ [t EXCEPT ![i] = g] \in Seq(Flow)
          /\ Len([t EXCEPT ![i] = g]) = Len(t)
          /\ \A j \in 1 .. Len(t) :
                [t EXCEPT ![i] = g][j] = IF j = i THEN g ELSE t[j]
      BY <3>1, ExceptSeq
    <3>. QED  BY <3>2, <3>3
  <2>. HIDE DEF u
  <2>12. /\ u[i].id = t[i].id /\ u[i].key = t[i].key /\ Kin(u[i], t[i])
         /\ Settled(u[i]) /\ Waits(u[i], off2, car)
    <3>1. /\ g.id = f.id /\ g.key = k /\ g.asked = f.asked
          /\ g.requested = f.requested /\ g.deadline = f.deadline /\ f = t[i]
      BY <2>4 DEF f
    <3>2. u[i].id = t[i].id /\ u[i].key = t[i].key /\ Kin(u[i], t[i])
      BY <2>11, <3>1 DEF Kin, Free
    <3>. QED  BY ONLY <2>9, <2>10, <2>11, <3>2
  <2>13. Sound(u, nid, off2, car, rq)
    BY <1>0, <2>11, <2>12, UpdateSound
  <2>14. \A j \in 1 .. Len(t) : Kin(u[j], t[j])
    BY <2>11, <2>12 DEF Kin
  <2>. QED  BY <2>11, <2>13, <2>14 DEF u, KinOf
<1>. QED  BY <1>3, <1>4

(* A request goes out for a flow that none is out for.                     *)
LEMMA AskSettled ==
    ASSUME now \in Nat, NEW f, Settled(f), Due(f)
    PROVE  /\ Settled(Ask(f)) /\ Ask(f) \in Flow
           /\ Ask(f).id = f.id /\ Ask(f).key = f.key
           /\ Ask(f).pending = f.pending
<1>. DEFINE g == Ask(f)
<1>1. f \in Flow /\ f.state = "Pending" /\ ~f.requested
  BY DEF Settled, Due
<1>2. now + AuthTimeout \in Nat /\ now + AuthTimeout # Never
  BY Constants DEF Never
<1>3. g \in Flow
  <2>1. f.asked + 1 \in Nat
    BY <1>1 DEF Flow
  <2>. QED  BY <1>1, <1>2, <2>1 DEF Flow, Ask
<1>4. /\ g.id = f.id /\ g.key = f.key /\ g.pending = f.pending
      /\ g.state = f.state /\ g.token = f.token /\ g.requested
      /\ g.deadline = now + AuthTimeout /\ g.timeouts = f.timeouts
      /\ g.asked = f.asked + 1 /\ g.answered = f.answered
  BY <1>1 DEF Flow, Ask
<1>5. f.timeouts \in Nat /\ f.asked \in Nat
  BY <1>1 DEF Flow
<1>. HIDE DEF g
<1>6. Timed(g) /\ Entitled(g)
  BY <1>1, <1>2, <1>4 DEF Timed, Entitled
<1>7. Patient(g)
  BY <1>1, <1>4, <1>5 DEF Settled, Patient
<1>8. Settled(g)
  BY <1>3, <1>4, <1>6, <1>7 DEF Settled
<1>. QED  BY <1>3, <1>4, <1>8 DEF g

(* A table next to the table before: a flow that was asked for again had   *)
(* no request out, or one that was overdue.                                *)
AskedAlone(u, t, nid) ==
    \A j \in 1 .. Len(u) :
       \/ u[j].id > nid
       \/ \E i \in 1 .. Len(t) :
             /\ u[j].id = t[i].id
             /\ u[j].asked > t[i].asked => Free(t[i])

Sent(t, link) == {[link |-> link, id |-> t[i].id, key |-> t[i].key,
                   attempt |-> t[i].asked + 1] : i \in Batch(t)}

LEMMA DispatchSound ==
    ASSUME now \in Nat, NEW t, NEW nid \in Nat, NEW off, NEW car, NEW rq,
           Sound(t, nid, off, car, rq), Around(nid, off, car, rq),
           NEW link, NEW old, NEW last, From(t, old, last),
           NEW u, u = [i \in DOMAIN t |-> IF i \in Batch(t) THEN Ask(t[i]) ELSE t[i]]
    PROVE  /\ Sound(u, nid, off, car, rq \cup Sent(t, link))
           /\ Around(nid, off, car, rq \cup Sent(t, link))
           /\ AskedAlone(u, old, last)
<1>. DEFINE rq2 == rq \cup Sent(t, link)
<1>1. /\ t \in Seq(Flow) /\ Len(t) \in Nat /\ DOMAIN t = 1 .. Len(t)
      /\ \A i \in 1 .. Len(t) :
            /\ t[i] \in Flow /\ t[i].id \in 1 .. nid /\ t[i].key \in Keys
            /\ Settled(t[i]) /\ Waits(t[i], off, car) /\ Named(t[i], nid, rq)
  BY FlowThere
<1>2. \A i \in Batch(t) : i \in 1 .. Len(t) /\ Due(t[i])
  BY <1>1 DEF Batch
<1>3. \A r \in rq2 : \/ r \in rq
                     \/ \E i \in 1 .. Len(t) : r.id = t[i].id /\ r.key = t[i].key
  BY <1>2 DEF Sent
<1>4. DOMAIN u = DOMAIN t /\ u = [i \in DOMAIN u |-> u[i]]
  OBVIOUS
<1>5. \A i \in 1 .. Len(t) : u[i] = IF i \in Batch(t) THEN Ask(t[i]) ELSE t[i]
  BY <1>1
<1>. HIDE DEF rq2
<1>6. ASSUME NEW i \in 1 .. Len(t) PROVE Named(t[i], nid, rq2)
  <2>. SUFFICES ASSUME NEW r \in rq2
                PROVE  /\ r.id = t[i].id => r.key = t[i].key
                       /\ r.key = t[i].key => r.id <= t[i].id
    BY <1>1 DEF Named
  <2>1. CASE r \in rq
    BY <1>1, <2>1 DEF Named
  <2>2. CASE r \notin rq
    <3>1. PICK j \in 1 .. Len(t) : r.id = t[j].id /\ r.key = t[j].key
      BY <1>3, <2>2
    <3>2. i # j => t[i].id # t[j].id /\ t[i].key # t[j].key
      BY DEF Sound, Distinct
    <3>3. t[i].id \in Nat
      BY <1>1 DEF Flow
    <3>. QED  BY <3>1, <3>2, <3>3
  <2>. QED  BY <2>1, <2>2
<1>7. ASSUME NEW i \in 1 .. Len(t)
      PROVE  /\ u[i] \in Flow /\ Settled(u[i])
             /\ u[i].id = t[i].id /\ u[i].key = t[i].key
             /\ u[i].pending = t[i].pending
  <2>1. CASE i \in Batch(t)
    <3>1. u[i] = Ask(t[i]) /\ Settled(t[i]) /\ Due(t[i])
      BY <1>1, <1>2, <1>5, <2>1
    <3>. QED  BY <3>1, AskSettled
  <2>2. CASE i \notin Batch(t)
    BY <1>1, <1>5, <2>2
  <2>. QED  BY <2>1, <2>2
<1>8. u \in Seq(Flow) /\ Len(u) = Len(t)
  BY <1>1, <1>4, <1>7, MapFlows
<1>9. \A i \in 1 .. Len(t) : Waits(u[i], off, car) /\ Named(u[i], nid, rq2)
  <2>1. \A i \in 1 .. Len(t) : Waits(u[i], off, car)
    BY <1>1, <1>7 DEF Waits
  <2>2. \A i \in 1 .. Len(t) : Named(u[i], nid, rq2)
    BY <1>6, <1>7 DEF Named
  <2>. QED  BY <2>1, <2>2
<1>10. Sound(u, nid, off, car, rq2)
  BY <1>7, <1>8, <1>9, MapSound
<1>11. Around(nid, off, car, rq2)
  BY <1>1, <1>3 DEF Around
<1>12. AskedAlone(u, old, last)
  <2>. SUFFICES ASSUME NEW j \in 1 .. Len(t), ~(t[j].id > last)
                PROVE  \E i \in 1 .. Len(old) :
                          /\ u[j].id = old[i].id
                          /\ u[j].asked > old[i].asked => Free(old[i])
    BY <1>7, <1>8 DEF AskedAlone
  <2>1. PICK i \in 1 .. Len(old) : Kin(t[j], old[i])
    BY DEF From
  <2>2. u[j].id = old[i].id
    BY <1>7, <2>1 DEF Kin
  <2>3. CASE j \in Batch(t)
    <3>1. ~t[j].requested
      BY <1>2, <2>3 DEF Due
    <3>. QED  BY <2>1, <2>2, <3>1 DEF Kin, Free
  <2>4. CASE j \notin Batch(t)
    <3>1. u[j].asked = old[i].asked /\ u[j].asked \in Nat
      BY <1>1, <1>5, <2>1, <2>4 DEF Kin, Flow
    <3>2. ~(u[j].asked > old[i].asked)
      BY <3>1
    <3>. QED  BY <2>2, <3>2
  <2>. QED  BY <2>3, <2>4
<1>. QED  BY <1>10, <1>11, <1>12 DEF rq2

(* An answer that is overdue but not the last chance.                      *)
Late(f) == [f EXCEPT !.timeouts = @ + 1, !.requested = FALSE,
                     !.deadline = Never, !.retry_at = now]

LEMMA LateSettled ==
    ASSUME now \in Nat, NEW f, Settled(f), Overdue(f), ~LastChance(f)
    PROVE  /\ Settled(Late(f)) /\ Late(f) \in Flow /\ Kin(Late(f), f)
           /\ Late(f).id = f.id /\ Late(f).key = f.key
           /\ Late(f).pending = f.pending
<1>. DEFINE g == Late(f)
<1>1. f \in Flow /\ f.timeouts \in Nat /\ f.asked \in Nat
  BY DEF Settled, Flow
<1>2. f.deadline # Never /\ now >= f.deadline /\ f.timeouts + 1 < MaxAttempts
  BY <1>1, Constants DEF Overdue, LastChance
<1>3. f.state = "Pending" /\ f.requested
  BY <1>1, <1>2 DEF Settled, Timed, Flow
<1>4. g \in Flow
  <2>1. f.timeouts + 1 \in Nat
    BY <1>1
  <2>. QED  BY <1>1, <2>1 DEF Flow, Late, Never
<1>5. /\ g.id = f.id /\ g.key = f.key /\ g.pending = f.pending
      /\ g.state = f.state /\ g.token = f.token /\ ~g.requested
      /\ g.deadline = Never /\ g.timeouts = f.timeouts + 1
      /\ g.asked = f.asked /\ g.answered = f.answered
  BY <1>1 DEF Flow, Late
<1>. HIDE DEF g
<1>6. Timed(g) /\ Entitled(g)
  BY <1>3, <1>5 DEF Timed, Entitled
<1>7. Patient(g)
  BY <1>1, <1>2, <1>3, <1>5 DEF Settled, Patient
<1>8. Settled(g)
  BY <1>4, <1>5, <1>6, <1>7 DEF Settled
<1>9. Kin(g, f)
  BY <1>2, <1>5 DEF Kin, Free
<1>. QED  BY <1>4, <1>5, <1>8, <1>9 DEF g

LEMMA RetainFrom ==
    ASSUME NEW t \in Seq(Flow), NEW keep \in SUBSET (1 .. Len(t)),
           NEW old, NEW last, From(t, old, last)
    PROVE  From(Retained(t, keep), old, last)
<1>. DEFINE u == Retained(t, keep)
<1>1. \A j \in 1 .. Len(u) : \E i \in keep : u[j] = t[i]
  BY RetainedFlows
<1>. HIDE DEF u
<1>2. From(u, old, last)
  BY <1>1 DEF From
<1>. QED  BY <1>2 DEF u

LEMMA ExpireSound ==
    ASSUME now \in Nat, NEW t, NEW nid, NEW off, NEW car, NEW rq,
           Sound(t, nid, off, car, rq), NEW old, NEW last, From(t, old, last)
    PROVE  /\ Sound(expire_auths(t), nid, off, car, rq)
           /\ From(expire_auths(t), old, last)
<1>. DEFINE u == expire_auths(t)
            keep == {i \in DOMAIN t : ~(Overdue(t[i]) /\ LastChance(t[i]))}
            left == Retained(t, keep)
<1>1. DOMAIN t = 1 .. Len(t) /\ t \in Seq(Flow)
  BY FlowThere
<1>2. /\ \A i \in keep : ~(Overdue(t[i]) /\ LastChance(t[i]))
      /\ keep \in SUBSET (1 .. Len(t))
  BY <1>1
<1>3. u = [i \in DOMAIN left |-> IF Overdue(left[i]) THEN Late(left[i]) ELSE left[i]]
  BY DEF expire_auths, Late
<1>. HIDE DEF keep, u
<1>4. Sound(left, nid, off, car, rq) /\ From(left, old, last)
  BY <1>1, <1>2, RetainSound, RetainFrom
<1>5. \A i \in 1 .. Len(left) : \E j \in keep : left[i] = t[j]
  BY <1>1, <1>2, RetainedFlows
<1>. HIDE DEF left
<1>6. /\ left \in Seq(Flow) /\ Len(left) \in Nat /\ DOMAIN left = 1 .. Len(left)
      /\ \A i \in 1 .. Len(left) :
            /\ left[i] \in Flow /\ Settled(left[i])
            /\ Waits(left[i], off, car) /\ Named(left[i], nid, rq)
  BY <1>4, FlowThere
<1>7. DOMAIN u = DOMAIN left /\ u = [i \in DOMAIN u |-> u[i]]
  BY <1>3
<1>8. ASSUME NEW i \in 1 .. Len(left)
      PROVE  /\ u[i] \in Flow /\ Settled(u[i]) /\ Kin(u[i], left[i])
             /\ u[i].id = left[i].id /\ u[i].key = left[i].key
             /\ u[i].pending = left[i].pending
  <2>1. u[i] = IF Overdue(left[i]) THEN Late(left[i]) ELSE left[i]
    BY <1>3, <1>6
  <2>2. Settled(left[i]) /\ left[i] \in Flow
    BY <1>6
  <2>3. CASE Overdue(left[i])
    <3>1. ~LastChance(left[i])
      BY <1>2, <1>5, <2>3
    <3>2. u[i] = Late(left[i])
      BY <2>1, <2>3
    <3>. QED  BY <2>2, <2>3, <3>1, <3>2, LateSettled
  <2>4. CASE ~Overdue(left[i])
    <3>1. u[i] = left[i]
      BY <2>1, <2>4
    <3>. QED  BY <2>2, <3>1 DEF Kin
  <2>. QED  BY <2>3, <2>4
<1>9. u \in Seq(Flow) /\ Len(u) = Len(left)
  BY <1>6, <1>7, <1>8, MapFlows
<1>10. \A i \in 1 .. Len(left) : Waits(u[i], off, car)
  BY <1>6, <1>8 DEF Waits
<1>11. \A i \in 1 .. Len(left) : Named(u[i], nid, rq)
  BY <1>6, <1>8 DEF Named
<1>12. Sound(u, nid, off, car, rq)
  BY <1>4, <1>8, <1>9, <1>10, <1>11, MapSound
<1>13. From(u, old, last)
  <2>. SUFFICES ASSUME NEW j \in 1 .. Len(left)
                PROVE  u[j].id > last \/ \E i \in 1 .. Len(old) : Kin(u[j], old[i])
    BY <1>9 DEF From
  <2>1. Kin(u[j], left[j])
    BY <1>8
  <2>2. left[j].id > last \/ \E i \in 1 .. Len(old) : Kin(left[j], old[i])
    BY <1>4 DEF From
  <2>. QED  BY <2>1, <2>2 DEF Kin
<1>. QED  BY <1>12, <1>13 DEF u

(* The answers to a request: a token, or "again".                          *)
Authed(f, token) ==
    [f EXCEPT !.state = "Authenticated", !.token = token, !.pending = <<>>,
              !.deadline = Never, !.answered = TRUE]
Retried(f, delay) ==
    [f EXCEPT !.requested = FALSE, !.deadline = Never,
              !.retry_at = now + delay, !.answered = TRUE]

LEMMA AuthedSettled ==
    ASSUME NEW f, Settled(f), NEW token \in Token,
           Rightful(token, f.id, f.key)
    PROVE  /\ Settled(Authed(f, token)) /\ Authed(f, token) \in Flow
           /\ Authed(f, token).id = f.id /\ Authed(f, token).key = f.key
           /\ Authed(f, token).asked = f.asked
           /\ Authed(f, token).pending = <<>>
<1>. DEFINE g == Authed(f, token)
<1>1. f \in Flow /\ <<>> \in Seq(Nat)
  BY DEF Settled
<1>2. g \in Flow
  BY <1>1 DEF Flow, Authed, Never
<1>3. /\ g.id = f.id /\ g.key = f.key /\ g.pending = <<>>
      /\ g.state = "Authenticated" /\ g.token = token /\ g.deadline = Never
      /\ g.timeouts = f.timeouts /\ g.asked = f.asked /\ g.answered
  BY <1>1 DEF Flow, Authed
<1>. HIDE DEF g
<1>4. Timed(g) /\ Entitled(g)
  BY <1>3 DEF Timed, Entitled
<1>5. Patient(g)
  BY <1>3 DEF Settled, Patient
<1>6. Len(g.pending) = 0
  BY <1>3
<1>7. Settled(g)
  BY <1>2, <1>4, <1>5, <1>6, Constants DEF Settled, Ascending
<1>. QED  BY <1>2, <1>3, <1>7 DEF g

LEMMA RetriedSettled ==
    ASSUME now \in Nat, NEW f, Settled(f), f.state = "Pending", NEW delay \in Nat
    PROVE  /\ Settled(Retried(f, delay)) /\ Retried(f, delay) \in Flow
           /\ Retried(f, delay).id = f.id /\ Retried(f, delay).key = f.key
           /\ Retried(f, delay).asked = f.asked
           /\ Retried(f, delay).pending = f.pending
<1>. DEFINE g == Retried(f, delay)
<1>1. f \in Flow /\ now + delay \in Nat
  BY DEF Settled
<1>2. g \in Flow
  BY <1>1 DEF Flow, Retried, Never
<1>3. /\ g.id = f.id /\ g.key = f.key /\ g.pending = f.pending
      /\ g.state = "Pending" /\ ~g.requested /\ g.deadline = Never
      /\ g.timeouts = f.timeouts /\ g.asked = f.asked /\ g.answered
  BY <1>1 DEF Flow, Retried
<1>. HIDE DEF g
<1>4. Timed(g) /\ Entitled(g)
  BY <1>3 DEF Timed, Entitled
<1>5. Patient(g)
  BY <1>3 DEF Settled, Patient
<1>6. Settled(g)
  BY <1>2, <1>3, <1>4, <1>5 DEF Settled
<1>. QED  BY <1>2, <1>3, <1>6 DEF g

(* A flow put in the place of another.                                     *)
LEMMA Replaced ==
    ASSUME NEW t \in Seq(Flow), NEW i \in 1 .. Len(t), NEW g \in Flow
    PROVE  /\ [t EXCEPT ![i] = g] \in Seq(Flow)
           /\ Len([t EXCEPT ![i] = g]) = Len(t)
           /\ [t EXCEPT ![i] = g][i] = g
           /\ \A j \in 1 .. Len(t) : j # i => [t EXCEPT ![i] = g][j] = t[j]
  BY ExceptSeq

(* More is carried of a five-tuple, all of it as DeliveredMore asks.       *)
LEMMA AroundMore ==
    ASSUME NEW nid, NEW off, NEW car, NEW rq, Around(nid, off, car, rq),
           NEW k \in Keys, NEW s \in Seq(Carried),
           \A i \in 1 .. Len(s) :
              /\ s[i].packet <= off[k]
              /\ Rightful(s[i].token, s[i].flow, k)
              /\ \A c \in 1 .. Len(car[k]) : car[k][c].packet < s[i].packet
              /\ \A j \in 1 .. Len(s) : i < j => s[i].packet < s[j].packet,
           NEW car2, car2 = [car EXCEPT ![k] = car[k] \o s]
    PROVE  Around(nid, off, car2, rq)
<1>1. DOMAIN car = Keys /\ \A l \in Keys : Delivered(l, off, car)
  BY DEF Around
<1>2. car2[k] = car[k] \o s /\ DOMAIN car2 = Keys
      /\ \A l \in Keys : l # k => car2[l] = car[l]
  BY <1>1
<1>3. Delivered(k, off, car2)
  <2>1. Delivered(k, off, car) /\ car2[k] = car[k] \o s
    BY <1>1, <1>2
  <2>. QED  BY <2>1, DeliveredMore
<1>4. \A l \in Keys : l # k => Delivered(l, off, car2)
  BY <1>1, <1>2 DEF Delivered
<1>. QED  BY <1>2, <1>3, <1>4 DEF Around

(* A step in which no request goes out.                                    *)
LEMMA NoneAsked ==
    ASSUME NEW u \in Seq(Flow), NEW t, NEW nid,
           \A j \in 1 .. Len(u) :
              \/ u[j].id > nid
              \/ \E i \in 1 .. Len(t) : u[j].id = t[i].id /\ u[j].asked = t[i].asked
    PROVE  AskedAlone(u, t, nid)
<1>. SUFFICES ASSUME NEW j \in 1 .. Len(u), ~(u[j].id > nid)
              PROVE  \E i \in 1 .. Len(t) :
                        /\ u[j].id = t[i].id
                        /\ u[j].asked > t[i].asked => Free(t[i])
  BY DEF AskedAlone
<1>1. PICK i \in 1 .. Len(t) : u[j].id = t[i].id /\ u[j].asked = t[i].asked
  OBVIOUS
<1>2. u[j].asked \in Nat
  <2>1. u[j] \in Flow
    BY ElementOfSeq
  <2>. QED  BY <2>1 DEF Flow
<1>3. ~(u[j].asked > t[i].asked)
  BY <1>1, <1>2
<1>. QED  BY <1>1, <1>3

-----------------------------------------------------------------------------
(* The invariant, action by action.                                        *)

Step == IInv' /\ AskedAlone(table', table, next_id)

LEMMA Holds ==
    ASSUME IInv
    PROVE  /\ now \in Nat /\ next_id \in Nat /\ next_id <= MaxIds
           /\ offered \in [Keys -> Nat] /\ DOMAIN carried = Keys
           /\ table \in Seq(Flow) /\ DOMAIN table = 1 .. Len(table)
           /\ Sound(table, next_id, offered, carried, requests)
           /\ Around(next_id, offered, carried, requests)
           /\ From(table, table, next_id)
<1>1. Sound(table, next_id, offered, carried, requests)
  BY DEF IInv
<1>2. table \in Seq(Flow) /\ DOMAIN table = 1 .. Len(table)
  BY <1>1, FlowThere
<1>3. \A i \in 1 .. Len(table) : Kin(table[i], table[i])
  BY DEF Kin
<1>. QED  BY <1>1, <1>2, <1>3 DEF IInv, Around, From

(* The table stays.                                                        *)
LEMMA TableStays ==
    ASSUME IInv, UNCHANGED <<table, next_id, offered, carried>>,
           requests' \in SUBSET requests, links' \subseteq Links, now' \in Nat
    PROVE  Step
<1>1. next_id <= next_id /\ \A k \in Keys : offered[k] <= offered[k]
  BY Holds
<1>2. Sound(table, next_id, offered, carried, requests')
  BY <1>1, Holds, SoundGrows
<1>3. Around(next_id, offered, carried, requests')
  BY <1>1, Holds, AroundGrows
<1>4. AskedAlone(table, table, next_id)
  BY Holds, NoneAsked
<1>. QED  BY <1>2, <1>3, <1>4 DEF Step, IInv

(* A packet of the local stack.                                            *)
LEMMA SendStep ==
    ASSUME IInv, NEW k \in Keys, NEW link \in Links, send_packet(k, link)
    PROVE  Step
<1>. DEFINE packet == offered[k] + 1
<1>1. /\ now \in Nat /\ next_id \in Nat /\ next_id <= MaxIds
      /\ offered \in [Keys -> Nat] /\ DOMAIN carried = Keys
      /\ Sound(table, next_id, offered, carried, requests)
      /\ Around(next_id, offered, carried, requests)
  BY Holds
<1>. DEFINE u == observe(get_or_create(table, k), k)
<1>2. PICK i \in IndexOfKey(u, k) :
         /\ u[i].id <= MaxIds
         /\ next_id' = IF u[i].id > next_id THEN u[i].id ELSE next_id
         /\ \/ /\ u[i].state = "Authenticated" /\ table' = u
               /\ carried' = [carried EXCEPT ![k] =
                     Append(@, [packet |-> packet, token |-> u[i].token,
                                flow |-> u[i].id])]
               /\ UNCHANGED requests
            \/ /\ u[i].state = "Pending"
               /\ IF cache_packet(u, i, packet) = u
                  THEN table' = u /\ UNCHANGED requests
                  ELSE dispatch_auths(cache_packet(u, i, packet), link)
               /\ UNCHANGED carried
  BY DEF send_packet
<1>. HIDE DEF u
<1>3. offered' = [offered EXCEPT ![k] = packet] /\ UNCHANGED <<links, now>>
  BY DEF send_packet
<1>4. Provided(u, k)
  BY <1>1, GetOrCreateSound DEF u
<1>5. PICK nid \in {next_id, next_id + 1} :
         /\ Sound(u, nid, offered, carried, requests)
         /\ nid = IF u[i].id > next_id THEN u[i].id ELSE next_id
  BY <1>4 DEF Provided
<1>6. From(u, table, next_id)
  BY <1>4 DEF Provided
<1>. HIDE DEF packet
<1>7. /\ nid \in Nat /\ next_id <= nid /\ nid <= MaxIds /\ next_id' = nid
  BY <1>1, <1>2, <1>5
<1>8. /\ offered[k] \in Nat /\ packet \in Nat /\ offered[k] < packet
      /\ offered' \in [Keys -> Nat] /\ offered'[k] = packet
      /\ \A l \in Keys : offered[l] <= offered'[l]
  BY <1>1, <1>3 DEF packet
<1>9. Around(nid, offered', carried, requests)
  <2>1. requests \in SUBSET requests
    OBVIOUS
  <2>. QED  BY <1>1, <1>7, <1>8, <2>1, AroundGrows
<1>10. Sound(u, nid, offered', carried, requests)
  <2>1. requests \in SUBSET requests /\ nid <= nid
    BY <1>7
  <2>. QED  BY <1>1, <1>5, <1>7, <1>8, <2>1, SoundGrows
<1>11. /\ u \in Seq(Flow) /\ Len(u) \in Nat /\ DOMAIN u = 1 .. Len(u)
       /\ \A j \in 1 .. Len(u) : u[j] \in Flow /\ Settled(u[j])
                                 /\ Waits(u[j], offered, carried)
  BY <1>5, FlowThere
<1>12. i \in 1 .. Len(u) /\ u[i].key = k
  BY <1>2, <1>11 DEF IndexOfKey
<1>13. links' \subseteq Links /\ now' \in Nat
  BY <1>1, <1>3 DEF IInv
<1>14. AskedAlone(u, table, next_id)
  BY <1>6, <1>11, NoneAsked DEF From, Kin
<1>15. CASE /\ u[i].state = "Authenticated" /\ table' = u
            /\ carried' = [carried EXCEPT ![k] =
                  Append(@, [packet |-> packet, token |-> u[i].token,
                             flow |-> u[i].id])]
            /\ UNCHANGED requests
  <2>. DEFINE x == [packet |-> packet, token |-> u[i].token, flow |-> u[i].id]
              s == <<x>>
  <2>1. u[i] \in Flow /\ Entitled(u[i])
    BY <1>11, <1>12 DEF Settled
  <2>2. u[i].pending = <<>> /\ Rightful(u[i].token, u[i].id, k)
    BY <1>12, <1>15, <2>1 DEF Entitled
  <2>3. x \in Carried
    BY <1>8, <2>1 DEF Carried, Flow
  <2>4. carried[k] \in Seq(Carried)
        /\ \A c \in 1 .. Len(carried[k]) : carried[k][c].packet <= offered[k]
    BY <1>1 DEF Around, Delivered
  <2>5. carried' = [carried EXCEPT ![k] = carried[k] \o s]
    <3>1. Append(carried[k], x) = carried[k] \o s
      BY <2>3, <2>4, AppendIsConcat
    <3>. QED  BY <1>15, <3>1
  <2>6. /\ x.packet = packet /\ Rightful(x.token, x.flow, k)
    BY <2>2
  <2>. HIDE DEF x
  <2>7. s \in Seq(Carried) /\ Len(s) = 1 /\ s[1] = x
    BY <2>3
  <2>8. \A c \in 1 .. Len(carried[k]) : carried[k][c].packet < packet
    <3>1. \A c \in 1 .. Len(carried[k]) : carried[k][c] \in Carried
      BY <2>4, ElementOfSeq
    <3>2. \A c \in 1 .. Len(carried[k]) : carried[k][c].packet \in Nat
      BY <3>1 DEF Carried
    <3>. QED  BY <1>8, <2>4, <3>2
  <2>. HIDE DEF s
  <2>9. \A j \in 1 .. Len(s) :
           /\ s[j].packet <= offered'[k]
           /\ Rightful(s[j].token, s[j].flow, k)
           /\ \A c \in 1 .. Len(carried[k]) : carried[k][c].packet < s[j].packet
           /\ \A l \in 1 .. Len(s) : j < l => s[j].packet < s[l].packet
    <3>1. \A j \in 1 .. Len(s) : j = 1 /\ s[j] = x
      BY <2>7
    <3>2. \A j, l \in 1 .. Len(s) : ~(j < l)
      BY <2>7
    <3>. QED  BY <1>8, <2>6, <2>8, <3>1, <3>2
  <2>10. Around(nid, offered', carried', requests)
    BY <1>9, <2>5, <2>7, <2>9, AroundMore
  <2>11. Sound(u, nid, offered', carried', requests)
    <3>1. \A l \in Keys : l # u[i].key => carried'[l] = carried[l]
      BY <1>1, <1>12, <2>5
    <3>. QED  BY <1>10, <1>12, <2>2, <3>1, CarriedSound
  <2>. QED  BY <1>7, <1>13, <1>14, <1>15, <2>10, <2>11 DEF Step, IInv
<1>16. CASE /\ u[i].state = "Pending"
            /\ IF cache_packet(u, i, packet) = u
               THEN table' = u /\ UNCHANGED requests
               ELSE dispatch_auths(cache_packet(u, i, packet), link)
            /\ UNCHANGED carried
  <2>. DEFINE c == cache_packet(u, i, packet)
  <2>1. Delivered(k, offered, carried)
    BY <1>1 DEF Around
  <2>2. Sound(c, nid, offered', carried, requests) /\ KinOf(c, u)
    <3>1. /\ nid \in Nat /\ offered \in [Keys -> Nat] /\ offered' \in [Keys -> Nat]
          /\ i \in 1 .. Len(u) /\ k = u[i].key /\ u[i].state = "Pending"
      BY <1>1, <1>7, <1>8, <1>12, <1>16
    <3>2. Offers(k, packet, offered, offered')
      BY <1>8, <3>1 DEF Offers, packet
    <3>3. Sound(c, nid, offered', carried, requests)
      BY ONLY <1>5, <2>1, <3>1, <3>2, CacheSound
    <3>4. KinOf(c, u)
      BY ONLY <1>5, <2>1, <3>1, <3>2, CacheSound
    <3>. QED  BY <3>3, <3>4
  <2>3. c = u => table' = u /\ UNCHANGED requests
    BY <1>16
  <2>4. c # u => dispatch_auths(c, link)
    BY <1>16
  <2>. HIDE DEF c
  <2>5. CASE c = u
    <3>1. table' = u /\ UNCHANGED <<requests, carried>>
      BY <1>16, <2>3, <2>5
    <3>. QED  BY <1>7, <1>9, <1>10, <1>13, <1>14, <3>1 DEF Step, IInv
  <2>6. CASE c # u
    <3>1. /\ table' = [j \in DOMAIN c |-> IF j \in Batch(c) THEN Ask(c[j]) ELSE c[j]]
          /\ requests' = requests \cup Sent(c, link) /\ UNCHANGED carried
      BY <1>16, <2>4, <2>6 DEF dispatch_auths, Sent
    <3>2. From(c, table, next_id)
      BY <1>6, <2>2 DEF From, Kin, KinOf
    <3>3. /\ Sound(table', nid, offered', carried, requests')
          /\ Around(nid, offered', carried, requests')
          /\ AskedAlone(table', table, next_id)
      BY <1>1, <1>7, <1>9, <2>2, <3>1, <3>2, DispatchSound
    <3>. QED  BY <1>7, <1>13, <3>1, <3>3 DEF Step, IInv
  <2>. QED  BY <2>5, <2>6
<1>. QED  BY <1>2, <1>15, <1>16

(* The scan of a connection, and a tick without one.                       *)
LEMMA ExpiredSound ==
    ASSUME IInv
    PROVE  /\ Sound(remove_expired(table), next_id, offered, carried, requests)
           /\ From(remove_expired(table), table, next_id)
<1>. DEFINE keep == {i \in DOMAIN table : now <= table[i].expires_at}
<1>1. /\ Sound(table, next_id, offered, carried, requests)
      /\ From(table, table, next_id) /\ table \in Seq(Flow)
      /\ DOMAIN table = 1 .. Len(table)
  BY Holds
<1>2. keep \in SUBSET (1 .. Len(table)) /\ remove_expired(table) = Retained(table, keep)
  BY <1>1 DEF remove_expired
<1>. HIDE DEF keep
<1>3. Sound(Retained(table, keep), next_id, offered, carried, requests)
  BY <1>1, <1>2, RetainSound
<1>4. From(Retained(table, keep), table, next_id)
  BY <1>1, <1>2, RetainFrom
<1>. QED  BY <1>2, <1>3, <1>4

LEMMA ScanStep ==
    ASSUME IInv, NEW link \in Links, Scan(link)
    PROVE  Step
<1>. DEFINE t == expire_auths(remove_expired(table))
<1>1. /\ now \in Nat /\ next_id \in Nat
      /\ Around(next_id, offered, carried, requests)
  BY Holds
<1>2. Sound(t, next_id, offered, carried, requests) /\ From(t, table, next_id)
  BY <1>1, ExpiredSound, ExpireSound
<1>3. dispatch_auths(t, link) /\ UNCHANGED <<next_id, links, now, offered, carried>>
  BY DEF Scan
<1>. HIDE DEF t
<1>4. /\ table' = [j \in DOMAIN t |-> IF j \in Batch(t) THEN Ask(t[j]) ELSE t[j]]
      /\ requests' = requests \cup Sent(t, link)
  BY <1>3 DEF dispatch_auths, Sent
<1>5. /\ Sound(table', next_id, offered, carried, requests')
      /\ Around(next_id, offered, carried, requests')
      /\ AskedAlone(table', table, next_id)
  BY <1>1, <1>2, <1>4, DispatchSound
<1>. QED  BY <1>3, <1>5 DEF Step, IInv

LEMMA TickStep ==
    ASSUME IInv, Tick
    PROVE  Step
<1>1. /\ table' = remove_expired(table)
      /\ UNCHANGED <<next_id, links, requests, now, offered, carried>>
  BY DEF Tick
<1>2. /\ Sound(table', next_id, offered, carried, requests)
      /\ From(table', table, next_id)
  BY <1>1, ExpiredSound
<1>3. table' \in Seq(Flow)
  BY <1>2, FlowThere
<1>4. AskedAlone(table', table, next_id)
  BY <1>2, <1>3, NoneAsked DEF From, Kin
<1>. QED  BY <1>1, <1>2, <1>4 DEF Step, IInv

(* A packet of the gateway.                                                *)
LEMMA IngressStep ==
    ASSUME IInv, NEW k \in Keys, Ingress(k)
    PROVE  Step
<1>1. /\ table' = observe(table, k)
      /\ UNCHANGED <<next_id, links, requests, now, offered, carried>>
  BY DEF Ingress
<1>2. now \in Nat /\ Sound(table, next_id, offered, carried, requests)
  BY Holds
<1>3. /\ Sound(table', next_id, offered, carried, requests)
      /\ Len(table') = Len(table)
      /\ \A i \in 1 .. Len(table) : Kin(table'[i], table[i])
  BY <1>1, <1>2, ObserveSound
<1>4. table' \in Seq(Flow)
  BY <1>3, FlowThere
<1>5. AskedAlone(table', table, next_id)
  BY <1>3, <1>4, NoneAsked DEF Kin
<1>. QED  BY <1>1, <1>3, <1>5 DEF Step, IInv

(* The flow an answer is for: what the answer brings is its own, as far as *)
(* the answer said whose it is.                                            *)
LEMMA AnswerNames ==
    ASSUME IInv, NEW r \in requests, NEW echoed \in BOOLEAN,
           NEW fits \in Descriptions(r.key), NEW i \in Answered(r, echoed, fits)
    PROVE  /\ i \in 1 .. Len(table)
           /\ Granted(r, echoed, fits) \in Token
           /\ Rightful(Granted(r, echoed, fits), table[i].id, table[i].key)
<1>. DEFINE token == Granted(r, echoed, fits)
<1>1. /\ DOMAIN table = 1 .. Len(table)
      /\ Sound(table, next_id, offered, carried, requests)
      /\ Around(next_id, offered, carried, requests)
  BY Holds
<1>2. r.id \in 1 .. next_id /\ next_id \in Nat /\ r.key \in Keys
  BY <1>1 DEF Around
<1>3. /\ token.id = r.id /\ token.key = r.key
      /\ token.exact <=> Recalls(r, echoed) \/ fits = {r.key}
      /\ token \in Token
  <2>1. (Recalls(r, echoed) \/ fits = {r.key}) \in BOOLEAN
    BY DEF Recalls
  <2>2. r.id \in Nat
    BY <1>2
  <2>. QED  BY <1>2, <2>1, <2>2 DEF Granted, Token
<1>. HIDE DEF token
<1>4. /\ i \in 1 .. Len(table)
      /\ Recalls(r, echoed) => table[i].id = r.id
      /\ ~Recalls(r, echoed) => table[i].key \in fits
  BY <1>1 DEF Answered, IndexOfId, find_flow_by_ip
<1>5. table[i].id \in Nat /\ Named(table[i], next_id, requests)
  BY <1>1, <1>4, FlowThere
<1>6. ASSUME token.exact PROVE table[i].key = r.key
  <2>1. CASE Recalls(r, echoed)
    BY <1>4, <1>5, <2>1 DEF Named
  <2>2. CASE ~Recalls(r, echoed)
    BY <1>3, <1>4, <1>6, <2>2
  <2>. QED  BY <2>1, <2>2
<1>7. table[i].key = r.key => r.id \in 1 .. table[i].id
  BY <1>2, <1>5 DEF Named
<1>8. Hosts[r.key] = Hosts[table[i].key]
  <2>1. CASE Recalls(r, echoed)
    BY <1>3, <1>6, <2>1
  <2>2. CASE ~Recalls(r, echoed)
    <3>1. fits \subseteq SameHosts(r.key)
      BY DEF Descriptions
    <3>. QED  BY <1>4, <2>2, <3>1 DEF SameHosts
  <2>. QED  BY <2>1, <2>2
<1>9. Rightful(token, table[i].id, table[i].key)
  BY <1>3, <1>6, <1>7, <1>8 DEF Rightful
<1>. QED  BY <1>3, <1>4, <1>9 DEF token

(* A token: what waited in the flow is flushed behind what was carried.    *)
LEMMA TokenStep ==
    ASSUME IInv, NEW r \in requests, NEW i \in 1 .. Len(table),
           NEW token \in Token, Rightful(token, table[i].id, table[i].key),
           table' = Authenticate(table, i, token), Flush(i, token),
           requests' = requests \ {r},
           UNCHANGED <<next_id, links, now, offered>>
    PROVE  Step
<1>. DEFINE f == table[i]
            k == f.key
            g == Authed(f, token)
            s == [j \in DOMAIN f.pending |->
                    [packet |-> f.pending[j], token |-> token, flow |-> f.id]]
<1>1. /\ now \in Nat /\ next_id \in Nat /\ next_id <= MaxIds
      /\ offered \in [Keys -> Nat] /\ DOMAIN carried = Keys /\ table \in Seq(Flow)
      /\ Sound(table, next_id, offered, carried, requests)
      /\ Around(next_id, offered, carried, requests)
  BY Holds
<1>2. i \in 1 .. Len(table) /\ token \in Token /\ Rightful(token, f.id, k)
  OBVIOUS
<1>3. /\ f \in Flow /\ Settled(f) /\ Waits(f, offered, carried)
      /\ k \in Keys /\ f.id \in Nat
  BY <1>1, <1>2, FlowThere
<1>4. carried' = [carried EXCEPT ![k] = carried[k] \o s]
  BY DEF Flush
<1>5. token \in Token /\ Rightful(token, f.id, k)
  BY <1>2
<1>6. /\ Settled(g) /\ g \in Flow /\ g.id = f.id /\ g.key = k
      /\ g.asked = f.asked /\ g.pending = <<>>
  BY <1>3, <1>5, AuthedSettled
<1>7. table' = [table EXCEPT ![i] = g]
  BY <1>1, <1>2 DEF Authenticate, Authed
<1>8. f.pending \in Seq(Nat) /\ DOMAIN f.pending = 1 .. Len(f.pending)
      /\ Len(f.pending) \in Nat
  BY <1>3, LenProperties DEF Flow
<1>9. \A j \in 1 .. Len(f.pending) : f.pending[j] \in Nat
  BY <1>8, ElementOfSeq
<1>. HIDE DEF g, f
<1>10. /\ s \in Seq(Carried) /\ Len(s) = Len(f.pending)
       /\ \A j \in 1 .. Len(f.pending) :
             s[j].packet = f.pending[j] /\ s[j].token = token /\ s[j].flow = f.id
  <2>1. \A j \in 1 .. Len(f.pending) :
           [packet |-> f.pending[j], token |-> token, flow |-> f.id] \in Carried
    BY <1>3, <1>5, <1>9 DEF Carried
  <2>2. s \in [1 .. Len(f.pending) -> Carried]
    BY <1>8, <2>1
  <2>3. s \in Seq(Carried) /\ Len(s) = Len(f.pending)
    BY <1>8, <2>2
  <2>4. \A j \in 1 .. Len(f.pending) :
           s[j] = [packet |-> f.pending[j], token |-> token, flow |-> f.id]
    BY <1>8
  <2>. HIDE DEF s
  <2>5. ASSUME NEW j \in 1 .. Len(f.pending)
        PROVE  s[j].packet = f.pending[j] /\ s[j].token = token /\ s[j].flow = f.id
    <3>1. s[j] = [packet |-> f.pending[j], token |-> token, flow |-> f.id]
      BY <2>4
    <3>. QED  BY ONLY <3>1
  <2>. QED  BY <2>3, <2>5
<1>. HIDE DEF s, k
<1>11. \A j \in 1 .. Len(s) :
          /\ s[j].packet <= offered[k]
          /\ Rightful(s[j].token, s[j].flow, k)
          /\ \A c \in 1 .. Len(carried[k]) : carried[k][c].packet < s[j].packet
          /\ \A l \in 1 .. Len(s) : j < l => s[j].packet < s[l].packet
  <2>1. \A j \in 1 .. Len(f.pending) :
           /\ f.pending[j] <= offered[k]
           /\ \A c \in 1 .. Len(carried[k]) : carried[k][c].packet < f.pending[j]
    BY <1>3 DEF Waits, k
  <2>2. Ascending(f.pending)
    BY <1>3 DEF Settled
  <2>3. \A j, l \in 1 .. Len(s) : j < l => s[j].packet < s[l].packet
    BY <1>10, <2>2 DEF Ascending
  <2>. QED  BY <1>5, <1>10, <2>1, <2>3
<1>12. requests' \in SUBSET requests
  OBVIOUS
<1>13. Around(next_id, offered, carried', requests')
  <2>1. \A l \in Keys : offered[l] <= offered[l]
    BY <1>1
  <2>2. Around(next_id, offered, carried, requests')
    BY <1>1, <1>12, <2>1, AroundGrows
  <2>. QED  BY <1>3, <1>4, <1>10, <1>11, <2>2, AroundMore
<1>14. /\ table' \in Seq(Flow) /\ Len(table') = Len(table) /\ table'[i] = g
       /\ \A j \in 1 .. Len(table) : j # i => table'[j] = table[j]
  <2>1. table \in Seq(Flow) /\ i \in 1 .. Len(table) /\ g \in Flow
    BY <1>1, <1>2, <1>6
  <2>2. /\ [table EXCEPT ![i] = g] \in Seq(Flow)
        /\ Len([table EXCEPT ![i] = g]) = Len(table)
        /\ [table EXCEPT ![i] = g][i] = g
        /\ \A j \in 1 .. Len(table) : j # i => [table EXCEPT ![i] = g][j] = table[j]
    BY ONLY <2>1, Replaced
  <2>. QED  BY <1>7, <2>2
<1>15. Sound(table', next_id, offered, carried, requests)
  <2>1. Len(g.pending) = 0
    BY <1>6
  <2>2. Waits(g, offered, carried)
    BY <2>1 DEF Waits
  <2>. QED  BY <1>1, <1>2, <1>6, <1>14, <2>2, UpdateSound DEF f, k
<1>16. Sound(table', next_id, offered, carried', requests)
  <2>1. \A l \in Keys : l # k => carried'[l] = carried[l]
    BY <1>1, <1>4
  <2>. QED  BY <1>2, <1>6, <1>14, <1>15, <2>1, CarriedSound
<1>17. Sound(table', next_id, offered, carried', requests')
  <2>1. /\ next_id <= next_id /\ \A l \in Keys : offered[l] <= offered[l]
    BY <1>1
  <2>. QED  BY <1>1, <1>12, <1>16, <2>1, SoundGrows
<1>18. AskedAlone(table', table, next_id)
  <2>1. \A j \in 1 .. Len(table) :
           table'[j].id = table[j].id /\ table'[j].asked = table[j].asked
    BY <1>6, <1>14 DEF f
  <2>. QED  BY <1>14, <2>1, NoneAsked
<1>. QED  BY <1>13, <1>17, <1>18 DEF Step, IInv

(* A refusal.                                                              *)
LEMMA RefusalStep ==
    ASSUME IInv, NEW r, NEW i, table' = Without(table, i),
           requests' = requests \ {r},
           UNCHANGED <<next_id, links, now, offered, carried>>
    PROVE  Step
<1>1. /\ now \in Nat /\ next_id \in Nat /\ offered \in [Keys -> Nat]
      /\ table \in Seq(Flow) /\ DOMAIN table = 1 .. Len(table)
      /\ Sound(table, next_id, offered, carried, requests)
      /\ Around(next_id, offered, carried, requests)
      /\ From(table, table, next_id) /\ next_id <= MaxIds
  BY Holds
<1>2. Sound(table', next_id, offered, carried, requests)
  BY <1>1, WithoutSound
<1>3. requests' \in SUBSET requests /\ next_id <= next_id
      /\ \A l \in Keys : offered[l] <= offered[l]
  BY <1>1
<1>4. /\ Sound(table', next_id, offered, carried, requests')
      /\ Around(next_id, offered, carried, requests')
  BY <1>1, <1>2, <1>3, SoundGrows, AroundGrows
<1>5. From(table', table, next_id)
  <2>1. DOMAIN table \ {i} \in SUBSET (1 .. Len(table))
    BY <1>1
  <2>2. From(Retained(table, DOMAIN table \ {i}), table, next_id)
    BY <1>1, <2>1, RetainFrom
  <2>. QED  BY <2>2 DEF Without
<1>6. table' \in Seq(Flow)
  BY <1>2, FlowThere
<1>7. AskedAlone(table', table, next_id)
  BY <1>5, <1>6, NoneAsked DEF From, Kin
<1>. QED  BY <1>4, <1>7 DEF Step, IInv

(* "Again", at once or later.                                              *)
LEMMA AgainStep ==
    ASSUME IInv, NEW r \in requests, NEW i \in 1 .. Len(table),
           table[i].state = "Pending", NEW delay \in Nat,
           table' = retry_auth(table, i, delay), requests' = requests \ {r},
           UNCHANGED <<next_id, links, now, offered, carried>>
    PROVE  Step
<1>. DEFINE g == Retried(table[i], delay)
<1>1. /\ now \in Nat /\ next_id \in Nat /\ offered \in [Keys -> Nat]
      /\ table \in Seq(Flow) /\ next_id <= MaxIds
      /\ Sound(table, next_id, offered, carried, requests)
      /\ Around(next_id, offered, carried, requests)
  BY Holds
<1>2. i \in 1 .. Len(table)
  OBVIOUS
<1>3. Settled(table[i]) /\ Waits(table[i], offered, carried)
  BY <1>1, <1>2, FlowThere
<1>4. /\ Settled(g) /\ g \in Flow /\ g.id = table[i].id /\ g.key = table[i].key
      /\ g.asked = table[i].asked /\ g.pending = table[i].pending
  BY <1>1, <1>3, RetriedSettled
<1>5. table' = [table EXCEPT ![i] = g]
  BY <1>1, <1>2 DEF retry_auth, Retried
<1>. HIDE DEF g
<1>6. /\ table' \in Seq(Flow) /\ Len(table') = Len(table) /\ table'[i] = g
      /\ \A j \in 1 .. Len(table) : j # i => table'[j] = table[j]
  BY <1>1, <1>2, <1>4, <1>5, Replaced
<1>7. Waits(g, offered, carried)
  BY <1>3, <1>4 DEF Waits
<1>8. Sound(table', next_id, offered, carried, requests)
  BY <1>1, <1>2, <1>4, <1>6, <1>7, UpdateSound
<1>9. requests' \in SUBSET requests /\ next_id <= next_id
      /\ \A l \in Keys : offered[l] <= offered[l]
  BY <1>1
<1>10. /\ Sound(table', next_id, offered, carried, requests')
       /\ Around(next_id, offered, carried, requests')
  BY <1>1, <1>8, <1>9, SoundGrows, AroundGrows
<1>11. AskedAlone(table', table, next_id)
  <2>1. \A j \in 1 .. Len(table) :
           table'[j].id = table[j].id /\ table'[j].asked = table[j].asked
    BY <1>4, <1>6
  <2>. QED  BY <1>6, <2>1, NoneAsked
<1>. QED  BY <1>10, <1>11 DEF Step, IInv

LEMMA AnswerStep ==
    ASSUME IInv, NEW r \in requests, handle_auth_response(r)
    PROVE  Step
<1>1. requests' = requests \ {r} /\ UNCHANGED <<next_id, links, now, offered>>
  BY DEF handle_auth_response
<1>2. CASE UNCHANGED <<table, carried>>
  <2>1. requests' \in SUBSET requests /\ links' \subseteq Links /\ now' \in Nat
    BY <1>1 DEF IInv
  <2>. QED  BY <1>1, <1>2, <2>1, TableStays
<1>3. PICK echoed \in BOOLEAN, fits \in Descriptions(r.key) :
         \/ UNCHANGED <<table, carried>>
         \/ \E i \in Answered(r, echoed, fits) :
               /\ table[i].state = "Pending"
               /\ \/ \E token \in {Granted(r, echoed, fits)} :
                        table' = Authenticate(table, i, token) /\ Flush(i, token)
                  \/ table' = Without(table, i) /\ UNCHANGED carried
                  \/ /\ \E delay \in {0, RetryWait} :
                           table' = retry_auth(table, i, delay)
                     /\ UNCHANGED carried
  BY DEF handle_auth_response
<1>4. ASSUME NEW i \in Answered(r, echoed, fits), table[i].state = "Pending",
             NEW token \in {Granted(r, echoed, fits)},
             table' = Authenticate(table, i, token), Flush(i, token)
      PROVE  Step
  <2>1. /\ i \in 1 .. Len(table) /\ token \in Token
        /\ Rightful(token, table[i].id, table[i].key)
    BY AnswerNames
  <2>. QED  BY <1>1, <1>4, <2>1, TokenStep
<1>5. ASSUME NEW i \in Answered(r, echoed, fits), table' = Without(table, i),
             UNCHANGED carried
      PROVE  Step
  BY <1>1, <1>5, RefusalStep
<1>6. ASSUME NEW i \in Answered(r, echoed, fits), table[i].state = "Pending",
             NEW delay \in {0, RetryWait},
             table' = retry_auth(table, i, delay), UNCHANGED carried
      PROVE  Step
  <2>1. i \in 1 .. Len(table) /\ delay \in Nat
    BY AnswerNames, Constants
  <2>. QED  BY <1>1, <1>6, <2>1, AgainStep
<1>. QED  BY <1>2, <1>3, <1>4, <1>5, <1>6

LEMMA InitSound == Init => IInv
<1>. SUFFICES ASSUME Init PROVE IInv
  OBVIOUS
<1>1. /\ table = <<>> /\ next_id = 0 /\ links = Links /\ requests = {}
      /\ carried = [k \in Keys |-> <<>>]
  BY DEF Init
<1>2. now \in Nat /\ offered \in [Keys -> Nat]
  <2>1. PICK s \in Starts : now = s.now /\ offered = s.offered
    BY DEF Init
  <2>2. s \in [now : 1 .. MaxTime, offered : [Keys -> 0 .. MaxPackets]]
    BY Constants
  <2>3. s.now \in Nat /\ s.offered \in [Keys -> 0 .. MaxPackets]
    BY <2>2
  <2>. QED  BY <2>1, <2>3
<1>3. Sound(table, next_id, offered, carried, requests)
  <2>1. table \in Seq(Flow) /\ Len(table) = 0
    BY <1>1
  <2>. QED  BY <2>1, Constants DEF Sound, Distinct
<1>4. \A k \in Keys : Delivered(k, offered, carried)
  <2>. SUFFICES ASSUME NEW k \in Keys PROVE Delivered(k, offered, carried)
    OBVIOUS
  <2>1. carried[k] \in Seq(Carried) /\ Len(carried[k]) = 0
    BY <1>1
  <2>. QED  BY <2>1 DEF Delivered
<1>5. Around(next_id, offered, carried, requests)
  BY <1>1, <1>2, <1>4, Constants DEF Around
<1>. QED  BY <1>1, <1>2, <1>3, <1>5 DEF IInv

LEMMA NextSound == IInv /\ Next => Step
<1>. SUFFICES ASSUME IInv, Next PROVE Step
  OBVIOUS
<1>1. ASSUME NEW k \in Keys, Ingress(k) PROVE Step
  BY <1>1, IngressStep
<1>2. ASSUME NEW k \in Keys, NEW l \in Links, send_packet(k, l) PROVE Step
  BY <1>2, SendStep
<1>3. ASSUME NEW l \in Links, Scan(l) PROVE Step
  BY <1>3, ScanStep
<1>4. ASSUME NEW l \in Links, LinkDrops(l) PROVE Step
  BY <1>4, TableStays DEF LinkDrops, IInv
<1>5. ASSUME NEW l \in Links, LinkUp(l) PROVE Step
  <2>1. UNCHANGED <<table, next_id, offered, carried, requests, now>>
        /\ links' = links \cup {l}
    BY <1>5 DEF LinkUp
  <2>2. requests' \in SUBSET requests /\ links' \subseteq Links /\ now' \in Nat
    BY <2>1 DEF IInv
  <2>. QED  BY <2>1, <2>2, TableStays
<1>6. ASSUME NEW r \in requests, handle_auth_response(r) PROVE Step
  BY <1>6, AnswerStep
<1>7. CASE Tick
  BY <1>7, TickStep
<1>8. CASE PassTime
  <2>1. UNCHANGED <<table, next_id, offered, carried, requests, links>>
        /\ now' = now + 1
    BY <1>8 DEF PassTime
  <2>2. requests' \in SUBSET requests /\ links' \subseteq Links /\ now' \in Nat
    BY <2>1 DEF IInv
  <2>. QED  BY <2>1, <2>2, TableStays
<1>. QED  BY <1>1, <1>2, <1>3, <1>4, <1>5, <1>6, <1>7, <1>8 DEF Next

LEMMA StutterSound == IInv /\ UNCHANGED vars => Step
<1>. SUFFICES ASSUME IInv, UNCHANGED vars PROVE Step
  OBVIOUS
<1>1. UNCHANGED <<table, next_id, links, requests, now, offered, carried>>
  BY DEF vars
<1>2. requests' \in SUBSET requests /\ links' \subseteq Links /\ now' \in Nat
  BY <1>1 DEF IInv
<1>. QED  BY <1>1, <1>2, TableStays

LEMMA Invariant == Spec => []IInv
<1>1. IInv /\ [Next]_vars => IInv'
  BY NextSound, StutterSound DEF Step
<1>. QED  BY InitSound, <1>1, PTL DEF Spec

-----------------------------------------------------------------------------
(* What the invariant says of the properties the run checks.               *)

LEMMA TableTyped == IInv => TypeOK
<1>. SUFFICES ASSUME IInv PROVE TypeOK
  OBVIOUS
<1>1. /\ now \in Nat /\ next_id \in Nat /\ next_id <= MaxIds
      /\ offered \in [Keys -> Nat] /\ links \subseteq Links
      /\ Sound(table, next_id, offered, carried, requests)
  BY Holds DEF IInv
<1>2. /\ table \in Seq(Flow) /\ DOMAIN table = 1 .. Len(table)
      /\ Len(table) <= MaxFlows
      /\ \A i \in 1 .. Len(table) : Settled(table[i])
  BY <1>1, FlowThere
<1>3. \A i \in DOMAIN table : Len(table[i].pending) <= MaxPending
  BY <1>2 DEF Settled
<1>. QED  BY <1>1, <1>2, <1>3, Constants DEF TypeOK

(* Whatever the limits and timeouts: the table and what waits in a flow    *)
(* stay within their limits, a flow that waits for an answer has a         *)
(* deadline, and no other flow has one (request_auth, retry_auth,          *)
(* expire_auths and authenticate of flow.rs move the two together).        *)
THEOREM RequestsAreTimed == Spec => []RequestedIsTimed
<1>1. IInv => RequestedIsTimed
  <2>. SUFFICES ASSUME IInv PROVE RequestedIsTimed
    OBVIOUS
  <2>1. /\ DOMAIN table = 1 .. Len(table)
        /\ \A i \in 1 .. Len(table) : Settled(table[i])
    BY Holds, FlowThere
  <2>2. \A i \in DOMAIN table : Timed(table[i])
    BY <2>1 DEF Settled
  <2>. QED  BY <2>2, TableTyped DEF RequestedIsTimed, Timed
<1>. QED  BY Invariant, <1>1, PTL

(* However often a flow is forgotten and made again, and whichever answer  *)
(* comes when: the gateway gets a five-tuple's packets in the order the    *)
(* local stack sent them, none twice (send_packet and the flush of         *)
(* handle_auth_response in plane.rs).                                      *)
THEOREM OrderIsKept == Spec => []PacketsInOrder
<1>1. IInv => PacketsInOrder
  <2>. SUFFICES ASSUME IInv PROVE PacketsInOrder
    OBVIOUS
  <2>1. /\ DOMAIN table = 1 .. Len(table)
        /\ \A k \in Keys : Delivered(k, offered, carried)
        /\ \A i \in 1 .. Len(table) :
              /\ table[i] \in Flow /\ table[i].key \in Keys
              /\ Settled(table[i]) /\ Waits(table[i], offered, carried)
    BY Holds, FlowThere DEF Around
  <2>2. \A k \in Keys : DOMAIN carried[k] = 1 .. Len(carried[k])
    BY <2>1, LenProperties DEF Delivered
  <2>3. \A k \in Keys : \A i, j \in DOMAIN carried[k] :
           i < j => carried[k][i].packet < carried[k][j].packet
    BY <2>1, <2>2 DEF Delivered
  <2>4. ASSUME NEW i \in DOMAIN table
        PROVE  /\ table[i].state = "Authenticated" => table[i].pending = <<>>
               /\ \A p \in DOMAIN table[i].pending,
                     c \in DOMAIN carried[table[i].key] :
                     carried[table[i].key][c].packet < table[i].pending[p]
    <3>1. Entitled(table[i])
      BY <2>1 DEF Settled
    <3>2. DOMAIN table[i].pending = 1 .. Len(table[i].pending)
      BY <2>1, LenProperties DEF Flow
    <3>. QED  BY <2>1, <2>2, <3>1, <3>2 DEF Entitled, Waits
  <2>. QED  BY <2>3, <2>4 DEF PacketsInOrder
<1>. QED  BY Invariant, <1>1, PTL

(* Whatever the gateway answers, in any order, and however much of its     *)
(* flow the answer names: no packet is sent with the token of other hosts, *)
(* and a token whose answer named its flow, by the id of a flow that lives *)
(* or by a whole five-tuple, is sent with no other five-tuple and no flow  *)
(* made before it was asked for (flow_id allocation and remove_expired of  *)
(* flow.rs, the lookup in handle_auth_response and find_flow_by_ip of      *)
(* plane.rs).                                                              *)
THEOREM TokensStayWithTheirFlow == Spec => []TokenOfItsFlow
<1>1. IInv => TokenOfItsFlow
  <2>. SUFFICES ASSUME IInv PROVE TokenOfItsFlow
    OBVIOUS
  <2>1. /\ DOMAIN table = 1 .. Len(table) /\ next_id \in Nat
        /\ \A k \in Keys : Delivered(k, offered, carried)
        /\ \A i \in 1 .. Len(table) : table[i].id \in 1 .. next_id
        /\ Distinct(table)
    BY Holds, FlowThere DEF Around, Sound
  <2>2. \A k \in Keys : DOMAIN carried[k] = 1 .. Len(carried[k])
    BY <2>1, LenProperties DEF Delivered
  <2>3. \A k \in Keys : \A i \in DOMAIN carried[k] :
           Rightful(carried[k][i].token, carried[k][i].flow, k)
    BY <2>1, <2>2 DEF Delivered
  <2>4. \A i, j \in DOMAIN table :
           /\ table[i].id <= next_id
           /\ i # j => table[i].id # table[j].id /\ table[i].key # table[j].key
    BY <2>1 DEF Distinct
  <2>. QED  BY <2>3, <2>4 DEF TokenOfItsFlow
<1>. QED  BY Invariant, <1>1, PTL

(* A gateway that never answers is asked at most auth_max_attempts times   *)
(* for a flow, also when scans come late (expire_auths of flow.rs).        *)
THEOREM AttemptsAreBounded == Spec => []SilenceGivesUp
<1>1. IInv => SilenceGivesUp
  <2>. SUFFICES ASSUME IInv, NEW i \in DOMAIN table, ~table[i].answered
                PROVE  table[i].asked <= MaxAttempts
    BY DEF SilenceGivesUp
  <2>1. table[i] \in Flow /\ Settled(table[i])
    BY Holds, FlowThere
  <2>2. table[i].timeouts \in Nat /\ table[i].asked \in Nat
    BY <2>1 DEF Flow
  <2>3. /\ table[i].timeouts < MaxAttempts
        /\ table[i].asked = table[i].timeouts + (IF table[i].requested THEN 1 ELSE 0)
    BY <2>1 DEF Settled, Patient
  <2>. QED  BY <2>2, <2>3, Constants
<1>. QED  BY Invariant, <1>1, PTL

(* No step asks for a flow again while a request of it still has time      *)
(* (needs_auth and dispatch_auths).                                        *)
THEOREM AsksAreAlone == Spec => AsksOneAtATime
<1>. DEFINE Alone == \A i \in DOMAIN table, j \in DOMAIN table' :
                        table[i].id = table'[j].id /\ table'[j].asked > table[i].asked =>
                           ~table[i].requested \/ now >= table[i].deadline
<1>1. IInv /\ Step => Alone
  <2>. SUFFICES ASSUME IInv, Step, NEW i \in DOMAIN table, NEW j \in DOMAIN table',
                       table[i].id = table'[j].id, table'[j].asked > table[i].asked
                PROVE  Free(table[i])
    BY DEF Free
  <2>0. /\ DOMAIN table = 1 .. Len(table) /\ next_id \in Nat
        /\ Sound(table, next_id, offered, carried, requests)
    BY Holds
  <2>1. /\ DOMAIN table = 1 .. Len(table) /\ next_id \in Nat
        /\ \A m \in 1 .. Len(table) : table[m].id \in 1 .. next_id
        /\ Distinct(table)
    <3>1. \A m \in 1 .. Len(table) : table[m].id \in 1 .. next_id
      BY <2>0, FlowThere
    <3>2. Distinct(table)
      BY <2>0 DEF Sound
    <3>. QED  BY <2>0, <3>1, <3>2
  <2>2. DOMAIN table' = 1 .. Len(table')
    BY FlowThere DEF Step, IInv
  <2>3. ~(table'[j].id > next_id)
    BY <2>1
  <2>4. PICK m \in 1 .. Len(table) :
           /\ table'[j].id = table[m].id
           /\ table'[j].asked > table[m].asked => Free(table[m])
    BY <2>2, <2>3 DEF Step, AskedAlone
  <2>5. m = i
    BY <2>1, <2>4 DEF Distinct
  <2>. QED  BY <2>4, <2>5
<1>2. IInv /\ [Next]_vars => Alone
  BY <1>1, NextSound, StutterSound
<1>. QED  BY Invariant, <1>2, PTL DEF Spec, AsksOneAtATime
=============================================================================
