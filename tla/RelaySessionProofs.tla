------------------------- MODULE RelaySessionProofs -------------------------
(***************************************************************************)
(* Proofs about RelaySession: whatever the number of dials, of bytes and   *)
(* of connects in flight, the layers of a relay agree with one another     *)
(* and the gateway is sent one opening message and then the client's bytes *)
(* in order, none of them before it accepted.                              *)
(*                                                                         *)
(* Sessions are independent except for the connect budget, so the          *)
(* inductive invariant is a predicate on one session: Sound(s).  The       *)
(* budget has an invariant of its own, Counted: the host's counter is the  *)
(* number of the workers that run.                                         *)
(***************************************************************************)
EXTENDS RelaySession, FiniteSetTheorems, TLAPS

(* The layers agree: which relay and which channel each stage of the       *)
(* terminator's connection goes with.                                      *)
LayersAgree(s) ==
    /\ s.relay # "none" => s.tcp \in {"dialing", "up"}
    /\ s.tcp = "none" => s.connect = "none"
    /\ s.tcp = "dialing" => s.relay = "connecting" /\ s.connect = "inflight"
    /\ s.tcp = "up" => s.relay \in {"handshaking", "open"} /\ s.chan = "open"
    /\ s.connect # "settled" => s.chan = "none"
    /\ s.chan = "none" => s.wire = <<>>
    /\ s.chan # "open" => s.backlog = <<>>

(* Who may hold bytes: the terminator while it dials, the relay while it   *)
(* shakes hands.                                                           *)
HoldersAgree(s) ==
    /\ s.held # <<>> => s.relay = "handshaking"
    /\ s.pending # <<>> => s.tcp = "dialing"
    /\ s.wire = <<>> => s.hello = "none"
    /\ s.relay = "open" => s.hello = "accepted"
    /\ s.hello # "accepted" => /\ s.got = 0 /\ s.replied = 0
                               /\ Len(s.wire) + Len(s.backlog) <= 1

(* The items of q count on from k.                                         *)
Run(q, k) == \A i \in 1 .. Len(q) : q[i] = k + i - 1

(* Every byte is at its place: the items on the way to the gateway count   *)
(* on from the opening message, the wire first, then the backlog, then     *)
(* what is held; a dial in flight has sent nothing and keeps what was      *)
(* taken.                                                                  *)
InPlace(s) ==
    /\ Run(s.wire, 0)
    /\ Run(s.backlog, Len(s.wire))
    /\ Run(s.held, Len(s.wire) + Len(s.backlog))
    /\ Run(s.pending, 1)
    /\ s.tcp = "none" => s.taken = 0
    /\ s.tcp = "dialing" => Len(s.pending) = s.taken
    /\ s.tcp = "up" =>
          Len(s.wire) + Len(s.backlog) + Len(s.held) = s.taken + 1

Sound(s) == s \in Session /\ LayersAgree(s) /\ HoldersAgree(s) /\ InPlace(s)

IInv == running \in BOOLEAN /\ session \in [Dials -> Session]
          /\ \A d \in Dials : Sound(session[d])

-----------------------------------------------------------------------------
(* What the effects do to one sound session.                               *)

(* An empty or a one-item sequence counts on from anything, or its item.   *)
LEMMA ShortRuns ==
    ASSUME NEW k \in Nat
    PROVE  /\ <<>> \in Seq(Item) /\ Len(<<>>) = 0 /\ Run(<<>>, k)
           /\ <<k>> \in Seq(Item) /\ Len(<<k>>) = 1 /\ Run(<<k>>, k)
  BY DEF Item, Run

(* Two sequences that count on from one another are one that does.         *)
LEMMA JoinedRuns ==
    ASSUME NEW k \in Nat, NEW q \in Seq(Item), NEW r \in Seq(Item),
           Run(q, k), Run(r, k + Len(q))
    PROVE  /\ q \o r \in Seq(Item) /\ Len(q \o r) = Len(q) + Len(r)
           /\ Run(q \o r, k)
<1>1. q \o r \in Seq(Item) /\ Len(q \o r) = Len(q) + Len(r)
  BY DEF Item
<1>2. ASSUME NEW i \in 1 .. Len(q \o r)
      PROVE  (q \o r)[i] = k + i - 1
  <2>1. Len(q) \in Nat /\ Len(r) \in Nat
    OBVIOUS
  <2>2. CASE i <= Len(q)
    BY <1>1, <1>2, <2>1, <2>2 DEF Run, Item
  <2>3. CASE i > Len(q)
    <3>1. i - Len(q) \in 1 .. Len(r)
      BY <1>1, <1>2, <2>1, <2>3
    <3>2. (q \o r)[i] = r[i - Len(q)]
      BY <1>1, <1>2, <2>1, <2>3 DEF Item
    <3>. QED  BY <2>1, <3>1, <3>2 DEF Run
  <2>. QED  BY <1>1, <1>2, <2>1, <2>2, <2>3
<1>. QED  BY <1>1, <1>2 DEF Run

LEMMA ExtendedRun ==
    ASSUME NEW k \in Nat, NEW q \in Seq(Item), NEW n \in Nat,
           Run(q, k), k + Len(q) = n
    PROVE  /\ q \o <<n>> \in Seq(Item) /\ Len(q \o <<n>>) = Len(q) + 1
           /\ Run(q \o <<n>>, k)
           /\ Append(q, n) \in Seq(Item) /\ Len(Append(q, n)) = Len(q) + 1
           /\ Run(Append(q, n), k)
<1>1. <<n>> \in Seq(Item) /\ Len(<<n>>) = 1 /\ Run(<<n>>, k + Len(q))
  BY ShortRuns
<1>2. Append(q, n) = q \o <<n>>
  BY DEF Item
<1>3. /\ q \o <<n>> \in Seq(Item) /\ Len(q \o <<n>>) = Len(q) + Len(<<n>>)
      /\ Run(q \o <<n>>, k)
  BY ONLY <1>1, Run(q, k), k \in Nat, q \in Seq(Item), JoinedRuns, Zenon
<1>. QED  BY <1>1, <1>2, <1>3

(* The head of a sequence that counts on from k is k.                      *)
LEMMA CutRun ==
    ASSUME NEW k \in Nat, NEW q \in Seq(Item), q # <<>>, Run(q, k)
    PROVE  /\ Head(q) = k /\ Tail(q) \in Seq(Item)
           /\ Len(Tail(q)) = Len(q) - 1 /\ Len(q) > 0 /\ Run(Tail(q), k + 1)
<1>1. Len(q) \in Nat /\ Len(q) > 0
  OBVIOUS
<1>2. Tail(q) \in Seq(Item) /\ Len(Tail(q)) = Len(q) - 1
  BY <1>1
<1>3. \A i \in 1 .. Len(Tail(q)) : Tail(q)[i] = q[i + 1]
  BY <1>1, <1>2
<1>4. Head(q) = q[1] /\ q[1] = k
  BY <1>1 DEF Run
<1>. QED  BY <1>1, <1>2, <1>3, <1>4 DEF Run

(* The queues of a session, and their lengths.                             *)
LEMMA ItemLens ==
    ASSUME NEW q \in Seq(Item)
    PROVE  Len(q) \in Nat
  OBVIOUS

LEMMA Queues ==
    ASSUME NEW s \in Session
    PROVE  /\ s.wire \in Seq(Item) /\ s.backlog \in Seq(Item)
           /\ s.held \in Seq(Item) /\ s.pending \in Seq(Item)
           /\ Len(s.wire) \in Nat /\ Len(s.backlog) \in Nat
           /\ Len(s.held) \in Nat /\ Len(s.pending) \in Nat
           /\ s.taken \in Nat
<1>1. /\ s.wire \in Seq(Item) /\ s.backlog \in Seq(Item)
      /\ s.held \in Seq(Item) /\ s.pending \in Seq(Item) /\ s.taken \in Nat
  BY DEF Session
<1>2. Len(s.wire) \in Nat
  BY <1>1, ItemLens
<1>3. Len(s.backlog) \in Nat
  BY <1>1, ItemLens
<1>4. Len(s.held) \in Nat
  BY <1>1, ItemLens
<1>5. Len(s.pending) \in Nat
  BY <1>1, ItemLens
<1>. QED  BY <1>1, <1>2, <1>3, <1>4, <1>5

(* What is left of a session once its connection is released: the part of  *)
(* Sound that does not speak of the relay.                                 *)
Releasable(s) ==
    /\ s \in Session /\ s.tcp # "none"
    /\ s.connect # "settled" => s.chan = "none"
    /\ s.chan = "none" => s.wire = <<>>
    /\ s.chan # "open" => s.backlog = <<>>
    /\ s.tcp # "dialing" => s.pending = <<>>
    /\ s.wire = <<>> => s.hello = "none"
    /\ s.hello # "accepted" => /\ s.got = 0 /\ s.replied = 0
                               /\ Len(s.wire) + Len(s.backlog) <= 1
    /\ Run(s.wire, 0) /\ Run(s.backlog, Len(s.wire))

LEMMA SoundIsReleasable ==
    ASSUME NEW s, Sound(s), s.tcp # "none"
    PROVE  Releasable(s)
  BY DEF Sound, LayersAgree, HoldersAgree, InPlace, Releasable

(* Releasing a live connection: its relay, backlog and channel go.         *)
LEMMA DisposeReleasable ==
    ASSUME NEW s, Releasable(s), FlowLives(s)
    PROVE  Sound(Dispose(s))
<1>0. s \in Session
  BY DEF Releasable
<1>1. Dispose(s) = [s EXCEPT !.tcp = "gone", !.pending = <<>>,
                             !.relay = "none", !.held = <<>>, !.backlog = <<>>,
                             !.chan = IF @ = "open" THEN "closed" ELSE @]
  <2>. DEFINE t == [s EXCEPT !.tcp = "gone", !.pending = <<>>]
  <2>1. Dispose(s) = RelayClose(t)
    BY DEF Dispose
  <2>2. RelayClose(t) = [t EXCEPT !.relay = "none", !.held = <<>>,
              !.backlog = <<>>, !.chan = IF @ = "open" THEN "closed" ELSE @]
    BY DEF RelayClose
  <2>3. t.chan = s.chan
    BY <1>0 DEF Session
  <2>. QED  BY ONLY <1>0, <2>1, <2>2, <2>3 DEF Session
<1>2. <<>> \in Seq(Item) /\ Len(<<>>) = 0
  OBVIOUS
<1>3. Dispose(s) \in Session
  <2>. DEFINE t == [s EXCEPT !.tcp = "gone", !.pending = <<>>]
              u == [t EXCEPT !.relay = "none", !.held = <<>>, !.backlog = <<>>]
  <2>1. t \in Session
    BY ONLY <1>0, <1>2 DEF Session, Tcp
  <2>. HIDE DEF t
  <2>2. u \in Session
    BY ONLY <1>2, <2>1 DEF Session, RelayState
  <2>. HIDE DEF u
  <2>3. [u EXCEPT !.chan = IF @ = "open" THEN "closed" ELSE @] \in Session
    BY ONLY <2>2 DEF Session
  <2>4. Dispose(s) = [u EXCEPT !.chan = IF @ = "open" THEN "closed" ELSE @]
    BY ONLY <1>0, <1>1 DEF t, u, Session
  <2>. QED  BY <2>3, <2>4
<1>4. LayersAgree(Dispose(s))
  BY <1>1 DEF Releasable, Session, LayersAgree
<1>5. HoldersAgree(Dispose(s))
  BY <1>1, <1>2 DEF Releasable, Session, HoldersAgree
<1>6. InPlace(Dispose(s))
  BY <1>1, <1>2 DEF Releasable, Session, InPlace, Run
<1>. QED  BY <1>3, <1>4, <1>5, <1>6 DEF Sound

LEMMA DisposeSound ==
    ASSUME NEW s, Sound(s)
    PROVE  Sound(Dispose(s))
<1>1. CASE FlowLives(s)
  BY <1>1, SoundIsReleasable, DisposeReleasable DEF FlowLives
<1>2. CASE ~FlowLives(s)
  BY <1>2 DEF Dispose
<1>. QED  BY <1>1, <1>2

(* A connection that is gone is not torn down a second time.               *)
LEMMA DisposeGone ==
    ASSUME NEW s, s.tcp = "gone"
    PROVE  Dispose(s) = s
  BY DEF Dispose, FlowLives

(* A dial that failed, whether its connection is still there or not.       *)
LEMMA FailedSound ==
    ASSUME NEW s, Releasable(s)
    PROVE  Sound(on_dial_failed(s))
<1>. DEFINE u == [s EXCEPT !.relay = "none", !.held = <<>>]
<1>1. <<>> \in Seq(Item) /\ Len(<<>>) = 0
  OBVIOUS
<1>2. Releasable(u)
  <2>1. u \in Session
    BY <1>1 DEF Releasable, Session, RelayState
  <2>. QED  BY <2>1 DEF Releasable, Session
<1>3. CASE FlowLives(s)
  <2>1. FlowLives(u)
    BY <1>3 DEF FlowLives, Releasable, Session
  <2>. QED  BY <2>1, <1>2, DisposeReleasable DEF on_dial_failed
<1>4. CASE ~FlowLives(s)
  <2>1. on_dial_failed(s) = u /\ u.tcp = "gone"
    <3>1. u.tcp = s.tcp /\ s.tcp \in Tcp \ {"none"}
      BY DEF Releasable, Session
    <3>2. u.tcp = "gone"
      BY <1>4, <3>1 DEF FlowLives, Tcp
    <3>3. on_dial_failed(s) = Dispose(u)
      BY DEF on_dial_failed
    <3>4. Dispose(u) = u
      BY ONLY <3>2, DisposeGone
    <3>. QED  BY <3>2, <3>3, <3>4
  <2>2. LayersAgree(u)
    BY <1>2, <2>1 DEF Releasable, Session, LayersAgree
  <2>3. HoldersAgree(u)
    BY <1>2, <2>1 DEF Releasable, Session, HoldersAgree
  <2>4. InPlace(u)
    BY <1>1, <1>2, <2>1 DEF Releasable, Session, InPlace, Run
  <2>. QED  BY <1>2, <2>1, <2>2, <2>3, <2>4 DEF Sound, Releasable
<1>. QED  BY <1>3, <1>4

(* The channel of a sound session ended.                                   *)
LEMMA EndedSound ==
    ASSUME NEW s, Sound(s), s.chan = "open"
    PROVE  Sound(channel_ended(s))
<1>. DEFINE u == channel_ended(s)
<1>1. <<>> \in Seq(Item) /\ Len(<<>>) = 0
  OBVIOUS
<1>2. u = [s EXCEPT !.relay = "none", !.held = <<>>, !.chan = "closed",
                    !.tcp = IF FlowLives(s) THEN "draining" ELSE @,
                    !.backlog = <<>>]
  BY DEF channel_ended, on_relay_closed, Sound, Session
<1>3. u \in Session
  <2>. DEFINE t == [s EXCEPT !.relay = "none", !.held = <<>>,
                             !.chan = "closed", !.backlog = <<>>]
  <2>1. s \in Session
    BY DEF Sound
  <2>2. t \in Session
    BY ONLY <1>1, <2>1 DEF Session, RelayState
  <2>. HIDE DEF t
  <2>3. [t EXCEPT !.tcp = IF FlowLives(s) THEN "draining" ELSE @] \in Session
    BY ONLY <2>2 DEF Session, Tcp
  <2>4. u = [t EXCEPT !.tcp = IF FlowLives(s) THEN "draining" ELSE @]
    BY ONLY <1>2, <2>1 DEF t, Session
  <2>. QED  BY <2>3, <2>4
<1>4. LayersAgree(u)
  BY <1>2 DEF Sound, Session, LayersAgree, FlowLives
<1>5. HoldersAgree(u)
  BY <1>1, <1>2 DEF Sound, Session, LayersAgree, HoldersAgree, FlowLives
<1>6. InPlace(u)
  BY <1>1, <1>2
     DEF Sound, Session, LayersAgree, HoldersAgree, InPlace, FlowLives, Run
<1>. QED  BY <1>3, <1>4, <1>5, <1>6 DEF Sound

-----------------------------------------------------------------------------
(* Each action leaves the session it works on sound.                       *)

(* A field that no part of Sound speaks of may change freely.              *)
LEMMA IdleFields ==
    ASSUME NEW s, Sound(s), NEW fin \in BOOLEAN, NEW shut \in BOOLEAN,
           NEW paused \in BOOLEAN
    PROVE  Sound([s EXCEPT !.fin = fin, !.shut = shut, !.paused = paused])
<1>. DEFINE u == [s EXCEPT !.fin = fin, !.shut = shut, !.paused = paused]
<1>1. s \in Session
  BY DEF Sound
<1>2. u \in Session
  BY <1>1 DEF Session
<1>3. /\ u.tcp = s.tcp /\ u.taken = s.taken /\ u.pending = s.pending
      /\ u.relay = s.relay /\ u.held = s.held /\ u.connect = s.connect
      /\ u.chan = s.chan /\ u.backlog = s.backlog /\ u.wire = s.wire
      /\ u.hello = s.hello /\ u.replied = s.replied /\ u.got = s.got
  BY <1>1 DEF Session
<1>. HIDE DEF u
<1>4. LayersAgree(u) /\ HoldersAgree(u)
  BY <1>3 DEF Sound, LayersAgree, HoldersAgree
<1>5. InPlace(u)
  BY <1>3 DEF Sound, InPlace
<1>6. Sound(u)
  BY <1>2, <1>4, <1>5 DEF Sound
<1>. QED  BY <1>6 DEF u

LEMMA DialSound ==
    ASSUME NEW d \in Dials, IInv, Dial(d)
    PROVE  \E s : Sound(s) /\ Become(d, s)
<1>. DEFINE o == session[d]
            s == [o EXCEPT !.tcp = "dialing", !.relay = "connecting",
                           !.held = <<>>]
            go == [s EXCEPT !.connect = "inflight"]
            no == [s EXCEPT !.connect = "settled"]
<1>1. <<>> \in Seq(Item) /\ Len(<<>>) = 0
  OBVIOUS
<1>2. Sound(o) /\ o.tcp = "none"
  BY DEF IInv, Dial
<1>3. o \in Session /\ o.connect = "none" /\ o.chan = "none" /\ o.wire = <<>>
        /\ o.backlog = <<>> /\ o.pending = <<>> /\ o.hello = "none"
        /\ o.taken = 0 /\ o.got = 0 /\ o.replied = 0
  BY <1>2 DEF Sound, LayersAgree, HoldersAgree, InPlace, Session
<1>4. Sound(go)
  <2>1. go = [o EXCEPT !.tcp = "dialing", !.relay = "connecting",
                       !.held = <<>>, !.connect = "inflight"]
    BY <1>3 DEF Session
  <2>2. go \in Session
    BY <1>1, <1>3, <2>1 DEF Session, Tcp, RelayState
  <2>3. /\ go.tcp = "dialing" /\ go.relay = "connecting"
        /\ go.connect = "inflight" /\ go.chan = "none" /\ go.held = <<>>
        /\ go.wire = <<>> /\ go.backlog = <<>> /\ go.pending = <<>>
        /\ go.hello = "none" /\ go.taken = 0 /\ go.got = 0 /\ go.replied = 0
    BY <1>3, <2>1 DEF Session
  <2>. HIDE DEF go
  <2>4. LayersAgree(go) /\ HoldersAgree(go) /\ InPlace(go)
    BY <1>1, <2>3 DEF LayersAgree, HoldersAgree, InPlace, Run
  <2>. QED  BY <2>2, <2>4 DEF Sound
<1>5. Sound(on_dial_failed(no))
  <2>1. no = [o EXCEPT !.tcp = "dialing", !.relay = "connecting",
                       !.held = <<>>, !.connect = "settled"]
    BY <1>3 DEF Session
  <2>2. no \in Session
    BY <1>1, <1>3, <2>1 DEF Session, Tcp, RelayState
  <2>3. /\ no.tcp = "dialing" /\ no.connect = "settled" /\ no.chan = "none"
        /\ no.wire = <<>> /\ no.backlog = <<>> /\ no.pending = <<>>
        /\ no.hello = "none" /\ no.got = 0 /\ no.replied = 0
    BY <1>3, <2>1 DEF Session
  <2>. HIDE DEF no
  <2>4. Releasable(no)
    BY <1>1, <2>2, <2>3 DEF Releasable, Run
  <2>. QED  BY <2>4, FailedSound
<1>. QED  BY <1>4, <1>5 DEF Dial

LEMMA ClientDataSound ==
    ASSUME NEW d \in Dials, IInv, ClientData(d)
    PROVE  \E s : Sound(s) /\ Become(d, s)
<1>. DEFINE o == session[d]
            n == o.taken + 1
            s == [o EXCEPT !.taken = n]
<1>1. Sound(o) /\ o \in Session /\ FlowLives(o) /\ n \in Nat /\ o.taken \in Nat
  BY DEF IInv, ClientData, Sound, Session
<1>2. Become(d, IF o.tcp = "dialing"
                THEN [o EXCEPT !.taken = n, !.pending = Append(@, n)]
                ELSE push_relay_send(s, <<n>>))
  BY DEF ClientData
<1>3. n = o.taken + 1
  OBVIOUS
<1>4. /\ o.wire \in Seq(Item) /\ o.backlog \in Seq(Item)
      /\ o.held \in Seq(Item) /\ o.pending \in Seq(Item)
  BY <1>1, Queues
<1>. DEFINE w == Len(o.wire)
            b == Len(o.backlog)
            h == Len(o.held)
<1>9. w \in Nat /\ b \in Nat /\ h \in Nat /\ Len(o.pending) \in Nat
  BY <1>1, Queues
<1>. HIDE DEF o, n
<1>5. CASE o.tcp = "dialing"
  <2>. DEFINE u == [o EXCEPT !.taken = n, !.pending = Append(@, n)]
  <2>1. Run(o.pending, 1) /\ 1 + Len(o.pending) = n
    BY <1>1, <1>3, <1>4, <1>5 DEF Sound, InPlace
  <2>6. /\ Append(o.pending, n) \in Seq(Item)
        /\ Len(Append(o.pending, n)) = Len(o.pending) + 1
        /\ Run(Append(o.pending, n), 1)
    <3>1. 1 \in Nat
      OBVIOUS
    <3>. QED  BY ONLY <3>1, <1>1, <1>4, <2>1, ExtendedRun, Zenon
  <2>7. 1 + Len(o.pending) = Len(o.pending) + 1
    BY <1>9
  <2>2. /\ Append(o.pending, n) \in Seq(Item) /\ Len(Append(o.pending, n)) = n
        /\ Run(Append(o.pending, n), 1)
    BY <2>1, <2>6, <2>7, Zenon
  <2>3. u \in Session
    BY <1>1, <2>2 DEF Session
  <2>4. LayersAgree(u) /\ HoldersAgree(u)
    BY <1>1, <1>5 DEF Sound, Session, LayersAgree, HoldersAgree
  <2>5. InPlace(u)
    BY <1>1, <1>5, <2>2 DEF Sound, Session, InPlace
  <2>. QED  BY <1>2, <1>5, <2>3, <2>4, <2>5 DEF Sound
<1>6. CASE o.tcp = "draining"
  <2>1. push_relay_send(s, <<n>>) = s
    BY <1>1, <1>6 DEF push_relay_send, Sound, LayersAgree, Session
  <2>2. s \in Session
    BY <1>1 DEF Session
  <2>3. Sound(s)
    BY <1>1, <2>2, <1>6 DEF Sound, Session, LayersAgree, HoldersAgree, InPlace
  <2>. QED  BY <1>2, <1>6, <2>1, <2>3
<1>7. CASE o.tcp = "up" /\ o.relay = "open"
  <2>. DEFINE q == o.backlog \o <<n>>
              u == [o EXCEPT !.taken = n, !.backlog = @ \o <<n>>]
  <2>0. s.chan = "open" /\ s \in Session
    BY <1>1, <1>7 DEF Sound, LayersAgree, Session
  <2>1. push_relay_send(s, <<n>>) = u
    BY <1>1, <1>7, <2>0 DEF push_relay_send, Queue, Session
  <2>2. o.held = <<>> /\ h = 0
    BY <1>1, <1>7, ShortRuns DEF Sound, HoldersAgree
  <2>3. Run(o.backlog, w) /\ Run(o.wire, 0) /\ Run(o.pending, 1)
    BY <1>1 DEF Sound, InPlace
  <2>4. w + b + h = o.taken + 1
    BY <1>1, <1>7 DEF Sound, InPlace
  <2>5. w + b = n
    <3>. HIDE DEF w, b, h
    <3>. QED  BY <1>1, <1>3, <1>9, <2>2, <2>4
  <2>6. q \in Seq(Item) /\ Len(q) = b + 1 /\ Run(q, w)
    <3>1. w + Len(o.backlog) = n /\ n \in Nat /\ w \in Nat
      BY <1>1, <1>9, <2>5
    <3>. QED  BY ONLY <1>4, <2>3, <3>1, ExtendedRun, Zenon
  <2>7. /\ u.tcp = "up" /\ u.taken = n /\ u.wire = o.wire /\ u.held = <<>>
        /\ u.pending = o.pending /\ u.backlog = q
    BY <1>1, <1>7, <2>2 DEF Session
  <2>8. u \in Session
    BY <1>1, <2>6 DEF Session
  <2>9. LayersAgree(u) /\ HoldersAgree(u)
    BY <1>1, <1>7 DEF Sound, Session, LayersAgree, HoldersAgree
  <2>10. InPlace(u)
    <3>1. w + Len(q) + 0 = n + 1 /\ w + Len(q) \in Nat
      <4>. HIDE DEF w, b, q
      <4>. QED  BY <1>1, <1>9, <2>5, <2>6
    <3>2. Run(<<>>, w + Len(q)) /\ Len(<<>>) = 0
      BY <3>1, ShortRuns
    <3>. HIDE DEF u, q
    <3>. QED  BY <2>3, <2>6, <2>7, <3>1, <3>2 DEF InPlace
  <2>. QED  BY <1>2, <1>7, <2>1, <2>8, <2>9, <2>10 DEF Sound
<1>8. CASE o.tcp = "up" /\ o.relay = "handshaking"
  <2>. DEFINE q == o.held \o <<n>>
              u == [o EXCEPT !.taken = n, !.held = @ \o <<n>>]
  <2>1. push_relay_send(s, <<n>>) = u
    BY <1>1, <1>8 DEF push_relay_send, Sound, Session
  <2>2. /\ Run(o.held, w + b) /\ Run(o.backlog, w) /\ Run(o.wire, 0)
        /\ Run(o.pending, 1) /\ w + b + h = o.taken + 1
    BY <1>1, <1>8 DEF Sound, InPlace
  <2>3. w + b \in Nat /\ w + b + h = n /\ w + b + (h + 1) = n + 1
    <3>. HIDE DEF w, b, h
    <3>. QED  BY <1>1, <1>3, <1>9, <2>2
  <2>4. q \in Seq(Item) /\ Len(q) = h + 1 /\ Run(q, w + b)
    BY ONLY <1>1, <1>4, <1>9, <2>2, <2>3, ExtendedRun, Zenon
  <2>5. /\ u.tcp = "up" /\ u.taken = n /\ u.wire = o.wire
        /\ u.backlog = o.backlog /\ u.pending = o.pending /\ u.held = q
    BY <1>1, <1>8 DEF Session
  <2>6. u \in Session
    BY <1>1, <2>4 DEF Session
  <2>7. LayersAgree(u) /\ HoldersAgree(u)
    BY <1>1, <1>8 DEF Sound, Session, LayersAgree, HoldersAgree
  <2>8. InPlace(u)
    <3>. HIDE DEF u, q
    <3>. QED  BY <2>2, <2>3, <2>4, <2>5 DEF InPlace
  <2>. QED  BY <1>2, <1>8, <2>1, <2>6, <2>7, <2>8 DEF Sound
<1>. QED  BY <1>1, <1>5, <1>6, <1>7, <1>8 DEF FlowLives, Sound, LayersAgree

LEMMA ClientFinSound ==
    ASSUME NEW d \in Dials, IInv, ClientFin(d)
    PROVE  \E s : Sound(s) /\ Become(d, s)
<1>. DEFINE o == session[d]
            shut == o.shut \/ (o.tcp # "dialing" /\ o.chan = "open")
<1>1. Sound(o) /\ o \in Session /\ shut \in BOOLEAN
  BY DEF IInv, Sound, Session
<1>2. [o EXCEPT !.fin = TRUE, !.shut = shut]
        = [o EXCEPT !.fin = TRUE, !.shut = shut, !.paused = o.paused]
        /\ o.paused \in BOOLEAN
  BY <1>1 DEF Session
<1>3. Sound([o EXCEPT !.fin = TRUE, !.shut = shut])
  BY <1>1, <1>2, IdleFields
<1>. QED  BY <1>3 DEF ClientFin

LEMMA ThrottleSound ==
    ASSUME NEW d \in Dials, IInv, Throttle(d)
    PROVE  \E s : Sound(s) /\ Become(d, s)
<1>. DEFINE o == session[d]
            paused == ~o.paused
<1>1. /\ Sound(o) /\ o \in Session
      /\ o.fin \in BOOLEAN /\ o.shut \in BOOLEAN /\ paused \in BOOLEAN
  BY DEF IInv, Sound, Session
<1>2. [o EXCEPT !.paused = ~@]
        = [o EXCEPT !.fin = o.fin, !.shut = o.shut, !.paused = paused]
  <2>1. o = [o EXCEPT !.fin = o.fin, !.shut = o.shut]
    BY ONLY <1>1 DEF Session
  <2>. QED  BY ONLY <2>1
<1>3. Sound([o EXCEPT !.paused = ~@])
  BY <1>1, <1>2, IdleFields
<1>. QED  BY <1>3 DEF Throttle

LEMMA FlowEndsSound ==
    ASSUME NEW d \in Dials, IInv, FlowEnds(d)
    PROVE  \E s : Sound(s) /\ Become(d, s)
  BY DisposeSound DEF IInv, FlowEnds

LEMMA ChannelEndsSound ==
    ASSUME NEW d \in Dials, IInv, ChannelEnds(d)
    PROVE  \E s : Sound(s) /\ Become(d, s)
  BY EndedSound DEF IInv, ChannelEnds

LEMMA ConnectFailedSound ==
    ASSUME NEW d \in Dials, IInv, ConnectFailed(d)
    PROVE  \E s : Sound(s) /\ Become(d, s)
<1>. DEFINE o == session[d]
            u == [o EXCEPT !.connect = "settled"]
<1>1. Sound(o) /\ o.tcp # "none" /\ o.connect = "inflight"
  BY DEF IInv, ConnectFailed, Sound, LayersAgree
<1>2. Releasable(u)
  <2>1. u \in Session
    BY <1>1 DEF Sound, Session
  <2>. QED  BY <1>1, <2>1, SoundIsReleasable DEF Releasable, Session
<1>. QED  BY <1>2, FailedSound DEF ConnectFailed

LEMMA ConnectedSound ==
    ASSUME NEW d \in Dials, IInv, Connected(d)
    PROVE  \E s : Sound(s) /\ Become(d, s)
<1>. DEFINE o == session[d]
            s == [o EXCEPT !.connect = "settled", !.chan = "open"]
<1>1. Sound(o) /\ o \in Session /\ o.connect = "inflight"
  BY DEF IInv, Connected, Sound
<1>2. /\ o.tcp \notin {"none", "up"} /\ o.chan = "none" /\ o.wire = <<>>
      /\ o.backlog = <<>> /\ o.hello = "none" /\ o.got = 0 /\ o.replied = 0
  BY <1>1 DEF Sound, LayersAgree, HoldersAgree
<1>3. <<>> \in Seq(Item) /\ Len(<<>>) = 0 /\ Run(<<>>, 0)
  <2>1. 0 \in Nat
    OBVIOUS
  <2>. QED  BY ONLY <2>1, ShortRuns, Zenon
<1>4. CASE Become(d, on_dial_connected(s)) /\ o.relay = "none"
  <2>1. on_dial_connected(s) = s
    BY <1>1, <1>4 DEF on_dial_connected, Session
  <2>2. s \in Session
    BY <1>1 DEF Session
  <2>3. Sound(s)
    BY <1>1, <1>2, <1>4, <2>2
       DEF Sound, Session, LayersAgree, HoldersAgree, InPlace
  <2>. QED  BY <1>4, <2>1, <2>3
<1>5. CASE Become(d, on_dial_connected(s)) /\ o.relay # "none"
  <2>. DEFINE p == Len(o.pending)
              u == [o EXCEPT !.connect = "settled", !.chan = "open",
                      !.backlog = @ \o <<Auth>>, !.relay = "handshaking",
                      !.tcp = "up", !.held = @ \o o.pending,
                      !.pending = <<>>]
  <2>1. on_dial_connected(s) = u
    BY <1>1, <1>5 DEF on_dial_connected, Queue, Session
  <2>2. o.tcp = "dialing" /\ o.held = <<>>
    BY <1>1, <1>2, <1>5 DEF Sound, LayersAgree, HoldersAgree
  <2>3. /\ o.pending \in Seq(Item) /\ p \in Nat /\ Run(o.pending, 1)
        /\ p = o.taken
    BY <1>1, <2>2, Queues DEF Sound, InPlace
  <2>4. <<>> \o <<Auth>> = <<Auth>> /\ <<>> \o o.pending = o.pending
    BY <2>3 DEF Auth, Item
  <2>5. <<Auth>> \in Seq(Item) /\ Len(<<Auth>>) = 1 /\ Run(<<Auth>>, 0)
    BY ShortRuns DEF Auth
  <2>13. o.held \o o.pending \in Seq(Item) /\ o.backlog \o <<Auth>> \in Seq(Item)
    BY <1>2, <2>2, <2>3, <2>4, <2>5
  <2>6. u \in Session
    BY ONLY <1>1, <2>13, <<>> \in Seq(Item) DEF Session, Tcp, RelayState
  <2>7. /\ u.tcp = "up" /\ u.relay = "handshaking" /\ u.connect = "settled"
        /\ u.chan = "open" /\ u.wire = <<>> /\ u.backlog = <<Auth>>
        /\ u.held = o.pending /\ u.pending = <<>> /\ u.hello = "none"
        /\ u.got = 0 /\ u.replied = 0 /\ u.taken = o.taken
    BY <1>1, <1>2, <2>2, <2>4 DEF Session
  <2>8. 0 + 1 + p = o.taken + 1 /\ 0 + 1 = 1 /\ 0 + 1 <= 1 /\ 1 \in Nat
    <3>. HIDE DEF p
    <3>. QED  BY <2>3
  <2>9. Run(<<>>, 1)
    BY <2>8, ShortRuns
  <2>. HIDE DEF u
  <2>10. LayersAgree(u)
    BY <2>7 DEF LayersAgree
  <2>11. HoldersAgree(u)
    BY <1>3, <2>5, <2>7, <2>8 DEF HoldersAgree
  <2>12. InPlace(u)
    BY <1>3, <2>3, <2>5, <2>7, <2>8, <2>9 DEF InPlace
  <2>. QED  BY <1>5, <2>1, <2>6, <2>10, <2>11, <2>12 DEF Sound
<1>6. CASE Become(d, on_dial_failed([s EXCEPT !.chan = "closed"]))
  <2>. DEFINE u == [o EXCEPT !.connect = "settled", !.chan = "closed"]
  <2>1. [s EXCEPT !.chan = "closed"] = u
    BY <1>1 DEF Session
  <2>2. u \in Session
    BY <1>1 DEF Session
  <2>3. Releasable(u)
    BY <1>1, <1>2, <2>2, SoundIsReleasable DEF Releasable, Session
  <2>. QED  BY <1>6, <2>1, <2>3, FailedSound
<1>7. CASE s.relay # "none" /\ Become(d, Dispose(s))
  <2>1. s \in Session /\ FlowLives(s)
    BY <1>1, <1>2, <1>7 DEF Session, Sound, LayersAgree, FlowLives
  <2>2. Releasable(s)
    BY <1>1, <1>2, <2>1, SoundIsReleasable DEF Releasable, Session
  <2>. QED  BY <1>7, <2>1, <2>2, DisposeReleasable
<1>. QED  BY <1>4, <1>5, <1>6, <1>7 DEF Connected

LEMMA SocketWritesSound ==
    ASSUME NEW d \in Dials, IInv, SocketWrites(d)
    PROVE  \E s : Sound(s) /\ Become(d, s)
<1>. DEFINE o == session[d]
            w == Len(o.wire)
            b == Len(o.backlog)
            h == Len(o.held)
            x == Append(o.wire, Head(o.backlog))
            r == Tail(o.backlog)
            u == [o EXCEPT !.wire = Append(@, Head(o.backlog)),
                           !.backlog = Tail(@)]
<1>1. Sound(o) /\ o \in Session /\ o.chan = "open" /\ o.backlog # <<>>
  BY DEF IInv, SocketWrites, Sound
<1>2. Become(d, u)
  BY DEF SocketWrites
<1>3. /\ w \in Nat /\ b \in Nat /\ h \in Nat /\ o.taken \in Nat
      /\ o.wire \in Seq(Item) /\ o.backlog \in Seq(Item)
  BY <1>1, Queues
<1>4. /\ Run(o.wire, 0) /\ Run(o.backlog, w) /\ Run(o.held, w + b)
      /\ Run(o.pending, 1)
  BY <1>1 DEF Sound, InPlace
<1>. HIDE DEF o
<1>5. /\ Head(o.backlog) = w /\ r \in Seq(Item) /\ Len(r) = b - 1 /\ b > 0
      /\ Run(r, w + 1)
  BY ONLY <1>1, <1>3, <1>4, CutRun, Zenon
<1>6. x \in Seq(Item) /\ Len(x) = w + 1 /\ Run(x, 0)
  <2>1. 0 \in Nat /\ 0 + w = w
    <3>. HIDE DEF w
    <3>. QED  BY <1>3
  <2>2. 0 + w = Head(o.backlog) /\ Head(o.backlog) \in Nat
    BY ONLY <1>3, <1>5, <2>1, Zenon
  <2>. QED  BY ONLY <1>3, <1>4, <2>1, <2>2, ExtendedRun, Zenon
<1>7. Len(x) + Len(r) = w + b /\ Len(x) > 0
  <2>. HIDE DEF w, b, x, r
  <2>. QED  BY <1>3, <1>5, <1>6
<1>8. x # <<>>
  <2>1. Len(<<>>) = 0 /\ ~(0 > 0)
    OBVIOUS
  <2>. QED  BY ONLY <1>7, <2>1, Zenon
<1>9. u \in Session
  BY <1>1, <1>5, <1>6 DEF Session
<1>10. /\ u.wire = x /\ u.backlog = r /\ u.held = o.held
       /\ u.pending = o.pending /\ u.tcp = o.tcp /\ u.taken = o.taken
       /\ u.relay = o.relay /\ u.connect = o.connect /\ u.chan = "open"
       /\ u.hello = o.hello /\ u.got = o.got /\ u.replied = o.replied
  BY <1>1 DEF Session
<1>. HIDE DEF u, x, r
<1>11. LayersAgree(u)
  BY <1>1, <1>10 DEF Sound, LayersAgree
<1>12. HoldersAgree(u)
  BY <1>1, <1>7, <1>8, <1>10 DEF Sound, HoldersAgree
<1>13. InPlace(u)
  BY <1>1, <1>4, <1>5, <1>6, <1>7, <1>10 DEF Sound, InPlace
<1>. QED  BY <1>2, <1>9, <1>11, <1>12, <1>13 DEF Sound

LEMMA GatewayHelloSound ==
    ASSUME NEW d \in Dials, IInv, GatewayHello(d)
    PROVE  \E s : Sound(s) /\ Become(d, s)
<1>. DEFINE o == session[d]
<1>1. Sound(o) /\ o \in Session /\ o.hello = "none" /\ o.wire # <<>>
  BY DEF IInv, GatewayHello, Sound
<1>2. PICK a \in {"accepted", "refused", "garbled"} :
         Become(d, [o EXCEPT !.hello = a])
  BY DEF GatewayHello
<1>3. Sound([o EXCEPT !.hello = a])
  BY <1>1, <1>2 DEF Sound, Session, LayersAgree, HoldersAgree, InPlace
<1>. QED  BY <1>2, <1>3

LEMMA GatewayRepliesSound ==
    ASSUME NEW d \in Dials, IInv, GatewayReplies(d)
    PROVE  \E s : Sound(s) /\ Become(d, s)
<1>. DEFINE o == session[d]
            u == [o EXCEPT !.replied = @ + 1]
<1>1. Sound(o) /\ o \in Session /\ o.hello = "accepted" /\ Become(d, u)
  BY DEF IInv, GatewayReplies, Sound
<1>2. u \in Session
  <2>1. o.replied \in Nat
    BY <1>1 DEF Session
  <2>2. o.replied + 1 \in Nat
    <3>. HIDE DEF o
    <3>. QED  BY <2>1
  <2>. QED  BY <1>1, <2>2 DEF Session
<1>3. LayersAgree(u) /\ HoldersAgree(u) /\ InPlace(u)
  BY <1>1 DEF Sound, Session, LayersAgree, HoldersAgree, InPlace
<1>. QED  BY <1>1, <1>2, <1>3 DEF Sound

(* Bytes handed to the terminator are only counted.                        *)
LEMMA ReadSound ==
    ASSUME NEW s, Sound(s), s.hello = "accepted", NEW n \in Nat
    PROVE  Sound([s EXCEPT !.got = n])
<1>1. [s EXCEPT !.got = n] \in Session
  BY DEF Sound, Session
<1>. QED  BY <1>1 DEF Sound, Session, LayersAgree, HoldersAgree, InPlace

LEMMA OpenedSound ==
    ASSUME NEW s, Sound(s), s.relay = "handshaking", s.hello = "accepted"
    PROVE  Sound(Opened(s)) /\ Opened(s).hello = "accepted"
<1>. DEFINE w == Len(s.wire)
            b == Len(s.backlog)
            h == Len(s.held)
            q == s.backlog \o s.held
            u == [s EXCEPT !.backlog = q, !.relay = "open", !.held = <<>>]
<1>1. s \in Session /\ s.tcp = "up" /\ s.chan = "open" /\ s.pending = <<>>
  BY DEF Sound, LayersAgree, HoldersAgree
<1>2. Opened(s) = u
  BY <1>1 DEF Opened, Queue, Session
<1>3. /\ w \in Nat /\ b \in Nat /\ h \in Nat
      /\ s.backlog \in Seq(Item) /\ s.held \in Seq(Item)
  BY <1>1, Queues
<1>4. /\ Run(s.wire, 0) /\ Run(s.backlog, w) /\ Run(s.held, w + b)
      /\ Run(s.pending, 1) /\ w + b + h = s.taken + 1
  BY <1>1 DEF Sound, InPlace
<1>5. q \in Seq(Item) /\ Len(q) = b + h /\ Run(q, w)
  BY ONLY <1>3, <1>4, JoinedRuns, Zenon
<1>6. w + Len(q) \in Nat /\ w + Len(q) + 0 = s.taken + 1
  <2>. HIDE DEF w, b, h, q
  <2>. QED  BY <1>3, <1>4, <1>5
<1>7. <<>> \in Seq(Item) /\ Len(<<>>) = 0 /\ Run(<<>>, w + Len(q))
  BY <1>6, ShortRuns
<1>8. u \in Session
  BY <1>1, <1>5, <1>7 DEF Session, RelayState
<1>9. /\ u.wire = s.wire /\ u.backlog = q /\ u.held = <<>>
      /\ u.pending = s.pending /\ u.tcp = "up" /\ u.taken = s.taken
      /\ u.relay = "open" /\ u.connect = s.connect /\ u.chan = "open"
      /\ u.hello = "accepted" /\ u.got = s.got /\ u.replied = s.replied
  BY <1>1 DEF Session
<1>. HIDE DEF u, q
<1>10. LayersAgree(u)
  BY <1>1, <1>9 DEF Sound, LayersAgree
<1>11. HoldersAgree(u)
  BY <1>1, <1>9 DEF Sound, HoldersAgree
<1>12. InPlace(u)
  BY <1>4, <1>5, <1>6, <1>7, <1>9 DEF InPlace
<1>. QED  BY <1>2, <1>8, <1>9, <1>10, <1>11, <1>12 DEF Sound

LEMMA ReadChannelSound ==
    ASSUME NEW d \in Dials, IInv, ReadChannel(d)
    PROVE  \E s : Sound(s) /\ Become(d, s)
<1>. DEFINE o == session[d]
<1>1. Sound(o) /\ o.got \in Nat /\ o.replied \in Nat
  BY DEF IInv, Sound, Session
<1>2. \A n \in o.got .. o.replied : n \in Nat
  <2>. HIDE DEF o
  <2>. QED  BY <1>1
<1>3. \A n \in o.got + 1 .. o.replied : n \in Nat
  <2>. HIDE DEF o
  <2>. QED  BY <1>1
<1>4. CASE /\ o.relay = "handshaking" /\ Admits(o.hello)
           /\ \E n \in o.got .. o.replied :
                 Become(d, [Opened(o) EXCEPT !.got = n])
  <2>1. Sound(Opened(o)) /\ Opened(o).hello = "accepted"
    BY <1>1, <1>4, OpenedSound DEF Admits
  <2>2. PICK n \in Nat : Become(d, [Opened(o) EXCEPT !.got = n])
    BY <1>2, <1>4
  <2>3. Sound([Opened(o) EXCEPT !.got = n])
    BY <2>1, ReadSound
  <2>. QED  BY <2>2, <2>3
<1>5. CASE Become(d, Dispose(o))
  BY <1>1, <1>5, DisposeSound
<1>6. CASE /\ o.relay = "open"
           /\ \E n \in o.got + 1 .. o.replied :
                 Become(d, [o EXCEPT !.got = n])
  <2>1. o.hello = "accepted"
    BY <1>1, <1>6 DEF Sound, HoldersAgree
  <2>2. PICK n \in Nat : Become(d, [o EXCEPT !.got = n])
    BY <1>3, <1>6
  <2>3. Sound([o EXCEPT !.got = n])
    BY <1>1, <2>1, ReadSound
  <2>. QED  BY <2>2, <2>3
<1>. QED  BY <1>4, <1>5, <1>6 DEF ReadChannel

(* The host stops: every connection is released, every channel dropped.    *)
LEMMA StoppedSound ==
    ASSUME NEW s, Sound(s)
    PROVE  Sound([Dispose(s) EXCEPT
                    !.chan = IF @ = "open" THEN "closed" ELSE @,
                    !.backlog = <<>>])
<1>. DEFINE v == Dispose(s)
            u == [v EXCEPT !.chan = IF @ = "open" THEN "closed" ELSE @,
                           !.backlog = <<>>]
<1>1. Sound(v) /\ v \in Session
  BY DisposeSound DEF Sound
<1>11. u = [Dispose(s) EXCEPT
              !.chan = IF @ = "open" THEN "closed" ELSE @, !.backlog = <<>>]
  OBVIOUS
<1>2. v.tcp \in {"none", "gone"}
  BY DEF Dispose, RelayClose, FlowLives, Sound, Session, Tcp
<1>. HIDE DEF v
<1>3. <<>> \in Seq(Item) /\ Len(<<>>) = 0 /\ \A k : Run(<<>>, k)
  BY DEF Run
<1>4. Len(v.wire) \in Nat /\ Len(v.backlog) \in Nat
  BY <1>1, Queues
<1>5. u \in Session
  BY <1>1, <1>3 DEF Session
<1>6. v.relay = "none" /\ v.held = <<>>
  BY <1>1, <1>2 DEF Sound, LayersAgree, HoldersAgree
<1>7. /\ u.wire = v.wire /\ u.backlog = <<>> /\ u.held = <<>>
      /\ u.pending = v.pending /\ u.tcp = v.tcp /\ u.taken = v.taken
      /\ u.relay = "none" /\ u.connect = v.connect /\ u.chan # "open"
      /\ u.chan = "none" <=> v.chan = "none"
      /\ u.hello = v.hello /\ u.got = v.got /\ u.replied = v.replied
  BY <1>1, <1>6 DEF Session
<1>. HIDE DEF u
<1>8. LayersAgree(u)
  BY <1>1, <1>2, <1>7 DEF Sound, LayersAgree
<1>9. HoldersAgree(u)
  <2>1. Len(v.wire) + Len(v.backlog) <= 1 => Len(v.wire) + 0 <= 1
    <3>. DEFINE w == Len(v.wire)
                b == Len(v.backlog)
    <3>. HIDE DEF w, b
    <3>1. w \in Nat /\ b \in Nat
      BY <1>4 DEF w, b
    <3>2. w + b <= 1 => w + 0 <= 1
      BY <3>1
    <3>. QED  BY <3>2 DEF w, b
  <2>. QED  BY <1>1, <1>3, <1>7, <2>1 DEF Sound, HoldersAgree
<1>10. InPlace(u)
  BY <1>1, <1>2, <1>3, <1>7 DEF Sound, InPlace
<1>. QED  BY <1>5, <1>8, <1>9, <1>10, <1>11 DEF Sound

-----------------------------------------------------------------------------
(* The invariant holds in every reachable state.                           *)

LEMMA InitSound == Init => IInv
<1>1. <<>> \in Seq(Item) /\ Len(<<>>) = 0 /\ \A k : Run(<<>>, k)
  BY DEF Run
<1>2. NewSession \in Session
  BY <1>1 DEF NewSession, Session, Tcp, RelayState
<1>3. LayersAgree(NewSession)
  BY DEF NewSession, LayersAgree
<1>4. HoldersAgree(NewSession)
  BY <1>1 DEF NewSession, HoldersAgree
<1>5. InPlace(NewSession)
  BY <1>1 DEF NewSession, InPlace
<1>. QED  BY <1>2, <1>3, <1>4, <1>5 DEF Init, IInv, Sound

LEMMA BecomeSound ==
    ASSUME IInv, NEW d \in Dials, NEW s, Sound(s), Become(d, s)
    PROVE  IInv'
  BY DEF IInv, Become, Sound

LEMMA StopSound ==
    ASSUME IInv, Stop
    PROVE  IInv'
  BY StoppedSound DEF IInv, Stop, Sound

LEMMA NodesSound ==
    ASSUME IInv, NodeDials \/ NodeReports
    PROVE  IInv'
  BY DEF IInv, NodeDials, NodeReports

LEMMA NextSound == IInv /\ [Next]_vars => IInv'
<1>. SUFFICES ASSUME IInv, [Next]_vars
              PROVE  IInv'
  OBVIOUS
<1>1. ASSUME NEW d \in Dials,
             \/ Dial(d) \/ ClientData(d) \/ ClientFin(d) \/ FlowEnds(d)
             \/ Throttle(d) \/ Connected(d) \/ ConnectFailed(d)
             \/ SocketWrites(d) \/ GatewayHello(d) \/ GatewayReplies(d)
             \/ ReadChannel(d) \/ ChannelEnds(d)
      PROVE  IInv'
  <2>1. \E s : Sound(s) /\ Become(d, s)
    BY <1>1, DialSound, ClientDataSound, ClientFinSound, FlowEndsSound,
       ThrottleSound, ConnectedSound, ConnectFailedSound, SocketWritesSound,
       GatewayHelloSound, GatewayRepliesSound, ReadChannelSound,
       ChannelEndsSound
  <2>. QED  BY <2>1, BecomeSound
<1>2. CASE Stop
  BY <1>2, StopSound
<1>3. CASE UNCHANGED vars
  BY <1>3 DEF vars, IInv
<1>. QED  BY <1>1, <1>2, <1>3, NodesSound DEF Next

LEMMA Invariant == Spec => []IInv
  BY InitSound, NextSound, PTL DEF Spec

-----------------------------------------------------------------------------
(* What it implies.                                                        *)

(* The three layers stay in step: no relay outlives its connection, no     *)
(* dial waits for a connect nobody is making, and no connection that is up *)
(* misses its relay or its channel.                                        *)
THEOREM LayersStayInStep == Spec => []RelayHasFlow
<1>1. IInv => RelayHasFlow
  BY DEF IInv, Sound, LayersAgree, RelayHasFlow
<1>. QED  BY <1>1, Invariant, PTL

(* A relay holds bytes only while its handshake is under way: the hello    *)
(* releases all of them.                                                   *)
THEOREM HelloReleasesHeld == Spec => []HeldOnlyForHello
<1>1. IInv => HeldOnlyForHello
  BY DEF IInv, Sound, HoldersAgree, HeldOnlyForHello
<1>. QED  BY <1>1, Invariant, PTL

(* The gateway reads one opening message and then the client's bytes in    *)
(* order, though they wait in three different places on the way.           *)
THEOREM GatewaySeesOrder == Spec => []WireInOrder
<1>1. ASSUME IInv, NEW d \in Dials, NEW i \in 1 .. Len(session[d].wire)
      PROVE  session[d].wire[i] = i - 1
  <2>1. Run(session[d].wire, 0)
    BY <1>1 DEF IInv, Sound, InPlace
  <2>2. session[d].wire[i] = 0 + i - 1
    BY <2>1 DEF Run
  <2>3. Len(session[d].wire) \in Nat
    BY <1>1, Queues DEF IInv
  <2>4. i \in Nat
    BY ONLY <2>3, i \in 1 .. Len(session[d].wire)
  <2>. QED  BY ONLY <2>2, <2>4
<1>2. IInv => WireInOrder
  BY <1>1 DEF WireInOrder
<1>. QED  BY <1>2, Invariant, PTL

(* A relay the gateway refused, or answered with nonsense, was sent its    *)
(* opening message at most, and nothing it said reached the client.        *)
THEOREM RefusedRelayIsMute == Spec => []RefusedCarriesNothing
<1>1. ASSUME IInv, NEW d \in Dials,
             session[d].hello \in {"refused", "garbled"}
      PROVE  /\ session[d].got = 0 /\ Len(session[d].wire) <= 1
             /\ session[d].relay # "open"
  <2>. DEFINE o == session[d]
              w == Len(o.wire)
              b == Len(o.backlog)
  <2>1. o \in Session /\ HoldersAgree(o)
    BY <1>1 DEF IInv, Sound
  <2>2. o.got = 0 /\ o.relay # "open" /\ w + b <= 1
    BY <1>1, <2>1 DEF HoldersAgree
  <2>3. w \in Nat /\ b \in Nat
    BY <2>1, Queues
  <2>4. w <= 1
    <3>. HIDE DEF w, b, o
    <3>. QED  BY <2>2, <2>3
  <2>. QED  BY <2>2, <2>4
<1>2. IInv => RefusedCarriesNothing
  BY <1>1 DEF RefusedCarriesNothing
<1>. QED  BY <1>2, Invariant, PTL

(* Until the gateway has accepted a relay, its wire and its backlog carry  *)
(* the opening message and nothing else.                                   *)
THEOREM HelloComesFirst == Spec => []NothingBeforeHello
<1>1. ASSUME IInv, NEW d \in Dials,
             NEW i \in 1 .. Len(session[d].wire \o session[d].backlog),
             session[d].hello # "accepted"
      PROVE  (session[d].wire \o session[d].backlog)[i] = Auth
  <2>. DEFINE o == session[d]
              w == Len(o.wire)
              b == Len(o.backlog)
              q == o.wire \o o.backlog
  <2>1. o \in Session /\ HoldersAgree(o) /\ InPlace(o)
    BY <1>1 DEF IInv, Sound
  <2>2. /\ w \in Nat /\ b \in Nat
        /\ o.wire \in Seq(Item) /\ o.backlog \in Seq(Item)
    BY <2>1, Queues
  <2>3. w + b <= 1 /\ Run(o.wire, 0) /\ Run(o.backlog, w)
    BY <1>1, <2>1 DEF HoldersAgree, InPlace
  <2>4. 0 \in Nat /\ 0 + w = w
    <3>. HIDE DEF w
    <3>. QED  BY <2>2
  <2>5. Run(o.backlog, 0 + w)
    BY ONLY <2>3, <2>4, Zenon
  <2>6. Len(q) = w + b /\ Run(q, 0)
    BY ONLY <2>2, <2>3, <2>4, <2>5, JoinedRuns, Zenon
  <2>7. i \in 1 .. Len(q)
    OBVIOUS
  <2>. HIDE DEF q, w, b
  <2>8. i = 1
    BY <2>2, <2>3, <2>6, <2>7
  <2>9. q[i] = 0 + 1 - 1
    BY <2>6, <2>7, <2>8 DEF Run
  <2>10. q[i] = Auth
    BY <2>9 DEF Auth
  <2>. QED  BY <2>10 DEF q
<1>2. IInv => NothingBeforeHello
  BY <1>1 DEF NothingBeforeHello
<1>. QED  BY <1>2, Invariant, PTL

(* While a connection is up, what the client had acknowledged is on its    *)
(* way to the gateway, each byte once: wire, backlog and held bytes, one   *)
(* after the other, are the opening message and all the client sent.       *)
THEOREM NothingIsLost == Spec => []NothingLostWhileUp
<1>1. ASSUME IInv, NEW d \in Dials, session[d].tcp = "up",
             NEW all, all = session[d].wire \o session[d].backlog
                              \o session[d].held \o session[d].pending
      PROVE  /\ Len(all) = session[d].taken + 1
             /\ \A i \in 1 .. Len(all) : all[i] = i - 1
  <2>. DEFINE o == session[d]
              w == Len(o.wire)
              b == Len(o.backlog)
              h == Len(o.held)
              q == o.wire \o o.backlog
              r == q \o o.held
  <2>1. o \in Session /\ o.pending = <<>> /\ InPlace(o)
    BY <1>1 DEF IInv, Sound, HoldersAgree
  <2>2. /\ w \in Nat /\ b \in Nat /\ h \in Nat /\ o.taken \in Nat
        /\ o.wire \in Seq(Item) /\ o.backlog \in Seq(Item)
        /\ o.held \in Seq(Item)
    BY <2>1, Queues
  <2>3. /\ Run(o.wire, 0) /\ Run(o.backlog, w) /\ Run(o.held, w + b)
        /\ w + b + h = o.taken + 1
    BY <1>1, <2>1 DEF InPlace
  <2>4. 0 \in Nat /\ 0 + w = w /\ 0 + (w + b) = w + b
    <3>. HIDE DEF w, b
    <3>. QED  BY <2>2
  <2>5. Run(o.backlog, 0 + w) /\ Run(o.held, 0 + (w + b))
    BY ONLY <2>3, <2>4, Zenon
  <2>6. q \in Seq(Item) /\ Len(q) = w + b /\ Run(q, 0)
    BY ONLY <2>2, <2>3, <2>4, <2>5, JoinedRuns, Zenon
  <2>7. r \in Seq(Item) /\ Len(r) = Len(q) + h /\ Run(r, 0)
    <3>1. Run(o.held, 0 + Len(q))
      BY ONLY <2>5, <2>6, Zenon
    <3>. HIDE DEF q
    <3>. QED  BY ONLY <2>2, <2>4, <2>6, <3>1, JoinedRuns, Zenon
  <2>8. all = r
    <3>1. r \o <<>> = r
      <4>. HIDE DEF r
      <4>. QED  BY <2>7 DEF Item
    <3>. QED  BY ONLY <1>1, <2>1, <3>1, Zenon
  <2>9. Len(all) = o.taken + 1
    BY ONLY <2>3, <2>6, <2>7, <2>8, Zenon
  <2>10. \A i \in 1 .. Len(all) : all[i] = i - 1
    <3>1. \A i \in 1 .. Len(all) : all[i] = 0 + i - 1
      BY ONLY <2>7, <2>8, Zenon DEF Run
    <3>2. Len(all) \in Nat
      BY ONLY <2>7, <2>8, ItemLens, Zenon
    <3>. QED  BY ONLY <3>1, <3>2
  <2>. QED  BY <2>9, <2>10
<1>2. IInv => NothingLostWhileUp
  BY <1>1 DEF NothingLostWhileUp
<1>. QED  BY <1>2, Invariant, PTL

-----------------------------------------------------------------------------
(* The connect budget: the counter that the host looks at and the workers  *)
(* that it stands for move together.                                       *)

Counted ==
    /\ IsFiniteSet(Inflight) /\ node_connects \in Nat
    /\ ConnectsCounted /\ connects_pending <= MaxPendingConnects

(* The counter is a number, and Less takes one away from it.               *)
LEMMA CountedTypes ==
    ASSUME Counted
    PROVE  /\ Cardinality(Inflight) \in Nat /\ connects_pending \in Nat
           /\ \A n \in Nat : Less(n + 1) = n
<1>1. Cardinality(Inflight) \in Nat
  BY FS_CardinalityType DEF Counted
<1>2. connects_pending \in Nat
  BY <1>1 DEF Counted, ConnectsCounted
<1>3. \A n \in Nat : Less(n + 1) = n
  BY DEF Less
<1>. QED  BY <1>1, <1>2, <1>3

(* A step of a session that neither starts nor ends its connect.           *)
LEMMA NoWorkerMoves ==
    ASSUME IInv, Counted, NEW d \in Dials, NEW s, Become(d, s),
           s.connect = "inflight" <=> session[d].connect = "inflight",
           UNCHANGED connects
    PROVE  Counted'
<1>1. Inflight' = Inflight
  BY DEF IInv, Become, Inflight
<1>. QED  BY <1>1 DEF Counted, ConnectsCounted, connects

(* A worker that runs for a dial reports.                                  *)
LEMMA WorkerDone ==
    ASSUME IInv, Counted, NEW d \in Dials, NEW s, Become(d, s),
           session[d].connect = "inflight", s.connect # "inflight",
           WorkerReports
    PROVE  Counted'
<1>1. d \in Inflight /\ Inflight' = Inflight \ {d}
  BY DEF IInv, Become, Inflight
<1>2. /\ IsFiniteSet(Inflight \ {d})
      /\ Cardinality(Inflight \ {d}) = Cardinality(Inflight) - 1
  BY <1>1, FS_RemoveElement DEF Counted
<1>3. /\ Cardinality(Inflight) \in Nat /\ connects_pending \in Nat
      /\ Cardinality(Inflight \ {d}) \in Nat
  BY <1>2, CountedTypes, FS_CardinalityType
<1>4. connects_pending' = connects_pending - 1
  BY <1>2, <1>3 DEF WorkerReports, Less, Counted, ConnectsCounted
<1>5. node_connects' = node_connects /\ node_connects \in Nat
  BY DEF WorkerReports, Counted
<1>. QED  BY <1>1, <1>2, <1>3, <1>4, <1>5, RelayAssumption
          DEF Counted, ConnectsCounted

(* The effects on a session start no connect.                              *)
LEMMA EffectsKeepConnect ==
    ASSUME NEW s \in Session
    PROVE  /\ Dispose(s).connect = s.connect
           /\ on_dial_failed(s).connect = s.connect
           /\ on_dial_connected(s).connect = s.connect
           /\ channel_ended(s).connect = s.connect
           /\ Opened(s).connect = s.connect
           /\ \A items : push_relay_send(s, items).connect = s.connect
<1>1. Dispose(s).connect = s.connect
  BY DEF Dispose, RelayClose, Session
<1>2. on_dial_failed(s).connect = s.connect
  BY DEF on_dial_failed, Dispose, RelayClose, Session
<1>3. on_dial_connected(s).connect = s.connect
  BY DEF on_dial_connected, Queue, Session
<1>4. channel_ended(s).connect = s.connect
  BY DEF channel_ended, on_relay_closed, Session
<1>5. Opened(s).connect = s.connect
  BY DEF Opened, Queue, Session
<1>6. \A items : push_relay_send(s, items).connect = s.connect
  BY DEF push_relay_send, Queue, Session
<1>. QED  BY <1>1, <1>2, <1>3, <1>4, <1>5, <1>6

LEMMA DialCounted ==
    ASSUME IInv, Counted, NEW d \in Dials, Dial(d)
    PROVE  Counted'
<1>. DEFINE o == session[d]
            s == [o EXCEPT !.tcp = "dialing", !.relay = "connecting",
                           !.held = <<>>]
            go == [s EXCEPT !.connect = "inflight"]
            no == [s EXCEPT !.connect = "settled"]
<1>1. s \in Session /\ o.connect = "none"
  <2>1. o \in Session /\ <<>> \in Seq(Item) /\ Sound(o) /\ o.tcp = "none"
    BY DEF IInv, Dial
  <2>. QED  BY <2>1 DEF Session, Tcp, RelayState, Sound, LayersAgree
<1>2. go.connect = "inflight" /\ no \in Session /\ no.connect = "settled"
  BY <1>1 DEF Session
<1>3. on_dial_failed(no).connect = "settled"
  BY <1>2, EffectsKeepConnect
<1>4. /\ Cardinality(Inflight) \in Nat /\ connects_pending \in Nat
      /\ \A n \in Nat : Less(n + 1) = n
  BY CountedTypes
<1>5. CASE MayConnect /\ Become(d, go) /\ WorkerStarts
  <2>1. d \notin Inflight /\ Inflight' = Inflight \cup {d}
    BY <1>1, <1>2, <1>5 DEF IInv, Become, Inflight
  <2>2. /\ IsFiniteSet(Inflight \cup {d})
        /\ Cardinality(Inflight \cup {d}) = Cardinality(Inflight) + 1
    BY <2>1, FS_AddElement DEF Counted
  <2>3. /\ connects_pending' = connects_pending + 1
        /\ node_connects' = node_connects /\ node_connects \in Nat
        /\ connects_pending < MaxPendingConnects
    BY <1>5 DEF WorkerStarts, Counted, MayConnect
  <2>. QED  BY <1>4, <2>1, <2>2, <2>3, RelayAssumption
            DEF Counted, ConnectsCounted
<1>6. CASE MayConnect /\ Become(d, on_dial_failed(no)) /\ WorkerRefused
  <2>1. UNCHANGED connects
    BY <1>4, <1>6 DEF WorkerRefused, connects
  <2>. QED  BY <1>1, <1>3, <1>6, <2>1, NoWorkerMoves
<1>7. CASE ~MayConnect /\ Become(d, on_dial_failed(no)) /\ UNCHANGED connects
  BY <1>1, <1>3, <1>7, NoWorkerMoves
<1>. QED  BY <1>5, <1>6, <1>7 DEF Dial

(* The worker of a dial reports to a session whose connection may be gone. *)
LEMMA ReportCounted ==
    ASSUME IInv, Counted, NEW d \in Dials, Connected(d) \/ ConnectFailed(d)
    PROVE  Counted'
<1>. DEFINE o == session[d]
            s == [o EXCEPT !.connect = "settled", !.chan = "open"]
            u == [s EXCEPT !.chan = "closed"]
            v == [o EXCEPT !.connect = "settled"]
<1>1. o \in Session
  BY DEF IInv
<1>2. /\ s \in Session /\ u \in Session /\ v \in Session
      /\ s.connect = "settled" /\ u.connect = "settled"
      /\ v.connect = "settled"
  BY <1>1 DEF Session
<1>3. /\ on_dial_connected(s).connect = "settled"
      /\ on_dial_failed(u).connect = "settled"
      /\ Dispose(s).connect = "settled"
      /\ on_dial_failed(v).connect = "settled"
  BY <1>2, EffectsKeepConnect
<1>4. o.connect = "inflight" /\ WorkerReports
  BY DEF Connected, ConnectFailed
<1>5. \/ Become(d, on_dial_connected(s)) \/ Become(d, on_dial_failed(u))
      \/ Become(d, Dispose(s)) \/ Become(d, on_dial_failed(v))
  BY DEF Connected, ConnectFailed
<1>. QED  BY <1>3, <1>4, <1>5, WorkerDone

LEMMA NodeCounted ==
    ASSUME Counted, NodeDials \/ NodeReports
    PROVE  Counted'
<1>1. Inflight' = Inflight
  BY DEF NodeDials, NodeReports, Inflight
<1>2. Cardinality(Inflight) \in Nat /\ connects_pending \in Nat
  BY CountedTypes
<1>3. CASE NodeDials
  BY <1>1, <1>2, <1>3, RelayAssumption
     DEF NodeDials, MayConnect, Counted, ConnectsCounted
<1>4. CASE NodeReports
  BY <1>1, <1>2, <1>4, RelayAssumption
     DEF NodeReports, Less, Counted, ConnectsCounted
<1>. QED  BY <1>3, <1>4

LEMMA OtherCounted ==
    ASSUME IInv, Counted, NEW d \in Dials,
           \/ ClientData(d) \/ ClientFin(d) \/ FlowEnds(d)
           \/ Throttle(d) \/ SocketWrites(d) \/ GatewayHello(d)
           \/ GatewayReplies(d) \/ ReadChannel(d) \/ ChannelEnds(d)
    PROVE  Counted'
<1>. DEFINE o == session[d]
            Kept == \E s : /\ Become(d, s)
                           /\ s.connect = o.connect
<1>1. o \in Session
  BY DEF IInv
<1>2. ASSUME ClientData(d)  PROVE Kept
  <2>. DEFINE n == o.taken + 1
              s == [o EXCEPT !.taken = n]
  <2>1. s \in Session /\ s.connect = o.connect
    <3>1. n \in Nat
      <4>1. o.taken \in Nat
        BY <1>1, Queues
      <4>. HIDE DEF o
      <4>. QED  BY <4>1
    <3>. HIDE DEF n
    <3>. QED  BY <1>1, <3>1 DEF Session
  <2>2. push_relay_send(s, <<n>>).connect = o.connect
    BY <2>1, EffectsKeepConnect
  <2>3. [o EXCEPT !.taken = n, !.pending = Append(@, n)].connect = o.connect
    BY <1>1 DEF Session
  <2>. QED  BY <1>2, <2>2, <2>3 DEF ClientData
<1>3. ASSUME ReadChannel(d)  PROVE Kept
  <2>1. \A n : [Opened(o) EXCEPT !.got = n].connect = o.connect
    BY <1>1 DEF Opened, Queue, Session
  <2>2. \A n : [o EXCEPT !.got = n].connect = o.connect
    BY <1>1 DEF Session
  <2>3. Dispose(o).connect = o.connect
    BY <1>1, EffectsKeepConnect
  <2>. QED  BY <1>3, <2>1, <2>2, <2>3 DEF ReadChannel
<1>4. ASSUME ClientFin(d) \/ Throttle(d) \/ SocketWrites(d)
               \/ GatewayHello(d) \/ GatewayReplies(d)
      PROVE  Kept
  <2>1. CASE ClientFin(d)
    <3>. DEFINE s == [o EXCEPT !.fin = TRUE,
                        !.shut = @ \/ (o.tcp # "dialing" /\ o.chan = "open")]
    <3>1. s.connect = o.connect
      BY <1>1 DEF Session
    <3>2. Become(d, s)
      BY <2>1 DEF ClientFin
    <3>. QED  BY ONLY <3>1, <3>2, Zenon
  <2>2. CASE Throttle(d)
    BY <1>1, <2>2 DEF Throttle, Session
  <2>3. CASE SocketWrites(d)
    <3>. DEFINE s == [o EXCEPT !.wire = Append(@, Head(o.backlog)),
                               !.backlog = Tail(@)]
    <3>1. s.connect = o.connect
      BY <1>1 DEF Session
    <3>2. Become(d, s)
      BY <2>3 DEF SocketWrites
    <3>. QED  BY ONLY <3>1, <3>2, Zenon
  <2>4. CASE GatewayHello(d)
    BY <1>1, <2>4 DEF GatewayHello, Session
  <2>5. CASE GatewayReplies(d)
    <3>. DEFINE s == [o EXCEPT !.replied = @ + 1]
    <3>1. s.connect = o.connect
      BY <1>1 DEF Session
    <3>2. Become(d, s)
      BY <2>5 DEF GatewayReplies
    <3>. QED  BY ONLY <3>1, <3>2, Zenon
  <2>. QED  BY <1>4, <2>1, <2>2, <2>3, <2>4, <2>5
<1>5. ASSUME FlowEnds(d) \/ ChannelEnds(d)  PROVE Kept
  BY <1>1, <1>5, EffectsKeepConnect DEF FlowEnds, ChannelEnds
<1>6. Kept
  BY <1>2, <1>3, <1>4, <1>5
<1>7. UNCHANGED connects
  BY DEF ClientData, ClientFin, FlowEnds, Throttle, SocketWrites,
         GatewayHello, GatewayReplies, ReadChannel, ChannelEnds
<1>. QED  BY <1>6, <1>7, NoWorkerMoves

LEMMA StopCounted ==
    ASSUME IInv, Counted, Stop
    PROVE  Counted'
<1>1. ASSUME NEW d \in Dials
      PROVE  session'[d].connect = session[d].connect
  <2>. DEFINE v == Dispose(session[d])
  <2>1. v \in Session /\ v.connect = session[d].connect
    BY DisposeSound, EffectsKeepConnect DEF IInv, Sound
  <2>2. session'[d] = [v EXCEPT
            !.chan = IF @ = "open" THEN "closed" ELSE @, !.backlog = <<>>]
    BY DEF Stop
  <2>. HIDE DEF v
  <2>3. [v EXCEPT !.chan = IF @ = "open" THEN "closed" ELSE @,
                  !.backlog = <<>>].connect = v.connect
    BY <2>1 DEF Session
  <2>. QED  BY <2>1, <2>2, <2>3
<1>2. Inflight' = Inflight
  BY <1>1 DEF Inflight
<1>3. UNCHANGED connects
  BY DEF Stop
<1>. QED  BY <1>2, <1>3 DEF Counted, ConnectsCounted, connects

LEMMA CountInvariant == Spec => []Counted
<1>1. Init => Counted
  <2>1. Init => Inflight = {}
    BY DEF Init, Inflight, NewSession
  <2>. QED  BY <2>1, FS_EmptySet, RelayAssumption
            DEF Init, Counted, ConnectsCounted
<1>2. IInv /\ Counted /\ [Next]_vars => Counted'
  <2>1. ASSUME UNCHANGED vars, Counted  PROVE Counted'
    BY <2>1 DEF vars, connects, Counted, ConnectsCounted, Inflight
  <2>. QED  BY <2>1, DialCounted, ReportCounted, NodeCounted, OtherCounted,
               StopCounted DEF Next
<1>. QED  BY <1>1, <1>2, Invariant, PTL DEF Spec

(* Every session is well formed, whatever the host, the plane, the         *)
(* terminator and the gateway do, and so are the host's counts.            *)
THEOREM SessionsWellTyped == Spec => []TypeOK
<1>1. IInv /\ Counted => TypeOK
  BY CountedTypes DEF IInv, Counted, TypeOK
<1>. QED  BY <1>1, Invariant, CountInvariant, PTL

(* The counter never drifts from the connect workers that run: a dial that *)
(* is closed under its worker, refused, failed or adopted late, and a      *)
(* thread the system refuses, are each counted up and down once.  So the   *)
(* workers stay within the budget, though the host asks its counter only,  *)
(* and a budget with room is not taken for a full one.                     *)
THEOREM ConnectsStayInBudget == Spec => [](ConnectsCounted /\ ConnectBudget)
<1>1. Counted => ConnectsCounted /\ ConnectBudget
  BY DEF Counted, ConnectsCounted, ConnectBudget
<1>. QED  BY <1>1, CountInvariant, PTL
=============================================================================
