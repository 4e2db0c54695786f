----------------------------- MODULE FfiProofs -----------------------------
(***************************************************************************)
(* Proofs about Ffi, for any number of caller threads, calls and effects:  *)
(* the effects of a call reach the callback together, a packet the plane   *)
(* took is never reported as declined, and no callback fires once          *)
(* sangfor_stop has returned.                                              *)
(***************************************************************************)
EXTENDS Ffi, TLAPS

(* A thread that has the effects of a call still to deliver.               *)
Carrying(t) == thread[t].at \in {"clearing", "dispatch", "deliver"}

(* A thread that is stopping the interface, or that has it to itself.      *)
Clearing(t) == At(t, "dispatch") /\ thread[t].then = "free"
Stopping(t) == At(t, "closing") \/ At(t, "clearing") \/ Clearing(t)
Owning(t) == At(t, "building") \/ Stopping(t)

(* The mutex of the callback is held by the thread that delivers.          *)
Locked == \A t \in Threads : At(t, "deliver") <=> callbacks = t

(* One thread at a time starts or stops; from the moment the callback is   *)
(* cleared nobody delivers, and nobody can register another.               *)
OneOwner ==
    /\ handle = "none" => \A t \in Threads : At(t, "out")
    /\ \A t \in Threads : At(t, "building") => handle = "building"
    /\ \A t \in Threads : Stopping(t) => handle = "stopping"
    /\ \A s, t \in Threads : Owning(s) /\ Owning(t) => s = t

Hushed ==
    /\ \A t \in Threads : Clearing(t) => ~handler /\ callbacks = NoOne
    /\ \A t \in Threads : At(t, "deliver") => thread[t].then # "free"
    /\ handle = "freed" => ~handler /\ callbacks = NoOne

(* Room for the two calls of the plane that no bound counts.               *)
Budget ==
    /\ handle \in {"none", "building"} => calls <= MaxCalls
    /\ handle = "live" => calls <= MaxCalls + 1
    /\ \A t \in Threads : At(t, "closing") => calls <= MaxCalls + 1

(* No two threads carry the effects of the same call; what was delivered   *)
(* of a call ends the deliveries, and belongs to a call that was made.     *)
Fresh(c) == \A i \in DOMAIN delivered : delivered[i].call # c
LastOf(c, n, t) ==
    /\ delivered # <<>>
    /\ delivered[Len(delivered)] = [call |-> c, place |-> n, by |-> t]

Batch(t) ==
    LET m == thread[t] IN
    /\ m.call \in 1 .. calls
    /\ m.at # "deliver" => m.next = 1
    /\ m.next = 1 => Fresh(m.call)
    /\ m.next > 1 => LastOf(m.call, m.next - 1, t)

Batches ==
    /\ \A t \in Threads : Carrying(t) => Batch(t)
    /\ \A s, t \in Threads :
          Carrying(s) /\ Carrying(t) /\ s # t => thread[s].call # thread[t].call
    /\ \A i \in DOMAIN delivered : delivered[i].call \in 1 .. calls

(* A write that will read the counter again has been counted.              *)
Awaiting(t) == thread[t].then = "recount"
                 /\ thread[t].at \in {"dispatch", "deliver", "recount"}
Counted ==
    /\ \A t \in Threads : Awaiting(t) /\ thread[t].took => counted > thread[t].before
    /\ \A t \in Threads : At(t, "recount") => thread[t].then = "recount"
    /\ \A t \in Threads : At(t, "clearing") => thread[t].then # "recount"

IInv == /\ TypeOK /\ Locked /\ OneOwner /\ Hushed /\ Budget
        /\ Batches /\ BatchesWhole /\ Counted /\ TakenIsReported

-----------------------------------------------------------------------------
(* What a step does to the threads: only t's record changes, and how.      *)

Alone(t) ==
    /\ thread' \in [Threads -> Thread]
    /\ \A s \in Threads : s # t => thread'[s] = thread[s]

(* The rest of t's record stays as it is.                                  *)
Moved(t, place) ==
    /\ Alone(t) /\ thread'[t].at = place
    /\ thread'[t].then = thread[t].then /\ thread'[t].call = thread[t].call
    /\ thread'[t].next = thread[t].next /\ thread'[t].before = thread[t].before
    /\ thread'[t].took = thread[t].took

Batched(t, place, goal) ==
    /\ Alone(t) /\ thread'[t].at = place /\ thread'[t].then = goal
    /\ thread'[t].call = calls + 1 /\ thread'[t].next = 1

LEMMA GotoMoves ==
    ASSUME TypeOK, NEW t \in Threads, NEW place \in Places, Goto(t, place)
    PROVE  Moved(t, place)
<1>1. thread \in [Threads -> Thread] /\ thread[t] \in Thread
  BY DEF TypeOK
<1>2. thread' = [thread EXCEPT ![t] = [thread[t] EXCEPT !.at = place]]
  BY DEF Goto
<1>3. [thread[t] EXCEPT !.at = place] \in Thread
  BY <1>1 DEF Thread
<1>. QED  BY <1>1, <1>2, <1>3 DEF Moved, Alone, Thread

LEMMA ProducesBatch ==
    ASSUME TypeOK, NEW t \in Threads, NEW size \in 0 .. MaxBatch,
           NEW goal \in Goals, Produces(t, size, goal)
    PROVE  Batched(t, "dispatch", goal) /\ calls' = calls + 1 /\ calls < MaxCalls
<1>1. thread \in [Threads -> Thread] /\ thread[t] \in Thread /\ calls \in Nat
      /\ MaxBatch \in Nat /\ MaxCalls \in Nat
  BY FfiAssumption DEF TypeOK
<1> DEFINE m == [thread[t] EXCEPT !.at = "dispatch", !.then = goal,
                    !.call = calls + 1, !.next = 1, !.last = size]
<1>2. thread' = [thread EXCEPT ![t] = m] /\ calls < MaxCalls /\ calls' = calls + 1
  BY DEF Produces
<1>3. m \in Thread
  <2>1. /\ calls + 1 \in 0 .. MaxCalls + 2 /\ 1 \in 1 .. MaxBatch + 1
        /\ "dispatch" \in Places
    BY <1>1, <1>2 DEF Places
  <2>. QED  BY <1>1, <2>1 DEF Thread
<1>4. /\ m.at = "dispatch" /\ m.then = goal /\ m.call = calls + 1 /\ m.next = 1
  BY <1>1 DEF Thread
<1>. HIDE DEF m
<1>. QED  BY <1>1, <1>2, <1>3, <1>4 DEF Batched, Alone

LEMMA AfterPlaces ==
    ASSUME TypeOK, NEW t \in Threads
    PROVE  /\ After(t) \in {"out", "recount", "asleep"}
           /\ After(t) = "recount" => thread[t].then = "recount"
<1>1. thread[t].then \in Goals
  BY DEF TypeOK, Thread
<1>. QED  BY <1>1 DEF After, Goals

-----------------------------------------------------------------------------
(* Each part of the invariant, for a step of t that respects it.           *)

LEMMA LockedKept ==
    ASSUME Locked, NEW t \in Threads, Alone(t),
           thread'[t].at = "deliver" <=> callbacks' = t,
           \/ callbacks' = callbacks
           \/ callbacks \in {t, NoOne} /\ callbacks' \in {t, NoOne}
    PROVE  Locked'
  BY FfiAssumption DEF Locked, Alone, At, Threads

LEMMA OneOwnerKept ==
    ASSUME OneOwner, handle # "none", NEW t \in Threads, Alone(t),
           UNCHANGED handle,
           thread'[t].at = "building" => At(t, "building"), 
           Stopping(t)' => Stopping(t)
    PROVE  OneOwner'
<1>1. \A s \in Threads : (At(s, "building"))' => At(s, "building")
  BY DEF Alone, At
<1>2. \A s \in Threads : Stopping(s)' => Stopping(s)
  BY DEF Alone, Stopping, Clearing, At
<1>. QED  BY <1>1, <1>2 DEF OneOwner, Owning

LEMMA HushedKept ==
    ASSUME Hushed, NEW t \in Threads, Alone(t),
           thread'[t].at = "deliver" => thread'[t].then # "free",
           Clearing(t)' \/ handle' = "freed" => ~handler' /\ callbacks' = NoOne,
           \A s \in Threads : s # t /\ Clearing(s) => ~handler' /\ callbacks' = NoOne
    PROVE  Hushed'
  BY DEF Hushed, Clearing, At, Alone

(* A step that carries nothing new.                                        *)
LEMMA BatchesKept ==
    ASSUME TypeOK, Batches, BatchesWhole, NEW t \in Threads, Alone(t),
           UNCHANGED delivered, calls' \in {calls, calls + 1},
           Carrying(t)' =>
              /\ Carrying(t) /\ thread'[t].call = thread[t].call
              /\ thread'[t].next = thread[t].next
              /\ thread[t].at # "deliver"
    PROVE  Batches' /\ BatchesWhole'
<1>1. calls \in Nat /\ calls' \in Nat /\ calls <= calls'
  BY FfiAssumption DEF TypeOK
<1>2. \A c \in 1 .. calls : c \in 1 .. calls'
  BY <1>1
<1>3. \A s \in Threads : Carrying(s)' =>
          /\ Carrying(s) /\ thread'[s].call = thread[s].call
          /\ thread'[s].next = thread[s].next
          /\ thread'[s].at # "deliver" => thread[s].at # "deliver"
  BY DEF Alone, Carrying
<1>4. \A s \in Threads : Carrying(s)' => Batch(s)'
  <2>. SUFFICES ASSUME NEW s \in Threads, Carrying(s)'
                PROVE  Batch(s)'
    OBVIOUS
  <2>1. /\ Batch(s) /\ thread'[s].call = thread[s].call
        /\ thread'[s].next = thread[s].next
        /\ thread'[s].at # "deliver" => thread[s].at # "deliver"
    BY <1>3 DEF Batches
  <2>2. thread'[s].call \in 1 .. calls'
    BY <1>2, <2>1 DEF Batch
  <2>3. thread'[s].at # "deliver" => thread'[s].next = 1
    BY <2>1 DEF Batch
  <2>4. thread'[s].next = 1 => Fresh(thread[s].call)'
    BY <2>1 DEF Batch, Fresh
  <2>5. thread'[s].next > 1 => LastOf(thread[s].call, thread[s].next - 1, s)'
    BY <2>1 DEF Batch, LastOf
  <2>. QED  BY <2>2, <2>3, <2>4, <2>5 DEF Batch
<1>5. \A r, s \in Threads : Carrying(r)' /\ Carrying(s)' /\ r # s
          => thread'[r].call # thread'[s].call
  BY <1>3 DEF Batches
<1>6. \A i \in DOMAIN delivered' : delivered'[i].call \in 1 .. calls'
  BY <1>2 DEF Batches
<1>. QED  BY <1>4, <1>5, <1>6 DEF Batches, BatchesWhole

(* A step that calls the plane.                                            *)
LEMMA BatchesGrow ==
    ASSUME TypeOK, Batches, BatchesWhole, NEW t \in Threads,
           NEW place, NEW goal, place # "deliver", Batched(t, place, goal),
           UNCHANGED delivered, calls' = calls + 1
    PROVE  Batches' /\ BatchesWhole'
<1>1. calls \in Nat /\ calls' \in Nat /\ calls < calls'
  BY FfiAssumption DEF TypeOK
<1>2. \A c \in 1 .. calls : c \in 1 .. calls' /\ c # calls'
  BY <1>1
<1>3. calls' \in 1 .. calls'
  BY <1>1
<1>4. \A s \in Threads : s # t => thread'[s] = thread[s]
  BY DEF Batched, Alone
<1>5. thread'[t].call = calls' /\ thread'[t].next = 1 /\ thread'[t].at # "deliver"
  BY DEF Batched
<1>6. Fresh(calls')
  BY <1>2 DEF Fresh, Batches
<1>7. \A s \in Threads : Carrying(s)' => Batch(s)'
  <2>. SUFFICES ASSUME NEW s \in Threads, Carrying(s)'
                PROVE  Batch(s)'
    OBVIOUS
  <2>1. CASE s = t
    BY <1>3, <1>5, <1>6, <2>1 DEF Batch, Fresh
  <2>2. CASE s # t
    <3>1. Batch(s) /\ thread'[s] = thread[s]
      BY <1>4, <2>2 DEF Batches, Carrying
    <3>. QED  BY <1>2, <3>1 DEF Batch, Fresh, LastOf
  <2>. QED  BY <2>1, <2>2
<1>8. \A s \in Threads : s # t /\ Carrying(s)' => thread'[s].call # calls'
  BY <1>2, <1>4 DEF Batches, Batch, Carrying
<1>9. \A r, s \in Threads : Carrying(r)' /\ Carrying(s)' /\ r # s
          => thread'[r].call # thread'[s].call
  BY <1>4, <1>5, <1>8 DEF Batches, Carrying
<1>10. \A i \in DOMAIN delivered' : delivered'[i].call \in 1 .. calls'
  BY <1>2 DEF Batches
<1>. QED  BY <1>7, <1>9, <1>10 DEF Batches, BatchesWhole

LEMMA CountedKept ==
    ASSUME TypeOK, Counted, NEW t \in Threads, Alone(t),
           counted' \in Nat, counted <= counted',
           Awaiting(t)' /\ thread'[t].took => counted' > thread'[t].before,
           thread'[t].at = "recount" => thread'[t].then = "recount",
           thread'[t].at = "clearing" => thread'[t].then # "recount"
    PROVE  Counted'
<1>1. \A s \in Threads : thread[s].before \in Nat /\ counted \in Nat
  BY DEF TypeOK, Thread
<1>. QED  BY <1>1 DEF Counted, Awaiting, Alone, At

-----------------------------------------------------------------------------
(* Each action keeps the invariant.                                        *)

LEMMA StartKeeps ==
    ASSUME IInv, NEW t \in Callers, sangfor_start(t)
    PROVE  IInv'
<1>1. /\ t \in Threads /\ Runtime \in Threads /\ thread \in [Threads -> Thread]
      /\ MaxCalls \in Nat /\ calls \in Nat
  BY FfiAssumption DEF IInv, TypeOK, Threads
<1>2. handle = "none" /\ handle' = "building" /\ \A s \in Threads : thread[s].at = "out"
  BY DEF IInv, OneOwner, sangfor_start, At
<1>3. PICK ended \in {"asleep", "ended"} :
         thread' = [thread EXCEPT ![t].at = "building", ![Runtime].at = ended]
  BY DEF sangfor_start
<1>4. thread' \in [Threads -> Thread]
  BY <1>1, <1>3 DEF Thread, Places
<1>5. \A s \in Threads : /\ thread'[s].at \in {"out", "building", "asleep", "ended"}
                         /\ thread'[s].at = "building" => s = t
  BY <1>1, <1>2, <1>3 DEF Thread
<1>6. UNCHANGED <<running, handler, callbacks, counted, calls, delivered, wrote>>
  BY DEF sangfor_start
<1>7. TypeOK'
  BY <1>2, <1>4, <1>6 DEF IInv, TypeOK
<1>8. Locked'
  BY <1>2, <1>5, <1>6 DEF IInv, Locked, At
<1>9. OneOwner'
  BY <1>2, <1>5 DEF OneOwner, Owning, Stopping, Clearing, At
<1>10. Hushed' /\ Budget'
  BY <1>2, <1>5, <1>6 DEF IInv, Hushed, Clearing, Budget, At
<1>11. Batches' /\ BatchesWhole'
  BY <1>5, <1>6 DEF IInv, Batches, Carrying, BatchesWhole
<1>12. Counted' /\ TakenIsReported'
  BY <1>5, <1>6 DEF IInv, Counted, Awaiting, At, TakenIsReported
<1>. QED  BY <1>7, <1>8, <1>9, <1>10, <1>11, <1>12 DEF IInv

LEMMA StartPlaneKeeps ==
    ASSUME IInv, NEW t \in Callers, StartPlane(t)
    PROVE  IInv'
<1>1. t \in Threads /\ "out" \in Places /\ calls \in Nat /\ MaxCalls \in Nat
  BY FfiAssumption DEF IInv, TypeOK, Threads, Places
<1>2. Moved(t, "out") /\ Alone(t) /\ thread'[t].at = "out"
  BY <1>1, GotoMoves DEF IInv, StartPlane, Moved
<1>3. /\ thread[t].at = "building" /\ handle = "building" /\ handle' = "live"
      /\ calls' = calls + 1 /\ calls <= MaxCalls
      /\ UNCHANGED <<running, handler, callbacks, counted, delivered, wrote>>
  BY <1>1 DEF IInv, StartPlane, At, OneOwner, Budget
<1>4. TypeOK'
  BY <1>1, <1>2, <1>3 DEF IInv, TypeOK, Alone
<1>5. Locked'
  BY <1>1, <1>2, <1>3, LockedKept DEF IInv, Locked, At
<1>6. \A s \in Threads : s # t => ~Owning(s)
  BY <1>1, <1>3 DEF IInv, OneOwner, Owning, At
<1>7. \A s \in Threads : ~Owning(s)' /\ ~Clearing(s)' /\ ~At(s, "closing")'
  BY <1>2, <1>6 DEF Owning, Stopping, Clearing, At, Alone
<1>8. OneOwner' /\ Budget'
  BY <1>1, <1>3, <1>7 DEF OneOwner, Owning, Budget
<1>11. Hushed'
  <2>1. \A s \in Threads : s # t => ~Clearing(s)
    BY <1>6 DEF Owning, Stopping
  <2>. QED  BY <1>1, <1>2, <1>3, <1>7, <2>1, HushedKept DEF IInv
<1>9. Batches' /\ BatchesWhole'
  BY <1>1, <1>2, <1>3, BatchesKept DEF IInv, Carrying
<1>10. Counted' /\ TakenIsReported'
  <2>1. counted \in Nat
    BY DEF IInv, TypeOK
  <2>. QED  BY <1>1, <1>2, <1>3, <2>1, CountedKept DEF IInv, Awaiting, TakenIsReported
<1>. QED  BY <1>4, <1>5, <1>8, <1>9, <1>10, <1>11 DEF IInv

LEMMA SetHandlerKeeps ==
    ASSUME IInv, NEW t \in Callers, sangfor_set_effect_handler(t)
    PROVE  IInv'
<1>1. /\ handle = "live" /\ handler' = TRUE
      /\ UNCHANGED <<handle, running, callbacks, thread, counted, calls, delivered, wrote>>
  BY DEF sangfor_set_effect_handler
<1>2. \A s \in Threads : ~Clearing(s)
  BY <1>1 DEF IInv, OneOwner, Stopping
<1>3. TypeOK'
  BY <1>1 DEF IInv, TypeOK
<1>4. Locked' /\ OneOwner' /\ Budget' /\ Counted' /\ TakenIsReported'
  BY <1>1 DEF IInv, Locked, OneOwner, Owning, Stopping, Clearing, Budget,
              Counted, Awaiting, TakenIsReported, At
<1>5. Hushed'
  BY <1>1, <1>2 DEF IInv, Hushed, Clearing, At
<1>6. Batches' /\ BatchesWhole'
  BY <1>1 DEF IInv, Batches, Batch, Carrying, Fresh, LastOf, BatchesWhole
<1>. QED  BY <1>3, <1>4, <1>5, <1>6 DEF IInv

(* A call of the plane by a thread that owns nothing, or by the runtime.   *)
LEMMA CallKeeps ==
    ASSUME IInv, NEW t \in Threads, NEW goal \in Goals \ {"free", "recount"},
           Batched(t, "dispatch", goal), calls' = calls + 1, calls < MaxCalls,
           thread[t].at \in {"out", "asleep"}, handle # "none",
           UNCHANGED <<handle, running, handler, callbacks, counted, delivered, wrote>>
    PROVE  IInv'
<1>1. calls \in Nat /\ MaxCalls \in Nat /\ counted \in Nat
  BY FfiAssumption DEF IInv, TypeOK
<1>2. Alone(t) /\ thread'[t].at = "dispatch" /\ thread'[t].then = goal
  BY DEF Batched
<1>3. TypeOK'
  BY <1>1, <1>2 DEF IInv, TypeOK, Alone
<1>4. Locked'
  BY <1>2, LockedKept DEF IInv, Locked, At
<1>5. ~Stopping(t)' /\ ~Clearing(t)' /\ ~Awaiting(t)'
  BY <1>2 DEF Stopping, Clearing, At, Awaiting
<1>6. OneOwner'
  BY <1>2, <1>5, OneOwnerKept DEF IInv
<1>7. Hushed'
  BY <1>2, <1>5, HushedKept DEF IInv, Hushed
<1>8. Budget'
  BY <1>1, <1>2 DEF IInv, Budget, Alone, At
<1>9. Batches' /\ BatchesWhole'
  BY BatchesGrow DEF IInv
<1>10. Counted' /\ TakenIsReported'
  BY <1>1, <1>2, <1>5, CountedKept DEF IInv, TakenIsReported
<1>. QED  BY <1>3, <1>4, <1>6, <1>7, <1>8, <1>9, <1>10 DEF IInv

LEMMA RunKeeps ==
    ASSUME IInv, NEW t \in Callers, run(t)
    PROVE  IInv'
<1>1. t \in Threads /\ MaxBatch \in Nat
  BY FfiAssumption DEF Threads
<1>2. PICK size \in 1 .. MaxBatch : Produces(t, size, "return")
  BY DEF run
<1>3. size \in 0 .. MaxBatch /\ "return" \in Goals \ {"free", "recount"}
  BY <1>1 DEF Goals
<1>4. Batched(t, "dispatch", "return") /\ calls' = calls + 1 /\ calls < MaxCalls
  BY <1>1, <1>2, <1>3, ProducesBatch DEF IInv
<1>. QED  BY <1>1, <1>3, <1>4, CallKeeps DEF run, At

LEMMA RuntimeTickKeeps ==
    ASSUME IInv, RuntimeTick
    PROVE  IInv'
<1>1. Runtime \in Threads /\ MaxBatch \in Nat
  BY FfiAssumption DEF Threads
<1>2. PICK size \in 1 .. MaxBatch : Produces(Runtime, size, "loop")
  BY DEF RuntimeTick
<1>3. size \in 0 .. MaxBatch /\ "loop" \in Goals \ {"free", "recount"}
  BY <1>1 DEF Goals
<1>4. Batched(Runtime, "dispatch", "loop") /\ calls' = calls + 1 /\ calls < MaxCalls
  BY <1>1, <1>2, <1>3, ProducesBatch DEF IInv
<1>5. handle # "none" /\ thread[Runtime].at = "asleep"
  BY <1>1 DEF IInv, OneOwner, RuntimeTick, At
<1>. QED  BY <1>1, <1>3, <1>4, <1>5, CallKeeps DEF RuntimeTick

LEMMA WriteKeeps ==
    ASSUME IInv, NEW t \in Callers, sangfor_write_packet(t)
    PROVE  IInv'
<1>1. /\ t \in Threads /\ MaxBatch \in Nat /\ MaxCalls \in Nat /\ calls \in Nat
      /\ counted \in Nat /\ thread \in [Threads -> Thread]
  BY FfiAssumption DEF IInv, TypeOK, Threads
<1>2. PICK took \in BOOLEAN, size \in 0 .. MaxBatch :
         /\ counted' = IF took THEN counted + 1 ELSE counted
         /\ thread' = [thread EXCEPT ![t] =
               [at |-> "dispatch", then |-> "recount", call |-> calls + 1,
                next |-> 1, last |-> size, before |-> Before, took |-> took]]
  BY DEF sangfor_write_packet
<1>3. /\ handle = "live" /\ thread[t].at = "out" /\ calls < MaxCalls
      /\ calls' = calls + 1
      /\ UNCHANGED <<handle, running, handler, callbacks, delivered, wrote>>
  BY DEF sangfor_write_packet, At
<1> DEFINE m == [at |-> "dispatch", then |-> "recount", call |-> calls + 1,
                 next |-> 1, last |-> size, before |-> counted, took |-> took]
<1>4. m \in Thread
  <2>1. /\ calls + 1 \in 0 .. MaxCalls + 2 /\ 1 \in 1 .. MaxBatch + 1
        /\ "dispatch" \in Places /\ "recount" \in Goals
    BY <1>1, <1>3 DEF Places, Goals
  <2>. QED  BY <1>1, <2>1 DEF Thread
<1>5. thread' = [thread EXCEPT ![t] = m]
  BY <1>2 DEF Before
<1>6. /\ m.at = "dispatch" /\ m.then = "recount" /\ m.call = calls + 1
      /\ m.next = 1 /\ m.before = counted /\ m.took = took
  OBVIOUS
<1>. HIDE DEF m
<1>7. /\ Batched(t, "dispatch", "recount") /\ Alone(t)
      /\ thread'[t].at = "dispatch" /\ thread'[t].then = "recount"
      /\ thread'[t].before = counted /\ thread'[t].took = took
  BY <1>1, <1>4, <1>5, <1>6 DEF Batched, Alone
<1>8. counted' \in Nat /\ counted <= counted' /\ (took => counted' > counted)
  BY <1>1, <1>2
<1>9. TypeOK'
  BY <1>1, <1>3, <1>7, <1>8 DEF IInv, TypeOK, Alone
<1>10. Locked'
  BY <1>1, <1>3, <1>7, LockedKept DEF IInv, Locked, At
<1>11. ~Stopping(t)' /\ ~Clearing(t)'
  BY <1>7 DEF Stopping, Clearing, At
<1>12. OneOwner'
  BY <1>1, <1>3, <1>7, <1>11, OneOwnerKept DEF IInv
<1>13. Hushed'
  BY <1>1, <1>3, <1>7, <1>11, HushedKept DEF IInv, Hushed
<1>14. Budget'
  BY <1>1, <1>3, <1>7 DEF IInv, Budget, Alone, At
<1>15. Batches' /\ BatchesWhole'
  BY <1>1, <1>3, <1>7, BatchesGrow DEF IInv
<1>16. Counted' /\ TakenIsReported'
  BY <1>1, <1>3, <1>7, <1>8, CountedKept DEF IInv, TakenIsReported
<1>. QED  BY <1>9, <1>10, <1>12, <1>13, <1>14, <1>15, <1>16 DEF IInv

(* A thread that moves without delivering, starting, stopping or calling.  *)
LEMMA MoveKeeps ==
    ASSUME IInv, NEW t \in Threads, NEW place, Moved(t, place),
           thread[t].at # "out", thread[t].at # "deliver",
           place \in {"out", "recount", "asleep", "ended"},
           place = "recount" => thread[t].then = "recount" /\ At(t, "dispatch"),
           wrote' \in [Callers -> Outcomes], TakenIsReported',
           UNCHANGED <<handle, running, handler, callbacks, counted, calls, delivered>>
    PROVE  IInv'
<1>1. Alone(t) /\ thread'[t].at = place /\ counted \in Nat
  BY DEF IInv, TypeOK, Moved
<1>2. TypeOK'
  BY <1>1 DEF IInv, TypeOK, Alone
<1>3. Locked'
  BY <1>1, LockedKept DEF IInv, Locked, At
<1>4. ~Stopping(t)' /\ ~Clearing(t)'
  BY <1>1 DEF Stopping, Clearing, At
<1>5. handle # "none"
  BY DEF IInv, OneOwner, At
<1>6. OneOwner'
  BY <1>1, <1>4, <1>5, OneOwnerKept DEF IInv
<1>7. Hushed'
  BY <1>1, <1>4, HushedKept DEF IInv, Hushed
<1>8. Budget'
  BY <1>1 DEF IInv, Budget, Alone, At
<1>9. Batches' /\ BatchesWhole'
  BY <1>1, BatchesKept DEF IInv, Carrying
<1>10. Counted'
  <2>1. Awaiting(t)' => Awaiting(t) /\ UNCHANGED thread[t].before /\ UNCHANGED thread[t].took
    BY <1>1 DEF Awaiting, Moved, At
  <2>. QED  BY <1>1, <2>1, CountedKept DEF IInv, Counted, Moved
<1>. QED  BY <1>2, <1>3, <1>6, <1>7, <1>8, <1>9, <1>10 DEF IInv

LEMMA RecountKeeps ==
    ASSUME IInv, NEW t \in Callers, Recount(t)
    PROVE  IInv'
<1>1. t \in Threads /\ "out" \in Places /\ thread[t].at = "recount"
  BY DEF Recount, Threads, Places, At
<1>2. Moved(t, "out")
  BY <1>1, GotoMoves DEF IInv, Recount
<1>3. thread[t].took => counted > thread[t].before
  BY <1>1 DEF IInv, Counted, Awaiting, At
<1>4. thread[t].took \in BOOLEAN
  BY <1>1 DEF IInv, TypeOK, Thread
<1>5. Outcome(thread[t].took, counted > thread[t].before) \in Outcomes \ {"missed"}
  BY <1>3, <1>4 DEF Outcome, Outcomes
<1>6. wrote' \in [Callers -> Outcomes] /\ TakenIsReported'
  BY <1>5 DEF IInv, TypeOK, TakenIsReported, Recount
<1>. QED  BY <1>1, <1>2, <1>6, MoveKeeps DEF Recount

LEMMA RuntimeEndsKeeps ==
    ASSUME IInv, RuntimeEnds
    PROVE  IInv'
<1>1. Runtime \in Threads /\ "ended" \in Places /\ thread[Runtime].at = "asleep"
  BY DEF RuntimeEnds, Threads, Places, At
<1>2. Moved(Runtime, "ended")
  BY <1>1, GotoMoves DEF IInv, RuntimeEnds
<1>3. wrote' \in [Callers -> Outcomes] /\ TakenIsReported'
  BY DEF IInv, TypeOK, TakenIsReported, RuntimeEnds
<1>. QED  BY <1>1, <1>2, <1>3, MoveKeeps DEF RuntimeEnds

LEMMA StopKeeps ==
    ASSUME IInv, NEW t \in Callers, sangfor_stop(t)
    PROVE  IInv'
<1>1. t \in Threads /\ "closing" \in Places /\ calls \in Nat /\ counted \in Nat
      /\ MaxCalls \in Nat
  BY FfiAssumption DEF IInv, TypeOK, Threads, Places
<1>2. Moved(t, "closing") /\ Alone(t) /\ thread'[t].at = "closing"
  BY <1>1, GotoMoves DEF IInv, sangfor_stop, Moved
<1>3. /\ handle = "live" /\ handle' = "stopping" /\ running' = FALSE
      /\ thread[t].at = "out"
      /\ UNCHANGED <<handler, callbacks, counted, calls, delivered, wrote>>
  BY DEF sangfor_stop, At
<1>4. TypeOK'
  BY <1>2, <1>3 DEF IInv, TypeOK, Alone
<1>5. Locked'
  BY <1>1, <1>2, <1>3, LockedKept DEF IInv, Locked, At
<1>6. \A s \in Threads : ~Owning(s)
  BY <1>3 DEF IInv, OneOwner, Owning
<1>7. \A s \in Threads : /\ Owning(s)' => s = t
                         /\ ~Clearing(s)' /\ ~At(s, "building")'
  BY <1>2, <1>6 DEF Owning, Stopping, Clearing, At, Alone
<1>8. OneOwner'
  BY <1>1, <1>3, <1>7 DEF OneOwner, Owning
<1>12. Hushed'
  <2>1. \A s \in Threads : ~Clearing(s)
    BY <1>6 DEF Owning, Stopping
  <2>. QED  BY <1>1, <1>2, <1>3, <1>7, <2>1, HushedKept DEF IInv
<1>9. Budget'
  BY <1>1, <1>3 DEF IInv, Budget
<1>10. Batches' /\ BatchesWhole'
  BY <1>1, <1>2, <1>3, BatchesKept DEF IInv, Carrying
<1>11. Counted' /\ TakenIsReported'
  BY <1>1, <1>2, <1>3, CountedKept DEF IInv, Awaiting, TakenIsReported
<1>. QED  BY <1>4, <1>5, <1>8, <1>9, <1>10, <1>11, <1>12 DEF IInv

LEMMA ClosePlaneKeeps ==
    ASSUME IInv, NEW t \in Callers, ClosePlane(t)
    PROVE  IInv'
<1>1. /\ t \in Threads /\ MaxBatch \in Nat /\ MaxCalls \in Nat /\ calls \in Nat
      /\ counted \in Nat /\ thread \in [Threads -> Thread] /\ thread[t] \in Thread
  BY FfiAssumption DEF IInv, TypeOK, Threads
<1>2. PICK size \in 0 .. MaxBatch :
         thread' = [thread EXCEPT ![t].at = "clearing", ![t].then = "free",
                       ![t].call = calls + 1, ![t].next = 1, ![t].last = size]
  BY DEF ClosePlane
<1>3. /\ thread[t].at = "closing" /\ calls' = calls + 1 /\ calls <= MaxCalls + 1
      /\ handle = "stopping"
      /\ UNCHANGED <<handle, running, handler, callbacks, counted, delivered, wrote>>
  BY <1>1 DEF IInv, OneOwner, Stopping, Budget, ClosePlane, At
<1> DEFINE m == [thread[t] EXCEPT !.at = "clearing", !.then = "free",
                    !.call = calls + 1, !.next = 1, !.last = size]
<1>4. m \in Thread
  <2>1. /\ calls + 1 \in 0 .. MaxCalls + 2 /\ 1 \in 1 .. MaxBatch + 1
        /\ "clearing" \in Places /\ "free" \in Goals
    BY <1>1, <1>3 DEF Places, Goals
  <2>. QED  BY <1>1, <2>1 DEF Thread
<1>5. thread' = [thread EXCEPT ![t] = m]
  BY <1>2
<1>6. m.at = "clearing" /\ m.then = "free" /\ m.call = calls + 1 /\ m.next = 1
  BY <1>1 DEF Thread
<1>. HIDE DEF m
<1>7. /\ Batched(t, "clearing", "free") /\ Alone(t)
      /\ thread'[t].at = "clearing" /\ thread'[t].then = "free"
  BY <1>1, <1>4, <1>5, <1>6 DEF Batched, Alone
<1>8. TypeOK'
  BY <1>1, <1>3, <1>7 DEF IInv, TypeOK, Alone
<1>9. Locked'
  BY <1>1, <1>3, <1>7, LockedKept DEF IInv, Locked, At
<1>10. Stopping(t) /\ ~Clearing(t)'
  BY <1>3, <1>7 DEF Stopping, Clearing, At
<1>11. OneOwner'
  BY <1>1, <1>3, <1>7, <1>10, OneOwnerKept DEF IInv
<1>12. Hushed'
  BY <1>1, <1>3, <1>7, <1>10, HushedKept DEF IInv, Hushed
<1>13. Budget'
  <2>1. \A s \in Threads : ~At(s, "closing")'
    BY <1>1, <1>3, <1>7 DEF IInv, OneOwner, Owning, Stopping, At, Alone
  <2>. QED  BY <1>3, <2>1 DEF Budget
<1>14. Batches' /\ BatchesWhole'
  BY <1>1, <1>3, <1>7, BatchesGrow DEF IInv
<1>15. Counted' /\ TakenIsReported'
  BY <1>1, <1>3, <1>7, CountedKept DEF IInv, Awaiting, TakenIsReported
<1>. QED  BY <1>8, <1>9, <1>11, <1>12, <1>13, <1>14, <1>15 DEF IInv

LEMMA ClearHandlerKeeps ==
    ASSUME IInv, NEW t \in Callers, ClearHandler(t)
    PROVE  IInv'
<1>1. t \in Threads /\ "dispatch" \in Places /\ counted \in Nat
  BY DEF IInv, TypeOK, Threads, Places
<1>2. Moved(t, "dispatch") /\ Alone(t) /\ thread'[t].at = "dispatch"
  BY <1>1, GotoMoves DEF IInv, ClearHandler, Moved
<1>3. /\ thread[t].at = "clearing" /\ callbacks = NoOne /\ handler' = FALSE
      /\ handle = "stopping"
      /\ UNCHANGED <<handle, running, callbacks, counted, calls, delivered, wrote>>
  BY <1>1 DEF IInv, OneOwner, Stopping, ClearHandler, At
<1>4. TypeOK'
  BY <1>2, <1>3 DEF IInv, TypeOK, Alone
<1>5. Locked'
  BY <1>1, <1>2, <1>3, LockedKept DEF IInv, Locked, At
<1>6. OneOwner'
  <2>1. Stopping(t)
    BY <1>3 DEF Stopping, At
  <2>. QED  BY <1>1, <1>2, <1>3, <2>1, OneOwnerKept DEF IInv
<1>7. Hushed'
  BY <1>1, <1>2, <1>3, HushedKept DEF IInv
<1>8. Budget'
  BY <1>1, <1>2, <1>3 DEF IInv, Budget, Alone, At
<1>9. Batches' /\ BatchesWhole'
  BY <1>1, <1>2, <1>3, BatchesKept DEF IInv, Carrying, Moved
<1>10. Counted' /\ TakenIsReported'
  <2>1. thread[t].then # "recount"
    BY <1>1, <1>3 DEF IInv, Counted, At
  <2>. QED  BY <1>1, <1>2, <1>3, <2>1, CountedKept DEF IInv, Awaiting, Moved, TakenIsReported
<1>. QED  BY <1>4, <1>5, <1>6, <1>7, <1>8, <1>9, <1>10 DEF IInv

(* The last dispatch of sangfor_stop finds no callback, frees the handle.  *)
LEMMA FreeKeeps ==
    ASSUME IInv, NEW t \in Threads, Clearing(t), Moved(t, "out"),
           handle' = "freed",
           UNCHANGED <<running, handler, callbacks, counted, calls, delivered, wrote>>
    PROVE  IInv'
<1>1. Alone(t) /\ thread'[t].at = "out" /\ thread[t].at = "dispatch" /\ counted \in Nat
  BY DEF IInv, TypeOK, Moved, Clearing, At
<1>2. ~handler /\ callbacks = NoOne /\ handle = "stopping"
  BY DEF IInv, Hushed, OneOwner, Stopping
<1>3. \A s \in Threads : s # t => ~Stopping(s)
  BY DEF IInv, OneOwner, Owning, Stopping
<1>4. \A s \in Threads : ~Owning(s)'
  <2>1. \A s \in Threads : ~Stopping(s)'
    BY <1>1, <1>3 DEF Stopping, Clearing, At, Alone
  <2>2. \A s \in Threads : ~At(s, "building")'
    BY <1>1, <1>2 DEF IInv, OneOwner, At, Alone
  <2>. QED  BY <2>1, <2>2 DEF Owning
<1>5. TypeOK'
  BY <1>1 DEF IInv, TypeOK, Alone
<1>6. Locked'
  BY <1>1, LockedKept DEF IInv, Locked, At
<1>7. OneOwner'
  BY <1>4 DEF OneOwner, Owning
<1>8. Hushed'
  BY <1>1, <1>2, HushedKept DEF IInv
<1>9. Budget'
  BY <1>1 DEF IInv, Budget, Alone, At
<1>10. Batches' /\ BatchesWhole'
  BY <1>1, BatchesKept DEF IInv, Carrying
<1>11. Counted' /\ TakenIsReported'
  BY <1>1, CountedKept DEF IInv, Awaiting, TakenIsReported
<1>. QED  BY <1>5, <1>6, <1>7, <1>8, <1>9, <1>10, <1>11 DEF IInv

LEMMA DispatchNothingKeeps ==
    ASSUME IInv, NEW t \in Threads, DispatchNothing(t)
    PROVE  IInv'
<1>1. /\ thread[t].at = "dispatch"
      /\ UNCHANGED <<running, handler, callbacks, counted, calls, delivered, wrote>>
  BY DEF DispatchNothing, At
<1>2. /\ After(t) \in {"out", "recount", "asleep"}
      /\ After(t) = "recount" => thread[t].then = "recount"
  BY AfterPlaces DEF IInv
<1>3. After(t) \in Places
  BY <1>2 DEF Places
<1>4. Moved(t, After(t))
  BY <1>3, GotoMoves DEF IInv, DispatchNothing
<1>5. CASE thread[t].then = "free"
  <2>1. Clearing(t) /\ After(t) = "out" /\ handle' = "freed"
    BY <1>1, <1>5 DEF Clearing, At, After, Freed, DispatchNothing
  <2>2. Moved(t, "out")
    BY <1>4, <2>1
  <2>. QED  BY <1>1, <2>1, <2>2, FreeKeeps
<1>6. CASE thread[t].then # "free"
  <2>1. handle' = handle
    BY <1>6 DEF DispatchNothing, Freed
  <2>2. wrote' \in [Callers -> Outcomes] /\ TakenIsReported'
    BY <1>1 DEF IInv, TypeOK, TakenIsReported
  <2>. QED  BY <1>1, <1>2, <1>4, <2>1, <2>2, MoveKeeps DEF At
<1>. QED  BY <1>5, <1>6

LEMMA DispatchLockKeeps ==
    ASSUME IInv, NEW t \in Threads, DispatchLock(t)
    PROVE  IInv'
<1>1. "deliver" \in Places /\ counted \in Nat
  BY DEF IInv, TypeOK, Places
<1>2. Moved(t, "deliver") /\ Alone(t) /\ thread'[t].at = "deliver"
  BY <1>1, GotoMoves DEF IInv, DispatchLock, Moved
<1>3. /\ thread[t].at = "dispatch" /\ callbacks = NoOne /\ callbacks' = t /\ handler
      /\ UNCHANGED <<handle, running, handler, counted, calls, delivered, wrote>>
  BY DEF DispatchLock, At
<1>4. handle # "freed" /\ \A s \in Threads : ~Clearing(s)
  BY <1>3 DEF IInv, Hushed
<1>5. thread[t].then # "free"
  BY <1>3, <1>4 DEF Clearing, At
<1>6. TypeOK'
  BY <1>2, <1>3 DEF IInv, TypeOK, Holders, Alone
<1>7. Locked'
  BY <1>2, <1>3, LockedKept DEF IInv
<1>8. OneOwner'
  <2>1. ~Stopping(t)' /\ handle # "none"
    BY <1>2, <1>3 DEF IInv, OneOwner, Stopping, Clearing, At
  <2>. QED  BY <1>2, <1>3, <2>1, OneOwnerKept DEF IInv
<1>9. Hushed'
  <2>1. ~Clearing(t)' /\ thread'[t].then # "free"
    BY <1>2, <1>5 DEF Clearing, At, Moved
  <2>. QED  BY <1>2, <1>3, <1>4, <2>1, HushedKept DEF IInv
<1>10. Budget'
  BY <1>2, <1>3 DEF IInv, Budget, Alone, At
<1>11. Batches' /\ BatchesWhole'
  BY <1>2, <1>3, BatchesKept DEF IInv, Carrying, Moved
<1>12. Counted' /\ TakenIsReported'
  <2>1. /\ Awaiting(t)' => Awaiting(t)
        /\ thread'[t].took = thread[t].took /\ thread'[t].before = thread[t].before
    BY <1>2, <1>3 DEF Awaiting, Moved
  <2>. QED  BY <1>1, <1>2, <1>3, <2>1, CountedKept DEF IInv, Counted, TakenIsReported
<1>. QED  BY <1>6, <1>7, <1>8, <1>9, <1>10, <1>11, <1>12 DEF IInv

(* The holder of the callback's mutex hands over the next effect.          *)
LEMMA DispatchOneKeeps ==
    ASSUME IInv, NEW t \in Threads, dispatch_one(t)
    PROVE  IInv'
<1> DEFINE me == thread[t]
           e == [call |-> me.call, place |-> me.next, by |-> t]
<1>1. /\ me \in Thread /\ thread \in [Threads -> Thread] /\ delivered \in Seq(Effect)
      /\ MaxBatch \in Nat /\ MaxCalls \in Nat /\ calls \in 0 .. MaxCalls + 2
      /\ counted \in Nat
  BY FfiAssumption DEF IInv, TypeOK
<1>2. /\ me.at = "deliver" /\ me.next <= me.last /\ delivered' = Append(delivered, e)
      /\ thread' = [thread EXCEPT ![t].next = @ + 1]
      /\ UNCHANGED <<handle, running, handler, callbacks, counted, calls, wrote>>
  BY DEF dispatch_one, At
<1>3. /\ me.next \in 1 .. MaxBatch /\ me.next + 1 \in 1 .. MaxBatch + 1
      /\ me.call \in Nat /\ me.next \in Nat
  BY <1>1, <1>2 DEF Thread
<1>4. Carrying(t) /\ Batch(t) /\ me.call \in 1 .. calls
  BY <1>2 DEF IInv, Batches, Batch, Carrying
<1>5. e \in Effect
  BY <1>1, <1>3, <1>4 DEF Effect
<1>6. /\ Alone(t) /\ thread'[t].at = "deliver" /\ thread'[t].then = me.then
      /\ thread'[t].call = me.call /\ thread'[t].next = me.next + 1
      /\ thread'[t].before = me.before /\ thread'[t].took = me.took
  <2> DEFINE m == [me EXCEPT !.next = me.next + 1]
  <2>1. thread' = [thread EXCEPT ![t] = m]
    BY <1>2
  <2>2. m \in Thread
    BY <1>1, <1>3 DEF Thread
  <2>3. /\ m.at = me.at /\ m.then = me.then /\ m.call = me.call
        /\ m.next = me.next + 1 /\ m.before = me.before /\ m.took = me.took
    BY <1>1 DEF Thread
  <2>. HIDE DEF m
  <2>. QED  BY <1>1, <1>2, <2>1, <2>2, <2>3 DEF Alone
<1>7. /\ Len(delivered') = Len(delivered) + 1
      /\ DOMAIN delivered' = 1 .. Len(delivered) + 1
      /\ DOMAIN delivered = 1 .. Len(delivered) /\ Len(delivered) \in Nat
      /\ \A i \in DOMAIN delivered : delivered'[i] = delivered[i]
      /\ delivered'[Len(delivered) + 1] = e
      /\ delivered' \in Seq(Effect) /\ delivered' # <<>>
  BY <1>1, <1>2, <1>5
<1>8. e.call = me.call /\ e.place = me.next /\ e.by = t
  OBVIOUS
<1>. HIDE DEF e
<1>9. TypeOK'
  BY <1>2, <1>6, <1>7 DEF IInv, TypeOK, Alone
<1>10. Locked'
  BY <1>2, <1>6, LockedKept DEF IInv, Locked, At
<1>11. OneOwner'
  <2>1. ~Stopping(t)' /\ handle # "none"
    BY <1>2, <1>6 DEF IInv, OneOwner, Stopping, Clearing, At
  <2>. QED  BY <1>2, <1>6, <2>1, OneOwnerKept DEF IInv
<1>12. Hushed'
  <2>1. ~Clearing(t)' /\ me.then # "free"
    BY <1>2, <1>6 DEF IInv, Hushed, Clearing, At
  <2>. QED  BY <1>2, <1>6, <2>1, HushedKept DEF IInv, Hushed
<1>13. Budget'
  BY <1>2, <1>6 DEF IInv, Budget, Alone, At
<1>14. Batches'
  <2>1. \A s \in Threads : Carrying(s)' => Carrying(s) /\ thread'[s].call = thread[s].call
    BY <1>2, <1>6 DEF Carrying, Alone
  <2>2. \A s \in Threads : Carrying(s)' => Batch(s)'
    <3>. SUFFICES ASSUME NEW s \in Threads, Carrying(s)'
                  PROVE  Batch(s)'
      OBVIOUS
    <3>1. CASE s = t
      <4>1. thread'[t].next > 1 /\ thread'[t].next # 1 /\ thread'[t].next - 1 = me.next
        BY <1>3, <1>6
      <4>2. delivered'[Len(delivered')] =
               [call |-> thread'[t].call, place |-> thread'[t].next - 1, by |-> t]
        BY <1>6, <1>7, <4>1 DEF e
      <4>3. thread'[t].call \in 1 .. calls'
        BY <1>2, <1>4, <1>6
      <4>. QED  BY <1>6, <1>7, <3>1, <4>1, <4>2, <4>3 DEF Batch, LastOf
    <3>2. CASE s # t
      <4>1. thread'[s] = thread[s] /\ Carrying(s) /\ Batch(s)
        BY <1>6, <2>1, <3>2 DEF Alone, IInv, Batches
      <4>2. thread[s].at # "deliver"
        BY <1>2, <3>2 DEF IInv, Locked, At
      <4>3. thread[s].next = 1 /\ Fresh(thread[s].call)
        BY <4>1, <4>2 DEF Batch
      <4>4. thread[s].call # me.call
        BY <1>4, <3>2, <4>1 DEF IInv, Batches
      <4>5. Fresh(thread[s].call)'
        <5>. SUFFICES ASSUME NEW i \in DOMAIN delivered'
                      PROVE  delivered'[i].call # thread[s].call
          BY <4>1 DEF Fresh
        <5>1. CASE i \in DOMAIN delivered
          BY <1>7, <4>3, <5>1 DEF Fresh
        <5>2. CASE i = Len(delivered) + 1
          BY <1>7, <1>8, <4>4, <5>2
        <5>. QED  BY <1>7, <5>1, <5>2
      <4>6. thread'[s].call \in 1 .. calls'
        BY <1>2, <4>1 DEF Batch
      <4>. QED  BY <4>1, <4>3, <4>5, <4>6 DEF Batch, Fresh
    <3>. QED  BY <3>1, <3>2
  <2>3. \A r, s \in Threads : Carrying(r)' /\ Carrying(s)' /\ r # s
            => thread'[r].call # thread'[s].call
    BY <2>1 DEF IInv, Batches
  <2>4. \A i \in DOMAIN delivered' : delivered'[i].call \in 1 .. calls'
    <3>. SUFFICES ASSUME NEW i \in DOMAIN delivered'
                  PROVE  delivered'[i].call \in 1 .. calls'
      OBVIOUS
    <3>1. CASE i \in DOMAIN delivered
      BY <1>2, <1>7, <3>1 DEF IInv, Batches
    <3>2. CASE i = Len(delivered) + 1
      BY <1>2, <1>4, <1>7, <1>8, <3>2
    <3>. QED  BY <1>7, <3>1, <3>2
  <2>. QED  BY <2>2, <2>3, <2>4 DEF Batches
<1>15. BatchesWhole'
  <2>. SUFFICES ASSUME NEW i \in DOMAIN delivered'
                PROVE  /\ delivered'[i].place > 1 =>
                             /\ i > 1
                             /\ delivered'[i - 1] = [delivered'[i] EXCEPT !.place = @ - 1]
                       /\ delivered'[i].place = 1 =>
                             \A j \in 1 .. i - 1 : delivered'[j].call # delivered'[i].call
    BY DEF BatchesWhole
  <2>1. \A j \in 1 .. i - 1 : j \in DOMAIN delivered
    BY <1>7
  <2>2. CASE i \in DOMAIN delivered
    <3>1. i > 1 => i - 1 \in DOMAIN delivered
      BY <1>7, <2>2
    <3>. QED  BY <1>7, <2>1, <2>2, <3>1 DEF IInv, BatchesWhole
  <2>3. CASE i = Len(delivered) + 1
    <3>1. CASE me.next = 1
      BY <1>4, <1>7, <1>8, <2>1, <2>3, <3>1 DEF Batch, Fresh
    <3>2. CASE me.next > 1
      <4>1. LastOf(me.call, me.next - 1, t)
        BY <1>4, <3>2 DEF Batch
      <4>2. Len(delivered) > 0 /\ Len(delivered) \in DOMAIN delivered
        BY <1>1, <1>7, <4>1 DEF LastOf
      <4>3. i > 1 /\ i - 1 = Len(delivered)
        BY <1>7, <2>3, <4>2
      <4>4. [e EXCEPT !.place = @ - 1] = [call |-> me.call, place |-> me.next - 1, by |-> t]
        BY <1>3 DEF e
      <4>5. delivered'[i] = e /\ delivered'[i].place # 1
        BY <1>7, <1>8, <2>3, <3>2
      <4>6. delivered'[i - 1] = [e EXCEPT !.place = @ - 1]
        BY <1>7, <4>1, <4>2, <4>3, <4>4 DEF LastOf
      <4>. QED  BY <4>3, <4>5, <4>6
    <3>. QED  BY <1>3, <3>1, <3>2
  <2>. QED  BY <1>7, <2>2, <2>3
<1>16. Counted' /\ TakenIsReported'
  <2>1. Awaiting(t)' => Awaiting(t)
    BY <1>2, <1>6 DEF Awaiting
  <2>. QED  BY <1>1, <1>2, <1>6, <2>1, CountedKept DEF IInv, Counted, TakenIsReported
<1>. QED  BY <1>9, <1>10, <1>11, <1>12, <1>13, <1>14, <1>15, <1>16 DEF IInv

LEMMA DispatchUnlockKeeps ==
    ASSUME IInv, NEW t \in Threads, DispatchUnlock(t)
    PROVE  IInv'
<1>1. /\ thread[t].at = "deliver" /\ callbacks' = NoOne /\ counted \in Nat
      /\ UNCHANGED <<running, handler, counted, calls, delivered, wrote>>
  BY DEF IInv, TypeOK, DispatchUnlock, At
<1>2. callbacks = t /\ thread[t].then # "free" /\ t # NoOne
  BY <1>1, FfiAssumption DEF IInv, Locked, Hushed, At, Threads
<1>3. handle' = handle
  BY <1>2 DEF DispatchUnlock, Freed
<1>4. /\ After(t) \in {"out", "recount", "asleep"}
      /\ After(t) = "recount" => thread[t].then = "recount"
  BY AfterPlaces DEF IInv
<1>5. PICK place \in {"out", "recount", "asleep"} :
         Moved(t, place) /\ (place = "recount" => thread[t].then = "recount")
  <2>1. After(t) \in Places
    BY <1>4 DEF Places
  <2>2. Moved(t, After(t))
    BY <2>1, GotoMoves DEF IInv, DispatchUnlock
  <2>. QED  BY <1>4, <2>2
<1>6. Alone(t) /\ thread'[t].at = place
  BY <1>5 DEF Moved
<1>7. TypeOK'
  BY <1>1, <1>3, <1>6 DEF IInv, TypeOK, Holders, Alone
<1>8. Locked'
  BY <1>1, <1>2, <1>6, LockedKept DEF IInv
<1>9. ~Stopping(t)' /\ ~Clearing(t)' /\ handle # "none"
  BY <1>1, <1>6 DEF IInv, OneOwner, Stopping, Clearing, At
<1>10. OneOwner'
  BY <1>3, <1>6, <1>9, OneOwnerKept DEF IInv
<1>11. Hushed'
  BY <1>1, <1>3, <1>6, <1>9, HushedKept DEF IInv, Hushed
<1>12. Budget'
  BY <1>1, <1>3, <1>6 DEF IInv, Budget, Alone, At
<1>13. Batches' /\ BatchesWhole'
  BY <1>1, <1>6, BatchesKept DEF IInv, Carrying
<1>14. Counted' /\ TakenIsReported'
  <2>1. /\ Awaiting(t)' => Awaiting(t)
        /\ thread'[t].took = thread[t].took /\ thread'[t].before = thread[t].before
        /\ thread'[t].then = thread[t].then
    BY <1>1, <1>5 DEF Awaiting, Moved
  <2>. QED  BY <1>1, <1>5, <1>6, <2>1, CountedKept DEF IInv, Counted, TakenIsReported
<1>. QED  BY <1>7, <1>8, <1>10, <1>11, <1>12, <1>13, <1>14 DEF IInv

-----------------------------------------------------------------------------
LEMMA InitInvariant == Init => IInv
<1>. SUFFICES ASSUME Init
              PROVE  IInv
  OBVIOUS
<1>1. /\ handle = "none" /\ running = TRUE /\ handler = FALSE /\ callbacks = NoOne
      /\ counted = 0 /\ calls = 0 /\ delivered = <<>>
      /\ wrote = [t \in Callers |-> "none"] /\ MaxCalls \in Nat /\ MaxBatch \in Nat
  BY FfiAssumption DEF Init
<1>2. /\ thread \in [Threads -> Thread]
      /\ \A t \in Threads : thread[t] = Away /\ thread[t].at = "out"
  <2>1. Away \in Thread /\ Away.at = "out"
    BY <1>1 DEF Away, Thread, Places, Goals
  <2>. QED  BY <2>1 DEF Init
<1>3. TypeOK
  <2>1. wrote \in [Callers -> Outcomes]
    BY <1>1 DEF Outcomes
  <2>2. delivered \in Seq(Effect)
    BY <1>1
  <2>3. running \in BOOLEAN /\ handler \in BOOLEAN
    BY <1>1
  <2>4. counted \in Nat /\ calls \in 0 .. MaxCalls + 2
    BY <1>1
  <2>5. handle \in {"none", "building", "live", "stopping", "freed"}
        /\ callbacks \in Holders
    BY <1>1 DEF Holders
  <2>. QED  BY <1>2, <2>1, <2>2, <2>3, <2>4, <2>5 DEF TypeOK
<1>4. Locked /\ OneOwner
  BY <1>1, <1>2, FfiAssumption DEF Locked, OneOwner, Owning, Stopping, Clearing,
                                   At, Threads
<1>7. Hushed /\ Budget
  BY <1>1, <1>2 DEF Hushed, Clearing, At, Budget
<1>5. Batches /\ BatchesWhole
  BY <1>1, <1>2 DEF Batches, Carrying, BatchesWhole
<1>6. Counted /\ TakenIsReported
  BY <1>1, <1>2 DEF Counted, Awaiting, TakenIsReported, At
<1>. QED  BY <1>3, <1>4, <1>5, <1>6, <1>7 DEF IInv

LEMMA StepKeeps ==
    ASSUME IInv, [Next]_vars
    PROVE  IInv'
<1>1. CASE UNCHANGED vars
  BY <1>1 DEF vars, IInv, TypeOK, Locked, OneOwner, Owning, Stopping, Clearing,
     Hushed, Budget, Batches, Batch, Carrying, Fresh, LastOf, BatchesWhole,
     Counted, Awaiting, TakenIsReported, At
<1>2. ASSUME NEW t \in Callers, Caller(t)
      PROVE  IInv'
  <2>1. CASE sangfor_start(t)
    BY <2>1, StartKeeps
  <2>2. CASE StartPlane(t)
    BY <2>2, StartPlaneKeeps
  <2>3. CASE sangfor_set_effect_handler(t)
    BY <2>3, SetHandlerKeeps
  <2>4. CASE run(t)
    BY <2>4, RunKeeps
  <2>5. CASE sangfor_write_packet(t)
    BY <2>5, WriteKeeps
  <2>6. CASE Recount(t)
    BY <2>6, RecountKeeps
  <2>7. CASE sangfor_stop(t)
    BY <2>7, StopKeeps
  <2>8. CASE ClosePlane(t)
    BY <2>8, ClosePlaneKeeps
  <2>9. CASE ClearHandler(t)
    BY <2>9, ClearHandlerKeeps
  <2>. QED  BY <1>2, <2>1, <2>2, <2>3, <2>4, <2>5, <2>6, <2>7, <2>8, <2>9 DEF Caller
<1>3. ASSUME NEW t \in Threads, Dispatch(t)
      PROVE  IInv'
  <2>1. CASE DispatchNothing(t)
    BY <2>1, DispatchNothingKeeps
  <2>2. CASE DispatchLock(t)
    BY <2>2, DispatchLockKeeps
  <2>3. CASE dispatch_one(t)
    BY <2>3, DispatchOneKeeps
  <2>4. CASE DispatchUnlock(t)
    BY <2>4, DispatchUnlockKeeps
  <2>. QED  BY <1>3, <2>1, <2>2, <2>3, <2>4 DEF Dispatch
<1>4. CASE RuntimeEnds
  BY <1>4, RuntimeEndsKeeps
<1>5. CASE RuntimeTick
  BY <1>5, RuntimeTickKeeps
<1>. QED  BY <1>1, <1>2, <1>3, <1>4, <1>5 DEF Next

(* Every state of the interface satisfies the inductive invariant.         *)
THEOREM InterfaceInvariant == Spec => []IInv
<1>1. IInv /\ [Next]_vars => IInv'
  BY StepKeeps
<1>. QED  BY InitInvariant, <1>1, PTL DEF Spec

(* Types hold throughout, for any threads and any number of calls.         *)
THEOREM InterfaceTypes == Spec => []TypeOK
<1>1. IInv => TypeOK
  BY DEF IInv
<1>. QED  BY InterfaceInvariant, <1>1, PTL

(* The callback gets each call's effects in order and uninterrupted,       *)
(* whatever the number of threads that call at the same time.              *)
THEOREM BatchesStayWhole == Spec => []BatchesWhole
<1>1. IInv => BatchesWhole
  BY DEF IInv
<1>. QED  BY InterfaceInvariant, <1>1, PTL

(* sangfor_write_packet never reports as declined what the plane took.     *)
THEOREM TakenStaysReported == Spec => []TakenIsReported
<1>1. IInv => TakenIsReported
  BY DEF IInv
<1>. QED  BY InterfaceInvariant, <1>1, PTL

(* Once sangfor_stop has returned the callback fires no more, whatever the *)
(* runtime thread still has to do.                                         *)
THEOREM StopSilences == Spec => SilentOnceStopped
<1>1. IInv /\ [Next]_vars => [handle = "freed" => delivered' = delivered]_vars
  <2>. SUFFICES ASSUME IInv, Next, handle = "freed"
                PROVE  delivered' = delivered
    BY DEF vars
  <2>1. \A t \in Threads : ~At(t, "deliver")
    BY FfiAssumption DEF IInv, Hushed, Locked, Threads
  <2>2. ASSUME NEW t \in Callers, Caller(t)
        PROVE  delivered' = delivered
    BY <2>2 DEF Caller, sangfor_start, StartPlane, sangfor_set_effect_handler, run,
       sangfor_write_packet, Recount, sangfor_stop, ClosePlane, ClearHandler
  <2>3. ASSUME NEW t \in Threads, Dispatch(t)
        PROVE  delivered' = delivered
    BY <2>1, <2>3 DEF Dispatch, DispatchNothing, DispatchLock, dispatch_one, DispatchUnlock
  <2>4. RuntimeEnds \/ RuntimeTick => delivered' = delivered
    BY DEF RuntimeEnds, RuntimeTick
  <2>. QED  BY <2>2, <2>3, <2>4 DEF Next
<1>. QED  BY InterfaceInvariant, <1>1, PTL DEF Spec, SilentOnceStopped
=============================================================================
