--------------------------------- MODULE Ffi ---------------------------------
(***************************************************************************)
(* The C interface to the data plane: rust/sangfor-ffi/src/lib.rs.  A host *)
(* process calls it from any of its threads; a runtime thread of its own   *)
(* drives the timers.  A call changes the plane under the plane's mutex    *)
(* and hands the effects it returned to the host's callback after it was   *)
(* released, under the mutex of the callback.                              *)
(*                                                                         *)
(* What happens under the plane's mutex touches nothing else, so it is one *)
(* step and the mutex needs no variable; the callback's mutex is held over *)
(* many steps, one per effect, and is `callbacks'.  An effect is known by  *)
(* the call that produced it and its place in that call's effects.  The    *)
(* plane itself is abstract: a call returns some effects.                  *)
(*                                                                         *)
(* The interface is unsafe; what it asks of its caller is a guard here:    *)
(* nothing is called before sangfor_start returned, or during and after    *)
(* sangfor_stop.  A host that calls the interface from its callback has a  *)
(* specification of its own, CallingBackSpec.                              *)
(***************************************************************************)
EXTENDS Naturals, Sequences, FiniteSets

CONSTANTS
    Callers,    \* the host's threads
    Runtime,    \* the runtime thread
    NoOne,      \* holder of a free mutex
    MaxBatch,   \* bound: effects of one plane call
    MaxCalls    \* bound: calls of the plane, its start and close aside

ASSUME FfiAssumption ==
    /\ Runtime \notin Callers /\ NoOne \notin Callers \cup {Runtime}
    /\ MaxBatch \in Nat /\ MaxCalls \in Nat

VARIABLES
    handle,     \* the SangforHandle: none, building, live, stopping, freed
    running,    \* Inner::running
    handler,    \* an effect callback is registered
    callbacks,  \* holder of the mutex Inner::callbacks
    thread,     \* thread -> where it is in the interface
    counted,    \* statistics: packets routed or terminated
    calls,      \* history: calls of the plane so far
    delivered,  \* history: effects given to the callback, in order
    wrote       \* history: thread -> outcome of its last sangfor_write_packet

vars == <<handle, running, handler, callbacks, thread, counted, calls,
          delivered, wrote>>

Threads == Callers \cup {Runtime}
Holders == Threads \cup {NoOne}

(* Where a thread is; the call it is in and the effects of it still to be  *)
(* delivered; the count a write began with, and whether the plane took it. *)
Places == {"out", "dispatch", "deliver", "recount", "building", "closing",
           "clearing", "asleep", "ended"}
Goals == {"return", "recount", "free", "loop"}
Thread == [at : Places, then : Goals, call : 0 .. MaxCalls + 2,
           next : 1 .. MaxBatch + 1, last : 0 .. MaxBatch,
           before : Nat, took : BOOLEAN]

Effect == [call : 1 .. MaxCalls + 2, place : 1 .. MaxBatch, by : Threads]
Outcomes == {"none", "handled", "declined", "missed", "misled"}

Away == [at |-> "out", then |-> "return", call |-> 0, next |-> 1, last |-> 0,
         before |-> 0, took |-> FALSE]

Init ==
    /\ handle = "none" /\ running = TRUE /\ handler = FALSE
    /\ callbacks = NoOne /\ thread = [t \in Threads |-> Away]
    /\ counted = 0 /\ calls = 0 /\ delivered = <<>>
    /\ wrote = [t \in Callers |-> "none"]

At(t, place) == thread[t].at = place
Goto(t, place) == thread' = [thread EXCEPT ![t].at = place]

Produces(t, size, goal) ==
    /\ calls < MaxCalls /\ calls' = calls + 1
    /\ thread' = [thread EXCEPT ![t].at = "dispatch", ![t].then = goal,
                    ![t].call = calls + 1, ![t].next = 1, ![t].last = size]

(* What follows the dispatch of a call's effects.                          *)
After(t) == CASE thread[t].then = "return" -> "out"
              [] thread[t].then = "recount" -> "recount"
              [] thread[t].then = "free" -> "out"
              [] thread[t].then = "loop" -> "asleep"

(* sangfor_stop's handle is freed when the last dispatch returns.          *)
Freed(t) == handle' = IF thread[t].then = "free" THEN "freed" ELSE handle

-----------------------------------------------------------------------------
(* sangfor_start: the runtime thread runs before the plane is started.     *)
sangfor_start(t) ==
    /\ handle = "none" /\ handle' = "building"
    /\ \E spawn_runtime \in BOOLEAN :
          thread' = [thread EXCEPT ![t].at = "building",
             ![Runtime].at = IF spawn_runtime THEN "asleep" ELSE "ended"]
    /\ UNCHANGED <<running, handler, callbacks, counted, calls, delivered, wrote>>

(* The plane starts; nobody has the handle yet, so its effects find no     *)
(* callback and are dropped.                                               *)
StartPlane(t) ==
    /\ At(t, "building") /\ callbacks = NoOne /\ Goto(t, "out")
    /\ calls' = calls + 1
    /\ handle' = "live"
    /\ UNCHANGED <<running, handler, callbacks, counted, delivered, wrote>>

sangfor_set_effect_handler(t) ==
    /\ handle = "live" /\ At(t, "out") /\ callbacks = NoOne
    /\ handler' = TRUE
    /\ UNCHANGED <<handle, running, callbacks, thread, counted, calls,
                   delivered, wrote>>

(* sangfor_on_*, sangfor_tick: the plane's handler, then its effects.      *)
run(t) ==
    /\ handle = "live" /\ At(t, "out")
    /\ \E size \in 1 .. MaxBatch : Produces(t, size, "return")
    /\ UNCHANGED <<handle, running, handler, callbacks, counted, delivered, wrote>>

(* sangfor_write_packet: the outcome is read off the counter, which is     *)
(* read under the mutex with the packet and again after the dispatch.      *)
Before_late == counted + 1  \* mutant: read after the packet was handled
Before == counted
sangfor_write_packet(t) ==
    /\ handle = "live" /\ At(t, "out") /\ calls < MaxCalls
    /\ calls' = calls + 1
    /\ \E took \in BOOLEAN, size \in 0 .. MaxBatch :
          /\ counted' = IF took THEN counted + 1 ELSE counted
          /\ thread' = [thread EXCEPT ![t] =
                [at |-> "dispatch", then |-> "recount", call |-> calls + 1,
                 next |-> 1, last |-> size, before |-> Before, took |-> took]]
    /\ UNCHANGED <<handle, running, handler, callbacks, delivered, wrote>>

Outcome(took, zero) == IF took THEN IF zero THEN "handled" ELSE "missed"
                       ELSE IF zero THEN "misled" ELSE "declined"

Recount(t) ==
    /\ At(t, "recount") /\ Goto(t, "out")
    /\ wrote' = [wrote EXCEPT ![t] =
                   Outcome(thread[t].took, counted > thread[t].before)]
    /\ UNCHANGED <<handle, running, handler, callbacks, counted, calls, delivered>>

-----------------------------------------------------------------------------
(* dispatch: nothing for no effects, the mutex, nothing for no callback.   *)
DispatchNothing(t) ==
    /\ At(t, "dispatch")
    /\ \/ thread[t].last = 0
       \/ callbacks = NoOne /\ ~handler
    /\ Goto(t, After(t)) /\ Freed(t)
    /\ UNCHANGED <<running, handler, callbacks, counted, calls, delivered, wrote>>

DispatchLock(t) ==
    /\ At(t, "dispatch") /\ thread[t].last > 0 /\ callbacks = NoOne /\ handler
    /\ callbacks' = t /\ Goto(t, "deliver")
    /\ UNCHANGED <<handle, running, handler, counted, calls, delivered, wrote>>

(* One effect; the mutex stays locked until the last of them returned.     *)
dispatch_one_unlocked(t) ==  \* mutant: locks for every effect anew
    LET me == thread[t]
    IN  /\ At(t, "deliver") /\ me.next <= me.last
        /\ delivered' = Append(delivered, [call |-> me.call, place |-> me.next,
                                           by |-> t])
        /\ callbacks' = NoOne
        /\ thread' = [thread EXCEPT ![t].next = @ + 1,
                        ![t].at = IF me.next = me.last THEN "deliver" ELSE "dispatch"]
        /\ UNCHANGED <<handle, running, handler, counted, calls, wrote>>
dispatch_one(t) ==
    LET me == thread[t]
    IN  /\ At(t, "deliver") /\ me.next <= me.last
        /\ delivered' = Append(delivered, [call |-> me.call, place |-> me.next,
                                           by |-> t])
        /\ thread' = [thread EXCEPT ![t].next = @ + 1]
        /\ UNCHANGED <<handle, running, handler, callbacks, counted, calls, wrote>>

DispatchUnlock(t) ==
    /\ At(t, "deliver") /\ thread[t].next > thread[t].last
    /\ callbacks' = NoOne /\ Goto(t, After(t)) /\ Freed(t)
    /\ UNCHANGED <<running, handler, counted, calls, delivered, wrote>>

-----------------------------------------------------------------------------
(* sangfor_stop: stop the runtime, close the plane, clear the callback,    *)
(* dispatch what the close returned, free the handle.                      *)
sangfor_stop(t) ==
    /\ handle = "live" /\ \A c \in Callers : At(c, "out")
    /\ handle' = "stopping" /\ running' = FALSE /\ Goto(t, "closing")
    /\ UNCHANGED <<handler, callbacks, counted, calls, delivered, wrote>>

(* The plane's effects of closing wait while the callback is cleared.      *)
ClosePlane(t) ==
    /\ At(t, "closing") /\ calls' = calls + 1
    /\ \E size \in 0 .. MaxBatch :
          thread' = [thread EXCEPT ![t].at = "clearing", ![t].then = "free",
                       ![t].call = calls + 1, ![t].next = 1, ![t].last = size]
    /\ UNCHANGED <<handle, running, handler, callbacks, counted, delivered, wrote>>

ClearHandler_not(t) ==  \* mutant: the callback stays registered
    /\ At(t, "clearing") /\ callbacks = NoOne
    /\ Goto(t, "dispatch")
    /\ UNCHANGED <<handle, running, handler, callbacks, counted, calls, delivered,
                   wrote>>
ClearHandler(t) ==
    /\ At(t, "clearing") /\ callbacks = NoOne
    /\ handler' = FALSE /\ Goto(t, "dispatch")
    /\ UNCHANGED <<handle, running, callbacks, counted, calls, delivered, wrote>>

(* spawn_runtime_thread: sleep, then end or tick.                          *)
RuntimeOver_never == FALSE  \* mutant: the flag is not looked at
RuntimeOver == ~running
RuntimeEnds ==
    /\ At(Runtime, "asleep") /\ RuntimeOver /\ Goto(Runtime, "ended")
    /\ UNCHANGED <<handle, running, handler, callbacks, counted, calls, delivered,
                   wrote>>
RuntimeTick ==
    /\ At(Runtime, "asleep") /\ ~RuntimeOver
    /\ \E size \in 1 .. MaxBatch : Produces(Runtime, size, "loop")
    /\ UNCHANGED <<handle, running, handler, callbacks, counted, delivered, wrote>>

-----------------------------------------------------------------------------
Caller(t) ==
    \/ sangfor_start(t) \/ StartPlane(t) \/ sangfor_set_effect_handler(t)
    \/ run(t) \/ sangfor_write_packet(t) \/ Recount(t)
    \/ sangfor_stop(t) \/ ClosePlane(t) \/ ClearHandler(t)

Dispatch(t) == DispatchNothing(t) \/ DispatchLock(t) \/ dispatch_one(t)
                  \/ DispatchUnlock(t)

Next == \/ \E t \in Callers : Caller(t)
        \/ \E t \in Threads : Dispatch(t)
        \/ RuntimeEnds \/ RuntimeTick

Spec == Init /\ [][Next]_vars

(* The scheduler runs every thread; the host's callback returns.           *)
FairSpec ==
    /\ Spec
    /\ WF_vars(RuntimeEnds)
    /\ \A t \in Threads : WF_vars(Dispatch(t))
    /\ \A t \in Callers : WF_vars(ClosePlane(t)) /\ WF_vars(ClearHandler(t))

(* A host whose callback calls back into the interface, as the comment on  *)
(* `run' has it: the same thread, inside the callback.                     *)
CallBack(t) ==
    /\ handle = "live" /\ At(t, "deliver") /\ thread[t].next > 1
    /\ \E size \in 0 .. MaxBatch : Produces(t, size, "return")
    /\ UNCHANGED <<handle, running, handler, callbacks, counted, delivered, wrote>>

CallingBackSpec ==
    /\ Init /\ [][Next \/ \E t \in Callers : CallBack(t)]_vars

-----------------------------------------------------------------------------
(* Properties.                                                             *)

(* Types.                                                                  *)
TypeOK ==
    /\ handle \in {"none", "building", "live", "stopping", "freed"}
    /\ running \in BOOLEAN /\ handler \in BOOLEAN
    /\ callbacks \in Holders /\ thread \in [Threads -> Thread]
    /\ counted \in Nat /\ calls \in 0 .. MaxCalls + 2
    /\ delivered \in Seq(Effect) /\ wrote \in [Callers -> Outcomes]

(* The callback gets the effects of a call one after the other, none twice *)
(* and nothing in between: threads that dispatch at the same time do not   *)
(* mix a relay's bytes with its close, or one call's packets with          *)
(* another's.                                                              *)
BatchesWhole ==
    \A i \in DOMAIN delivered :
       /\ delivered[i].place > 1 =>
             /\ i > 1
             /\ delivered[i - 1] = [delivered[i] EXCEPT !.place = @ - 1]
       /\ delivered[i].place = 1 =>
             \A j \in 1 .. i - 1 : delivered[j].call # delivered[i].call

(* A packet the plane took is never reported as declined, whatever the     *)
(* other threads do between the two readings of the counter.               *)
TakenIsReported == \A t \in Callers : wrote[t] # "missed"

(* Once sangfor_stop has returned no callback fires, although the runtime  *)
(* thread is not joined and may be about to dispatch.                      *)
SilentOnceStopped == [][handle = "freed" => delivered' = delivered]_vars

(* sangfor_stop returns, and the runtime thread ends after it.             *)
StopEnds == handle = "stopping" ~>
               handle = "freed" /\ At(Runtime, "ended")

(* What the comment on `run' promises (lib.rs:640-642): a host that reacts *)
(* to an effect by calling back into the interface does not deadlock       *)
(* against itself.                                                         *)
NeverWaitsForItself ==
    \A t \in Threads : ~(At(t, "dispatch") /\ thread[t].last > 0 /\ callbacks = t)
=============================================================================
