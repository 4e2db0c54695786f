------------------------------ MODULE HostLoop ------------------------------
(***************************************************************************)
(* The host's event loop and the threads around it: rust/sangfor-host/src/ *)
(* host.rs, with the packet device it reads (sangfor-tun/src/device.rs)    *)
(* and the TLS channel it polls (channel.rs).  The reader thread feeds the *)
(* loop through a bounded queue, a connect worker through another, and any *)
(* thread may stop it; each wakes the loop out of its poll.                *)
(*                                                                         *)
(* The plane is abstract: a call returns one effect, of any kind.  What    *)
(* becomes of a dial whose relay is gone, and what travels on a relay, is  *)
(* in RelaySession; here it is who wakes whom, and whether what is ready   *)
(* is handled.                                                             *)
(*                                                                         *)
(* One channel stands for all: the loop keeps nothing between two of them. *)
(* Bytes are counted in units.  A TLS record holds RecordUnits of them: a  *)
(* read that finds none decrypted takes a record from the socket.  The     *)
(* poller is edge-triggered: what became ready is reported once, and again *)
(* only after a reregistration.                                            *)
(***************************************************************************)
EXTENDS Naturals, Sequences, FiniteSetsExt

CONSTANTS
    Bounds,       \* bounds: packets the system sends and connects of the
                  \* plane, together, as one of these pairs
    DeviceQueue,  \* device_queue
    MaxPackets,   \* max_packets_per_iteration
    MaxReads,     \* max_reads_per_event
    RecordUnits,  \* units in a record
    Records,      \* bound: records the peer sends
    Room,         \* units the socket takes before it is full
    Sends,        \* bound: sends of the plane
    SendUnits     \* units in a send

ASSUME HostLoopAssumption ==
    /\ Bounds \subseteq [packets : Nat, connects : {0, 1}]
    /\ {Records, Sends} \subseteq Nat
    /\ {DeviceQueue, MaxPackets, MaxReads, RecordUnits, Room, SendUnits}
          \subseteq Nat \ {0}

VARIABLES
    bounds,     \* the bounds of this behaviour, see Bounds
    at,         \* where the loop is
    again,      \* the drains before the poll, not the ones behind it
    budget,     \* what the loop may still take where it is
    stopped,    \* Host::stopped
    running,    \* the flag threads share
    closed,     \* the device is closed
    waker,      \* a wake is due
    reader,     \* where the reader thread is, and the packet it holds
    taken,      \* packets read from the device, which numbers them
    queue,      \* packets queued, in order
    handled,    \* history: packets the plane got, in order
    dropped,    \* packets shed because the queue was full
    worker,     \* where the channel's connect is
    channel,    \* the channel
    arrived,    \* records the peer has sent
    sent,       \* sends of the plane so far
    stopper     \* where a thread in HostHandle::stop is

lap == <<bounds, again>>
loop == <<lap, at, budget, stopped>>
device == <<closed, reader, taken, queue, handled, dropped>>
socket == <<worker, channel, arrived, sent>>
vars == <<loop, running, waker, device, socket, stopper>>

(* `inbound' records wait in the socket, `decrypted' units in the TLS      *)
(* session; `pending' units in the slot's queue, `sealed' ones in the TLS  *)
(* session; `room' units fit the socket.  `interest' is registered,        *)
(* `event' is what the poller has to report.                               *)
NoChannel == [open |-> FALSE, paused |-> FALSE, inbound |-> 0, decrypted |-> 0,
              eof |-> FALSE, pending |-> 0, sealed |-> 0, room |-> Room,
              interest |-> {}, event |-> FALSE]

Init ==
    /\ bounds \in Bounds
    /\ at = "commands" /\ again = TRUE /\ budget = 0 /\ stopped = FALSE
    /\ running = TRUE /\ closed = FALSE /\ waker = FALSE
    /\ reader = [at |-> "read", packet |-> 0] /\ taken = 0
    /\ queue = <<>> /\ handled = <<>> /\ dropped = 0
    /\ worker = "none" /\ channel = NoChannel /\ arrived = 0 /\ sent = 0
    /\ stopper = "out"

-----------------------------------------------------------------------------
(* The poller.                                                             *)
interest_readable(slot) == {"readable"}  \* mutant: never waits for room
interest(slot) == IF slot.paused THEN {"writable"}
                  ELSE {"readable"} \cup {e \in {"writable"} : slot.pending > 0}

Ready(slot, wanted) ==
    \/ "readable" \in wanted /\ (slot.inbound > 0 \/ slot.eof)
    \/ "writable" \in wanted /\ slot.room > 0

reregister(slot) == [slot EXCEPT !.interest = interest(slot),
                                 !.event = Ready(slot, interest(slot))]

(* flush, with the writes and the flush of the TLS session: it takes a     *)
(* unit of the queue whenever the socket has taken the one before.  What   *)
(* is left then waits for a reregistration.                                *)
Flushed(slot) ==
    LET all == slot.sealed + slot.pending
        out == Min({all, slot.room})
        left == all - out
        sealed == IF left > 0 THEN 1 ELSE 0
    IN  [slot EXCEPT !.sealed = sealed, !.pending = left - sealed,
                     !.room = @ - out]
finish_flush_quiet(slot) == Flushed(slot)  \* mutant: no reregistration
finish_flush(slot) == reregister(Flushed(slot))

-----------------------------------------------------------------------------
(* What an effect of the plane does to the channel; `apply' of effects     *)
(* that only touch the channel.  A write that fails ends the channel: for  *)
(* a send that is what a close does.                                       *)
ChannelEffects == {"none", "send", "pause", "resume", "close"}
Applied(slot, effect) ==
    CASE effect = "send" ->
             finish_flush([slot EXCEPT !.pending = @ + SendUnits])
      [] effect = "pause" -> reregister([slot EXCEPT !.paused = TRUE])
      [] effect = "resume" -> reregister([slot EXCEPT !.paused = FALSE])
      [] effect = "close" -> NoChannel
      [] OTHER -> slot

(* begin_connect: a worker for the channel's one connect.                  *)
Connecting ==
    worker = "none" /\ bounds.connects > 0 /\ worker' = "connecting"

(* Host::stop, when the plane reports a fatal error.                       *)
Fatal == /\ stopped' = TRUE /\ running' = FALSE /\ closed' = TRUE
         /\ waker' = TRUE

(* The loop is given any effect of the plane for a channel in state slot;  *)
(* `next' is where it goes, and where it goes once it is stopped.  In the  *)
(* first operator any effect but a connect.                                *)
ApplyHere(slot, next, over) ==
    \/ \E effect \in ChannelEffects :
          /\ effect # "none" => slot.open
          /\ effect = "send" => sent < Sends
          /\ sent' = IF effect = "send" THEN sent + 1 ELSE sent
          /\ channel' = Applied(slot, effect) /\ at' = next
          /\ UNCHANGED <<stopped, running, closed, waker>>
    \/ Fatal /\ channel' = slot /\ at' = over /\ UNCHANGED sent
Apply(slot, next, over) ==
    \/ ApplyHere(slot, next, over) /\ UNCHANGED worker
    \/ /\ Connecting /\ channel' = slot /\ at' = next
       /\ UNCHANGED <<sent, stopped, running, closed, waker>>

-----------------------------------------------------------------------------
(* The device's reader: read_packet, try_send, wake.                       *)
ReadPacket ==
    /\ reader.at = "read" /\ running /\ ~closed /\ taken < bounds.packets
    /\ taken' = taken + 1
    /\ reader' = [at |-> "send", packet |-> taken + 1]
    /\ UNCHANGED <<loop, running, waker, closed, queue, handled, dropped, socket,
                   stopper>>

Shed_silently == queue' = queue /\ dropped' = dropped  \* mutant: not counted
Shed == queue' = queue /\ dropped' = dropped + 1
SendPacket_blocking ==  \* mutant: waits for room in the queue
    /\ reader.at = "send" /\ Len(queue) < DeviceQueue
    /\ queue' = Append(queue, reader.packet) /\ dropped' = dropped
    /\ reader' = [at |-> "wake", packet |-> 0]
    /\ UNCHANGED <<loop, running, waker, closed, taken, handled, socket, stopper>>
SendPacket ==
    /\ reader.at = "send"
    /\ \/ /\ Len(queue) < DeviceQueue
          /\ queue' = Append(queue, reader.packet) /\ dropped' = dropped
          /\ reader' = [at |-> "wake", packet |-> 0]
       \/ /\ Len(queue) = DeviceQueue /\ Shed
          /\ reader' = [at |-> "read", packet |-> 0]
    /\ UNCHANGED <<loop, running, waker, closed, taken, handled, socket, stopper>>

ReaderWakes ==
    /\ reader.at = "wake" /\ waker' = TRUE
    /\ reader' = [at |-> "read", packet |-> 0]
    /\ UNCHANGED <<loop, running, closed, taken, queue, handled, dropped, socket,
                   stopper>>

(* The flag is off, or the device is closed or fails.                      *)
ReaderEnds ==
    /\ reader.at = "read" /\ (~running \/ closed)
    /\ reader' = [at |-> "ended", packet |-> 0]
    /\ UNCHANGED <<loop, running, waker, closed, taken, queue, handled, dropped,
                   socket, stopper>>

(* The connect worker: the outcome, then the wake.                         *)
ConnectEnds ==
    /\ worker = "connecting"
    /\ worker' \in {"connected", "failed"}
    /\ UNCHANGED <<loop, running, waker, device, channel, arrived, sent, stopper>>
ConnectWakes ==
    /\ worker \in {"connected", "failed"} /\ ~waker /\ waker' = TRUE
    /\ UNCHANGED <<loop, running, device, socket, stopper>>

(* HostHandle::stop, on any thread.                                        *)
StopFlag ==
    /\ stopper = "out" /\ running' = FALSE /\ stopper' = "close"
    /\ UNCHANGED <<loop, waker, device, socket>>
StopDevice ==
    /\ stopper = "close" /\ closed' = TRUE /\ stopper' = "wake"
    /\ UNCHANGED <<loop, running, waker, reader, taken, queue, handled, dropped,
                   socket>>
StopWakes ==
    /\ stopper = "wake" /\ waker' = TRUE /\ stopper' = "done"
    /\ UNCHANGED <<loop, running, device, socket>>

-----------------------------------------------------------------------------
(* The peer and its socket.                                                *)
Arrives ==
    /\ channel.open /\ ~channel.eof /\ arrived < Records
    /\ arrived' = arrived + 1
    /\ channel' = [channel EXCEPT !.inbound = @ + 1,
                     !.event = @ \/ "readable" \in channel.interest]
    /\ UNCHANGED <<loop, running, waker, device, worker, sent, stopper>>
PeerEnds ==
    /\ channel.open /\ ~channel.eof
    /\ channel' = [channel EXCEPT !.eof = TRUE,
                     !.event = @ \/ "readable" \in channel.interest]
    /\ UNCHANGED <<loop, running, waker, device, worker, arrived, sent, stopper>>
PeerReads ==
    /\ channel.open /\ channel.room < Room
    /\ channel' = [channel EXCEPT !.room = Room,
                     !.event = @ \/ "writable" \in channel.interest]
    /\ UNCHANGED <<loop, running, waker, device, worker, arrived, sent, stopper>>

-----------------------------------------------------------------------------
(* The loop's thread.                                                      *)
Goto(place, left) == at' = place /\ budget' = left

(* drain_commands: the connect's outcome, if it is there, and what the     *)
(* plane does about it; a channel the poller refuses is a connect failed.  *)
DrainCommand ==
    /\ at = "commands" /\ worker \in {"connected", "failed"}
    /\ budget' = 0 /\ worker' = "over"
    /\ \/ /\ worker = "connected"
          /\ ApplyHere(reregister([NoChannel EXCEPT !.open = TRUE]), at, at)
       \/ ApplyHere(NoChannel, at, at)
    /\ UNCHANGED <<lap, reader, taken, queue, handled, dropped, arrived, stopper>>
CommandsDrained ==
    /\ at = "commands" /\ worker \notin {"connected", "failed"}
    /\ Goto("packets", MaxPackets)
    /\ UNCHANGED <<lap, stopped, running, waker, device, socket, stopper>>

Next_place == IF again THEN "poll" ELSE "tick"

DrainPacket ==
    /\ at = "packets" /\ budget > 0 /\ queue # <<>>
    /\ handled' = Append(handled, Head(queue)) /\ queue' = Tail(queue)
    /\ budget' = budget - 1
    /\ Apply(channel, IF stopped THEN Next_place ELSE "packets", Next_place)
    /\ UNCHANGED <<lap, reader, taken, dropped, arrived, stopper>>
PacketsDrained ==
    /\ at = "packets" /\ budget > 0 /\ queue = <<>> /\ Goto(Next_place, 0)
    /\ UNCHANGED <<lap, stopped, running, waker, device, socket, stopper>>
PacketsLeft_asleep ==  \* mutant: does not come back for the rest
    /\ at = "packets" /\ budget = 0 /\ Goto(Next_place, 0)
    /\ UNCHANGED <<lap, stopped, running, waker, device, socket, stopper>>
PacketsLeft ==
    /\ at = "packets" /\ budget = 0 /\ Goto(Next_place, 0) /\ waker' = TRUE
    /\ UNCHANGED <<lap, stopped, running, device, socket, stopper>>

(* The poll returns for a wake, an event, or its timeout.                  *)
PollReturns ==
    /\ at = "poll" /\ again' = FALSE /\ waker' = FALSE
    /\ channel' = [channel EXCEPT !.event = FALSE]
    /\ IF channel.event THEN Goto("pump", MaxReads) ELSE Goto("commands", 0)
    /\ UNCHANGED <<bounds, stopped, running, device, worker, arrived, sent, stopper>>

(* The poll fails: run returns, and the host is dropped.                   *)
PollFails ==
    /\ at = "poll" /\ Fatal /\ Goto("join", 0)
    /\ UNCHANGED <<lap, reader, taken, queue, handled, dropped, socket, stopper>>

(* pump: one read, unless paused; then the plane's effect.                 *)
Readable == channel.open /\ ~channel.paused /\ budget > 0
Read(slot) ==
    IF slot.decrypted > 0 THEN [slot EXCEPT !.decrypted = @ - 1]
    ELSE [slot EXCEPT !.inbound = @ - 1, !.decrypted = RecordUnits - 1]
PumpRead ==
    /\ at = "pump" /\ Readable /\ channel.decrypted + channel.inbound > 0
    /\ budget' = budget - 1
    /\ Apply(Read(channel), IF stopped THEN "commands" ELSE "pump", "commands")
    /\ UNCHANGED <<lap, reader, taken, queue, handled, dropped, arrived, stopper>>
(* The end of the stream or a read that fails, a write that fails: the     *)
(* channel goes, and the plane is told.                                    *)
PumpEnd ==
    /\ at = "pump" /\ Readable /\ channel.decrypted = 0
    /\ channel.inbound > 0 \/ channel.eof
    /\ budget' = 0 /\ Apply(NoChannel, "commands", "commands")
    /\ UNCHANGED <<lap, reader, taken, queue, handled, dropped, arrived, stopper>>
ReadsDone == Readable => channel.decrypted + channel.inbound = 0 /\ ~channel.eof
PumpFlush ==
    /\ at = "pump" /\ ReadsDone
    /\ channel' = IF channel.open THEN finish_flush(channel) ELSE channel
    /\ Goto("commands", 0)
    /\ UNCHANGED <<lap, stopped, running, waker, device, worker, arrived, sent,
                   stopper>>
PumpFails ==
    /\ at = "pump" /\ ReadsDone /\ channel.open
    /\ budget' = 0 /\ Apply(NoChannel, "commands", "commands")
    /\ UNCHANGED <<lap, reader, taken, queue, handled, dropped, arrived, stopper>>

(* tick, publish_statistics, and the loop's condition.                     *)
Tick ==
    /\ at = "tick" /\ budget' = 0 /\ Apply(channel, "check", "check")
    /\ UNCHANGED <<lap, reader, taken, queue, handled, dropped, arrived, stopper>>
Continue ==
    /\ at = "check"
    /\ again' = TRUE
    /\ Goto(IF stopped \/ ~running THEN "finish" ELSE "commands", 0)
    /\ UNCHANGED <<bounds, stopped, running, waker, device, socket, stopper>>

(* finish: the flag, the reader joined, the plane and the channel closed.  *)
Finish ==
    /\ at = "finish" /\ running' = FALSE /\ Goto("join", 0)
    /\ UNCHANGED <<lap, stopped, waker, device, socket, stopper>>
Joined ==
    /\ at = "join" /\ reader.at = "ended" /\ Goto("done", 0)
    /\ channel' = NoChannel
    /\ UNCHANGED <<lap, stopped, running, waker, device, worker, arrived, sent,
                   stopper>>

-----------------------------------------------------------------------------
Looping ==
    \/ DrainCommand \/ CommandsDrained \/ DrainPacket \/ PacketsDrained
    \/ PacketsLeft \/ PollReturns \/ PumpRead \/ PumpEnd \/ PumpFlush
    \/ PumpFails \/ Tick \/ Continue \/ Finish \/ Joined
Reading == SendPacket \/ ReaderWakes \/ ReaderEnds
StopCalled == StopDevice \/ StopWakes

Next ==
    \/ Looping \/ PollFails \/ ReadPacket \/ Reading
    \/ ConnectEnds \/ ConnectWakes
    \/ StopFlag \/ StopCalled
    \/ Arrives \/ PeerEnds \/ PeerReads

(* The scheduler runs the loop, the reader and a thread that stops; a poll *)
(* and a read of the device return within their intervals; a peer reads    *)
(* what it is sent.                                                        *)
Spec ==
    /\ Init /\ [][Next]_vars
    /\ WF_vars(Looping) /\ WF_vars(Reading) /\ WF_vars(StopCalled)
    /\ WF_vars(PeerReads)

-----------------------------------------------------------------------------
(* Properties.                                                             *)

(* Types.                                                                  *)
TypeOK ==
    /\ at \in {"commands", "packets", "poll", "pump", "tick", "check", "finish",
               "join", "done"}
    /\ again \in BOOLEAN /\ stopped \in BOOLEAN /\ running \in BOOLEAN
    /\ closed \in BOOLEAN /\ waker \in BOOLEAN
    /\ budget \in 0 .. Max({MaxPackets, MaxReads})
    /\ reader \in [at : {"read", "send", "wake", "ended"},
                   packet : 0 .. bounds.packets]
    /\ taken \in 0 .. bounds.packets /\ dropped \in 0 .. bounds.packets
    /\ {queue, handled} \subseteq Seq(1 .. bounds.packets)
    /\ worker \in {"none", "connecting", "connected", "failed", "over"}
    /\ channel \in [open : BOOLEAN, paused : BOOLEAN, inbound : 0 .. Records,
                    decrypted : 0 .. RecordUnits, eof : BOOLEAN,
                    pending : 0 .. Sends * SendUnits, sealed : 0 .. 1,
                    room : 0 .. Room, event : BOOLEAN,
                    interest : SUBSET {"readable", "writable"}]
    /\ arrived \in 0 .. Records /\ sent \in 0 .. Sends
    /\ stopper \in {"out", "close", "wake", "done"}

(* A packet read from the device reaches the plane in its order, or waits, *)
(* or is counted as shed; with the types.                                  *)
PacketsAccounted ==
    LET held == IF reader.at = "send" THEN <<reader.packet>> ELSE <<>>
        line == handled \o queue \o held
    IN  /\ TypeOK
        /\ \A i \in 1 .. Len(line) - 1 : line[i] < line[i + 1]
        /\ Len(line) + dropped = taken

(* The loop does not go to sleep on packets it has: while it waits in its  *)
(* poll with no wake due, the queue is empty or the reader is about to     *)
(* wake it.                                                                *)
AsleepMeansDry ==
    at = "poll" /\ ~waker => queue = <<>> \/ reader.at = "wake"

(* What a socket has received is read, unless the plane paused it: neither *)
(* the limit of reads per event nor a resume loses the readiness.          *)
InboundIsRead ==
    channel.inbound > 0 /\ ~channel.paused ~>
       channel.inbound = 0 \/ channel.paused

(* What the socket had no room for is written once it has, also on a       *)
(* channel that is paused for reading.                                     *)
PendingIsWritten == channel.pending > 0 ~> channel.pending = 0

(* Once told to stop, by another thread or by a fatal error, the loop      *)
(* returns, and not before the reader has ended.                           *)
StopEnds == ~running ~> at = "done" /\ reader.at = "ended"
=============================================================================
