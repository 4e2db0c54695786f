----------------------------- MODULE Supervisor -----------------------------
(***************************************************************************)
(* The daemon's process: rust/sangfor-tunneld/src/runtime.rs, with its     *)
(* control protocol (control.rs), its loopback transport (transport.rs)    *)
(* and its entry point (main.rs).  One thread, the supervisor, owns at     *)
(* most one session; stdin and the socket's clients ask it through an      *)
(* inbox and wait for the verdict; a session is a host loop on a thread of *)
(* its own (the worker) and a thread that configures the interface (the    *)
(* configurator).  They share an atomic, `running', and a report, the      *)
(* snapshot, that clients read.                                            *)
(*                                                                         *)
(* Sessions are known by their generation.  Of the snapshot the model      *)
(* keeps who wrote what the gateway said (address and verdict) last.  What *)
(* the configurator writes of the interface is left out, and so is a       *)
(* session's exit code.  What a verb needs from the file system,           *)
(* the device or the gateway may succeed or fail.                          *)
(*                                                                         *)
(* Two ends of a thread are not reported to the supervisor: that of the    *)
(* thread that accepts clients, when accept fails, and that of a host loop *)
(* that panics.  What a panic does depends on the build: the release       *)
(* profile (rust/Cargo.toml) aborts the process, any other unwinds.        *)
(***************************************************************************)
EXTENDS Naturals, Sequences, FiniteSets

CONSTANTS
    Stdin,       \* the control client on stdin
    Sockets,     \* control clients on the loopback socket
    MaxClients,  \* MAX_CLIENTS
    Panics,      \* what a panic may do: "abort", "unwind"
    MaxSessions, \* bound: generations
    MaxRequests  \* bound: requests of all clients

ASSUME SupervisorAssumption ==
    /\ Stdin \notin Sockets /\ Panics \subseteq {"abort", "unwind"}
    /\ MaxClients \in Nat /\ MaxSessions \in Nat \ {0} /\ MaxRequests \in Nat

VARIABLES
    supervisor,   \* where the supervisor is, and the directive it serves
    inbox,        \* messages for it, in order
    listener,     \* the supervisor has opened a control socket
    deaf,         \* the thread that accepts its clients has ended
    stdin_open,   \* the supervisor has not heard of stdin's end
    client,       \* client -> where it is in its exchange
    requests,     \* requests so far; numbers the directives
    session,      \* generation of the session it holds, 0 for none
    generation,   \* generation of the last session it began to start
    running,      \* the atomic clients read
    snapshot,     \* generation that wrote the gateway's part, 0 for none
    worker,       \* generation -> where its host loop is
    told,         \* generations whose host loop was told to stop
    configurator  \* generation -> where its configurator is

vars == <<supervisor, inbox, listener, deaf, stdin_open, client, requests,
          session, generation, running, snapshot, worker, told, configurator>>
controls == <<listener, deaf, stdin_open>>
sessions == <<session, generation, running>>
threads == <<worker, told, configurator>>

Clients == Sockets \cup {Stdin}
Generations == 1 .. MaxSessions
Actions == {"start", "stopSession", "exit"}
Directive == [kind : {"directive"}, action : Actions, from : Clients,
              number : 1 .. MaxRequests]
Ended == [kind : {"ended"}, generation : Generations]
StdinClosed == [kind |-> "stdinClosed"]
Message == Directive \cup Ended \cup {StdinClosed}

Nobody == [at |-> "off", number |-> 0, saw_running |-> FALSE]
Idle == [at |-> "idle", number |-> 0, saw_running |-> FALSE]
Blank == 0
Serving(place, directive) == [at |-> place, directive |-> directive]
Free == Serving("recv", StdinClosed)

Init ==
    /\ supervisor = Serving("launch", StdinClosed) /\ inbox = <<>>
    /\ listener = FALSE /\ deaf = FALSE /\ stdin_open = TRUE
    /\ client = [c \in Clients |-> Nobody] /\ requests = 0
    /\ session = 0 /\ generation = 0 /\ running = FALSE
    /\ snapshot = Blank /\ worker = [g \in Generations |-> "none"]
    /\ told = {} /\ configurator = [g \in Generations |-> "none"]

-----------------------------------------------------------------------------
(* main.rs and the head of supervise.                                      *)

(* spawn_session, for generation g: the configurator's thread and then the *)
(* worker's; the host may fail before either, the worker's thread after.   *)
spawn_session(g, started) ==
    /\ worker' = [worker EXCEPT ![g] = IF started THEN "run" ELSE "none"]
    /\ \E configuring \in (IF started THEN {TRUE} ELSE BOOLEAN) :
          configurator' = [configurator EXCEPT ![g] =
                             IF configuring THEN "waiting" ELSE "none"]

(* Without a plan the daemon is idle; a device that does not open ends the *)
(* process before it is supervised.                                        *)
launch ==
    /\ supervisor.at = "launch"
    /\ \/ /\ supervisor' = [supervisor EXCEPT !.at = "opening"]
          /\ UNCHANGED <<sessions, threads>>
       \/ /\ supervisor' = [supervisor EXCEPT !.at = "done"]
          /\ UNCHANGED <<sessions, threads>>
       \/ \E started \in BOOLEAN :
             /\ supervisor' = [supervisor EXCEPT !.at = "opening"]
             /\ generation' = 1 /\ spawn_session(1, started)
             /\ session' = IF started THEN 1 ELSE 0
             /\ running' = started
             /\ UNCHANGED told
    /\ UNCHANGED <<inbox, controls, client, requests, snapshot>>

(* transport::open, then spawn_stdin_control.                              *)
OpenControl ==
    /\ supervisor.at = "opening" /\ supervisor' = Free
    /\ listener' \in BOOLEAN
    /\ \/ client' = [client EXCEPT ![Stdin] = Idle] /\ UNCHANGED inbox
       \/ inbox' = Append(inbox, StdinClosed) /\ UNCHANGED client
    /\ UNCHANGED <<deaf, stdin_open, requests, sessions, snapshot, threads>>

-----------------------------------------------------------------------------
(* A control client: transport::serve, spawn_stdin_control and dispatch.   *)

(* accept fails: its thread ends, and nobody is told.                      *)
AcceptFails ==
    /\ listener /\ ~deaf /\ deaf' = TRUE
    /\ UNCHANGED <<supervisor, inbox, listener, stdin_open, client, requests,
                   sessions, snapshot, threads>>

Connect(c) ==
    /\ listener /\ ~deaf /\ client[c].at = "off"
    /\ Cardinality({d \in Sockets : client[d].at # "off"}) < MaxClients
    /\ client' = [client EXCEPT ![c] = Idle]
    /\ UNCHANGED <<supervisor, inbox, controls, requests, sessions, snapshot,
                   threads>>

(* The end of a client: of its socket, or of stdin.                        *)
Hangup(c) ==
    /\ client[c].at = "idle" /\ client' = [client EXCEPT ![c].at = "off"]
    /\ inbox' = IF c = Stdin THEN Append(inbox, StdinClosed) ELSE inbox
    /\ UNCHANGED <<supervisor, controls, requests, sessions, snapshot, threads>>

(* dispatch reads the atomic first.                                        *)
Ask(c) ==
    /\ client[c].at = "idle" /\ requests < MaxRequests
    /\ client' = [client EXCEPT ![c].at = "asking", ![c].saw_running = running]
    /\ UNCHANGED <<supervisor, inbox, controls, requests, sessions, snapshot,
                   threads>>

(* reply: what is left to the supervisor, by what the client saw.          *)
Asks(saw_running) == {"exit", IF saw_running THEN "stopSession" ELSE "start"}

(* The reply is at once for a ping, a status, a refusal, or a verb that is *)
(* of no use; otherwise the directive is queued and the client waits.      *)
ReplyAtOnce(c) ==
    /\ client[c].at = "asking" /\ client' = [client EXCEPT ![c] = Idle]
    /\ UNCHANGED <<supervisor, inbox, controls, requests, sessions, snapshot,
                   threads>>
dispatch(c) ==
    /\ client[c].at = "asking" /\ requests < MaxRequests
    /\ requests' = requests + 1
    /\ \E action \in Asks(client[c].saw_running) :
          inbox' = Append(inbox, [kind |-> "directive", action |-> action,
                                  from |-> c, number |-> requests + 1])
    /\ client' = [client EXCEPT ![c] = [at |-> "waiting", number |-> requests + 1,
                                           saw_running |-> FALSE]]
    /\ UNCHANGED <<supervisor, controls, sessions, snapshot, threads>>

(* DIRECTIVE_TIMEOUT: the directive stays in the inbox.                    *)
GiveUp(c) ==
    /\ client[c].at = "waiting" /\ client' = [client EXCEPT ![c] = Idle]
    /\ UNCHANGED <<supervisor, inbox, controls, requests, sessions, snapshot,
                   threads>>

-----------------------------------------------------------------------------
(* The supervisor's loop.                                                  *)

Receiving(kind) ==
    /\ supervisor.at = "recv" /\ inbox # <<>> /\ Head(inbox).kind = kind
    /\ inbox' = Tail(inbox)
ReceivingDirective(action) ==
    Receiving("directive") /\ Head(inbox).action = action

(* The verdict reaches a client that still waits for this directive.       *)
respond(directive) ==
    LET c == directive.from
    IN  client' = IF client[c].at = "waiting" /\ client[c].number = directive.number
                    THEN [client EXCEPT ![c] = Idle] ELSE client

(* A session is running, or the documents or the device cannot be had.     *)
RefuseStart ==
    /\ ReceivingDirective("start") /\ respond(Head(inbox))
    /\ UNCHANGED <<supervisor, controls, requests, sessions, snapshot, threads>>

reset_snapshot_not == snapshot  \* mutant: keeps the previous session's report
reset_snapshot == Blank

Start ==
    /\ ReceivingDirective("start") /\ session = 0 /\ generation < MaxSessions
    /\ supervisor' = Serving("starting", Head(inbox))
    /\ generation' = generation + 1 /\ snapshot' = reset_snapshot
    /\ UNCHANGED <<controls, client, requests, session, running, threads>>

Started ==
    /\ supervisor.at = "starting" /\ supervisor' = Free
    /\ \E started \in BOOLEAN :
          /\ spawn_session(generation, started)
          /\ session' = IF started THEN generation ELSE session
          /\ running' = (started \/ running)
    /\ respond(supervisor.directive)
    /\ UNCHANGED <<inbox, controls, requests, generation, snapshot, told>>

(* stopSession and exit: Session::stop tells the loop, then joins it.      *)
Stopping_untold == told  \* mutant: joins a loop nobody told to end
Stopping == told \cup ({session} \ {0})
StopSession ==
    /\ \/ ReceivingDirective("stopSession")
       \/ ReceivingDirective("exit")
    /\ supervisor' = Serving("joining", Head(inbox)) /\ told' = Stopping
    /\ UNCHANGED <<controls, client, requests, sessions, snapshot, worker,
                   configurator>>

Joined == session # 0 => worker[session] \in {"gone", "panicked"}
Stopped ==
    /\ supervisor.at = "joining" /\ Joined
    /\ session' = 0 /\ running' = FALSE /\ respond(supervisor.directive)
    /\ supervisor' = IF supervisor.directive.action = "exit"
                       THEN Serving("closing", StdinClosed) ELSE Free
    /\ UNCHANGED <<inbox, controls, requests, generation, snapshot, threads>>

unreachable(open, has_session) == ~open /\ ~listener /\ ~has_session
Onward(open, has_session) ==
    IF unreachable(open, has_session) THEN Serving("closing", StdinClosed) ELSE Free

IsCurrent_not(g) == TRUE  \* mutant: any session's report is the current one's
IsCurrent(g) == g = generation
SessionEnded ==
    /\ Receiving("ended")
    /\ IF IsCurrent(Head(inbox).generation)
         THEN /\ session' = 0 /\ running' = FALSE
              /\ supervisor' = Onward(stdin_open, FALSE)
         ELSE UNCHANGED <<session, running, supervisor>>
    /\ UNCHANGED <<controls, client, requests, generation, snapshot, threads>>

HearStdinClosed_late ==  \* mutant: the flag is set after it was looked at
    /\ Receiving("stdinClosed") /\ stdin_open' = FALSE
    /\ supervisor' = Onward(stdin_open, session # 0)
    /\ UNCHANGED <<listener, deaf, client, requests, sessions, snapshot, threads>>
HearStdinClosed ==
    /\ Receiving("stdinClosed") /\ stdin_open' = FALSE
    /\ supervisor' = Onward(FALSE, session # 0)
    /\ UNCHANGED <<listener, deaf, client, requests, sessions, snapshot, threads>>

(* The process ends with the threads it has left and all it remembers.     *)
ProcessEnds ==
    /\ supervisor' = Serving("done", StdinClosed)
    /\ listener' = FALSE /\ inbox' = <<>>
    /\ client' = [c \in Clients |-> Nobody]
    /\ worker' = [g \in Generations |-> "gone"]
    /\ configurator' = [g \in Generations |-> "none"]
    /\ session' = 0 /\ running' = FALSE /\ snapshot' = Blank /\ told' = {}
    /\ UNCHANGED <<deaf, stdin_open, requests, generation>>

(* ControlListener::shutdown; then main returns.                           *)
Close == supervisor.at = "closing" /\ ProcessEnds

-----------------------------------------------------------------------------
(* A session's threads.                                                    *)
untouched == <<supervisor, controls, client, requests, sessions>>

(* The observer: the gateway assigned an address, or refused the session,  *)
(* which ends the loop.                                                    *)
OnVirtualIp(g) ==
    /\ worker[g] = "run" /\ snapshot # g /\ snapshot' = g
    /\ UNCHANGED <<untouched, inbox, threads>>
OnFatal(g) ==
    /\ worker[g] = "run" /\ snapshot' = g
    /\ worker' = [worker EXCEPT ![g] = "returned"]
    /\ UNCHANGED <<untouched, inbox, told, configurator>>

(* Host::run returns: told to, or the poll failed.                         *)
RunReturns(g) ==
    /\ worker[g] = "run" /\ g \in told
    /\ worker' = [worker EXCEPT ![g] = "returned"]
    /\ UNCHANGED <<untouched, inbox, snapshot, told, configurator>>
RunFails(g) ==
    /\ worker[g] = "run" /\ worker' = [worker EXCEPT ![g] = "returned"]
    /\ UNCHANGED <<untouched, inbox, snapshot, told, configurator>>

(* It panics, which ends the process, or its thread without a report.      *)
Aborts(g) == worker[g] = "run" /\ "abort" \in Panics /\ ProcessEnds
Unwinds(g) ==
    /\ worker[g] = "run" /\ "unwind" \in Panics
    /\ worker' = [worker EXCEPT ![g] = "panicked"]
    /\ UNCHANGED <<untouched, inbox, snapshot, told, configurator>>

(* The worker tells the supervisor; only then does it drop the host.       *)
ReportEnd(g) ==
    /\ worker[g] = "returned"
    /\ worker' = [worker EXCEPT ![g] = "reported"]
    /\ inbox' = Append(inbox, [kind |-> "ended", generation |-> g])
    /\ UNCHANGED <<untouched, snapshot, told, configurator>>
DropHost(g) ==
    /\ worker[g] = "reported" /\ worker' = [worker EXCEPT ![g] = "gone"]
    /\ UNCHANGED <<untouched, inbox, snapshot, told, configurator>>

(* spawn_configurator: no address came in time, or ever will; or it did    *)
(* and could be applied, or not.  Nobody joins it.                         *)
Configure(g) ==
    /\ configurator[g] = "waiting"
    /\ configurator' = [configurator EXCEPT ![g] = "none"]
    /\ UNCHANGED <<untouched, inbox, snapshot, worker, told>>

-----------------------------------------------------------------------------
Supervising ==
    \/ launch \/ OpenControl \/ RefuseStart \/ Start \/ Started
    \/ StopSession \/ Stopped \/ SessionEnded \/ HearStdinClosed \/ Close
Working(g) == RunReturns(g) \/ ReportEnd(g) \/ DropHost(g)

Next ==
    \/ Supervising \/ AcceptFails
    \/ \E c \in Sockets : Connect(c)
    \/ \E c \in Clients : Hangup(c) \/ Ask(c) \/ ReplyAtOnce(c) \/ dispatch(c)
                             \/ GiveUp(c)
    \/ \E g \in Generations :
          \/ OnVirtualIp(g) \/ OnFatal(g) \/ RunFails(g) \/ Working(g)
          \/ Aborts(g) \/ Unwinds(g) \/ Configure(g)

(* The scheduler runs the supervisor's thread and a worker's; the loop     *)
(* returns when told (HostLoop).  Nothing makes a client speak.            *)
Spec == Init /\ [][Next]_vars /\ WF_vars(Supervising)
             /\ \A g \in Generations : WF_vars(Working(g))

-----------------------------------------------------------------------------
(* Properties.                                                             *)

(* Types.                                                                  *)
TypeOK ==
    /\ supervisor \in [at : {"launch", "opening", "recv", "starting", "joining",
                             "closing", "done"},
                       directive : Directive \cup {StdinClosed}]
    /\ inbox \in Seq(Message) /\ listener \in BOOLEAN
    /\ deaf \in BOOLEAN /\ stdin_open \in BOOLEAN /\ running \in BOOLEAN
    /\ client \in [Clients -> [at : {"off", "idle", "asking", "waiting"},
                               number : 0 .. MaxRequests, saw_running : BOOLEAN]]
    /\ requests \in 0 .. MaxRequests
    /\ session \in 0 .. MaxSessions /\ generation \in 0 .. MaxSessions
    /\ snapshot \in 0 .. MaxSessions
    /\ worker \in [Generations -> {"none", "run", "returned", "reported",
                                   "gone", "panicked"}]
    /\ told \subseteq Generations
    /\ configurator \in [Generations -> {"none", "waiting"}]

(* A host loop that runs is the session the supervisor holds: so at most   *)
(* one runs, and a stop reaches it, whatever clients ask at the same time  *)
(* and whatever is still queued of sessions that are over.  Starting races *)
(* starting, stopping races the session's own end, reports arrive late.    *)
(* With the types.                                                         *)
OneTunnel ==
    /\ TypeOK
    /\ \A g \in Generations : worker[g] \in {"run", "returned"} => session = g

(* A session the supervisor holds is the newest, and what a client reads   *)
(* about the gateway's verdict and address while it runs is its own.       *)
OwnReport ==
    session # 0 => /\ session = generation
                   /\ snapshot \in {0, session}

(* Who can still send the supervisor a message: stdin's thread, a client   *)
(* of the socket or one still to be accepted, a host loop yet to report.   *)
StdinCanSend == client[Stdin].at # "off"
SocketCanSend ==
    listener /\ (~deaf \/ \E c \in Sockets : client[c].at # "off")
SessionCanSend == session # 0 /\ worker[session] \in {"run", "returned"}

(* The two ends that the supervisor does not hear of.                      *)
AcceptingOver == listener /\ deaf
LoopPanicked == session # 0 /\ worker[session] = "panicked"

(* The daemon waits for messages only while somebody can send one, in      *)
(* whatever order stdin, the socket and the session go.  It does wait for  *)
(* nobody where the code is blind: behind a socket that accepts no more,   *)
(* and, in a build that unwinds, for a session whose loop has panicked.    *)
NeverUnreachable ==
    supervisor.at = "recv" /\ inbox = <<>> =>
       \/ StdinCanSend \/ SocketCanSend \/ SessionCanSend
       \/ AcceptingOver \/ LoopPanicked

(* A client that waits for a verdict gets one, without its timeout: the    *)
(* supervisor never blocks for good, not in joining a session either.      *)
WaitingIsAnswered ==
    \A c \in Clients : client[c].at = "waiting" ~> client[c].at # "waiting"
=============================================================================
