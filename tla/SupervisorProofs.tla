-------------------------- MODULE SupervisorProofs --------------------------
(***************************************************************************)
(* Theorems about the supervisor of the daemon (Supervisor.tla), for any   *)
(* set of control clients and all values of the bounds: one tunnel at a    *)
(* time, a report of its own, and no daemon that nobody can reach.         *)
(*                                                                         *)
(* None of the three is inductive.  One tunnel at a time needs to know     *)
(* that a report in the inbox is of a host loop that is over, and that a   *)
(* generation not yet begun has no host loop; to be reachable needs the    *)
(* order of the inbox: what stdin says comes before the word that it       *)
(* closed.                                                                 *)
(***************************************************************************)
EXTENDS Supervisor, TLAPS

InLoop == {"run", "returned"}
Over == {"reported", "gone"}
Places == {"none", "run", "returned", "reported", "gone", "panicked"}

(* A generation not yet begun has no host loop.                            *)
Unstarted ==
    supervisor.at # "done" =>
       \A g \in Generations : g > generation => worker[g] = "none"

(* A report in the inbox is of a host loop that is over.                   *)
LateReports ==
    \A i \in 1 .. Len(inbox) :
       inbox[i].kind = "ended" => worker[inbox[i].generation] \in Over

(* Before its first session the supervisor knows of nothing; and while it  *)
(* starts one it holds none and the report is blank.                       *)
Beginning ==
    supervisor.at = "launch" => generation = 0 /\ snapshot = 0
Starting ==
    supervisor.at = "starting" =>
       /\ session = 0 /\ generation \in Generations
       /\ worker[generation] = "none" /\ snapshot = 0

(* Who may still speak: a client that is there, or a directive that is not *)
(* yet served, shows that its way in is open, as far as the supervisor has *)
(* heard.                                                                  *)
NotYetOpen ==
    supervisor.at \in {"launch", "opening"} =>
       /\ stdin_open /\ ~listener /\ \A c \in Clients : client[c].at = "off"
       /\ \A i \in 1 .. Len(inbox) : inbox[i].kind = "ended"
SocketsOpen == \A c \in Sockets : client[c].at # "off" => listener
StdinSpeaks ==
    client[Stdin].at # "off" =>
       /\ stdin_open
       /\ \A i \in 1 .. Len(inbox) : inbox[i].kind # "stdinClosed"
DirectivesReach ==
    \A i \in 1 .. Len(inbox) : inbox[i].kind = "directive" =>
       IF inbox[i].from = Stdin
         THEN /\ stdin_open
              /\ \A j \in 1 .. i - 1 : inbox[j].kind # "stdinClosed"
         ELSE listener
Served ==
    supervisor.at \in {"starting", "joining"} =>
       supervisor.directive \in Directive /\ (stdin_open \/ listener)
Reachable ==
    supervisor.at = "recv" => stdin_open \/ listener \/ session # 0

Tunnels == OneTunnel /\ OwnReport /\ Unstarted /\ LateReports /\ Beginning /\ Starting
Ways == NotYetOpen /\ SocketsOpen /\ StdinSpeaks /\ DirectivesReach /\ Served
          /\ Reachable
IInv == Tunnels /\ Ways

-----------------------------------------------------------------------------
(* The parts of the type invariant that are records.                       *)
ClientRecord == [at : {"off", "idle", "asking", "waiting"},
                 number : 0 .. MaxRequests, saw_running : BOOLEAN]

SupervisorRecord == [at : {"launch", "opening", "recv", "starting", "joining",
                           "closing", "done"},
                     directive : Directive \cup {StdinClosed}]

(* The inbox: a message put in at its end, one taken from its head.        *)
Grown(m) ==
    /\ inbox' \in Seq(Message) /\ Len(inbox) \in Nat
    /\ Len(inbox') = Len(inbox) + 1 /\ inbox'[Len(inbox) + 1] = m
    /\ \A i \in 1 .. Len(inbox) : inbox'[i] = inbox[i]
Shrunk ==
    /\ inbox' \in Seq(Message) /\ Len(inbox') \in Nat
    /\ Len(inbox) = Len(inbox') + 1 /\ Head(inbox) = inbox[1]
    /\ inbox[1] \in Message
    /\ \A i \in 1 .. Len(inbox') : inbox'[i] = inbox[i + 1]

LEMMA Grows ==
    ASSUME TypeOK, NEW m \in Message, inbox' = Append(inbox, m)
    PROVE  Grown(m)
BY SMTT(20) DEF TypeOK, Grown

LEMMA Shrinks ==
    ASSUME TypeOK, inbox # <<>>, inbox' = Tail(inbox)
    PROVE  Shrunk
BY SMTT(20) DEF TypeOK, Shrunk

(* The kinds of a message tell them apart.                                 *)
LEMMA Kinds ==
    ASSUME NEW m \in Message
    PROVE  /\ m.kind = "directive" => m \in Directive
           /\ m.kind = "ended" => m \in Ended
           /\ m.kind = "stdinClosed" => m = StdinClosed
BY DEF Message, Directive, Ended, StdinClosed

-----------------------------------------------------------------------------
(* Steps of clients: none touches the supervisor or a session.             *)

LEMMA IdleClient ==
    /\ Idle \in ClientRecord /\ Idle.at = "idle"
    /\ Nobody \in ClientRecord /\ Nobody.at = "off"
BY SupervisorAssumption DEF Idle, Nobody, ClientRecord

(* A step that changes nothing but what a client does, and gives a mouth   *)
(* to nobody but a socket's client when the socket is open.                *)
Chatting ==
    /\ client' \in [Clients -> ClientRecord]
    /\ \A c \in Clients : client'[c].at # "off" =>
          client[c].at # "off" \/ (c \in Sockets /\ listener)
    /\ UNCHANGED <<supervisor, inbox, controls, sessions, snapshot, threads>>

LEMMA ChattingKeeps ==
    ASSUME IInv, Chatting, requests' = requests
    PROVE  IInv'
<1>1. TypeOK'
  BY DEF IInv, Tunnels, OneTunnel, TypeOK, Chatting, ClientRecord, controls,
         sessions, threads
<1>2. Tunnels'
  BY <1>1 DEF IInv, Tunnels, OneTunnel, OwnReport, Unstarted, LateReports,
         Beginning, Starting, Chatting, controls, sessions, threads
<1>3. Ways'
  <2> USE DEF IInv, Ways, Chatting, controls, sessions
  <2>1. NotYetOpen' BY DEF NotYetOpen, Clients
  <2>2. SocketsOpen' BY DEF SocketsOpen, Clients
  <2>3. StdinSpeaks' BY SupervisorAssumption DEF StdinSpeaks, Clients
  <2>4. DirectivesReach' BY DEF DirectivesReach
  <2>5. Served' /\ Reachable' BY DEF Served, Reachable
  <2> QED BY <2>1, <2>2, <2>3, <2>4, <2>5
<1> QED BY <1>2, <1>3 DEF IInv

(* The thread that accepts clients ends: nothing else changes.             *)
LEMMA Deafening ==
    ASSUME IInv, AcceptFails
    PROVE  IInv'
<1>1. TypeOK'
  BY DEF IInv, Tunnels, OneTunnel, TypeOK, AcceptFails, sessions, threads
<1>2. Tunnels'
  BY <1>1 DEF IInv, Tunnels, OneTunnel, OwnReport, Unstarted, LateReports,
         Beginning, Starting, AcceptFails, sessions, threads
<1>3. Ways'
  BY DEF IInv, Ways, NotYetOpen, SocketsOpen, StdinSpeaks, DirectivesReach,
         Served, Reachable, AcceptFails, sessions
<1> QED BY <1>2, <1>3 DEF IInv

LEMMA ClientSteps ==
    ASSUME IInv, NEW c \in Clients,
           (c \in Sockets /\ Connect(c)) \/ Ask(c) \/ ReplyAtOnce(c) \/ GiveUp(c)
    PROVE  IInv'
<1> client \in [Clients -> ClientRecord] /\ running \in BOOLEAN
  BY DEF IInv, Tunnels, OneTunnel, TypeOK, ClientRecord
<1>1. CASE (c \in Sockets /\ Connect(c)) \/ ReplyAtOnce(c) \/ GiveUp(c)
  BY <1>1, IdleClient, ChattingKeeps DEF Connect, ReplyAtOnce, GiveUp, Chatting
<1>2. CASE Ask(c)
  <2> DEFINE r == [client[c] EXCEPT !.at = "asking", !.saw_running = running]
  <2>1. r \in ClientRecord
    BY DEF ClientRecord
  <2>2. client' = [client EXCEPT ![c] = r]
    BY <1>2 DEF Ask
  <2> QED BY <1>2, <2>1, <2>2, ChattingKeeps DEF Ask, Chatting
<1> QED BY <1>1, <1>2

-----------------------------------------------------------------------------
(* Steps of a client that leave a message.                                 *)

(* A socket's client just goes; of stdin's the supervisor is told, behind  *)
(* all that stdin said.                                                    *)
LEMMA Hanging ==
    ASSUME IInv, NEW c \in Clients, Hangup(c)
    PROVE  IInv'
<1> client \in [Clients -> ClientRecord]
  BY DEF IInv, Tunnels, OneTunnel, TypeOK, ClientRecord
<1>1. /\ client' \in [Clients -> ClientRecord]
      /\ client[c].at = "idle" /\ client'[c].at = "off"
      /\ \A d \in Clients : d # c => client'[d] = client[d]
      /\ UNCHANGED <<supervisor, controls, requests, sessions, snapshot, threads>>
  <2> [client[c] EXCEPT !.at = "off"] \in ClientRecord
    BY DEF ClientRecord
  <2> QED BY DEF Hangup
<1>2. CASE c # Stdin
  BY <1>1, <1>2, ChattingKeeps DEF Hangup, Chatting
<1>3. CASE c = Stdin
  <2>1. Grown(StdinClosed)
    BY <1>3, Grows DEF Hangup, IInv, Tunnels, OneTunnel, Message
  <2>2. TypeOK'
    BY <1>1, <2>1 DEF IInv, Tunnels, OneTunnel, TypeOK, ClientRecord, Grown,
           controls, sessions, threads
  <2>3. Tunnels'
    BY <1>1, <2>1, <2>2 DEF IInv, Tunnels, OneTunnel, OwnReport, Unstarted,
           LateReports, Beginning, Starting, Grown, StdinClosed, controls,
           sessions, threads
  <2>4. Ways'
    <3> USE <1>1, <1>3, <2>1 DEF IInv, Ways, controls, sessions, Grown, StdinClosed
    <3>1. NotYetOpen' BY DEF NotYetOpen
    <3>2. SocketsOpen' BY SupervisorAssumption DEF SocketsOpen, Clients
    <3>3. StdinSpeaks' BY DEF StdinSpeaks
    <3>4. DirectivesReach' BY DEF DirectivesReach
    <3>5. Served' /\ Reachable' BY DEF Served, Reachable
    <3> QED BY <3>1, <3>2, <3>3, <3>4, <3>5
  <2> QED BY <2>3, <2>4 DEF IInv
<1> QED BY <1>2, <1>3

LEMMA Dispatching ==
    ASSUME IInv, NEW c \in Clients, dispatch(c)
    PROVE  IInv'
<1> client \in [Clients -> ClientRecord] /\ requests \in 0 .. MaxRequests
  BY DEF IInv, Tunnels, OneTunnel, TypeOK, ClientRecord
<1> USE SupervisorAssumption
<1>1. PICK action \in Asks(client[c].saw_running) :
         inbox' = Append(inbox, [kind |-> "directive", action |-> action,
                                 from |-> c, number |-> requests + 1])
  BY DEF dispatch
<1> DEFINE m == [kind |-> "directive", action |-> action, from |-> c,
                 number |-> requests + 1]
<1>2. m \in Directive /\ m \in Message /\ requests + 1 \in 1 .. MaxRequests
  BY DEF Directive, Message, Asks, Actions, dispatch
<1>3. /\ client' \in [Clients -> ClientRecord]
      /\ client[c].at = "asking"
      /\ \A d \in Clients : d # c => client'[d] = client[d]
      /\ UNCHANGED <<supervisor, controls, sessions, snapshot, threads>>
  BY <1>2 DEF dispatch, ClientRecord
<1>4. Grown(m)
  BY <1>1, <1>2, Grows DEF IInv, Tunnels, OneTunnel
<1>5. TypeOK'
  BY <1>2, <1>3, <1>4 DEF IInv, Tunnels, OneTunnel, TypeOK, ClientRecord, Grown,
         dispatch, controls, sessions, threads
<1>6. Tunnels'
  BY <1>3, <1>4, <1>5 DEF IInv, Tunnels, OneTunnel, OwnReport, Unstarted,
         LateReports, Beginning, Starting, Grown, controls, sessions, threads
<1>7. Ways'
  <2> USE <1>3, <1>4 DEF IInv, Ways, controls, sessions, Grown
  <2>1. NotYetOpen' BY DEF NotYetOpen
  <2>2. SocketsOpen' BY DEF SocketsOpen, Clients
  <2>3. StdinSpeaks' BY DEF StdinSpeaks, Clients
  <2>4. DirectivesReach' BY DEF DirectivesReach, StdinSpeaks, SocketsOpen, Clients
  <2>5. Served' /\ Reachable' BY DEF Served, Reachable
  <2> QED BY <2>1, <2>2, <2>3, <2>4, <2>5
<1> QED BY <1>6, <1>7 DEF IInv

-----------------------------------------------------------------------------
(* Steps of a session's threads: a host loop only moves on, towards its    *)
(* end; the gateway's part of the report is written from within the loop;  *)
(* a report of the end is left by a loop that is over.                     *)
Moving(g) ==
    /\ UNCHANGED untouched
    /\ worker' \in [Generations -> Places]
    /\ configurator' \in [Generations -> {"none", "waiting"}]
    /\ snapshot' \in 0 .. MaxSessions /\ told' = told
    /\ \A h \in Generations :
          /\ worker'[h] \in InLoop => worker[h] \in InLoop
          /\ worker[h] \in Over => worker'[h] \in Over
          /\ worker[h] = "none" => worker'[h] = "none"
    /\ snapshot' # snapshot =>
          snapshot' = g /\ worker[g] \in InLoop
    /\ \/ inbox' = inbox
       \/ Grown([kind |-> "ended", generation |-> g]) /\ worker'[g] \in Over

LEMMA MovingKeeps ==
    ASSUME IInv, NEW g \in Generations, Moving(g)
    PROVE  IInv'
<1> USE DEF Moving, untouched, controls, sessions
<1>1. TypeOK'
  BY DEF IInv, Tunnels, OneTunnel, TypeOK, Grown, Places
<1>2. OneTunnel' /\ OwnReport'
  BY <1>1 DEF IInv, Tunnels, OneTunnel, OwnReport, InLoop, Generations
<1>3. Unstarted' /\ Beginning' /\ Starting'
  BY SupervisorAssumption DEF IInv, Tunnels, OneTunnel, OwnReport, Unstarted,
         Beginning, Starting, InLoop, Generations, TypeOK
<1>4. LateReports'
  <2> SUFFICES ASSUME NEW i \in 1 .. Len(inbox'), inbox'[i].kind = "ended"
               PROVE  worker'[inbox'[i].generation] \in Over
    BY DEF LateReports
  <2>1. CASE i \in 1 .. Len(inbox) /\ inbox'[i] = inbox[i]
    <3>1. inbox[i] \in Message
      BY <2>1 DEF IInv, Tunnels, OneTunnel, TypeOK
    <3>2. inbox[i].generation \in Generations
      BY <2>1, <3>1, Kinds DEF Ended
    <3> QED BY <2>1, <3>2 DEF IInv, Tunnels, LateReports
  <2>2. CASE inbox'[i] = [kind |-> "ended", generation |-> g] /\ worker'[g] \in Over
    BY <2>2
  <2> QED BY <2>1, <2>2 DEF Grown
<1>5. Ways'
  <2> USE DEF IInv, Ways, Grown
  <2>1. NotYetOpen' BY DEF NotYetOpen
  <2>2. SocketsOpen' BY DEF SocketsOpen
  <2>3. StdinSpeaks' BY DEF StdinSpeaks
  <2>4. DirectivesReach'
    <3>1. CASE inbox' = inbox
      BY <3>1 DEF DirectivesReach
    <3>2. CASE Grown([kind |-> "ended", generation |-> g])
      <4>1. \A i \in 1 .. Len(inbox') :
               inbox'[i].kind = "directive" => i \in 1 .. Len(inbox)
        BY <3>2
      <4>2. \A i \in 1 .. Len(inbox) : \A j \in 1 .. i - 1 : inbox'[j] = inbox[j]
        BY <3>2
      <4>3. \A i \in 1 .. Len(inbox) : inbox'[i] = inbox[i]
        BY <3>2
      <4> QED BY <4>1, <4>2, <4>3 DEF DirectivesReach
    <3> QED BY <3>1, <3>2
  <2>5. Served' /\ Reachable' BY DEF Served, Reachable
  <2> QED BY <2>1, <2>2, <2>3, <2>4, <2>5
<1> QED BY <1>2, <1>3, <1>4, <1>5 DEF IInv, Tunnels

LEMMA SessionSteps ==
    ASSUME IInv, NEW g \in Generations,
           \/ OnVirtualIp(g) \/ OnFatal(g) \/ RunFails(g) \/ Working(g)
           \/ Unwinds(g) \/ Configure(g)
    PROVE  IInv'
<1> TypeOK
  BY DEF IInv, Tunnels, OneTunnel
<1> USE DEF TypeOK, Moving, InLoop, Over, Places, threads, Blank
<1>1. CASE OnVirtualIp(g)
  BY <1>1, MovingKeeps DEF OnVirtualIp, Generations
<1>2. CASE OnFatal(g)
  BY <1>2, MovingKeeps DEF OnFatal, Generations
<1>3. CASE RunFails(g)
  BY <1>3, MovingKeeps DEF RunFails
<1>6. CASE RunReturns(g)
  BY <1>6, MovingKeeps DEF RunReturns
<1>7. CASE DropHost(g)
  BY <1>7, MovingKeeps DEF DropHost
<1>4. CASE ReportEnd(g)
  <2>1. [kind |-> "ended", generation |-> g] \in Message
    BY DEF Message, Ended
  <2>2. Grown([kind |-> "ended", generation |-> g])
    BY <1>4, <2>1, Grows DEF ReportEnd
  <2> QED BY <1>4, <2>2, MovingKeeps DEF ReportEnd
<1>5. CASE Configure(g)
  BY <1>5, MovingKeeps DEF Configure, Generations
<1>8. CASE Unwinds(g)
  BY <1>8, MovingKeeps DEF Unwinds
<1> QED BY <1>1, <1>2, <1>3, <1>4, <1>5, <1>6, <1>7, <1>8 DEF Working

-----------------------------------------------------------------------------
(* Steps of the supervisor.                                                *)

(* An answer gives a mouth to nobody who has none.                         *)
LEMMA Responding ==
    ASSUME TypeOK, NEW directive, respond(directive)
    PROVE  /\ client' \in [Clients -> ClientRecord]
           /\ \A c \in Clients : client'[c].at # "off" => client[c].at # "off"
BY IdleClient DEF TypeOK, respond, ClientRecord

(* With one message taken from the inbox, what is said of the others       *)
(* stands.                                                                 *)
LEMMA ShrunkKeeps ==
    ASSUME IInv, Shrunk, inbox[1] # StdinClosed,
           client' \in [Clients -> ClientRecord],
           \A c \in Clients : client'[c].at # "off" => client[c].at # "off",
           UNCHANGED controls, supervisor.at = "recv",
           supervisor'.at \notin {"launch", "opening"}
    PROVE  /\ NotYetOpen' /\ SocketsOpen' /\ StdinSpeaks' /\ DirectivesReach'
           /\ inbox[1].kind # "stdinClosed"
<1> USE DEF IInv, Ways, controls, Shrunk
<1>1. inbox[1].kind # "stdinClosed"
  BY Kinds
<1>2. NotYetOpen' /\ SocketsOpen'
  BY DEF NotYetOpen, SocketsOpen, Clients
<1>3. StdinSpeaks'
  BY DEF StdinSpeaks, Clients
<1>4. DirectivesReach'
  <2> SUFFICES ASSUME NEW i \in 1 .. Len(inbox'), inbox'[i].kind = "directive"
               PROVE  IF inbox'[i].from = Stdin
                        THEN /\ stdin_open'
                             /\ \A j \in 1 .. i - 1 : inbox'[j].kind # "stdinClosed"
                        ELSE listener'
    BY DEF DirectivesReach
  <2>1. inbox'[i] = inbox[i + 1] /\ i + 1 \in 1 .. Len(inbox)
    OBVIOUS
  <2>2. \A j \in 1 .. i - 1 : inbox'[j] = inbox[j + 1] /\ j + 1 \in 1 .. (i + 1) - 1
    OBVIOUS
  <2> QED BY <2>1, <2>2 DEF DirectivesReach
<1> QED BY <1>1, <1>2, <1>3, <1>4

(* A start that is refused, and one that is begun.                         *)
LEMMA Refusing ==
    ASSUME IInv, RefuseStart
    PROVE  IInv'
<1>1. TypeOK /\ inbox # <<>> /\ supervisor.at = "recv" /\ Head(inbox).kind = "directive"
  BY DEF IInv, Tunnels, OneTunnel, RefuseStart, ReceivingDirective, Receiving
<1>2. Shrunk
  BY <1>1, Shrinks DEF RefuseStart, ReceivingDirective, Receiving
<1>3. /\ client' \in [Clients -> ClientRecord]
      /\ \A c \in Clients : client'[c].at # "off" => client[c].at # "off"
  BY <1>1, Responding DEF RefuseStart
<1>4. UNCHANGED <<supervisor, controls, requests, sessions, snapshot, threads>>
  BY DEF RefuseStart
<1> USE DEF controls, sessions, threads
<1>5. TypeOK'
  BY <1>1, <1>2, <1>3, <1>4 DEF TypeOK, ClientRecord, Shrunk
<1>6. Tunnels'
  BY <1>2, <1>4, <1>5 DEF IInv, Tunnels, OneTunnel, OwnReport, Unstarted,
         LateReports, Beginning, Starting, Shrunk
<1>7. Ways'
  BY <1>1, <1>2, <1>3, <1>4, ShrunkKeeps DEF IInv, Ways, Served, Reachable, Shrunk,
     StdinClosed
<1> QED BY <1>6, <1>7 DEF IInv

LEMMA StartBegins ==
    ASSUME IInv, Start
    PROVE  IInv'
<1>1. TypeOK /\ inbox # <<>> /\ supervisor.at = "recv" /\ Head(inbox).kind = "directive"
  BY DEF IInv, Tunnels, OneTunnel, Start, ReceivingDirective, Receiving
<1>2. Shrunk
  BY <1>1, Shrinks DEF Start, ReceivingDirective, Receiving
<1>3. /\ session = 0 /\ generation < MaxSessions /\ generation' = generation + 1
      /\ snapshot' = Blank /\ supervisor' = Serving("starting", inbox[1])
      /\ UNCHANGED <<controls, client, requests, session, running, threads>>
  BY <1>2 DEF Start, reset_snapshot, Shrunk
<1>4. inbox[1] \in Directive
  BY <1>1, <1>2, Kinds DEF Shrunk
<1> USE SupervisorAssumption DEF controls, sessions, threads
<1>5. TypeOK'
  BY <1>1, <1>2, <1>3, <1>4 DEF TypeOK, Shrunk, Serving, Blank
<1>6. Tunnels'
  <2>1. OneTunnel' /\ OwnReport'
    BY <1>3, <1>5 DEF IInv, Tunnels, OneTunnel, OwnReport
  <2>2. Unstarted' /\ Beginning' /\ Starting'
    BY <1>1, <1>3 DEF IInv, Tunnels, Unstarted, Beginning, Starting, Serving, TypeOK,
       Generations, Blank
  <2>3. LateReports'
    BY <1>2, <1>3 DEF IInv, Tunnels, LateReports, Shrunk
  <2> QED BY <2>1, <2>2, <2>3 DEF Tunnels
<1>7. Ways'
  <2>1. NotYetOpen' /\ SocketsOpen' /\ StdinSpeaks' /\ DirectivesReach'
    BY <1>1, <1>2, <1>3, ShrunkKeeps DEF Serving, Shrunk, StdinClosed, TypeOK, ClientRecord
  <2>2. stdin_open \/ listener
    BY <1>1, <1>2 DEF IInv, Ways, DirectivesReach, Shrunk
  <2>3. Served' /\ Reachable'
    BY <1>3, <1>4, <2>2 DEF Served, Reachable, Serving
  <2> QED BY <2>1, <2>3 DEF Ways
<1> QED BY <1>6, <1>7 DEF IInv

(* The session starts, or does not.  Of its generation nothing is in the   *)
(* inbox yet, and no other host loop runs.                                 *)
LEMMA StartEnds ==
    ASSUME IInv, Started
    PROVE  IInv'
<1> USE SupervisorAssumption DEF controls, sessions
<1>1. TypeOK /\ supervisor.at = "starting" /\ supervisor' = Free
  BY DEF IInv, Tunnels, OneTunnel, Started
<1>2. /\ session = 0 /\ generation \in Generations
      /\ worker[generation] = "none" /\ snapshot = 0
  BY <1>1 DEF IInv, Tunnels, Starting
<1>3. PICK started \in BOOLEAN :
         /\ spawn_session(generation, started)
         /\ session' = IF started THEN generation ELSE session
         /\ running' = (started \/ running)
  BY DEF Started
<1>4. /\ client' \in [Clients -> ClientRecord]
      /\ \A c \in Clients : client'[c].at # "off" => client[c].at # "off"
  BY <1>1, Responding DEF Started
<1>5. UNCHANGED <<inbox, controls, requests, generation, snapshot, told>>
  BY DEF Started
<1>6. /\ worker' \in [Generations -> Places]
      /\ worker'[generation] \in {"none", "run"}
      /\ worker'[generation] = "run" => started
      /\ \A g \in Generations : g # generation => worker'[g] = worker[g]
      /\ configurator' \in [Generations -> {"none", "waiting"}]
  BY <1>1, <1>2, <1>3 DEF spawn_session, TypeOK, Places
<1>7. TypeOK'
  BY <1>1, <1>2, <1>3, <1>4, <1>5, <1>6 DEF TypeOK, ClientRecord, Free, Serving,
     Generations
<1>8. OneTunnel' /\ OwnReport'
  BY <1>2, <1>3, <1>5, <1>6, <1>7 DEF IInv, Tunnels, OneTunnel, OwnReport,
     Generations
<1>9. Unstarted' /\ Beginning' /\ Starting'
  BY <1>1, <1>2, <1>5, <1>6 DEF IInv, Tunnels, Unstarted, Beginning, Starting, Free,
     Serving, Generations, TypeOK
<1>10. LateReports'
  <2>1. \A i \in 1 .. Len(inbox) : inbox[i].kind = "ended" =>
           inbox[i].generation \in Generations
    BY <1>1, Kinds DEF TypeOK, Ended
  <2> QED BY <1>2, <1>5, <1>6, <2>1 DEF IInv, Tunnels, LateReports, Over
<1>11. Ways'
  <2> USE <1>1, <1>4, <1>5 DEF IInv, Ways, Free, Serving
  <2>1. NotYetOpen' BY DEF NotYetOpen
  <2>2. SocketsOpen' BY DEF SocketsOpen, Clients
  <2>3. StdinSpeaks' BY DEF StdinSpeaks, Clients
  <2>4. DirectivesReach' BY DEF DirectivesReach
  <2>5. Served' /\ Reachable' BY DEF Served, Reachable
  <2> QED BY <2>1, <2>2, <2>3, <2>4, <2>5
<1> QED BY <1>8, <1>9, <1>10, <1>11 DEF IInv, Tunnels

LEMMA StopBegins ==
    ASSUME IInv, StopSession
    PROVE  IInv'
<1>1. TypeOK /\ inbox # <<>> /\ supervisor.at = "recv" /\ Head(inbox).kind = "directive"
  BY DEF IInv, Tunnels, OneTunnel, StopSession, ReceivingDirective, Receiving
<1>2. Shrunk
  BY <1>1, Shrinks DEF StopSession, ReceivingDirective, Receiving
<1>3. /\ supervisor' = Serving("joining", inbox[1])
      /\ told' = told \cup ({session} \ {0})
      /\ UNCHANGED <<controls, client, requests, sessions, snapshot, worker,
                     configurator>>
  BY <1>2 DEF StopSession, Stopping, Shrunk
<1>4. inbox[1] \in Directive
  BY <1>1, <1>2, Kinds DEF Shrunk
<1> USE SupervisorAssumption DEF controls, sessions
<1>5. TypeOK'
  BY <1>1, <1>2, <1>3, <1>4 DEF TypeOK, Shrunk, Serving, Generations
<1>6. Tunnels'
  BY <1>1, <1>2, <1>3, <1>5 DEF IInv, Tunnels, OneTunnel, OwnReport, Unstarted,
     LateReports, Beginning, Starting, Serving, Shrunk
<1>7. Ways'
  <2>1. NotYetOpen' /\ SocketsOpen' /\ StdinSpeaks' /\ DirectivesReach'
    BY <1>1, <1>2, <1>3, ShrunkKeeps DEF Serving, Shrunk, StdinClosed, TypeOK, ClientRecord
  <2>2. stdin_open \/ listener
    BY <1>1, <1>2 DEF IInv, Ways, DirectivesReach, Shrunk
  <2>3. Served' /\ Reachable'
    BY <1>3, <1>4, <2>2 DEF Served, Reachable, Serving
  <2> QED BY <2>1, <2>3 DEF Ways
<1> QED BY <1>6, <1>7 DEF IInv

(* The session is joined: its host loop, the only one that could run, is   *)
(* gone.                                                                   *)
LEMMA StopEnds ==
    ASSUME IInv, Stopped
    PROVE  IInv'
<1> USE SupervisorAssumption DEF controls, sessions
<1>1. /\ TypeOK /\ supervisor.at = "joining" /\ Joined /\ session' = 0
      /\ running' = FALSE
      /\ UNCHANGED <<inbox, controls, requests, generation, snapshot, threads>>
  BY DEF IInv, Tunnels, OneTunnel, Stopped
<1>2. supervisor' = Serving("closing", StdinClosed) \/ supervisor' = Free
  BY DEF Stopped
<1>3. /\ client' \in [Clients -> ClientRecord]
      /\ \A c \in Clients : client'[c].at # "off" => client[c].at # "off"
  BY <1>1, Responding DEF Stopped
<1>4. TypeOK'
  <2>1. supervisor' \in SupervisorRecord
    BY <1>2 DEF SupervisorRecord, Free, Serving
  <2>2. running' \in BOOLEAN
    BY <1>1, Zenon
  <2>3. session' \in 0 .. MaxSessions
    BY <1>1
  <2>4. UNCHANGED <<inbox, listener, stdin_open, requests, generation, snapshot, worker,
                    told, configurator>>
    BY <1>1 DEF threads
  <2> QED BY <1>1, <1>3, <2>1, <2>2, <2>3, <2>4 DEF TypeOK, ClientRecord, SupervisorRecord, Places
<1>5. \A g \in Generations : worker[g] \notin InLoop
  BY <1>1 DEF IInv, Tunnels, OneTunnel, Joined, InLoop, Generations
<1>6. Tunnels'
  BY <1>1, <1>2, <1>4, <1>5 DEF IInv, Tunnels, OneTunnel, OwnReport, Unstarted,
     LateReports, Beginning, Starting, Free, Serving, InLoop, threads
<1>7. Ways'
  <2> USE <1>1, <1>2, <1>3 DEF IInv, Ways, Free, Serving
  <2>1. NotYetOpen' BY DEF NotYetOpen
  <2>2. SocketsOpen' BY DEF SocketsOpen, Clients
  <2>3. StdinSpeaks' BY DEF StdinSpeaks, Clients
  <2>4. DirectivesReach' BY DEF DirectivesReach
  <2>5. Served' /\ Reachable' BY DEF Served, Reachable
  <2> QED BY <2>1, <2>2, <2>3, <2>4, <2>5
<1> QED BY <1>6, <1>7 DEF IInv

(* A report of an end.  Of the current generation it says that no host     *)
(* loop runs: the only one that could is that of the session held.         *)
LEMMA EndIsHeard ==
    ASSUME IInv, SessionEnded
    PROVE  IInv'
<1> USE SupervisorAssumption DEF controls, sessions
<1>1. TypeOK /\ inbox # <<>> /\ supervisor.at = "recv" /\ Head(inbox).kind = "ended"
  BY DEF IInv, Tunnels, OneTunnel, SessionEnded, Receiving
<1>2. Shrunk
  BY <1>1, Shrinks DEF SessionEnded, Receiving
<1>3. inbox[1] \in Ended /\ worker[inbox[1].generation] \in Over
  BY <1>1, <1>2, Kinds DEF Shrunk, IInv, Tunnels, LateReports
<1>4. /\ \/ /\ inbox[1].generation = generation /\ session' = 0 /\ running' = FALSE
            /\ supervisor' = Onward(stdin_open, FALSE)
         \/ UNCHANGED <<session, running, supervisor>>
      /\ UNCHANGED <<controls, client, requests, generation, snapshot, threads>>
  BY <1>2 DEF SessionEnded, IsCurrent, Shrunk
<1>5. /\ supervisor'.at \in {"recv", "closing"}
      /\ supervisor' \in SupervisorRecord
      /\ supervisor'.at = "recv" => Reachable'
  BY <1>1, <1>4 DEF SupervisorRecord, TypeOK, Onward, unreachable, Free, Serving, Reachable, IInv, Ways
<1>6. TypeOK'
  <2>1. session' \in 0 .. MaxSessions
    <3>1. session' = 0 \/ session' = session
      BY <1>4, Zenon
    <3> QED BY <1>1, <3>1 DEF TypeOK
  <2>2. running \in BOOLEAN /\ (running' = FALSE \/ running' = running)
    BY <1>1, <1>4, Zenon DEF TypeOK
  <2>3. running' \in BOOLEAN
    BY <2>2, Zenon
  <2> QED BY <1>1, <1>2, <1>4, <1>5, <2>1, <2>3
          DEF TypeOK, SupervisorRecord, Shrunk, threads
<1>7. Tunnels'
  <2>1. session' = 0 => \A g \in Generations : worker'[g] \notin InLoop
    <3> SUFFICES ASSUME session' = 0, NEW g \in Generations, worker[g] \in InLoop
                 PROVE  FALSE
      BY <1>4 DEF threads
    <3>1. session = g /\ session # 0 /\ generation = g
      BY DEF IInv, Tunnels, OneTunnel, OwnReport, InLoop, Generations
    <3>2. inbox[1].generation = generation
      BY <1>4, <3>1
    <3> QED BY <1>3, <3>1, <3>2 DEF InLoop, Over
  <2>2. OneTunnel' /\ OwnReport'
    BY <1>4, <1>6, <2>1 DEF IInv, Tunnels, OneTunnel, OwnReport, InLoop, threads
  <2>3. Unstarted' /\ Beginning' /\ Starting'
    BY <1>1, <1>4, <1>5 DEF IInv, Tunnels, Unstarted, Beginning, Starting, threads
  <2>4. LateReports'
    BY <1>2, <1>4 DEF IInv, Tunnels, LateReports, Shrunk, threads
  <2> QED BY <2>2, <2>3, <2>4 DEF Tunnels
<1>8. Ways'
  <2>1. client' \in [Clients -> ClientRecord] /\ inbox[1] # StdinClosed
    BY <1>1, <1>2, <1>4 DEF TypeOK, ClientRecord, Shrunk, StdinClosed
  <2>2. NotYetOpen' /\ SocketsOpen' /\ StdinSpeaks' /\ DirectivesReach'
    BY <1>1, <1>2, <1>4, <1>5, <2>1, ShrunkKeeps
  <2>3. Served' /\ Reachable'
    BY <1>5 DEF Served, Reachable
  <2> QED BY <2>2, <2>3 DEF Ways
<1> QED BY <1>7, <1>8 DEF IInv

(* The word that stdin closed.  No directive of stdin is behind it.        *)
LEMMA EndOfStdin ==
    ASSUME IInv, HearStdinClosed
    PROVE  IInv'
<1> USE SupervisorAssumption DEF controls, sessions
<1>1. /\ TypeOK /\ inbox # <<>> /\ supervisor.at = "recv"
      /\ Head(inbox).kind = "stdinClosed" /\ stdin_open' = FALSE
      /\ supervisor' = Onward(FALSE, session # 0)
      /\ UNCHANGED <<listener, deaf, client, requests, sessions, snapshot, threads>>
  BY DEF IInv, Tunnels, OneTunnel, HearStdinClosed, Receiving
<1>2. Shrunk
  BY <1>1, Shrinks DEF HearStdinClosed, Receiving
<1>3. /\ supervisor'.at \in {"recv", "closing"}
      /\ supervisor' \in SupervisorRecord
      /\ Reachable'
  BY <1>1 DEF SupervisorRecord, TypeOK, Onward, unreachable, Free, Serving, Reachable
<1>4. TypeOK'
  BY <1>1, <1>2, <1>3 DEF TypeOK, SupervisorRecord, Shrunk, threads
<1>5. Tunnels'
  <2>1. OneTunnel' /\ OwnReport'
    BY <1>1, <1>4 DEF IInv, Tunnels, OneTunnel, OwnReport, threads
  <2>2. Unstarted' /\ Beginning' /\ Starting'
    BY <1>1, <1>3 DEF IInv, Tunnels, Unstarted, Beginning, Starting, threads
  <2>3. LateReports'
    BY <1>1, <1>2 DEF IInv, Tunnels, LateReports, Shrunk, threads
  <2> QED BY <2>1, <2>2, <2>3 DEF Tunnels
<1>6. Ways'
  <2> USE <1>1, <1>2, <1>3 DEF IInv, Ways, Shrunk
  <2>1. NotYetOpen' /\ Served' BY DEF NotYetOpen, Served
  <2>2. SocketsOpen' BY DEF SocketsOpen
  <2>3. StdinSpeaks' BY DEF StdinSpeaks
  <2>4. DirectivesReach'
    <3>1. \A i \in 1 .. Len(inbox') : i + 1 \in 1 .. Len(inbox) /\ 1 \in 1 .. (i + 1) - 1
      OBVIOUS
    <3> QED BY <3>1 DEF DirectivesReach
  <2> QED BY <2>1, <2>2, <2>3, <2>4
<1> QED BY <1>5, <1>6 DEF IInv

-----------------------------------------------------------------------------
(* The beginning and the end of the process.                               *)

LEMMA Launching ==
    ASSUME IInv, launch
    PROVE  IInv'
<1> USE SupervisorAssumption DEF controls, sessions, threads
<1>1. /\ TypeOK /\ supervisor.at = "launch"
      /\ UNCHANGED <<inbox, controls, client, requests, snapshot>>
  BY DEF IInv, Tunnels, OneTunnel, launch
<1>2. /\ generation = 0 /\ session = 0 /\ snapshot = 0
      /\ \A g \in Generations : worker[g] = "none"
      /\ \A i \in 1 .. Len(inbox) : inbox[i].kind # "ended"
  <2>1. generation = 0 /\ session = 0 /\ snapshot = 0
    BY <1>1 DEF IInv, Tunnels, Beginning, OwnReport, TypeOK
  <2>2. \A g \in Generations : worker[g] = "none"
    BY <1>1, <2>1 DEF IInv, Tunnels, Unstarted, Generations
  <2>3. \A i \in 1 .. Len(inbox) : inbox[i] \in Message
    BY <1>1 DEF TypeOK
  <2> QED BY <2>1, <2>2, <2>3, Kinds DEF IInv, Tunnels, LateReports, Ended, Over
<1>3. Len(inbox) \notin Nat \ {0}
  BY <1>1, <1>2 DEF IInv, Ways, NotYetOpen
<1>4. Len(inbox) = 0
  BY <1>1, <1>3 DEF TypeOK
<1>5. CASE UNCHANGED <<sessions, threads>>
  <2>1. supervisor'.at \in {"opening", "done"}
        /\ supervisor'.directive = supervisor.directive
    BY <1>1, <1>5 DEF launch, TypeOK
  <2>2. TypeOK'
    BY <1>1, <1>5 DEF TypeOK, launch
  <2>3. Tunnels'
    BY <1>1, <1>2, <1>4, <1>5, <2>1, <2>2 DEF IInv, Tunnels, OneTunnel, OwnReport,
       Unstarted, LateReports, Beginning, Starting
  <2>4. Ways'
    BY <1>1, <1>4, <1>5, <2>1 DEF IInv, Ways, NotYetOpen, SocketsOpen, StdinSpeaks,
       DirectivesReach, Served, Reachable
  <2> QED BY <2>3, <2>4 DEF IInv
<1>6. ASSUME NEW started \in BOOLEAN,
             supervisor' = [supervisor EXCEPT !.at = "opening"],
             generation' = 1, spawn_session(1, started),
             session' = IF started THEN 1 ELSE 0, running' = started,
             told' = told, UNCHANGED controls
      PROVE  IInv'
  <2>1. supervisor'.at = "opening" /\ 1 \in Generations
    BY <1>1, <1>6 DEF TypeOK, Generations
  <2>2. /\ worker' \in [Generations -> Places]
        /\ worker'[1] \in {"none", "run"} /\ (worker'[1] = "run" => started)
        /\ \A g \in Generations : g # 1 => worker'[g] = worker[g]
        /\ configurator' \in [Generations -> {"none", "waiting"}]
    BY <1>1, <1>6, <2>1 DEF spawn_session, TypeOK, Places
  <2>3. TypeOK'
    <3>1. generation' \in 0 .. MaxSessions /\ session' \in 0 .. MaxSessions
      BY <1>6
    <3>2. supervisor' \in SupervisorRecord
      BY <1>1, <1>6 DEF TypeOK, SupervisorRecord
    <3> QED BY <1>1, <1>6, <2>2, <3>1, <3>2 DEF TypeOK, SupervisorRecord
  <2>4. Tunnels'
    BY <1>1, <1>2, <1>4, <1>6, <2>1, <2>2, <2>3 DEF Tunnels, OneTunnel, OwnReport,
       Unstarted, LateReports, Beginning, Starting, Generations
  <2>5. Ways'
    BY <1>1, <1>4, <1>6, <2>1 DEF IInv, Ways, NotYetOpen, SocketsOpen, StdinSpeaks,
       DirectivesReach, Served, Reachable
  <2> QED BY <2>4, <2>5 DEF IInv
<1> QED BY <1>1, <1>5, <1>6 DEF launch

LEMMA Opening ==
    ASSUME IInv, OpenControl
    PROVE  IInv'
<1> USE SupervisorAssumption DEF controls, sessions
<1>1. /\ TypeOK /\ supervisor.at = "opening" /\ supervisor' = Free
      /\ listener' \in BOOLEAN
      /\ UNCHANGED <<deaf, stdin_open, requests, sessions, snapshot, threads>>
  BY DEF IInv, Tunnels, OneTunnel, OpenControl
<1>2. /\ client' \in [Clients -> ClientRecord]
      /\ \A c \in Sockets : client'[c].at = "off"
      /\ client'[Stdin].at # "off" => inbox' = inbox
  <2>1. client \in [Clients -> ClientRecord] /\ Stdin \in Clients
    BY <1>1 DEF TypeOK, ClientRecord, Clients
  <2>2. \A c \in Clients : client[c].at = "off"
    BY <1>1 DEF IInv, Ways, NotYetOpen
  <2>3. CASE client' = [client EXCEPT ![Stdin] = Idle] /\ inbox' = inbox
    BY <2>1, <2>2, <2>3, IdleClient DEF Clients
  <2>4. CASE client' = client
    BY <2>1, <2>2, <2>4 DEF Clients
  <2> QED BY <2>3, <2>4 DEF OpenControl
<1>3. inbox' = inbox \/ Grown(StdinClosed)
  BY <1>1, Grows DEF OpenControl, Message
<1>4. TypeOK'
  BY <1>1, <1>2, <1>3 DEF TypeOK, ClientRecord, Free, Serving, Grown, threads
<1>5. Tunnels'
  BY <1>1, <1>3, <1>4 DEF IInv, Tunnels, OneTunnel, OwnReport, Unstarted, LateReports,
     Beginning, Starting, Free, Serving, Grown, StdinClosed, threads
<1>6. stdin_open /\ \A i \in 1 .. Len(inbox) : inbox[i].kind = "ended"
  BY <1>1 DEF IInv, Ways, NotYetOpen
<1>7. Ways'
  <2> USE <1>1, <1>2, <1>3, <1>6 DEF Ways, Free, Serving, Grown, StdinClosed
  <2>1. NotYetOpen' /\ Served' /\ Reachable' BY DEF NotYetOpen, Served, Reachable
  <2>2. SocketsOpen' BY DEF SocketsOpen
  <2>3. StdinSpeaks' BY DEF StdinSpeaks
  <2>4. DirectivesReach' BY DEF DirectivesReach
  <2> QED BY <2>1, <2>2, <2>3, <2>4
<1> QED BY <1>5, <1>7 DEF IInv

(* The end of the process, closed or aborted: nothing is left of it.       *)
LEMMA ProcessEnding ==
    ASSUME IInv, ProcessEnds
    PROVE  IInv'
<1> USE SupervisorAssumption
<1>1. TypeOK'
  <2>1. supervisor' \in SupervisorRecord
    BY DEF ProcessEnds, SupervisorRecord, Serving
  <2>2. client' \in [Clients -> ClientRecord]
    BY IdleClient DEF ProcessEnds
  <2>3. /\ worker' \in [Generations -> Places]
        /\ configurator' \in [Generations -> {"none", "waiting"}]
        /\ inbox' \in Seq(Message)
    BY DEF ProcessEnds, Places
  <2>4. UNCHANGED <<deaf, stdin_open, requests, generation>>
    BY DEF ProcessEnds
  <2>5. listener' = FALSE /\ running' = FALSE
    BY Zenon DEF ProcessEnds
  <2>6. session' \in 0 .. MaxSessions /\ snapshot' \in 0 .. MaxSessions
        /\ told' \subseteq Generations
    BY DEF ProcessEnds, Blank
  <2>7. listener' \in BOOLEAN /\ running' \in BOOLEAN
    BY <2>5, Zenon
  <2> QED BY <2>1, <2>2, <2>3, <2>4, <2>6, <2>7
          DEF IInv, Tunnels, OneTunnel, TypeOK, ClientRecord, SupervisorRecord,
              Places
<1>2. /\ supervisor'.at = "done" /\ Len(inbox') = 0 /\ session' = 0
      /\ \A c \in Clients : client'[c].at = "off"
      /\ \A g \in Generations : worker'[g] = "gone"
  BY IdleClient DEF ProcessEnds, Serving
<1>3. Tunnels'
  BY <1>1, <1>2 DEF Tunnels, OneTunnel, OwnReport, Unstarted, LateReports,
     Beginning, Starting
<1>4. Ways'
  BY <1>2 DEF Ways, NotYetOpen, SocketsOpen, StdinSpeaks, DirectivesReach, Served,
     Reachable, Clients
<1> QED BY <1>3, <1>4 DEF IInv

LEMMA Ending ==
    ASSUME IInv, Close \/ (\E g \in Generations : Aborts(g))
    PROVE  IInv'
BY ProcessEnding DEF Close, Aborts

-----------------------------------------------------------------------------
LEMMA InitSound == Init => IInv
<1> SUFFICES ASSUME Init PROVE IInv
  OBVIOUS
<1> USE SupervisorAssumption, IdleClient DEF Init
<1>1. TypeOK
  <2>1. supervisor \in SupervisorRecord
    BY DEF SupervisorRecord, Serving
  <2>2. client \in [Clients -> ClientRecord]
    OBVIOUS
  <2>3. snapshot \in 0 .. MaxSessions
    BY DEF Blank
  <2>4. /\ worker \in [Generations -> Places]
        /\ configurator \in [Generations -> {"none", "waiting"}]
        /\ inbox \in Seq(Message)
    BY DEF Places
  <2>5. requests \in 0 .. MaxRequests /\ session \in 0 .. MaxSessions
        /\ generation \in 0 .. MaxSessions
    OBVIOUS
  <2> QED BY <2>1, <2>2, <2>3, <2>4, <2>5 DEF TypeOK, SupervisorRecord, ClientRecord
<1>2. /\ supervisor.at = "launch" /\ Len(inbox) = 0
      /\ \A c \in Clients : client[c].at = "off"
  BY DEF Serving
<1>3. Tunnels
  BY <1>1, <1>2 DEF Tunnels, OneTunnel, OwnReport, Unstarted, LateReports, Beginning,
     Starting, Blank
<1>4. Ways
  BY <1>2 DEF Ways, NotYetOpen, SocketsOpen, StdinSpeaks, DirectivesReach, Served,
     Reachable, Clients
<1> QED BY <1>3, <1>4 DEF IInv

LEMMA NextSound == IInv /\ [Next]_vars => IInv'
<1> SUFFICES ASSUME IInv, [Next]_vars PROVE IInv'
  OBVIOUS
<1>1. CASE Supervising
  BY <1>1, Launching, Opening, Refusing, StartBegins, StartEnds, StopBegins, StopEnds,
     EndIsHeard, EndOfStdin, Ending DEF Supervising
<1>2. ASSUME NEW c \in Sockets, Connect(c) PROVE IInv'
  BY <1>2, ClientSteps DEF Clients
<1>3. ASSUME NEW c \in Clients,
             Hangup(c) \/ Ask(c) \/ ReplyAtOnce(c) \/ dispatch(c) \/ GiveUp(c)
      PROVE  IInv'
  BY <1>3, ClientSteps, Hanging, Dispatching
<1>4. ASSUME NEW g \in Generations,
             \/ OnVirtualIp(g) \/ OnFatal(g) \/ RunFails(g) \/ Working(g)
             \/ Aborts(g) \/ Unwinds(g) \/ Configure(g)
      PROVE  IInv'
  BY <1>4, SessionSteps, Ending
<1>6. CASE AcceptFails
  BY <1>6, Deafening
<1>5. CASE UNCHANGED vars
  BY <1>5 DEF vars, controls, sessions, threads, IInv, Tunnels, Ways, OneTunnel, TypeOK,
     OwnReport, Unstarted, LateReports, Beginning, Starting, NotYetOpen, SocketsOpen,
     StdinSpeaks, DirectivesReach, Served, Reachable
<1> QED BY <1>1, <1>2, <1>3, <1>4, <1>5, <1>6 DEF Next

LEMMA Invariant == Spec => []IInv
BY InitSound, NextSound, PTL DEF Spec

(* A host loop that runs is the session the supervisor holds, whatever     *)
(* clients ask and however late reports arrive (supervise, runtime.rs).    *)
THEOREM OneTunnelAtATime == Spec => []OneTunnel
<1>1. IInv => OneTunnel
  BY DEF IInv, Tunnels
<1> QED BY <1>1, Invariant, PTL

(* The session held is the newest and the gateway's part of the report is  *)
(* its own (reset_snapshot and the observer, runtime.rs).                  *)
THEOREM ReportIsOwn == Spec => []OwnReport
<1>1. IInv => OwnReport
  BY DEF IInv, Tunnels
<1> QED BY <1>1, Invariant, PTL

-----------------------------------------------------------------------------
(* Who can still send.  IInv says what the supervisor believes; that it is *)
(* right takes a second invariant: a session that is held reports, has     *)
(* reported, or panicked, and stdin's thread runs until its last word is   *)
(* in the inbox.                                                           *)

SessionVoice ==
    supervisor.at # "done" /\ session # 0 =>
       \/ worker[session] \in InLoop \cup {"panicked"}
       \/ \E i \in 1 .. Len(inbox) :
             inbox[i].kind = "ended" /\ inbox[i].generation = session
StdinVoice ==
    supervisor.at \notin {"launch", "opening", "done"} /\ stdin_open =>
       \/ client[Stdin].at # "off"
       \/ \E i \in 1 .. Len(inbox) : inbox[i].kind = "stdinClosed"
Voices == SessionVoice /\ StdinVoice

(* A step of a client, of a session's thread or of the thread that accepts *)
(* clients: who falls silent leaves a message, or panicked.                *)
Speaking(m) ==
    /\ inbox' = inbox \/ Grown(m)
    /\ UNCHANGED <<supervisor, session, stdin_open>>
    /\ session # 0 =>
          \/ worker'[session] = worker[session]
          \/ worker'[session] \in InLoop \cup {"panicked"}
          \/ worker[session] \notin InLoop \cup {"panicked"}
          \/ Grown(m) /\ m.kind = "ended" /\ m.generation = session
    /\ client'[Stdin].at = "off" =>
          \/ client[Stdin].at = "off"
          \/ Grown(m) /\ m.kind = "stdinClosed"

LEMMA SpeakingKeeps ==
    ASSUME Voices, TypeOK, NEW m, Speaking(m)
    PROVE  Voices'
<1>1. \A i \in 1 .. Len(inbox) : i \in 1 .. Len(inbox') /\ inbox'[i] = inbox[i]
  BY DEF Speaking, Grown
<1>2. Grown(m) => \E i \in 1 .. Len(inbox') : inbox'[i] = m
  BY DEF Grown
<1>3. SessionVoice'
  BY <1>1, <1>2 DEF Voices, SessionVoice, Speaking
<1>4. StdinVoice'
  BY <1>1, <1>2 DEF Voices, StdinVoice, Speaking
<1> QED BY <1>3, <1>4 DEF Voices

LEMMA ClientVoices ==
    ASSUME Voices, TypeOK, NEW c \in Clients,
           \/ c \in Sockets /\ Connect(c)
           \/ Hangup(c) \/ Ask(c) \/ ReplyAtOnce(c) \/ dispatch(c) \/ GiveUp(c)
    PROVE  Voices'
<1>1. client \in [Clients -> ClientRecord]
  BY DEF TypeOK, ClientRecord
<1> USE SupervisorAssumption DEF sessions, controls, threads
<1>2. CASE c = Stdin /\ Hangup(c)
  <2>1. Grown(StdinClosed)
    BY <1>2, Grows DEF Hangup, Message
  <2>2. Speaking(StdinClosed)
    BY <1>2, <2>1 DEF Speaking, Hangup, StdinClosed
  <2> QED BY <2>2, SpeakingKeeps
<1>3. CASE dispatch(c)
  <2>1. PICK action \in Asks(client[c].saw_running) :
           inbox' = Append(inbox, [kind |-> "directive", action |-> action,
                                   from |-> c, number |-> requests + 1])
    BY <1>3 DEF dispatch
  <2> DEFINE m == [kind |-> "directive", action |-> action, from |-> c,
                   number |-> requests + 1]
  <2>2. requests \in 0 .. MaxRequests /\ requests < MaxRequests
    BY <1>3 DEF TypeOK, dispatch
  <2>3. m \in Message
    BY <2>2 DEF Directive, Message, Asks, Actions
  <2>4. Grown(m)
    BY <2>1, <2>3, Grows
  <2>5. client'[Stdin].at = "off" => client[Stdin].at = "off"
    BY <1>1, <1>3 DEF dispatch, Clients
  <2>6. Speaking(m)
    BY <1>3, <2>4, <2>5 DEF Speaking, dispatch
  <2> QED BY <2>6, SpeakingKeeps
<1>4. ASSUME inbox' = inbox, client'[Stdin].at = "off" => client[Stdin].at = "off",
             UNCHANGED <<supervisor, session, stdin_open, worker>>
      PROVE  Voices'
  <2>1. Speaking(StdinClosed)
    BY <1>4 DEF Speaking
  <2> QED BY <2>1, SpeakingKeeps
<1>5. CASE c # Stdin /\ Hangup(c)
  <2>1. client'[Stdin] = client[Stdin] /\ inbox' = inbox
    BY <1>1, <1>5 DEF Hangup, Clients
  <2> QED BY <1>4, <1>5, <2>1 DEF Hangup
<1>6. CASE c \in Sockets /\ Connect(c)
  <2>1. client'[Stdin] = client[Stdin]
    BY <1>1, <1>6 DEF Connect, Clients
  <2> QED BY <1>4, <1>6, <2>1 DEF Connect
<1>7. CASE Ask(c) \/ ReplyAtOnce(c) \/ GiveUp(c)
  <2>1. client'[Stdin].at = "off" => client[Stdin].at = "off"
    BY <1>1, <1>7, IdleClient DEF Ask, ReplyAtOnce, GiveUp, Clients, ClientRecord
  <2> QED BY <1>4, <1>7, <2>1 DEF Ask, ReplyAtOnce, GiveUp
<1> QED BY <1>2, <1>3, <1>5, <1>6, <1>7

LEMMA SessionVoices ==
    ASSUME Voices, TypeOK, NEW g \in Generations,
           \/ OnVirtualIp(g) \/ OnFatal(g) \/ RunFails(g) \/ Working(g)
           \/ Unwinds(g) \/ Configure(g)
    PROVE  Voices'
<1> DEFINE m == [kind |-> "ended", generation |-> g]
<1>1. m \in Message
  BY DEF Message, Ended
<1>2. session \in 0 .. MaxSessions /\ worker \in [Generations -> Places]
  BY DEF TypeOK, Places
<1>3. session # 0 => session \in Generations
  BY <1>2, SupervisorAssumption DEF Generations
<1> USE DEF untouched, sessions, controls, threads
<1>4. CASE ReportEnd(g)
  <2>1. Grown(m)
    BY <1>1, <1>4, Grows DEF ReportEnd
  <2>2. Speaking(m)
    BY <1>2, <1>3, <1>4, <2>1 DEF Speaking, ReportEnd
  <2> QED BY <2>2, SpeakingKeeps
<1>5. CASE OnVirtualIp(g) \/ Configure(g)
  <2>1. Speaking(m)
    BY <1>5 DEF Speaking, OnVirtualIp, Configure
  <2> QED BY <2>1, SpeakingKeeps
<1>6. CASE OnFatal(g) \/ RunFails(g) \/ RunReturns(g) \/ DropHost(g) \/ Unwinds(g)
  <2>1. Speaking(m)
    BY <1>2, <1>3, <1>6 DEF Speaking, OnFatal, RunFails, RunReturns, DropHost,
       Unwinds, InLoop
  <2> QED BY <2>1, SpeakingKeeps
<1> QED BY <1>4, <1>5, <1>6 DEF Working

(* A message is served: what it said is known to the supervisor.           *)
LEMMA ServingKeeps ==
    ASSUME Voices, TypeOK, Shrunk, supervisor.at = "recv",
           worker' = worker, session' \in {session, 0},
           session' # 0 => inbox[1].kind # "ended"
                             \/ inbox[1].generation # session,
           stdin_open' => stdin_open /\ inbox[1].kind # "stdinClosed",
           client'[Stdin].at = "off" => client[Stdin].at = "off"
    PROVE  Voices'
<1>1. \A i \in 1 .. Len(inbox) :
         i # 1 => i - 1 \in 1 .. Len(inbox') /\ inbox'[i - 1] = inbox[i]
  BY DEF Shrunk
<1>2. SessionVoice'
  BY <1>1 DEF Voices, SessionVoice
<1>3. StdinVoice'
  BY <1>1 DEF Voices, StdinVoice
<1> QED BY <1>2, <1>3 DEF Voices

(* An answer silences nobody.                                              *)
LEMMA RespondingKeeps ==
    ASSUME TypeOK, NEW directive, respond(directive)
    PROVE  client'[Stdin].at = "off" => client[Stdin].at = "off"
BY IdleClient DEF TypeOK, respond, Clients

LEMMA ServedVoices ==
    ASSUME IInv, Voices,
           \/ RefuseStart \/ Start \/ StopSession \/ SessionEnded
           \/ HearStdinClosed
    PROVE  Voices'
<1>1. TypeOK /\ supervisor.at = "recv" /\ inbox # <<>> /\ inbox' = Tail(inbox)
  BY DEF IInv, Tunnels, OneTunnel, RefuseStart, Start, StopSession, SessionEnded,
     HearStdinClosed, ReceivingDirective, Receiving
<1>2. Shrunk
  BY <1>1, Shrinks
<1>3. Head(inbox) = inbox[1]
  BY <1>2 DEF Shrunk
<1> USE DEF sessions, controls, threads, ReceivingDirective, Receiving
<1>4. CASE RefuseStart
  <2>1. client'[Stdin].at = "off" => client[Stdin].at = "off"
    BY <1>1, <1>4, RespondingKeeps DEF RefuseStart
  <2>2. inbox[1].kind = "directive"
    BY <1>3, <1>4 DEF RefuseStart
  <2> QED BY <1>1, <1>2, <1>4, <2>1, <2>2, ServingKeeps DEF RefuseStart
<1>5. CASE Start
  <2>1. inbox[1].kind = "directive"
    BY <1>3, <1>5 DEF Start
  <2> QED BY <1>1, <1>2, <1>5, <2>1, ServingKeeps DEF Start
<1>6. CASE StopSession
  <2>1. inbox[1].kind = "directive"
    BY <1>3, <1>6 DEF StopSession
  <2> QED BY <1>1, <1>2, <1>6, <2>1, ServingKeeps DEF StopSession
<1>7. CASE SessionEnded
  <2>1. inbox[1].kind = "ended"
    BY <1>3, <1>7 DEF SessionEnded
  <2>2. \/ session' = 0
        \/ session' = session /\ inbox[1].generation # generation
    BY <1>3, <1>7 DEF SessionEnded, IsCurrent
  <2>3. session # 0 => session = generation
    BY DEF IInv, Tunnels, OwnReport
  <2>4. session' # 0 => session' = session /\ inbox[1].generation # session
    BY <2>2, <2>3
  <2> QED BY <1>1, <1>2, <1>7, <2>1, <2>2, <2>4, ServingKeeps DEF SessionEnded
<1>8. CASE HearStdinClosed
  <2>1. inbox[1].kind = "stdinClosed"
    BY <1>3, <1>8 DEF HearStdinClosed
  <2> QED BY <1>1, <1>2, <1>8, <2>1, ServingKeeps DEF HearStdinClosed
<1> QED BY <1>4, <1>5, <1>6, <1>7, <1>8

(* The beginning and the end, and a session started or joined.             *)
LEMMA OtherVoices ==
    ASSUME IInv, Voices,
           \/ launch \/ OpenControl \/ Started \/ Stopped \/ ProcessEnds
           \/ AcceptFails
    PROVE  Voices'
<1>1. TypeOK
  BY DEF IInv, Tunnels, OneTunnel
<1> USE DEF sessions, controls, threads
<1>2. CASE launch
  <2>1. supervisor'.at \in {"opening", "done"}
    BY <1>1, <1>2 DEF launch, TypeOK
  <2>2. generation = 0 /\ session = 0
    BY <1>1, <1>2 DEF IInv, Tunnels, Beginning, OwnReport, launch, TypeOK
  <2>3. session' # 0 => worker'[session'] = "run"
    <3>1. ASSUME NEW started \in BOOLEAN, spawn_session(1, started),
                 session' = IF started THEN 1 ELSE 0
          PROVE  session' # 0 => worker'[session'] = "run"
      BY <1>1, <3>1, SupervisorAssumption DEF spawn_session, TypeOK, Generations
    <3> QED BY <1>2, <2>2, <3>1 DEF launch
  <2> QED BY <2>1, <2>3 DEF Voices, SessionVoice, StdinVoice, InLoop
<1>3. CASE OpenControl
  <2>1. inbox' = inbox \/ Grown(StdinClosed)
    BY <1>1, <1>3, Grows DEF OpenControl, Message
  <2>2. \A i \in 1 .. Len(inbox) : i \in 1 .. Len(inbox') /\ inbox'[i] = inbox[i]
    BY <2>1 DEF Grown
  <2>3. \/ client'[Stdin].at # "off"
        \/ \E i \in 1 .. Len(inbox') : inbox'[i].kind = "stdinClosed"
    <3>1. CASE client' = [client EXCEPT ![Stdin] = Idle]
      BY <1>1, <3>1, IdleClient DEF TypeOK, Clients
    <3>2. CASE inbox' = Append(inbox, StdinClosed)
      <4>1. Grown(StdinClosed)
        BY <1>1, <3>2, Grows DEF Message
      <4> QED BY <4>1 DEF Grown, StdinClosed
    <3> QED BY <1>3, <3>1, <3>2 DEF OpenControl
  <2>4. SessionVoice'
    BY <1>3, <2>2 DEF Voices, SessionVoice, OpenControl
  <2> QED BY <2>3, <2>4 DEF Voices, StdinVoice
<1>4. CASE Started \/ Stopped
  <2>1. client'[Stdin].at = "off" => client[Stdin].at = "off"
    BY <1>1, <1>4, RespondingKeeps DEF Started, Stopped
  <2>2. supervisor.at \in {"starting", "joining"} /\ UNCHANGED <<inbox, stdin_open>>
    BY <1>4 DEF Started, Stopped
  <2>3. session' # 0 => worker'[session'] = "run"
    <3>1. CASE Stopped
      BY <3>1 DEF Stopped
    <3>2. CASE Started
      BY <1>1, <3>2 DEF Started, IInv, Tunnels, Starting, spawn_session, TypeOK
    <3> QED BY <1>4, <3>1, <3>2
  <2> QED BY <2>1, <2>2, <2>3 DEF Voices, SessionVoice, StdinVoice, InLoop
<1>5. CASE ProcessEnds
  BY <1>5 DEF ProcessEnds, Serving, Voices, SessionVoice, StdinVoice
<1>6. CASE AcceptFails
  BY <1>6 DEF AcceptFails, Voices, SessionVoice, StdinVoice
<1> QED BY <1>2, <1>3, <1>4, <1>5, <1>6

LEMMA VoicesInvariant == Spec => []Voices
<1>1. Init => Voices
  BY DEF Init, Serving, Voices, SessionVoice, StdinVoice
<1>2. ASSUME IInv, Voices, [Next]_vars PROVE Voices'
  <2>1. TypeOK
    BY <1>2 DEF IInv, Tunnels, OneTunnel
  <2>2. CASE Supervising
    BY <1>2, <2>2, ServedVoices, OtherVoices DEF Supervising, Close
  <2>3. CASE AcceptFails
    BY <1>2, <2>3, OtherVoices
  <2>4. ASSUME NEW c \in Clients,
               \/ c \in Sockets /\ Connect(c)
               \/ Hangup(c) \/ Ask(c) \/ ReplyAtOnce(c) \/ dispatch(c)
               \/ GiveUp(c)
        PROVE  Voices'
    BY <1>2, <2>1, <2>4, ClientVoices
  <2>5. ASSUME NEW g \in Generations,
               \/ OnVirtualIp(g) \/ OnFatal(g) \/ RunFails(g) \/ Working(g)
               \/ Unwinds(g) \/ Configure(g)
        PROVE  Voices'
    BY <1>2, <2>1, <2>5, SessionVoices
  <2>6. CASE \E g \in Generations : Aborts(g)
    BY <1>2, <2>6, OtherVoices DEF Aborts
  <2>7. CASE UNCHANGED vars
    BY <1>2, <2>7 DEF vars, Voices, SessionVoice, StdinVoice
  <2> QED BY <1>2, <2>2, <2>3, <2>4, <2>5, <2>6, <2>7 DEF Next, Clients
<1>3. IInv /\ Voices /\ [Next]_vars => Voices'
  BY <1>2
<1> QED BY <1>1, <1>3, Invariant, PTL DEF Spec

(* In a build whose panics abort, no session is held whose loop panicked.  *)
LEMMA NobodyPanicked ==
    ASSUME "unwind" \notin Panics
    PROVE  Spec => []~LoopPanicked
<1> DEFINE Sane == \A g \in Generations : worker[g] # "panicked"
<1>1. Init => Sane
  BY DEF Init
<1>2. ASSUME IInv, Sane, [Next]_vars PROVE Sane'
  <2>1. worker \in [Generations -> Places] /\ generation \in 0 .. MaxSessions
    BY <1>2 DEF IInv, Tunnels, OneTunnel, TypeOK, Places
  <2>2. CASE Supervising
    BY <1>2, <2>1, <2>2 DEF Supervising, launch, OpenControl, RefuseStart, Start,
       Started, StopSession, Stopped, SessionEnded, HearStdinClosed, Close,
       ProcessEnds, threads, spawn_session
  <2>3. CASE AcceptFails \/ UNCHANGED vars
    BY <1>2, <2>3 DEF AcceptFails, vars, threads
  <2>4. ASSUME NEW c \in Clients,
               \/ Connect(c) \/ Hangup(c) \/ Ask(c) \/ ReplyAtOnce(c)
               \/ dispatch(c) \/ GiveUp(c)
        PROVE  Sane'
    BY <1>2, <2>4 DEF Connect, Hangup, Ask, ReplyAtOnce, dispatch, GiveUp, threads
  <2>5. ASSUME NEW g \in Generations,
               \/ OnVirtualIp(g) \/ OnFatal(g) \/ RunFails(g) \/ Working(g)
               \/ Aborts(g) \/ Unwinds(g) \/ Configure(g)
        PROVE  Sane'
    BY <1>2, <2>1, <2>5 DEF OnVirtualIp, OnFatal, RunFails, Working, RunReturns,
       ReportEnd, DropHost, Aborts, Unwinds, Configure, ProcessEnds, threads
  <2> QED BY <1>2, <2>2, <2>3, <2>4, <2>5 DEF Next, Clients
<1>3. IInv /\ Sane /\ [Next]_vars => Sane'
  BY <1>2
<1>4. IInv /\ Sane => ~LoopPanicked
  BY SupervisorAssumption
     DEF IInv, Tunnels, OneTunnel, TypeOK, LoopPanicked, Generations
<1> QED BY <1>1, <1>3, <1>4, Invariant, PTL DEF Spec

(* Whatever order stdin, the socket and the session go in, the supervisor  *)
(* waits for messages only while a thread is there to send one: stdin's,   *)
(* one that accepts or serves clients, or a host loop that will report.    *)
(* What it cannot see is named: accept failed, or the loop panicked in a   *)
(* build that unwinds (supervise and spawn_session, runtime.rs).           *)
THEOREM SomebodyCanReach == Spec => []NeverUnreachable
<1>1. IInv /\ Voices => NeverUnreachable
  <2> SUFFICES ASSUME IInv, Voices, supervisor.at = "recv", inbox = <<>>
               PROVE  \/ StdinCanSend \/ SocketCanSend \/ SessionCanSend
                      \/ AcceptingOver \/ LoopPanicked
    BY DEF NeverUnreachable
  <2>1. stdin_open \/ listener \/ session # 0
    BY DEF IInv, Ways, Reachable
  <2>2. \A i \in 1 .. Len(inbox) : FALSE
    OBVIOUS
  <2>3. stdin_open => StdinCanSend
    BY <2>2 DEF Voices, StdinVoice, StdinCanSend
  <2>4. session # 0 => SessionCanSend \/ LoopPanicked
    BY <2>2 DEF Voices, SessionVoice, SessionCanSend, LoopPanicked, InLoop
  <2>5. listener => SocketCanSend \/ AcceptingOver
    BY DEF SocketCanSend, AcceptingOver
  <2> QED BY <2>1, <2>3, <2>4, <2>5
<1> QED BY <1>1, Invariant, VoicesInvariant, PTL

(* In the release build, where a panic ends the process, the only thing    *)
(* the supervisor waits behind in vain is a socket that accepts no more    *)
(* (rust/Cargo.toml, transport.rs).                                        *)
THEOREM ReleaseCanBeReached ==
    ASSUME "unwind" \notin Panics
    PROVE  Spec => [](supervisor.at = "recv" /\ inbox = <<>> =>
                         \/ StdinCanSend \/ SocketCanSend \/ SessionCanSend
                         \/ AcceptingOver)
<1>1. NeverUnreachable /\ ~LoopPanicked =>
         (supervisor.at = "recv" /\ inbox = <<>> =>
             \/ StdinCanSend \/ SocketCanSend \/ SessionCanSend
             \/ AcceptingOver)
  BY DEF NeverUnreachable
<1> QED BY <1>1, SomebodyCanReach, NobodyPanicked, PTL
=============================================================================
