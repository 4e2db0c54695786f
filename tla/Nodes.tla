------------------------------- MODULE Nodes --------------------------------
(***************************************************************************)
(* The L3 node connections of the data plane: the node half of             *)
(* rust/sangfor-core/src/plane.rs, with the channels the host              *)
(* (rust/sangfor-host/src/host.rs) keeps for them.  A node goes from the   *)
(* dial through the gateway's handshake to Active, is kept alive by        *)
(* heartbeats, and is replaced by a new one some time after it dropped.    *)
(*                                                                         *)
(* `nodes' is the code's vector: it only grows, and connection ids are     *)
(* handed out in order, so a node's id is its index.  What flows do to a   *)
(* node is that they write on it (FlowAuth.tla has the flows).  A timer    *)
(* that is armed may fire at any moment.  One tick runs the timers of all  *)
(* nodes in order; a node's timers touch that node and may push a new one, *)
(* so a tick is the same as the steps of the nodes whose timers are due.   *)
(***************************************************************************)
EXTENDS Naturals, Sequences, FiniteSets

CONSTANTS
    Groups,          \* node groups of the session plan
    Major,           \* major_node_group
    MissLimit,       \* heartbeat_miss_limit
    MaxConnections   \* bound: node connections of one session

ASSUME NodesAssumption ==
    /\ Major \in Groups
    /\ MissLimit \in Nat /\ MaxConnections \in Nat \ {0}

VARIABLES
    nodes,     \* the node connections, by id
    channel,   \* id -> the host's channel
    gateway,   \* id -> what the gateway's end of the channel has done
    running    \* the session is neither closed nor failed

vars == <<nodes, channel, gateway, running>>

Ids == 1 .. MaxConnections
NodeState == {"Dialing", "Handshaking", "Active", "WaitingRetry", "Closed"}
Node == [group : Groups, state : NodeState, misses : 0 .. MissLimit,
         wrote : BOOLEAN]

(* History of one connection: heartbeat timers run since the gateway was   *)
(* last heard or written to; whether the frame decoder has met a byte it   *)
(* cannot get past; whether the handshake failed as malformed.             *)
Peer == [idle : 0 .. MissLimit + 2, garbled : BOOLEAN, refused : BOOLEAN]

Min2(a, b) == IF a <= b THEN a ELSE b
OneMore(n) == Min2(n + 1, MissLimit + 2)

-----------------------------------------------------------------------------
First(S) == CHOOSE i \in S : \A j \in S : i <= j
OfGroup(ns, g) == {i \in DOMAIN ns : ns[i].group = g}
NotClosed(ns, g) == {i \in OfGroup(ns, g) : ns[i].state # "Closed"}
ActiveIn(g) == {i \in OfGroup(nodes, g) : nodes[i].state = "Active"}

(* open_node dials unless the first node of the group that is not closed   *)
(* is on its way or up.                                                    *)
MayOpen(ns, g) ==
    NotClosed(ns, g) # {} => ns[First(NotClosed(ns, g))].state = "WaitingRetry"

(* Given the other changes to the nodes, open one for the group or not.    *)
open_node(ns, g) ==
    IF ~MayOpen(ns, g) THEN nodes' = ns /\ UNCHANGED channel
    ELSE /\ Len(ns) < MaxConnections
         /\ nodes' = Append(ns, [group |-> g, state |-> "Dialing",
                                 misses |-> 0, wrote |-> FALSE])
         /\ channel' = [channel EXCEPT ![Len(ns) + 1] = "connecting"]

Enter(i, state) == [nodes EXCEPT ![i].state = state]
Fresh == [idle |-> 0, garbled |-> FALSE, refused |-> FALSE]
Forget(i) == gateway' = [gateway EXCEPT ![i] = Fresh]

Init ==
    /\ nodes = <<[group |-> Major, state |-> "Dialing", misses |-> 0,
                  wrote |-> FALSE]>>
    /\ channel = [i \in Ids |-> IF i = 1 THEN "connecting" ELSE "none"]
    /\ gateway = [i \in Ids |-> Fresh]
    /\ running = TRUE

(* The plane writes on a node: a packet, an auth request, a flush.         *)
Wrote(i) == /\ nodes' = [nodes EXCEPT ![i].wrote = TRUE]
            /\ gateway' = [gateway EXCEPT ![i].idle = 0]

(* A packet for a group: on the group's first active node, else on the     *)
(* major group's, else it is dropped and the group is dialed.              *)
handle_egress(g) ==
    LET up == IF ActiveIn(g) # {} THEN ActiveIn(g) ELSE ActiveIn(Major)
    IN  /\ running
        /\ IF up # {}
           THEN /\ \/ Wrote(First(up))
                   \/ UNCHANGED <<nodes, gateway>>
                /\ UNCHANGED channel
           ELSE open_node(nodes, g) /\ UNCHANGED gateway
        /\ UNCHANGED running

(* An auth scan, or an answer to it, writes on an active node as well.     *)
FlowsWrite(i) == /\ running /\ nodes[i].state = "Active" /\ Wrote(i)
                 /\ UNCHANGED <<channel, running>>

(* The connect worker succeeds: the handshake starts with a write.         *)
on_node_connected(i) ==
    /\ running /\ channel[i] = "connecting" /\ nodes[i].state = "Dialing"
    /\ nodes' = [nodes EXCEPT ![i].state = "Handshaking", ![i].wrote = TRUE]
    /\ channel' = [channel EXCEPT ![i] = "open"]
    /\ UNCHANGED <<gateway, running>>

(* It fails, is refused for too many connects, or the poller refuses it.   *)
on_node_failed(i) ==
    /\ running /\ channel[i] = "connecting"
    /\ nodes' = Enter(i, "WaitingRetry")
    /\ channel' = [channel EXCEPT ![i] = "closed"]
    /\ UNCHANGED <<gateway, running>>

on_node_closed(i) ==
    /\ running /\ channel[i] = "open"
    /\ nodes' = Enter(i, "WaitingRetry")
    /\ channel' = [channel EXCEPT ![i] = "closed"]
    /\ Forget(i) /\ UNCHANGED running

(* Tear-down of the session: every node is forgotten, every channel goes.  *)
Stopped == /\ running' = FALSE /\ nodes' = <<>>
           /\ channel' = [i \in Ids |->
                 IF channel[i] = "open" THEN "closed" ELSE channel[i]]
           /\ gateway' = [i \in Ids |-> Fresh]

consume_handshake(i) ==
    /\ running /\ channel[i] = "open" /\ nodes[i].state = "Handshaking"
    /\ \/ /\ nodes' = Enter(i, "Active")
          /\ UNCHANGED <<channel, gateway, running>>
       \/ /\ nodes' = Enter(i, "Closed")
          /\ channel' = [channel EXCEPT ![i] = "closed"]
          /\ gateway' = [gateway EXCEPT ![i].refused = TRUE]
          /\ UNCHANGED running
       \/ Stopped

(* A heartbeat's answer, if the decoder still gets that far; or a byte     *)
(* that is no frame, which the decoder keeps at the head of its buffer.    *)
consume_frames(i) ==
    /\ running /\ channel[i] = "open" /\ nodes[i].state = "Active"
    /\ ~gateway[i].garbled
    /\ \/ /\ nodes' = [nodes EXCEPT ![i].misses = 0]
          /\ gateway' = [gateway EXCEPT ![i].idle = 0]
       \/ /\ gateway' = [gateway EXCEPT ![i].garbled = TRUE]
          /\ UNCHANGED nodes
    /\ UNCHANGED <<channel, running>>

(* run_node_timers, one node state at a time.                              *)
RetryDue_closing(i) ==  \* mutant: closes the old node, dials no new one
    /\ running /\ nodes[i].state = "WaitingRetry"
    /\ nodes' = Enter(i, "Closed")
    /\ UNCHANGED <<channel, gateway, running>>
RetryDue(i) ==
    /\ running /\ nodes[i].state = "WaitingRetry"
    /\ open_node(Enter(i, "Closed"), nodes[i].group)
    /\ UNCHANGED <<gateway, running>>

HandshakeDue_leaking(i) ==  \* mutant: CloseNode is not sent
    /\ running /\ nodes[i].state = "Handshaking"
    /\ nodes' = Enter(i, "WaitingRetry")
    /\ UNCHANGED <<channel, gateway, running>>
HandshakeDue_unarmed(i) == FALSE  \* mutant: no deadline is set
HandshakeDue(i) ==
    /\ running /\ nodes[i].state = "Handshaking"
    /\ nodes' = Enter(i, "WaitingRetry")
    /\ channel' = [channel EXCEPT ![i] = "closed"]
    /\ UNCHANGED <<gateway, running>>

(* A heartbeat: nothing after a write, one more miss, or the node is dead. *)
TooManyMisses_late(n) == n.misses > MissLimit  \* mutant: one too many
TooManyMisses(n) == n.misses >= MissLimit

Missed(n) == [n EXCEPT !.misses = @ + 1]

Unanswered(i) == gateway' = [gateway EXCEPT ![i].idle = OneMore(@)]

heartbeat(i) ==
    LET n == nodes[i]
    IN  /\ running /\ n.state = "Active"
        /\ \/ /\ n.wrote /\ Unanswered(i)
              /\ nodes' = [nodes EXCEPT ![i].wrote = FALSE, ![i].misses = 0]
              /\ UNCHANGED channel
           \/ /\ ~n.wrote /\ TooManyMisses(n)
              /\ nodes' = Enter(i, "WaitingRetry")
              /\ channel' = [channel EXCEPT ![i] = "closed"] /\ Forget(i)
           \/ /\ ~n.wrote /\ ~TooManyMisses(n) /\ Unanswered(i)
              /\ nodes' = [nodes EXCEPT ![i] = Missed(@)]
              /\ UNCHANGED channel
        /\ UNCHANGED running

close == running /\ Stopped

Next ==
    \/ \E g \in Groups : handle_egress(g)
    \/ \E i \in DOMAIN nodes :
          \/ FlowsWrite(i) \/ on_node_connected(i) \/ on_node_failed(i)
          \/ on_node_closed(i) \/ consume_handshake(i) \/ consume_frames(i)
          \/ RetryDue(i) \/ HandshakeDue(i) \/ heartbeat(i)
    \/ close

Spec == Init /\ [][Next]_vars

Known(i) == i \in DOMAIN nodes
StateOf(i) == IF Known(i) THEN nodes[i].state ELSE "Closed"
(* next_deadline covers retries, handshakes and heartbeats, so the host's  *)
(* loop runs each of them; a connect worker always reports.                *)
FairSpec ==
    Spec /\ \A i \in Ids :
       /\ WF_vars(Known(i) /\ RetryDue(i))
       /\ WF_vars(Known(i) /\ HandshakeDue(i))
       /\ WF_vars(Known(i) /\ heartbeat(i))
       /\ WF_vars(Known(i) /\ (on_node_connected(i) \/ on_node_failed(i)))

-----------------------------------------------------------------------------
(* Properties.                                                             *)

(* Types of the node table and of the channels.                            *)
TypeOK ==
    /\ nodes \in Seq(Node) /\ Len(nodes) <= MaxConnections
    /\ channel \in [Ids -> {"none", "connecting", "open", "closed"}]
    /\ gateway \in [Ids -> Peer] /\ running \in BOOLEAN

(* A node's state and the host's channel agree: every tear-down closes the *)
(* channel (no leak), and nothing waits on a channel that is gone (with    *)
(* the types).                                                             *)
ChannelMatchesState ==
    /\ TypeOK
    /\ \A i \in Ids :
          /\ channel[i] = "open" <=>
                Known(i) /\ nodes[i].state \in {"Handshaking", "Active"}
          /\ Known(i) =>
                (channel[i] = "connecting" <=> nodes[i].state = "Dialing")

(* An idle node whose gateway is silent is torn down once MissLimit        *)
(* heartbeats went unanswered, and not before.                             *)
IdleSilenceEndsNode ==
    \A i \in DOMAIN nodes :
       nodes[i].state = "Active" =>
          /\ gateway[i].idle <= MissLimit + 1
          /\ ~nodes[i].wrote => nodes[i].misses <= gateway[i].idle

(* A gateway that takes the connection and never answers does not hold the *)
(* group for ever: the handshake's deadline sends the node to a retry.     *)
HandshakeSettles ==
    \A i \in Ids :
       StateOf(i) \in {"Dialing", "Handshaking"}
       ~> StateOf(i) \in {"Active", "WaitingRetry", "Closed"}

(* A group that dropped gets a new connection, on its way or up.           *)
RetryHappens ==
    \A g \in Groups :
       (\E i \in Ids : StateOf(i) = "WaitingRetry" /\ nodes[i].group = g)
       ~> \/ \E i \in OfGroup(nodes, g) :
                nodes[i].state \in {"Dialing", "Handshaking", "Active"}
          \/ Len(nodes) = MaxConnections \/ ~running
=============================================================================
