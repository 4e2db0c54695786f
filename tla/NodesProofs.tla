---------------------------- MODULE NodesProofs -----------------------------
(***************************************************************************)
(* Theorems about the node connections (Nodes.tla), for any groups, any    *)
(* limit of missed heartbeats and any number of connections: the host's    *)
(* channels follow the nodes' states, and an idle node whose gateway is    *)
(* silent is torn down in time.                                            *)
(*                                                                         *)
(* The first is inductive.  The second is not: it needs to know what a     *)
(* node brings from the dial and the handshake (no miss, no silence), that *)
(* a write is fresh until the next heartbeat, and that a connection not    *)
(* yet made has no history.  Every step but an opening and the tear-down   *)
(* concerns one node, so the invariant is a predicate of one node, its     *)
(* channel and its peer, for every node there is (WellKept).               *)
(***************************************************************************)
EXTENDS Nodes, SequenceTheorems, TLAPS

ChannelState == {"none", "connecting", "open", "closed"}

(* A node, its channel and its gateway.  Misses count the heartbeats since *)
(* the gateway was heard, one behind the silence after a write.            *)
WellKept(n, c, p) ==
    /\ c = "open" <=> n.state \in {"Handshaking", "Active"}
    /\ c = "connecting" <=> n.state = "Dialing"
    /\ n.state \in {"Dialing", "Handshaking"} => n.misses = 0 /\ p.idle = 0
    /\ n.state = "Active" =>
          /\ n.wrote => p.idle = 0
          /\ ~n.wrote => n.misses <= p.idle /\ p.idle <= n.misses + 1

(* A connection that is not made yet, or that is forgotten.                *)
Unmade(c, p) == c # "open" /\ p.idle = 0

Sound(ns, ch, gw) ==
    /\ ns \in Seq(Node) /\ Len(ns) <= MaxConnections
    /\ ch \in [Ids -> ChannelState] /\ gw \in [Ids -> Peer]
    /\ \A i \in Ids :
          IF i <= Len(ns) THEN WellKept(ns[i], ch[i], gw[i])
          ELSE Unmade(ch[i], gw[i])

IInv == running \in BOOLEAN /\ Sound(nodes, channel, gateway)

-----------------------------------------------------------------------------
LEMMA Numbers ==
    /\ MissLimit \in Nat /\ MaxConnections \in Nat /\ 1 <= MaxConnections
    /\ Ids \subseteq Nat /\ 1 \in Ids
  BY NodesAssumption DEF Ids

(* Changing one element of a sequence of nodes.                            *)
LEMMA OneChanged ==
    ASSUME NEW ns \in Seq(Node), NEW i \in 1 .. Len(ns), NEW n \in Node
    PROVE  /\ [ns EXCEPT ![i] = n] \in Seq(Node)
           /\ Len([ns EXCEPT ![i] = n]) = Len(ns)
           /\ [ns EXCEPT ![i] = n][i] = n
           /\ \A j \in 1 .. Len(ns) : j # i => [ns EXCEPT ![i] = n][j] = ns[j]
  BY ExceptSeq

LEMMA SameNode ==
    ASSUME NEW ns \in Seq(Node), NEW i \in 1 .. Len(ns)
    PROVE  ns = [ns EXCEPT ![i] = ns[i]]
<1>1. ns \in [1 .. Len(ns) -> Node]
  BY LenProperties
<1>. QED  BY <1>1

(* A node there is has an id, a channel, a gateway.                        *)
LEMMA NodeThere ==
    ASSUME NEW ns, NEW ch, NEW gw, Sound(ns, ch, gw), NEW i \in DOMAIN ns
    PROVE  /\ i \in Ids /\ i \in 1 .. Len(ns) /\ i <= Len(ns)
           /\ ns[i] \in Node /\ ch[i] \in ChannelState /\ gw[i] \in Peer
           /\ WellKept(ns[i], ch[i], gw[i])
<1>1. /\ ns \in Seq(Node) /\ Len(ns) \in Nat /\ Len(ns) <= MaxConnections
      /\ DOMAIN ns = 1 .. Len(ns)
  BY LenProperties DEF Sound
<1>2. i \in 1 .. Len(ns) /\ i \in Ids /\ i <= Len(ns)
  BY <1>1, Numbers DEF Ids
<1>3. ns[i] \in Node
  BY <1>1, <1>2, ElementOfSeq
<1>. QED  BY <1>2, <1>3 DEF Sound

(* One node, its channel and its gateway change, and stay well kept.       *)
LEMMA NodeStep ==
    ASSUME NEW ns, NEW ch, NEW gw, Sound(ns, ch, gw), NEW i \in DOMAIN ns,
           NEW n \in Node, NEW c \in ChannelState, NEW p \in Peer,
           WellKept(n, c, p)
    PROVE  Sound([ns EXCEPT ![i] = n], [ch EXCEPT ![i] = c],
                 [gw EXCEPT ![i] = p])
<1>. DEFINE ms == [ns EXCEPT ![i] = n]
            dh == [ch EXCEPT ![i] = c]
            hw == [gw EXCEPT ![i] = p]
<1>1. i \in Ids /\ i \in 1 .. Len(ns) /\ i <= Len(ns)
  BY NodeThere
<1>2. /\ ns \in Seq(Node) /\ Len(ns) \in Nat /\ Len(ns) <= MaxConnections
      /\ ch \in [Ids -> ChannelState] /\ gw \in [Ids -> Peer]
  BY LenProperties DEF Sound
<1>3. /\ ms \in Seq(Node) /\ Len(ms) = Len(ns) /\ ms[i] = n
      /\ \A j \in 1 .. Len(ns) : j # i => ms[j] = ns[j]
  BY <1>1, <1>2, OneChanged
<1>4. /\ dh \in [Ids -> ChannelState] /\ hw \in [Ids -> Peer]
      /\ dh[i] = c /\ hw[i] = p
      /\ \A j \in Ids : j # i => dh[j] = ch[j] /\ hw[j] = gw[j]
  BY <1>1, <1>2
<1>5. ASSUME NEW j \in Ids
      PROVE  IF j <= Len(ms) THEN WellKept(ms[j], dh[j], hw[j])
             ELSE Unmade(dh[j], hw[j])
  <2>. HIDE DEF ms, dh, hw
  <2>1. CASE j = i
    BY <2>1, <1>1, <1>3, <1>4
  <2>2. CASE j # i /\ j <= Len(ns)
    <3>1. j \in 1 .. Len(ns)
      BY <2>2, <1>2, <1>5, Numbers DEF Ids
    <3>2. WellKept(ns[j], ch[j], gw[j])
      BY <2>2 DEF Sound
    <3>. QED  BY <2>2, <3>1, <3>2, <1>3, <1>4
  <2>3. CASE j # i /\ ~(j <= Len(ns))
    <3>1. Unmade(ch[j], gw[j])
      BY <2>3 DEF Sound
    <3>. QED  BY <2>3, <3>1, <1>3, <1>4
  <2>. QED  BY <2>1, <2>2, <2>3
<1>. QED  BY <1>2, <1>3, <1>4, <1>5 DEF Sound

(* A step of one node.                                                     *)
LEMMA OneNode ==
    ASSUME IInv, running' = running, NEW i \in DOMAIN nodes,
           NEW n \in Node, NEW c \in ChannelState, NEW p \in Peer,
           WellKept(n, c, p),
           nodes' = [nodes EXCEPT ![i] = n],
           channel' = [channel EXCEPT ![i] = c],
           gateway' = [gateway EXCEPT ![i] = p]
    PROVE  IInv'
<1>1. Sound(nodes', channel', gateway')
  BY NodeStep DEF IInv
<1>. QED  BY <1>1 DEF IInv, Sound

(* What a node is before a step that concerns it.                          *)
LEMMA NodeNow ==
    ASSUME IInv, NEW i \in DOMAIN nodes
    PROVE  /\ nodes[i] \in Node /\ channel[i] \in ChannelState
           /\ gateway[i] \in Peer /\ i \in Ids
           /\ WellKept(nodes[i], channel[i], gateway[i])
           /\ nodes = [nodes EXCEPT ![i] = nodes[i]]
           /\ channel = [channel EXCEPT ![i] = channel[i]]
           /\ gateway = [gateway EXCEPT ![i] = gateway[i]]
<1>1. Sound(nodes, channel, gateway)
  BY DEF IInv
<1>2. /\ nodes \in Seq(Node) /\ channel \in [Ids -> ChannelState]
      /\ gateway \in [Ids -> Peer]
  BY <1>1 DEF Sound
<1>3. i \in Ids /\ i \in 1 .. Len(nodes)
  BY <1>1, NodeThere
<1>4. nodes = [nodes EXCEPT ![i] = nodes[i]]
  BY <1>2, <1>3, SameNode
<1>5. /\ channel = [channel EXCEPT ![i] = channel[i]]
      /\ gateway = [gateway EXCEPT ![i] = gateway[i]]
  BY <1>2, <1>3
<1>. QED  BY <1>1, <1>3, <1>4, <1>5, NodeThere

-----------------------------------------------------------------------------
(* The steps of one node.                                                  *)

(* A write, on whichever node: the node's silence is over.                 *)
LEMMA Writing ==
    ASSUME IInv, NEW i, Wrote(i), UNCHANGED <<channel, running>>
    PROVE  IInv'
<1>1. CASE i \in DOMAIN nodes
  <2>. DEFINE n == [nodes[i] EXCEPT !.wrote = TRUE]
              p == [gateway[i] EXCEPT !.idle = 0]
  <2>0. /\ nodes[i] \in Node /\ gateway[i] \in Peer /\ channel[i] \in ChannelState
        /\ WellKept(nodes[i], channel[i], gateway[i])
        /\ channel = [channel EXCEPT ![i] = channel[i]]
    BY <1>1, NodeNow
  <2>1. n \in Node /\ n.wrote /\ n.state = nodes[i].state
        /\ n.misses = nodes[i].misses
    BY <2>0 DEF Node
  <2>2. p \in Peer /\ p.idle = 0
    BY <2>0, Numbers DEF Peer
  <2>3. /\ nodes' = [nodes EXCEPT ![i] = n]
        /\ gateway' = [gateway EXCEPT ![i] = p]
    BY DEF Wrote
  <2>. HIDE DEF n, p
  <2>4. WellKept(n, channel[i], p)
    BY <2>0, <2>1, <2>2 DEF WellKept
  <2>. QED  BY <1>1, <2>0, <2>1, <2>2, <2>3, <2>4, OneNode
<1>2. CASE i \notin DOMAIN nodes
  <2>1. /\ nodes \in Seq(Node) /\ channel \in [Ids -> ChannelState]
        /\ gateway \in [Ids -> Peer] /\ Len(nodes) <= MaxConnections
    BY DEF IInv, Sound
  <2>2. nodes' = nodes
    BY <1>2, <2>1, LenProperties DEF Wrote
  <2>3. /\ gateway' \in [Ids -> Peer]
        /\ \A j \in Ids : gateway'[j] = gateway[j] \/ (j = i /\ gateway'[j].idle = 0)
    <3>1. CASE i \in Ids
      <4>. DEFINE p == [gateway[i] EXCEPT !.idle = 0]
      <4>0. gateway[i] \in Peer
        BY <2>1, <3>1
      <4>1. p \in Peer /\ p.idle = 0
        BY ONLY <4>0, Numbers DEF Peer
      <4>2. gateway' = [gateway EXCEPT ![i] = p]
        BY DEF Wrote
      <4>. HIDE DEF p
      <4>3. gateway' \in [Ids -> Peer]
        BY ONLY <2>1, <4>1, <4>2
      <4>4. ASSUME NEW j \in Ids
            PROVE  gateway'[j] = gateway[j] \/ (j = i /\ gateway'[j].idle = 0)
        BY ONLY <2>1, <4>1, <4>2, <4>4
      <4>. QED  BY ONLY <4>3, <4>4
    <3>2. CASE i \notin Ids
      <4>1. gateway' = [gateway EXCEPT ![i].idle = 0]
        BY DEF Wrote
      <4>2. DOMAIN gateway = Ids
        BY <2>1
      <4>3. gateway' = gateway
        BY ONLY <2>1, <3>2, <4>1, <4>2
      <4>. QED  BY ONLY <2>1, <4>3
    <3>. QED  BY <3>1, <3>2
  <2>5. \A j \in Ids : j <= Len(nodes) => j \in DOMAIN nodes
    BY <2>1, LenProperties, Numbers DEF Ids
  <2>. QED  BY <1>2, <2>1, <2>2, <2>3, <2>5 DEF IInv, Sound, Unmade
<1>. QED  BY <1>1, <1>2

LEMMA NodeConnected ==
    ASSUME IInv, NEW i \in DOMAIN nodes, on_node_connected(i)
    PROVE  IInv'
<1>. DEFINE n == [nodes[i] EXCEPT !.state = "Handshaking", !.wrote = TRUE]
            p == gateway[i]
<1>1. n \in Node /\ p \in Peer /\ "open" \in ChannelState
  BY NodeNow DEF Node, NodeState, ChannelState
<1>2. WellKept(n, "open", p)
  BY NodeNow DEF WellKept, Node, on_node_connected
<1>3. /\ nodes' = [nodes EXCEPT ![i] = n]
      /\ channel' = [channel EXCEPT ![i] = "open"]
      /\ gateway' = [gateway EXCEPT ![i] = p] /\ running' = running
  BY NodeNow DEF on_node_connected
<1>. HIDE DEF n, p
<1>. QED  BY <1>1, <1>2, <1>3, OneNode

(* A connect that failed, a channel that closed, a handshake's deadline,   *)
(* the miss too many: the node waits for its retry without a channel.      *)
LEMMA Retrying ==
    ASSUME IInv, NEW i \in DOMAIN nodes,
           nodes' = Enter(i, "WaitingRetry"),
           channel' = [channel EXCEPT ![i] = "closed"],
           gateway' = gateway \/ Forget(i), running' = running
    PROVE  IInv'
<1>. DEFINE n == [nodes[i] EXCEPT !.state = "WaitingRetry"]
<1>1. n \in Node /\ "closed" \in ChannelState /\ Fresh \in Peer
  BY NodeNow, Numbers DEF Node, NodeState, ChannelState, Fresh, Peer
<1>2. \A p : WellKept(n, "closed", p)
  BY NodeNow DEF WellKept, Node
<1>3. nodes' = [nodes EXCEPT ![i] = n]
  BY DEF Enter
<1>4. PICK p \in {gateway[i], Fresh} : gateway' = [gateway EXCEPT ![i] = p]
  BY NodeNow DEF Forget
<1>5. p \in Peer
  BY <1>1, <1>4, NodeNow
<1>. HIDE DEF n
<1>. QED  BY <1>1, <1>2, <1>3, <1>4, <1>5, OneNode

(* The session ends: no node, no open channel, no history.                 *)
LEMMA Stopping == ASSUME IInv, Stopped PROVE IInv'
<1>1. channel \in [Ids -> ChannelState] /\ Fresh \in Peer /\ <<>> \in Seq(Node)
      /\ Len(<<>>) = 0 /\ 0 <= MaxConnections
  BY Numbers DEF IInv, Sound, Fresh, Peer
<1>2. channel' \in [Ids -> ChannelState] /\ gateway' \in [Ids -> Peer]
  BY <1>1 DEF Stopped, ChannelState
<1>3. \A j \in Ids : ~(j <= 0) /\ Unmade(channel'[j], gateway'[j])
  BY <1>1 DEF Stopped, Unmade, Fresh, Ids
<1>. QED  BY <1>1, <1>2, <1>3 DEF IInv, Sound, Stopped

LEMMA Handshake ==
    ASSUME IInv, NEW i \in DOMAIN nodes, consume_handshake(i)
    PROVE  IInv'
<1>1. CASE nodes' = Enter(i, "Active") /\ UNCHANGED <<channel, gateway, running>>
  <2>. DEFINE n == [nodes[i] EXCEPT !.state = "Active"]
  <2>1. n \in Node
    BY NodeNow DEF Node, NodeState
  <2>2. WellKept(n, channel[i], gateway[i])
    BY NodeNow DEF WellKept, Node, consume_handshake
  <2>3. nodes' = [nodes EXCEPT ![i] = n]
    BY <1>1 DEF Enter
  <2>. HIDE DEF n
  <2>. QED  BY <1>1, <2>1, <2>2, <2>3, NodeNow, OneNode
<1>2. CASE /\ nodes' = Enter(i, "Closed")
           /\ channel' = [channel EXCEPT ![i] = "closed"]
           /\ gateway' = [gateway EXCEPT ![i].refused = TRUE]
           /\ UNCHANGED running
  <2>. DEFINE n == [nodes[i] EXCEPT !.state = "Closed"]
              p == [gateway[i] EXCEPT !.refused = TRUE]
  <2>1. n \in Node /\ p \in Peer /\ "closed" \in ChannelState
    BY NodeNow DEF Node, NodeState, Peer, ChannelState
  <2>2. WellKept(n, "closed", p)
    BY NodeNow DEF WellKept, Node
  <2>3. /\ nodes' = [nodes EXCEPT ![i] = n]
        /\ gateway' = [gateway EXCEPT ![i] = p]
    BY <1>2 DEF Enter
  <2>. HIDE DEF n, p
  <2>. QED  BY <1>2, <2>1, <2>2, <2>3, OneNode
<1>. QED  BY <1>1, <1>2, Stopping DEF consume_handshake

LEMMA Frames ==
    ASSUME IInv, NEW i \in DOMAIN nodes, consume_frames(i)
    PROVE  IInv'
<1>1. UNCHANGED <<channel, running>> /\ nodes[i].state = "Active"
  BY DEF consume_frames
<1>2. CASE /\ nodes' = [nodes EXCEPT ![i].misses = 0]
           /\ gateway' = [gateway EXCEPT ![i].idle = 0]
  <2>. DEFINE n == [nodes[i] EXCEPT !.misses = 0]
              p == [gateway[i] EXCEPT !.idle = 0]
  <2>1. n \in Node /\ p \in Peer
    BY NodeNow, Numbers DEF Node, Peer
  <2>2. WellKept(n, channel[i], p)
    BY <1>1, NodeNow DEF WellKept, Node, Peer
  <2>3. /\ nodes' = [nodes EXCEPT ![i] = n]
        /\ gateway' = [gateway EXCEPT ![i] = p]
    BY <1>2
  <2>. HIDE DEF n, p
  <2>. QED  BY <1>1, <2>1, <2>2, <2>3, NodeNow, OneNode
<1>3. CASE gateway' = [gateway EXCEPT ![i].garbled = TRUE] /\ UNCHANGED nodes
  <2>. DEFINE p == [gateway[i] EXCEPT !.garbled = TRUE]
  <2>1. p \in Peer /\ p.idle = gateway[i].idle
    BY NodeNow DEF Peer
  <2>2. WellKept(nodes[i], channel[i], p)
    BY <2>1, NodeNow DEF WellKept
  <2>3. /\ gateway' = [gateway EXCEPT ![i] = p]
        /\ nodes' = [nodes EXCEPT ![i] = nodes[i]]
        /\ channel' = [channel EXCEPT ![i] = channel[i]]
        /\ nodes[i] \in Node /\ channel[i] \in ChannelState
    BY <1>1, <1>3, NodeNow
  <2>. HIDE DEF p
  <2>. QED  BY <1>1, <2>1, <2>2, <2>3, OneNode
<1>. QED  BY <1>2, <1>3 DEF consume_frames

LEMMA Heartbeat ==
    ASSUME IInv, NEW i \in DOMAIN nodes, heartbeat(i)
    PROVE  IInv'
<1>. DEFINE o == nodes[i]
            p == [gateway[i] EXCEPT !.idle = OneMore(@)]
<1>1. /\ o.state = "Active" /\ running' = running /\ o \in Node
      /\ gateway[i] \in Peer /\ WellKept(o, channel[i], gateway[i])
      /\ channel[i] \in ChannelState
  BY NodeNow DEF heartbeat
<1>2. /\ gateway[i].idle \in 0 .. MissLimit + 2 /\ o.misses \in 0 .. MissLimit
      /\ o.wrote \in BOOLEAN
  BY <1>1 DEF Node, Peer
<1>3. p \in Peer /\ p.idle = OneMore(gateway[i].idle)
  <2>1. OneMore(gateway[i].idle) \in 0 .. MissLimit + 2
    BY <1>2, Numbers DEF OneMore, Min2
  <2>. QED  BY <1>1, <2>1 DEF Peer
<1>4. CASE /\ o.wrote /\ Unanswered(i) /\ UNCHANGED channel
           /\ nodes' = [nodes EXCEPT ![i].wrote = FALSE, ![i].misses = 0]
  <2>. DEFINE n == [o EXCEPT !.wrote = FALSE, !.misses = 0]
  <2>0. 0 \in 0 .. MissLimit
    BY Numbers
  <2>1. n \in Node /\ n.state = "Active" /\ ~n.wrote /\ n.misses = 0
    <3>. HIDE DEF o
    <3>. QED  BY <1>1, <2>0 DEF Node
  <2>3. p.idle = 1
    BY <1>1, <1>3, <1>4, Numbers DEF WellKept, OneMore, Min2
  <2>4. WellKept(n, channel[i], p)
    <3>. HIDE DEF n, p, o
    <3>. QED  BY <1>1, <2>1, <2>3 DEF WellKept
  <2>5. nodes' = [nodes EXCEPT ![i] = n] /\ gateway' = [gateway EXCEPT ![i] = p]
    BY <1>4 DEF Unanswered
  <2>. HIDE DEF n, p, o
  <2>. QED  BY <1>1, <1>3, <1>4, <2>1, <2>4, <2>5, NodeNow, OneNode
<1>5. CASE /\ nodes' = Enter(i, "WaitingRetry")
           /\ channel' = [channel EXCEPT ![i] = "closed"] /\ Forget(i)
  BY <1>1, <1>5, Retrying
<1>6. CASE /\ ~o.wrote /\ ~TooManyMisses(o) /\ Unanswered(i)
           /\ nodes' = [nodes EXCEPT ![i] = Missed(@)] /\ UNCHANGED channel
  <2>. DEFINE n == Missed(o)
  <2>1. o.misses + 1 \in 0 .. MissLimit
    BY <1>2, <1>6, Numbers DEF TooManyMisses
  <2>2. n \in Node /\ n.state = "Active" /\ ~n.wrote /\ n.misses = o.misses + 1
    BY <1>1, <1>6, <2>1 DEF Missed, Node
  <2>3. o.misses <= gateway[i].idle /\ gateway[i].idle <= o.misses + 1
    BY <1>1, <1>6 DEF WellKept
  <2>4. p.idle = gateway[i].idle + 1
    BY <1>2, <1>3, <2>1, <2>3, Numbers DEF OneMore, Min2
  <2>5. WellKept(n, channel[i], p)
    <3>. HIDE DEF n, p, o
    <3>. QED  BY <1>1, <1>2, <2>2, <2>3, <2>4 DEF WellKept
  <2>6. nodes' = [nodes EXCEPT ![i] = n] /\ gateway' = [gateway EXCEPT ![i] = p]
    BY <1>6 DEF Unanswered
  <2>. HIDE DEF n, p, o
  <2>. QED  BY <1>1, <1>3, <1>6, <2>2, <2>5, <2>6, NodeNow, OneNode
<1>. QED  BY <1>4, <1>5, <1>6 DEF heartbeat

-----------------------------------------------------------------------------
(* Openings.                                                               *)

LEMMA Opening ==
    ASSUME NEW ns, Sound(ns, channel, gateway), running \in BOOLEAN,
           NEW g \in Groups, open_node(ns, g), UNCHANGED <<gateway, running>>
    PROVE  IInv'
<1>1. CASE nodes' = ns /\ UNCHANGED channel
  BY <1>1 DEF IInv, Sound
<1>2. CASE /\ Len(ns) < MaxConnections
           /\ nodes' = Append(ns, [group |-> g, state |-> "Dialing",
                                   misses |-> 0, wrote |-> FALSE])
           /\ channel' = [channel EXCEPT ![Len(ns) + 1] = "connecting"]
  <2>. DEFINE n == [group |-> g, state |-> "Dialing", misses |-> 0,
                    wrote |-> FALSE]
              k == Len(ns) + 1
  <2>1. /\ ns \in Seq(Node) /\ Len(ns) \in Nat
        /\ channel \in [Ids -> ChannelState] /\ gateway \in [Ids -> Peer]
    BY LenProperties DEF Sound
  <2>2. n \in Node /\ k \in Ids /\ ~(k <= Len(ns))
    BY <1>2, <2>1, Numbers DEF Node, NodeState, Ids
  <2>3. gateway[k].idle = 0
    BY <2>2 DEF Sound, Unmade
  <2>4. WellKept(n, "connecting", gateway[k])
    BY <2>3 DEF WellKept
  <2>. HIDE DEF n
  <2>5. /\ nodes' \in Seq(Node) /\ Len(nodes') = k /\ nodes'[k] = n
        /\ \A j \in 1 .. Len(ns) : nodes'[j] = ns[j]
    BY <1>2, <2>1, <2>2, AppendProperties DEF n
  <2>6. /\ channel' \in [Ids -> ChannelState] /\ channel'[k] = "connecting"
        /\ \A j \in Ids : j # k => channel'[j] = channel[j]
    BY <1>2, <2>1, <2>2 DEF ChannelState
  <2>7. ASSUME NEW j \in Ids
        PROVE  IF j <= Len(nodes') THEN WellKept(nodes'[j], channel'[j], gateway[j])
               ELSE Unmade(channel'[j], gateway[j])
    <3>1. CASE j = k
      BY <3>1, <2>1, <2>4, <2>5, <2>6
    <3>2. CASE j # k /\ j <= Len(ns)
      <4>1. j \in 1 .. Len(ns) /\ j <= k
        BY <3>2, <2>1, <2>7, Numbers DEF Ids
      <4>2. WellKept(ns[j], channel[j], gateway[j])
        BY <3>2 DEF Sound
      <4>. QED  BY <3>2, <4>1, <4>2, <2>5, <2>6
    <3>3. CASE j # k /\ ~(j <= Len(ns))
      <4>1. ~(j <= k)
        BY <3>3, <2>1, <2>7, Numbers DEF Ids
      <4>2. Unmade(channel[j], gateway[j])
        BY <3>3 DEF Sound
      <4>. QED  BY <3>3, <4>1, <4>2, <2>5, <2>6
    <3>. QED  BY <3>1, <3>2, <3>3
  <2>8. Len(nodes') <= MaxConnections
    BY <1>2, <2>1, <2>5, Numbers
  <2>. QED  BY <2>1, <2>5, <2>6, <2>7, <2>8 DEF IInv, Sound
<1>. QED  BY <1>1, <1>2 DEF open_node

(* A retry closes the old node and opens one for its group.                *)
LEMMA RetryIsDue ==
    ASSUME IInv, NEW i \in DOMAIN nodes, RetryDue(i)
    PROVE  IInv'
<1>. DEFINE n == [nodes[i] EXCEPT !.state = "Closed"]
<1>1. n \in Node /\ nodes[i].group \in Groups
  BY NodeNow DEF Node, NodeState
<1>2. WellKept(n, channel[i], gateway[i])
  BY NodeNow DEF WellKept, Node, RetryDue
<1>3. Enter(i, "Closed") = [nodes EXCEPT ![i] = n]
  BY DEF Enter
<1>. HIDE DEF n
<1>4. Sound(Enter(i, "Closed"), [channel EXCEPT ![i] = channel[i]],
            [gateway EXCEPT ![i] = gateway[i]])
  BY <1>1, <1>2, <1>3, NodeNow, NodeStep DEF IInv
<1>5. Sound(Enter(i, "Closed"), channel, gateway)
  BY <1>4, NodeNow
<1>. QED  BY <1>1, <1>5, Opening DEF RetryDue, IInv

LEMMA Egress ==
    ASSUME IInv, NEW g \in Groups, handle_egress(g)
    PROVE  IInv'
<1>. DEFINE up == IF ActiveIn(g) # {} THEN ActiveIn(g) ELSE ActiveIn(Major)
<1>1. running' = running
  BY DEF handle_egress
<1>2. CASE Wrote(First(up)) /\ UNCHANGED channel
  BY <1>1, <1>2, Writing
<1>3. CASE UNCHANGED <<nodes, gateway, channel>>
  BY <1>1, <1>3 DEF IInv, Sound
<1>4. CASE open_node(nodes, g) /\ UNCHANGED gateway
  BY <1>1, <1>4, Opening DEF IInv
<1>. QED  BY <1>2, <1>3, <1>4 DEF handle_egress

-----------------------------------------------------------------------------
LEMMA InitSound == Init => IInv
<1>. SUFFICES ASSUME Init PROVE IInv
  OBVIOUS
<1>. DEFINE n == [group |-> Major, state |-> "Dialing", misses |-> 0,
                  wrote |-> FALSE]
<1>1. n \in Node /\ Fresh \in Peer
  BY NodesAssumption DEF Node, NodeState, Fresh, Peer
<1>2. WellKept(n, "connecting", Fresh) /\ Unmade("none", Fresh)
  BY DEF WellKept, Fresh, Unmade
<1>. HIDE DEF n
<1>3. nodes = <<n>> /\ nodes \in Seq(Node) /\ Len(nodes) = 1 /\ nodes[1] = n
  BY <1>1 DEF Init, n
<1>4. /\ channel \in [Ids -> ChannelState] /\ gateway \in [Ids -> Peer]
      /\ \A j \in Ids : /\ channel[j] = IF j = 1 THEN "connecting" ELSE "none"
                        /\ gateway[j] = Fresh
  BY <1>1 DEF Init, ChannelState
<1>5. \A j \in Ids : j <= 1 <=> j = 1
  BY DEF Ids
<1>. QED  BY <1>2, <1>3, <1>4, <1>5, Numbers DEF IInv, Sound, Init

LEMMA NextSound == IInv /\ [Next]_vars => IInv'
<1>. SUFFICES ASSUME IInv, [Next]_vars PROVE IInv'
  OBVIOUS
<1>1. ASSUME NEW i \in DOMAIN nodes, on_node_failed(i) PROVE IInv'
  BY <1>1, Retrying DEF on_node_failed
<1>2. ASSUME NEW i \in DOMAIN nodes, on_node_closed(i) PROVE IInv'
  BY <1>2, Retrying DEF on_node_closed
<1>3. ASSUME NEW i \in DOMAIN nodes, HandshakeDue(i) PROVE IInv'
  BY <1>3, Retrying DEF HandshakeDue
<1>4. ASSUME NEW i \in DOMAIN nodes, FlowsWrite(i) PROVE IInv'
  BY <1>4, Writing DEF FlowsWrite
<1>5. CASE close
  BY <1>5, Stopping DEF close
<1>6. CASE UNCHANGED vars
  BY <1>6 DEF vars, IInv, Sound
<1>. QED  BY <1>1, <1>2, <1>3, <1>4, <1>5, <1>6, Egress, NodeConnected,
             Handshake, Frames, RetryIsDue, Heartbeat DEF Next

LEMMA Invariant == Spec => []IInv
BY InitSound, NextSound, PTL DEF Spec

(* What is well kept, read off the invariant.                              *)
LEMMA Kept ==
    ASSUME IInv, NEW i \in Ids
    PROVE  /\ Known(i) => i <= Len(nodes) /\ WellKept(nodes[i], channel[i], gateway[i])
           /\ ~Known(i) => channel[i] # "open"
<1>1. nodes \in Seq(Node) /\ Len(nodes) \in Nat /\ DOMAIN nodes = 1 .. Len(nodes)
  BY LenProperties DEF IInv, Sound
<1>2. Known(i) <=> i <= Len(nodes)
  BY <1>1, Numbers DEF Known, Ids
<1>. QED  BY <1>2 DEF IInv, Sound, Unmade

(* The host's channels follow the nodes: a channel is open exactly while   *)
(* its node shakes hands or is active, so no tear-down leaks one and no    *)
(* node waits on one that is gone (plane.rs, on_node_closed, consume_*,    *)
(* run_node_timers; host.rs, CloseNode).                                   *)
THEOREM ChannelsFollowNodes == Spec => []ChannelMatchesState
<1>1. IInv => TypeOK
  BY DEF IInv, Sound, TypeOK, ChannelState
<1>2. ASSUME IInv, NEW i \in Ids
      PROVE  /\ channel[i] = "open" <=>
                   Known(i) /\ nodes[i].state \in {"Handshaking", "Active"}
             /\ Known(i) =>
                   (channel[i] = "connecting" <=> nodes[i].state = "Dialing")
  BY <1>2, Kept DEF WellKept
<1>3. IInv => ChannelMatchesState
  BY <1>1, <1>2 DEF ChannelMatchesState
<1>. QED  BY <1>3, Invariant, PTL

(* A silent gateway is found out: an active node is torn down once         *)
(* MissLimit heartbeats went unanswered after the last write, whatever is  *)
(* written in between (run_node_timers, plane.rs).                         *)
THEOREM SilenceIsBounded == Spec => []IdleSilenceEndsNode
<1>1. ASSUME IInv, NEW i \in DOMAIN nodes, nodes[i].state = "Active"
      PROVE  /\ gateway[i].idle <= MissLimit + 1
             /\ ~nodes[i].wrote => nodes[i].misses <= gateway[i].idle
  <2>1. /\ nodes[i].misses \in 0 .. MissLimit /\ nodes[i].wrote \in BOOLEAN
        /\ gateway[i].idle \in 0 .. MissLimit + 2
        /\ WellKept(nodes[i], channel[i], gateway[i])
    BY <1>1, NodeNow DEF Node, Peer
  <2>. QED  BY <1>1, <2>1, Numbers DEF WellKept
<1>2. IInv => IdleSilenceEndsNode
  BY <1>1 DEF IdleSilenceEndsNode
<1>. QED  BY <1>2, Invariant, PTL
=============================================================================
