------------------------------ MODULE FlowAuth ------------------------------
(***************************************************************************)
(* Per-flow authentication of the L3 plane: the flow table                 *)
(* (rust/sangfor-core/src/flow.rs) and the flow half of                    *)
(* rust/sangfor-core/src/plane.rs.  The gateway carries a flow's packets   *)
(* only with the token of an auth exchange; until the answer arrives the   *)
(* packets wait in the flow, and are then flushed on the connection the    *)
(* answer came from.                                                       *)
(*                                                                         *)
(* `table' is the code's vector, in its order.  The node connections are   *)
(* only known by whether they are active (Nodes.tla has their life); what  *)
(* is in flight on a connection is lost when it drops.  The gateway is     *)
(* external: it answers a request when it likes, in any order, or never.   *)
(* A token stands for the flow it was asked for, and says whether the      *)
(* answer that brought it named one flow.  Time is a counter.              *)
(***************************************************************************)
EXTENDS Naturals, Sequences, FiniteSets, Tables

CONSTANTS
    Keys,          \* five-tuples of the local stack's flows
    Hosts,         \* five-tuple -> its two addresses
    Links,         \* node connections
    MaxFlows,      \* max_flows
    MaxPending,    \* max_pending_packets
    MaxAttempts,   \* auth_max_attempts
    BatchSize,     \* auth_batch_size
    AuthTimeout,   \* auth_timeout_ms, in steps of the clock
    RetryWait,     \* auth_retry_wait_ms
    Ttl,           \* the flow's time to live once a packet was seen
    MaxTime,       \* bound: the clock
    MaxPackets,    \* bound: packets the local stack sends on one flow
    Starts,        \* where the clock and the packets' numbers start: what is
                   \* left of the two bounds differs between starts
    MaxIds,        \* bound: flows created
    MaxRequests    \* bound: auth requests sent for one flow

ASSUME FlowAssumption ==
    /\ MaxFlows \in Nat \ {0} /\ MaxPending \in Nat
    /\ MaxAttempts \in Nat \ {0} /\ BatchSize \in Nat \ {0}
    /\ AuthTimeout \in Nat \ {0} /\ RetryWait \in Nat /\ Ttl \in Nat
    /\ MaxTime \in Nat /\ MaxPackets \in Nat /\ MaxIds \in Nat
    /\ MaxRequests \in Nat
    /\ Starts \subseteq [now : 1 .. MaxTime, offered : [Keys -> 0 .. MaxPackets]]

VARIABLES
    table,      \* sequence of flow records
    next_id,    \* flow ids handed out so far
    links,      \* active node connections
    requests,   \* auth requests and their answers, in flight
    now,        \* the clock
    offered,    \* key -> packets the local stack has sent
    carried     \* key -> the packets sent to the gateway, in order

vars == <<table, next_id, links, requests, now, offered, carried>>

Never == 0    \* no deadline, or a retry allowed since ever

Token == [id : Nat, key : Keys, exact : BOOLEAN]

Flow == [id : Nat, key : Keys, pending : Seq(Nat),
         state : {"Pending", "Authenticated"}, token : Token,
         requested : BOOLEAN, deadline : Nat, retry_at : Nat,
         timeouts : Nat, last_seen : Nat, expires_at : Nat,
         asked : Nat,           \* history: requests sent for it
         answered : BOOLEAN]    \* history: one of them was answered

-----------------------------------------------------------------------------
(* The table.  Operators take and return the sequence of flows.            *)

IndexOfKey(t, k) == {i \in DOMAIN t : t[i].key = k}
IndexOfId(t, id) == {i \in DOMAIN t : t[i].id = id}

Without(t, i) == Retained(t, DOMAIN t \ {i})

remove_expired(t) == Retained(t, {i \in DOMAIN t : now <= t[i].expires_at})

(* The least recently seen flow, the oldest of several.                    *)
Oldest(t) == CHOOSE i \in DOMAIN t : \A j \in DOMAIN t :
                t[i].last_seen < t[j].last_seen
                  \/ (t[i].last_seen = t[j].last_seen /\ i <= j)

Evict(t) == IF Len(t) >= MaxFlows THEN Without(t, Oldest(t)) ELSE t

NoToken == [id |-> 0, key |-> CHOOSE k \in Keys : TRUE, exact |-> TRUE]

FreshId == next_id + 1

NewFlow(k) ==
    [id |-> FreshId, key |-> k, pending |-> <<>>, state |-> "Pending",
     token |-> NoToken, requested |-> FALSE, deadline |-> Never,
     retry_at |-> Never, timeouts |-> 0, last_seen |-> now,
     expires_at |-> now + Ttl, asked |-> 0, answered |-> FALSE]

(* get_or_create, and observe, which every caller adds: the packet keeps   *)
(* the flow alive.                                                         *)
get_or_create(t, k) ==
    LET live == remove_expired(t)
    IN  IF IndexOfKey(live, k) # {} THEN live
        ELSE Append(Evict(live), NewFlow(k))

observe(t, k) ==
    [i \in DOMAIN t |->
        IF t[i].key = k
        THEN [t[i] EXCEPT !.last_seen = now, !.expires_at = now + Ttl]
        ELSE t[i]]

cache_packet(t, i, packet) ==
    IF Len(t[i].pending) >= MaxPending THEN t
    ELSE [t EXCEPT ![i].pending = Append(@, packet)]

Authenticate(t, i, token) ==
    [t EXCEPT ![i].state = "Authenticated", ![i].token = token,
              ![i].pending = <<>>, ![i].deadline = Never,
              ![i].answered = TRUE]

(* Try again, from now on or after a wait.                                 *)
retry_auth_still_timed(t, i, delay) ==  \* mutant: the deadline stays
    [t EXCEPT ![i].requested = FALSE, ![i].retry_at = now + delay,
              ![i].answered = TRUE]
retry_auth(t, i, delay) ==
    [t EXCEPT ![i].requested = FALSE, ![i].deadline = Never,
              ![i].retry_at = now + delay, ![i].answered = TRUE]

-----------------------------------------------------------------------------
(* Scanning: the answers that are overdue, then the requests that are due. *)

Overdue(f) == f.deadline # Never /\ now >= f.deadline
LastChance_later(f) == f.timeouts >= MaxAttempts       \* mutant: one too many
LastChance(f) == f.timeouts + 1 >= MaxAttempts

expire_auths(t) ==
    LET left == Retained(t, {i \in DOMAIN t :
                                ~(Overdue(t[i]) /\ LastChance(t[i]))})
    IN  [i \in DOMAIN left |->
           IF Overdue(left[i])
           THEN [left[i] EXCEPT !.timeouts = @ + 1, !.requested = FALSE,
                                !.deadline = Never, !.retry_at = now]
           ELSE left[i]]

Due_anyway(f) ==  \* mutant: asks although a request is in flight
    f.state = "Pending" /\ f.pending # <<>> /\ now >= f.retry_at
Due(f) ==
    /\ f.state = "Pending" /\ f.pending # <<>> /\ ~f.requested
    /\ now >= f.retry_at

Batch(t) == {i \in DOMAIN t :
               Due(t[i]) /\ Cardinality({j \in 1 .. i : Due(t[j])}) <= BatchSize}

Ask(f) == [f EXCEPT !.requested = TRUE, !.asked = @ + 1,
                    !.deadline = now + AuthTimeout]

(* Commits the table, with the requests that dispatch_auths adds to it.    *)
dispatch_auths(t, link) ==
    /\ \A i \in Batch(t) : t[i].asked < MaxRequests
    /\ table' = [i \in DOMAIN t |-> IF i \in Batch(t) THEN Ask(t[i]) ELSE t[i]]
    /\ requests' = requests \cup
          {[link |-> link, id |-> t[i].id, key |-> t[i].key,
            attempt |-> t[i].asked + 1] : i \in Batch(t)}

-----------------------------------------------------------------------------
Init ==
    /\ table = <<>> /\ next_id = 0 /\ links = Links /\ requests = {}
    /\ \E s \in Starts : now = s.now /\ offered = s.offered
    /\ carried = [k \in Keys |-> <<>>]

(* A packet of the local stack, routed to an active connection.            *)
send_packet(k, link) ==
    LET packet == offered[k] + 1
    IN  /\ link \in links /\ packet <= MaxPackets
        /\ offered' = [offered EXCEPT ![k] = packet]
        /\ \E t \in {observe(get_or_create(table, k), k)} :
           \E i \in IndexOfKey(t, k) :
              /\ t[i].id <= MaxIds
              /\ next_id' = IF t[i].id > next_id THEN t[i].id ELSE next_id
              /\ \/ /\ t[i].state = "Authenticated" /\ table' = t
                    /\ carried' = [carried EXCEPT ![k] =
                          Append(@, [packet |-> packet, token |-> t[i].token,
                                     flow |-> t[i].id])]
                    /\ UNCHANGED requests
                 \/ /\ t[i].state = "Pending"
                    /\ IF cache_packet(t, i, packet) = t
                       THEN table' = t /\ UNCHANGED requests
                       ELSE dispatch_auths(cache_packet(t, i, packet), link)
                    /\ UNCHANGED carried
        /\ UNCHANGED <<links, now>>

(* A tick of the plane with the auth scan of one active connection due.    *)
Scan(link) ==
    /\ link \in links
    /\ \E t \in {expire_auths(remove_expired(table))} : dispatch_auths(t, link)
    /\ UNCHANGED <<next_id, links, now, offered, carried>>

(* A tick of the plane without one.                                        *)
Tick ==
    /\ table' = remove_expired(table) /\ table' # table
    /\ UNCHANGED <<next_id, links, requests, now, offered, carried>>

(* What an answer says of its flow besides the id: nothing, or the two     *)
(* addresses with as much of ports and protocol as the gateway cares to    *)
(* add, so the five-tuples it fits are some of those between these hosts.  *)
SameHosts(k) == {l \in Keys : Hosts[l] = Hosts[k]}
Descriptions(k) == {{}} \cup {fits \in SUBSET SameHosts(k) : k \in fits}

(* The flow whose description fits, the first of several.                  *)
find_flow_by_ip(fits) ==
    LET fitting == {i \in DOMAIN table : table[i].key \in fits}
    IN  {i \in fitting : \A j \in fitting : i <= j}

(* The flow an answer is for: the one whose id it echoes, or the one its   *)
(* description finds.                                                      *)
Recalls(r, echoed) == echoed /\ IndexOfId(table, r.id) # {}

Answered_any(r, echoed, fits) == DOMAIN table  \* mutant: whichever flow
Answered(r, echoed, fits) ==
    IF Recalls(r, echoed) THEN IndexOfId(table, r.id) ELSE find_flow_by_ip(fits)

Granted(r, echoed, fits) ==
    [id |-> r.id, key |-> r.key, exact |-> Recalls(r, echoed) \/ fits = {r.key}]

Flush_popping(i, token) ==  \* mutant: taken from the end of the cache
    LET f == table[i]
        n == Len(f.pending)
    IN  carried' = [carried EXCEPT ![f.key] =
           @ \o [j \in 1 .. n |-> [packet |-> f.pending[n + 1 - j],
                                  token |-> token, flow |-> f.id]]]
Flush(i, token) ==
    LET f == table[i]
    IN  carried' = [carried EXCEPT ![f.key] =
           @ \o [j \in DOMAIN f.pending |->
                   [packet |-> f.pending[j], token |-> token, flow |-> f.id]]]

(* The gateway's answer to a request, on the connection it was sent on: a  *)
(* token, a refusal, or "again" (0x84 at once, 0x85 to 0x87 after a wait). *)
handle_auth_response(r) ==
    /\ r \in requests /\ r.link \in links
    /\ requests' = requests \ {r}
    /\ \E echoed \in BOOLEAN, fits \in Descriptions(r.key) :
       \/ /\ \A i \in Answered(r, echoed, fits) : table[i].state # "Pending"
          /\ UNCHANGED <<table, carried>>
       \/ \E i \in Answered(r, echoed, fits) :
             /\ table[i].state = "Pending"
             /\ \/ \E token \in {Granted(r, echoed, fits)} :
                      table' = Authenticate(table, i, token) /\ Flush(i, token)
                \/ table' = Without(table, i) /\ UNCHANGED carried
                \/ /\ \E delay \in {0, RetryWait} :
                         table' = retry_auth(table, i, delay)
                   /\ UNCHANGED carried
    /\ UNCHANGED <<next_id, links, now, offered>>

(* A packet of the gateway for the flow keeps it alive as well.            *)
Ingress(k) ==
    /\ links # {} /\ table' = observe(table, k) /\ table' # table
    /\ UNCHANGED <<next_id, links, requests, now, offered, carried>>

LinkDrops(link) ==
    /\ link \in links /\ links' = links \ {link}
    /\ requests' = {r \in requests : r.link # link}
    /\ UNCHANGED <<table, next_id, now, offered, carried>>

LinkUp(link) ==
    /\ link \notin links /\ links' = links \cup {link}
    /\ UNCHANGED <<table, next_id, requests, now, offered, carried>>

PassTime ==
    /\ now < MaxTime /\ now' = now + 1
    /\ UNCHANGED <<table, next_id, links, requests, offered, carried>>

Next ==
    \/ \E k \in Keys : Ingress(k) \/ \E l \in Links : send_packet(k, l)
    \/ \E l \in Links : Scan(l) \/ LinkDrops(l) \/ LinkUp(l)
    \/ \E r \in requests : handle_auth_response(r)
    \/ Tick
    \/ PassTime

Spec == Init /\ [][Next]_vars

-----------------------------------------------------------------------------
(* Properties.                                                             *)

(* Types, and the table's limits (flows, packets waiting in one of them).  *)
TypeOK ==
    /\ table \in Seq(Flow) /\ Len(table) <= MaxFlows
    /\ \A i \in DOMAIN table : Len(table[i].pending) <= MaxPending
    /\ next_id \in 0 .. MaxIds /\ links \subseteq Links /\ now \in Nat
    /\ offered \in [Keys -> Nat]

(* A flow that waits for an answer has a deadline for it, and no other     *)
(* flow has one: no flow waits for ever, none fails while it rests (with   *)
(* the types and limits of the table).                                     *)
RequestedIsTimed ==
    /\ TypeOK
    /\ \A i \in DOMAIN table :
          LET f == table[i]
          IN  /\ f.state = "Pending" => (f.requested <=> f.deadline # Never)
              /\ f.state = "Authenticated" => f.deadline = Never

(* The gateway sees a five-tuple's packets in the order they were sent,    *)
(* each at most once, and what waits is newer than all of them: a flush    *)
(* does not repeat or overtake, also when the flow was forgotten and       *)
(* created again, or answered late; a flow with a token holds nothing.     *)
PacketsInOrder ==
    /\ \A k \in Keys : \A i, j \in DOMAIN carried[k] :
          i < j => carried[k][i].packet < carried[k][j].packet
    /\ \A i \in DOMAIN table :
          LET f == table[i]
          IN  /\ f.state = "Authenticated" => f.pending = <<>>
              /\ \A p \in DOMAIN f.pending, c \in DOMAIN carried[f.key] :
                    carried[f.key][c].packet < f.pending[p]

(* No packet travels with the token of other hosts; and unless the answer  *)
(* left open which flow it was for (no live id, and the addresses without  *)
(* all of ports and protocol), none with the token of another five-tuple   *)
(* or of a younger flow: ids are not reused when flows go and come back,   *)
(* and there is one flow per five-tuple.  An answer that left it open is   *)
(* taken by the first flow of the table that fits.                         *)
Rightful(token, id, k) ==
    /\ Hosts[token.key] = Hosts[k]
    /\ token.exact => token.key = k /\ token.id \in 1 .. id
TokenOfItsFlow ==
    /\ \A i, j \in DOMAIN table :
          /\ table[i].id <= next_id
          /\ i # j => table[i].id # table[j].id /\ table[i].key # table[j].key
    /\ \A k \in Keys : \A i \in DOMAIN carried[k] :
          Rightful(carried[k][i].token, carried[k][i].flow, k)

(* A gateway of which no answer was taken for the flow is asked at most    *)
(* MaxAttempts times for it.                                               *)
SilenceGivesUp ==
    \A i \in DOMAIN table :
       ~table[i].answered => table[i].asked <= MaxAttempts

(* No flow is asked for again while a request of it still has time: only   *)
(* after its deadline or an answer, its own or one taken for it.           *)
AsksOneAtATime ==
    [][\A i \in DOMAIN table, j \in DOMAIN table' :
          table[i].id = table'[j].id /\ table'[j].asked > table[i].asked =>
             ~table[i].requested \/ now >= table[i].deadline]_vars
=============================================================================
