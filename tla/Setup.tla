------------------------------- MODULE Setup -------------------------------
(***************************************************************************)
(* What is decided from documents: which routes the daemon installs on the *)
(* interface (netconfig.rs, config.rs, plan.rs), which way a packet of the *)
(* client takes and under which resource (route.rs, plane.rs), and the     *)
(* command line of the logon task (service.rs).                            *)
(*                                                                         *)
(* Addresses have Bits bits instead of 32.  A host name is a sequence of   *)
(* atoms, of which "." separates labels.  A behaviour is one case, chosen  *)
(* at the start: a session configures its interface, or a packet is        *)
(* carried, or a task is installed.                                        *)
(***************************************************************************)
EXTENDS Integers, Sequences, FiniteSets, SequencesExt

CONSTANTS
    Bits,          \* bound: bits of an address
    Endpoints,     \* candidates of a node: whether they parse, the address if any
    Addresses,     \* addresses packets go to
    Names,         \* host names the gateway publishes
    Patterns,      \* domain patterns: [wild |-> BOOLEAN, name |-> Seq]
    Ports,
    Letters,       \* characters of a path or a name
    MaxLength      \* bound: characters of an argument

ASSUME SetupAssumption ==
    /\ Bits \in Nat /\ MaxLength \in Nat
    /\ Addresses \subseteq 0 .. 2 ^ Bits - 1

VARIABLES
    case,      \* the case at hand: its kind and its documents
    answer     \* what the code has made of it

vars == <<case, answer>>

Pending == [way |-> "pending"]

-----------------------------------------------------------------------------
(* The interface.  A block is a network and a prefix length.               *)

Size(prefix) == 2 ^ (Bits - prefix)
Masked(address, prefix) == address - (address % Size(prefix))
Covers(block, address) == Masked(address, block[2]) = block[1]
parse_cidr(network, prefix) == <<Masked(network, prefix), prefix>>

node_addresses_first(nodes) ==
    UNION {nodes[group][1].at : group \in {g \in DOMAIN nodes : nodes[g] # <<>>}}

(* Every IPv4 candidate of every group, whichever of them is dialled.      *)
node_addresses(nodes) ==
    UNION {UNION {c.at : c \in ToSet(nodes[group])} : group \in DOMAIN nodes}

(* The block without the host: the half that does not hold it stays, the   *)
(* other is split again.                                                   *)
RECURSIVE split_excluding_host(_, _, _)
split_excluding_host(base, length, host) ==
    IF length >= Bits THEN {}
    ELSE LET upper == base + Size(length + 1) IN
         IF host < upper
         THEN {<<upper, length + 1>>}
                \cup split_excluding_host(base, length + 1, host)
         ELSE {<<base, length + 1>>}
                \cup split_excluding_host(upper, length + 1, host)

(* One host out of a set of blocks, ...                                    *)
Without(blocks, host) ==
    {b \in blocks : ~Covers(b, host)}
        \cup UNION {split_excluding_host(b[1], b[2], host) :
                        b \in {c \in blocks : Covers(c, host)}}

(* ... every host out of every block; a block that holds one is reported.  *)
partition_excluded(blocks, hosts) ==
    LET cut(block) == FoldLeft(Without, {block}, SetToSortSeq(hosts, <))
    IN  [kept |-> UNION {cut(b) : b \in blocks},
         dropped |-> {b \in blocks : \E h \in hosts : Covers(b, h)}]

(* The session's document says what describes the tunnel, the process's    *)
(* keeps the rest.                                                         *)
for_session(process, session) ==
    [process EXCEPT !.address = session.address, !.routes = session.routes]

resolve(config, nodes, virtual) ==
    LET address == IF config.address # {} THEN config.address ELSE virtual
        blocks == {parse_cidr(r[1], r[2]) : r \in config.routes}
    IN  IF address = {} THEN [way |-> "no address"]
        ELSE [way |-> "applied", address |-> address,
              routes |-> partition_excluded(blocks, node_addresses(nodes))]

(* The address a node connection dials, if it is one: of the first         *)
(* candidate that parses, in the group or else in the major group.         *)
node_endpoint(nodes, group, major) ==
    LET of == IF group \in DOMAIN nodes THEN group ELSE major
        sound == {i \in DOMAIN nodes[of] : nodes[of][i].parses}
    IN  IF sound = {} THEN {}
        ELSE nodes[of][CHOOSE i \in sound : \A j \in sound : i <= j].at

Configure ==
    /\ case.kind = "interface" /\ answer = Pending
    /\ answer' = resolve(for_session(case.process, case.session), case.nodes,
                         case.virtual)
    /\ UNCHANGED case

-----------------------------------------------------------------------------
(* Routes.  A resource covers a set of addresses or the names a pattern    *)
(* describes.                                                              *)

host_covers(route, address) ==
    route.domain = {} /\ address \in route.hosts

(* A pattern that begins with a star has lost it: what follows is a        *)
(* suffix when it begins with a dot.                                       *)
domain_covers(route, name) ==
    \E pattern \in route.domain :
        IF pattern.wild
        THEN IsSuffix(pattern.name, name) /\ Len(name) > Len(pattern.name)
        ELSE name = pattern.name

(* The first route that passes, if one does.                               *)
Find(routes, Test(_)) ==
    LET found == SelectSeq(routes, Test)
    IN  IF found = <<>> THEN <<>> ELSE <<Head(found)>>

match_l3(routes, address, protocol, port) ==
    LET test(route) ==
            /\ route.protocol \in {"all", protocol}
            /\ port \in route.ports
            /\ protocol = "tcp" => route.pref
            /\ host_covers(route, address)
    IN  Find(routes, test)

(* Not L3-preferred first; then, if asked, everything published.           *)
match_tcp(routes, host, port, widen) ==
    LET suits(route) ==
            /\ route.protocol \in {"all", "tcp"}
            /\ port \in route.ports
            /\ IF host.name = <<>> THEN host_covers(route, host.address)
               ELSE domain_covers(route, host.name)
        plain(route) == suits(route) /\ ~route.pref
        first == Find(routes, plain)
    IN  IF first = <<>> /\ widen THEN Find(routes, suits) ELSE first

(* The host of a dial is the name published for its address, or the        *)
(* address itself.                                                         *)
Literal(address) == [name |-> <<>>, address |-> address]
dial_host(plan, address) == [name |-> plan.names[address], address |-> address]

(* A flow is terminated when raw IP refuses it and the TCP tunnel can      *)
(* serve its published name or its address.                                *)
should_terminate_named(plan, address, port) ==
    /\ match_l3(plan.routes, address, "tcp", port) = <<>>
    /\ match_tcp(plan.routes, dial_host(plan, address), port, TRUE) # <<>>

should_terminate(plan, address, port) ==
    /\ match_l3(plan.routes, address, "tcp", port) = <<>>
    /\ \E host \in {dial_host(plan, address), Literal(address)} :
        match_tcp(plan.routes, host, port, TRUE) # <<>>

find_tcp_route(plan, host, port) ==
    LET narrow == match_tcp(plan.routes, host, port, FALSE)
    IN  IF narrow # <<>> THEN narrow
        ELSE match_tcp(plan.routes, host, port, TRUE)

(* on_outbound_packet: the terminator claims the flow, or the packet goes  *)
(* to a node, or nowhere.                                                  *)
Carry ==
    /\ case.kind = "packet" /\ answer = Pending
    /\ LET p == case.packet
           raw == match_l3(case.routes, p.address, p.protocol, p.port)
           claimed == p.protocol = "tcp"
                        /\ should_terminate(case, p.address, p.port)
       IN  answer' = CASE claimed -> [way |-> "dialled", route |-> <<>>]
                       [] ~claimed /\ raw # <<>> -> [way |-> "raw", route |-> raw]
                       [] OTHER -> [way |-> "unrouted", route |-> <<>>]
    /\ UNCHANGED case

(* Once its channel is up, the dial is signed for the resource that covers *)
(* the host it was made to, or it fails.                                   *)
Sign ==
    /\ case.kind = "packet" /\ answer.way = "dialled"
    /\ LET p == case.packet
           route == find_tcp_route(case, dial_host(case, p.address), p.port)
       IN  answer' = [way |-> IF route = <<>> THEN "failed" ELSE "relayed",
                      route |-> route]
    /\ UNCHANGED case

-----------------------------------------------------------------------------
(* The task.  An argument is a sequence of characters.                     *)

Quote == "quote"
Backslash == "backslash"
Space == "space"

Slashes(n) == [i \in 1 .. n |-> Backslash]

(* The run of backslashes before a quote, or before the end, is doubled.   *)
Escape(argument, run) ==
    LET step(acc, c) ==
            CASE c = Backslash -> [acc EXCEPT !.run = @ + 1]
              [] c = Quote ->
                   [text |-> acc.text \o Slashes(2 * acc.run) \o <<Backslash, Quote>>,
                    run |-> 0]
              [] OTHER -> [text |-> acc.text \o Slashes(acc.run) \o <<c>>, run |-> 0]
        done == FoldLeft(step, [text |-> <<>>, run |-> 0], argument)
    IN  done.text \o Slashes(run * done.run)

quote_short(argument) ==
    IF argument # <<>> /\ ToSet(argument) \cap {Space, Quote} = {} THEN argument
    ELSE <<Quote>> \o Escape(argument, 1) \o <<Quote>>

quote(argument) ==
    IF argument # <<>> /\ ToSet(argument) \cap {Space, Quote} = {} THEN argument
    ELSE <<Quote>> \o Escape(argument, 2) \o <<Quote>>

render(arguments) ==
    FlattenSeq([i \in DOMAIN arguments |->
        (IF i = 1 THEN <<>> ELSE <<Space>>) \o quote(arguments[i])])

(* Windows reads a command line back.                                      *)
split_arguments(line) ==
    LET start == [argv |-> <<>>, current |-> <<>>, inside |-> FALSE,
                  quoted |-> FALSE, run |-> 0]
        step(acc, c) ==
            CASE c = Backslash -> [acc EXCEPT !.run = @ + 1, !.inside = TRUE]
              [] c = Quote ->
                   [acc EXCEPT
                      !.current = @ \o Slashes(acc.run \div 2)
                                    \o (IF acc.run % 2 = 1 THEN <<Quote>> ELSE <<>>),
                      !.quoted = IF acc.run % 2 = 1 THEN @ ELSE ~@,
                      !.run = 0, !.inside = TRUE]
              [] c = Space /\ ~acc.quoted ->
                   LET current == acc.current \o Slashes(acc.run)
                   IN  [acc EXCEPT
                          !.argv = IF acc.inside THEN Append(@, current) ELSE @,
                          !.current = IF acc.inside THEN <<>> ELSE current,
                          !.run = 0, !.inside = FALSE]
              [] OTHER ->
                   [acc EXCEPT !.current = @ \o Slashes(acc.run) \o <<c>>,
                               !.run = 0, !.inside = TRUE]
        done == FoldLeft(step, start, line)
    IN  IF done.inside
        THEN Append(done.argv, done.current \o Slashes(done.run))
        ELSE done.argv

(* schtasks is handed the daemon's whole command line as one argument.     *)
daemon_arguments(directory) == <<<<"--config">>, directory \o <<Backslash, "host.json">>>>
task_command_line(executable, directory) ==
    render(<<executable>> \o daemon_arguments(directory))
install(executable, directory) ==
    <<<<"schtasks">>, <<"/TR">>, task_command_line(executable, directory),
      <<"/F">>>>

Install ==
    /\ case.kind = "task" /\ answer = Pending
    /\ answer' = [way |-> "printed",
                   line |-> render(install(case.executable, case.directory))]
    /\ UNCHANGED case

-----------------------------------------------------------------------------
Blocks == (0 .. 2 ^ Bits - 1) \X (0 .. Bits)
Few(S) == {{}} \cup {{x, y} : x \in S, y \in S}

Interfaces ==
    {[kind |-> "interface", virtual |-> virtual, nodes |-> nodes,
      process |-> [address |-> {}, routes |-> {}],
      session |-> [address |-> address, routes |-> routes]] :
        virtual \in {{}, {1}}, address \in {{}, {2}}, routes \in Few(Blocks),
        nodes \in [{"major"} -> BoundedSeq(Endpoints, 2)]
              \cup [{"major", "other"} -> {<<c>> : c \in Endpoints}]}

(* Two resources that may share addresses, names and ports.                *)
Resources ==
    [domain : {{}}, hosts : {Addresses, {}}, protocol : {"all", "tcp", "udp"},
     ports : SUBSET Ports, pref : BOOLEAN]
    \cup [domain : {{p} : p \in Patterns}, hosts : {{}}, protocol : {"all", "tcp"},
          ports : SUBSET Ports, pref : BOOLEAN]

Packets ==
    {[kind |-> "packet", routes |-> routes, names |-> names, packet |-> packet] :
        routes \in BoundedSeq(Resources, 2), names \in [Addresses -> Names],
        packet \in [address : Addresses, protocol : {"tcp", "udp"}, port : Ports]}

Tasks ==
    LET paths == BoundedSeq(Letters \cup {Quote, Backslash, Space}, MaxLength)
    IN  {[kind |-> "task", executable |-> e, directory |-> d] :
            e \in paths, d \in paths}

Init ==
    /\ case \in Interfaces \cup Packets \cup Tasks
    /\ answer = Pending

Next == Configure \/ Carry \/ Sign \/ Install

Spec == Init /\ [][Next]_vars

-----------------------------------------------------------------------------
(* The interface routes every address the configuration asks for but those *)
(* of the gateway's nodes, which no route may capture whichever candidate  *)
(* of whichever group a reconnect dials; and the blocks reported as cut    *)
(* are those that lost one (partition_excluded, node_endpoint).            *)
RoutesLeaveOutOnlyNodes ==
    LET asked == {a \in 0 .. 2 ^ Bits - 1 :
                    \E r \in case.session.routes : Covers(parse_cidr(r[1], r[2]), a)}
        routed == {a \in 0 .. 2 ^ Bits - 1 :
                    \E b \in answer.routes.kept : Covers(b, a)}
        dialled == UNION {node_endpoint(case.nodes, g, "major") : g \in {"major", "other"}}
        nodes == UNION {UNION {c.at : c \in ToSet(case.nodes[g])} : g \in DOMAIN case.nodes}
    IN  answer.way = "applied" =>
            /\ routed \subseteq asked /\ asked \ routed \subseteq nodes
            /\ routed \cap dialled = {}
            /\ \A b \in answer.routes.dropped : \E a \in asked \ routed : Covers(b, a)

(* A packet travels as raw IP only by a resource that lets it, a flow that *)
(* is terminated gets the gateway's answer for a resource that covers the  *)
(* host it dialled, and what goes nowhere was not published: except that a *)
(* flow the terminator claimed by its address fails when the name it is    *)
(* dialled by is not published on that port (should_terminate, match_l3,   *)
(* find_tcp_route).                                                        *)
CarriedAsPublished ==
    LET p == case.packet
        published(r) == /\ r.protocol \in {"all", p.protocol} /\ p.port \in r.ports
                        /\ \/ host_covers(r, p.address)
                           \/ p.protocol = "tcp" /\ domain_covers(r, case.names[p.address])
        offered == {r \in ToSet(case.routes) : published(r)}
        named == {r \in offered : r.domain # {}}
        used == ToSet(answer.route)
    IN  answer # Pending /\ case.kind = "packet" =>
            /\ used \subseteq offered
            /\ answer.way = "unrouted" => offered = {}
            /\ answer.way = "failed" => case.names[p.address] # <<>> /\ named = {}
            /\ \A r \in used : answer.way = "raw" /\ p.protocol = "tcp" => r.pref

(* Windows reads back, from the argument schtasks was handed, the very     *)
(* path of the binary and of its configuration, whatever spaces, quotes    *)
(* and trailing backslashes they hold (quote, render, task_command_line).  *)
CommandLineSurvives ==
    answer.way = "printed" =>
        LET argv == split_arguments(answer.line)
        IN  /\ argv = install(case.executable, case.directory)
            /\ split_arguments(argv[3])
                 = <<case.executable>> \o daemon_arguments(case.directory)
=============================================================================
