-------------------------- MODULE PeerConnections --------------------------
(***************************************************************************)
(* The connections between nodes (net/node.cpp, peer_connection.cpp): how   *)
(* one is opened and accepted, the exchange of hello, answer and addresses  *)
(* that makes it active, the four lists a node keeps its peers in, and how  *)
(* a connection ends: by agreement, by a timer or by an error.  Each        *)
(* connection has two ends; each node handles its own end alone.  What goes *)
(* over an active connection is the subject of NodeSync.                    *)
(***************************************************************************)
EXTENDS Naturals, Sequences, FiniteSets

CONSTANTS
    Nodes,
    ChainId,       \* of each node
    Seeds,         \* the endpoints that each node knows at the start
    CanBind,       \* whether its outgoing sockets can share the listening endpoint
    Desired,       \* _desired_number_of_connections
    Maximum,       \* _maximum_number_of_connections of each node
    Conns,         \* the connections that are ever tried (a bound)
    Openers,       \* the nodes that may open each of them (a bound)
    MaxFaults,     \* how often an end gives up a connection on its own (a bound)
    NoNode

ASSUME NodesAssumption ==
    /\ NoNode \notin Nodes
    /\ ChainId \in [Nodes -> Nat] /\ Seeds \in [Nodes -> SUBSET Nodes]
    /\ CanBind \in [Nodes -> BOOLEAN]
    /\ Desired \in Nat /\ Maximum \in [Nodes -> Nat]
    /\ IsFiniteSet(Conns) /\ Openers \in [Conns -> SUBSET Nodes] /\ MaxFaults \in Nat

VARIABLES
    route,      \* of each connection: who opened it to whom
    peer,       \* the peer_connection at each end
    wire,       \* the messages on the way to each end
    potential,  \* the endpoints in _potential_peer_db of each node
    faults,     \* how often an end has given up on its own
    early       \* history: the connections active at an end that had no hello yet

vars == <<route, peer, wire, potential, faults, early>>

Ends == Conns \X {"out", "in"}
Other(e) == <<e[1], IF e[2] = "out" THEN "in" ELSE "out">>
Node(e) == IF e[2] = "out" THEN route[e[1]].from ELSE route[e[1]].to

Lists == {"none", "handshaking", "active", "closing", "terminating"}
States == {"disconnected", "just_connected", "accepted", "rejected"}

\* negotiated: the key exchange is done and the read loop runs.  hello_due: the
\* task that connects waits for the application before it sends the hello.
Peer == [list : Lists, our_state : States, their_state : States,
         socket : {"unused", "opening", "negotiated", "closed"},
         read_loop : BOOLEAN, hello_due : BOOLEAN, node_id : Nodes \cup {NoNode},
         they_have_requested_close : BOOLEAN, we_have_requested_close : BOOLEAN]

Reasons == {"different_chain", "connected_to_self", "already_connected",
            "not_accepting_connections"}
Message == [type : {"hello", "accepted", "address_request", "fetch_blockchain_item_ids",
                    "closing"}]
           \cup [type : {"rejected"}, reason : Reasons]
           \cup [type : {"address"}, addresses : SUBSET Nodes]

NewPeer == [list |-> "none", our_state |-> "disconnected",
            their_state |-> "disconnected", socket |-> "unused",
            read_loop |-> FALSE, hello_due |-> FALSE, node_id |-> NoNode,
            they_have_requested_close |-> FALSE,
            we_have_requested_close |-> FALSE]

\* What schedule_peer_for_deletion leaves.
Deleted == [NewPeer EXCEPT !.socket = "closed"]

Init ==
    /\ route = [c \in Conns |-> [from |-> NoNode, to |-> NoNode]]
    /\ peer = [e \in Ends |-> NewPeer]
    /\ wire = [e \in Ends |-> << >>]
    /\ potential = Seeds /\ faults = 0 /\ early = {}

-----------------------------------------------------------------------------
(* What a node knows of its connections *)

EndsIn(n, lists) == {e \in Ends : peer[e].list \in lists /\ Node(e) = n}

\* Mutant: connections that have not finished their handshake do not count.
get_number_of_connections_active(n) == Cardinality(EndsIn(n, {"active"}))

get_number_of_connections(n) ==
    Cardinality(EndsIn(n, {"handshaking", "active"}))

is_accepting_new_connections(n) == get_number_of_connections(n) <= Maximum[n]
is_wanting_new_connections(n) == get_number_of_connections(n) < Desired

\* Mutant: peers that have not finished their handshake are not looked at.
is_already_connected_active(n, id) ==
    id = n \/ \E e \in EndsIn(n, {"active"}) : peer[e].node_id = id

is_already_connected_to_id(n, id) ==
    \/ id = n
    \/ \E e \in EndsIn(n, {"handshaking", "active"}) : peer[e].node_id = id

\* The remote endpoint of a connection that was accepted is the listening
\* endpoint of the peer only when the peer could bind to it.
is_connection_to_endpoint_in_progress(n, m) ==
    \E e \in EndsIn(n, {"handshaking", "active"}) :
        /\ Node(Other(e)) = m
        /\ \/ e[2] = "out"
           \/ CanBind[route[e[1]].from] /\ peer[e].our_state # "disconnected"

-----------------------------------------------------------------------------
(* Effects on one end; p is its new state, msgs is what it sends *)

\* A closed socket neither sends nor receives.
Deliver(e, p, rest, msgs) ==
    wire' = [wire EXCEPT ![e] = IF p.socket = "closed" THEN << >> ELSE rest,
                         ![Other(e)] =
               IF "closed" \in {peer[Other(e)].socket, p.socket} THEN @ ELSE @ \o msgs]

Update(e, p, msgs) ==
    peer' = [peer EXCEPT ![e] = p] /\ Deliver(e, p, wire[e], msgs)

\* The same, for the message that e has just taken from its wire.
Handle(e, p, msgs) ==
    /\ peer' = [peer EXCEPT ![e] = p] /\ Deliver(e, p, Tail(wire[e]), msgs)
    /\ early' = IF p.list = "active" /\ p.their_state = "just_connected"
                THEN early \cup {e[1]} ELSE early
    /\ UNCHANGED <<route, faults>>

\* No message is handled or sent any more, and what only those look at is
\* forgotten.
close_connection(p) ==
    [p EXCEPT !.socket = "closed", !.hello_due = FALSE, !.our_state = "disconnected",
              !.they_have_requested_close = FALSE, !.we_have_requested_close = FALSE]

Closing == [type |-> "closing"]

\* disconnect_from_peer: what it does to the end, and what it sends.
Disconnected(p) ==
    IF p.they_have_requested_close
    THEN close_connection([p EXCEPT !.list = "closing"])
    ELSE [p EXCEPT !.list = "closing", !.we_have_requested_close = TRUE]

ClosingMessage(p) == IF p.they_have_requested_close THEN << >> ELSE <<Closing>>

-----------------------------------------------------------------------------
(* Opening a connection *)

\* One connection of p2p_network_connect_loop.  The delays before an endpoint
\* is tried again are not counted.
connect_to_endpoint(c, n, m) ==
    /\ peer[<<c, "out">>].socket = "unused" /\ n \in Openers[c]
    /\ m \in potential[n]
    /\ is_wanting_new_connections(n)
    /\ ~is_connection_to_endpoint_in_progress(n, m)
    /\ route' = [route EXCEPT ![c] = [from |-> n, to |-> m]]
    /\ peer' = [peer EXCEPT ![<<c, "out">>] =
                  [NewPeer EXCEPT !.list = "handshaking", !.socket = "opening"]]
    /\ UNCHANGED <<wire, potential, faults, early>>

accept_loop(c) ==
    /\ peer[<<c, "out">>].socket = "opening" /\ peer[<<c, "in">>].socket = "unused"
    /\ peer' = [peer EXCEPT ![<<c, "in">>] =
                  [NewPeer EXCEPT !.list = "handshaking", !.socket = "opening"]]
    /\ UNCHANGED <<route, wire, potential, faults, early>>

\* The key exchange succeeds: connect_to and accept_connection return.  The read
\* loop runs from now on.
connected(e) ==
    /\ peer[e].socket = "opening"
    /\ peer[Other(e)].socket \in {"opening", "negotiated"}
    /\ Update(e, [peer[e] EXCEPT !.socket = "negotiated", !.read_loop = TRUE,
                                 !.hello_due = TRUE,
                                 !.our_state = "just_connected",
                                 !.their_state = "just_connected"], << >>)
    /\ UNCHANGED <<route, potential, faults, early>>

\* What the message says of the head block comes from the application, and the
\* task waits for it.
send_hello_message(e) ==
    /\ peer[e].hello_due
    /\ Update(e, [peer[e] EXCEPT !.hello_due = FALSE], <<[type |-> "hello"]>>)
    /\ UNCHANGED <<route, potential, faults, early>>

\* An end gives up a connection that nothing is wrong with, as far as it knows.
GivesUp(e) == faults < MaxFaults /\ faults' = faults + 1

\* connect_to throws: refused, or the other end or a timer closed the socket.
connect_failed(c) ==
    LET e == <<c, "out">>
    IN /\ peer[e].list \in {"handshaking", "terminating"}
       /\ ~peer[e].read_loop
       /\ IF "closed" \in {peer[e].socket, peer[Other(e)].socket}
          THEN UNCHANGED faults ELSE GivesUp(e)
       /\ Update(e, Deleted, << >>)
       /\ UNCHANGED <<route, potential, early>>

\* accept_connection throws when the other end is gone; nobody catches it and
\* no read loop was started, so that only the timers still know the peer.
accept_failed(c) ==
    LET e == <<c, "in">>
    IN /\ peer[e].socket = "opening" /\ peer[Other(e)].socket = "closed"
       /\ peer' = [peer EXCEPT ![e].socket = "closed"]
       /\ UNCHANGED <<route, wire, potential, faults, early>>

-----------------------------------------------------------------------------
(* Messages *)

\* The answer to a hello message, by node n to node id.
Answer(n, id) ==
    IF ChainId[n] # ChainId[id] THEN [type |-> "rejected", reason |-> "different_chain"]
    ELSE IF is_already_connected_to_id(n, id)
    THEN [type |-> "rejected",
          reason |-> IF n = id THEN "connected_to_self" ELSE "already_connected"]
    ELSE IF ~is_accepting_new_connections(n)
    THEN [type |-> "rejected", reason |-> "not_accepting_connections"]
    ELSE [type |-> "accepted"]

\* The peer is entered into the database when it seems to be a valid node: it
\* was accepted, or there is only no room for it.
Valid(answer) ==
    answer.type = "accepted" \/ answer.reason = "not_accepting_connections"

on_hello_message(e, m) ==
    LET n == Node(e)
        id == Node(Other(e))
        answer == Answer(n, id)
        p == [peer[e] EXCEPT !.node_id = id, !.their_state = answer.type]
    IN /\ m.type = "hello"
       /\ IF peer[e].their_state # "just_connected"
          THEN LET q == [peer[e] EXCEPT !.node_id = id]
               IN Handle(e, Disconnected(q), ClosingMessage(q))
          ELSE IF answer.type = "rejected" /\ answer.reason = "different_chain"
          THEN Handle(e, Disconnected(p), <<answer>> \o ClosingMessage(p))
          ELSE Handle(e, p, <<answer>>)
       /\ potential' =
            IF peer[e].their_state = "just_connected" /\ Valid(answer)
            THEN [potential EXCEPT ![n] = @ \cup {id}] ELSE potential

on_connection_accepted_message(e, m) ==
    /\ m.type = "accepted"
    /\ Handle(e, [peer[e] EXCEPT !.our_state = "accepted"],
              <<[type |-> "address_request"]>>)
    /\ UNCHANGED potential

\* An answer that was not expected throws, which ends the read loop.
on_connection_rejected_message(e, m) ==
    LET n == Node(e)
        self == m.reason = "connected_to_self"
        p == [peer[e] EXCEPT !.our_state = "rejected"]
    IN /\ m.type = "rejected"
       /\ IF peer[e].our_state # "just_connected"
          THEN Handle(e, close_connection(peer[e]), << >>)
          ELSE IF self THEN Handle(e, close_connection([p EXCEPT !.list = "closing"]), << >>)
          ELSE Handle(e, p, <<[type |-> "address_request"]>>)
       /\ potential' = IF self /\ peer[e].our_state = "just_connected"
                       THEN [potential EXCEPT ![n] = @ \ {Node(Other(e))}]
                       ELSE potential

\* The endpoints of the active peers; that of a peer which connected to this
\* node is of use only when the peer could bind to its listening endpoint.
on_address_request_message(e, m) ==
    LET active == {f \in EndsIn(Node(e), {"active"}) : f[2] = "out" \/ CanBind[route[f[1]].from]}
    IN /\ m.type = "address_request"
       /\ Handle(e, peer[e], <<[type |-> "address",
                                addresses |-> {Node(Other(f)) : f \in active}]>>)
       /\ UNCHANGED potential

\* move_peer_to_active_list and new_peer_just_added, which starts to synchronize:
\* the end asks for the ids of the blocks.  The read loop of this end waits until
\* that is sent; only the end that has accepted the connection looks at it here.
Activated(p) == [p EXCEPT !.list = "active"]
start_synchronizing_with_peer(e) ==
    IF e[2] = "out" THEN <<[type |-> "fetch_blockchain_item_ids"]>> ELSE << >>

\* Mutant: whether this node has rejected the peer is not looked at.
on_address_message_ours(e, m) ==
    LET p == peer[e]
    IN /\ m.type = "address"
       /\ IF p.list # "handshaking" THEN Handle(e, p, << >>)
          ELSE IF p.our_state = "rejected"
          THEN Handle(e, Disconnected(p), ClosingMessage(p))
          ELSE Handle(e, Activated(p), start_synchronizing_with_peer(e))
       /\ potential' = [potential EXCEPT ![Node(e)] = @ \cup m.addresses]

on_address_message(e, m) ==
    LET p == peer[e]
    IN /\ m.type = "address"
       /\ IF p.list # "handshaking" THEN Handle(e, p, << >>)
          ELSE IF "rejected" \in {p.our_state, p.their_state}
          THEN Handle(e, Disconnected(p), ClosingMessage(p))
          ELSE Handle(e, Activated(p), start_synchronizing_with_peer(e))
       /\ potential' = [potential EXCEPT ![Node(e)] = @ \cup m.addresses]

\* on_fetch_blockchain_item_ids_message: the peer synchronizes already, so that
\* a connection it has opened is taken for one whose handshake is done.
on_fetch_blockchain_item_ids_message(e, m) ==
    LET p == peer[e]
    IN /\ m.type = "fetch_blockchain_item_ids"
       /\ Handle(e, IF p.list = "handshaking" THEN Activated(p) ELSE p, << >>)
       /\ UNCHANGED potential

on_closing_connection_message(e, m) ==
    LET p == [peer[e] EXCEPT !.they_have_requested_close = TRUE]
    IN /\ m.type = "closing"
       /\ Handle(e, IF p.we_have_requested_close THEN close_connection(p) ELSE p, << >>)
       /\ UNCHANGED potential

on_message(e) ==
    /\ peer[e].socket = "negotiated" /\ wire[e] # << >>
    /\ \/ on_hello_message(e, Head(wire[e]))
       \/ on_connection_accepted_message(e, Head(wire[e]))
       \/ on_connection_rejected_message(e, Head(wire[e]))
       \/ on_address_request_message(e, Head(wire[e]))
       \/ on_address_message(e, Head(wire[e]))
       \/ on_fetch_blockchain_item_ids_message(e, Head(wire[e]))
       \/ on_closing_connection_message(e, Head(wire[e]))

-----------------------------------------------------------------------------
(* The end of a connection *)

\* disconnect_from_peer for one of the reasons of NodeSync, or because an
\* active peer has been silent for ten block intervals.
disconnect_from_peer(e) ==
    /\ peer[e].list = "active" /\ peer[e].socket = "negotiated" /\ GivesUp(e)
    /\ Update(e, Disconnected(peer[e]), ClosingMessage(peer[e]))
    /\ UNCHANGED <<route, potential, early>>

\* Mutant: the peers on the closing list are left alone.
terminate_inactive_handshaking(e) ==
    /\ peer[e].list = "handshaking"
    /\ IF peer[e].socket = "closed" THEN UNCHANGED faults ELSE GivesUp(e)
    /\ Update(e, close_connection([peer[e] EXCEPT !.list = "terminating"]), << >>)
    /\ UNCHANGED <<route, potential, early>>

\* terminate_inactive_connections_loop: a handshake that takes too long, and a
\* peer that does not close its end in time.  What it does with the
\* terminating list never happens: connection_terminated_time is only changed
\* when it has been changed before.
terminate_inactive_connections_loop(e) ==
    /\ \/ peer[e].list = "closing" /\ UNCHANGED faults
       \/ /\ peer[e].list = "handshaking"
          /\ IF peer[e].socket = "closed" THEN UNCHANGED faults ELSE GivesUp(e)
    /\ Update(e, close_connection([peer[e] EXCEPT !.list = "terminating"]), << >>)
    /\ UNCHANGED <<route, potential, early>>

\* The read loop ends: this end was closed, or the other one, after which what
\* is still on the way may be lost.
on_connection_closed(e) ==
    /\ peer[e].read_loop
    /\ "closed" \in {peer[e].socket, peer[Other(e)].socket}
    /\ Update(e, Deleted, << >>)
    /\ UNCHANGED <<route, potential, faults, early>>

-----------------------------------------------------------------------------
Next ==
    \/ \E c \in Conns, n, m \in Nodes : connect_to_endpoint(c, n, m)
    \/ \E c \in Conns : accept_loop(c) \/ connect_failed(c) \/ accept_failed(c)
    \/ \E e \in Ends : \/ connected(e) \/ send_hello_message(e) \/ on_message(e)
                       \/ disconnect_from_peer(e)
                       \/ terminate_inactive_connections_loop(e)
                       \/ on_connection_closed(e)

Spec == Init /\ [][Next]_vars

\* The loop over the connections runs every few seconds, and a read loop notices
\* that its socket is closed; each does so finitely often for a connection.  That
\* a message arrives in time is not assumed.
Fairness ==
    WF_vars(\E e \in Ends : \/ terminate_inactive_connections_loop(e)
                            \/ on_connection_closed(e))

FairSpec == Spec /\ Fairness

-----------------------------------------------------------------------------
(* Properties *)

TypeOK ==
    /\ route \in [Conns -> [from : Nodes \cup {NoNode}, to : Nodes \cup {NoNode}]]
    /\ peer \in [Ends -> Peer]
    /\ wire \in [Ends -> Seq(Message)]
    /\ potential \in [Nodes -> SUBSET Nodes] /\ faults \in 0..MaxFaults
    /\ early \subseteq Conns

\* Two nodes never keep two connections with each other, and no node one with
\* itself, although both may connect at the same time: of the connections a node
\* has accepted and not given up, each has another peer ("this already_connected
\* check must come before we fill in peer data below", on_hello_message).
OneConnectionEach ==
    \A e, f \in Ends :
        /\ peer[e].list \in {"handshaking", "active"} /\ peer[e].their_state = "accepted"
        /\ peer[f].list \in {"handshaking", "active"} /\ peer[f].their_state = "accepted"
        /\ Node(e) = Node(f)
        => /\ Node(Other(e)) # Node(e)
           /\ Node(Other(e)) = Node(Other(f)) => e = f

\* A connection that one node takes for active has been accepted by both, unless
\* the other node has given it up since, or one of them became active before the
\* hello of the other had come: that hello is answered too late, and a rejection
\* has no effect (on_address_message).
ActiveIsMutual ==
    \A e \in Ends : peer[e].list = "active" /\ e[1] \notin early =>
        /\ peer[e].our_state = "accepted" /\ peer[e].their_state = "accepted"
        /\ peer[Other(e)].their_state = "accepted" \/ peer[Other(e)].list = "none"

\* The connections that a node has accepted and not given up never exceed its
\* maximum, however many handshakes run at the same time
\* (is_accepting_new_connections).
AcceptedEnds(n) ==
    {e \in EndsIn(n, {"handshaking", "active"}) : peer[e].their_state = "accepted"}
WithinMaximum == \A n \in Nodes : Cardinality(AcceptedEnds(n)) <= Maximum[n]

\* Once one end gives up a connection on which the keys were exchanged, both
\* nodes forget it: neither keeps it on a list, counted against the maximum,
\* although the end that is told of the closing does nothing about it
\* (on_closing_connection_message, terminate_inactive_connections_loop).  There
\* are finitely many connections, so that in the end none is left half way.
GivenUp(e) == peer[e].list \in {"closing", "terminating"} \/ peer[e].socket = "closed"
Released ==
    <>[](\A e \in Ends : peer[e].read_loop => ~GivenUp(e) /\ ~GivenUp(Other(e)))
=============================================================================
