------------------------ MODULE PeerConnectionsProofs ------------------------
(***************************************************************************)
(* For every number of nodes and connections, and every order in which     *)
(* messages, timers and errors come, a hello that is sent late included:   *)
(* two nodes keep at most one connection with each other that they have    *)
(* accepted, and no node has accepted more than its maximum.               *)
(*                                                                         *)
(* An end accepts in on_hello_message only, and there it counts and looks  *)
(* at all its connections that are shaking hands or active.  The invariant *)
(* is about what it finds: whoever was accepted is known by its id.        *)
(***************************************************************************)
EXTENDS PeerConnections, FiniteSetTheorems, SequenceTheorems, TLAPS

\* An end of which nothing was heard has the state that it was made with.
Fresh == \A e \in Ends : peer[e].socket = "unused" => peer[e] = NewPeer

\* A connection has a route from the moment that it is opened, and the end that
\* accepts comes later.
Routed ==
    \A e \in Ends : peer[e].socket # "unused" =>
        /\ peer[<<e[1], "out">>].socket # "unused"
        /\ route[e[1]].from \in Nodes /\ route[e[1]].to \in Nodes

\* A peer that was accepted is known by its id.
Known == \A e \in Ends : peer[e].their_state = "accepted" => peer[e].node_id = Node(Other(e))

IInv ==
    /\ TypeOK /\ Fresh /\ Routed /\ Known
    /\ OneConnectionEach /\ WithinMaximum

-----------------------------------------------------------------------------
(* Ends and wires *)

\* The two ends of a connection.
LEMMA EndsPaired ==
    ASSUME NEW e \in Ends
    PROVE  /\ Other(e) \in Ends /\ Other(e) # e /\ Other(Other(e)) = e
           /\ e[1] \in Conns /\ Other(e)[1] = e[1] /\ e[2] \in {"in", "out"}
           /\ e = <<e[1], e[2]>> /\ <<e[1], "out">> \in Ends
           /\ \A g \in Ends : g # e /\ g # Other(e) => Other(g) # e /\ Other(g) # Other(e)
  BY DEF Ends, Other

\* There are finitely many ends.
LEMMA EndsFinite == IsFiniteSet(Ends)
  <1>1. IsFiniteSet({"out", "in"})
    <2>1. IsFiniteSet({"out"} \cup {"in"})
      BY FS_Singleton, FS_AddElement
    <2> QED
      BY <2>1
  <1> QED
    BY <1>1, NodesAssumption, FS_Product DEF Ends

\* What Deliver puts on the wires are messages.
LEMMA DeliverTyped ==
    ASSUME TypeOK, NEW e \in Ends, NEW p, NEW rest \in Seq(Message),
           NEW msgs \in Seq(Message), Deliver(e, p, rest, msgs)
    PROVE  wire' \in [Ends -> Seq(Message)]
  <1> DEFINE w2 == IF p.socket = "closed" THEN << >> ELSE rest
             v == wire[Other(e)]
             v2 == IF "closed" \in {peer[Other(e)].socket, p.socket} THEN v ELSE v \o msgs
  <1>1. wire \in [Ends -> Seq(Message)] /\ Other(e) \in Ends
    BY EndsPaired DEF TypeOK
  <1>2. w2 \in Seq(Message)
    BY EmptySeq
  <1>3. v \o msgs \in Seq(Message)
    BY <1>1, ConcatProperties
  <1>4. v2 \in Seq(Message)
    BY <1>1, <1>3
  <1>5. [wire EXCEPT ![e] = w2][Other(e)] = v
    BY <1>1, EndsPaired
  <1>6. wire' = [wire EXCEPT ![e] = w2, ![Other(e)] = v2]
    BY <1>1, <1>5, EndsPaired DEF Deliver
  <1> QED
    BY <1>1, <1>2, <1>4, <1>6

\* What the invariant says about one end.
LEMMA EndFacts ==
    ASSUME IInv, NEW e \in Ends
    PROVE  /\ peer[e] \in Peer /\ wire[e] \in Seq(Message)
           /\ peer[e].socket = "unused" => peer[e] = NewPeer
           /\ peer[e].socket # "unused" => Node(e) \in Nodes /\ Node(Other(e)) \in Nodes
           /\ peer[e].their_state = "accepted" => peer[e].node_id = Node(Other(e))
  <1>1. Other(e) \in Ends /\ Other(e)[1] = e[1]
    BY EndsPaired
  <1>2. peer[e].socket # "unused" => Node(e) \in Nodes /\ Node(Other(e)) \in Nodes
    BY <1>1 DEF IInv, Routed, Node
  <1> QED
    BY <1>2 DEF IInv, TypeOK, Fresh, Known

\* One message.
LEMMA OneMessage == ASSUME NEW m \in Message PROVE <<m>> \in Seq(Message)
  OBVIOUS

Counted == {"handshaking", "active"}

\* A step of one end by which it accepts nobody.
LEMMA KeepStep ==
    ASSUME IInv, NEW e \in Ends, NEW p \in Peer,
           peer' = [peer EXCEPT ![e] = p], wire' \in [Ends -> Seq(Message)],
           route' = route, potential' \in [Nodes -> SUBSET Nodes],
           faults' \in 0..MaxFaults, early' \subseteq Conns,
           peer[e].socket # "unused" \/ peer[<<e[1], "out">>].socket # "unused",
           p.socket # "unused",
           p.their_state = "accepted" =>
               /\ peer[e].their_state = "accepted"
               /\ p.node_id \in {peer[e].node_id, Node(Other(e))}
               /\ p.list \in Counted => peer[e].list \in Counted
    PROVE  IInv'
  <1> USE DEF IInv
  <1>1. /\ peer' \in [Ends -> Peer]
        /\ peer'[e] = p /\ \A g \in Ends : g # e => peer'[g] = peer[g]
    BY DEF TypeOK
  <1>2. TypeOK'
    BY <1>1 DEF TypeOK
  <1>3. \A g \in Ends : Node(g)' = Node(g) /\ Node(Other(g))' = Node(Other(g))
    BY DEF Node
  <1>4. Routed' /\ Fresh'
    <2>1. \A g \in Ends : <<g[1], "out">> \in Ends
      BY EndsPaired
    <2> QED
      BY <1>1, <2>1 DEF Routed, Fresh
  <1>5. Known'
    BY <1>1, <1>3 DEF Known
  <1>6. \A g \in Ends : peer'[g].list \in Counted /\ peer'[g].their_state = "accepted"
                          => peer[g].list \in Counted /\ peer[g].their_state = "accepted"
    BY <1>1
  <1>7. OneConnectionEach'
    BY <1>3, <1>6 DEF OneConnectionEach, Counted
  <1>8. WithinMaximum'
    <2> SUFFICES ASSUME NEW n \in Nodes
                 PROVE  Cardinality(AcceptedEnds(n)') <= Maximum[n]
      BY DEF WithinMaximum
    <2>1. AcceptedEnds(n)' \subseteq AcceptedEnds(n)
      BY <1>3, <1>6 DEF AcceptedEnds, EndsIn, Counted
    <2>2. IsFiniteSet(AcceptedEnds(n))
      BY EndsFinite, FS_Subset DEF AcceptedEnds, EndsIn
    <2>3. Cardinality(AcceptedEnds(n)') <= Cardinality(AcceptedEnds(n))
      BY <2>1, <2>2, FS_Subset
    <2>4. Cardinality(AcceptedEnds(n)) \in Nat /\ Cardinality(AcceptedEnds(n)') \in Nat
      BY <2>1, <2>2, FS_Subset, FS_CardinalityType
    <2> QED
      BY <2>3, <2>4, NodesAssumption DEF WithinMaximum
  <1> QED
    BY <1>2, <1>4, <1>5, <1>7, <1>8

\* An end accepts its peer: by the checks of on_hello_message it is not yet
\* connected with that node, and there is room for one more.
LEMMA AcceptingStep ==
    ASSUME IInv, NEW e \in Ends, NEW p \in Peer,
           peer' = [peer EXCEPT ![e] = p], wire' \in [Ends -> Seq(Message)],
           route' = route, potential' \in [Nodes -> SUBSET Nodes],
           faults' \in 0..MaxFaults, early' \subseteq Conns,
           peer[e].socket = "negotiated", p.socket # "unused",
           p.node_id = Node(Other(e)), p.list = peer[e].list,
           ~is_already_connected_to_id(Node(e), Node(Other(e))),
           is_accepting_new_connections(Node(e))
    PROVE  IInv'
  <1> USE DEF IInv
  <1>1. /\ peer' \in [Ends -> Peer]
        /\ peer'[e] = p /\ \A g \in Ends : g # e => peer'[g] = peer[g]
    BY DEF TypeOK
  <1>2. TypeOK'
    BY <1>1 DEF TypeOK
  <1>3. \A g \in Ends : Node(g)' = Node(g) /\ Node(Other(g))' = Node(Other(g))
    BY DEF Node
  <1>4. Routed' /\ Fresh'
    <2>1. \A g \in Ends : <<g[1], "out">> \in Ends
      BY EndsPaired
    <2> QED
      BY <1>1, <2>1 DEF Routed, Fresh
  <1>5. Known'
    BY <1>1, <1>3 DEF Known
  <1>6. /\ Node(Other(e)) # Node(e)
        /\ \A g \in Ends : /\ g # e /\ peer[g].list \in Counted
                           /\ peer[g].their_state = "accepted" /\ Node(g) = Node(e)
                           => Node(Other(g)) # Node(Other(e))
    BY DEF is_already_connected_to_id, EndsIn, Known, Counted
  <1>7. OneConnectionEach'
    <2> SUFFICES ASSUME NEW g \in Ends, NEW f \in Ends,
                        peer'[g].list \in Counted, peer'[g].their_state = "accepted",
                        peer'[f].list \in Counted, peer'[f].their_state = "accepted",
                        Node(g) = Node(f)
                 PROVE  /\ Node(Other(g)) # Node(g)
                        /\ Node(Other(g)) = Node(Other(f)) => g = f
      BY <1>3 DEF OneConnectionEach, Counted
    <2>1. CASE g = e /\ f = e
      BY <1>6, <2>1
    <2>2. CASE g = e /\ f # e
      BY <1>1, <1>6, <2>2
    <2>3. CASE g # e /\ f = e
      BY <1>1, <1>6, <2>3 DEF OneConnectionEach, Counted
    <2>4. CASE g # e /\ f # e
      BY <1>1, <2>4 DEF OneConnectionEach, Counted
    <2> QED
      BY <2>1, <2>2, <2>3, <2>4
  <1>8. WithinMaximum'
    <2> SUFFICES ASSUME NEW n \in Nodes
                 PROVE  Cardinality(AcceptedEnds(n)') <= Maximum[n]
      BY DEF WithinMaximum
    <2>1. CASE n = Node(e)
      <3>1. AcceptedEnds(n)' \subseteq EndsIn(n, Counted)
        BY <1>1, <1>3 DEF AcceptedEnds, EndsIn, Counted
      <3>2. IsFiniteSet(EndsIn(n, Counted))
        BY EndsFinite, FS_Subset DEF EndsIn
      <3>3. Cardinality(AcceptedEnds(n)') <= Cardinality(EndsIn(n, Counted))
        BY <3>1, <3>2, FS_Subset
      <3>4. Cardinality(EndsIn(n, Counted)) \in Nat /\ Cardinality(AcceptedEnds(n)') \in Nat
        BY <3>1, <3>2, FS_Subset, FS_CardinalityType
      <3>5. Cardinality(EndsIn(n, Counted)) <= Maximum[n]
        BY <2>1 DEF is_accepting_new_connections, get_number_of_connections, Counted
      <3> QED
        BY <3>3, <3>4, <3>5, NodesAssumption
    <2>2. CASE n # Node(e)
      <3>1. AcceptedEnds(n)' = AcceptedEnds(n)
        BY <1>1, <1>3, <2>2 DEF AcceptedEnds, EndsIn
      <3> QED
        BY <3>1 DEF WithinMaximum
    <2> QED
      BY <2>1, <2>2
  <1> QED
    BY <1>2, <1>4, <1>5, <1>7, <1>8

-----------------------------------------------------------------------------
(* The steps *)

LEMMA InitInv == Init => IInv
  <1> SUFFICES ASSUME Init PROVE IInv
    OBVIOUS
  <1> USE DEF Init
  <1>1. NewPeer \in Peer
    BY DEF NewPeer, Peer, Lists, States
  <1>2. TypeOK
    <2>1. wire \in [Ends -> Seq(Message)]
      BY EmptySeq
    <2>2. 0 \in 0..MaxFaults
      BY NodesAssumption
    <2> QED
      BY <1>1, <2>1, <2>2, NodesAssumption DEF TypeOK
  <1>3. Fresh /\ Routed /\ Known /\ OneConnectionEach
    BY DEF Fresh, Routed, Known, OneConnectionEach, NewPeer
  <1>4. WithinMaximum
    <2> SUFFICES ASSUME NEW n \in Nodes PROVE Cardinality(AcceptedEnds(n)) <= Maximum[n]
      BY DEF WithinMaximum
    <2>1. AcceptedEnds(n) = {}
      BY DEF AcceptedEnds, EndsIn, NewPeer
    <2> QED
      BY <2>1, FS_EmptySet, NodesAssumption
  <1> QED
    BY <1>2, <1>3, <1>4 DEF IInv

\* connect_to_endpoint gives the connection its route.
LEMMA ConnectStep ==
    ASSUME IInv, NEW c \in Conns, NEW n \in Nodes, NEW m \in Nodes,
           connect_to_endpoint(c, n, m)
    PROVE  IInv'
  <1> USE DEF IInv
  <1> DEFINE e == <<c, "out">>
             o == <<c, "in">>
             p == [NewPeer EXCEPT !.list = "handshaking", !.socket = "opening"]
  <1>1. e \in Ends /\ o \in Ends /\ Other(e) = o /\ e # o /\ e[1] = c /\ o[1] = c
        /\ \A g \in Ends : g[1] = c => g = e \/ g = o
    BY DEF Ends, Other
  <1>2. /\ peer[e].socket = "unused" /\ route' = [route EXCEPT ![c] = [from |-> n, to |-> m]]
        /\ peer' = [peer EXCEPT ![e] = p] /\ wire' = wire /\ potential' = potential
        /\ faults' = faults /\ early' = early
    BY DEF connect_to_endpoint
  <1>3. peer[o].socket = "unused"
    BY <1>1, <1>2 DEF Routed
  <1>4. p \in Peer /\ p.socket = "opening" /\ p.their_state = "disconnected"
    BY DEF NewPeer, Peer, Lists, States
  <1> HIDE DEF p
  <1>8. /\ peer' \in [Ends -> Peer]
        /\ peer'[e] = p /\ \A g \in Ends : g # e => peer'[g] = peer[g]
    BY <1>1, <1>2, <1>4 DEF TypeOK
  <1> HIDE DEF e, o
  <1>9. TypeOK'
    BY <1>2, <1>8 DEF TypeOK
  <1>10. \A g \in Ends : g # e /\ g # o =>
             /\ Node(g)' = Node(g) /\ Node(Other(g))' = Node(Other(g))
             /\ route'[g[1]] = route[g[1]]
    <2>1. \A g \in Ends : g # e /\ g # o => g[1] # c /\ Other(g)[1] = g[1] /\ g[1] \in Conns
      BY <1>1, EndsPaired
    <2>2. \A g \in Ends : g # e /\ g # o => route'[g[1]] = route[g[1]]
      BY <1>2, <2>1 DEF TypeOK
    <2> QED
      BY <2>1, <2>2 DEF Node
  <1>11. Routed'
    <2> SUFFICES ASSUME NEW g \in Ends, peer'[g].socket # "unused"
                 PROVE  /\ peer'[<<g[1], "out">>].socket # "unused"
                        /\ route'[g[1]].from \in Nodes /\ route'[g[1]].to \in Nodes
      BY DEF Routed
    <2>1. <<g[1], "out">> \in Ends
      BY EndsPaired
    <2>2. CASE g = e \/ g = o
      <3>1. g[1] = c /\ <<g[1], "out">> = e
        BY <1>1, <2>2 DEF e
      <3> QED
        BY <1>2, <1>4, <1>8, <3>1 DEF TypeOK
    <2>3. CASE g # e /\ g # o
      BY <1>4, <1>8, <1>10, <2>1, <2>3 DEF Routed
    <2> QED
      BY <2>2, <2>3
  <1>12. \A g \in Ends : peer'[g].their_state = "accepted" =>
             peer'[g] = peer[g] /\ g # e /\ g # o
    <2>1. peer[o] = NewPeer
      BY <1>1, <1>3 DEF Fresh
    <2> QED
      BY <1>1, <1>4, <1>8, <2>1 DEF NewPeer
  <1>16. Fresh'
    BY <1>4, <1>8 DEF Fresh
  <1>13. Known'
    BY <1>10, <1>12 DEF Known
  <1>14. OneConnectionEach'
    BY <1>10, <1>12 DEF OneConnectionEach
  <1>15. WithinMaximum'
    <2> SUFFICES ASSUME NEW k \in Nodes
                 PROVE  Cardinality(AcceptedEnds(k)') <= Maximum[k]
      BY DEF WithinMaximum
    <2>1. AcceptedEnds(k)' \subseteq AcceptedEnds(k)
      BY <1>10, <1>12 DEF AcceptedEnds, EndsIn
    <2>2. IsFiniteSet(AcceptedEnds(k))
      BY EndsFinite, FS_Subset DEF AcceptedEnds, EndsIn
    <2>3. Cardinality(AcceptedEnds(k)') <= Cardinality(AcceptedEnds(k))
      BY <2>1, <2>2, FS_Subset
    <2>4. Cardinality(AcceptedEnds(k)) \in Nat /\ Cardinality(AcceptedEnds(k)') \in Nat
      BY <2>1, <2>2, FS_Subset, FS_CardinalityType
    <2> QED
      BY <2>3, <2>4, NodesAssumption DEF WithinMaximum
  <1> QED
    BY <1>9, <1>11, <1>16, <1>13, <1>14, <1>15

\* accept_loop adds the other end.
LEMMA AcceptStep ==
    ASSUME IInv, NEW c \in Conns, accept_loop(c)
    PROVE  IInv'
  <1> DEFINE e == <<c, "in">>
             p == [NewPeer EXCEPT !.list = "handshaking", !.socket = "opening"]
  <1>1. e \in Ends /\ <<e[1], "out">> = <<c, "out">>
    BY DEF Ends
  <1>2. /\ peer[<<c, "out">>].socket = "opening" /\ peer' = [peer EXCEPT ![e] = p]
        /\ UNCHANGED <<route, wire, potential, faults, early>>
    BY DEF accept_loop
  <1>3. p \in Peer /\ p.socket = "opening" /\ p.their_state = "disconnected"
    BY DEF NewPeer, Peer, Lists, States
  <1>4. /\ wire' \in [Ends -> Seq(Message)] /\ potential' \in [Nodes -> SUBSET Nodes]
        /\ faults' \in 0..MaxFaults /\ early' \subseteq Conns
    BY <1>2 DEF IInv, TypeOK
  <1>5. peer[<<e[1], "out">>].socket # "unused"
    BY <1>1, <1>2
  <1> HIDE DEF e, p
  <1> QED
    BY <1>1, <1>2, <1>3, <1>4, <1>5, KeepStep

\* A step of an end that handles no message and accepts nobody.
LEMMA UpdateStep ==
    ASSUME IInv, NEW e \in Ends, NEW p \in Peer, NEW msgs \in Seq(Message),
           Update(e, p, msgs), route' = route, potential' = potential, early' = early,
           faults' = faults \/ GivesUp(e),
           peer[e].list # "none" \/ peer[e].read_loop \/ peer[e].hello_due
               \/ peer[e].socket = "opening",
           p.socket # "unused",
           p.their_state = "accepted" =>
               /\ peer[e].their_state = "accepted" /\ p.node_id = peer[e].node_id
               /\ p.list \in Counted => peer[e].list \in Counted
    PROVE  IInv'
  <1>1. peer' = [peer EXCEPT ![e] = p] /\ Deliver(e, p, wire[e], msgs)
    BY DEF Update
  <1>2. wire[e] \in Seq(Message) /\ peer[e].socket # "unused"
    BY EndFacts DEF NewPeer
  <1>3. wire' \in [Ends -> Seq(Message)]
    BY <1>1, <1>2, DeliverTyped DEF IInv
  <1>4. potential' \in [Nodes -> SUBSET Nodes] /\ early' \subseteq Conns
    BY DEF IInv, TypeOK
  <1>5. faults' \in 0..MaxFaults
    BY NodesAssumption DEF IInv, TypeOK, GivesUp
  <1> QED
    BY <1>1, <1>2, <1>3, <1>4, <1>5, KeepStep

\* connected and send_hello_message.
LEMMA ConnectedStep ==
    ASSUME IInv, NEW e \in Ends, connected(e) \/ send_hello_message(e)
    PROVE  IInv'
  <1>1. peer[e] \in Peer /\ << >> \in Seq(Message)
    BY EndFacts, EmptySeq
  <1>2. CASE connected(e)
    <2> DEFINE p == [peer[e] EXCEPT !.socket = "negotiated", !.read_loop = TRUE,
                                    !.hello_due = TRUE, !.our_state = "just_connected",
                                    !.their_state = "just_connected"]
    <2>1. p \in Peer /\ p.socket = "negotiated" /\ p.their_state = "just_connected"
      BY <1>1 DEF Peer, States
    <2>2. /\ Update(e, p, << >>) /\ peer[e].socket = "opening"
          /\ UNCHANGED <<route, potential, faults, early>>
      BY <1>2 DEF connected
    <2> HIDE DEF p
    <2> QED
      BY <1>1, <2>1, <2>2, UpdateStep
  <1>3. CASE send_hello_message(e)
    <2> DEFINE p == [peer[e] EXCEPT !.hello_due = FALSE]
               hello == <<[type |-> "hello"]>>
    <2>1. /\ p \in Peer /\ p.socket = peer[e].socket /\ p.list = peer[e].list
          /\ p.their_state = peer[e].their_state /\ p.node_id = peer[e].node_id
      BY <1>1 DEF Peer
    <2>2. /\ Update(e, p, hello) /\ peer[e].hello_due
          /\ UNCHANGED <<route, potential, faults, early>>
      BY <1>3 DEF send_hello_message
    <2>3. hello \in Seq(Message)
      <3>1. [type |-> "hello"] \in Message
        BY DEF Message
      <3> QED
        BY <3>1, OneMessage
    <2>4. peer[e].socket # "unused"
      BY <2>2, EndFacts DEF NewPeer
    <2> HIDE DEF p, hello
    <2> QED
      BY <2>1, <2>2, <2>3, <2>4, UpdateStep
  <1> QED
    BY <1>2, <1>3

\* connect_to throws.
LEMMA ConnectFailedStep ==
    ASSUME IInv, NEW c \in Conns, connect_failed(c)
    PROVE  IInv'
  <1> DEFINE e == <<c, "out">>
  <1>1. e \in Ends
    BY DEF Ends
  <1>2. /\ peer[e].list \in {"handshaking", "terminating"} /\ Update(e, Deleted, << >>)
        /\ UNCHANGED <<route, potential, early>> /\ (faults' = faults \/ GivesUp(e))
    BY DEF connect_failed
  <1>3. Deleted \in Peer /\ Deleted.socket = "closed" /\ Deleted.their_state = "disconnected"
    BY DEF Deleted, NewPeer, Peer, Lists, States
  <1>4. << >> \in Seq(Message) /\ peer[e].list # "none"
    BY <1>2, EmptySeq
  <1> HIDE DEF e
  <1> QED
    BY <1>1, <1>2, <1>3, <1>4, UpdateStep

\* on_connection_closed deletes the peer.
LEMMA ConnectionClosedStep ==
    ASSUME IInv, NEW e \in Ends, on_connection_closed(e)
    PROVE  IInv'
  <1>1. /\ peer[e].read_loop /\ Update(e, Deleted, << >>)
        /\ UNCHANGED <<route, potential, faults, early>>
    BY DEF on_connection_closed
  <1>2. Deleted \in Peer /\ Deleted.socket = "closed" /\ Deleted.their_state = "disconnected"
    BY DEF Deleted, NewPeer, Peer, Lists, States
  <1>3. << >> \in Seq(Message)
    BY EmptySeq
  <1> QED
    BY <1>1, <1>2, <1>3, UpdateStep

\* accept_connection throws.
LEMMA AcceptFailedStep ==
    ASSUME IInv, NEW c \in Conns, accept_failed(c)
    PROVE  IInv'
  <1> DEFINE e == <<c, "in">>
             p == [peer[e] EXCEPT !.socket = "closed"]
  <1>1. e \in Ends
    BY DEF Ends
  <1>2. /\ peer[e].socket = "opening" /\ peer' = [peer EXCEPT ![e] = p]
        /\ UNCHANGED <<route, wire, potential, faults, early>>
    BY <1>1 DEF accept_failed, IInv, TypeOK
  <1> HIDE DEF e
  <1>3. peer[e] \in Peer
    BY <1>1, EndFacts
  <1>4. /\ p \in Peer /\ p.socket = "closed" /\ p.list = peer[e].list
        /\ p.their_state = peer[e].their_state /\ p.node_id = peer[e].node_id
    BY <1>3 DEF Peer
  <1> HIDE DEF p
  <1>5. /\ wire' \in [Ends -> Seq(Message)] /\ potential' \in [Nodes -> SUBSET Nodes]
        /\ faults' \in 0..MaxFaults /\ early' \subseteq Conns
    BY <1>2 DEF IInv, TypeOK
  <1> QED
    BY <1>1, <1>2, <1>4, <1>5, KeepStep

\* A closed end keeps its list, its id and whether it has accepted the other.
LEMMA CloseForm ==
    ASSUME NEW p \in Peer
    PROVE  LET q == close_connection(p)
           IN  /\ q \in Peer /\ q.socket = "closed" /\ q.list = p.list
               /\ q.their_state = p.their_state /\ q.node_id = p.node_id
  BY DEF close_connection, Peer, States

\* The loop that ends handshakes and closings that take too long.
LEMMA TerminateStep ==
    ASSUME IInv, NEW e \in Ends, terminate_inactive_connections_loop(e)
    PROVE  IInv'
  <1> DEFINE q == [peer[e] EXCEPT !.list = "terminating"]
             p == close_connection(q)
  <1>1. /\ peer[e].list \in {"handshaking", "closing"} /\ Update(e, p, << >>)
        /\ UNCHANGED <<route, potential, early>> /\ (faults' = faults \/ GivesUp(e))
    BY DEF terminate_inactive_connections_loop
  <1>2. peer[e] \in Peer /\ << >> \in Seq(Message)
    BY EndFacts, EmptySeq
  <1>3. /\ q \in Peer /\ q.list = "terminating" /\ q.their_state = peer[e].their_state
        /\ q.node_id = peer[e].node_id
    BY <1>2 DEF Peer, Lists
  <1> HIDE DEF q
  <1>4. /\ p \in Peer /\ p.socket = "closed" /\ p.list = "terminating"
        /\ p.their_state = peer[e].their_state /\ p.node_id = peer[e].node_id
    BY <1>3, CloseForm
  <1> HIDE DEF p
  <1>5. peer[e].list # "none" /\ p.list \notin Counted
    BY <1>1, <1>4 DEF Counted
  <1> QED
    BY <1>1, <1>2, <1>4, <1>5, UpdateStep

\* disconnect_from_peer leaves an end on the closing list.
LEMMA DisconnectedForm ==
    ASSUME NEW p \in Peer, p.socket # "unused"
    PROVE  /\ Disconnected(p) \in Peer /\ Disconnected(p).list = "closing"
           /\ Disconnected(p).their_state = p.their_state
           /\ Disconnected(p).node_id = p.node_id /\ Disconnected(p).socket # "unused"
           /\ ClosingMessage(p) \in Seq(Message)
  <1>1. CASE p.they_have_requested_close
    <2> DEFINE q == [p EXCEPT !.list = "closing"]
    <2>1. /\ q \in Peer /\ q.list = "closing" /\ q.their_state = p.their_state
          /\ q.node_id = p.node_id
      BY DEF Peer, Lists
    <2>2. Disconnected(p) = close_connection(q) /\ ClosingMessage(p) = << >>
      BY <1>1 DEF Disconnected, ClosingMessage
    <2> HIDE DEF q
    <2> QED
      BY <2>1, <2>2, CloseForm, EmptySeq
  <1>2. CASE ~p.they_have_requested_close
    <2>1. Closing \in Message
      BY DEF Closing, Message
    <2>2. ClosingMessage(p) \in Seq(Message)
      BY <1>2, <2>1, OneMessage DEF ClosingMessage
    <2> QED
      BY <1>2, <2>2 DEF Disconnected, Peer, Lists
  <1> QED
    BY <1>1, <1>2

\* disconnect_from_peer.
LEMMA DisconnectStep ==
    ASSUME IInv, NEW e \in Ends, disconnect_from_peer(e)
    PROVE  IInv'
  <1> DEFINE p == Disconnected(peer[e])
             msgs == ClosingMessage(peer[e])
  <1>1. /\ peer[e].list = "active" /\ peer[e].socket = "negotiated" /\ Update(e, p, msgs)
        /\ UNCHANGED <<route, potential, early>> /\ GivesUp(e)
    BY DEF disconnect_from_peer
  <1>2. /\ p \in Peer /\ p.list = "closing" /\ p.socket # "unused"
        /\ p.their_state = peer[e].their_state /\ p.node_id = peer[e].node_id
        /\ msgs \in Seq(Message)
    BY <1>1, EndFacts, DisconnectedForm
  <1> HIDE DEF p, msgs
  <1>3. p.list \notin Counted /\ peer[e].list # "none"
    BY <1>1, <1>2 DEF Counted
  <1> QED
    BY <1>1, <1>2, <1>3, UpdateStep

-----------------------------------------------------------------------------
(* Messages *)

\* What handling a message changes.
LEMMA HandleForm ==
    ASSUME IInv, NEW e \in Ends, NEW p \in Peer, NEW msgs \in Seq(Message),
           wire[e] # << >>, Handle(e, p, msgs)
    PROVE  /\ peer' = [peer EXCEPT ![e] = p] /\ wire' \in [Ends -> Seq(Message)]
           /\ route' = route /\ faults' \in 0..MaxFaults /\ early' \subseteq Conns
  <1>1. /\ peer' = [peer EXCEPT ![e] = p] /\ Deliver(e, p, Tail(wire[e]), msgs)
        /\ route' = route /\ faults' = faults /\ early' \in {early, early \cup {e[1]}}
    BY DEF Handle
  <1>2. Tail(wire[e]) \in Seq(Message)
    BY EndFacts, HeadTailProperties
  <1>3. wire' \in [Ends -> Seq(Message)]
    BY <1>1, <1>2, DeliverTyped DEF IInv
  <1>4. e[1] \in Conns
    BY EndsPaired
  <1> QED
    BY <1>1, <1>3, <1>4 DEF IInv, TypeOK

\* A message by which an end accepts nobody.
LEMMA TakenStep ==
    ASSUME IInv, NEW e \in Ends, NEW p \in Peer, NEW msgs \in Seq(Message),
           peer[e].socket = "negotiated", wire[e] # << >>, Handle(e, p, msgs),
           potential' \in [Nodes -> SUBSET Nodes], p.socket # "unused",
           p.their_state = "accepted" =>
               /\ peer[e].their_state = "accepted"
               /\ p.node_id \in {peer[e].node_id, Node(Other(e))}
               /\ p.list \in Counted => peer[e].list \in Counted
    PROVE  IInv'
  BY HandleForm, KeepStep

\* The message that arrives, and the end that it arrives at.
LEMMA ArrivalFacts ==
    ASSUME IInv, NEW e \in Ends, peer[e].socket = "negotiated", wire[e] # << >>
    PROVE  /\ Head(wire[e]) \in Message /\ peer[e] \in Peer
           /\ Node(e) \in Nodes /\ Node(Other(e)) \in Nodes
           /\ potential \in [Nodes -> SUBSET Nodes]
           /\ << >> \in Seq(Message)
  BY EndFacts, HeadTailProperties, EmptySeq DEF IInv, TypeOK

\* on_connection_accepted_message and on_connection_rejected_message.
LEMMA SettledStep ==
    ASSUME IInv, NEW e \in Ends, peer[e].socket = "negotiated", wire[e] # << >>,
           \/ on_connection_accepted_message(e, Head(wire[e]))
           \/ on_connection_rejected_message(e, Head(wire[e]))
    PROVE  IInv'
  <1> DEFINE ask == <<[type |-> "address_request"]>>
             p(s) == [peer[e] EXCEPT !.our_state = s]
             q == [p("rejected") EXCEPT !.list = "closing"]
  <1>1. peer[e] \in Peer /\ Node(e) \in Nodes /\ << >> \in Seq(Message)
        /\ potential \in [Nodes -> SUBSET Nodes]
    BY ArrivalFacts
  <1>2. potential' \in [Nodes -> SUBSET Nodes]
    BY <1>1 DEF on_connection_accepted_message, on_connection_rejected_message
  <1>3. \/ \E s \in {"accepted", "rejected"} : Handle(e, p(s), ask)
        \/ Handle(e, close_connection(peer[e]), << >>)
        \/ Handle(e, close_connection(q), << >>)
    BY DEF on_connection_accepted_message, on_connection_rejected_message
  <1>4. ASSUME NEW s \in {"accepted", "rejected"}, Handle(e, p(s), ask)
        PROVE  IInv'
    <2>1. /\ p(s) \in Peer /\ p(s).their_state = peer[e].their_state
          /\ p(s).list = peer[e].list /\ p(s).socket = "negotiated"
          /\ p(s).node_id = peer[e].node_id
      BY <1>1 DEF Peer, States
    <2>2. ask \in Seq(Message)
      <3>1. [type |-> "address_request"] \in Message
        BY DEF Message
      <3> QED
        BY <3>1, OneMessage
    <2> HIDE DEF p, ask
    <2> QED
      BY <1>2, <1>4, <2>1, <2>2, TakenStep
  <1>5. CASE Handle(e, close_connection(peer[e]), << >>)
    <2> DEFINE c == close_connection(peer[e])
    <2>1. /\ c \in Peer /\ c.socket = "closed" /\ c.list = peer[e].list
          /\ c.their_state = peer[e].their_state /\ c.node_id = peer[e].node_id
      BY <1>1, CloseForm
    <2> HIDE DEF c
    <2>2. Handle(e, c, << >>)
      BY <1>5 DEF c
    <2> QED
      BY <1>1, <1>2, <2>1, <2>2, TakenStep
  <1>6. CASE Handle(e, close_connection(q), << >>)
    <2> DEFINE c == close_connection(q)
    <2>1. /\ q \in Peer /\ q.list = "closing" /\ q.their_state = peer[e].their_state
          /\ q.node_id = peer[e].node_id
      BY <1>1 DEF Peer, States, Lists
    <2> HIDE DEF q
    <2>2. /\ c \in Peer /\ c.socket = "closed" /\ c.list = "closing"
          /\ c.their_state = peer[e].their_state /\ c.node_id = peer[e].node_id
      BY <2>1, CloseForm
    <2> HIDE DEF c
    <2>3. Handle(e, c, << >>) /\ c.list \notin Counted
      BY <1>6, <2>2 DEF c, Counted
    <2> QED
      BY <1>1, <1>2, <2>2, <2>3, TakenStep
  <1> QED
    BY <1>3, <1>4, <1>5, <1>6

\* on_address_request_message answers with the nodes at the other ends.
LEMMA AddressRequestStep ==
    ASSUME IInv, NEW e \in Ends, peer[e].socket = "negotiated", wire[e] # << >>,
           on_address_request_message(e, Head(wire[e]))
    PROVE  IInv'
  <1> DEFINE active == {f \in EndsIn(Node(e), {"active"}) :
                            f[2] = "out" \/ CanBind[route[f[1]].from]}
             m == [type |-> "address", addresses |-> {Node(Other(f)) : f \in active}]
  <1>1. Handle(e, peer[e], <<m>>) /\ potential' = potential
    BY DEF on_address_request_message
  <1>2. \A f \in active : Node(Other(f)) \in Nodes
    <2> SUFFICES ASSUME NEW f \in Ends, peer[f].list = "active"
                 PROVE  Node(Other(f)) \in Nodes
      BY DEF EndsIn
    <2> QED
      BY EndFacts DEF NewPeer
  <1>3. m \in Message
    BY <1>2 DEF Message
  <1> HIDE DEF m
  <1> DEFINE msgs == <<m>>
  <1>4. msgs \in Seq(Message)
    BY <1>3, OneMessage
  <1>5. Handle(e, peer[e], msgs)
    BY <1>1
  <1> HIDE DEF msgs
  <1>6. peer[e] \in Peer /\ potential' \in [Nodes -> SUBSET Nodes]
    BY <1>1, ArrivalFacts
  <1> QED
    BY <1>4, <1>5, <1>6, TakenStep

\* What start_synchronizing_with_peer sends.
LEMMA SyncForm ==
    ASSUME NEW e \in Ends
    PROVE  start_synchronizing_with_peer(e) \in Seq(Message)
  <1>1. [type |-> "fetch_blockchain_item_ids"] \in Message
    BY DEF Message
  <1> QED
    BY <1>1, OneMessage, EmptySeq DEF start_synchronizing_with_peer

\* An end that becomes active was shaking hands.
LEMMA ActivatedStep ==
    ASSUME IInv, NEW e \in Ends, NEW msgs \in Seq(Message),
           peer[e].socket = "negotiated", wire[e] # << >>, peer[e].list = "handshaking",
           Handle(e, Activated(peer[e]), msgs), potential' \in [Nodes -> SUBSET Nodes]
    PROVE  IInv'
  <1> DEFINE p == Activated(peer[e])
  <1>1. /\ p \in Peer /\ p.socket = "negotiated" /\ p.their_state = peer[e].their_state
        /\ p.node_id = peer[e].node_id
    BY EndFacts DEF Activated, Peer, Lists
  <1>2. peer[e].list \in Counted /\ Handle(e, p, msgs)
    BY DEF Counted
  <1> HIDE DEF p
  <1> QED
    BY <1>1, <1>2, TakenStep

\* on_address_message and on_fetch_blockchain_item_ids_message are where an end
\* becomes active.
LEMMA AddressStep ==
    ASSUME IInv, NEW e \in Ends, peer[e].socket = "negotiated", wire[e] # << >>,
           \/ on_address_message(e, Head(wire[e]))
           \/ on_fetch_blockchain_item_ids_message(e, Head(wire[e]))
    PROVE  IInv'
  <1> DEFINE m == Head(wire[e])
  <1>1. /\ m \in Message /\ peer[e] \in Peer /\ Node(e) \in Nodes
        /\ potential \in [Nodes -> SUBSET Nodes] /\ << >> \in Seq(Message)
    BY ArrivalFacts
  <1>2. potential' \in [Nodes -> SUBSET Nodes]
    <2>1. CASE on_address_message(e, m)
      <3>1. m.addresses \subseteq Nodes
        BY <1>1, <2>1 DEF Message, on_address_message
      <3> QED
        BY <1>1, <2>1, <3>1 DEF on_address_message
    <2>2. CASE on_fetch_blockchain_item_ids_message(e, m)
      BY <1>1, <2>2 DEF on_fetch_blockchain_item_ids_message
    <2> QED
      BY <2>1, <2>2
  <1>3. \/ Handle(e, peer[e], << >>)
        \/ Handle(e, Disconnected(peer[e]), ClosingMessage(peer[e]))
        \/ /\ peer[e].list = "handshaking"
           /\ \/ Handle(e, Activated(peer[e]), << >>)
              \/ Handle(e, Activated(peer[e]), start_synchronizing_with_peer(e))
    BY DEF on_address_message, on_fetch_blockchain_item_ids_message
  <1>4. CASE Handle(e, peer[e], << >>)
    BY <1>1, <1>2, <1>4, TakenStep
  <1>5. CASE Handle(e, Disconnected(peer[e]), ClosingMessage(peer[e]))
    <2> DEFINE p == Disconnected(peer[e])
               msgs == ClosingMessage(peer[e])
    <2>1. /\ p \in Peer /\ p.list = "closing" /\ p.socket # "unused"
          /\ p.their_state = peer[e].their_state /\ p.node_id = peer[e].node_id
          /\ msgs \in Seq(Message)
      BY <1>1, DisconnectedForm
    <2> HIDE DEF p, msgs
    <2>2. Handle(e, p, msgs) /\ p.list \notin Counted
      BY <1>5, <2>1 DEF p, msgs, Counted
    <2> QED
      BY <1>2, <2>1, <2>2, TakenStep
  <1>6. CASE /\ peer[e].list = "handshaking"
             /\ \/ Handle(e, Activated(peer[e]), << >>)
                \/ Handle(e, Activated(peer[e]), start_synchronizing_with_peer(e))
    BY <1>1, <1>2, <1>6, SyncForm, ActivatedStep
  <1> QED
    BY <1>3, <1>4, <1>5, <1>6

\* on_closing_connection_message.
LEMMA ClosingMessageStep ==
    ASSUME IInv, NEW e \in Ends, peer[e].socket = "negotiated", wire[e] # << >>,
           on_closing_connection_message(e, Head(wire[e]))
    PROVE  IInv'
  <1> DEFINE told == [peer[e] EXCEPT !.they_have_requested_close = TRUE]
             p == IF told.we_have_requested_close THEN close_connection(told) ELSE told
  <1>1. /\ peer[e] \in Peer /\ << >> \in Seq(Message)
        /\ potential \in [Nodes -> SUBSET Nodes]
    BY ArrivalFacts
  <1>2. Handle(e, p, << >>) /\ potential' = potential
    BY DEF on_closing_connection_message
  <1>3. /\ told \in Peer /\ told.list = peer[e].list /\ told.socket = "negotiated"
        /\ told.their_state = peer[e].their_state /\ told.node_id = peer[e].node_id
    BY <1>1 DEF Peer
  <1> HIDE DEF told
  <1>4. /\ p \in Peer /\ p.list = peer[e].list /\ p.socket # "unused"
        /\ p.their_state = peer[e].their_state /\ p.node_id = peer[e].node_id
    BY <1>3, CloseForm
  <1> HIDE DEF p
  <1> QED
    BY <1>1, <1>2, <1>4, TakenStep

\* What an answer can be.
LEMMA AnswerForm ==
    ASSUME NEW n \in Nodes, NEW id \in Nodes
    PROVE  /\ Answer(n, id) \in Message /\ Answer(n, id).type \in {"accepted", "rejected"}
           /\ Answer(n, id).type = "accepted" =>
                 ~is_already_connected_to_id(n, id) /\ is_accepting_new_connections(n)
  <1> DEFINE reject(r) == [type |-> "rejected", reason |-> r]
             accept == [type |-> "accepted"]
  <1>1. \A r \in Reasons : reject(r) \in Message /\ reject(r).type = "rejected"
    BY DEF Message
  <1>2. accept \in Message /\ accept.type = "accepted"
    BY DEF Message
  <1>3. \/ \E r \in Reasons : Answer(n, id) = reject(r)
        \/ /\ Answer(n, id) = accept
           /\ ~is_already_connected_to_id(n, id) /\ is_accepting_new_connections(n)
    BY DEF Answer, Reasons
  <1> HIDE DEF reject, accept
  <1> QED
    BY <1>1, <1>2, <1>3

\* on_hello_message.
LEMMA HelloMessageStep ==
    ASSUME IInv, NEW e \in Ends, peer[e].socket = "negotiated", wire[e] # << >>,
           on_hello_message(e, Head(wire[e]))
    PROVE  IInv'
  <1> DEFINE n == Node(e)
             id == Node(Other(e))
             answer == Answer(n, id)
             q == [peer[e] EXCEPT !.node_id = id]
             p == [peer[e] EXCEPT !.node_id = id, !.their_state = answer.type]
             all == <<answer>> \o ClosingMessage(p)
  <1>1. /\ peer[e] \in Peer /\ n \in Nodes /\ id \in Nodes
        /\ potential \in [Nodes -> SUBSET Nodes]
    BY ArrivalFacts
  <1>2. potential' \in [Nodes -> SUBSET Nodes]
    <2>1. potential' = potential \/ potential' = [potential EXCEPT ![n] = @ \cup {id}]
      BY DEF on_hello_message
    <2> QED
      BY <1>1, <2>1
  <1>3. /\ answer \in Message /\ answer.type \in {"accepted", "rejected"}
        /\ answer.type = "accepted" =>
              ~is_already_connected_to_id(n, id) /\ is_accepting_new_connections(n)
    BY <1>1, AnswerForm
  <1>4. \/ Handle(e, Disconnected(q), ClosingMessage(q))
        \/ Handle(e, p, <<answer>>)
        \/ answer.type = "rejected" /\ Handle(e, Disconnected(p), all)
    BY DEF on_hello_message
  <1> HIDE DEF answer
  <1>5. /\ q \in Peer /\ q.their_state = peer[e].their_state /\ q.node_id = id
        /\ q.socket = "negotiated"
    BY <1>1 DEF Peer
  <1>6. /\ p \in Peer /\ p.their_state = answer.type /\ p.node_id = id
        /\ p.list = peer[e].list /\ p.socket = "negotiated"
    BY <1>1, <1>3 DEF Peer, States
  <1>7. <<answer>> \in Seq(Message)
    BY <1>3, OneMessage
  <1> HIDE DEF p, q
  <1>8. CASE Handle(e, Disconnected(q), ClosingMessage(q))
    <2> DEFINE d == Disconnected(q)
               msgs == ClosingMessage(q)
    <2>1. /\ d \in Peer /\ d.list = "closing" /\ d.socket # "unused"
          /\ d.their_state = peer[e].their_state /\ d.node_id = id
          /\ msgs \in Seq(Message)
      BY <1>5, DisconnectedForm
    <2> HIDE DEF d, msgs
    <2>2. Handle(e, d, msgs) /\ d.list \notin Counted
      BY <1>8, <2>1 DEF d, msgs, Counted
    <2> QED
      BY <1>2, <2>1, <2>2, TakenStep
  <1>9. CASE Handle(e, p, <<answer>>)
    <2> DEFINE msgs == <<answer>>
    <2>1. msgs \in Seq(Message) /\ Handle(e, p, msgs)
      BY <1>7, <1>9
    <2> HIDE DEF msgs
    <2>2. CASE answer.type = "rejected"
      BY <1>2, <1>6, <2>1, <2>2, TakenStep
    <2>3. CASE answer.type = "accepted"
      <3>1. /\ peer' = [peer EXCEPT ![e] = p] /\ wire' \in [Ends -> Seq(Message)]
            /\ route' = route /\ faults' \in 0..MaxFaults /\ early' \subseteq Conns
        BY <1>6, <2>1, HandleForm
      <3> QED
        BY <1>2, <1>3, <1>6, <2>3, <3>1, AcceptingStep
    <2> QED
      BY <1>3, <2>2, <2>3
  <1>10. CASE answer.type = "rejected" /\ Handle(e, Disconnected(p), all)
    <2> DEFINE d == Disconnected(p)
    <2>1. /\ d \in Peer /\ d.their_state = "rejected" /\ d.socket # "unused"
          /\ ClosingMessage(p) \in Seq(Message)
      BY <1>6, <1>10, DisconnectedForm
    <2>2. all \in Seq(Message)
      BY <1>7, <2>1, ConcatProperties
    <2> HIDE DEF d, all
    <2>3. Handle(e, d, all)
      BY <1>10 DEF d
    <2> QED
      BY <1>2, <2>1, <2>2, <2>3, TakenStep
  <1> QED
    BY <1>4, <1>8, <1>9, <1>10

-----------------------------------------------------------------------------
(* The theorems *)

LEMMA StepInv == IInv /\ [Next]_vars => IInv'
  <1> SUFFICES ASSUME IInv, [Next]_vars
               PROVE  IInv'
    OBVIOUS
  <1>1. CASE UNCHANGED vars
    <2> USE <1>1 DEF vars
    <2>1. TypeOK'
      BY DEF IInv, TypeOK
    <2>2. Fresh' /\ Routed'
      BY DEF IInv, Fresh, Routed
    <2>3. \A e : Node(e)' = Node(e)
      BY DEF Node
    <2>4. Known' /\ OneConnectionEach'
      BY <2>3 DEF IInv, Known, OneConnectionEach
    <2>5. \A n : AcceptedEnds(n)' = AcceptedEnds(n)
      BY <2>3 DEF AcceptedEnds, EndsIn
    <2>6. WithinMaximum'
      BY <2>5 DEF IInv, WithinMaximum
    <2> QED
      BY <2>1, <2>2, <2>4, <2>6 DEF IInv
  <1>2. CASE \E c \in Conns, n, m \in Nodes : connect_to_endpoint(c, n, m)
    BY <1>2, ConnectStep
  <1>3. CASE \E c \in Conns : accept_loop(c) \/ connect_failed(c) \/ accept_failed(c)
    BY <1>3, AcceptStep, ConnectFailedStep, AcceptFailedStep
  <1>4. ASSUME NEW e \in Ends, on_message(e)
        PROVE  IInv'
    <2>1. peer[e].socket = "negotiated" /\ wire[e] # << >>
      BY <1>4 DEF on_message
    <2>2. CASE on_hello_message(e, Head(wire[e]))
      BY <2>1, <2>2, HelloMessageStep
    <2>3. CASE \/ on_connection_accepted_message(e, Head(wire[e]))
               \/ on_connection_rejected_message(e, Head(wire[e]))
      BY <2>1, <2>3, SettledStep
    <2>4. CASE on_address_request_message(e, Head(wire[e]))
      BY <2>1, <2>4, AddressRequestStep
    <2>5. CASE \/ on_address_message(e, Head(wire[e]))
               \/ on_fetch_blockchain_item_ids_message(e, Head(wire[e]))
      BY <2>1, <2>5, AddressStep
    <2>6. CASE on_closing_connection_message(e, Head(wire[e]))
      BY <2>1, <2>6, ClosingMessageStep
    <2> QED
      BY <1>4, <2>2, <2>3, <2>4, <2>5, <2>6 DEF on_message
  <1>5. CASE \E e \in Ends : \/ connected(e) \/ send_hello_message(e)
                             \/ disconnect_from_peer(e)
                             \/ terminate_inactive_connections_loop(e)
                             \/ on_connection_closed(e)
    BY <1>5, ConnectedStep, DisconnectStep, TerminateStep, ConnectionClosedStep
  <1> QED
    BY <1>1, <1>2, <1>3, <1>4, <1>5 DEF Next

LEMMA Invariant == Spec => []IInv
  <1> QED
    BY InitInv, StepInv, PTL DEF Spec

\* The routes, the peers, the messages on the way and the peer databases keep
\* their types in every step of every handler.
THEOREM TypeCorrect == Spec => []TypeOK
  <1>1. IInv => TypeOK
    BY DEF IInv
  <1> QED
    BY <1>1, Invariant, PTL

\* However many nodes connect to each other at the same time, no node keeps two
\* connections that it has accepted with one peer, or one with itself: the check
\* in on_hello_message looks at the peers that are still shaking hands too.
THEOREM OneEach == Spec => []OneConnectionEach
  <1>1. IInv => OneConnectionEach
    BY DEF IInv
  <1> QED
    BY <1>1, Invariant, PTL

\* No node ever has accepted more connections than its maximum and not given them
\* up, however many handshakes run at the same time and however late a hello comes
\* (is_accepting_new_connections counts them all).
THEOREM MaximumKept == Spec => []WithinMaximum
  <1>1. IInv => WithinMaximum
    BY DEF IInv
  <1> QED
    BY <1>1, Invariant, PTL
=============================================================================
