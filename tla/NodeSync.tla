------------------------------ MODULE NodeSync ------------------------------
(***************************************************************************)
(* How a node obtains the chain from its peers (net/node.cpp): the sync    *)
(* protocol (synopsis, lists of block ids, requests for blocks, the        *)
(* backlog, the asynchronous calls of the application), the inventory      *)
(* protocol of normal operation, request timeouts and closed connections.  *)
(*                                                                         *)
(* One node and its peers on one chain without forks, so that a block is   *)
(* its number and 0 is the null id.  A peer runs the same code; of its     *)
(* state only what the node can observe is kept.  The fields of a          *)
(* connection are those of peer_connection; in and out are the messages    *)
(* under way, delivered in order and lost when the connection closes.      *)
(*                                                                         *)
(* The node runs cooperative tasks.  The only yield kept is the one in     *)
(* handle_block, which another thread serves in the order of the calls:    *)
(* calls holds the calls that have been made, answered or not.             *)
(***************************************************************************)
EXTENDS Integers, Sequences, FiniteSets, FiniteSetsExt, SequencesExt

CONSTANTS
    Peers,            \* the nodes that this one connects to
    N,                \* the blocks that are ever produced
    Start,            \* the node's head block at the beginning
    PeerHead,         \* that of each peer
    IdLimit,          \* how many ids get_block_ids returns at most
    MinPrefetch,      \* GRAPHENE_NET_MIN_BLOCK_IDS_TO_PREFETCH
    MaxPerPeer,       \* _maximum_blocks_per_peer_during_syncing
    MaxHandled,       \* _maximum_number_of_blocks_to_handle_at_one_time
    MaxPrefetched,    \* _maximum_number_of_sync_blocks_to_prefetch
    UndoDepth,        \* the undo history of the chain database
    NoPeer,           \* the origin of a sync block that is handed over
    MaxFaults         \* bound: connections lost, blocks not found at a peer or rejected

Blocks == 1 .. N

ASSUME SyncAssumption ==
    /\ N \in Nat /\ Start \in 0 .. N /\ PeerHead \in [Peers -> 0 .. N] /\ NoPeer \notin Peers
    /\ {IdLimit, MaxPerPeer, MaxHandled, MaxPrefetched} \subseteq Nat \ {0}
    /\ IdLimit > 1 /\ {MinPrefetch, UndoDepth, MaxFaults} \subseteq Nat

VARIABLES
    head,        \* the application: head_block_num()
    peer,        \* the connections, active, closing or terminating
    active,      \* _active_sync_requests
    new,         \* _new_received_sync_items, the last one received last
    received,    \* _received_sync_items
    accepted,    \* _most_recent_blocks_accepted
    calls,       \* the calls of handle_block in progress
    suspended,   \* _suspend_fetching_sync_blocks
    to_fetch,    \* _items_to_fetch
    inventory,   \* _new_inventory
    wanted,      \* the loops and tasks that have been triggered
    peer_head,   \* the head block of each peer
    faults,      \* how much has gone wrong so far
    lacked,      \* history: the blocks that a peer named and then had not got
    rejected     \* history: the blocks that the application rejected

vars == <<head, peer, active, new, received, accepted, calls, suspended,
          to_fetch, inventory, wanted, peer_head, faults, lacked, rejected>>

-----------------------------------------------------------------------------
(* Connections *)

\* A message: kind, and the ids it carries; left is
\* total_remaining_item_count.
Msg(kind, ids) == [kind |-> kind, ids |-> ids, left |-> 0]

Closed ==
    [state |-> "closed", in |-> << >>, out |-> << >>,
     toGet |-> << >>,          \* ids_of_items_to_get
     unfetched |-> 0,          \* number_of_unfetched_item_ids
     processing |-> {},        \* ids_of_items_being_processed
     requested |-> {},         \* sync_items_requested_from_peer
     asked |-> {},             \* item_ids_requested_from_peer: the synopsis, if any
     items |-> {},             \* items_requested_from_peer
     offered |-> {},           \* inventory_peer_advertised_to_us
     told |-> {},              \* inventory_advertised_to_peer
     we_need |-> TRUE,         \* we_need_sync_items_from_peer
     peer_needs |-> TRUE,      \* peer_needs_sync_items_from_us
     inhibit |-> FALSE,        \* inhibit_fetching_sync_blocks
     seen |-> 0,               \* last_block_delegate_has_seen
     they_think |-> TRUE]      \* the peer's own peer_needs_sync_items_from_us

Active == {p \in Peers : peer[p].state = "active"}
Busy(c) == c.items # {} \/ c.requested # {} \/ c.asked # {}

send(c, msg) == [c EXCEPT !.out = Append(@, msg)]

\* The socket of a connection that is "terminating" is closed already; the
\* task that reads from it has still to find out.
Open(c) == c.state \in {"active", "closing"}

\* disconnect_from_peer: the connection is left to the timeout of the closing
\* list, unless its socket is closed.
disconnect(c) == [c EXCEPT !.state = IF @ = "terminating" THEN @ ELSE "closing"]

-----------------------------------------------------------------------------
(* Synopses: blocks at intervals that halve towards the end *)

\* From low, halving the distance to end, up to high.
Halving(low, high, end) ==
    LET from[l \in 1 .. end + 1] ==
            IF l > high THEN << >>
            ELSE <<l>> \o from[l + (end - l + 2) \div 2]
    IN  from[low]

\* get_blockchain_synopsis of a chain with this head, up to the reference
\* point, with room for more blocks after it.
get_blockchain_synopsis(h, reference, more) ==
    LET undoable == IF h > UndoDepth THEN h - UndoDepth ELSE 0
        high == IF reference # 0 THEN reference ELSE h
    IN  IF high = 0 THEN << >>
        ELSE Halving(Max({1, Min({undoable, high})}), high, high + more)

\* create_blockchain_synopsis_for_peer: the ids the peer has already sent
\* follow the blocks of the chain.
create_blockchain_synopsis_for_peer(c) ==
    LET s == get_blockchain_synopsis(head, c.seen, Len(c.toGet))
        low == IF s = << >> THEN 1 ELSE Head(s)
        end == Last(c.toGet)
    IN  IF c.toGet = << >> THEN s
        ELSE s \o SelectSeq(Halving(low, end, end), LAMBDA b : b >= Head(c.toGet))

fetch_next_batch_of_item_ids(c) ==
    LET s == create_blockchain_synopsis_for_peer(c)
    IN  send([c EXCEPT !.asked = {s}], Msg("fetch_ids", s))

\* Mutant: the requests under way are forgotten.
start_synchronizing_forgets(c) ==
    fetch_next_batch_of_item_ids(
        [c EXCEPT !.toGet = << >>, !.unfetched = 0, !.we_need = TRUE,
                  !.seen = 0, !.inhibit = FALSE, !.requested = {}, !.items = {}])

start_synchronizing_with_peer(c) ==
    fetch_next_batch_of_item_ids(
        [c EXCEPT !.toGet = << >>, !.unfetched = 0, !.we_need = TRUE,
                  !.seen = 0, !.inhibit = FALSE])

\* get_block_ids of a chain with this head: the blocks from the last one of
\* the synopsis that it knows.
get_block_ids(h, synopsis) ==
    LET known == {b \in ToSet(synopsis) : b <= h}
        first == IF known = {} THEN 1 ELSE Max(known)
        last == Min({h, first + IdLimit - 1})
    IN  IF h = 0 \/ (synopsis # << >> /\ known = {})
        THEN Msg("ids", << >>)
        ELSE [Msg("ids", [i \in 1 .. last - first + 1 |-> first + i - 1])
                 EXCEPT !.left = h - last]

\* Whether that answer shows that the one who asked lacks blocks.
NeedsItems(answer, synopsis) ==
    /\ answer.ids # << >>
    /\ ~(/\ Len(answer.ids) = 1
         /\ ToSet(answer.ids) \subseteq ToSet(synopsis))

-----------------------------------------------------------------------------
Init ==
    /\ head = Start /\ peer = [p \in Peers |-> Closed]
    /\ active = {} /\ new = << >> /\ received = << >> /\ accepted = {}
    /\ calls = << >> /\ suspended = FALSE /\ to_fetch = {} /\ inventory = {}
    /\ wanted = {} /\ peer_head = PeerHead /\ faults = 0 /\ lacked = {} /\ rejected = {}

chainUnchanged == UNCHANGED <<head, calls, accepted>>
syncUnchanged == UNCHANGED <<active, new, received, suspended>>
itemsUnchanged == UNCHANGED <<to_fetch, inventory>>
worldUnchanged == UNCHANGED <<peer_head, faults, lacked, rejected>>

\* The handshake is over: move_peer_to_active_list, new_peer_just_added.  The
\* peer does the same, so that its own request is under way.  (When that request
\* is what ends the handshake of an inbound connection, it is read next.)
Connect(p) ==
    /\ peer[p].state = "closed"
    /\ peer' = [peer EXCEPT ![p] =
                  start_synchronizing_with_peer(
                     [Closed EXCEPT
                        !.state = "active",
                        !.in = <<Msg("fetch_ids",
                                     get_blockchain_synopsis(peer_head[p], 0, 0))>>])]
    /\ UNCHANGED wanted /\ chainUnchanged /\ syncUnchanged /\ itemsUnchanged
    /\ worldUnchanged

-----------------------------------------------------------------------------
(* The loops *)

\* Mutant: the requests of earlier iterations are not looked at.
SyncRequest_again(c, taken) ==
    LET free == SelectSeq(c.toGet, LAMBDA b : b \notin taken
                                     \cup ToSet(received) \cup ToSet(new))
    IN  IF c.state = "active" /\ c.we_need /\ ~Busy(c) /\ ~c.inhibit
        THEN SubSeq(free, 1, Min({Len(free), MaxPerPeer})) ELSE << >>

\* Mutant: the last id of a list is never requested.
SyncRequest_leavesLast(c, taken) ==
    LET free == SelectSeq(c.toGet, LAMBDA b : b \notin active \cup taken
                                     \cup ToSet(received) \cup ToSet(new))
    IN  IF c.state = "active" /\ c.we_need /\ ~Busy(c) /\ ~c.inhibit
        THEN SubSeq(free, 1, Min({Len(free) - 1, MaxPerPeer})) ELSE << >>

\* The requests that one peer gets, given the ids that earlier peers of this
\* iteration got: the first ones that nobody has been asked for.
SyncRequest(c, taken) ==
    LET free == SelectSeq(c.toGet, LAMBDA b : b \notin active \cup taken
                                     \cup ToSet(received) \cup ToSet(new))
    IN  IF c.state = "active" /\ c.we_need /\ ~Busy(c) /\ ~c.inhibit
        THEN SubSeq(free, 1, Min({Len(free), MaxPerPeer})) ELSE << >>

\* fetch_sync_items_loop, over the peers in the order of the container.
FetchSyncItems(order) ==
    LET step(acc, p) ==
            LET ids == SyncRequest(acc.peer[p], acc.taken)
            IN  IF ids = << >> THEN acc
                ELSE [peer |-> [acc.peer EXCEPT ![p] =
                         send([@ EXCEPT !.requested = @ \cup ToSet(ids)],
                              Msg("fetch", ids))],
                      taken |-> acc.taken \cup ToSet(ids)]
        done == FoldLeft(step, [peer |-> peer, taken |-> {}], order)
    IN  /\ peer' = done.peer /\ active' = active \cup done.taken

fetch_sync_items_loop ==
    /\ "sync" \in wanted
    /\ wanted' = wanted \ {"sync"}
    /\ IF suspended THEN UNCHANGED <<peer, active>>
       ELSE \E order \in SetToSeqs(Peers) : FetchSyncItems(order)
    /\ UNCHANGED <<new, received, suspended>>
    /\ chainUnchanged /\ itemsUnchanged /\ worldUnchanged

\* fetch_items_loop: each item from one of the idle peers that offered it,
\* one item for each peer.
fetch_items_loop ==
    /\ "items" \in wanted
    /\ wanted' = wanted \ {"items"}
    /\ \E order \in SetToSeqs(Peers) :
         LET step(acc, p) ==
                 LET c == acc.peer[p]
                     can == c.offered \cap acc.left
                 IN  IF c.state # "active" \/ Busy(c) \/ can = {} THEN acc
                     ELSE [peer |-> [acc.peer EXCEPT ![p] =
                              send([@ EXCEPT !.items = {Min(can)}],
                                   Msg("fetch", <<Min(can)>>))],
                           left |-> acc.left \ {Min(can)}]
             done == FoldLeft(step, [peer |-> peer, left |-> to_fetch], order)
         IN  peer' = done.peer /\ to_fetch' = done.left
    /\ UNCHANGED inventory /\ chainUnchanged /\ syncUnchanged /\ worldUnchanged

\* advertise_inventory_loop: to the peers that are in sync with the node.
\* What they do with it the node does not see.
advertise_inventory_loop ==
    /\ inventory # {}
    /\ inventory' = {}
    /\ peer' = [p \in Peers |->
                  IF p \in Active /\ ~peer[p].peer_needs
                  THEN [peer[p] EXCEPT !.told = @ \cup (inventory \ peer[p].offered)]
                  ELSE peer[p]]
    /\ UNCHANGED <<to_fetch, wanted>> /\ chainUnchanged /\ syncUnchanged
    /\ worldUnchanged

-----------------------------------------------------------------------------
(* The backlog of sync blocks *)

\* Mutant: some peer waits for this block.
IsFront_listed(c, b) == c.state = "active" /\ b \in ToSet(c.toGet)

\* Some peer waits for this block next.
IsFront(c, b) == c.state = "active" /\ c.toGet # << >> /\ Head(c.toGet) = b

\* The block is taken off the front of every list that it leads.
TakeFront(c, b) ==
    IF IsFront(c, b)
    THEN [c EXCEPT !.toGet = Tail(@), !.processing = @ \cup {b}] ELSE c

Call(b, from) == [block |-> b, from |-> from, result |-> "none"]

\* One iteration of the loop of process_backlog_of_sync_blocks.  A block that
\* was accepted before ends the loop where it is.
BacklogStep(s) ==
    LET fits == {i \in DOMAIN s.received :
                    \E p \in Peers : IsFront(s.peer[p], s.received[i])}
        b == s.received[Min(fits)]
        taken == [s EXCEPT !.peer = [p \in Peers |-> TakeFront(s.peer[p], b)]]
    IN  IF fits = {} THEN [s EXCEPT !.again = FALSE]
        ELSE IF b \in accepted THEN [taken EXCEPT !.again = FALSE]
        ELSE [taken EXCEPT !.received = RemoveAt(@, Min(fits)),
                           !.calls = Append(@, Call(b, NoPeer))]

\* The loop ends when too many blocks are being handled, and then holds the
\* requests back if the backlog is long.
Full(cs) == Len(SelectSeq(cs, LAMBDA c : c.from = NoPeer)) >= MaxHandled

Backlog ==
    LET next(s, i) ==
            IF s.again /\ ~Full(s.calls) THEN BacklogStep(s) ELSE s
    IN  FoldLeft(next,
            [peer |-> peer, received |-> new \o received, calls |-> calls,
             again |-> TRUE],
            [i \in 1 .. Len(new \o received) + 1 |-> i])

process_backlog_of_sync_blocks ==
    /\ "backlog" \in wanted
    /\ IF Full(calls)
       THEN /\ wanted' = wanted \ {"backlog"}
            /\ UNCHANGED <<peer, received, new, calls, suspended>>
       ELSE /\ peer' = Backlog.peer /\ calls' = Backlog.calls
            /\ received' = Backlog.received /\ new' = << >>
            /\ suspended' = (Full(calls') /\ Len(received') >= MaxPrefetched)
            /\ wanted' = (wanted \ {"backlog"})
                             \cup IF suspended' THEN {} ELSE {"sync"}
    /\ UNCHANGED <<head, accepted, active>> /\ itemsUnchanged /\ worldUnchanged

-----------------------------------------------------------------------------
(* handle_block *)

\* The application pushes the block of the oldest call that waits.  A block
\* that does not link is refused, and by a clock that is behind any block is
\* rejected as one of the future.
handle_block ==
    \E i \in DOMAIN calls :
        /\ calls[i].result = "none" /\ \A j \in 1 .. i - 1 : calls[j].result # "none"
        /\ LET b == calls[i].block
           IN  \/ /\ b > head + 1
                  /\ calls' = [calls EXCEPT ![i].result = "unlinkable"]
                  /\ UNCHANGED <<head, faults, rejected>>
               \/ /\ b <= head + 1
                  /\ calls' = [calls EXCEPT ![i].result = "accepted"]
                  /\ head' = Max({head, b}) /\ UNCHANGED <<faults, rejected>>
               \/ /\ faults < MaxFaults /\ faults' = faults + 1
                  /\ calls' = [calls EXCEPT ![i].result = "rejected"]
                  /\ rejected' = rejected \cup {b} /\ UNCHANGED head
    /\ UNCHANGED <<peer, accepted, wanted, peer_head, lacked>> /\ syncUnchanged
    /\ itemsUnchanged

\* What an accepted sync block does to a connection.
SyncBlockAccepted(c, b) ==
    LET d == [c EXCEPT !.seen = b, !.processing = @ \ {b}]
    IN  IF c.state # "active" THEN c
        ELSE IF c.toGet = << >> /\ c.processing = {}
        THEN IF ~c.peer_needs /\ ~c.we_need
             THEN start_synchronizing_with_peer(c) ELSE c
        ELSE IF b \notin c.processing THEN c
        ELSE IF d.toGet = << >> /\ d.unfetched = 0 /\ d.processing = {}
        THEN fetch_next_batch_of_item_ids(d) ELSE d

\* send_sync_block_to_node_delegate, after the call.
SyncBlockHandled(i) ==
    LET b == calls[i].block
    IN  /\ calls[i].from = NoPeer /\ calls[i].result # "none"
        /\ calls' = RemoveAt(calls, i)
        /\ wanted' = wanted \cup {"backlog"}
        /\ IF calls[i].result = "accepted"
           THEN /\ accepted' = accepted \cup {b}
                /\ peer' = [p \in Peers |-> SyncBlockAccepted(peer[p], b)]
           ELSE /\ UNCHANGED accepted
                /\ peer' = [p \in Peers |->
                              IF p \in Active /\ b \in peer[p].processing
                              THEN disconnect(peer[p]) ELSE peer[p]]
        /\ UNCHANGED head /\ syncUnchanged /\ itemsUnchanged /\ worldUnchanged

\* A block of normal operation has been accepted, now or before: the node
\* offers it to the others.
NormalAccepted(conns, p, b) ==
    /\ accepted' = accepted \cup {b}
    /\ inventory' = inventory \cup {b}
    /\ peer' = [q \in Peers |-> IF conns[q].state = "active" /\ b \in conns[q].offered
                                THEN [conns[q] EXCEPT !.seen = b] ELSE conns[q]]
    /\ wanted' = wanted \cup IF Busy(conns[p]) THEN {} ELSE {"items"}

\* process_block_during_normal_operation, after the call.  A block that does
\* not link makes the node synchronize with the peer again; a rejected one
\* costs the connection to it and to those that would send the block next.
NormalBlockHandled(i) ==
    LET p == calls[i].from
        b == calls[i].block
    IN  /\ p # NoPeer
        /\ calls' = RemoveAt(calls, i)
        /\ \/ calls[i].result = "accepted" /\ NormalAccepted(peer, p, b)
           \/ /\ calls[i].result = "unlinkable"
              /\ peer' = [peer EXCEPT ![p] = start_synchronizing_with_peer(@)]
              /\ UNCHANGED <<accepted, inventory, wanted>>
           \/ /\ calls[i].result = "rejected"
              /\ peer' = [q \in Peers |-> IF q = p \/ IsFront(peer[q], b)
                                          THEN disconnect(peer[q]) ELSE peer[q]]
              /\ UNCHANGED <<accepted, inventory, wanted>>
        /\ UNCHANGED <<head, to_fetch>> /\ syncUnchanged /\ worldUnchanged

-----------------------------------------------------------------------------
(* Messages *)

\* The task that reads the messages of a peer does not wait for the application.
Idle(p) == \A i \in DOMAIN calls : calls[i].from # p

\* The next message of a peer.
Reads(p, kind) ==
    /\ Open(peer[p]) /\ peer[p].in # << >>
    /\ Head(peer[p].in).kind = kind
    /\ Idle(p)

Message(p) == Head(peer[p].in)
Rest(p) == [peer[p] EXCEPT !.in = Tail(@)]

\* on_fetch_blockchain_item_ids_message, on an active connection.  Whether the
\* peer is inhibited is read before a new round of synchronization clears it.
on_fetch_blockchain_item_ids(p) ==
    LET s == Message(p).ids
        answer == get_block_ids(head, s)
        needs == NeedsItems(answer, s)
        c == [Rest(p) EXCEPT !.peer_needs = needs]
        d == IF ~c.we_need /\ s # << >> /\ Last(s) > head
             THEN start_synchronizing_with_peer(c) ELSE c
    IN  /\ Reads(p, "fetch_ids")
        /\ peer' = [peer EXCEPT ![p] =
                      IF ~needs /\ answer.ids # << >> /\ c.inhibit
                      THEN disconnect(d) ELSE d]
        /\ UNCHANGED wanted /\ chainUnchanged /\ syncUnchanged /\ itemsUnchanged
        /\ worldUnchanged

\* A list is an answer to the synopsis that was sent if it starts at one of
\* its blocks, or at the first block if it was empty.
ValidAnswer(ids, synopsis) ==
    ids # << >> => IF synopsis = << >> THEN Head(ids) = 1
                   ELSE Head(ids) \in ToSet(synopsis)

UpToDate(c, msg) ==
    /\ msg.left = 0 /\ c.toGet = << >> /\ c.unfetched = 0
    /\ msg.ids # << >> => Len(msg.ids) = 1 /\ Head(msg.ids) <= head

\* The list of ids to get, with the new ids joined to it: the ones that the
\* application has are skipped, unless another peer waits for the first one;
\* a list that exists is cut back to where the new one begins.
JoinIds(c, others, ids) ==
    LET shared == \E q \in others : IsFront(peer[q], Head(ids))
        known == {b \in ToSet(ids) : b <= head}
        kept == SelectSeq(c.toGet, LAMBDA b : b < Head(ids))
        joins == Head(ids) \in ToSet(c.toGet)
    IN  IF ids = << >> THEN c
        ELSE IF c.toGet # << >>
        THEN IF joins THEN [c EXCEPT !.toGet = kept \o ids]
             ELSE [c EXCEPT !.toGet = Tail(ids), !.seen = Head(ids)]
        ELSE IF shared \/ known = {} THEN [c EXCEPT !.toGet = ids]
        ELSE [c EXCEPT !.toGet = SelectSeq(ids, LAMBDA b : b > head),
                       !.seen = Max(known)]

\* on_blockchain_item_ids_inventory_message.
on_blockchain_item_ids_inventory(p) ==
    LET msg == Message(p)
        c == [Rest(p) EXCEPT !.asked = {}]
        d == [JoinIds(c, Active \ {p}, msg.ids) EXCEPT !.unfetched = msg.left]
        asksMore == IF msg.left # 0 THEN Len(d.toGet) <= MinPrefetch
                    ELSE d.toGet = << >>
    IN  /\ Reads(p, "ids")
        /\ \/ /\ peer[p].asked = {}
              /\ peer' = [peer EXCEPT ![p] = Rest(p)]
              /\ UNCHANGED wanted
           \/ /\ \E s \in peer[p].asked : ~ValidAnswer(msg.ids, s)
              /\ peer' = [peer EXCEPT ![p] = disconnect(Rest(p))]
              /\ UNCHANGED wanted
           \/ /\ \E s \in peer[p].asked : ValidAnswer(msg.ids, s)
              /\ IF UpToDate(c, msg)
                 THEN /\ peer' = [peer EXCEPT ![p] = [c EXCEPT !.we_need = FALSE]]
                      /\ UNCHANGED wanted
                 ELSE IF asksMore
                 THEN /\ peer' = [peer EXCEPT ![p] = fetch_next_batch_of_item_ids(d)]
                      /\ UNCHANGED wanted
                 ELSE /\ peer' = [peer EXCEPT ![p] = d]
                      /\ wanted' = wanted \cup {"sync"}
        /\ chainUnchanged /\ syncUnchanged /\ itemsUnchanged /\ worldUnchanged

\* process_block_message, of a block that an inventory offered.
NormalBlock(p) ==
    LET b == Head(Message(p).ids)
        c == [Rest(p) EXCEPT !.items = @ \ {b}]
    IN  /\ Reads(p, "block") /\ b \in peer[p].items
        /\ IF b \in accepted
           THEN NormalAccepted([peer EXCEPT ![p] = c], p, b) /\ UNCHANGED calls
           ELSE /\ peer' = [peer EXCEPT ![p] = c]
                /\ calls' = Append(calls, Call(b, p))
                /\ UNCHANGED <<accepted, inventory, wanted>>
        /\ UNCHANGED <<head, to_fetch>> /\ syncUnchanged /\ worldUnchanged

\* process_block_message, of a block that the sync protocol asked for.  One
\* that nobody asked for costs the peer its connection.
SyncBlock(p) ==
    LET b == Head(Message(p).ids)
        c == [Rest(p) EXCEPT !.requested = @ \ {b}]
        asksMore == ~Busy(c) /\ c.unfetched > 0 /\ Len(c.toGet) < MinPrefetch
    IN  /\ Reads(p, "block") /\ b \notin peer[p].items
        /\ IF b \in peer[p].requested
           THEN /\ active' = active \ {b}
                /\ new' = Append(new, b)
                /\ peer' = [peer EXCEPT ![p] =
                              IF asksMore THEN fetch_next_batch_of_item_ids(c) ELSE c]
                /\ wanted' = wanted \cup {"backlog"}
                                \cup IF Busy(c) \/ asksMore THEN {} ELSE {"sync"}
           ELSE /\ peer' = [peer EXCEPT ![p] = disconnect(c)]
                /\ UNCHANGED <<active, new, wanted>>
        /\ UNCHANGED <<received, suspended>> /\ chainUnchanged /\ itemsUnchanged
        /\ worldUnchanged

\* is_item_in_any_peers_inventory.
InAnyInventory(conns, b) ==
    \E q \in Peers : conns[q].state = "active" /\ b \in conns[q].offered

\* on_item_not_available_message.
on_item_not_available(p) ==
    LET b == Head(Message(p).ids)
        c == Rest(p)
        conns == [peer EXCEPT ![p] =
                    [c EXCEPT !.items = @ \ {b}, !.offered = @ \ {b}]]
        lacks == [c EXCEPT !.requested = @ \ {b}]
    IN  /\ Reads(p, "lacks")
        /\ IF b \in c.items
           THEN /\ peer' = conns
                /\ to_fetch' = to_fetch \cup {x \in {b} : InAnyInventory(conns, x)}
                /\ wanted' = wanted \cup {"items"}
           ELSE /\ UNCHANGED to_fetch
                /\ IF b \in c.requested
                   THEN /\ peer' = [peer EXCEPT ![p] =
                                IF c.peer_needs THEN [lacks EXCEPT !.inhibit = TRUE]
                                ELSE disconnect(lacks)]
                        /\ wanted' = wanted \cup {"sync"}
                   ELSE /\ peer' = [peer EXCEPT ![p] = c] /\ UNCHANGED wanted
        /\ UNCHANGED inventory /\ chainUnchanged /\ syncUnchanged /\ worldUnchanged

\* on_item_ids_inventory_message.
on_item_ids_inventory(p) ==
    LET b == Head(Message(p).ids)
        c == Rest(p)
        fetch == ~\E q \in Active : b \in peer[q].items
    IN  /\ Reads(p, "inventory")
        /\ IF \E q \in Active : b \in peer[q].told
           THEN peer' = [peer EXCEPT ![p] = c] /\ UNCHANGED <<to_fetch, wanted>>
           ELSE /\ peer' = [peer EXCEPT ![p] = [c EXCEPT !.offered = @ \cup {b}]]
                /\ to_fetch' = to_fetch \cup {x \in {b} : fetch}
                /\ wanted' = wanted \cup {x \in {"items"} : fetch /\ b \notin to_fetch}
        /\ UNCHANGED inventory /\ chainUnchanged /\ syncUnchanged /\ worldUnchanged

-----------------------------------------------------------------------------
(* Lost connections *)

\* on_connection_closed: what had been requested becomes free for others.
on_connection_closed(p) ==
    LET c == peer[p]
        conns == [peer EXCEPT ![p] = Closed]
    IN  /\ peer' = conns
        /\ active' = active \ c.requested
        /\ to_fetch' = to_fetch \cup {b \in c.items : InAnyInventory(conns, b)}
        /\ wanted' = wanted \cup {x \in {"sync"} : c.requested # {}}
                            \cup {x \in {"items"} : c.items # {}}
        /\ UNCHANGED <<new, received, suspended, inventory, peer_head, lacked, rejected>>
        /\ chainUnchanged

\* terminate_inactive_connections_loop closes the socket of a peer that owes an
\* answer, or that has not closed its side.  What it has requested of the peer
\* stays requested.
terminate_inactive_connections(p) ==
    /\ \/ /\ peer[p].state = "active" /\ Busy(peer[p])
          /\ faults < MaxFaults /\ faults' = faults + 1
       \/ peer[p].state = "closing" /\ UNCHANGED faults
    /\ peer' = [peer EXCEPT ![p] = [@ EXCEPT !.state = "terminating",
                                             !.in = << >>, !.out = << >>]]
    /\ UNCHANGED <<wanted, peer_head, lacked, rejected>> /\ chainUnchanged /\ syncUnchanged
    /\ itemsUnchanged

\* The task that reads finds the connection closed, by the peer or by the node.
read_loop_ends(p) ==
    /\ Idle(p)
    /\ \/ peer[p].state = "active" /\ faults < MaxFaults /\ faults' = faults + 1
       \/ peer[p].state \in {"closing", "terminating"} /\ UNCHANGED faults
    /\ on_connection_closed(p)

-----------------------------------------------------------------------------
(* The peers *)

\* A peer answers the oldest request.  It may have lost blocks that it named.
PeerAnswers(p) ==
    LET c == peer[p]
        msg == Head(c.out)
        d == [c EXCEPT !.out = Tail(@)]
        answer == get_block_ids(peer_head[p], msg.ids)
        reply(lost) == [i \in DOMAIN msg.ids |->
            Msg(IF msg.ids[i] \in lost THEN "lacks" ELSE "block", <<msg.ids[i]>>)]
    IN  /\ Open(c) /\ c.out # << >>
        /\ \/ /\ msg.kind = "fetch_ids"
              /\ peer' = [peer EXCEPT ![p] =
                    [d EXCEPT !.in = Append(@, answer),
                              !.they_think = NeedsItems(answer, msg.ids)]]
              /\ UNCHANGED <<faults, lacked>>
           \/ /\ msg.kind = "fetch"
              /\ \E lost \in SUBSET ToSet(msg.ids) :
                    /\ faults' = faults + Cardinality(lost) /\ faults' <= MaxFaults
                    /\ lacked' = lacked \cup lost
                    /\ peer' = [peer EXCEPT ![p] = [d EXCEPT !.in = @ \o reply(lost)]]
        /\ UNCHANGED <<wanted, peer_head, rejected>> /\ chainUnchanged /\ syncUnchanged
        /\ itemsUnchanged

\* A peer accepts the next block from elsewhere.  If it believes the node to
\* be in sync, it offers the block, or starts to synchronize again.
PeerGrows(p) ==
    LET b == peer_head[p] + 1
        c == peer[p]
        news == {Msg("inventory", <<b>>),
                 Msg("fetch_ids", get_blockchain_synopsis(b, 0, 0))}
    IN  /\ b <= N
        /\ peer_head' = [peer_head EXCEPT ![p] = b]
        /\ IF ~Open(c) \/ c.they_think \/ b \in c.told
           THEN UNCHANGED peer
           ELSE \E msg \in news :
                   peer' = [peer EXCEPT ![p] = [c EXCEPT !.in = Append(@, msg)]]
        /\ UNCHANGED <<wanted, faults, lacked, rejected>> /\ chainUnchanged /\ syncUnchanged
        /\ itemsUnchanged

-----------------------------------------------------------------------------
Receive(p) ==
    \/ on_fetch_blockchain_item_ids(p)
    \/ on_blockchain_item_ids_inventory(p)
    \/ NormalBlock(p)
    \/ SyncBlock(p)
    \/ on_item_not_available(p)
    \/ on_item_ids_inventory(p)

Handled == \E i \in DOMAIN calls : SyncBlockHandled(i) \/ NormalBlockHandled(i)

Next ==
    \/ \E p \in Peers : \/ Connect(p) \/ Receive(p) \/ PeerAnswers(p) \/ PeerGrows(p)
                        \/ terminate_inactive_connections(p) \/ read_loop_ends(p)
    \/ fetch_sync_items_loop
    \/ fetch_items_loop
    \/ advertise_inventory_loop
    \/ process_backlog_of_sync_blocks
    \/ handle_block
    \/ Handled

Spec == Init /\ [][Next]_vars

-----------------------------------------------------------------------------
(* Properties *)

Ids == Seq(Blocks)
Kinds == {"fetch_ids", "fetch", "ids", "block", "lacks", "inventory"}

TypeOK ==
    /\ head \in 0 .. N /\ peer_head \in [Peers -> 0 .. N] /\ faults \in 0 .. MaxFaults
    /\ {active, accepted, to_fetch, inventory, lacked, rejected} \subseteq SUBSET Blocks
    /\ new \in Ids /\ received \in Ids /\ suspended \in BOOLEAN
    /\ wanted \subseteq {"sync", "items", "backlog"}
    /\ \A i \in DOMAIN calls :
          /\ calls[i].block \in Blocks /\ calls[i].from \in Peers \cup {NoPeer}
          /\ calls[i].result \in {"none", "accepted", "unlinkable", "rejected"}
    /\ \A p \in Peers :
          LET c == peer[p]
          IN  /\ c.state \in {"closed", "active", "closing", "terminating"}
              /\ c.toGet \in Ids /\ c.unfetched \in 0 .. N /\ c.seen \in 0 .. N
              /\ {c.processing, c.requested, c.items, c.offered, c.told}
                     \subseteq SUBSET Blocks
              /\ c.asked \subseteq Ids /\ Cardinality(c.asked) <= 1
              /\ {c.we_need, c.peer_needs, c.inhibit, c.they_think} \subseteq BOOLEAN
              /\ \A i \in DOMAIN c.in : c.in[i].kind \in Kinds /\ c.in[i].ids \in Ids

Outstanding == UNION {peer[p].requested : p \in Peers}

\* A sync request that is recorded as outstanding is outstanding at exactly
\* one connection: a block is never requested from two peers at once, and
\* what a lost connection owed becomes free for the others.  Only a block
\* that its peer turned out not to have stays recorded.
RequestsTracked ==
    /\ Outstanding \subseteq active /\ active \ Outstanding \subseteq lacked
    /\ \A p, q \in Peers : p # q => peer[p].requested \cap peer[q].requested = {}

\* However the lists of several peers overlap, the backlog hands blocks to
\* the application in an order in which each one links, unless one before it
\* was rejected.
HandedInOrder ==
    \A i \in DOMAIN calls :
        calls[i].from = NoPeer /\ calls[i].result = "unlinkable"
            => \E b \in rejected : b < calls[i].block

\* Whatever restarts, times out or comes twice, the node still waits for
\* every block that is on its way to it: no peer is disconnected for a block
\* "that I didn't ask for".
BlocksAwaited ==
    \A p \in Peers : \A i \in DOMAIN peer[p].in :
        peer[p].in[i].kind = "block"
            => ToSet(peer[p].in[i].ids) \subseteq peer[p].items \cup peer[p].requested

\* Nothing is under way, and nothing will happen until a peer gets a block
\* or a connection is lost.
Quiet ==
    /\ wanted = {} /\ calls = << >>
    /\ \A p \in Active : peer[p].in = << >> /\ peer[p].out = << >>
    /\ Active = Peers

HasChain == \A p \in Peers : peer_head[p] <= head

\* The four ways in which the code comes to rest too early: a block lacked by
\* its peer is never requested again; a block that a list waits for has been
\* received, so that nobody requests it, and no task hands it over; a block
\* that came twice keeps the lists it was on from ever being done; the node
\* takes itself to be in sync with a peer that takes it to be behind.
Orphaned == active # Outstanding
Parked == \E p \in Peers : \E b \in ToSet(received) : IsFront(peer[p], b)
Duplicate == ToSet(received) \cap accepted # {}
Disagree == \E p \in Active : ~peer[p].we_need /\ peer[p].they_think

\* Apart from those, the node never comes to rest before it has the blocks of
\* all its peers: no trigger of a loop is missing, whatever is lost.
RestsInSync == Quiet => HasChain \/ Orphaned \/ Parked \/ Duplicate \/ Disagree
=============================================================================
