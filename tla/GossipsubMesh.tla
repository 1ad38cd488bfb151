---------------------------- MODULE GossipsubMesh ----------------------------
(***************************************************************************)
(* Topic membership in the gossipsub router: local subscriptions, the       *)
(* subscriptions of the peers, the mesh, the backoffs and the gossip of the *)
(* heartbeat (gossipsub_state.c, with the handlers in gossipsub_rx.c,       *)
(* gossipsub_api.c and gossipsub_host.c).                                   *)
(*                                                                          *)
(* Topic and peer slots are taken in order and never freed, so a topic is   *)
(* named by its slot: the slots below topicCount are in use.                *)
(*                                                                          *)
(* The loops of the code are unrolled to one enqueue per step; pc is the    *)
(* loop being executed, and every other action waits until it is "idle".    *)
(* An enqueue to a peer without a writer stream is ERR_STATE; an enqueue to *)
(* one with a writer may find its queue full (ERR_LIMIT) at any time.       *)
(***************************************************************************)
EXTENDS Integers, FiniteSets

CONSTANTS
    MaxPeers, MaxTopics,
    MaxPeerTopics,     \* config.capacity.max_peer_topics
    MaxMeshEdges,      \* config.capacity.max_mesh_edges
    MaxBackoffs,       \* config.capacity.max_backoff_entries
    D, DLow, DHigh,    \* config.mesh.d, d_low, d_high
    DLazy,             \* config.mesh.d_lazy
    GossipFactor,      \* config.mesh.gossip_factor_ppm
    PruneBackoff,      \* mesh.prune_backoff_us with the slack, in time units
    PeerBackoffs       \* backoffs a peer may ask for in a PRUNE, slack included

ASSUME MeshAssumption ==
    /\ {MaxPeers, MaxTopics, MaxBackoffs, PruneBackoff} \subseteq Nat \ {0}
    /\ {MaxPeerTopics, MaxMeshEdges, D, DLow, DHigh, DLazy, GossipFactor} \subseteq Nat
    /\ PeerBackoffs \subseteq Nat \ {0}

Peers == 0 .. MaxPeers - 1
Topics == 0 .. MaxTopics - 1
Pairs == Peers \X Topics

NoBackoff == -1

VARIABLES
    topicCount,    \* topic slots in use
    local,         \* topics with local_subscribed
    edges,         \* the pairs that have a slot in peer_topics
    subscribed,    \* those with the subscribed flag
    mesh,          \* the pairs in mesh_edges
    meshCount,     \* mesh_peer_count
    backoff,       \* pair -> time left of its backoff entry, or NoBackoff
    writer,        \* peers with a writer stream
    explicit,      \* peers with the explicit_peer flag
    pc,            \* the loop being executed
    cur,           \* the topic it works on
    next,          \* the peer or topic slot it looks at next
    cont,          \* what follows it
    served,        \* the peers the gossip loop has sent the IHAVE of its topic
    result,        \* what the last call returned
    sent,          \* the control frame the last step queued, or NoFrame
    told,          \* history: the pairs whose peer was last told SUBSCRIBE
    refused,       \* history: a queue was full
    owed,          \* history: pair -> time left of every backoff agreed on
    lost           \* history: a live backoff was replaced in a full table

tableVars == <<topicCount, local, edges, subscribed, explicit>>
meshVars == <<mesh, meshCount>>
backoffVars == <<backoff, owed, lost>>
loopVars == <<pc, cur, next, cont, served>>
vars == <<tableVars, meshVars, backoffVars, writer, loopVars, result, sent, told, refused>>

Frame == [to : Peers, type : {"SUBSCRIBE", "UNSUBSCRIBE", "GRAFT", "PRUNE", "IHAVE"}, topic : Topics]
NoFrame == [to |-> -1, type |-> "none", topic |-> -1]

-----------------------------------------------------------------------------
(***************************************************************************)
(* The tables.                                                             *)
(***************************************************************************)

\* gossipsub_find_or_add_topic finds t, or takes the next slot for it.
FindOrAdd(t) == t <= topicCount
TopicCountWith(t) == IF t = topicCount THEN topicCount + 1 ELSE topicCount

\* gossipsub_peer_subscribed and gossipsub_mesh_contains: the pair has a slot.
PeerSubscribed(p, t) == <<p, t>> \in subscribed
MeshContains(p, t) == <<p, t>> \in mesh

\* gossipsub_find_or_add_peer_topic finds the pair or a free slot for it.
PeerTopicRoom(p, t) == <<p, t>> \in edges \/ Cardinality(edges) < MaxPeerTopics

\* gossipsub_mesh_count_topic
Count(t) == Cardinality({p \in Peers : MeshContains(p, t)})

\* gossipsub_mesh_add of an edge that is not there and gossipsub_mesh_remove.
MeshAdd(p, t) ==
    /\ mesh' = mesh \cup {<<p, t>>}
    /\ meshCount' = meshCount + 1

MeshRemove(p, t) ==
    /\ mesh' = mesh \ {<<p, t>>}
    /\ meshCount' = IF MeshContains(p, t) THEN meshCount - 1 ELSE meshCount

\* Mutant: the counter is not brought down with the edges.
MeshRemovePeerKeepsCount(p) ==
    /\ mesh' = {pair \in mesh : pair[1] # p}
    /\ UNCHANGED meshCount

\* gossipsub_mesh_remove_peer
MeshRemovePeer(p) ==
    LET gone == {pair \in mesh : pair[1] = p}
    IN  /\ mesh' = mesh \ gone
        /\ meshCount' = meshCount - Cardinality(gone)

\* gossipsub_backoff_active
BackoffActive(p, t) == backoff[<<p, t>>] > 0

MaxOf(a, b) == IF a >= b THEN a ELSE b

\* Mutant: a shorter backoff replaces a longer one of the same pair.
BackoffWithLast(pair, left) ==
    IF backoff[pair] # NoBackoff
    THEN {[backoff EXCEPT ![pair] = left]}
    ELSE LET used == {v \in Pairs : backoff[v] # NoBackoff}
         IN  IF Cardinality(used) < MaxBackoffs
             THEN {[backoff EXCEPT ![pair] = left]}
             ELSE {[backoff EXCEPT ![v] = NoBackoff, ![pair] = left] :
                     v \in {v \in used : \A w \in used : backoff[v] <= backoff[w]}}

\* gossipsub_backoff_add: the tables it may leave.  An entry of the pair is only
\* ever prolonged; a full table gives up the entry that expires first.
BackoffWith(pair, left) ==
    LET used == {v \in Pairs : backoff[v] # NoBackoff}
    IN  IF pair \in used
        THEN {[backoff EXCEPT ![pair] = MaxOf(@, left)]}
        ELSE IF Cardinality(used) < MaxBackoffs
        THEN {[backoff EXCEPT ![pair] = left]}
        ELSE {[backoff EXCEPT ![v] = NoBackoff, ![pair] = left] :
                v \in {v \in used : \A w \in used : backoff[v] <= backoff[w]}}

BackoffAdd(p, t, left) ==
    /\ backoff' \in BackoffWith(<<p, t>>, left)
    /\ owed' = [owed EXCEPT ![<<p, t>>] = MaxOf(@, left)]
    /\ lost' = (lost \/ \E v \in Pairs : backoff[v] > 0 /\ backoff'[v] = NoBackoff)

-----------------------------------------------------------------------------
(***************************************************************************)
(* Frames.                                                                 *)
(***************************************************************************)

Send(p, type, t) == sent' = [to |-> p, type |-> type, topic |-> t]
SendNothing == sent' = NoFrame

\* The call returns.
Return(res) ==
    /\ pc' = "idle" /\ cur' = 0 /\ next' = 0 /\ cont' = "return" /\ served' = {}
    /\ result' = res

\* The loop pc' = "fill" or "trim" for topic t, followed by what c says.
Enter(loop, t, c) ==
    /\ pc' = loop /\ cur' = t /\ cont' = c
    /\ UNCHANGED <<result, served>>

\* An error ends the loop: gossipsub_heartbeat ignores what gossipsub_mesh_heartbeat
\* returns and goes on with the gossip, every other caller returns it.
Fail(res) ==
    IF cont = "heartbeat"
    THEN Enter("gossip", 0, "return") /\ next' = 0
    ELSE Return(res)

-----------------------------------------------------------------------------
(***************************************************************************)
(* gossipsub_mesh_fill_topic and gossipsub_mesh_trim_topic.                *)
(***************************************************************************)

\* gossipsub_rank_candidate in mode FILL
Candidate(p, t) ==
    /\ p \in writer
    /\ PeerSubscribed(p, t)
    /\ ~MeshContains(p, t)
    /\ ~BackoffActive(p, t)

\* gossipsub_peer_rank hashes the peer id with a random salt and
\* gossipsub_rank_before orders by it: any peer of the set may come first.  The
\* random source is taken not to fail.
MayRankFirst(peers) == peers

\* The peers gossipsub_ranked_peer may return: candidates to fill, members to trim.
RankedPeer(mode, t) ==
    MayRankFirst({p \in Peers : IF mode = "trim" THEN MeshContains(p, t) ELSE Candidate(p, t)})

\* The loop is left without an error.
FillOver == Count(cur) >= D \/ RankedPeer("fill", cur) = {}

\* The candidate with the lowest rank joins the mesh.
FillAdd(p) ==
    /\ pc = "fill" /\ ~FillOver
    /\ p \in RankedPeer("fill", cur)
    /\ Cardinality(mesh) < MaxMeshEdges
    /\ MeshAdd(p, cur)
    /\ Send(p, "GRAFT", cur)
    /\ UNCHANGED <<tableVars, backoffVars, writer, loopVars, result, told, refused>>

\* The edge table is full, or the GRAFT finds the queue of its peer full and the
\* edge is taken back.
FillStop ==
    /\ pc = "fill" /\ ~FillOver
    /\ SendNothing
    /\ refused' = TRUE
    /\ Fail("limit")
    /\ UNCHANGED <<tableVars, meshVars, backoffVars, writer, told>>

FillDone ==
    /\ pc = "fill" /\ FillOver
    /\ SendNothing
    /\ IF cont = "heartbeat"
       THEN Enter("heartbeat", 0, "return") /\ next' = next + 1
       ELSE Return("ok")
    /\ UNCHANGED <<tableVars, meshVars, backoffVars, writer, told, refused>>

\* The target of the trim: none is left by unsubscribe.
TrimTarget == IF cont = "unsubscribe" THEN 0 ELSE D
TrimOver == Count(cur) <= TrimTarget

\* The member with the lowest rank is pruned: PRUNE, backoff, and out of the mesh.
TrimOne(p) ==
    /\ pc = "trim" /\ ~TrimOver
    /\ p \in RankedPeer("trim", cur) /\ p \in writer
    /\ Send(p, "PRUNE", cur)
    /\ BackoffAdd(p, cur, PruneBackoff)
    /\ MeshRemove(p, cur)
    /\ UNCHANGED <<tableVars, writer, loopVars, result, told, refused>>

\* The PRUNE of a member finds its queue full.
TrimStop(p) ==
    /\ pc = "trim" /\ ~TrimOver
    /\ p \in RankedPeer("trim", cur) /\ p \in writer
    /\ SendNothing
    /\ refused' = TRUE
    /\ Fail("limit")
    /\ UNCHANGED <<tableVars, meshVars, backoffVars, writer, told>>

\* The member has no writer stream.
TrimNoWriter(p) ==
    /\ pc = "trim" /\ ~TrimOver
    /\ p \in RankedPeer("trim", cur) /\ p \notin writer
    /\ SendNothing
    /\ Fail("state")
    /\ UNCHANGED <<tableVars, meshVars, backoffVars, writer, told, refused>>

\* Mutant: the topic stays subscribed.
TrimDoneStillLocal ==
    /\ pc = "trim" /\ TrimOver
    /\ SendNothing
    /\ IF cont = "heartbeat"
       THEN /\ Enter("heartbeat", 0, "return") /\ next' = next + 1
            /\ UNCHANGED local
       ELSE /\ UNCHANGED local
            /\ Enter("announce", cur, "unsubscribe") /\ next' = 0
    /\ UNCHANGED <<topicCount, edges, subscribed, explicit, meshVars, backoffVars, writer, told, refused>>

TrimDone ==
    /\ pc = "trim" /\ TrimOver
    /\ SendNothing
    /\ IF cont = "heartbeat"
       THEN /\ Enter("heartbeat", 0, "return") /\ next' = next + 1
            /\ UNCHANGED local
       ELSE /\ local' = local \ {cur}
            /\ Enter("announce", cur, "unsubscribe") /\ next' = 0
    /\ UNCHANGED <<topicCount, edges, subscribed, explicit, meshVars, backoffVars, writer, told, refused>>

-----------------------------------------------------------------------------
(***************************************************************************)
(* The application.                                                        *)
(***************************************************************************)

\* libp2p_gossipsub_subscribe; the announcements and the fill follow.
Subscribe(t) ==
    /\ pc = "idle" /\ FindOrAdd(t)
    /\ topicCount' = TopicCountWith(t)
    /\ local' = local \cup {t}
    /\ Enter("announce", t, "subscribe") /\ next' = 0
    /\ SendNothing
    /\ UNCHANGED <<edges, subscribed, explicit, meshVars, backoffVars, writer, told, refused>>

\* libp2p_gossipsub_unsubscribe of a topic that has a slot.
Unsubscribe(t) ==
    /\ pc = "idle" /\ t < topicCount
    /\ Enter("trim", t, "unsubscribe") /\ next' = 0
    /\ SendNothing
    /\ UNCHANGED <<tableVars, meshVars, backoffVars, writer, told, refused>>

\* One iteration of the announcements to all peers.
Announce ==
    /\ pc = "announce" /\ next < MaxPeers
    /\ next' = next + 1
    /\ \/ /\ next \notin writer
          /\ SendNothing
          /\ UNCHANGED told
       \/ /\ next \in writer /\ cont = "subscribe"
          /\ Send(next, "SUBSCRIBE", cur)
          /\ told' = told \cup {<<next, cur>>}
       \/ /\ next \in writer /\ cont = "unsubscribe"
          /\ Send(next, "UNSUBSCRIBE", cur)
          /\ told' = told \ {<<next, cur>>}
    /\ UNCHANGED <<tableVars, meshVars, backoffVars, writer, pc, cur, cont, served, result, refused>>

\* A full queue ends the call; a topic that was subscribed stays so.
AnnounceStop ==
    /\ pc = "announce" /\ next < MaxPeers /\ next \in writer
    /\ SendNothing
    /\ refused' = TRUE
    /\ Return("limit")
    /\ UNCHANGED <<tableVars, meshVars, backoffVars, writer, told>>

AnnounceDone ==
    /\ pc = "announce" /\ next = MaxPeers
    /\ SendNothing
    /\ IF cont = "subscribe"
       THEN Enter("fill", cur, "return") /\ next' = 0
       ELSE Return("ok")
    /\ UNCHANGED <<tableVars, meshVars, backoffVars, writer, told, refused>>

-----------------------------------------------------------------------------
(***************************************************************************)
(* Control messages of a peer (gossipsub_process_rpc).                     *)
(***************************************************************************)

\* gossipsub_process_subscription.  Without room in peer_topics nothing follows,
\* not even the removal of a peer that unsubscribes.
RecvSubscription(p, t, on) ==
    LET room == PeerTopicRoom(p, t)
    IN  /\ pc = "idle" /\ FindOrAdd(t)
        /\ topicCount' = TopicCountWith(t)
        /\ SendNothing
        /\ edges' = IF room THEN edges \cup {<<p, t>>} ELSE edges
        /\ subscribed' = IF ~room THEN subscribed
                         ELSE IF on THEN subscribed \cup {<<p, t>>}
                         ELSE subscribed \ {<<p, t>>}
        /\ IF room /\ on /\ t \in local /\ Count(t) < DLow
           THEN Enter("fill", t, "return") /\ UNCHANGED next
           ELSE UNCHANGED <<loopVars, result>>
        /\ IF room /\ ~on THEN MeshRemove(p, t) ELSE UNCHANGED meshVars
        /\ UNCHANGED <<local, explicit, backoffVars, writer, told, refused>>

\* A GRAFT is accepted for a subscribed topic, from a peer that is not in
\* backoff, while the mesh has room.
GraftWanted(p, t) ==
    /\ t \in local
    /\ ~BackoffActive(p, t)
    /\ MeshContains(p, t) \/ Count(t) < DHigh

\* GRAFT accepted: gossipsub_mesh_add, whose ERR_LIMIT is tolerated.  The peer
\* needs no writer stream.
RecvGraftAccept(p, t) ==
    /\ pc = "idle" /\ FindOrAdd(t)
    /\ GraftWanted(p, t)
    /\ topicCount' = TopicCountWith(t)
    /\ IF MeshContains(p, t) \/ Cardinality(mesh) = MaxMeshEdges
       THEN UNCHANGED meshVars
       ELSE MeshAdd(p, t)
    /\ SendNothing
    /\ UNCHANGED <<local, edges, subscribed, explicit, backoffVars, writer, loopVars, result, told, refused>>

\* Mutant: the backoff starts and no PRUNE goes back.
RecvGraftSilent(p, t) ==
    /\ pc = "idle" /\ FindOrAdd(t)
    /\ ~GraftWanted(p, t) /\ p \in writer
    /\ topicCount' = TopicCountWith(t)
    /\ SendNothing
    /\ BackoffAdd(p, t, PruneBackoff)
    /\ UNCHANGED <<local, edges, subscribed, explicit, meshVars, writer, loopVars, result, told, refused>>

\* GRAFT refused: a PRUNE goes back and the backoff starts again.
RecvGraftPrune(p, t) ==
    /\ pc = "idle" /\ FindOrAdd(t)
    /\ ~GraftWanted(p, t) /\ p \in writer
    /\ topicCount' = TopicCountWith(t)
    /\ Send(p, "PRUNE", t)
    /\ BackoffAdd(p, t, PruneBackoff)
    /\ UNCHANGED <<local, edges, subscribed, explicit, meshVars, writer, loopVars, result, told, refused>>

\* ... or cannot go back: no queue (ERR_STATE) or a full one (ERR_LIMIT).
RecvGraftDrop(p, t) ==
    /\ pc = "idle" /\ FindOrAdd(t)
    /\ ~GraftWanted(p, t)
    /\ topicCount' = TopicCountWith(t)
    /\ SendNothing
    /\ refused' = (refused \/ p \in writer)
    /\ UNCHANGED <<local, edges, subscribed, explicit, meshVars, backoffVars, writer, loopVars, result, told>>

\* PRUNE, with the backoff the peer asks for or the default.
RecvPrune(p, t, left) ==
    /\ pc = "idle" /\ t < topicCount
    /\ MeshRemove(p, t)
    /\ BackoffAdd(p, t, left)
    /\ SendNothing
    /\ UNCHANGED <<tableVars, writer, loopVars, result, told, refused>>

-----------------------------------------------------------------------------
(***************************************************************************)
(* Streams and time.                                                       *)
(***************************************************************************)

\* gossipsub_protocol_on_open makes the stream the writer of its peer and
\* announces the local topics.
OpenWriter(p) ==
    /\ pc = "idle" /\ p \notin writer
    /\ writer' = writer \cup {p}
    /\ pc' = "open" /\ cur' = p /\ next' = 0 /\ cont' = "return" /\ served' = {}
    /\ SendNothing
    /\ UNCHANGED <<tableVars, meshVars, backoffVars, result, told, refused>>

\* One topic slot of that loop; here cur is the peer.
OpenAnnounce ==
    /\ pc = "open" /\ next < topicCount
    /\ next' = next + 1
    /\ \/ /\ next \notin local
          /\ SendNothing
          /\ UNCHANGED told
       \/ /\ next \in local
          /\ Send(cur, "SUBSCRIBE", next)
          /\ told' = told \cup {<<cur, next>>}
    /\ UNCHANGED <<tableVars, meshVars, backoffVars, writer, pc, cur, cont, served, result, refused>>

\* A full queue does not end that loop.
OpenRefused ==
    /\ pc = "open" /\ next < topicCount /\ next \in local
    /\ next' = next + 1
    /\ SendNothing
    /\ refused' = TRUE
    /\ UNCHANGED <<tableVars, meshVars, backoffVars, writer, pc, cur, cont, served, result, told>>

OpenDone ==
    /\ pc = "open" /\ next = topicCount
    /\ SendNothing
    /\ Return("ok")
    /\ UNCHANGED <<tableVars, meshVars, backoffVars, writer, told, refused>>

\* The writer stream of p is reset or closed (gossipsub_protocol_on_event), or the
\* connection of p is, with or without a writer (handle_host_event):
\* gossipsub_mesh_remove_peer.  What the peer subscribed to stays recorded.
PeerClosed(p) ==
    /\ pc = "idle"
    /\ writer' = writer \ {p}
    /\ MeshRemovePeer(p)
    /\ told' = {pair \in told : pair[1] # p}
    /\ SendNothing
    /\ UNCHANGED <<tableVars, backoffVars, loopVars, result, refused>>

Older(left, elapsed) == IF left > elapsed THEN left - elapsed ELSE IF left > 0 THEN 0 ELSE left

\* libp2p_gossipsub_drive without a heartbeat.
DriveBetween(elapsed) ==
    /\ pc = "idle"
    /\ backoff' = [pair \in Pairs |-> Older(backoff[pair], elapsed)]
    /\ owed' = [pair \in Pairs |-> Older(owed[pair], elapsed)]
    /\ SendNothing
    /\ UNCHANGED <<tableVars, meshVars, lost, writer, loopVars, result, told, refused>>

\* ... and with one: gossipsub_backoff_clear_expired, then the topics one by one
\* (gossipsub_mesh_heartbeat).  When the heartbeat is due is left open.
Heartbeat(elapsed) ==
    /\ pc = "idle"
    /\ backoff' = [pair \in Pairs |->
                     IF backoff[pair] <= elapsed THEN NoBackoff ELSE backoff[pair] - elapsed]
    /\ owed' = [pair \in Pairs |-> Older(owed[pair], elapsed)]
    /\ Enter("heartbeat", 0, "return") /\ next' = 0
    /\ SendNothing
    /\ UNCHANGED <<tableVars, meshVars, lost, writer, told, refused>>

HeartbeatTopic ==
    /\ pc = "heartbeat" /\ next < topicCount
    /\ SendNothing
    /\ IF next \in local /\ Count(next) < DLow
       THEN Enter("fill", next, "heartbeat") /\ UNCHANGED next
       ELSE IF next \in local /\ Count(next) > DHigh
       THEN Enter("trim", next, "heartbeat") /\ UNCHANGED next
       ELSE next' = next + 1 /\ UNCHANGED <<pc, cur, cont, served, result>>
    /\ UNCHANGED <<tableVars, meshVars, backoffVars, writer, told, refused>>

HeartbeatDone ==
    /\ pc = "heartbeat" /\ next = topicCount
    /\ SendNothing
    /\ Enter("gossip", 0, "return") /\ next' = 0
    /\ UNCHANGED <<tableVars, meshVars, backoffVars, writer, told, refused>>

-----------------------------------------------------------------------------
(***************************************************************************)
(* The gossip of a heartbeat (gossipsub_emit_gossip).  Whether the cache     *)
(* holds messages of a topic in its gossip window is left open.             *)
(***************************************************************************)

\* gossipsub_peer_gossip_eligible
Eligible(p, t) ==
    /\ p \in writer \ explicit
    /\ PeerSubscribed(p, t)
    /\ ~MeshContains(p, t)

\* gossipsub_gossip_eligible_count
EligibleCount(t) == Cardinality({p \in Peers : Eligible(p, t)})

\* gossipsub_gossip_target: gossip_factor_ppm of the n eligible peers, rounded up,
\* but at least d_lazy of them.
GossipTarget(n) ==
    LET factor == (n * GossipFactor + 999999) \div 1000000
        wanted == MaxOf(DLazy, factor)
    IN  IF wanted > n THEN n ELSE wanted

\* The topic at next is subscribed and not all of its targets are served.
GossipPending ==
    /\ pc = "gossip" /\ next < topicCount /\ next \in local
    /\ Cardinality(served) < GossipTarget(EligibleCount(next))

\* The eligible peer with the next higher rank gets the IHAVE.
GossipSend(p) ==
    /\ GossipPending
    /\ p \in MayRankFirst({q \in Peers \ served : Eligible(q, next)})
    /\ served' = served \cup {p}
    /\ Send(p, "IHAVE", next)
    /\ UNCHANGED <<tableVars, meshVars, backoffVars, writer, pc, cur, next, cont, result, told, refused>>

\* A full queue ends the gossip of this topic and of all topics after it.
GossipRefused ==
    /\ GossipPending
    /\ refused' = TRUE
    /\ SendNothing
    /\ Return("ok")
    /\ UNCHANGED <<tableVars, meshVars, backoffVars, writer, told>>

\* So does a topic with eligible peers and no message to advertise: the IHAVE
\* without ids is ERR_INVALID_ARG.
GossipNothing ==
    /\ GossipPending /\ served = {}
    /\ SendNothing
    /\ Return("ok")
    /\ UNCHANGED <<tableVars, meshVars, backoffVars, writer, told, refused>>

GossipNextTopic ==
    /\ pc = "gossip" /\ next < topicCount /\ ~GossipPending
    /\ next' = next + 1 /\ served' = {}
    /\ SendNothing
    /\ UNCHANGED <<tableVars, meshVars, backoffVars, writer, pc, cur, cont, result, told, refused>>

GossipDone ==
    /\ pc = "gossip" /\ next = topicCount
    /\ SendNothing
    /\ Return("ok")
    /\ UNCHANGED <<tableVars, meshVars, backoffVars, writer, told, refused>>

\* libp2p_gossipsub_set_peer_explicit; an explicit peer gets every message and no
\* gossip.
SetPeerExplicit(p, on) ==
    /\ pc = "idle"
    /\ explicit' = IF on THEN explicit \cup {p} ELSE explicit \ {p}
    /\ SendNothing
    /\ UNCHANGED <<topicCount, local, edges, subscribed, meshVars, backoffVars, writer, loopVars,
                   result, told, refused>>

-----------------------------------------------------------------------------
\* After libp2p_gossipsub_init and libp2p_gossipsub_start.
Init ==
    /\ topicCount = 0 /\ local = {} /\ edges = {} /\ subscribed = {}
    /\ mesh = {} /\ meshCount = 0
    /\ backoff = [pair \in Pairs |-> NoBackoff]
    /\ writer = {} /\ explicit = {}
    /\ pc = "idle" /\ cur = 0 /\ next = 0 /\ cont = "return" /\ served = {}
    /\ result = "ok" /\ sent = NoFrame
    /\ told = {} /\ refused = FALSE
    /\ owed = [pair \in Pairs |-> 0] /\ lost = FALSE

\* The steps of a call that was entered, while every queue has room ...
LoopStep ==
    \/ \E p \in Peers : FillAdd(p) \/ TrimOne(p) \/ TrimNoWriter(p)
    \/ FillDone \/ TrimDone
    \/ Announce \/ AnnounceDone
    \/ OpenAnnounce \/ OpenDone
    \/ HeartbeatTopic \/ HeartbeatDone
    \/ \E p \in Peers : GossipSend(p)
    \/ GossipNothing \/ GossipNextTopic \/ GossipDone

\* ... and those that find a table or a queue full.
LoopStop ==
    \/ FillStop \/ AnnounceStop \/ OpenRefused \/ GossipRefused
    \/ \E p \in Peers : TrimStop(p)

\* A control message of p about t.
Recv(p, t) ==
    \/ \E on \in BOOLEAN : RecvSubscription(p, t, on)
    \/ RecvGraftAccept(p, t) \/ RecvGraftPrune(p, t) \/ RecvGraftDrop(p, t)
    \/ \E left \in PeerBackoffs \cup {PruneBackoff} : RecvPrune(p, t, left)

Next ==
    \/ LoopStep \/ LoopStop
    \/ \E t \in Topics :
         \/ Subscribe(t) \/ Unsubscribe(t)
         \/ \E p \in Peers : Recv(p, t)
    \/ \E p \in Peers :
         \/ OpenWriter(p) \/ PeerClosed(p)
         \/ \E on \in BOOLEAN : SetPeerExplicit(p, on)
    \/ \E elapsed \in {0, 1} : DriveBetween(elapsed) \/ Heartbeat(elapsed)

Spec == Init /\ [][Next]_vars
-----------------------------------------------------------------------------
(***************************************************************************)
(* Properties.                                                             *)
(***************************************************************************)

\* Every variable has its type and no table exceeds its capacity.
TypeOK ==
    /\ topicCount \in 0 .. MaxTopics
    /\ local \subseteq 0 .. topicCount - 1
    /\ edges \subseteq Pairs /\ Cardinality(edges) <= MaxPeerTopics
    /\ subscribed \subseteq edges
    /\ mesh \subseteq Pairs /\ Cardinality(mesh) <= MaxMeshEdges
    /\ meshCount \in Nat
    /\ backoff \in [Pairs -> Nat \cup {NoBackoff}]
    /\ Cardinality({v \in Pairs : backoff[v] # NoBackoff}) <= MaxBackoffs
    /\ writer \subseteq Peers
    /\ pc \in {"idle", "fill", "trim", "announce", "open", "heartbeat", "gossip"}
    /\ explicit \subseteq Peers /\ served \subseteq Peers
    /\ cur \in Nat /\ next \in Nat
    /\ cont \in {"return", "heartbeat", "subscribe", "unsubscribe"}
    /\ result \in {"ok", "limit", "state"}
    /\ sent \in Frame \cup {NoFrame}
    /\ told \subseteq Pairs
    /\ refused \in BOOLEAN /\ lost \in BOOLEAN
    /\ owed \in [Pairs -> Nat]

\* libp2p_gossipsub_mesh_peer_count is "the sum of peer counts across all locally
\* joined topic meshes": the counter agrees with the table, and the table holds
\* edges of locally subscribed topics only.
MeshCountExact ==
    /\ meshCount = Cardinality(mesh)
    /\ \A pair \in mesh : pair[2] \in local

\* A pair joins the mesh only when every backoff either side asked for is over,
\* whatever prunes with longer or shorter backoffs followed, unless a full table
\* had to give up a live entry.
BackoffKept ==
    [][\A pair \in mesh' \ mesh : owed[pair] = 0 \/ lost]_vars

\* Between calls, every peer with a writer was last told exactly the topics the
\* router is subscribed to, unless a queue was full.
PeersTold ==
    pc = "idle" /\ ~refused => told = {pair \in Pairs : pair[1] \in writer /\ pair[2] \in local}

=============================================================================
