----------------------------- MODULE GossipsubTx -----------------------------
(***************************************************************************)
(* The outbound side of the gossipsub router                               *)
(* (src/src/protocol/gossipsub/gossipsub_tx.c, with the callers in          *)
(* gossipsub_host.c that open and close a peer's writer stream and drive    *)
(* the flush).                                                              *)
(*                                                                          *)
(* Every peer has a queue of encoded RPC frames.  The frames live in one    *)
(* shared table of MaxTxRpcQueue slots; a queue is the sequence of the      *)
(* slots it links.  A peer whose queue can be written is marked ready and   *)
(* counted in readyCount; libp2p_gossipsub_drive drops the frames whose     *)
(* deadline passed, runs the heartbeat and then visits the ready peers      *)
(* round robin, writing each one until its transport blocks.               *)
(*                                                                          *)
(* The router runs on one thread.  A loop of the code is unrolled, one      *)
(* call of tx_remove or host_stream_write per step; pc is the loop being    *)
(* executed, and every other action waits until it is "idle" again.         *)
(***************************************************************************)
EXTENDS Integers, Sequences, FiniteSets

CONSTANTS
    MaxPeers,          \* config.capacity.max_peers
    MaxPeerTxQueue,    \* config.capacity.max_peer_tx_queue
    MaxTxRpcQueue,     \* config.capacity.max_tx_rpc_queue
    FrameLen,          \* length of a frame, in the units a write accepts
    ForwardLifetime,   \* GOSSIPSUB_TX_FORWARD_LIFETIME_US, in drive periods
    LocalLifetime,     \* GOSSIPSUB_TX_LOCAL_PUBLISH_LIFETIME_US, likewise
    LocalTopics,       \* number of locally subscribed topics
    Msgs,              \* message ids
    NoMsg              \* the id of a frame that is not a publish

ASSUME TxAssumption ==
    /\ MaxPeers \in Nat \ {0}
    /\ MaxPeerTxQueue \in Nat \ {0}
    /\ MaxTxRpcQueue \in Nat \ {0}
    /\ FrameLen \in Nat \ {0}
    /\ ForwardLifetime \in Nat \ {0}
    /\ LocalLifetime \in Nat \ {0}
    /\ LocalTopics \in Nat
    /\ NoMsg \notin Msgs

Peers == 0 .. MaxPeers - 1
Slots == 0 .. MaxTxRpcQueue - 1

\* deadline_us = 0: the frame never becomes stale.
NoDeadline == -1
TimeLeft == {NoDeadline} \cup Nat

VARIABLES
    writer,      \* peer -> peer->stream is set (its outbound writer stream)
    queue,       \* peer -> sequence of slots, tx_head first
    item,        \* slot -> the gossipsub_tx_item_t in it
    queueLen,    \* tx_queue_len
    ready,       \* peer -> tx_ready
    readyCount,  \* tx_ready_count
    busy,        \* peer -> tx_transport_busy
    reported,    \* peer -> tx_queue_limit_reported
    nextPeer,    \* tx_next_peer
    pc,          \* the loop the router is executing
    cur,         \* the peer that loop works on
    count,       \* its counter (peers visited, topics announced)
    dropId       \* the message id gossipsub_drop_queued_publish looks for

poolVars == <<queue, item, queueLen>>
readyVars == <<ready, readyCount>>
loopVars == <<pc, cur, count, dropId>>
vars == <<writer, poolVars, readyVars, busy, reported, nextPeer, loopVars>>

-----------------------------------------------------------------------------
(***************************************************************************)
(* The frames.                                                             *)
(***************************************************************************)

\* The fields of gossipsub_tx_item_t the router looks at; "left" is the time
\* from the last drive to deadline_us.
Item == [used : BOOLEAN, prio : BOOLEAN, msg : Msgs \cup {NoMsg},
         pos : 0 .. FrameLen, left : TimeLeft]

\* gossipsub_tx_clear_item
FreeItem == [used |-> FALSE, prio |-> FALSE, msg |-> NoMsg, pos |-> 0,
             left |-> NoDeadline]

Rpc(prio, left, msg) ==
    [used |-> TRUE, prio |-> prio, msg |-> msg, pos |-> 0, left |-> left]

\* gossipsub_enqueue_subscription, _graft and _prune
ControlRpc == Rpc(TRUE, NoDeadline, NoMsg)

\* gossipsub_enqueue_idontwant and _iwant
WantRpc == Rpc(FALSE, NoDeadline, NoMsg)

\* gossipsub_enqueue_ihave
IhaveRpc == Rpc(FALSE, ForwardLifetime, NoMsg)

\* gossipsub_enqueue_publish_entry and gossipsub_enqueue_local_publish_entry
ForwardRpc(m) == Rpc(FALSE, ForwardLifetime, m)
LocalRpc(m) == Rpc(TRUE, LocalLifetime, m)

Rpcs == {ControlRpc, WantRpc, IhaveRpc}
            \cup {ForwardRpc(m) : m \in Msgs} \cup {LocalRpc(m) : m \in Msgs}

\* gossipsub_tx_item_stale: a frame is stale when its deadline has passed and
\* none of its bytes has been written.
Stale(s) == item[s].left = 0 /\ item[s].pos = 0

-----------------------------------------------------------------------------
(***************************************************************************)
(* Readiness.                                                              *)
(***************************************************************************)

\* Mutant: a peer that is ready already is counted again.
SetReadyAlwaysCounts(p, want, canWrite) ==
    LET next == want /\ canWrite
    IN  /\ ready' = [ready EXCEPT ![p] = next]
        /\ readyCount' =
             IF next THEN readyCount + 1
             ELSE IF ready[p] /\ readyCount # 0 THEN readyCount - 1
             ELSE readyCount

\* gossipsub_tx_set_peer_ready(p, want), where canWrite says whether the peer
\* has a writer stream and a frame queued at the moment of the call.
SetReady(p, want, canWrite) ==
    LET next == want /\ canWrite
    IN  /\ ready' = [ready EXCEPT ![p] = next]
        /\ readyCount' =
             IF next /\ ~ready[p] THEN readyCount + 1
             ELSE IF ~next /\ ready[p] /\ readyCount # 0 THEN readyCount - 1
             ELSE readyCount

-----------------------------------------------------------------------------
(***************************************************************************)
(* Queue operations.                                                       *)
(***************************************************************************)

\* The position of tx_priority_tail in the queue (0: GOSSIPSUB_TX_NO_ITEM):
\* the last frame with the priority flag.
PriorityTail(q) ==
    LET prio == {i \in 1 .. Len(q) : item[q[i]].prio}
    IN  IF prio = {} THEN 0 ELSE CHOOSE i \in prio : \A j \in prio : j <= i

\* gossipsub_tx_append_peer_item: a normal frame goes to the tail, a priority
\* frame behind the last priority frame, or to the head if there is none.
Appended(q, s, prio) ==
    IF prio
    THEN LET k == PriorityTail(q)
         IN  SubSeq(q, 1, k) \o <<s>> \o SubSeq(q, k + 1, Len(q))
    ELSE Append(q, s)

Without(q, i) == SubSeq(q, 1, i - 1) \o SubSeq(q, i + 1, Len(q))

\* gossipsub_tx_find_free: the lowest unused slot.
FindFree ==
    CHOOSE s \in Slots : /\ ~item[s].used
                         /\ \A t \in Slots : ~item[t].used => s <= t

\* gossipsub_enqueue_rpc_with_lifetime returns ERR_STATE without a writer
\* stream, and gossipsub_tx_reserve returns ERR_LIMIT when the peer's queue or
\* the table is full (the byte buffer is left out: a frame it refuses leaves
\* everything here unchanged).
CanEnqueue(p) ==
    /\ writer[p]
    /\ Len(queue[p]) < MaxPeerTxQueue
    /\ queueLen < MaxTxRpcQueue

\* A frame accepted: gossipsub_tx_reserve and gossipsub_tx_commit_reserved.
EnqueueRpc(p, rpc) ==
    LET s == FindFree
    IN  /\ item' = [item EXCEPT ![s] = rpc]
        /\ queue' = [queue EXCEPT ![p] = Appended(@, s, rpc.prio)]
        /\ queueLen' = queueLen + 1
        /\ IF queue[p] = <<>> /\ ~busy[p]
           THEN SetReady(p, TRUE, writer[p])
           ELSE UNCHANGED readyVars

\* Mutant: the slot of a removed frame is not freed.
TxRemoveKeepsSlot(p, i) ==
    /\ queue' = [queue EXCEPT ![p] = Without(@, i)]
    /\ queueLen' = queueLen - 1
    /\ reported' = [reported EXCEPT ![p] = FALSE]
    /\ IF Len(queue[p]) = 1
       THEN SetReady(p, FALSE, FALSE)
       ELSE UNCHANGED readyVars
    /\ UNCHANGED item

\* gossipsub_tx_remove of the i-th frame of peer p.
TxRemove(p, i) ==
    /\ item' = [item EXCEPT ![queue[p][i]] = FreeItem]
    /\ queue' = [queue EXCEPT ![p] = Without(@, i)]
    /\ queueLen' = queueLen - 1
    /\ reported' = [reported EXCEPT ![p] = FALSE]
    /\ IF Len(queue[p]) = 1
       THEN SetReady(p, FALSE, FALSE)
       ELSE UNCHANGED readyVars

\* The call that was executing returns; its locals are gone.
Return == pc' = "idle" /\ cur' = 0 /\ count' = 0 /\ dropId' = NoMsg

-----------------------------------------------------------------------------
(***************************************************************************)
(* Actions outside the drive: the application, the receive path and the    *)
(* host's stream callbacks.                                                *)
(***************************************************************************)

\* One enqueue call of a handler (publish, subscribe, forward, IWANT, GRAFT,
\* ...), or of the heartbeat, which runs inside the drive.
Enqueue(p, rpc) ==
    /\ pc \in {"idle", "heartbeat"}
    /\ CanEnqueue(p)
    /\ EnqueueRpc(p, rpc)
    /\ UNCHANGED <<writer, busy, reported, nextPeer, loopVars>>

\* gossipsub_enqueue_idontwant_for_received_entry when the frame is refused
\* with ERR_LIMIT: the DROPPED event is reported once until a frame of the
\* peer leaves its queue.
IdontwantRefused(p) ==
    /\ pc = "idle"
    /\ writer[p] /\ ~CanEnqueue(p)
    /\ ~reported[p]
    /\ reported' = [reported EXCEPT ![p] = TRUE]
    /\ UNCHANGED <<writer, poolVars, readyVars, busy, nextPeer, loopVars>>

\* gossipsub_protocol_on_open of an outbound stream while the peer has no
\* writer; the loop that announces the local topics follows.
OpenWriter(p) ==
    /\ pc = "idle"
    /\ ~writer[p]
    /\ writer' = [writer EXCEPT ![p] = TRUE]
    /\ busy' = [busy EXCEPT ![p] = FALSE]
    /\ pc' = "announce" /\ cur' = p /\ count' = 0
    /\ UNCHANGED <<poolVars, readyVars, reported, nextPeer, dropId>>

\* One iteration of the announce loop: ERR_LIMIT is tolerated.
Announce ==
    /\ pc = "announce" /\ count < LocalTopics
    /\ count' = count + 1
    /\ \/ CanEnqueue(cur) /\ EnqueueRpc(cur, ControlRpc)
       \/ ~CanEnqueue(cur) /\ UNCHANGED <<poolVars, readyVars>>
    /\ UNCHANGED <<writer, busy, reported, nextPeer, pc, cur, dropId>>

AnnounceDone ==
    /\ pc = "announce" /\ count = LocalTopics
    /\ Return
    /\ UNCHANGED <<writer, poolVars, readyVars, busy, reported, nextPeer>>

\* gossipsub_protocol_on_event(WRITABLE) of the writer stream:
\* gossipsub_tx_mark_peer_ready.
Writable(p) ==
    /\ pc = "idle"
    /\ writer[p]
    /\ busy' = [busy EXCEPT ![p] = FALSE]
    /\ SetReady(p, TRUE, queue[p] # <<>>)
    /\ UNCHANGED <<writer, poolVars, reported, nextPeer, loopVars>>

\* Mutant: the queue survives the stream.
CloseWriterKeepsQueue(p) ==
    /\ pc = "idle"
    /\ writer[p]
    /\ SetReady(p, FALSE, FALSE)
    /\ writer' = [writer EXCEPT ![p] = FALSE]
    /\ busy' = [busy EXCEPT ![p] = FALSE]
    /\ UNCHANGED <<poolVars, reported, nextPeer, loopVars>>

\* The writer stream is reset or closed, or its connection is: the queue is
\* dropped (gossipsub_drop_queued_peer) and the peer loses its writer.
CloseWriter(p) ==
    LET gone == {queue[p][i] : i \in 1 .. Len(queue[p])}
    IN  /\ pc = "idle"
        /\ writer[p]
        /\ item' = [s \in Slots |-> IF s \in gone THEN FreeItem ELSE item[s]]
        /\ queue' = [queue EXCEPT ![p] = <<>>]
        /\ queueLen' = queueLen - Len(queue[p])
        /\ reported' = [reported EXCEPT ![p] = @ /\ queue[p] = <<>>]
        /\ SetReady(p, FALSE, FALSE)
        /\ writer' = [writer EXCEPT ![p] = FALSE]
        /\ busy' = [busy EXCEPT ![p] = FALSE]
        /\ UNCHANGED <<nextPeer, loopVars>>

\* An IDONTWANT for m arrives from p: gossipsub_drop_queued_publish removes
\* the queued copies of m that are not yet on the wire.
DropQueuedPublish(p, m) ==
    /\ pc = "idle"
    /\ pc' = "drop" /\ cur' = p /\ dropId' = m
    /\ UNCHANGED <<writer, poolVars, readyVars, busy, reported, nextPeer, count>>

\* Mutant: a started frame is droppable too.
DroppableIgnoringPos(s) == item[s].msg = dropId

Droppable(s) == item[s].msg = dropId /\ item[s].pos = 0

DropItem ==
    /\ pc = "drop"
    /\ \E i \in 1 .. Len(queue[cur]) :
          /\ Droppable(queue[cur][i])
          /\ TxRemove(cur, i)
    /\ UNCHANGED <<writer, busy, nextPeer, loopVars>>

DropDone ==
    /\ pc = "drop"
    /\ \A i \in 1 .. Len(queue[cur]) : ~Droppable(queue[cur][i])
    /\ Return
    /\ UNCHANGED <<writer, poolVars, readyVars, busy, reported, nextPeer>>

-----------------------------------------------------------------------------
(***************************************************************************)
(* libp2p_gossipsub_drive.                                                 *)
(***************************************************************************)

Aged(it, elapsed) ==
    IF it.left = NoDeadline THEN it
    ELSE [it EXCEPT !.left = IF @ > elapsed THEN @ - elapsed ELSE 0]

\* The drive is called "elapsed" periods after the previous one.
Drive(elapsed) ==
    /\ pc = "idle"
    /\ item' = [s \in Slots |-> Aged(item[s], elapsed)]
    /\ pc' = "stale"
    /\ UNCHANGED <<writer, queue, queueLen, readyVars, busy, reported, nextPeer,
                   cur, count, dropId>>

\* gossipsub_tx_drop_stale: the stale frames of every queue, wherever they are
\* in it (the removals commute, so their order is left open).
DropStale ==
    /\ pc = "stale"
    /\ \E p \in Peers : \E i \in 1 .. Len(queue[p]) :
          /\ Stale(queue[p][i])
          /\ TxRemove(p, i)
    /\ UNCHANGED <<writer, busy, nextPeer, loopVars>>

\* Mutant: only the heads of the queues are looked at.
NoStaleHead == \A p \in Peers : queue[p] # <<>> => ~Stale(queue[p][1])

NoStale == \A p \in Peers : \A i \in 1 .. Len(queue[p]) : ~Stale(queue[p][i])

DropStaleDone ==
    /\ pc = "stale"
    /\ NoStale
    /\ pc' = "heartbeat"
    /\ UNCHANGED <<writer, poolVars, readyVars, busy, reported, nextPeer,
                   cur, count, dropId>>

\* Mutant: every flush starts at the first peer.
HeartbeatDoneFirstPeer ==
    /\ pc = "heartbeat"
    /\ pc' = "flush" /\ count' = 0 /\ nextPeer' = 0
    /\ UNCHANGED <<writer, poolVars, readyVars, busy, reported, cur, dropId>>

\* The heartbeat, if it was due, has queued its frames (Enqueue above).
HeartbeatDone ==
    /\ pc = "heartbeat"
    /\ pc' = "flush" /\ count' = 0
    /\ UNCHANGED <<writer, poolVars, readyVars, busy, reported, nextPeer,
                   cur, dropId>>

\* The loop of gossipsub_flush_ready_peers: visit the next peer ...
Visit ==
    /\ pc = "flush"
    /\ readyCount # 0 /\ count < MaxPeers
    /\ nextPeer' = (nextPeer + 1) % MaxPeers
    /\ count' = count + 1
    /\ IF ready[nextPeer] /\ queue[nextPeer] # <<>>
       THEN pc' = "write" /\ cur' = nextPeer
       ELSE UNCHANGED <<pc, cur>>
    /\ UNCHANGED <<writer, poolVars, readyVars, busy, reported, dropId>>

\* ... until none is ready or all were visited.
FlushDone ==
    /\ pc = "flush"
    /\ readyCount = 0 \/ count = MaxPeers
    /\ Return
    /\ UNCHANGED <<writer, poolVars, readyVars, busy, reported, nextPeer>>

\* One iteration of the loop of gossipsub_flush_peer in which
\* libp2p_host_stream_write accepts n units of the head frame; a stale head is
\* removed without a write.
WriteAccepted(n) ==
    LET s == queue[cur][1]
    IN  /\ pc = "write"
        /\ n <= FrameLen - item[s].pos
        /\ IF Stale(s) \/ item[s].pos + n = FrameLen
           THEN TxRemove(cur, 1)
           ELSE /\ item' = [item EXCEPT ![s].pos = @ + n]
                /\ UNCHANGED <<queue, queueLen, readyVars, reported>>
        /\ IF queue'[cur] = <<>>
           THEN pc' = "flush" /\ cur' = 0
           ELSE UNCHANGED <<pc, cur>>
        /\ UNCHANGED <<writer, busy, nextPeer, count, dropId>>

\* Mutant: a blocked transport is not remembered.
WriteBlockedForgetsBusy ==
    /\ pc = "write" /\ ~Stale(queue[cur][1])
    /\ SetReady(cur, FALSE, TRUE)
    /\ pc' = "flush" /\ cur' = 0
    /\ UNCHANGED <<writer, poolVars, busy, reported, nextPeer, count, dropId>>

\* The transport accepts nothing or answers WOULD_BLOCK.
WriteBlocked ==
    /\ pc = "write" /\ ~Stale(queue[cur][1])
    /\ busy' = [busy EXCEPT ![cur] = TRUE]
    /\ SetReady(cur, FALSE, TRUE)
    /\ pc' = "flush" /\ cur' = 0
    /\ UNCHANGED <<writer, poolVars, reported, nextPeer, count, dropId>>

\* Any other error ends the flush and the drive; the peer stays ready.
WriteFailed ==
    /\ pc = "write" /\ ~Stale(queue[cur][1])
    /\ Return
    /\ UNCHANGED <<writer, poolVars, readyVars, busy, reported, nextPeer>>

-----------------------------------------------------------------------------
(***************************************************************************)
(* The specification.                                                      *)
(***************************************************************************)

\* After libp2p_gossipsub_start and a first drive, before any peer is known.
Init ==
    /\ writer = [p \in Peers |-> FALSE]
    /\ queue = [p \in Peers |-> <<>>]
    /\ item = [s \in Slots |-> FreeItem]
    /\ queueLen = 0
    /\ ready = [p \in Peers |-> FALSE]
    /\ readyCount = 0
    /\ busy = [p \in Peers |-> FALSE]
    /\ reported = [p \in Peers |-> FALSE]
    /\ nextPeer = 0
    /\ pc = "idle" /\ cur = 0 /\ count = 0 /\ dropId = NoMsg

\* The steps of one drive after it was called.
DriveStep ==
    \/ DropStale \/ DropStaleDone \/ HeartbeatDone
    \/ Visit \/ FlushDone
    \/ \E n \in 1 .. FrameLen : WriteAccepted(n)
    \/ WriteBlocked \/ WriteFailed

\* The steps of the announce and drop loops.
HandlerStep == Announce \/ AnnounceDone \/ DropItem \/ DropDone

Next ==
    \/ \E p \in Peers :
         \/ \E rpc \in Rpcs : Enqueue(p, rpc)
         \/ IdontwantRefused(p)
         \/ OpenWriter(p)
         \/ Writable(p)
         \/ CloseWriter(p)
         \/ \E m \in Msgs : DropQueuedPublish(p, m)
    \/ \E elapsed \in {0, 1} : Drive(elapsed)
    \/ HandlerStep
    \/ DriveStep

Spec == Init /\ [][Next]_vars

\* The caller keeps driving the router, the clock advances, and a call that was
\* entered returns.  Nothing is assumed of the peers or of the application.
Fairness ==
    /\ WF_vars(HandlerStep)
    /\ WF_vars(DriveStep)
    /\ SF_vars(Drive(1))

FairSpec == Spec /\ Fairness
-----------------------------------------------------------------------------
(***************************************************************************)
(* Properties.                                                             *)
(***************************************************************************)

\* Every variable has its type, and no queue exceeds max_peer_tx_queue nor the
\* table max_tx_rpc_queue (gossipsub_tx_reserve).
TypeOK ==
    /\ writer \in [Peers -> BOOLEAN]
    /\ queue \in [Peers -> Seq(Slots)]
    /\ \A p \in Peers : Len(queue[p]) <= MaxPeerTxQueue
    /\ item \in [Slots -> Item]
    /\ queueLen \in 0 .. MaxTxRpcQueue
    /\ ready \in [Peers -> BOOLEAN]
    /\ readyCount \in 0 .. MaxPeers
    /\ busy \in [Peers -> BOOLEAN]
    /\ reported \in [Peers -> BOOLEAN]
    /\ nextPeer \in Peers
    /\ pc \in {"idle", "announce", "drop", "stale", "heartbeat", "flush", "write"}
    /\ cur \in Peers
    /\ count \in 0 .. MaxPeers + LocalTopics
    /\ dropId \in Msgs \cup {NoMsg}

\* tx_ready_count is the number of ready peers, at every point of every loop:
\* gossipsub_flush_ready_peers stops as soon as it is zero, so a count too low
\* leaves ready peers unvisited.
ReadyCountExact == readyCount = Cardinality({p \in Peers : ready[p]})

\* No lost wakeup: a peer is marked ready exactly when it has a writer stream, a
\* queued frame, and its transport did not block since the last WRITABLE
\* (gossipsub_tx_set_peer_ready, _append_peer_item, _mark_peer_ready and
\* gossipsub_flush_peer each keep a part of this), and the peer being written
\* stays ready until it blocks or its queue is empty.
NoLostWakeup ==
    /\ \A p \in Peers : ready[p] <=> writer[p] /\ queue[p] # <<>> /\ ~busy[p]
    /\ pc = "write" => ready[cur]

\* A peer without a writer stream has no frame queued and no blocked flag left
\* over, so nothing meant for a closed stream is written to the next one.
NoFrameWithoutWriter ==
    \A p \in Peers : ~writer[p] => queue[p] = <<>> /\ ~busy[p]

\* The slots of the table are never leaked or shared: a slot is used if and only
\* if it is linked at one place of one queue, and tx_queue_len counts them.
SlotsOwned ==
    /\ \A s \in Slots :
         item[s].used <=> \E p \in Peers : \E i \in 1 .. Len(queue[p]) : queue[p][i] = s
    /\ \A p, r \in Peers : \A i \in 1 .. Len(queue[p]), j \in 1 .. Len(queue[r]) :
         queue[p][i] = queue[r][j] => p = r /\ i = j
    /\ queueLen = Cardinality({s \in Slots : item[s].used})

\* A frame of which a part is on the wire leaves the queue only by being written
\* to its end, or with the stream: neither a passed deadline nor an IDONTWANT
\* removes it.
StartedFrameKept ==
    [][\A p \in Peers : \A i \in 1 .. Len(queue[p]) :
          item[queue[p][i]].pos > 0 /\ ~item'[queue[p][i]].used
              => ~writer'[p] \/ (pc = "write" /\ cur = p /\ i = 1)]_vars

\* Length-prefixed frames reach a stream one after the other: while a frame is
\* partly written, no byte of another frame is written to the same peer ("Finish
\* the current RPC before yielding to the next queued RPC.",
\* gossipsub_flush_peer).
WholeFrames ==
    [][\A p \in Peers : pc = "write" /\ cur = p /\ (item' # item) =>
          \A i \in 2 .. Len(queue[p]) : item[queue[p][i]].pos = 0]_vars

\* A frame with a deadline does not stay in the table unsent for ever, wherever it
\* is in its queue and even if the peer's transport never accepts another byte.
DeadlineEnforced ==
    \A s \in Slots :
        (item[s].left # NoDeadline /\ item[s].pos = 0)
            ~> (~item[s].used \/ item[s].left = NoDeadline \/ item[s].pos > 0)

\* No ready peer is starved: the drive reaches it even if the writes to the peers
\* before it fail every time.
ReadyPeerVisited ==
    \A p \in Peers : ready[p] ~> (~ready[p] \/ (pc = "write" /\ cur = p))

=============================================================================
