# TLA+ models of c-lean-libp2p

c-lean-libp2p is a C11 libp2p stack for resource-bounded programs: a QUIC
transport over ngtcp2, a host that multiplexes streams and negotiates protocols on
them, and the protocols ping, identify and gossipsub.  Each object lives in one
storage block that its caller sizes from a configuration; everything runs on the
thread that calls `*_drive`, and what happened is reported through bounded rings of
events.

The hard part is therefore not data races but *bookkeeping across calls*: fixed
tables that fill up, slots that are reused while somebody still names them, counters
and flags that must agree with the tables, work left half done when the transport
answers WOULD_BLOCK, callbacks that run between two steps of a loop, and deadlines,
peers and acknowledgements whose order nobody controls.  That is what the modules
here model.

## 1. Inventory

| Component | State it keeps | Operations | Hard behaviour | Model |
|---|---|---|---|---|
| gossipsub transmit queues (`gossipsub_tx.c`) | a slot table shared by all peers, a linked queue of each peer with a priority tail, ready and blocked flags, their counter | enqueue (8 kinds of RPC), drop stale frames, drop on IDONTWANT, drop on close, flush | partial writes, priority insertion, deadlines, round robin when writes fail | GossipsubTx |
| gossipsub cache and validation (`gossipsub_state.c`, `_api.c`, `_rx.c`) | seen table, message ring over an arena, validation slots, event ring | receive, publish, report, IWANT, heartbeat | slots reused while a token is out, full rings, expiry against eviction | GossipsubCache |
| gossipsub mesh (`gossipsub_state.c`, `_rx.c`, `_host.c`) | topics, subscriptions of the peers, mesh edges, backoffs, explicit peers | SUBSCRIBE, GRAFT, PRUNE, heartbeat with fill, trim and gossip, subscribe, unsubscribe, writer opened and closed | control frames that cross on the wire, full tables, failures in the middle of a loop | GossipsubMesh, GossipsubMeshPair |
| gossipsub receive buffers (`gossipsub_rx.c`) | a small buffer of each stream, a pool shared by the large ones | read, grow, compact, shrink, decode, release | frames split over reads, regions that move while they hold bytes, an exhausted pool | GossipsubRx |
| gossipsub wire codec (`gossipsub_codec_*.c`, `unsigned_varint.c`) | none | size, encode, decode | the size function, the encoder and the decoder must agree; limits; unknown fields | GossipsubCodec |
| gossipsub configuration, trace | none, or write-only | lay out storage, record | | sizes and initial state only |
| host (`libp2p_host_*.c`) | connections, streams, opens, dials, event ring | drive, dial, open, cancel, close, next_event, protocol callbacks | transport events against a nearly full ring, a close racing an open, failing callbacks, shutdown | Host |
| stream negotiation (`libp2p_host_streams.c`, `multistream_select.c`) | state and two frame buffers of a stream | offer, answer, na, ls, fallback | both sides in lock step over split and joined reads; malformed frames, a list that does not fit | HostNegotiation |
| QUIC stream, send side (`quic_backend_ngtcp2_stream.c`, `_callbacks.c`, `_conn.c`) | tx buffer, base offset, acknowledged ranges | write, transmit, acknowledge, reclaim, finish, reset | ngtcp2 keeps pointers into the buffer; acknowledgements in any order; a full event ring | QuicStreamTx |
| QUIC connections, endpoint, service, host adapter (`quic_backend_ngtcp2_*.c`, `quic_service.c`, `libp2p_host_quic_transport.c`) | connection objects, live table with a transmit cursor, tracked connections, two event rings, a datagram not sent yet | drive, dial, accept, close, release, next_event | connections retired while events name them, a table compacted under a loop, events lost at a full ring, one failing step of a drive | QuicService |
| ping (`ping.c`) | stream slots, event ring | ping, send on an open stream, callbacks, next_event | a slot that names a handle the host reused, partial reads and writes, events lost at a full ring | Ping |
| identify (`identify.c`) | stream slots, event ring | open, callbacks | as ping | no |
| QUIC stream, receive side | rx buffer, credit | receive, read, stop_sending | flow control | no |
| host identity, TLS, certificates, peer ids, multiformats, UDP, addresses | none | encode, sign, verify, parse | | varints only |

How they interact: the application calls the host and the protocols; the host calls
the transport and, when a stream is negotiated or has an event, the protocol's
`on_open` and `on_event`; gossipsub calls back into the host to open, read and write
streams; the transport reports through an event ring, of which the host takes one
event in each turn of its drive loop.  Below the host, the service moves events from
the endpoint's ring to its own in each drive, and datagrams between the socket and
ngtcp2.

What makes each part correct is stated in its module and listed in section 3.  What
is hard to test is listed, line by line, under "hazards" in PROJECT.json.

## 2. Modules

Each module is written from the code named in its header; PROJECT.json maps every
definition to its lines.  A definition marked "Mutant:" is a plausible wrong version
of the definition after it; none is used by the model.

* **GossipsubTx**.  `queue` is the linked list of each peer, `item` the slot table,
  `ready` and `readyCount` tx_ready and tx_ready_count, `busy` the blocked flag,
  `nextPeer` the round robin position; `pc`, `cur`, `count` and `dropId` are the
  locals of the loop being executed.  The loops (`drop_stale`, `flush_ready_peers`,
  `flush_peer`, the announcements of `on_open`, the drops of an IDONTWANT) take one
  removal or one write a step, so the invariants hold wherever the code calls out.  A
  deadline is the time that is left.  A write accepts any part of a frame, blocks or
  fails.
* **GossipsubCache**.  Time is relative to the last drive.  `out` is the message the
  last step queued for other peers; `age` and `evicted` are history.  A cache entry
  keeps its offset in the arena, and `cells` says whose data is in each cell, so that
  an overwritten entry is visible.
* **GossipsubMesh**.  One router.  Tables are sets of (peer, topic) pairs with the
  capacity in the guards; `backoff` is the time left of an entry.  An enqueue to a
  peer without a writer is ERR_STATE, and one to a peer with a writer may always find
  the queue full.  The heartbeat is a sequence of loops (fill or trim each topic, then
  the gossip of each topic), one enqueue a step; `served` holds the peers the gossip
  loop has dealt with.  Ranking by a salted hash is any order, random_fn is taken not
  to fail, and whether the cache has ids to gossip is left open.  `told`, `owed`,
  `refused` and `lost` are history.
* **GossipsubMeshPair**.  Two instances of GossipsubMesh and two streams in between.
  Each membership frame a router queues travels in order (IHAVE changes no
  membership and is left out); the connection may be lost with all that is on it;
  each side learns of it on its own.
* **GossipsubCodec**.  Varints, field sizes, the encoder and the decoder of every
  field of an RPC as operators on sequences of bytes.  The base of a varint byte is a
  constant, so that small numbers need two bytes.  The lists of a decoded RPC share
  arrays of limited length, as in the code.
* **GossipsubRx**.  `mem` is the memory itself: the pool and the small buffers, byte by
  byte, and the place of each stream's region in them.  A stream brings a script of
  encoded frames; they arrive in fragments, and one action is the whole handler of
  STREAM_READABLE with its loop of reads, growth and decoding.
* **Host**.  `conns`, `streams`, `opens` and `dials` are the slot tables, with the
  reference counts as fields; `events` is the ring; `pc` is the phase of
  `libp2p_host_drive` or the loop of the handler of CONN_CLOSED.  `held` is what the
  application was told of; `lost` and `late` are history.
* **HostNegotiation**.  Both sides of multistream-select over an ordered stream of
  units.  A frame is two units, so it can be written and read in part, and a read can
  return the end of one frame with the beginning of the next thing.  The initiator is
  either a host or a program that sends any frame at any time, malformed ones
  included, and may finish its direction.
* **Ping**.  The slots and the ring of ping with the part of the host they depend on:
  stream handles that are reused, events pending on a handle, the order in which the
  host calls back.  `got` and `wrote` are what a stream carried; `trouble` records the
  three situations after which slots and streams no longer agree (section 5).
* **QuicService**.  `libp2p_quic_service_drive` is a sequence of steps (receive, poll
  each live connection, move the endpoint's events, write, send), and the application
  calls in between drives.  What ngtcp2 makes of a datagram, a timer or a write is any
  of five outcomes, named in the header of the module.  An address in `conn` is reused
  after its release, so that a stale name is visible.
* **QuicStreamTx**.  One stream.  A byte is named by its position in the stream.
  `flight` is what ngtcp2 may still read, each byte with the allocation (`block`) and
  the index at which it reads it, so that a buffer moved too early is visible.
* **SendStream**.  What the send side promises, without buffer and tables: bytes are
  accepted, sent in order, acknowledged and released, and the FIN ends them.
  `StreamPromise` says that QuicStreamTx implements it (`Stream`, an instance): what
  was sent is `base + sent`, what is released is `base`, what is pending are the offsets
  in `flight`, and `Status` combines the state with the two FIN flags.
* **GossipsubTxProofs**, **GossipsubCacheProofs**, **GossipsubMeshProofs**,
  **HostProofs**, **HostNegotiationProofs**, **PingProofs**, **QuicServiceProofs**,
  **QuicStreamTxProofs**: theorems about the eight modules (section 4).
* **MC...**: the instances for TLC.

What is outside a module is left free.  ngtcp2 takes any part of what it is offered
and acknowledges in any order; the host's transport has any event at any time; the
application calls anything at any time; peers send any control frame at any time.

## 3. Runs

| Run | Bounds | Shows |
|---|---|---|
| `tx` | 2 peers, 2 slots shared, 2 frames a queue, frames of 2 units, deadlines of 1 drive, 1 announced topic | the counter and the flags agree with the queues (`ReadyCountExact`, `NoLostWakeup`); no frame outlives its stream (`NoFrameWithoutWriter`); no slot is leaked (`SlotsOwned`); a frame partly on the wire is not dropped (`StartedFrameKept`); and, under fairness, `DeadlineEnforced` and `ReadyPeerVisited` |
| `tx_whole_frames` (violation) | 1 peer | frames interleave on a stream (`WholeFrames`), see section 5 |
| `cache` | 4 messages: one to be validated, one forwarded at once, one too large, one of a topic not subscribed to; 2 cache slots over 2 bytes, 1 validation, ring of 1, 2 seen entries, TTL 3, heartbeat 2, drives up to 2 apart | cached data is not overwritten (`CacheIntact`), no validation slot is lost (`ValidationsReachable`), a message is not new twice within its window (`DuplicateWindow`), and under fairness `ValidationReclaimed` |
| `mesh` | 2 peers, 1 topic, 1 slot in the subscription table, 1 in the backoff table, D = DLow = DHigh = DLazy = 1, gossip factor 25 %, own backoff 3, asked for 1 or 2 | `MeshCountExact`, `PeersTold`, `BackoffKept` |
| `mesh_pair` | 2 routers, 2 frames in flight in each direction, backoff 1 | whenever nothing is under way the two agree on mesh and subscriptions (`QuietAgreed`) |
| `rx` | 2 streams, small buffer 4, chunk 8, RPC limit 32, 16 values a varint byte, 5 scripts of frames of all kinds, fragments of 1, 3, 10 and 31 bytes | bytes survive growth, moves and release (`RxIntact`); every frame is decoded once, in order and as it was sent (`FramesInOrder`); only another stream can exhaust the pool (`NeverBlockedAlone`); sizes, encoder and decoder agree (`SizeExact`) |
| `host` | 2 connections of 1 stream, 1 open, 1 dial, ring of 2 | `NoEventLost`, `AnsweredOnce`, `ConnsStayValid`, `NoOrphans` |
| `host_live` | 1 connection | under fairness `ShutdownCompletes` and `OpensAnswered` |
| `negotiation` | 2 protocols, a list of 1 fits, frame buffer of 3, 4 units on the wire, 2 units of data | both sides agree, and fail only without a common protocol (`Agreement`); no byte of the protocol is lost (`DataIntact`); under fairness `NegotiationEnds` |
| `ping` | 1 connection, 2 slots, 2 handles, ring of 2, 2 streams opened, payload of 2 bytes, 3 bytes of the peer | `PongHonest`, `EchoFaithful`, `SlotsBacked` |
| `service` | 2 addresses, 1 dialled and 1 accepted at a time, the endpoint's ring of 2 and the service's of 1, 1 datagram received a drive | nothing names freed memory (`NoDangling`); an end is reported once (`EndReportedOnce`) and last, what has ended is not closing again and can be released (`ClosedLast`); a requested close is written (`CloseNotForgotten`) |
| `quic_stream_tx` | at most 5 bytes kept, 2 ranges, 7 bytes written | `Retransmittable`, `InOrder`, `WriterNotForgotten`, the refinement `StreamPromise`, and under fairness `WriterResumes` |

Why the bounds are enough.  Each table has at least one slot less than what competes
for it, so that "full" happens: two peers for the shared slots of `tx`, four messages
for two cache slots and for two bytes (one message never fits, one fits only in an
empty arena), two pairs for one backoff slot, three kinds of event for the rings of
`service`.  A frame of two units is the smallest that can be half written.  The seen
TTL is longer than the heartbeat by one, the smallest difference at which an entry can
expire between two heartbeats.  The ring of `host` is the smallest the configuration
check accepts (one more than the opens).  In `negotiation` the buffer of three holds a
frame and one unit of what follows it.  In `rx` the limit of an RPC is eight small
buffers, so a buffer grows several times, and the largest RPC of the scripts uses all
but a few bytes; a length above 15 is a varint of two bytes and may arrive split; a
script with three streams lets one take the slot of another.  In `ping` the second
stream can take the handle of the first, and three bytes of the peer are one more than
a payload: the run sees one whole PONG of a stream, and what PongHonest says of repeated
pings rests on the theorem `PongsAreEchoes`.  In `service` the address of a released connection is used again; one
datagram can fill the endpoint's ring with two events, and a drain of two stops in the
middle at the service's ring of one.  What a ring of one leaves out (a second event
behind the one `host_quic_next_event` drops) is covered by QuicServiceProofs, for rings
of any size.  In `quic_stream_tx` five bytes and two ranges are the smallest for which
the buffer grows twice, three separate acknowledgements can be outstanding, and the
table of ranges overflows.

The addresses of `service` are symmetric: no definition tells them apart.  In `ping`,
what follows `trouble` is not explored (`CONSTRAINT Clean`); trouble is never left and
the properties say nothing of what comes after it.

`CHECK_DEADLOCK FALSE` is set for `host`, `host_live` (a closed host whose events were
all taken stops), `negotiation` (it ends), `quic_stream_tx` (all bytes written and
acknowledged, or the stream closed), `ping` and `rx` (the streams of the instance are
used up).

Most modules also state their types (`TypeOK`); for the eight with proofs that is a
theorem.

Fairness, and why the code justifies it:

* GossipsubTx: weak fairness of the steps of a call that is being executed (the code
  has no blocking call) and strong fairness of `Drive(1)`: the documented contract is
  that the caller keeps driving with an advancing clock; other calls may be made
  between two drives but not instead of them.  Nothing is assumed of the transport,
  which may block or fail for ever.
* GossipsubCache: weak fairness of drives that advance the clock.  Nothing is assumed
  of the application.
* Host: the application keeps driving and taking events, and drive does not spend all
  its turns on transport events; the transport ends a connection it was told to close
  and answers a dial; a protocol's callback does not fail each time.
* HostNegotiation: both hosts are driven, the transport reports a reset, and the
  protocols read what arrives.
* QuicStreamTx: bytes are transmitted and acknowledged, and the application takes
  STREAM_WRITABLE.  Nothing is assumed of the room in the event ring.

GossipsubMesh, GossipsubRx, Ping and QuicService are checked for safety only: a full
queue, an exhausted pool or a lost event can delay them for ever (section 5), so no
fairness the code justifies gives them a liveness property beyond those of the parts
above.

## 4. Proofs

TLAPS proves the following for every value of the constants that the configuration
check admits.  The assumptions are the ones the modules state (`TxAssumption`,
`CacheAssumption`, `MeshAssumption`, `HostAssumption`, `NegotiationAssumption`,
`PingAssumption`, `QuicServiceAssumption`, `StreamTxAssumption`): capacities and
intervals are positive numbers and a null pointer names no object; for the host the
event queue has more room than there are opens, which `host_config_validate` demands;
for the negotiation no protocol is named like a word of multistream-select, which
`libp2p_host_handle` leaves to the application; for ping all payloads have one length,
which is `LIBP2P_PING_PAYLOAD_BYTES`.  Each proof module defines an inductive invariant
`IInv` (TLC has checked it on the instance of the module's run) and shows that it holds
at first and that each action keeps it; the theorems follow from it.

**GossipsubTxProofs**: `TypeOK`, `ReadyCountExact`, `NoLostWakeup`,
`NoFrameWithoutWriter`, `SlotsOwned` and the action property `StartedFrameKept`, for any
number of peers, slots and frames.  None is inductive alone.  A removal keeps `readyCount` exact only if `ready` is known
to mean "has a writer, a frame and is not blocked" (`ReadyExact`); that a removal
empties only one queue, and that the freed slot is in no other, is `SlotsOwned`, which
also gives `StartedFrameKept` (`RemoveKeepsFrames`); and that the counter can be decremented at all needs the flush loop to work on a ready
peer (`LoopInv`).  `IInv` is the conjunction of these with the types; the lemmas on
`Appended` and on removal say what the two list operations do to each position of a
queue.

**GossipsubCacheProofs**: `TypeOK`, `CacheIntact`, `ValidationsReachable` and the
action property `DuplicateWindow`, for any tables, any sizes of messages and any times
to live.  Ring and arena are reused at different moments, so `CacheIntact` rests on
the order of the arena: whatever is in use lies below `dataUsed`, where the next
message is written, and the arena starts again at its front only when no entry is left
(`McacheStoreKeeps`); that the entries name messages is `EntriesNamed`.  The reports
need `EventsNamed` (an event with a token is about a message).  For the duplicates,
`SeenKept` says that a message inside its window has an entry that lives until the
window ends: `libp2p_gossipsub_publish`, which runs ahead of the clock by up to a
heartbeat, therefore does not take that entry for an expired one (`SeenAddKeeps`), and
time passes alike for both (`TimeKeeps`).  The first free slot of a table is the least
of a set of numbers; that there is one (`LeastNumber`) comes from the well-foundedness
of the natural numbers.

**GossipsubMeshProofs**: `TypeOK`, `MeshCountExact`, `PeersTold` and the action property
`BackoffKept`, for any number of peers and topics and any degrees.  The properties hold
in the middle of the loops as well, so `IInv` says where each loop can stand and what
it relies on (`LoopInv`: the topic it fills is subscribed, the peer it announces to has
a writer); `ToldInv` is `PeersTold` with the pairs that the announcement loop still has
ahead; `BackoffInv` bounds what is owed to a pair by its entry of the backoff table.

**HostProofs**: `TypeOK`, `NoEventLost`, `AnsweredOnce`, `ConnsStayValid` and
`NoOrphans`, for any limits.  The hard one is `NoEventLost`: the end of a connection
may report the failure of every open, one in each turn of a loop, and then the end
itself.  `LoopInv` says that the handler always has room for one event of each open not
answered and one more, which needs to know that an open is answered once
(`OpensQueued`), that a stream and its open name each other (`Linked`) and that the
reference counts are exact (`Counted`), because a connection recycled too early would
take its opens along.  `Referring` and `ConnsQueued` give `ConnsStayValid`: what refers
to a connection refers to an active one, and `closeEvent` holds it until CONN_CLOSED is
delivered.

**HostNegotiationProofs**: `TypeOK`, `Agreement` and `DataIntact`, for any protocols,
any frame buffer of at least a frame, any reads and any number of units.  What two
hosts send each other is fixed by what one offers and the other knows: `ToInUnits` and
`ToOutUnits` are the two directions from the first unit on.  `Pipe` says that what the
reader has consumed, its `in_frame`, the wire and the rest of the writer's `out_frame`
are consecutive pieces of that sequence, which is why no unit can be lost at the
boundary between the last frame and the data.  `OutInv` and `InInv(c)` say how far each
side is when the inbound side has taken `c` frames: the outbound side is ahead of it by
what it offers without waiting, and never takes more answers than were given.  The
lemmas `PipeMake`, `PipeSend`, `PipeRead`, `PipeTake`, `PipeWrite` and `PipeConsume`,
one for each thing the code does to a buffer, serve both sides.

**QuicStreamTxProofs**: `TypeOK`, `Retransmittable`, `InOrder`, `RangesExact` and
`WriterNotForgotten`, for any limit, any number of ranges and any number of bytes.
The crux is that the buffer moves (growth, reclaim, shrink) only when nothing is in
flight.  The code concludes that from the table of ranges, so `IInv` says that a range
lies within what was sent (`RangesInside`), holds no byte that is in flight
(`RangesSound`) and, as long as nothing was forgotten, that a byte is in a range or in
flight (`RangesComplete`); with `Contents` (each byte of the buffer is the one its
position says) the rest follows.

`PromiseKept` is the refinement: QuicStreamTx implements SendStream, step by step.  A
write is an Accept, a datagram a Send or a Finish, an acknowledgement an Acknowledge
whichever range it has, a reset or close an End; what only moves the buffer or an event
is not seen.  Two things are not in `IInv` as it stands: no byte follows the FIN
(`FinLast`, an invariant of its own), and an acknowledgement that leaves nothing pending
is the one that reclaims.  For the second, ranges that are apart and together hold all
that was sent are a single range (`ApartAndComplete`), which `Covers` then finds; where
a range was forgotten the promise asks only that what is released is not pending.
`RangesExact` is proved and no run lists it: a table that is not exact fails
`StreamPromise`, which speaks of what the table is for.

**QuicServiceProofs**: `TypeOK`, `NoDangling`, `EndReportedOnce`, `ClosedLast` and
`CloseNotForgotten`, for any number of connections and any sizes of the two rings.  The
properties relate the endpoint's table, the service's table, the two rings and what the
application was told, and an address lives on in all of them; so `IInv` follows one
address through them: what the tables and the rings name is allocated (`TablesGood`), a
connection's end stands in one place at a time, in the ring, in the events or with the
application (`EndsExact`), and nothing about it comes after (`EndsLast`,
`NothingAfter`, `AppExact`).  That an ended connection stays ended, and can be released
once nothing names it, rests on a second inductive invariant, `Retired`: what has left
the live table is closed, and `quic_backend_validate_conn` refuses a close of that
(`MayClose`).  `PassGood` says which connections a transmit pass has gone
by, which is why a pass that finds nothing to send has looked at all of them.  The drain
of the ring is a fold that stops at the first event that finds no room.  The library's
induction theorems cannot be instantiated here, so `Iterates`, `Runs` and `FoldRuns`
say of such a fold that each of its prefixes keeps what a step keeps, by the least
prefix that does not (`LeastNumber`); `DrainIs` draws the conclusion for the drain.

**PingProofs**: `TypeOK`, `SlotsBacked`, `PongHonest` and `EchoFaithful`, for any number
of slots and handles, any event ring and any payloads; as on the run, the last three
hold until `trouble`.  `IInv` says that until then a slot in use has an open stream of
its direction to itself (`Backed`); that a stream under negotiation is named by nobody
and has carried nothing (`Fresh`); that what a stream has carried is, in each direction,
the same bytes of the pings already echoed and then the part of the current one that
the slot holds (`Accounts`); and that what was echoed remains a prefix of what was read
after the slot is gone (`Echoed`).  A callback makes several calls that can each fail
and clean up, so its outcomes are described once: each `Leads` from a slot that is
`Ready` to a state in which only that slot and its stream have changed, `LeadsOn`
composes two of them, and `LeadsFine` puts the result back into the invariant.

Only model-checked: all liveness properties (fairness and ENABLED are out of the
prover's reach); the four properties of GossipsubRx, whose frames are read by the
recursive operators of the codec (what those compute needs induction over data); and
`QuietAgreed` of GossipsubMeshPair, which speaks of two routers and the channels between
them at once.

## 5. Where code and documentation disagree

`WholeFrames` (run `tx_whole_frames`): a priority frame is linked in front of a normal
frame that is half written (gossipsub_tx.c:379), and the flush then writes the new
head: the bytes of one frame appear inside another.  gossipsub_tx.c:1293 says the
current RPC is finished first.

Observed while modelling, in the models as the code has them, and claimed by no
property.

Gossipsub:

* an IWANT is answered from the cache with a message that still waits for the
  application's validation (gossipsub_rx.c:710; gossipsub.h:180 has validation before
  forwarding);
* a report that comes after its cache slot was reused forwards the message that took
  the slot (gossipsub_api.c:274);
* a subscribed topic that has eligible peers but no recent message makes
  `gossipsub_enqueue_ihave` return ERR_INVALID_ARG (gossipsub_tx.c:965), which ends
  the gossip of the topics in later slots of that heartbeat (gossipsub_state.c:1363);
  a full queue does the same.  test_gossipsub.c:2199 has a single topic;
* a peer without a writer stream can get into the mesh by its own GRAFT, after which
  the trim of the heartbeat and unsubscribe fail with ERR_STATE
  (gossipsub_state.c:1064);
* a second connection to a peer overwrites `peer->conn` (gossipsub_state.c:259);
* `gossipsub_stream_read` adds the length of the previous round when the buffer
  cannot grow in a later one (gossipsub_rx.c:945; read_len is the bytes copied by one
  read, libp2p_host.h:718).  GossipsubRx records it in `overrun`, after which the
  properties of the buffers claim nothing;
* compaction computes `tail_index` and does not use it, so a region that is not the
  last one blocks although compacting would make room, and two half-filled large
  streams can block each other; what is unread after a refused growth waits for the
  next STREAM_READABLE;
* a frame that is not acceptable stays at the head of its buffer and fails again at
  each read; the stream is not reset;
* the encoder limits the ids of each list while the decoder's array is shared by the
  lists of an RPC; a second control field replaces the first; IDONTWANT is accepted
  under v1.1; a known field with another wire type is an error in an RPC and in a
  control message but skipped inside the messages below; the peers of a PRUNE are
  never encoded;
* a MESSAGE event points into the message cache (gossipsub_rx.c:507), and its entry or
  its data may be overwritten before the application takes it: `CacheIntact` is about
  the entries only;
* queued DROPPED and IDONTWANT events point into the receive buffer or the stack of
  the handler (gossipsub_rx.c:454).

Host and negotiation:

* a STREAM_OPENED event may be delivered after its stream slot was released
  (libp2p_host_protocols.c:143; libp2p_host.h:385 says the stream is valid);
* a connection established during shutdown is not closed by anyone
  (libp2p_host_drive.c:14), and a conn_close that failed is not tried again
  (libp2p_host_core.c:689), so that shutdown does not complete: `ShutdownCompletes`
  is stated for the other cases;
* no timeout ends a negotiation with a silent peer (libp2p_host_streams.c:893);
* `libp2p_host_handle` accepts "na" and "ls" as protocol ids (libp2p_host_core.c:608): the
  opener of the first would take a refusal for its acceptance
  (libp2p_host_streams.c:719), and the second would be answered with a list.

QUIC:

* `quic_backend_stream_write` may report LIMIT after it took the bytes
  (quic_backend_ngtcp2_stream.c:490), and a full table forgets an acknowledged range,
  so that what was sent is kept until the stream ends (line 592); `WriterResumes`
  excludes the second;
* a dial the service has no room to track leaves a live connection nobody knows of;
  an accepted connection whose CONN_INCOMING found the ring full is never accepted; a
  datagram of a new connection beyond the limit ends the drive with ERR_LIMIT;
* an event taken from the endpoint when the service's ring is full is lost; if it is
  CONN_CLOSED, the service and the host keep their entries.  `EndReportedOnce`
  excludes the two full rings (`lost`);
* a handshake may complete after its close was requested; a transmit pass is cut short
  when a connection ends in it; the error a callback left behind is never cleared; an
  ngtcp2 error while CONNECTION_CLOSE is written fails every later drive; poll skips
  the connection that was moved into the place of one that ended.

Ping:

* an outbound stream takes the first slot in OPENING, whichever connection it was
  prepared for (ping.c:591): with a ping under way on each of two connections, the one
  that is negotiated first may take the other's slot, and its PONG then carries the
  user_data of the other ping (test_ping.c:268 expects its own).  `SlotsBacked` pairs
  slots with streams and compares neither connection nor user_data;
* a slot whose open fails stays in OPENING; a FIN followed by the end of the stream
  gives two terminal events, and taking the second frees a slot that may be in use
  again; a slot that waits for its event to be taken shadows a handle that is reused;
  a PONG lost at the full ring leaves a slot that names a released handle.  These are
  the cases of `trouble`;
* `libp2p_ping_send` that was refused waits for a STREAM_WRITABLE the transport need
  not raise; an event for a stream whose slot has failed is ERR_INVALID_ARG and fails
  the host's drive.

## 6. Not modelled, and the plan

Left out for good: cryptography, certificates, peer ids, address formats, UDP sockets,
storage layout, statistics and the trace of gossipsub; they have no state or nothing
reads it.  `libp2p_gossipsub_rpc_frame_decode` and the blocking calls of
multistream_select.c are used by neither router nor host.

Left out so far, in the order in which they should be added:

1. A proof of `QuietAgreed` (GossipsubMeshPair).
2. Identify, on the pattern of Ping: its timeout, the slots against reused streams.
3. The receive side of a QUIC stream: credit and FIN towards the reader.
4. The IDONTWANT table and two connections to one peer in GossipsubMesh.
5. The gossipsub writer composed with SendStream in place of the bytes that it hands
   over.
