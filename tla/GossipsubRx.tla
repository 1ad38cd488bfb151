---------------------------- MODULE GossipsubRx ----------------------------
(***************************************************************************)
(* The receive side of gossipsub: each stream collects bytes until a       *)
(* length-prefixed RPC is complete (gossipsub_rx.c).  A stream starts with *)
(* a small buffer of its own and moves to a region of a shared pool when   *)
(* an RPC needs more; the regions are kept dense by moving them.           *)
(*                                                                         *)
(* The memory is modelled byte by byte, because what can go wrong is that  *)
(* a region is moved, grown or shared and its bytes are not.               *)
(***************************************************************************)
EXTENDS GossipsubCodec

CONSTANTS
    Streams,        \* the slots of gossipsub->streams, numbers from 1
    SmallCap,       \* GOSSIPSUB_STREAM_RX_SMALL_CAP
    ReadChunk,      \* GOSSIPSUB_STREAM_RX_READ_CHUNK
    FrameLenMax,    \* LIBP2P_GOSSIPSUB_FRAME_LEN_MAX_BYTES
    PoolStreams,    \* GOSSIPSUB_STREAM_RX_LARGE_POOL_STREAMS
    Reject,         \* not an RPC
    Refused,        \* RPCs on which gossipsub_process_rpc fails
    Scripts,        \* bound: the frames the first, second, ... stream opened brings;
                    \* a frame is [bytes, rpc] with rpc = Reject if it is not valid
    Fragments       \* bound: how many bytes may arrive at once

VARIABLES
    mem,        \* pool and small buffers, and where each stream's bytes are
    script,     \* what the streams not yet opened will bring
    sent,       \* sent[s]: the frames of the stream in slot s
    arrived,    \* bytes of them that have arrived at the host
    taken,      \* bytes of them read from the host
    done,       \* done[s]: RPCs processed
    stuck,      \* stuck[s]: the last read ended in an error
    open,       \* slots in state GOSSIPSUB_STREAM_OPEN
    overrun     \* rx_len was advanced past what was read

vars == <<mem, script, sent, arrived, taken, done, stuck, open, overrun>>

NoOffset == -1

(* gossipsub_storage_layout: the largest buffer, the small one, the pool.   *)
MaxCap == Limits.rpc + FrameLenMax
Stride == Min({SmallCap, MaxCap})
PoolCap == IF MaxCap > Stride THEN Min({Cardinality(Streams), PoolStreams}) * MaxCap ELSE 0

ASSUME GossipsubRxAssumption ==
    /\ SmallCap \in Nat \ {0} /\ ReadChunk \in Nat \ {0} /\ PoolStreams \in Nat \ {0}
    /\ IsFiniteSet(Streams) /\ Limits.rpc \in Nat

----------------------------------------------------------------------------
(* Buffers *)
EmptyRx == [off |-> NoOffset, cap |-> Stride, len |-> 0]

(* gossipsub_stream_rx_is_large *)
IsLarge(m, s) == m.rx[s].off # NoOffset
Large(m) == {s \in Streams : IsLarge(m, s)}

(* gossipsub_stream_rx_small, stream_state->rx: the bytes a stream holds.   *)
Held(m, s) ==
    IF IsLarge(m, s) THEN SubSeq(m.pool, m.rx[s].off + 1, m.rx[s].off + m.rx[s].len)
    ELSE SubSeq(m.small[s], 1, m.rx[s].len)

CopyTo(buf, at, bytes) ==
    SubSeq(buf, 1, at) \o bytes \o SubSeq(buf, at + Len(bytes) + 1, Len(buf))

(* Bytes written at a position of the buffer a stream uses. *)
Put(m, s, at, bytes) ==
    IF IsLarge(m, s) THEN [m EXCEPT !.pool = CopyTo(@, m.rx[s].off + at, bytes)]
    ELSE [m EXCEPT !.small[s] = CopyTo(@, at, bytes)]

(* gossipsub_stream_rx_next_cap *)
NextCap(cap, required) ==
    LET doubled[c \in Nat] ==
          IF c >= required \/ c >= MaxCap THEN c
          ELSE doubled[IF c > MaxCap \div 2 THEN MaxCap ELSE 2 * c]
    IN Min({MaxCap, Max({required, doubled[Max({cap, Stride})]})})

(* Mutant: only the bytes in use are moved, and one too few. *)
MoveLargeShort(m, s) ==
    LET r == m.rx[s]
    IN IF r.off + r.cap <= PoolCap /\ m.used + r.cap <= PoolCap
       THEN [m EXCEPT !.pool = CopyTo(@, m.used, SubSeq(@, r.off + 1, r.off + r.len - 1)),
                      !.rx[s].off = m.used, !.used = @ + r.cap]
       ELSE m

(* gossipsub_stream_rx_move_large, with the cursor in used *)
MoveLarge(m, s) ==
    LET r == m.rx[s]
    IN IF r.off + r.cap <= PoolCap /\ m.used + r.cap <= PoolCap
       THEN [m EXCEPT !.pool = CopyTo(@, m.used, SubSeq(@, r.off + 1, r.off + r.cap)),
                      !.rx[s].off = m.used, !.used = @ + r.cap]
       ELSE m

(* gossipsub_stream_rx_active_count, gossipsub_stream_rx_compact: the       *)
(* regions are moved down in the order of their offsets.  No caller passes  *)
(* a tail_index.                                                            *)
Compact(m) ==
    FoldLeft(MoveLarge, [m EXCEPT !.used = 0],
             SetToSortSeq(Large(m), LAMBDA s, t : m.rx[s].off < m.rx[t].off))

(* Mutant: the region is kept. *)
ResetLength(m, s) == [m EXCEPT !.rx[s].len = 0]

(* gossipsub_stream_rx_reset *)
Reset(m, s) == Compact([m EXCEPT !.rx[s] = EmptyRx])

(* A region behind all others, with the bytes held so far. *)
AtEnd(m, s, cap) ==
    [m EXCEPT !.pool = CopyTo(@, m.used, Held(m, s)),
              !.rx[s] = [off |-> m.used, cap |-> cap, len |-> m.rx[s].len],
              !.used = @ + cap]

(* The last region grows in place; another one, or a small buffer, moves    *)
(* behind all regions.                                                      *)
Grow(c, s, cap) ==
    LET last == IsLarge(c, s) /\ c.rx[s].off + c.rx[s].cap = c.used
    IN IF last /\ cap - c.rx[s].cap <= PoolCap - c.used
       THEN [m |-> [c EXCEPT !.rx[s].cap = cap, !.used = c.rx[s].off + cap], err |-> "ok"]
       ELSE IF ~last /\ cap <= PoolCap - c.used
       THEN [m |-> IF IsLarge(c, s) THEN Compact(AtEnd(c, s, cap)) ELSE AtEnd(c, s, cap),
             err |-> "ok"]
       ELSE [m |-> c, err |-> "would_block"]

(* gossipsub_stream_rx_reserve *)
Reserve(m, s, required) ==
    IF required > MaxCap THEN [m |-> m, err |-> "limit"]
    ELSE IF required <= m.rx[s].cap THEN [m |-> m, err |-> "ok"]
    ELSE IF NextCap(m.rx[s].cap, required) > PoolCap THEN [m |-> m, err |-> "limit"]
    ELSE Grow(Compact(m), s, NextCap(m.rx[s].cap, required))

(* gossipsub_stream_rx_shrink *)
Shrink(m, s) ==
    IF IsLarge(m, s) /\ m.rx[s].len <= Stride
    THEN Compact([m EXCEPT !.small[s] = CopyTo(@, 0, Held(m, s)),
                           !.rx[s] = [EmptyRx EXCEPT !.len = m.rx[s].len]])
    ELSE m

(* Bytes that no stream holds are forgotten between two calls: every read   *)
(* of a buffer is of bytes held, and the copies of whole regions move them  *)
(* along.                                                                   *)
Forget(m) ==
    LET live == UNION {m.rx[s].off + 1..m.rx[s].off + m.rx[s].len : s \in Large(m)}
    IN [m EXCEPT !.pool = [i \in DOMAIN @ |-> IF i \in live THEN @[i] ELSE 0],
                 !.small = [s \in Streams |->
                              [i \in DOMAIN @[s] |->
                                 IF ~IsLarge(m, s) /\ i <= m.rx[s].len THEN @[s][i] ELSE 0]]]

----------------------------------------------------------------------------
(* Reading.  While a stream is read, r = [m, taken, done] is what has       *)
(* become of it, r.on says that the loop goes on, r.err that it failed.     *)

(* The first n bytes of a buffer are consumed. *)
Consume(m, s, n) == [Put(m, s, 0, DropBytes(Held(m, s), n)) EXCEPT !.rx[s].len = @ - n]

(* The body of the loop of gossipsub_stream_decode_available.  Of an        *)
(* incomplete length the code decodes an empty RPC and consumes nothing.    *)
Processed(r, s, n, rpc) ==
    IF ~rpc.ok \/ rpc.val \in Refused THEN [r EXCEPT !.on = FALSE, !.err = TRUE]
    ELSE [r EXCEPT !.m = Consume(@, s, n), !.done = Append(@, rpc.val)]

(* Mutant: a frame is taken for incomplete until a byte follows it. *)
DecodeFrameLate(r, s, b, len) ==
    IF b = <<>> \/ len.truncated THEN [r EXCEPT !.on = FALSE]
    ELSE IF ~len.ok \/ len.val > Limits.rpc THEN [r EXCEPT !.on = FALSE, !.err = TRUE]
    ELSE IF Len(b) - len.len <= len.val THEN [r EXCEPT !.on = FALSE]
    ELSE Processed(r, s, len.len + len.val,
                   RpcBodyDecode(SubSeq(b, len.len + 1, len.len + len.val)))

DecodeFrame(r, s, b, len) ==
    IF b = <<>> \/ len.truncated THEN [r EXCEPT !.on = FALSE]
    ELSE IF ~len.ok \/ len.val > Limits.rpc THEN [r EXCEPT !.on = FALSE, !.err = TRUE]
    ELSE IF Len(b) - len.len < len.val THEN [r EXCEPT !.on = FALSE]
    ELSE Processed(r, s, len.len + len.val,
                   RpcBodyDecode(SubSeq(b, len.len + 1, len.len + len.val)))
DecodeOne(r, s) == DecodeFrame(r, s, Held(r.m, s), ReadVarint(Held(r.m, s)))

(* gossipsub_stream_decode_available *)
DecodeAvailable(r, s) ==
    LET Done(d) == IF d.err THEN d ELSE [d EXCEPT !.on = TRUE, !.m = Shrink(@, s)]
    IN Done(While(LAMBDA x : DecodeOne(x, s), r, r.m.rx[s].len + 1))

Bytes(frames) == FoldLeft(LAMBDA b, f : b \o f.bytes, <<>>, frames)

(* n bytes are read from the host and decoded. *)
ReadBytes(r, s, n) ==
    DecodeAvailable(
        [r EXCEPT !.m = [Put(@, s, @.rx[s].len, SubSeq(Bytes(sent[s]), r.taken + 1, r.taken + n))
                         EXCEPT !.rx[s].len = @ + n],
                  !.taken = @ + n, !.readLen = n], s)

(* The body of the loop of gossipsub_stream_read: bytes have arrived up to  *)
(* position avail, g is the buffer after reserve, r.readLen what the        *)
(* previous round read.  When the pool has no room, the code adds it to     *)
(* rx_len although nothing was read.                                        *)
Received(r, s, avail, g) ==
    IF g.err = "limit" THEN [r EXCEPT !.on = FALSE, !.err = TRUE]
    ELSE IF g.err = "would_block"
    THEN [r EXCEPT !.on = FALSE, !.over = r.readLen # 0,
                   !.m = [g.m EXCEPT !.rx[s].len = @ + r.readLen]]
    ELSE IF avail = r.taken THEN [r EXCEPT !.on = FALSE, !.m = g.m]
    ELSE ReadBytes([r EXCEPT !.m = g.m], s,
                   Min({g.m.rx[s].cap - g.m.rx[s].len, ReadChunk, avail - r.taken}))
ReadRound(r, s, avail) ==
    LET x == r.m.rx[s]
    IN IF x.len >= MaxCap THEN [r EXCEPT !.on = FALSE, !.err = TRUE]
       ELSE Received(r, s, avail,
                     IF x.cap > x.len THEN [m |-> r.m, err |-> "ok"]
                     ELSE Reserve(r.m, s, Min({x.len + ReadChunk, MaxCap})))

(* gossipsub_stream_read *)
Read(s, avail) ==
    While(LAMBDA r : ReadRound(r, s, avail),
          [m |-> mem, taken |-> taken[s], done |-> done[s], readLen |-> 0,
           on |-> TRUE, err |-> FALSE, over |-> FALSE],
          avail - taken[s] + 1)

----------------------------------------------------------------------------
Init ==
    /\ mem = [pool |-> [i \in 1..PoolCap |-> 0], used |-> 0,
              small |-> [s \in Streams |-> [i \in 1..Stride |-> 0]],
              rx |-> [s \in Streams |-> EmptyRx]]
    /\ script \in Scripts
    /\ sent = [s \in Streams |-> <<>>]
    /\ arrived = [s \in Streams |-> 0]
    /\ taken = [s \in Streams |-> 0]
    /\ done = [s \in Streams |-> <<>>]
    /\ stuck = [s \in Streams |-> FALSE]
    /\ open = {} /\ overrun = FALSE

(* gossipsub_alloc_stream: the first free slot *)
Open ==
    /\ ~overrun /\ script # <<>>
    /\ Streams \ open # {}
    /\ LET s == Min(Streams \ open)
       IN /\ mem' = Forget(Reset(mem, s))
          /\ sent' = [sent EXCEPT ![s] = Head(script)]
          /\ open' = open \union {s}
    /\ script' = Tail(script)
    /\ UNCHANGED <<arrived, taken, done, stuck, overrun>>

(* More bytes arrive, the host reports READABLE and the stream is read: the *)
(* whole of gossipsub_stream_read.                                          *)
Readable(s, n) ==
    /\ ~overrun /\ s \in open
    /\ arrived[s] < Len(Bytes(sent[s]))
    /\ arrived' = [arrived EXCEPT ![s] = Min({@ + n, Len(Bytes(sent[s]))})]
    /\ \E r \in {Read(s, arrived'[s])} :
          /\ mem' = Forget(r.m)
          /\ taken' = [taken EXCEPT ![s] = r.taken]
          /\ done' = [done EXCEPT ![s] = r.done]
          /\ stuck' = [stuck EXCEPT ![s] = r.err]
          /\ overrun' = r.over
    /\ UNCHANGED <<script, sent, open>>

(* RESET, CLOSED, or the connection closes. *)
Close(s) ==
    /\ ~overrun /\ s \in open
    /\ mem' = Forget(Reset(mem, s))
    /\ open' = open \ {s}
    /\ sent' = [sent EXCEPT ![s] = <<>>]
    /\ arrived' = [arrived EXCEPT ![s] = 0]
    /\ taken' = [taken EXCEPT ![s] = 0]
    /\ done' = [done EXCEPT ![s] = <<>>]
    /\ stuck' = [stuck EXCEPT ![s] = FALSE]
    /\ UNCHANGED <<script, overrun>>

Next ==
    \/ Open
    \/ \E s \in Streams : Close(s)
    \/ \E s \in Streams, n \in Fragments : Readable(s, n)

Spec == Init /\ [][Next]_vars

----------------------------------------------------------------------------
(* Properties *)
Region(s) == mem.rx[s].off + 1..mem.rx[s].off + mem.rx[s].cap

(* Frames of s whose last byte has been read, unless an earlier one is not  *)
(* acceptable.                                                              *)
Acceptable(f) == f.rpc # Reject /\ f.rpc \notin Refused
Complete(s) ==
    Max({k \in 0..Len(sent[s]) :
            /\ Len(Bytes(SubSeq(sent[s], 1, k))) <= taken[s]
            /\ \A i \in 1..k : Acceptable(sent[s][i])})

(* However the bytes of the streams interleave and regions are moved, grown *)
(* and given back: what a stream holds is exactly the bytes it has read of  *)
(* its peer and not yet processed, and regions are disjoint and inside the  *)
(* used part of the pool (compact, reserve, shrink, the memmove of          *)
(* decode_available).                                                       *)
RxIntact ==
    ~overrun =>
        /\ \A s \in open :
             Held(mem, s) = SubSeq(Bytes(sent[s]),
                                   Len(Bytes(SubSeq(sent[s], 1, Len(done[s])))) + 1, taken[s])
        /\ \A s \in Large(mem) :
             /\ mem.rx[s].len <= mem.rx[s].cap
             /\ Region(s) \subseteq 1..mem.used
             /\ \A t \in Large(mem) \ {s} : Region(s) \cap Region(t) = {}
        /\ mem.used <= PoolCap

(* Every frame is processed when its last byte has been read, in order and  *)
(* as it was sent, whatever fields of later versions it carries, and        *)
(* reading fails only at a frame that is not acceptable.                    *)
FramesInOrder ==
    ~overrun => \A s \in open :
        /\ done[s] = [i \in 1..Complete(s) |-> sent[s][i].rpc]
        /\ stuck[s] => Complete(s) < Len(sent[s]) /\ ~Acceptable(sent[s][Complete(s) + 1])

(* A stream finds no room in the pool, and then counts bytes twice (see     *)
(* Received), only while another open one holds a region of it: what closed *)
(* streams held is given back, and a single stream can always receive the   *)
(* largest RPC.                                                             *)
NeverBlockedAlone ==
    \A s \in Streams : mem.rx[s].len > mem.rx[s].cap => Large(mem) \cap (open \ {s}) # {}

(* PRUNEs are written without their peers. *)
WithoutPeers(rpc) ==
    [rpc EXCEPT !.control.prune = [i \in DOMAIN @ |-> [@[i] EXCEPT !.peers = 0]]]

(* gossipsub_rpc_frame_size is the number of bytes the encoder writes, and  *)
(* what it writes decodes to the same RPC but for the peers of its PRUNEs,  *)
(* for every RPC a stream brings: the sender reserves exactly that much.    *)
SizeExact ==
    \A s \in open : taken[s] = 0 =>
        \A i \in 1..Len(sent[s]) :
            LET rpc == sent[s][i].rpc
            IN rpc # Reject =>
                 /\ Encodable(rpc, 12)
                 /\ RpcFrameSize(rpc) = Len(RpcFrameEncode(rpc))
                 /\ RpcBodyDecode(RpcBodyEncode(rpc)) = [ok |-> TRUE, val |-> WithoutPeers(rpc)]
=============================================================================
