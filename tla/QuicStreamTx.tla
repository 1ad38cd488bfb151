----------------------------- MODULE QuicStreamTx -----------------------------
(***************************************************************************)
(* The send side of one QUIC stream (quic_backend_ngtcp2_stream.c, with the *)
(* callbacks that report acknowledgements and the datagram writer).         *)
(*                                                                          *)
(* Bytes that ngtcp2 has taken stay in tx_data until they are acknowledged: *)
(* ngtcp2 keeps pointers into tx_data and reads the bytes again when it     *)
(* retransmits.  The buffer may therefore move or be freed only when        *)
(* nothing that was sent is outstanding.  The acknowledged part is kept as  *)
(* a table of ranges of stream offsets; the buffer is reclaimed when they   *)
(* cover everything that was sent.                                          *)
(*                                                                          *)
(* A byte is named by its position in the stream.  ngtcp2 is external: it   *)
(* takes any part of what it is offered and reports acknowledgements of     *)
(* ranges in any order.  The event ring is shared with every other stream   *)
(* of the endpoint, so a push may find it full at any time.                 *)
(***************************************************************************)
EXTENDS Integers, Sequences, FiniteSets

CONSTANTS
    RetainedLimit,   \* initial_stream_window_bytes * SEND_MULTIPLIER
    MinCap,          \* QUIC_BACKEND_STREAM_SEND_MIN_CAP
    AckRangeCap,     \* QUIC_BACKEND_STREAM_ACK_RANGE_CAP
    MaxBytes         \* bound: bytes written to the stream

ASSUME StreamTxAssumption ==
    {RetainedLimit, MinCap, AckRangeCap, MaxBytes} \subseteq Nat \ {0}

VARIABLES
    buf,        \* the first tx_len bytes of tx_data
    cap,        \* tx_cap
    block,      \* which allocation tx_data is
    sent,       \* tx_sent_len
    base,       \* tx_base_offset
    ranges,     \* tx_ack_ranges
    finQueued,  \* local_fin_queued
    finSent,    \* local_fin_sent
    state,      \* "OPEN"; "RESET": local_reset; "CLOSED": ngtcp2 closed the stream
    conn,       \* "OPEN", or "CLOSING" after a failed callback
    writable,   \* a STREAM_WRITABLE event of the stream is in the event ring
    flight,     \* external: what ngtcp2 may still read, with where it reads it
    waiting,    \* the writer was refused bytes and waits for STREAM_WRITABLE
    written,    \* history: bytes that entered the buffer
    forgotten   \* history: an acknowledged range found the table full

bufferVars == <<buf, cap, block, sent, base>>
finVars == <<finQueued, finSent>>
vars == <<bufferVars, ranges, finVars, state, conn, writable, flight, waiting, written,
          forgotten>>

AckRange == [start : Nat, end : Nat]
Pointer == [offset : Nat, block : Nat, at : Nat]

SetMin(S) == CHOOSE x \in S : \A y \in S : x <= y
SetMax(S) == CHOOSE x \in S : \A y \in S : x >= y

-----------------------------------------------------------------------------
(***************************************************************************)
(* The buffer.                                                             *)
(***************************************************************************)

\* The loop of quic_backend_stream_next_tx_cap: c is doubled until it is enough, or
\* the limit if that would exceed it.
Doubled(c, required, limit) ==
    SetMin({limit} \cup {x \in c .. limit : x >= required /\ \E k \in 0 .. limit : x = c * 2^k})

\* quic_backend_stream_next_tx_cap, of a limit that is not 0
NextCap(current, required, limit) ==
    LET start == SetMax({current, SetMin({MinCap, limit})})
        grown == IF start >= limit THEN start ELSE Doubled(start, required, limit)
    IN  SetMin({SetMax({grown, required}), limit})

\* Mutant: the buffer grows while ngtcp2 holds pointers into it.
MayGrowAnyTime(required) == TRUE

\* quic_backend_stream_reserve_tx does not have to wait.
MayGrow(required) == required <= cap \/ sent = 0

\* quic_backend_stream_reserve_tx: realloc gives a new block.
Reserve(required) ==
    IF required <= cap THEN UNCHANGED <<cap, block>>
    ELSE /\ cap' = NextCap(cap, required, RetainedLimit)
         /\ block' = block + 1

\* quic_backend_stream_shrink_tx when nothing sent is left and len bytes remain.
Shrink(len) ==
    LET smaller == IF len = 0 THEN 0 ELSE IF len < cap THEN NextCap(0, len, cap) ELSE cap
    IN  /\ cap' = smaller
        /\ block' = IF smaller < cap THEN block + 1 ELSE block

-----------------------------------------------------------------------------
(***************************************************************************)
(* The acknowledged ranges.                                                *)
(***************************************************************************)

\* Mutant: ranges that only touch are not merged.
TouchedOverlapping(new) ==
    {r \in ranges : r.end > new.start /\ r.start < new.end}

\* The ranges that overlap or touch a new one.
Touched(new) ==
    {r \in ranges : r.end >= new.start /\ r.start <= new.end}

\* quic_backend_stream_insert_ack_range: the ranges that touch become one, and the
\* result has to find room in the table.
Merged(new) ==
    LET all == Touched(new) \cup {new}
    IN  [start |-> SetMin({r.start : r \in all}), end |-> SetMax({r.end : r \in all})]

Kept(new) == ranges \ Touched(new)
HasRoom(new) == Cardinality(Kept(new)) < AckRangeCap
Inserted(new) == IF HasRoom(new) THEN Kept(new) \cup {Merged(new)} ELSE Kept(new)

\* Mutant: a range has to reach beyond what was sent.
CoversBeyond(table) == \E r \in table : r.start <= base /\ r.end > base + sent

\* The first range covers everything that was sent.
Covers(table) == \E r \in table : r.start <= base /\ r.end >= base + sent

-----------------------------------------------------------------------------
(***************************************************************************)
(* The writer.                                                             *)
(***************************************************************************)

\* quic_backend_validate_stream and the checks of quic_backend_stream_write, which do
\* not look at the connection.
MayWrite == state = "OPEN" /\ ~finQueued

Room == RetainedLimit - Len(buf)
AcceptLen(n) == IF n <= Room THEN n ELSE Room
NextBytes(n) == [i \in 1 .. n |-> written + i - 1]

\* quic_backend_stream_write of n bytes that takes at least some of them.  The push of
\* TX_DATAGRAM_READY at the end may fail; the bytes are in the buffer all the same.
Write(n, fin) ==
    LET m == AcceptLen(n)
    IN  /\ MayWrite /\ written + n <= MaxBytes
        /\ n # 0 => Room > 0
        /\ MayGrow(Len(buf) + m)
        /\ Reserve(Len(buf) + m)
        /\ buf' = buf \o NextBytes(m)
        /\ written' = written + m
        /\ finQueued' = (fin /\ m = n)
        /\ waiting' = (m < n)
        /\ UNCHANGED <<sent, base, ranges, finSent, state, conn, writable, flight, forgotten>>

\* ... and one that would block: the buffer is full, or too small and in use.
WriteBlocked(n) ==
    /\ MayWrite /\ n > 0
    /\ Room = 0 \/ ~MayGrow(Len(buf) + AcceptLen(n))
    /\ waiting' = TRUE
    /\ UNCHANGED <<bufferVars, ranges, finVars, state, conn, writable, flight, written, forgotten>>

\* quic_backend_stream_discard_tx
DiscardTx ==
    /\ base' = base + sent
    /\ buf' = <<>> /\ sent' = 0
    /\ cap' = 0 /\ block' = block + 1
    /\ ranges' = {} /\ finQueued' = FALSE /\ finSent' = FALSE
    /\ waiting' = FALSE

\* quic_backend_stream_reset; ngtcp2 gives up the bytes of the stream.
Reset ==
    /\ state = "OPEN"
    /\ DiscardTx
    /\ state' = "RESET" /\ flight' = {}
    /\ UNCHANGED <<conn, writable, written, forgotten>>

\* The event is taken from the ring and the writer tries again.
TakeWritable ==
    /\ writable /\ writable' = FALSE
    /\ waiting' = FALSE
    /\ UNCHANGED <<bufferVars, ranges, finVars, state, conn, flight, written, forgotten>>

-----------------------------------------------------------------------------
(***************************************************************************)
(* The transport (quic_backend_write_conn_datagram and the callbacks).     *)
(***************************************************************************)

\* quic_backend_conn_next_tx_stream finds the stream.
HasTx == state # "CLOSED" /\ conn = "OPEN" /\ (sent < Len(buf) \/ (finQueued /\ ~finSent))

\* quic_backend_maybe_wake_stream_after_tx_drain
DrainWake(len, now) == len # 0 /\ now = len /\ ~finQueued /\ state = "OPEN"

\* ngtcp2 takes n bytes; the drain event is dropped if the ring is full.
Transmit(n) ==
    /\ HasTx /\ sent < Len(buf)
    /\ n \in 0 .. Len(buf) - sent
    /\ sent' = sent + n
    /\ flight' = flight \cup
         {[offset |-> base + i, block |-> block, at |-> i] : i \in sent .. sent + n - 1}
    /\ \/ writable' = (writable \/ DrainWake(Len(buf), sent + n))
       \/ UNCHANGED writable
    /\ UNCHANGED <<buf, cap, block, base, ranges, finVars, state, conn, waiting, written, forgotten>>

\* Mutant: the FIN does not wait for the last bytes.
TransmitFinEarly ==
    /\ HasTx /\ finQueued /\ ~finSent
    /\ finSent' = TRUE
    /\ UNCHANGED <<bufferVars, ranges, finQueued, state, conn, writable, flight, waiting, written,
                   forgotten>>

\* The FIN goes alone, when every byte has been sent.
TransmitFin ==
    /\ HasTx /\ sent = Len(buf)
    /\ finSent' = TRUE
    /\ UNCHANGED <<bufferVars, ranges, finQueued, state, conn, writable, flight, waiting, written,
                   forgotten>>

\* Mutant: the bytes are reclaimed and nobody is told.
WakeBlockedWriterSilent == UNCHANGED <<writable, conn>>

\* quic_backend_wake_blocked_writer: not of a stream with a FIN or a stream that is over
\* (after a local reset it is over only if the peer had finished).  A full ring fails
\* the callback, and the connection is closed (quic_backend_handle_conn_error).
WakeBlockedWriter ==
    \/ /\ finQueued \/ state # "OPEN"
       /\ UNCHANGED <<writable, conn>>
    \/ /\ ~finQueued /\ state # "CLOSED"
       /\ \/ writable' = TRUE /\ UNCHANGED conn
          \/ conn' = "CLOSING" /\ UNCHANGED writable

\* The part of an acknowledged range that lies in what was sent.
Clipped(first, last) ==
    [start |-> SetMax({first, base}), end |-> SetMin({last + 1, base + sent})]

\* Mutant: the bytes that were not sent yet are dropped with the others.
RemainingNone == <<>>

\* What remains of the buffer.
Remaining == SubSeq(buf, sent + 1, Len(buf))

\* quic_backend_reclaim_acked_stream_data: the range is recorded ...
AckRecorded(first, last) ==
    LET new == Clipped(first, last)
    IN  /\ ~Covers(Inserted(new))
        /\ ranges' = Inserted(new)
        /\ forgotten' = (forgotten \/ ~HasRoom(new))
        /\ UNCHANGED <<bufferVars, conn, writable>>

\* ... and with the last one the sent part is dropped and the writer is woken.
AckReclaims(first, last) ==
    /\ Covers(Inserted(Clipped(first, last)))
    /\ buf' = Remaining
    /\ base' = base + sent
    /\ sent' = 0
    /\ Shrink(Len(buf) - sent)
    /\ ranges' = {}
    /\ WakeBlockedWriter
    /\ UNCHANGED forgotten

\* The bytes first .. last are acknowledged (quic_backend_acked_stream_data_offset_cb).
Ack(first, last) ==
    LET acked == {p \in flight : p.offset \in first .. last}
    IN  /\ conn = "OPEN" /\ state # "CLOSED"
        /\ first <= last
        /\ \A o \in first .. last : \E p \in flight : p.offset = o
        /\ flight' = flight \ acked
        /\ AckRecorded(first, last) \/ AckReclaims(first, last)
        /\ UNCHANGED <<finVars, state, waiting, written>>

\* quic_backend_extend_max_stream_data_cb: the peer allows more bytes.
ExtendMaxStreamData ==
    /\ conn = "OPEN" /\ state # "CLOSED"
    /\ WakeBlockedWriter
    /\ UNCHANGED <<bufferVars, ranges, finVars, state, flight, waiting, written, forgotten>>

\* quic_backend_stream_close_cb: ngtcp2 is done with the stream.
StreamClose ==
    /\ state # "CLOSED" /\ conn = "OPEN"
    /\ DiscardTx
    /\ state' = "CLOSED" /\ flight' = {}
    /\ UNCHANGED <<conn, writable, written, forgotten>>

Init ==
    /\ buf = <<>> /\ cap = 0 /\ block = 0 /\ sent = 0 /\ base = 0
    /\ ranges = {}
    /\ finQueued = FALSE /\ finSent = FALSE
    /\ state = "OPEN" /\ conn = "OPEN"
    /\ writable = FALSE
    /\ flight = {}
    /\ waiting = FALSE
    /\ written = 0
    /\ forgotten = FALSE

Next ==
    \/ \E n \in 0 .. MaxBytes, fin \in BOOLEAN : (n # 0 \/ fin) /\ Write(n, fin)
    \/ \E n \in 1 .. MaxBytes : WriteBlocked(n)
    \/ Reset
    \/ TakeWritable
    \/ \E n \in 0 .. RetainedLimit : Transmit(n)
    \/ TransmitFin
    \/ \E first, last \in 0 .. MaxBytes : Ack(first, last)
    \/ ExtendMaxStreamData
    \/ StreamClose

Spec == Init /\ [][Next]_vars

\* Datagrams are written and what was sent is acknowledged in the end; events are
\* taken.  Nothing is assumed of the writer or of the room in the event ring.
FairSpec ==
    /\ Spec
    /\ WF_vars(\E n \in 1 .. RetainedLimit : Transmit(n))
    /\ WF_vars(\E first, last \in 0 .. MaxBytes : Ack(first, last))
    /\ WF_vars(TakeWritable)

-----------------------------------------------------------------------------
(***************************************************************************)
(* Properties.                                                             *)
(***************************************************************************)

\* Every variable has its type; the buffer never holds more than it has room for nor
\* more than the retained limit, and the range table never overflows.
TypeOK ==
    /\ buf \in Seq(Nat) /\ Len(buf) <= cap
    /\ cap \in 0 .. RetainedLimit
    /\ block \in Nat
    /\ sent \in 0 .. Len(buf)
    /\ base \in Nat
    /\ ranges \subseteq AckRange /\ Cardinality(ranges) <= AckRangeCap
    /\ finQueued \in BOOLEAN /\ finSent \in BOOLEAN
    /\ state \in {"OPEN", "RESET", "CLOSED"}
    /\ conn \in {"OPEN", "CLOSING"}
    /\ writable \in BOOLEAN
    /\ flight \subseteq Pointer
    /\ waiting \in BOOLEAN
    /\ written \in Nat
    /\ forgotten \in BOOLEAN

\* Whenever ngtcp2 retransmits it finds the right byte: what it may still read is in
\* the present block, where it was when it was sent, although the buffer grows,
\* shrinks and is moved down (quic_backend_stream_reserve_tx,
\* quic_backend_reclaim_acked_stream_data, quic_backend_stream_shrink_tx).
Retransmittable ==
    \A p \in flight :
        p.block = block /\ p.at < sent /\ buf[p.at + 1] = p.offset

\* What is offered to ngtcp2 next is the next byte of the stream: no byte that was
\* taken from the writer is skipped or repeated by a reclaim.
InOrder ==
    state = "OPEN" => \A i \in 1 .. Len(buf) : buf[i] = base + i - 1

\* The ranges are apart from each other and say of every byte that was sent whether
\* it is outstanding, unless a full table had to forget one.
RangesExact ==
    /\ \A r, q \in ranges : r # q => r.end < q.start \/ q.end < r.start
    /\ ~forgotten /\ state = "OPEN" =>
         \A o \in base .. base + sent - 1 :
            (\E r \in ranges : r.start <= o /\ o < r.end) <=> (\A p \in flight : p.offset # o)

\* A writer that was refused bytes is not left alone: the event is in the ring, or
\* there are bytes whose transmission or acknowledgement will put it there.
WriterNotForgotten ==
    waiting /\ state = "OPEN" /\ conn = "OPEN" /\ ~finQueued => writable \/ buf # <<>>

\* What the stream is to its writer, to the transport and to the peer.
Status ==
    IF state # "OPEN" THEN "over"
    ELSE IF finSent THEN "finished" ELSE IF finQueued THEN "final" ELSE "open"

Stream == INSTANCE SendStream WITH
            Limit <- RetainedLimit, sent <- base + sent, released <- base,
            pending <- {p.offset : p \in flight}, exact <- ~forgotten, status <- Status

\* The buffer, the table of ranges and the two FIN flags implement the stream of
\* SendStream: bytes go out in order and the FIN behind the last of them, what ngtcp2 may
\* send again is kept until its acknowledgement, and is released together with the last
\* acknowledgement, in whatever order they come and whatever ranges they have
\* (quic_backend_stream_write, quic_backend_reclaim_acked_stream_data,
\* quic_backend_stream_discard_tx).
StreamPromise == Stream!Spec

\* A writer that was refused bytes can go on, unless the stream or the connection
\* ends or an acknowledgement was forgotten.
WriterResumes ==
    waiting ~> (~waiting \/ conn = "CLOSING" \/ forgotten)

=============================================================================
