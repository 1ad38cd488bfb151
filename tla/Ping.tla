-------------------------------- MODULE Ping --------------------------------
(***************************************************************************)
(* The ping protocol handler of one host (src/protocol/ping/ping.c): its   *)
(* stream slots, its event ring, and the part of the host it talks to (the *)
(* stream handles, which the host reuses, and the callbacks on_open and    *)
(* on_event with the order in which the host runs them).                   *)
(*                                                                         *)
(* A payload is a sequence of PayloadBytes bytes.  The network and the     *)
(* remote peer are the environment: the peer may send any bytes, end,      *)
(* reset or close a stream at any time, and a write may accept any part of *)
(* what it is given, or nothing.                                           *)
(*                                                                         *)
(* Callbacks are written on a record st of the four components they touch  *)
(* and return the set of their outcomes [st, ok]; ok is FALSE for an error *)
(* that the host answers by resetting and releasing the stream.            *)
(***************************************************************************)
EXTENDS Integers, Sequences, FiniteSets, Functions, SequencesExt

CONSTANTS
    Conns,           \* host connections
    NumSlots,        \* LIBP2P_PING_MAX_STREAMS
    NumHandles,      \* stream slots of the host
    EventCapacity,   \* LIBP2P_PING_EVENT_CAPACITY
    Payloads,        \* what random_fn may return: sequences of equal length
    NoConn, NoStream, \* null pointers
    MaxStreams,      \* bound: streams opened in a behaviour
    MaxInbound,      \* bound: streams of the peer at a time
    MaxPeerBytes     \* bound: bytes the peer sends on the streams that have not ended

ASSUME PingAssumption ==
    /\ NumSlots \in Nat \ {0} /\ NumHandles \in Nat \ {0} /\ EventCapacity \in Nat \ {0}
    /\ NoStream \notin 1..NumHandles
    /\ Payloads # {}
    /\ \A p, q \in Payloads : p \in Seq(Nat) /\ Len(p) = Len(q) /\ Len(p) > 0

Slots == 1..NumSlots
Handles == 1..NumHandles
PayloadBytes == Len(CHOOSE p \in Payloads : TRUE)
Bytes == UNION {Range(p) : p \in Payloads}

VARIABLES
    slot,     \* ping->streams
    events,   \* ping->events, a FIFO of at most EventCapacity
    hs,       \* the host's stream handles and what their stream carries
    opened,   \* streams opened so far
    trouble   \* an event was lost at the full ring, a callback failed, or a handle
              \* was reused while a slot that reported its end still names it

vars == <<slot, events, hs, opened, trouble>>

FreeSlot == [state |-> "free", dir |-> "none", conn |-> NoConn, stream |-> NoStream,
             tx |-> <<>>, txPos |-> 0, rx |-> <<>>]
FreeHandle == [use |-> "free", dir |-> "none", conn |-> NoConn, in |-> <<>>,
               sentByPeer |-> 0, fin |-> FALSE, dead |-> FALSE, pend |-> {},
               got |-> <<>>, wrote |-> <<>>]

Init == /\ slot = [i \in Slots |-> FreeSlot]
        /\ events = <<>>
        /\ hs = [h \in Handles |-> FreeHandle]
        /\ opened = 0
        /\ trouble = FALSE

----------------------------------------------------------------------------
(* Lookups *)
First(S) == CHOOSE i \in S : \A j \in S : i <= j
SlotsIn(st, state) == {i \in Slots : st.slot[i].state = state}
SlotsOf(st, h) == {i \in Slots : st.slot[i].state # "free" /\ st.slot[i].stream = h}
ConnHasOutbound(c) ==
    \E i \in Slots : /\ slot[i].state \notin {"free", "evented"}
                     /\ slot[i].dir = "out" /\ slot[i].conn = c

Ok(st) == [st |-> st, ok |-> TRUE]
Failed(st) == [st |-> [st EXCEPT !.trouble = TRUE], ok |-> FALSE]

(* ping_event_push *)
EventPush(st, i, type) ==
    IF Len(st.events) = EventCapacity
    THEN Failed(st)
    ELSE Ok([st EXCEPT !.events = Append(@,
              [type |-> type, slot |-> i, stream |-> st.slot[i].stream])])

(* A stream the transport has ended: reads and writes fail, nothing arrives. *)
Ended(hnd) == [hnd EXCEPT !.dead = TRUE, !.in = <<>>, !.fin = FALSE, !.sentByPeer = 0,
                          !.got = <<>>, !.wrote = <<>>]

(* The slot that reports the end of its stream: it forgets its connection. *)
Evented(o, i) ==
    [o EXCEPT !.st.slot[i] = [@ EXCEPT !.conn = NoConn, !.state = "evented"]]

(* ping_fail_stream: report an error, reset the stream and forget it. *)
FailStream(st, i) ==
    LET h == st.slot[i].stream
        o == Evented(EventPush(st, i, "error"), i)
    IN [o EXCEPT !.st.slot[i].stream = NoStream, !.st.hs[h] = Ended(@)]

(* Mutant: the slot stays in use after its end was reported. *)
EmitClosedStillUsed(st, i) == EventPush(st, i, "closed")

(* ping_emit_closed: the slot keeps naming the stream. *)
EmitClosed(st, i) == Evented(EventPush(st, i, "closed"), i)

(* ping_emit_pong *)
EmitPong(st, i) ==
    LET o == EventPush(st, i, "pong")
    IN IF o.ok
       THEN [o EXCEPT !.st.slot[i] = [@ EXCEPT !.state = "initiator_idle", !.rx = <<>>,
                                               !.txPos = 0]]
       ELSE o

(* Mutant: a partial write of a responder does not move the write position. *)
AcceptedNotCounted(st, i, k) ==
    LET s == st.slot[i]
        next == [s EXCEPT !.state = IF s.dir = "out" THEN "initiator_reading"
                                    ELSE "responder_reading",
                          !.rx = <<>>, !.txPos = IF s.dir = "out" THEN PayloadBytes ELSE 0]
    IN [st EXCEPT !.slot[i] = IF s.txPos + k = PayloadBytes THEN next
                              ELSE [s EXCEPT !.txPos = IF s.dir = "in" THEN 0 ELSE @ + k],
                  !.hs[s.stream].wrote = @ \o SubSeq(s.tx, s.txPos + 1, s.txPos + k)]

(* ping_prepare_payload *)
Prepared(s, p) == [s EXCEPT !.tx = p, !.txPos = 0, !.rx = <<>>]

(* The k bytes that libp2p_host_stream_write accepted. *)
Accepted(st, i, k) ==
    LET s == st.slot[i]
        done == s.txPos + k = PayloadBytes
        next == IF s.dir = "out"
                THEN [s EXCEPT !.state = "initiator_reading", !.rx = <<>>,
                               !.txPos = PayloadBytes]
                ELSE [s EXCEPT !.state = "responder_reading", !.rx = <<>>, !.txPos = 0]
    IN [st EXCEPT !.slot[i] = IF done THEN next ELSE [s EXCEPT !.txPos = @ + k],
                  !.hs[s.stream].wrote = @ \o SubSeq(s.tx, s.txPos + 1, s.txPos + k)]

(* ping_write_stream: a stream the transport has ended refuses the write.   *)
(* Reading the clock for the first bytes of a ping may fail: the bytes are  *)
(* then gone but not counted.                                               *)
WriteStream(st, i) ==
    LET s == st.slot[i]
    IN IF s.txPos >= PayloadBytes THEN {Ok(st)}
       ELSE IF st.hs[s.stream].dead THEN {FailStream(st, i)}
       ELSE {Ok(st)}
            \cup {Ok(Accepted(st, i, k)) : k \in 1..(PayloadBytes - s.txPos)}
            \cup IF s.dir = "out" /\ s.txPos = 0 THEN {Failed(st)} ELSE {}

(* The k bytes that libp2p_host_stream_read moves from the stream to the slot. *)
Fill(st, i, k) ==
    LET in == st.hs[st.slot[i].stream].in
    IN [st EXCEPT !.slot[i].rx = @ \o SubSeq(in, 1, k),
                  !.hs[st.slot[i].stream].in = SubSeq(in, k + 1, Len(in)),
                  !.hs[st.slot[i].stream].got = @ \o SubSeq(in, 1, k)]

(* What a read may return: any part of what is there, as far as the slot has *)
(* room, for what is left over from the negotiation comes first and alone;   *)
(* and the end of the stream, with the last bytes or after them.             *)
Reads(st, i) ==
    LET n == st.hs[st.slot[i].stream]
        room == PayloadBytes - Len(st.slot[i].rx)
    IN {[st |-> Fill(st, i, k), fin |-> FALSE] : k \in {k \in 1..room : k <= Len(n.in)}}
       \cup IF n.fin /\ Len(n.in) <= room
            THEN {[st |-> Fill(st, i, Len(n.in)), fin |-> TRUE]} ELSE {}

(* A read that finds neither bytes nor the end of the stream waits. *)
WouldBlock(st, i) ==
    /\ st.hs[st.slot[i].stream].in = <<>>
    /\ ~st.hs[st.slot[i].stream].fin

(* ping_read_responder: echo a whole payload; the end of the stream between *)
(* two payloads is a regular end, inside one an error.                      *)
Respond(read, fin, i) ==
    LET echo == [read EXCEPT !.slot[i].tx = read.slot[i].rx, !.slot[i].txPos = 0,
                             !.slot[i].state = "responder_writing"]
    IN IF Len(read.slot[i].rx) = PayloadBytes THEN WriteStream(echo, i)
       ELSE IF ~fin THEN {Ok(read)}
       ELSE IF read.slot[i].rx = <<>> THEN {EmitClosed(read, i)}
       ELSE {FailStream(read, i)}

ReadResponder(st, i) ==
    IF st.hs[st.slot[i].stream].dead THEN {FailStream(st, i)}
    ELSE IF WouldBlock(st, i) THEN {Ok(st)}
    ELSE UNION {Respond(r.st, r.fin, i) : r \in Reads(st, i)}

(* Mutant: any payload is taken for the answer. *)
CompareUnchecked(read, fin, i) ==
    IF Len(read.slot[i].rx) = PayloadBytes THEN {EmitPong(read, i)}
    ELSE IF fin THEN {FailStream(read, i)}
    ELSE {Ok(read)}

(* ping_read_initiator: a whole payload is compared with the one written; the *)
(* clock that gives the time of the PONG may fail.                            *)
Compare(read, fin, i) ==
    IF Len(read.slot[i].rx) = PayloadBytes
    THEN IF read.slot[i].rx = read.slot[i].tx
         THEN {EmitPong(read, i), FailStream(read, i)} ELSE {FailStream(read, i)}
    ELSE IF fin THEN {FailStream(read, i)}
    ELSE {Ok(read)}

ReadInitiator(st, i) ==
    IF st.hs[st.slot[i].stream].dead THEN {FailStream(st, i)}
    ELSE IF WouldBlock(st, i) THEN {Ok(st)}
    ELSE UNION {Compare(r.st, r.fin, i) : r \in Reads(st, i)}

(* ping_on_open: an outbound stream takes the first opening slot, whatever  *)
(* connection it was opened for, an inbound one a free slot.                *)
OnOpen(st, h) ==
    LET dir == st.hs[h].dir
        opening == IF dir = "out" THEN SlotsIn(st, "opening") ELSE {}
        free == SlotsIn(st, "free")
        Take(i, s) == [st EXCEPT !.slot[i] =
                          [s EXCEPT !.stream = h, !.dir = dir,
                              !.state = IF dir = "out" THEN "initiator_writing"
                                        ELSE "responder_reading"]]
    IN IF opening # {}
       THEN LET i == First(opening) IN WriteStream(Take(i, st.slot[i]), i)
       ELSE IF free = {} THEN {Failed(st)}
       ELSE LET i == First(free)
            IN IF dir = "in" THEN {Ok(Take(i, FreeSlot))}
               ELSE UNION {WriteStream(Take(i, Prepared(FreeSlot, p)), i) :
                           p \in Payloads}

(* ping_on_event, for the first slot that names the stream. *)
OnEvent(st, h, kind) ==
    IF SlotsOf(st, h) = {}
    THEN IF kind \in {"reset", "closed"} THEN {Ok(st)} ELSE {Failed(st)}
    ELSE LET i == First(SlotsOf(st, h))
             state == st.slot[i].state
         IN CASE kind = "reset" -> {FailStream(st, i)}
              [] kind = "closed" -> {EmitClosed(st, i)}
              [] kind = "readable" /\ state = "initiator_reading" -> ReadInitiator(st, i)
              [] kind = "readable" /\ state = "responder_reading" -> ReadResponder(st, i)
              [] kind = "writable" /\ state \in {"initiator_writing", "responder_writing"} ->
                     WriteStream(st, i)
              [] OTHER -> {Ok(st)}

----------------------------------------------------------------------------
(* The host *)
Now == [slot |-> slot, events |-> events, hs |-> hs, trouble |-> trouble]
Become(st) == /\ slot' = st.slot /\ events' = st.events /\ hs' = st.hs
              /\ trouble' = st.trouble

(* host_stream_release *)
Release(st, h) == [st EXCEPT !.hs[h] = FreeHandle]

FreeHandles == {h \in Handles : hs[h].use = "free"}

(* host_stream_alloc for a new stream of connection c: the first free handle *)
Alloc(st, c, dir) ==
    LET h == First(FreeHandles)
    IN [st EXCEPT !.hs[h] = [FreeHandle EXCEPT !.use = "negotiating", !.dir = dir,
                                               !.conn = c],
                  !.trouble = @ \/ SlotsOf(st, h) # {}]

(* libp2p_ping_initiate; without a free handle libp2p_host_open_stream fails *)
(* and the slot is given back.                                               *)
Initiate(c, p) ==
    /\ ~ConnHasOutbound(c)
    /\ SlotsIn(Now, "free") # {}
    /\ FreeHandles # {}
    /\ opened < MaxStreams
    /\ LET i == First(SlotsIn(Now, "free"))
       IN Become(Alloc([Now EXCEPT !.slot[i] =
              [Prepared(FreeSlot, p) EXCEPT !.state = "opening", !.dir = "out", !.conn = c]],
              c, "out"))
    /\ opened' = opened + 1

(* libp2p_ping_send: a fresh payload for an idle initiator; it is written at *)
(* the next writable event.                                                  *)
Send(h, p) ==
    /\ SlotsOf(Now, h) # {}
    /\ LET i == First(SlotsOf(Now, h))
       IN /\ slot[i].dir = "out" /\ slot[i].state = "initiator_idle"
          /\ slot' = [slot EXCEPT ![i] = [Prepared(@, p) EXCEPT
                                             !.state = "initiator_writing"]]
    /\ UNCHANGED <<events, hs, opened, trouble>>

(* libp2p_ping_next_event: an end wipes the slot it names. *)
NextEvent ==
    /\ events # <<>>
    /\ LET e == Head(events)
       IN slot' = IF e.type \in {"closed", "error"}
                  THEN [slot EXCEPT ![e.slot] = FreeSlot] ELSE slot
    /\ events' = Tail(events)
    /\ UNCHANGED <<hs, opened, trouble>>

(* host_stream_complete_negotiation: on_open, then both readiness flags. *)
Negotiated(h) ==
    /\ hs[h].use = "negotiating"
    /\ \E o \in OnOpen([Now EXCEPT !.hs[h].use = "open"], h) :
         Become(IF o.ok THEN [o.st EXCEPT !.hs[h].pend = @ \cup {"readable", "writable"}]
                ELSE Release(o.st, h))
    /\ UNCHANGED opened

(* host_stream_fail_negotiation: ping is not told. *)
NegotiationFails(h) ==
    /\ hs[h].use = "negotiating"
    /\ Become(Release(Now, h))
    /\ UNCHANGED opened

(* host_protocol_event_one: of the pending events of a stream the reset goes *)
(* first, then the close, readable, writable; the close releases the handle. *)
Deliver(h) ==
    /\ hs[h].use = "open"
    /\ \E kind \in hs[h].pend :
         /\ kind = "closed" => "reset" \notin hs[h].pend
         /\ kind = "readable" => hs[h].pend \cap {"reset", "closed"} = {}
         /\ kind = "writable" => hs[h].pend = {"writable"}
         /\ \E o \in OnEvent([Now EXCEPT !.hs[h].pend = @ \ {kind}], h, kind) :
              Become(IF o.ok /\ kind # "closed" THEN o.st ELSE Release(o.st, h))
    /\ UNCHANGED opened

----------------------------------------------------------------------------
(* The remote peer and the transport *)
PeerOpens(c) ==
    /\ FreeHandles # {} /\ opened < MaxStreams
    /\ Cardinality({h \in Handles : hs[h].dir = "in"}) < MaxInbound
    /\ Become(Alloc(Now, c, "in"))
    /\ opened' = opened + 1

PeerActs(h, update) ==
    /\ hs[h].use = "open" /\ ~hs[h].dead
    /\ hs' = [hs EXCEPT ![h] = update]
    /\ UNCHANGED <<slot, events, opened, trouble>>

PeerSends(h, b) ==
    /\ SumFunction([g \in Handles |-> hs[g].sentByPeer]) < MaxPeerBytes /\ ~hs[h].fin
    /\ PeerActs(h, [hs[h] EXCEPT !.in = Append(@, b), !.sentByPeer = @ + 1,
                                 !.pend = @ \cup {"readable"}])

PeerFinishes(h) ==
    /\ ~hs[h].fin
    /\ PeerActs(h, [hs[h] EXCEPT !.fin = TRUE, !.pend = @ \cup {"readable"}])

PeerResets(h) == PeerActs(h, [Ended(hs[h]) EXCEPT !.pend = @ \cup {"reset"}])

(* The transport reports the end of a stream, after a reset as well. *)
StreamEnds(h) ==
    /\ hs[h].use = "open" /\ "closed" \notin hs[h].pend
    /\ hs' = [hs EXCEPT ![h] = [Ended(@) EXCEPT !.pend = hs[h].pend \cup {"closed"}]]
    /\ UNCHANGED <<slot, events, opened, trouble>>

WritableAgain(h) ==
    /\ "writable" \notin hs[h].pend
    /\ PeerActs(h, [hs[h] EXCEPT !.pend = @ \cup {"writable"}])

Next == \/ \E c \in Conns : PeerOpens(c) \/ \E p \in Payloads : Initiate(c, p)
        \/ \E h \in Handles : \/ \E p \in Payloads : Send(h, p)
                              \/ Negotiated(h) \/ NegotiationFails(h) \/ Deliver(h)
                              \/ \E b \in Bytes : PeerSends(h, b)
                              \/ PeerFinishes(h) \/ PeerResets(h) \/ StreamEnds(h)
                              \/ WritableAgain(h)
        \/ NextEvent

Spec == Init /\ [][Next]_vars

----------------------------------------------------------------------------
Active == {"initiator_writing", "initiator_reading", "initiator_idle",
           "responder_reading", "responder_writing"}
AllBut(s, n) == SubSeq(s, 1, Len(s) - n)

Dirs == {"none", "in", "out"}
SlotRec == [state : {"free", "opening", "evented"} \cup Active, dir : Dirs,
            conn : Conns \cup {NoConn}, stream : Handles \cup {NoStream},
            tx : Seq(Nat), txPos : Nat, rx : Seq(Nat)]
HandleRec == [use : {"free", "negotiating", "open"}, dir : Dirs, conn : Conns \cup {NoConn},
              in : Seq(Nat), sentByPeer : Nat, fin : BOOLEAN, dead : BOOLEAN,
              pend : SUBSET {"reset", "closed", "readable", "writable"},
              got : Seq(Nat), wrote : Seq(Nat)]
EventRec == [type : {"pong", "closed", "error"}, slot : Slots, stream : Handles \cup {NoStream}]

(* The structures of ping and of the host keep their shape; the two buffers *)
(* of a slot hold at most a payload (ping_read_initiator and                *)
(* ping_read_responder read what is missing, ping_write_stream writes what  *)
(* is left), and the ring at most its capacity (ping_event_push).           *)
TypeOK ==
    /\ slot \in [Slots -> SlotRec]
    /\ events \in Seq(EventRec) /\ Len(events) <= EventCapacity
    /\ hs \in [Handles -> HandleRec]
    /\ opened \in Nat /\ trouble \in BOOLEAN
    /\ \A i \in Slots : slot[i].txPos <= PayloadBytes /\ Len(slot[i].rx) <= PayloadBytes

(* A PONG says that the peer echoed the ping (ping_read_initiator, memcmp): *)
(* apart from the ping in progress, everything an initiator wrote on its    *)
(* stream came back unchanged; no ping is lost, answered twice or answered  *)
(* by bytes of another stream, over repeated pings on one stream and        *)
(* partial writes and reads.                                                *)
PongHonest ==
    ~trouble => \A i \in Slots :
        slot[i].state \in {"initiator_writing", "initiator_reading", "initiator_idle"} =>
            LET h == slot[i].stream
            IN hs[h].dead \/ AllBut(hs[h].wrote, slot[i].txPos) = AllBut(hs[h].got, Len(slot[i].rx))

(* A responder echoes exactly what it read, in order and in whole payloads  *)
(* (ping_read_responder, ping_write_stream), whatever the writes accept.    *)
EchoFaithful ==
    ~trouble => \A h \in Handles :
        hs[h].use = "open" /\ hs[h].dir = "in" /\ ~hs[h].dead =>
            /\ IsPrefix(hs[h].wrote, hs[h].got)
            /\ \A i \in Slots : slot[i].stream = h =>
                 \/ slot[i].state = "responder_reading" /\ hs[h].got = hs[h].wrote \o slot[i].rx
                 \/ /\ slot[i].state = "responder_writing"
                    /\ hs[h].got = AllBut(hs[h].wrote, slot[i].txPos) \o slot[i].tx
                 \/ slot[i].state \in {"free", "evented"}

(* A slot in use names an open stream of its direction and no other slot    *)
(* names that stream, so that ping_find_stream finds the right slot; after  *)
(* an event lost at the full ring, a failed callback or a handle reused     *)
(* under a slot not yet collected this no longer holds (trouble).           *)
SlotsBacked ==
    ~trouble => \A i \in Slots : slot[i].state \in Active =>
        /\ slot[i].stream \in Handles
        /\ hs[slot[i].stream].use = "open"
        /\ hs[slot[i].stream].dir = slot[i].dir
        /\ SlotsOf(Now, slot[i].stream) = {i}

(* What happens after trouble is not explored: it is never left. *)
Clean == ~trouble
=============================================================================
