-------------------------------- MODULE Host --------------------------------
(***************************************************************************)
(* The host: connections, streams, stream opens, dials and the queue of    *)
(* public events (src/src/libp2p/libp2p_host_*.c).                          *)
(*                                                                          *)
(* One thread calls the host.  Between two calls pc is "app"; inside        *)
(* libp2p_host_drive it is the phase of the loop: "transport", "open",      *)
(* "negotiate", "protocol", "recycle", "close".  The loop is left after any *)
(* iteration: a call of drive that goes on equals two calls in a row.       *)
(* When the transport reports that a connection is closed, pc is            *)
(* "failOpens" and "closeStreams" for the two loops of that handler.        *)
(*                                                                          *)
(* The transport is external.  It chooses which event it has, whether an    *)
(* open succeeds or has to wait, and whether conn_release has to wait.  Its *)
(* stream objects live as long as their connection and its connections      *)
(* until conn_release, so a transport handle never names two host slots.    *)
(* What a negotiation step reads and writes is in HostNegotiation; here it  *)
(* completes, fails or goes on.  The protocol callbacks may fail; none of   *)
(* those in src/src/protocol opens, dials, cancels or closes.               *)
(***************************************************************************)
EXTENDS Integers, Sequences, FiniteSets

CONSTANTS
    MaxConns,            \* config.max_connections
    MaxStreamsPerConn,   \* config.max_streams_per_conn
    MaxOpens,            \* config.max_pending_stream_opens
    MaxDials,            \* config.max_pending_dials
    EventCapacity        \* config.event_capacity

\* host_config_validate
ASSUME HostAssumption ==
    /\ {MaxConns, MaxStreamsPerConn, MaxOpens, MaxDials, EventCapacity} \subseteq Nat \ {0}
    /\ EventCapacity > MaxOpens

Conns == 1 .. MaxConns
Streams == 1 .. MaxConns * MaxStreamsPerConn
Opens == 1 .. MaxOpens
Dials == 1 .. MaxDials
None == 0

VARIABLES
    hostState,   \* "STARTED", "CLOSING" or "CLOSED"
    conns,       \* connection slots
    streams,     \* stream slots
    opens,       \* slots of pending stream opens
    dials,       \* slots of pending dials: "FREE", "PENDING" or "EVENTED"
    events,      \* the public events, oldest first
    pc,          \* where the thread is
    cur,         \* the connection whose end is being handled, or None
    held,        \* the connections the application was told of
    lost,        \* history: an event found the queue full
    late         \* history: a connection was established during shutdown

vars == <<hostState, conns, streams, opens, dials, events, pc, cur, held, lost, late>>

Kinds == {"RESET", "CLOSED", "READABLE", "WRITABLE"}

Conn == [active : BOOLEAN, closed : BOOLEAN, closeEvent : BOOLEAN, requested : BOOLEAN,
         streamCount : Nat, openCount : Nat]
Stream == [state : {"FREE", "NEGOTIATING", "OPEN"}, conn : Conns \cup {None},
           outbound : BOOLEAN, open : Opens \cup {None}, pending : SUBSET Kinds]
Open == [state : {"FREE", "WAIT_TRANSPORT", "NEGOTIATING", "EVENTED"}, conn : Conns \cup {None}]
Event == [type : {"CONN_ESTABLISHED", "CONN_CLOSED", "DIAL_FAILED", "STREAM_OPENED",
                  "STREAM_OPEN_FAILED", "HOST_CLOSED"},
          conn : Conns \cup {None}, stream : Streams \cup {None}, open : Opens \cup {None},
          dial : Dials \cup {None}]

FreeConn == [active |-> FALSE, closed |-> FALSE, closeEvent |-> FALSE, requested |-> FALSE,
             streamCount |-> 0, openCount |-> 0]
FreeStream == [state |-> "FREE", conn |-> None, outbound |-> FALSE, open |-> None, pending |-> {}]
FreeOpen == [state |-> "FREE", conn |-> None]

Ev(type, c, s, o, d) ==
    [type |-> type, conn |-> c, stream |-> s, open |-> o, dial |-> d]

-----------------------------------------------------------------------------
(***************************************************************************)
(* Slots and the event queue.                                              *)
(***************************************************************************)

\* host_conn_validate_usable
Usable(c) == conns[c].active /\ ~conns[c].closed

Decremented(n) == IF n = 0 THEN 0 ELSE n - 1

Room == Len(events) < EventCapacity

\* host_transport_event_capacity_available
TransportRoom == EventCapacity - Len(events) > MaxOpens

\* host_event_push, on the queue q
Push(q, ev) ==
    /\ events' = IF Len(q) < EventCapacity THEN Append(q, ev) ELSE q
    /\ lost' = (lost \/ Len(q) >= EventCapacity)

\* The slot the searches for a free connection, open or dial find.
FirstFreeConn(c) == ~conns[c].active /\ \A b \in 1 .. c - 1 : conns[b].active
FirstFreeStream(s) ==
    streams[s].state = "FREE" /\ \A r \in 1 .. s - 1 : streams[r].state # "FREE"
FirstFreeOpen(o) == opens[o].state = "FREE" /\ \A p \in 1 .. o - 1 : opens[p].state # "FREE"
FirstFreeDial(d) == dials[d] = "FREE" /\ \A e \in 1 .. d - 1 : dials[e] # "FREE"

\* Mutant: the connection is recycled while a stream still refers to it.
RecyclableIgnoringStreams(cn) ==
    cn.active /\ cn.closed /\ ~cn.closeEvent /\ cn.openCount = 0

Recyclable(cn) ==
    cn.active /\ cn.closed /\ ~cn.closeEvent /\ cn.streamCount = 0 /\ cn.openCount = 0

\* host_conn_try_recycle on slot c of table cs: the tables it may leave.  The
\* transport may answer conn_release with WOULD_BLOCK.
TryRecycle(cs, c) ==
    {cs} \cup {[cs EXCEPT ![c] = FreeConn] : x \in {y \in {c} : Recyclable(cs[y])}}

\* host_stream_alloc for connection c.
StreamRoom(c) ==
    /\ conns[c].streamCount < MaxStreamsPerConn
    /\ \E s \in Streams : streams[s].state = "FREE"

StreamAlloc(c, o, cs) ==
    \E s \in Streams :
        /\ FirstFreeStream(s)
        /\ streams' = [streams EXCEPT ![s] =
                         [state |-> "NEGOTIATING", conn |-> c, outbound |-> o # None, open |-> o,
                          pending |-> {}]]
        /\ conns' = [cs EXCEPT ![c].streamCount = @ + 1]

\* host_stream_release, when the open of the stream, if any, has been answered.
\* It is: a stream that ends while it negotiates answers its open first.
StreamRelease(s) ==
    LET c == streams[s].conn
    IN  /\ streams' = [streams EXCEPT ![s] = FreeStream]
        /\ conns' \in TryRecycle([conns EXCEPT ![c].streamCount = Decremented(@)], c)

\* A pending open is answered with an event of this type.  (A full queue, which
\* NoEventLost excludes, would make the code give the open up.)
Answer(o, type, s) ==
    /\ Push(events, Ev(type, opens[o].conn, s, o, None))
    /\ opens' = [opens EXCEPT ![o] =
                   IF Room THEN [@ EXCEPT !.state = "EVENTED"] ELSE FreeOpen]

\* host_stream_fail_negotiation: the open of an outbound stream is answered, the
\* stream is released.
FailNegotiation(s) ==
    /\ IF streams[s].outbound
       THEN Answer(streams[s].open, "STREAM_OPEN_FAILED", None)
       ELSE UNCHANGED <<opens, events, lost>>
    /\ StreamRelease(s)

-----------------------------------------------------------------------------
(***************************************************************************)
(* The application.                                                        *)
(***************************************************************************)

\* libp2p_host_dial, when the transport takes the dial.
Dial(d) ==
    /\ pc = "app" /\ hostState = "STARTED"
    /\ FirstFreeDial(d)
    /\ dials' = [dials EXCEPT ![d] = "PENDING"]
    /\ UNCHANGED <<hostState, conns, streams, opens, events, pc, cur, held, lost, late>>

\* libp2p_host_open_stream, when the transport has no stream yet ...
OpenStreamWait(c, o) ==
    /\ pc = "app" /\ hostState = "STARTED"
    /\ c \in held /\ Usable(c) /\ FirstFreeOpen(o)
    /\ opens' = [opens EXCEPT ![o] = [state |-> "WAIT_TRANSPORT", conn |-> c]]
    /\ conns' = [conns EXCEPT ![c].openCount = @ + 1]
    /\ UNCHANGED <<hostState, streams, dials, events, pc, cur, held, lost, late>>

\* ... and when it has one and there is a slot for it.  A call that fails leaves
\* everything as it was.
OpenStream(c, o) ==
    /\ pc = "app" /\ hostState = "STARTED"
    /\ c \in held /\ Usable(c) /\ FirstFreeOpen(o) /\ StreamRoom(c)
    /\ opens' = [opens EXCEPT ![o] = [state |-> "NEGOTIATING", conn |-> c]]
    /\ StreamAlloc(c, o, [conns EXCEPT ![c].openCount = @ + 1])
    /\ UNCHANGED <<hostState, dials, events, pc, cur, held, lost, late>>

\* libp2p_host_stream_open_cancel of an open that waits for the transport ...
CancelWaiting(o) ==
    LET c == opens[o].conn
    IN  /\ pc = "app" /\ hostState # "CLOSED"
        /\ opens[o].state = "WAIT_TRANSPORT"
        /\ opens' = [opens EXCEPT ![o] = FreeOpen]
        /\ conns' \in TryRecycle([conns EXCEPT ![c].openCount = Decremented(@)], c)
        /\ UNCHANGED <<hostState, streams, dials, events, pc, cur, held, lost, late>>

\* ... and of one that negotiates: its stream is reset and released.
CancelNegotiating(o, s) ==
    LET c == opens[o].conn
    IN  /\ pc = "app" /\ hostState # "CLOSED"
        /\ opens[o].state = "NEGOTIATING"
        /\ streams[s].state # "FREE" /\ streams[s].open = o
        /\ opens' = [opens EXCEPT ![o] = FreeOpen]
        /\ streams' = [streams EXCEPT ![s] = FreeStream]
        /\ conns' \in TryRecycle([conns EXCEPT ![c].openCount = Decremented(@),
                                               ![c].streamCount = Decremented(@)], c)
        /\ UNCHANGED <<hostState, dials, events, pc, cur, held, lost, late>>

\* libp2p_host_conn_close, when the transport takes it.
ConnClose(c) ==
    /\ pc = "app" /\ hostState # "CLOSED"
    /\ c \in held /\ Usable(c)
    /\ conns' = [conns EXCEPT ![c].requested = TRUE]
    /\ UNCHANGED <<hostState, streams, opens, dials, events, pc, cur, held, lost, late>>

\* libp2p_host_close: conn_close for each connection, until one fails (stop).
HostClose(stop) ==
    /\ pc = "app" /\ hostState = "STARTED"
    /\ hostState' = "CLOSING"
    /\ conns' = [c \in Conns |->
                   IF c < stop /\ Usable(c) THEN [conns[c] EXCEPT !.requested = TRUE]
                   ELSE conns[c]]
    /\ UNCHANGED <<streams, opens, dials, events, pc, cur, held, lost, late>>

\* Mutant: the open of a delivered event is not released.
NextEventKeepsOpen ==
    LET ev == Head(events)
    IN  /\ pc = "app" /\ events # <<>>
        /\ events' = Tail(events)
        /\ dials' = [d \in Dials |-> IF d = ev.dial THEN "FREE" ELSE dials[d]]
        /\ held' = (IF ev.type = "CONN_ESTABLISHED" THEN held \cup {ev.conn}
                    ELSE IF ev.type = "CONN_CLOSED" THEN held \ {ev.conn} ELSE held)
        /\ conns' = IF ev.type = "CONN_CLOSED"
                    THEN [conns EXCEPT ![ev.conn].closeEvent = FALSE] ELSE conns
        /\ UNCHANGED <<hostState, streams, opens, pc, cur, lost, late>>

\* libp2p_host_next_event: the dial or the open of the event is free again, and
\* the connection may be recycled.
NextEvent ==
    LET ev == Head(events)
        c == ev.conn
        cs == IF ev.open # None THEN [conns EXCEPT ![c].openCount = Decremented(@)]
              ELSE IF ev.type = "CONN_CLOSED" THEN [conns EXCEPT ![c].closeEvent = FALSE]
              ELSE conns
    IN  /\ pc = "app" /\ events # <<>>
        /\ events' = Tail(events)
        /\ dials' = [d \in Dials |-> IF d = ev.dial THEN "FREE" ELSE dials[d]]
        /\ opens' = [o \in Opens |-> IF o = ev.open THEN FreeOpen ELSE opens[o]]
        /\ streams' = [s \in Streams |->
                         IF s = ev.stream /\ ev.open # None /\ streams[s].open = ev.open
                         THEN [streams[s] EXCEPT !.open = None] ELSE streams[s]]
        /\ IF ev.open # None \/ ev.type = "CONN_CLOSED"
           THEN conns' \in TryRecycle(cs, c)
           ELSE UNCHANGED conns
        /\ held' = (IF ev.type = "CONN_ESTABLISHED" THEN held \cup {c}
                    ELSE IF ev.type = "CONN_CLOSED" THEN held \ {c} ELSE held)
        /\ UNCHANGED <<hostState, pc, cur, lost, late>>

-----------------------------------------------------------------------------
(***************************************************************************)
(* libp2p_host_drive: the transport's event.                               *)
(***************************************************************************)

Drive ==
    /\ pc = "app" /\ hostState # "CLOSED"
    /\ pc' = "transport"
    /\ UNCHANGED <<hostState, conns, streams, opens, dials, events, cur, held, lost, late>>

\* The transport has no event, or there is no room for what it may lead to.
TransportIdle ==
    /\ pc = "transport"
    /\ pc' = "open"
    /\ UNCHANGED <<hostState, conns, streams, opens, dials, events, cur, held, lost, late>>

\* Mutant: one free place is enough to take an event of the transport.
TransportStepWithRoom == pc = "transport" /\ Room /\ pc' \in {"open", "failOpens"}

TransportStep == pc = "transport" /\ TransportRoom /\ pc' \in {"open", "failOpens"}

\* host_dial_find and host_dial_mark_evented, for None too.
DialEvented(d) == [e \in Dials |-> IF e = d THEN "EVENTED" ELSE dials[e]]

\* host_transport_event_conn_established, for the dial d or an incoming one.
ConnEstablished(c, d) ==
    /\ TransportStep /\ pc' = "open"
    /\ FirstFreeConn(c)
    /\ d # None => dials[d] = "PENDING"
    /\ conns' = [conns EXCEPT ![c] = [FreeConn EXCEPT !.active = TRUE]]
    /\ dials' = DialEvented(d)
    /\ Push(events, Ev("CONN_ESTABLISHED", c, None, None, d))
    /\ late' = (late \/ hostState = "CLOSING")
    /\ UNCHANGED <<hostState, streams, opens, cur, held>>

\* host_transport_event_dial_failed; the end of a connection that was never
\* established says the same.
DialFailed(d) ==
    /\ TransportStep /\ pc' = "open"
    /\ dials[d] = "PENDING"
    /\ dials' = DialEvented(d)
    /\ Push(events, Ev("DIAL_FAILED", None, None, None, d))
    /\ UNCHANGED <<hostState, conns, streams, opens, cur, held, late>>

\* host_transport_event_conn_closed begins.
ConnClosed(c) ==
    /\ TransportStep /\ pc' = "failOpens"
    /\ Usable(c)
    /\ cur' = c
    /\ UNCHANGED <<hostState, conns, streams, opens, dials, events, held, lost, late>>

\* host_conn_fail_waiting_opens, one open; a push that fails ends drive.
FailWaitingOpen(o) ==
    /\ pc = "failOpens"
    /\ opens[o].state = "WAIT_TRANSPORT" /\ opens[o].conn = cur
    /\ Answer(o, "STREAM_OPEN_FAILED", None)
    /\ pc' = IF Room THEN pc ELSE "app"
    /\ cur' = IF Room THEN cur ELSE None
    /\ UNCHANGED <<hostState, conns, streams, dials, held, late>>

\* Mutant: the opens that wait for the transport are not answered.
FailOpensSkipped ==
    /\ pc = "failOpens"
    /\ pc' = "closeStreams"
    /\ UNCHANGED <<hostState, conns, streams, opens, dials, events, cur, held, lost, late>>

FailOpensDone ==
    /\ pc = "failOpens"
    /\ \A o \in Opens : ~(opens[o].state = "WAIT_TRANSPORT" /\ opens[o].conn = cur)
    /\ pc' = "closeStreams"
    /\ UNCHANGED <<hostState, conns, streams, opens, dials, events, cur, held, lost, late>>

\* host_conn_close_streams, one stream: a negotiation fails, an open stream is
\* told later.
CloseStreamFail(s) ==
    /\ pc = "closeStreams" /\ streams[s].conn = cur /\ streams[s].state = "NEGOTIATING"
    /\ FailNegotiation(s)
    /\ pc' = IF Room THEN pc ELSE "app"
    /\ cur' = IF Room THEN cur ELSE None
    /\ UNCHANGED <<hostState, dials, held, late>>

\* Mutant: the streams that are open are not told.
ConnClosedDoneSilent ==
    /\ pc = "closeStreams"
    /\ \A s \in Streams : ~(streams[s].conn = cur /\ streams[s].state = "NEGOTIATING")
    /\ conns' = [conns EXCEPT ![cur].closed = TRUE, ![cur].closeEvent = TRUE]
    /\ Push(events, Ev("CONN_CLOSED", cur, None, None, None))
    /\ pc' = "open" /\ cur' = None
    /\ UNCHANGED <<hostState, streams, opens, dials, held, late>>

\* The rest of both handlers.
ConnClosedDone ==
    /\ pc = "closeStreams"
    /\ \A s \in Streams : ~(streams[s].conn = cur /\ streams[s].state = "NEGOTIATING")
    /\ streams' = [s \in Streams |->
                     IF streams[s].conn = cur
                     THEN [streams[s] EXCEPT !.pending = @ \cup {"CLOSED"}] ELSE streams[s]]
    /\ conns' = [conns EXCEPT ![cur].closed = TRUE, ![cur].closeEvent = TRUE]
    /\ Push(events, Ev("CONN_CLOSED", cur, None, None, None))
    /\ pc' = "open" /\ cur' = None
    /\ UNCHANGED <<hostState, opens, dials, held, late>>

\* host_transport_event_stream_incoming, when there is room for the stream;
\* otherwise the stream is reset.
StreamIncoming(c) ==
    /\ TransportStep /\ pc' = "open"
    /\ Usable(c) /\ StreamRoom(c)
    /\ StreamAlloc(c, None, conns)
    /\ UNCHANGED <<hostState, opens, dials, events, cur, held, lost, late>>

\* host_transport_event_stream_mark
StreamMark(s, kind) ==
    /\ TransportStep /\ pc' = "open"
    /\ streams[s].state = "OPEN" \/ (streams[s].state = "NEGOTIATING" /\ kind \in {"READABLE", "WRITABLE"})
    /\ Usable(streams[s].conn)
    /\ streams' = [streams EXCEPT ![s].pending = @ \cup {kind}]
    /\ UNCHANGED <<hostState, conns, opens, dials, events, cur, held, lost, late>>

\* ... and the end of a stream that negotiates.
StreamEnd(s) ==
    /\ TransportStep /\ pc' = "open"
    /\ streams[s].state = "NEGOTIATING"
    /\ FailNegotiation(s)
    /\ UNCHANGED <<hostState, dials, cur, held, late>>

\* The transport fails, or a connection is established and there is no slot for it
\* (ERR_LIMIT): drive returns.
DriveError ==
    /\ pc = "transport"
    /\ pc' = "app"
    /\ UNCHANGED <<hostState, conns, streams, opens, dials, events, cur, held, lost, late>>

-----------------------------------------------------------------------------
(***************************************************************************)
(* libp2p_host_drive: the other phases.                                    *)
(***************************************************************************)

\* host_stream_open_retry_one: the transport has a stream now ...
RetryOpen(o) ==
    /\ pc = "open" /\ pc' = "negotiate" /\ Room
    /\ opens[o].state = "WAIT_TRANSPORT" /\ StreamRoom(opens[o].conn)
    /\ opens' = [opens EXCEPT ![o].state = "NEGOTIATING"]
    /\ StreamAlloc(opens[o].conn, o, conns)
    /\ UNCHANGED <<hostState, dials, events, cur, held, lost, late>>

\* ... or fails, or there is no slot for the stream.
RetryFailed(o) ==
    /\ pc = "open" /\ pc' = "negotiate" /\ Room
    /\ opens[o].state = "WAIT_TRANSPORT"
    /\ Answer(o, "STREAM_OPEN_FAILED", None)
    /\ UNCHANGED <<hostState, conns, streams, dials, cur, held, late>>

RetryNone ==
    /\ pc = "open" /\ pc' = "negotiate"
    /\ UNCHANGED <<hostState, conns, streams, opens, dials, events, cur, held, lost, late>>

\* Mutant: the stream is open before its open has been answered.
NegotiatedSilent(s) ==
    /\ pc = "negotiate" /\ pc' = "protocol" /\ Room
    /\ streams[s].state = "NEGOTIATING"
    /\ streams' = [streams EXCEPT ![s].state = "OPEN",
                                  ![s].pending = @ \cup {"READABLE", "WRITABLE"}]
    /\ UNCHANGED <<opens, events, lost>>
    /\ UNCHANGED <<hostState, conns, dials, cur, held, late>>

\* host_stream_complete_negotiation: on_open is called, and the stream has its
\* first events.
Negotiated(s) ==
    /\ pc = "negotiate" /\ pc' = "protocol" /\ Room
    /\ streams[s].state = "NEGOTIATING"
    /\ streams' = [streams EXCEPT ![s].state = "OPEN",
                                  ![s].pending = @ \cup {"READABLE", "WRITABLE"}]
    /\ IF streams[s].outbound
       THEN Answer(streams[s].open, "STREAM_OPENED", s)
       ELSE UNCHANGED <<opens, events, lost>>
    /\ UNCHANGED <<hostState, conns, dials, cur, held, late>>

\* The negotiation or on_open fails.
NegotiationFailed(s) ==
    /\ pc = "negotiate" /\ pc' = "protocol" /\ Room
    /\ streams[s].state = "NEGOTIATING"
    /\ FailNegotiation(s)
    /\ UNCHANGED <<hostState, dials, cur, held, late>>

NegotiateNone ==
    /\ pc = "negotiate" /\ pc' = "protocol"
    /\ UNCHANGED <<hostState, conns, streams, opens, dials, events, cur, held, lost, late>>

\* host_protocol_event_one: the event of an open stream that comes first.
Pending(s) == streams[s].state = "OPEN" /\ streams[s].pending # {}

NextKind(s) ==
    CASE "RESET" \in streams[s].pending -> "RESET"
      [] "CLOSED" \in streams[s].pending -> "CLOSED"
      [] "READABLE" \in streams[s].pending -> "READABLE"
      [] OTHER -> "WRITABLE"

\* on_event succeeds.
ProtocolEvent(s) ==
    /\ pc = "protocol" /\ pc' = "recycle"
    /\ Pending(s)
    /\ IF NextKind(s) = "CLOSED"
       THEN StreamRelease(s)
       ELSE /\ streams' = [streams EXCEPT ![s].pending = @ \ {NextKind(s)}]
            /\ UNCHANGED conns
    /\ UNCHANGED <<hostState, opens, dials, events, cur, held, lost, late>>

\* on_event fails: host_protocol_call_event resets and releases the stream, and
\* drive returns.
ProtocolError(s) ==
    /\ pc = "protocol" /\ pc' = "app"
    /\ Pending(s)
    /\ StreamRelease(s)
    /\ UNCHANGED <<hostState, opens, dials, events, cur, held, lost, late>>

ProtocolNone ==
    /\ pc = "protocol" /\ pc' = "recycle"
    /\ \A s \in Streams : ~Pending(s)
    /\ UNCHANGED <<hostState, conns, streams, opens, dials, events, cur, held, lost, late>>

\* host_conn_recycle_quiet
Recycle(released) ==
    /\ pc = "recycle" /\ pc' = "close"
    /\ \A c \in released : Recyclable(conns[c])
    /\ conns' = [c \in Conns |-> IF c \in released THEN FreeConn ELSE conns[c]]
    /\ UNCHANGED <<hostState, streams, opens, dials, events, cur, held, lost, late>>

\* host_has_active_work
ActiveWork ==
    \/ \E c \in Conns : Usable(c)
    \/ \E s \in Streams : streams[s].state # "FREE"
    \/ \E d \in Dials : dials[d] = "PENDING"
    \/ \E o \in Opens : opens[o].state \in {"WAIT_TRANSPORT", "NEGOTIATING"}

\* host_close_maybe_complete
CloseComplete ==
    /\ pc = "close" /\ pc' = "app"
    /\ hostState = "CLOSING" /\ Room /\ ~ActiveWork
    /\ hostState' = "CLOSED"
    /\ Push(events, Ev("HOST_CLOSED", None, None, None, None))
    /\ UNCHANGED <<conns, streams, opens, dials, cur, held, late>>

CloseNot ==
    /\ pc = "close" /\ pc' = "app"
    /\ ~(hostState = "CLOSING" /\ Room /\ ~ActiveWork)
    /\ UNCHANGED <<hostState, conns, streams, opens, dials, events, cur, held, lost, late>>

-----------------------------------------------------------------------------
\* After libp2p_host_init and libp2p_host_start.
Init ==
    /\ hostState = "STARTED"
    /\ conns = [c \in Conns |-> FreeConn]
    /\ streams = [s \in Streams |-> FreeStream]
    /\ opens = [o \in Opens |-> FreeOpen]
    /\ dials = [d \in Dials |-> "FREE"]
    /\ events = <<>>
    /\ pc = "app" /\ cur = None
    /\ held = {} /\ lost = FALSE /\ late = FALSE

AppCall ==
    \/ \E d \in Dials : Dial(d)
    \/ \E c \in Conns, o \in Opens : OpenStreamWait(c, o) \/ OpenStream(c, o)
    \/ \E o \in Opens : CancelWaiting(o) \/ \E s \in Streams : CancelNegotiating(o, s)
    \/ \E c \in Conns : ConnClose(c)
    \/ \E stop \in 1 .. MaxConns + 1 : HostClose(stop)

TransportEvent ==
    \/ \E c \in Conns, d \in Dials \cup {None} : ConnEstablished(c, d)
    \/ \E d \in Dials : DialFailed(d)
    \/ \E c \in Conns : ConnClosed(c) \/ StreamIncoming(c)
    \/ \E s \in Streams : StreamEnd(s) \/ \E kind \in Kinds : StreamMark(s, kind)
    \/ DriveError

\* The handler of the end of a connection.
ConnClosedStep ==
    \/ \E o \in Opens : FailWaitingOpen(o)
    \/ FailOpensDone
    \/ \E s \in Streams : CloseStreamFail(s)
    \/ ConnClosedDone

OpenPhase == RetryNone \/ \E o \in Opens : RetryOpen(o) \/ RetryFailed(o)
NegotiatePhase == NegotiateNone \/ \E s \in Streams : Negotiated(s) \/ NegotiationFailed(s)
ProtocolPhase == ProtocolNone \/ \E s \in Streams : ProtocolEvent(s) \/ ProtocolError(s)
RecyclePhase == \E released \in SUBSET Conns : Recycle(released)
ClosePhase == CloseComplete \/ CloseNot

Next ==
    \/ AppCall \/ NextEvent \/ Drive
    \/ TransportIdle \/ TransportEvent \/ ConnClosedStep
    \/ OpenPhase \/ NegotiatePhase \/ ProtocolPhase \/ RecyclePhase \/ ClosePhase

Spec == Init /\ [][Next]_vars

\* The application drives the host and takes its events, neither the transport nor
\* a callback fails for ever, and the transport ends every connection it was told to
\* close and every dial (QUIC's timeouts); it gives the host no other promise.
Fairness ==
    /\ SF_vars(NextEvent) /\ SF_vars(Drive)
    /\ SF_vars(TransportIdle) /\ WF_vars(ConnClosedStep)
    /\ WF_vars(OpenPhase) /\ WF_vars(NegotiatePhase) /\ WF_vars(ProtocolPhase)
    /\ WF_vars(RecyclePhase) /\ WF_vars(ClosePhase)
    /\ \A c \in Conns : SF_vars(conns[c].requested /\ ConnClosed(c))
    /\ \A d \in Dials : SF_vars(DialFailed(d))
    /\ \A s \in Streams : SF_vars(ProtocolEvent(s))

FairSpec == Spec /\ Fairness
-----------------------------------------------------------------------------
(***************************************************************************)
(* Properties.                                                             *)
(***************************************************************************)

\* Every variable has its type.
TypeOK ==
    /\ hostState \in {"STARTED", "CLOSING", "CLOSED"}
    /\ conns \in [Conns -> Conn]
    /\ streams \in [Streams -> Stream]
    /\ opens \in [Opens -> Open]
    /\ dials \in [Dials -> {"FREE", "PENDING", "EVENTED"}]
    /\ events \in Seq(Event) /\ Len(events) <= EventCapacity
    /\ pc \in {"app", "transport", "failOpens", "closeStreams", "open", "negotiate", "protocol",
               "recycle", "close"}
    /\ cur \in Conns \cup {None}
    /\ held \subseteq Conns
    /\ lost \in BOOLEAN /\ late \in BOOLEAN

\* No event is ever pushed to a full queue: libp2p_host_drive takes an event of the
\* transport only when there is room for everything it can lead to ("A connection
\* close can fail every pending open before emitting its close event.").
NoEventLost == ~lost

\* Every pending open and every pending dial that was answered has exactly one event
\* in the queue, and no other has one: the application hears of each exactly once.
AnsweredOnce ==
    /\ \A o \in Opens :
         Cardinality({i \in 1 .. Len(events) : events[i].open = o})
           = IF opens[o].state = "EVENTED" THEN 1 ELSE 0
    /\ \A d \in Dials :
         Cardinality({i \in 1 .. Len(events) : events[i].dial = d})
           = IF dials[d] = "EVENTED" THEN 1 ELSE 0

\* A connection slot is not given back while anything refers to it: a stream, an
\* open, an event that was not delivered, or the application, which holds it from
\* CONN_ESTABLISHED until CONN_CLOSED; the counters that decide when it is given
\* back count the streams and the opens that refer to it.
ConnsStayValid ==
    /\ \A s \in Streams : streams[s].state # "FREE" => conns[streams[s].conn].active
    /\ \A o \in Opens : opens[o].state # "FREE" => conns[opens[o].conn].active
    /\ \A i \in 1 .. Len(events) : events[i].conn # None => conns[events[i].conn].active
    /\ \A c \in held : conns[c].active
    /\ \A c \in Conns :
         /\ conns[c].streamCount =
              Cardinality({s \in Streams : streams[s].state # "FREE" /\ streams[s].conn = c})
         /\ conns[c].openCount =
              Cardinality({o \in Opens : opens[o].state # "FREE" /\ opens[o].conn = c})

\* Nothing is orphaned: an open that negotiates has exactly one stream, which the
\* negotiation will end, and a stream that outlives its connection is on its way
\* out, its protocol about to be told.
NoOrphans ==
    /\ \A o \in Opens :
         opens[o].state = "NEGOTIATING" =>
             Cardinality({s \in Streams : streams[s].state = "NEGOTIATING" /\ streams[s].open = o}) = 1
    /\ \A s \in Streams :
         streams[s].state # "FREE" /\ conns[streams[s].conn].closed
             => streams[s].state = "OPEN" /\ "CLOSED" \in streams[s].pending

\* Shutdown completes, if no connection is established once it has begun and the
\* transport took every conn_close.
ShutdownCompletes ==
    (hostState = "CLOSING" /\ ~late /\ \A c \in Conns : Usable(c) => conns[c].requested)
        ~> (hostState = "CLOSED" \/ late)

\* Every pending open of a connection that is told to close is answered or
\* cancelled, wherever it is when the connection ends.
OpensAnswered ==
    \A o \in Opens :
        (opens[o].state \in {"WAIT_TRANSPORT", "NEGOTIATING"} /\ conns[opens[o].conn].requested)
            ~> opens[o].state \in {"EVENTED", "FREE"}

=============================================================================
